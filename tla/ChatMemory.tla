------------------------------ MODULE ChatMemory ------------------------------
(***************************************************************************)
(* The chat and its memory (ai.service.ts, ai/memory, ai/execution): turns *)
(* of a conversation run concurrently, each from one await to the next,    *)
(* and share the session that a process-wide Map keeps for them.           *)
(*                                                                         *)
(* Timestamps grow with the order of the calls, so that sorting by them    *)
(* changes nothing.  A session that does not exist yet is an empty one:    *)
(* nothing but a crash takes a session away.  Neither the router, nor the  *)
(* execution engine, nor the generator throws: each answers with a         *)
(* fallback instead.                                                       *)
(***************************************************************************)
EXTENDS Integers, Sequences, FiniteSets

CONSTANTS
    Sessions, Turns,
    MaxMessages,          \* MAX_CHAT_HISTORY_MESSAGES
    ContextMessages,      \* MAX_CONTEXT_MESSAGES
    SummaryTrigger,       \* SUMMARY_TRIGGER_MESSAGE_COUNT
    Budget,               \* MAX_CONTEXT_TOKEN_BUDGET
    Tokens                \* the length of each message

Roles == {"user", "assistant"}
Messages == [turn : Turns, role : Roles]

\* memory.constants.ts: 6 <= 10 <= 20.
ASSUME LimitsAssumption ==
    /\ ContextMessages \in Nat \ {0} /\ SummaryTrigger \in Nat /\ MaxMessages \in Nat
    /\ ContextMessages <= SummaryTrigger /\ SummaryTrigger <= MaxMessages
ASSUME TokensAssumption == Budget \in Nat /\ Tokens \in [Messages -> Nat]
ASSUME TurnsAssumption == IsFiniteSet(Turns) /\ "none" \notin Turns \cup Sessions

VARIABLES
    messages, summaries, lastToolResult,     \* the Map: the session of each id
    pc,            \* where each turn waits
    in,            \* the session of each turn
    context,       \* the memory context each turn hands to the generator
    transcript,    \* what the summary that a turn has begun is made of
    said           \* history: all messages of a session since it began

vars == <<messages, summaries, lastToolResult, pc, in, context, transcript, said>>

Question(t) == [turn |-> t, role |-> "user"]
Reply(t)    == [turn |-> t, role |-> "assistant"]

\* A process that starts has an empty Map.
EmptyStore ==
    /\ messages' = [s \in Sessions |-> <<>>]
    /\ summaries' = [s \in Sessions |-> <<>>]
    /\ lastToolResult' = [s \in Sessions |-> "none"]

NoContext == [summary |-> <<>>, relevantHistory |-> <<>>, previousToolResult |-> "none"]

Init ==
    /\ messages = [s \in Sessions |-> <<>>]
    /\ summaries = [s \in Sessions |-> <<>>]
    /\ lastToolResult = [s \in Sessions |-> "none"]
    /\ pc = [t \in Turns |-> "idle"]
    /\ in = [t \in Turns |-> "none"]
    /\ context = [t \in Turns |-> NoContext]
    /\ transcript = [t \in Turns |-> <<>>]
    /\ said = [s \in Sessions |-> <<>>]

-----------------------------------------------------------------------------
(* memory.utils.ts                                                           *)

\* The last n of a sequence, or all of them.
LastOf(seq, n) == IF Len(seq) <= n THEN seq ELSE SubSeq(seq, Len(seq) - n + 1, Len(seq))

\* Mutant: the oldest messages are kept.
trimMessages_Oldest(seq, n) == IF Len(seq) <= n THEN seq ELSE SubSeq(seq, 1, n)

trimMessages(seq, n) == LastOf(seq, n)

\* Mutant: the message that exceeds the budget is still taken.
findRelevantMessages_Late(seq) ==
    LET recent == LastOf(seq, ContextMessages)
        Spent[i \in 1..(Len(recent) + 1)] ==
            IF i > Len(recent) THEN 0 ELSE Tokens[recent[i]] + Spent[i + 1]
        From[i \in 1..Len(recent)] ==
            IF i = 1 \/ Spent[i] > Budget THEN i ELSE From[i - 1]
    IN  IF recent = <<>> THEN <<>> ELSE SubSeq(recent, From[Len(recent)], Len(recent))

\* From the newest back, as long as the next fits the budget; the newest in any case.
findRelevantMessages(seq) ==
    LET recent == LastOf(seq, ContextMessages)
        Spent[i \in 1..(Len(recent) + 1)] ==
            IF i > Len(recent) THEN 0 ELSE Tokens[recent[i]] + Spent[i + 1]
        From[i \in 1..Len(recent)] ==
            IF i = 1 \/ Spent[i - 1] > Budget THEN i ELSE From[i - 1]
    IN  IF recent = <<>> THEN <<>> ELSE SubSeq(recent, From[Len(recent)], Len(recent))

\* generateDeterministicSummary: the last three questions.
Topics(seq) == LastOf(SelectSeq(seq, LAMBDA m : m.role = "user"), 3)

-----------------------------------------------------------------------------
(* chat                                                                      *)

Push(s, m) ==
    /\ messages' = [messages EXCEPT ![s] = Append(@, m)]
    /\ said' = [said EXCEPT ![s] = Append(@, m)]

\* The session is found or created, and the question saved.
Ask(t, s) ==
    /\ pc[t] = "idle"
    /\ pc' = [pc EXCEPT ![t] = "classify"]
    /\ in' = [in EXCEPT ![t] = s]
    /\ Push(s, Question(t))
    /\ UNCHANGED <<summaries, lastToolResult, context, transcript>>

\* The router has answered; the graph of the plan has one step.
Classify(t) ==
    /\ pc[t] = "classify"
    /\ pc' = [pc EXCEPT ![t] = "execute"]
    /\ UNCHANGED <<messages, summaries, lastToolResult, in, context, transcript, said>>

\* buildMemoryContext, after saveToolResult: the result called previous is the turn's own.
ContextOf(s, t) ==
    [summary |-> IF summaries[s] = <<>> THEN <<>> ELSE summaries[s][Len(summaries[s])].text,
     relevantHistory |-> findRelevantMessages(messages[s]),
     previousToolResult |-> t]

\* Mutant: an execution step that fails is thrown on, and ends the turn.
Execute_Throws(t) ==
    /\ pc[t] = "execute"
    /\ \/ /\ lastToolResult' = [lastToolResult EXCEPT ![in[t]] = t]
          /\ context' = [context EXCEPT ![t] = ContextOf(in[t], t)]
          /\ pc' = [pc EXCEPT ![t] = "generate"]
       \/ pc' = [pc EXCEPT ![t] = "over"] /\ UNCHANGED <<lastToolResult, context>>
    /\ UNCHANGED <<messages, summaries, in, transcript, said>>

\* The tool has run or failed; its result is saved, and the context built.
Execute(t) ==
    /\ pc[t] = "execute"
    /\ lastToolResult' = [lastToolResult EXCEPT ![in[t]] = t]
    /\ context' = [context EXCEPT ![t] = ContextOf(in[t], t)]
    /\ pc' = [pc EXCEPT ![t] = "generate"]
    /\ UNCHANGED <<messages, summaries, in, transcript, said>>

\* The answer is saved; a summary is begun, of all that is there; then it is trimmed.
Generate(t) ==
    /\ pc[t] = "generate"
    /\ LET s == in[t]
           all == Append(messages[s], Reply(t))
       IN  /\ said' = [said EXCEPT ![s] = Append(@, Reply(t))]
           /\ transcript' = [transcript EXCEPT
                  ![t] = IF Len(all) < SummaryTrigger THEN <<>> ELSE all]
           /\ messages' = [messages EXCEPT ![s] = trimMessages(all, MaxMessages)]
    /\ pc' = [pc EXCEPT ![t] = "over"]
    /\ context' = [context EXCEPT ![t] = NoContext]
    /\ UNCHANGED <<summaries, lastToolResult, in>>

-----------------------------------------------------------------------------
(* summarizeConversation, in the background                                  *)

\* Mutant: nothing is stored if the model fails.
Summarise_OrNothing(t) ==
    /\ transcript[t] # <<>>
    /\ \/ summaries' = [summaries EXCEPT
              ![in[t]] = Append(@, [of |-> transcript[t], text |-> transcript[t]])]
       \/ UNCHANGED summaries
    /\ transcript' = [transcript EXCEPT ![t] = <<>>]
    /\ UNCHANGED <<messages, lastToolResult, pc, in, context, said>>

\* The model has answered, or failed and the fallback is taken.
Summarise(t) ==
    /\ transcript[t] # <<>>
    /\ \E text \in {transcript[t], Topics(transcript[t])} :
           summaries' = [summaries EXCEPT
               ![in[t]] = Append(@, [of |-> transcript[t], text |-> text])]
    /\ transcript' = [transcript EXCEPT ![t] = <<>>]
    /\ UNCHANGED <<messages, lastToolResult, pc, in, context, said>>

\* The process ends, and with it the Map, the turns, and the summaries begun.
Crash ==
    /\ \E t \in Turns : pc[t] # "idle"
    /\ EmptyStore
    /\ pc' = [t \in Turns |-> IF pc[t] = "idle" THEN "idle" ELSE "over"]
    /\ context' = [t \in Turns |-> NoContext]
    /\ transcript' = [t \in Turns |-> <<>>]
    /\ said' = [s \in Sessions |-> <<>>]
    /\ UNCHANGED in

Turn(t) == Classify(t) \/ Execute(t) \/ Generate(t)

Next ==
    \/ \E t \in Turns : (\E s \in Sessions : Ask(t, s)) \/ Turn(t) \/ Summarise(t)
    \/ Crash

Spec == Init /\ [][Next]_vars

\* Classifying, executing and generating come back, and so does the summariser.
FairSpec == Spec /\ \A t \in Turns : WF_vars(Turn(t)) /\ WF_vars(Summarise(t))

-----------------------------------------------------------------------------
\* A turn is in a session once it has begun.  (What a context and a summary hold
\* is the subject of ContextIsNewest and TrimmedWasSummarised.)
TypeOK ==
    /\ messages \in [Sessions -> Seq(Messages)]
    /\ said \in [Sessions -> Seq(Messages)]
    /\ lastToolResult \in [Sessions -> Turns \cup {"none"}]
    /\ pc \in [Turns -> {"idle", "classify", "execute", "generate", "over"}]
    /\ in \in [Turns -> Sessions \cup {"none"}]
    /\ \A t \in Turns : pc[t] # "idle" => in[t] \in Sessions
    /\ transcript \in [Turns -> Seq(Messages)]

\* Whether a message is among those of a sequence.
In(m, seq) == \E i \in 1..Len(seq) : seq[i] = m

Weight(seq) == LET Sum[i \in 0..Len(seq)] == IF i = 0 THEN 0 ELSE Tokens[seq[i]] + Sum[i - 1]
               IN  Sum[Len(seq)]

InFlight(s) == {t \in Turns : in[t] = s /\ pc[t] \in {"classify", "execute", "generate"}}

\* However turns interleave, a session keeps the newest of what was said, in the
\* order it was said: at least MaxMessages of it if there are as many, and above
\* that one message at most for each turn that is not answered yet.
KeepsTheNewest ==
    \A s \in Sessions :
        LET kept == messages[s]
        IN  /\ kept = LastOf(said[s], Len(kept))
            /\ Len(kept) >= MaxMessages \/ kept = said[s]
            /\ Len(kept) <= MaxMessages + Cardinality(InFlight(s))

\* A message is still there, or is in a summary that is under way or stored.
Remembered(m, s) ==
    \/ In(m, messages[s])
    \/ \E t \in Turns : in[t] = s /\ In(m, transcript[t])
    \/ \E j \in 1..Len(summaries[s]) : In(m, summaries[s][j].of)

\* A message that has been trimmed away was given to the summariser before.
TrimmedWasSummarised ==
    \A s \in Sessions : \A i \in 1..Len(said[s]) : Remembered(said[s][i], s)

\* What the generator is given of a conversation is the newest that was said in it when
\* the tool was through, whatever has been trimmed: as many messages as the context takes,
\* or as fit the budget, and one at least.
ContextIsNewest ==
    [][\A t \in Turns :
          (pc[t] = "execute" /\ pc'[t] = "generate") =>
              LET all == said[in[t]]
                  got == context'[t].relevantHistory
                  fits(n) == n <= ContextMessages /\ (n = 1 \/ Weight(LastOf(all, n)) <= Budget)
              IN  /\ got = LastOf(all, Len(got)) /\ fits(Len(got)) /\ Len(got) > 0
                  /\ Len(got) < Len(all) => ~fits(Len(got) + 1)]_vars

\* Every question is answered in its session, though tools and models may fail, unless the
\* process ends: the answer is said after the question.
QuestionsAreAnswered ==
    \A t \in Turns :
        (\E s \in Sessions : in[t] = s /\ In(Question(t), said[s])) ~>
            \E s \in Sessions :
                /\ in[t] = s
                /\ \/ \E i \in 1..Len(said[s]) :
                          said[s][i] = Reply(t) /\ In(Question(t), SubSeq(said[s], 1, i - 1))
                   \/ said[s] = <<>>
=============================================================================
