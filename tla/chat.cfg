\* Two questions, one tab, up to four sessions.  Users may stop asking.
SPECIFICATION PageFairSpec
CONSTANTS
    q1 = q1
    q2 = q2
    c1 = c1
    c2 = c2
    x1 = x1
    x2 = x2
    Questions = {q1, q2}
    Tabs = {b1}
    Sessions = {s1, s2, s3, s4}
    Turns = {c1, c2, x1, x2}
    ChatOf <- MCChatOf
    StreamOf <- MCStreamOf
    MaxMessages = 4
    ContextMessages = 2
    SummaryTrigger = 3
    Budget = 4
    Tokens <- MCTokens
INVARIANTS KeepsTheNewest TrimmedWasSummarised PageAndSessionAgree
PROPERTIES ContextIsNewest QuestionsAreAnswered
CHECK_DEADLOCK FALSE
