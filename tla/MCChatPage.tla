------------------------------ MODULE MCChatPage ------------------------------
(***************************************************************************)
(* Two questions from one tab: up to four turns of one session or of two.  *)
(* Limits in the order of the program's (6, 10 and 20 messages); questions *)
(* are short, and one answer alone exceeds the budget of a context.        *)
(***************************************************************************)
EXTENDS ChatPage

CONSTANTS q1, q2, c1, c2, x1, x2

MCChatOf   == [q \in Questions |-> IF q = q1 THEN c1 ELSE c2]
MCStreamOf == [q \in Questions |-> IF q = q1 THEN x1 ELSE x2]

MCTokens ==
    [m \in Messages |-> IF m.role = "user" THEN 1 ELSE IF m.turn = c1 THEN 9 ELSE 3]
=============================================================================
