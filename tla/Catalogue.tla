------------------------------- MODULE Catalogue -------------------------------
(***************************************************************************)
(* What the users of the knowledge base see of a document.  It comes to    *)
(* the shelf whole and once; it is lent from the shelf ("in") or from the  *)
(* permanent store ("kept"); what is kept leaves only if somebody asked    *)
(* for it, and what is merely on the shelf also goes with the process.     *)
(* "accepted" is said of documents that can be found.                      *)
(***************************************************************************)
CONSTANT Docs

VARIABLES
    phase,   \* of a document
    asked,   \* the documents somebody asked to delete
    answer   \* to the upload of a document

vars == <<phase, asked, answer>>

Phases  == {"new", "coming", "in", "kept", "out"}
Answers == {"none", "accepted", "refused", "failed", "lost"}

Init ==
    /\ phase = [d \in Docs |-> "new"]
    /\ asked = {}
    /\ answer = [d \in Docs |-> "none"]

Move(d, from, to) == phase[d] = from /\ phase' = [phase EXCEPT ![d] = to]

Say(d, a) == answer[d] = "none" /\ answer' = [answer EXCEPT ![d] = a]

Offer(d)  == Move(d, "new", "coming") /\ UNCHANGED <<asked, answer>>

Appear(d) == Move(d, "coming", "in") /\ UNCHANGED <<asked, answer>>

Keep(d)   == Move(d, "in", "kept") /\ answer[d] = "none" /\ UNCHANGED <<asked, answer>>

Accept(d) ==
    /\ phase[d] \in {"in", "kept"}
    /\ Say(d, "accepted")
    /\ UNCHANGED <<phase, asked>>

\* A document that is refused may be on the shelf already, and stays there.
Refuse(d) ==
    /\ phase[d] # "out"
    /\ \E a \in {"refused", "failed"} : Say(d, a)
    /\ phase' = [phase EXCEPT ![d] = IF @ \in {"new", "coming"} THEN "out" ELSE @]
    /\ UNCHANGED asked

\* The users ask for what they can see; it may go at once from the shelf.
Ask(d) ==
    /\ phase[d] \in {"in", "kept", "out"}
    /\ asked' = asked \cup {d}
    /\ phase' \in {phase, [phase EXCEPT ![d] = IF @ = "in" THEN "out" ELSE @]}
    /\ UNCHANGED answer

Remove(d) ==
    /\ d \in asked
    /\ \E rest \in {"in", "out"} : Move(d, "kept", rest)
    /\ UNCHANGED <<asked, answer>>

\* The process ends: uploads are lost, and the shelf is cleared.
Crash ==
    /\ phase' = [d \in Docs |-> IF phase[d] \in {"coming", "in"} THEN "out" ELSE phase[d]]
    /\ answer' = [d \in Docs |-> IF phase[d] \in {"coming", "in", "kept"} /\ answer[d] = "none"
                                 THEN "lost" ELSE answer[d]]
    /\ UNCHANGED asked

Next ==
    \/ Crash
    \/ \E d \in Docs : \/ Offer(d) \/ Appear(d) \/ Keep(d) \/ Accept(d) \/ Refuse(d)
                       \/ Ask(d) \/ Remove(d)

Spec == Init /\ [][Next]_vars

\* And every upload is answered, unless the process ends.
Answered == \A d \in Docs : phase[d] # "new" ~> answer[d] # "none"
=============================================================================
