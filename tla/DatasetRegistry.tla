---------------------------- MODULE DatasetRegistry ----------------------------
(***************************************************************************)
(* What the dataset API promises, without pipeline, storage or cache: an   *)
(* upload is refused or accepted; an accepted dataset is processed and     *)
(* settles as ready or failed, unless its upload is answered with an error *)
(* first; its owner may withdraw it at any time, for good; and any other   *)
(* answer is the state the dataset is in.                                  *)
(***************************************************************************)
CONSTANTS Datasets,
          Faulty      \* whether a settled dataset, too, may be answered with an error

VARIABLES phase,      \* what a client that looks at the dataset sees
          told        \* what the upload request has been answered

vars == <<phase, told>>

Phases == {"absent", "processing", "ready", "failed", "deleted"}

Init ==
    /\ phase = [d \in Datasets |-> "absent"]
    /\ told = [d \in Datasets |-> "none"]

SetPhase(d, p) == phase' = [phase EXCEPT ![d] = p] /\ UNCHANGED told
Say(d, a)      == told' = [told EXCEPT ![d] = a] /\ UNCHANGED phase

Accept(d) == phase[d] = "absent" /\ told[d] = "none" /\ SetPhase(d, "processing")

Refuse(d) ==
    /\ phase[d] = "absent" /\ told[d] = "none"
    /\ \E a \in {"REJECTED", "ERROR"} : Say(d, a)

Settle(d) ==
    /\ phase[d] = "processing" /\ told[d] = "none"
    /\ \E p \in {"ready", "failed"} : SetPhase(d, p)

Withdraw(d) == phase[d] \in {"processing", "ready", "failed"} /\ SetPhase(d, "deleted")

Confirm(d) ==
    /\ told[d] = "none"
    /\ \/ phase[d] = "ready" /\ Say(d, "READY")
       \/ phase[d] = "failed" /\ Say(d, "FAILED")

\* An internal error is all the uploader of a withdrawn dataset is told, and
\* it gives up a dataset that is still being processed.
Apologise(d) ==
    /\ told[d] = "none" /\ phase[d] # "absent"
    /\ phase[d] \in {"processing", "deleted"} \/ Faulty
    /\ Say(d, "ERROR")

Next == \E d \in Datasets :
    Accept(d) \/ Refuse(d) \/ Settle(d) \/ Withdraw(d) \/ Confirm(d) \/ Apologise(d)

Spec == Init /\ [][Next]_vars

FairSpec ==
    /\ Spec
    /\ \A d \in Datasets : WF_vars(Settle(d) \/ Confirm(d) \/ Apologise(d))
=============================================================================
