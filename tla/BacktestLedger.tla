----------------------------- MODULE BacktestLedger -----------------------------
(***************************************************************************)
(* What the users of backtests see: a run is saved whole, in one step, for *)
(* a dataset that exists, and goes only with a deletion; "saved" is said   *)
(* of a run that has been saved.  What they are not promised: a request    *)
(* that is answered with an error may have saved its run all the same.     *)
(***************************************************************************)
CONSTANTS Requests, Datasets

VARIABLES
    datasets,  \* the datasets that exist
    runs,      \* the requests whose backtest is saved
    about,     \* what a request is about
    owed,      \* requests that have saved and not answered yet
    reply

vars == <<datasets, runs, about, owed, reply>>

Init ==
    /\ datasets = Datasets
    /\ runs = {}
    /\ about = [r \in Requests |-> "none"]
    /\ owed = {}
    /\ reply = [r \in Requests |-> "none"]

Ask(r, subject) ==
    /\ about[r] = "none"
    /\ about' = [about EXCEPT ![r] = subject]
    /\ UNCHANGED <<datasets, runs, owed, reply>>

\* The run is saved; the client is to be told, or the confirmation was lost.
Save(r) ==
    /\ reply[r] = "none" /\ r \notin owed \cup runs
    /\ about[r] \in datasets
    /\ runs' = runs \cup {r}
    /\ owed' \in {owed, owed \cup {r}}
    /\ UNCHANGED <<datasets, about, reply>>

\* The run that was saved is answered; or null, if it is gone already.
Confirm(r) ==
    /\ r \in owed
    /\ owed' = owed \ {r}
    /\ reply' = [reply EXCEPT ![r] = IF r \in runs THEN "saved" ELSE "null"]
    /\ UNCHANGED <<datasets, runs, about>>

\* Reading the run back failed: the client will hear of an error.
Forget(r) ==
    /\ r \in owed
    /\ owed' = owed \ {r}
    /\ UNCHANGED <<datasets, runs, about, reply>>

Deny(r) ==
    /\ reply[r] = "none" /\ r \notin owed
    /\ \E a \in {"refused", "error"} : reply' = [reply EXCEPT ![r] = a]
    /\ UNCHANGED <<datasets, runs, about, owed>>

\* A deletion takes effect, and is answered unless its confirmation was lost.
Delete(r) ==
    /\ reply[r] = "none"
    /\ \/ runs' = runs \ {about[r]} /\ UNCHANGED datasets
       \/ /\ datasets' = datasets \ {about[r]}
          /\ runs' = {b \in runs : about[b] # about[r]}
    /\ \E a \in {"deleted", "error"} : reply' = [reply EXCEPT ![r] = a]
    /\ UNCHANGED <<about, owed>>

\* The server is gone, with every request it was at.
Crash ==
    /\ owed' = {}
    /\ reply' = [r \in Requests |->
                    IF reply[r] = "none" /\ about[r] # "none" THEN "gone" ELSE reply[r]]
    /\ UNCHANGED <<datasets, runs, about>>

Next ==
    \/ Crash
    \/ \E r \in Requests :
           \/ \E subject \in Datasets \cup Requests : Ask(r, subject)
           \/ Save(r) \/ Confirm(r) \/ Forget(r) \/ Deny(r) \/ Delete(r)

Spec == Init /\ [][Next]_vars

\* And every request is answered in the end.
Answered == \A r \in Requests : about[r] # "none" ~> reply[r] # "none"
=============================================================================
