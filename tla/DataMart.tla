-------------------------------- MODULE DataMart --------------------------------
(***************************************************************************)
(* The saved objects of the DataMart (datamart.service.ts and its          *)
(* repository): analyses and metrics over datasets, dashboards, and the    *)
(* widgets that bind a dashboard to an analysis or a metric, under the     *)
(* foreign keys and CHECKs of schema.sql, together with the deletion of    *)
(* datasets (dataset.service.ts), which cascades into them.                *)
(*                                                                         *)
(* A handler reads what it is about and writes one statement later: one    *)
(* action per statement, atomic, as PostgreSQL runs it.  reorderWidgets    *)
(* alone is a transaction, and keeps the locks of the rows it has updated. *)
(* One user; names, layouts, chart settings and query results are left     *)
(* out, and so are the handlers that only read.                            *)
(***************************************************************************)
EXTENDS Naturals, Sequences, FiniteSets

CONSTANTS
    Datasets, Analyses, Metrics, Dashboards, Widgets,   \* ids
    Requests,   \* the requests that may be served at once
    Runners,    \* those of them that may execute an analysis (a bound)
    Places,     \* the positions a client may ask for
    Faulty,     \* whether a statement may be reported as failed, applied or not
    Nil

ASSUME IdsAssumption ==
    /\ Nil \notin Datasets \cup Analyses \cup Metrics \cup Dashboards \cup Requests
    /\ Analyses \cap Metrics = {}

ASSUME PlacesAssumption == Places \subseteq Nat

ASSUME WidgetsAssumption == IsFiniteSet(Widgets)

ASSUME RunnersAssumption == Runners \subseteq Requests

ASSUME FaultyAssumption == Faulty \in BOOLEAN

VARIABLES
    datasets,  \* the datasets with a row, all of them READY
    objects,   \* the datasets whose CSV object is in the bucket
    queried,   \* the dataset each analysis queries, Nil without a row
    measured,  \* the dataset each metric measures, Nil without a row
    boards,    \* the dashboards with a row
    home,      \* the dashboard of each widget, Nil without a row
    source,    \* the analysis or metric a widget is bound to, Nil without a row
    pos,       \* its position
    spent,     \* ids that were drawn by an INSERT, and will not be again; when
               \* they are all drawn (the bound), nothing more is created
    held,      \* the request whose open transaction has locked a widget's row
    draft,     \* and the position it has given the widget there
    at,        \* where each request stands
    aim,       \* what it is about
    ref,       \* the analysis, metric or dataset it has looked up besides
    list,      \* the orderedIds of a reorder
    next,      \* and the index it has come to
    writes,    \* the statements of the record of an execution that are under way
    ledger,    \* history: the run rows an execution has inserted
    troubled,  \* history: the executions a statement of whose record was lost
    sorted     \* history: the dashboards in the order of a reorder

tables  == <<datasets, objects, queried, measured, boards>>
rows    == <<home, source, pos>>
locks   == <<held, draft>>
request == <<at, aim, ref, list, next, writes>>
log     == <<ledger, troubled>>
history == <<log, sorted>>
vars == <<tables, rows, spent, locks, request, history>>

-----------------------------------------------------------------------------
Sources == Analyses \cup Metrics
Drawn   == Sources \cup Dashboards \cup Widgets

Steps == {"idle", "saveAnalysis", "editAnalysis", "dropAnalysis", "query",
          "logSuccess", "logFailure", "answer", "throw", "saveMetric", "dropMetric",
          "dropBoard", "findSource", "addWidget", "findNewSource", "patch",
          "dropWidget", "reorder", "unstore", "dropRow"}

\* The statements that record an execution: the INSERT of a run row of either
\* outcome, and the UPDATE of last_executed_at (touch) beside it.  What becomes of
\* the touch beside FAILED makes no difference to anything, and it is left out.
Outcomes == {"SUCCESS", "FAILED"}
Writes   == {"touch"} \cup Outcomes

TypeOK ==
    /\ datasets \subseteq Datasets
    /\ objects \subseteq Datasets
    /\ queried \in [Analyses -> Datasets \cup {Nil}]
    /\ measured \in [Metrics -> Datasets \cup {Nil}]
    /\ boards \subseteq Dashboards
    /\ home \in [Widgets -> Dashboards \cup {Nil}]
    /\ source \in [Widgets -> Sources \cup {Nil}]
    /\ pos \in [Widgets -> Nat]
    /\ spent \subseteq Drawn
    /\ held \in [Widgets -> Requests \cup {Nil}]
    /\ draft \in [Widgets -> Nat]
    /\ at \in [Requests -> Steps]
    /\ aim \in [Requests -> Datasets \cup Drawn \cup {Nil}]
    /\ ref \in [Requests -> Datasets \cup Sources \cup {Nil}]
    /\ list \in [Requests -> Seq(Widgets)]
    /\ next \in [Requests -> Nat]
    /\ writes \in [Requests -> SUBSET Writes]
    /\ ledger \in [Requests -> SUBSET Outcomes]
    /\ troubled \subseteq Requests
    /\ sorted \subseteq Dashboards

\* The uploads are over: every dataset is READY and has its object.
Init ==
    /\ datasets = Datasets
    /\ objects = Datasets
    /\ queried = [a \in Analyses |-> Nil]
    /\ measured = [m \in Metrics |-> Nil]
    /\ boards = {}
    /\ home = [w \in Widgets |-> Nil]
    /\ source = [w \in Widgets |-> Nil]
    /\ pos = [w \in Widgets |-> 0]
    /\ spent = {}
    /\ held = [w \in Widgets |-> Nil]
    /\ draft = [w \in Widgets |-> 0]
    /\ at = [r \in Requests |-> "idle"]
    /\ aim = [r \in Requests |-> Nil]
    /\ ref = [r \in Requests |-> Nil]
    /\ list = [r \in Requests |-> <<>>]
    /\ next = [r \in Requests |-> 0]
    /\ writes = [r \in Requests |-> {}]
    /\ ledger = [r \in Requests |-> {}]
    /\ troubled = {}
    /\ sorted = {}

HasSource(s) ==
    \/ s \in Analyses /\ queried[s] # Nil
    \/ s \in Metrics /\ measured[s] # Nil

On(b)    == {w \in Widgets : home[w] = b}
Bound(s) == \E w \in Widgets : source[w] = s
Free(w)  == held[w] = Nil

-----------------------------------------------------------------------------
(* Requests                                                                  *)

Begin(r, s, x, y) ==
    /\ at[r] = "idle"
    /\ at' = [at EXCEPT ![r] = s]
    /\ aim' = [aim EXCEPT ![r] = x]
    /\ ref' = [ref EXCEPT ![r] = y]
    /\ UNCHANGED <<list, next, writes>>

GoTo(r, s) ==
    /\ at' = [at EXCEPT ![r] = s]
    /\ UNCHANGED <<aim, ref, list, next, writes>>

\* The handler has answered, or thrown.
Leave(r) ==
    /\ at' = [at EXCEPT ![r] = "idle"]
    /\ aim' = [aim EXCEPT ![r] = Nil]
    /\ ref' = [ref EXCEPT ![r] = Nil]
    /\ list' = [list EXCEPT ![r] = <<>>]
    /\ next' = [next EXCEPT ![r] = 0]
    /\ writes' = [writes EXCEPT ![r] = {}]

-----------------------------------------------------------------------------
(* Analyses.  Their datasets are in a JSONB column, with no foreign key.     *)

\* createAnalysis: requireDataset and the compiler have accepted the query.
StartCreateAnalysis(r, d) ==
    /\ d \in datasets
    /\ ~(Analyses \subseteq spent)
    /\ Begin(r, "saveAnalysis", d, Nil)
    /\ UNCHANGED <<tables, rows, spent, locks, history>>

CreateAnalysis(r) ==
    /\ at[r] = "saveAnalysis"
    /\ IF Analyses \subseteq spent
       THEN UNCHANGED <<queried, spent>>
       ELSE \E a \in Analyses \ spent :
               /\ queried' = [queried EXCEPT ![a] = aim[r]]
               /\ spent' = spent \cup {a}
    /\ Leave(r)
    /\ UNCHANGED <<datasets, objects, measured, boards, rows, locks, history>>

StartUpdateAnalysis(r, a) ==
    /\ queried[a] # Nil
    /\ Begin(r, "editAnalysis", a, Nil)
    /\ UNCHANGED <<tables, rows, spent, locks, history>>

\* A new query is stored as it comes: its datasets may not exist.
UpdateAnalysis(r) ==
    /\ at[r] = "editAnalysis"
    /\ IF queried[aim[r]] = Nil
       THEN UNCHANGED queried
       ELSE \E d \in Datasets : queried' = [queried EXCEPT ![aim[r]] = d]
    /\ Leave(r)
    /\ UNCHANGED <<datasets, objects, measured, boards, rows, spent, locks, history>>

StartDeleteAnalysis(r, a) ==
    /\ queried[a] # Nil
    /\ Begin(r, "dropAnalysis", a, Nil)
    /\ UNCHANGED <<tables, rows, spent, locks, history>>

\* The foreign key of a widget is ON DELETE SET NULL, and then the widget has
\* no source, which its CHECK forbids: the DELETE fails.
DeleteAnalysis(r) ==
    /\ at[r] = "dropAnalysis"
    /\ queried' = IF Bound(aim[r]) THEN queried ELSE [queried EXCEPT ![aim[r]] = Nil]
    /\ Leave(r)
    /\ UNCHANGED <<datasets, objects, measured, boards, rows, spent, locks, history>>

\* executeAnalysis: the query is taken from the row as it is now.
StartExecuteAnalysis(r, a) ==
    /\ r \in Runners
    /\ queried[a] # Nil
    /\ Begin(r, "query", a, queried[a])
    /\ UNCHANGED <<tables, rows, spent, locks, history>>

\* The statements of w are under way, and r goes on at s.
Await(r, w, s) ==
    /\ writes' = [writes EXCEPT ![r] = w]
    /\ at' = [at EXCEPT ![r] = s]
    /\ UNCHANGED <<aim, ref, list, next>>

\* executeQuery: without the dataset it fails, and it may fail with it.
ExecuteQuery(r) ==
    /\ at[r] = "query"
    /\ \/ ref[r] \in datasets /\ Await(r, {"touch", "SUCCESS"}, "logSuccess")
       \/ Await(r, {"FAILED"}, "logFailure")
    /\ UNCHANGED <<tables, rows, spent, locks, history>>

\* A run row needs its analysis; an UPDATE that matches no row succeeds.
Possible(r, w) == w \in Outcomes => queried[aim[r]] # Nil

Apply(r, w) ==
    ledger' = IF w \in Outcomes THEN [ledger EXCEPT ![r] = @ \cup {w}] ELSE ledger

Fulfilled(r, w) == Possible(r, w) /\ Apply(r, w) /\ UNCHANGED troubled

\* The statement breaks the foreign key, or its connection does, before it took
\* effect or after.
Rejected(r, w) ==
    \/ ~Possible(r, w) /\ UNCHANGED log
    \/ /\ Faulty
       /\ UNCHANGED ledger \/ (Possible(r, w) /\ Apply(r, w))
       /\ troubled' = troubled \cup {r}

\* Mutant: allSettled in place of all, so that the result is returned even when
\* its record has failed.
LogSuccess_AllSettled(r) ==
    /\ at[r] = "logSuccess"
    /\ \E w \in writes[r] :
          /\ Fulfilled(r, w) \/ Rejected(r, w)
          /\ Await(r, writes[r] \ {w}, IF writes[r] = {w} THEN "answer" ELSE "logSuccess")
    /\ UNCHANGED <<tables, rows, spent, locks, sorted>>

\* Promise.all inside the try: the first of the two to be rejected leads to the
\* catch block, where the failure is recorded, whatever becomes of the other.
\* (A touch that is left behind makes no difference either.)
LogSuccess(r) ==
    /\ at[r] = "logSuccess"
    /\ \E w \in writes[r] :
          \/ /\ Fulfilled(r, w)
             /\ Await(r, writes[r] \ {w}, IF writes[r] = {w} THEN "answer" ELSE "logSuccess")
          \/ /\ Rejected(r, w)
             /\ Await(r, (writes[r] \ {w, "touch"}) \cup {"FAILED"}, "logFailure")
    /\ UNCHANGED <<tables, rows, spent, locks, sorted>>

\* Promise.allSettled in the catch block: the error is thrown again when its
\* statements have ended, one way or the other.
LogFailure(r) ==
    /\ at[r] = "logFailure"
    /\ \E w \in writes[r] :
          /\ Fulfilled(r, w) \/ Rejected(r, w)
          /\ Await(r, writes[r] \ {w},
                   IF w = "FAILED" THEN "throw" ELSE "logFailure")
    /\ UNCHANGED <<tables, rows, spent, locks, sorted>>

\* A statement nobody waits for any more ends after the error was thrown.
Straggle(r) ==
    /\ at[r] = "throw"
    /\ \E w \in writes[r] :
          /\ Fulfilled(r, w) \/ Rejected(r, w)
          /\ Await(r, writes[r] \ {w}, "throw")
    /\ UNCHANGED <<tables, rows, spent, locks, sorted>>

Reply(r) ==
    /\ at[r] \in {"answer", "throw"}
    /\ writes[r] = {}
    /\ Leave(r)
    /\ ledger' = [ledger EXCEPT ![r] = {}]
    /\ troubled' = troubled \ {r}
    /\ UNCHANGED <<tables, rows, spent, locks, sorted>>

-----------------------------------------------------------------------------
(* Metrics.  The foreign key to their dataset cascades.                      *)

StartCreateMetric(r, d) ==
    /\ d \in datasets
    /\ ~(Metrics \subseteq spent)
    /\ Begin(r, "saveMetric", d, Nil)
    /\ UNCHANGED <<tables, rows, spent, locks, history>>

CreateMetric(r) ==
    /\ at[r] = "saveMetric"
    /\ IF aim[r] \in datasets /\ ~(Metrics \subseteq spent)
       THEN \E m \in Metrics \ spent :
               /\ measured' = [measured EXCEPT ![m] = aim[r]]
               /\ spent' = spent \cup {m}
       ELSE UNCHANGED <<measured, spent>>
    /\ Leave(r)
    /\ UNCHANGED <<datasets, objects, queried, boards, rows, locks, history>>

StartDeleteMetric(r, m) ==
    /\ measured[m] # Nil
    /\ Begin(r, "dropMetric", m, Nil)
    /\ UNCHANGED <<tables, rows, spent, locks, history>>

\* Mutant: a schema without the CHECK on the source of a widget.
DeleteMetric_SetNull(r) ==
    /\ at[r] = "dropMetric"
    /\ measured' = [measured EXCEPT ![aim[r]] = Nil]
    /\ source' = [w \in Widgets |-> IF source[w] = aim[r] THEN Nil ELSE source[w]]
    /\ Leave(r)
    /\ UNCHANGED <<datasets, objects, queried, boards, home, pos, spent, locks, history>>

\* Fails on a metric that a widget is bound to, like DeleteAnalysis.
DeleteMetric(r) ==
    /\ at[r] = "dropMetric"
    /\ measured' = IF Bound(aim[r]) THEN measured ELSE [measured EXCEPT ![aim[r]] = Nil]
    /\ Leave(r)
    /\ UNCHANGED <<datasets, objects, queried, boards, rows, spent, locks, history>>

-----------------------------------------------------------------------------
(* Dashboards and widgets                                                    *)

CreateDashboard(r) ==
    /\ at[r] = "idle"
    /\ \E b \in Dashboards \ spent :
          /\ boards' = boards \cup {b}
          /\ spent' = spent \cup {b}
    /\ UNCHANGED <<datasets, objects, queried, measured, rows, locks, request, history>>

StartDeleteDashboard(r, b) ==
    /\ b \in boards
    /\ Begin(r, "dropBoard", b, Nil)
    /\ UNCHANGED <<tables, rows, spent, locks, history>>

\* The widgets cascade; the statement waits until all their rows are free.
DeleteDashboard(r) ==
    /\ at[r] = "dropBoard"
    /\ \A w \in On(aim[r]) : Free(w)
    /\ boards' = boards \ {aim[r]}
    /\ home' = [w \in Widgets |-> IF home[w] = aim[r] THEN Nil ELSE home[w]]
    /\ source' = [w \in Widgets |-> IF home[w] = aim[r] THEN Nil ELSE source[w]]
    /\ pos' = [w \in Widgets |-> IF home[w] = aim[r] THEN 0 ELSE pos[w]]
    /\ sorted' = sorted \ {aim[r]}
    /\ Leave(r)
    /\ UNCHANGED <<datasets, objects, queried, measured, spent, locks, log>>

\* createWidget: the dashboard is looked up, then the source, then the row is
\* inserted if both are still there for its foreign keys.
StartCreateWidget(r, b, s) ==
    /\ b \in boards
    /\ ~(Widgets \subseteq spent)
    /\ Begin(r, "findSource", b, s)
    /\ UNCHANGED <<tables, rows, spent, locks, history>>

FindSource(r) ==
    /\ at[r] = "findSource"
    /\ IF HasSource(ref[r]) THEN GoTo(r, "addWidget") ELSE Leave(r)
    /\ UNCHANGED <<tables, rows, spent, locks, history>>

CreateWidget(r) ==
    /\ at[r] = "addWidget"
    /\ IF aim[r] \in boards /\ HasSource(ref[r]) /\ ~(Widgets \subseteq spent)
       THEN \E w \in Widgets \ spent, p \in Places :
               /\ home' = [home EXCEPT ![w] = aim[r]]
               /\ source' = [source EXCEPT ![w] = ref[r]]
               /\ pos' = [pos EXCEPT ![w] = p]
               /\ spent' = spent \cup {w}
               /\ sorted' = sorted \ {aim[r]}
       ELSE UNCHANGED <<rows, spent, sorted>>
    /\ Leave(r)
    /\ UNCHANGED <<tables, locks, log>>

\* updateWidget: the dashboard and its widgets are read, then the new source,
\* if the patch has one.
StartUpdateWidget(r, w, s) ==
    /\ home[w] # Nil
    /\ Begin(r, IF s = Nil THEN "patch" ELSE "findNewSource", w, s)
    /\ UNCHANGED <<tables, rows, spent, locks, history>>

FindNewSource(r) ==
    /\ at[r] = "findNewSource"
    /\ IF HasSource(ref[r]) THEN GoTo(r, "patch") ELSE Leave(r)
    /\ UNCHANGED <<tables, rows, spent, locks, history>>

\* The UPDATE fails if the source is gone, or if the patch leaves the widget
\* with two sources or with none.
UpdateWidget(r) ==
    /\ at[r] = "patch"
    /\ Free(aim[r])
    /\ \/ /\ home[aim[r]] # Nil
          /\ ref[r] # Nil => HasSource(ref[r])
          /\ source' = IF ref[r] = Nil THEN source ELSE [source EXCEPT ![aim[r]] = ref[r]]
          /\ \E p \in Places \cup {pos[aim[r]]} : pos' = [pos EXCEPT ![aim[r]] = p]
          /\ sorted' = IF pos' = pos THEN sorted ELSE sorted \ {home[aim[r]]}
       \/ UNCHANGED <<source, pos, sorted>>
    /\ Leave(r)
    /\ UNCHANGED <<tables, home, spent, locks, log>>

StartDeleteWidget(r, w) ==
    /\ home[w] # Nil
    /\ Begin(r, "dropWidget", w, Nil)
    /\ UNCHANGED <<tables, rows, spent, locks, history>>

DeleteWidget(r) ==
    /\ at[r] = "dropWidget"
    /\ Free(aim[r])
    /\ home' = [home EXCEPT ![aim[r]] = Nil]
    /\ source' = [source EXCEPT ![aim[r]] = Nil]
    /\ pos' = [pos EXCEPT ![aim[r]] = 0]
    /\ sorted' = sorted \ {home[aim[r]]}
    /\ Leave(r)
    /\ UNCHANGED <<tables, spent, locks, log>>

-----------------------------------------------------------------------------
(* reorderWidgets                                                            *)

\* The ids must be as many as the dashboard has widgets, and all be among
\* them; that none comes twice is not checked.
StartReorder(r, b) ==
    /\ b \in boards
    /\ at[r] = "idle"
    /\ at' = [at EXCEPT ![r] = "reorder"]
    /\ aim' = [aim EXCEPT ![r] = b]
    /\ \E ids \in [1..Cardinality(On(b)) -> On(b)] : list' = [list EXCEPT ![r] = ids]
    /\ next' = [next EXCEPT ![r] = 1]
    /\ UNCHANGED <<ref, writes, tables, rows, spent, locks, history>>

Row(r) == list[r][next[r]]

Updating(r) == at[r] = "reorder" /\ next[r] <= Len(list[r])

\* Mutant: the statements run one by one on the pool, not in a transaction.
UpdatePosition_Auto(r) ==
    /\ Updating(r)
    /\ Free(Row(r))
    /\ pos' = IF home[Row(r)] = aim[r] THEN [pos EXCEPT ![Row(r)] = next[r] - 1] ELSE pos
    /\ sorted' = IF next[r] = Len(list[r]) THEN sorted \cup {aim[r]} ELSE sorted
    /\ next' = [next EXCEPT ![r] = @ + 1]
    /\ UNCHANGED <<at, aim, ref, list, writes, tables, home, source, spent, locks, log>>

\* One UPDATE of the transaction: it waits for the row, and locks it.  A row
\* that is gone is not matched.
UpdatePosition(r) ==
    /\ Updating(r)
    /\ held[Row(r)] \in {Nil, r}
    /\ IF home[Row(r)] = aim[r]
       THEN /\ held' = [held EXCEPT ![Row(r)] = r]
            /\ draft' = [draft EXCEPT ![Row(r)] = next[r] - 1]
       ELSE UNCHANGED locks
    /\ next' = [next EXCEPT ![r] = @ + 1]
    /\ UNCHANGED <<at, aim, ref, list, writes, tables, rows, spent, history>>

Locked(r) == {w \in Widgets : held[w] = r}

Unlock(r) ==
    /\ held' = [w \in Widgets |-> IF held[w] = r THEN Nil ELSE held[w]]
    /\ draft' = [w \in Widgets |-> IF held[w] = r THEN 0 ELSE draft[w]]

\* The list named every widget the dashboard has now, and so none twice.
Complete(r) ==
    /\ Locked(r) = On(aim[r])
    /\ Cardinality(On(aim[r])) = Len(list[r])

Commit(r) ==
    /\ at[r] = "reorder"
    /\ next[r] > Len(list[r])
    /\ pos' = [w \in Widgets |-> IF held[w] = r THEN draft[w] ELSE pos[w]]
    /\ sorted' = IF Complete(r) THEN sorted \cup {aim[r]} ELSE sorted \ {aim[r]}
    /\ Unlock(r)
    /\ Leave(r)
    /\ UNCHANGED <<tables, home, source, spent, log>>

\* p has locked a row that q waits for, or may have: the rows a DELETE of the
\* dashboard has come to are not told.
WaitsFor(q, p) ==
    /\ q # p
    /\ \/ /\ Updating(q)
          /\ \/ held[Row(q)] = p
             \/ at[p] = "dropBoard" /\ aim[p] = aim[q] /\ home[Row(q)] = aim[q]
       \/ /\ at[q] = "dropBoard"
          /\ \E w \in On(aim[q]) : held[w] = p

\* r waits for itself, by way of the others of S.
Deadlocked(r) ==
    \E S \in SUBSET Requests :
        /\ r \in S /\ S # {r}
        /\ \A T \in (SUBSET S) \ {{}, S} : \E q \in T, p \in S \ T : WaitsFor(q, p)

\* Mutant: the catch block forgets the ROLLBACK, and the client goes back to
\* the pool with its locks.
Rollback_Forgotten(r) ==
    /\ Deadlocked(r)
    /\ Leave(r)
    /\ UNCHANGED <<tables, rows, spent, locks, history>>

\* PostgreSQL makes one of a deadlocked set fail; its handler throws.
Rollback(r) ==
    /\ Deadlocked(r)
    /\ Unlock(r)
    /\ Leave(r)
    /\ UNCHANGED <<tables, rows, spent, history>>

-----------------------------------------------------------------------------
(* The deletion of a dataset (deleteForUser)                                 *)

StartDeleteDataset(r, d) ==
    /\ d \in datasets
    /\ Begin(r, "unstore", d, Nil)
    /\ UNCHANGED <<tables, rows, spent, locks, history>>

\* Faults of the bucket are in DatasetLifecycle.
RemoveObject(r) ==
    /\ at[r] = "unstore"
    /\ objects' = objects \ {aim[r]}
    /\ GoTo(r, "dropRow")
    /\ UNCHANGED <<datasets, queried, measured, boards, rows, spent, locks, history>>

MetricsOf(d) == {m \in Metrics : measured[m] = d}

\* The metrics cascade, which fails, with the whole statement, if a widget is
\* bound to one of them.
DeleteDataset(r) ==
    /\ at[r] = "dropRow"
    /\ IF \E m \in MetricsOf(aim[r]) : Bound(m)
       THEN UNCHANGED <<datasets, measured>>
       ELSE /\ datasets' = datasets \ {aim[r]}
            /\ measured' = [m \in Metrics |->
                               IF measured[m] = aim[r] THEN Nil ELSE measured[m]]
    /\ Leave(r)
    /\ UNCHANGED <<objects, queried, boards, rows, spent, locks, history>>

\* A statement of a handler is reported as failed.  The handler throws, and what
\* its transaction has done, if it has one, is undone.  (A statement that took
\* effect all the same is the action of its own that ends the request.)  The
\* statements that record an execution have been told of above.
Fail(r) ==
    /\ Faulty
    /\ at[r] \notin {"idle", "query", "logSuccess", "logFailure", "answer", "throw", "unstore", "dropRow"}
    /\ Unlock(r)
    /\ Leave(r)
    /\ UNCHANGED <<tables, rows, spent, history>>

-----------------------------------------------------------------------------
Start(r) ==
    \/ \E d \in Datasets :
          \/ StartCreateAnalysis(r, d)
          \/ StartCreateMetric(r, d)
          \/ StartDeleteDataset(r, d)
    \/ \E a \in Analyses :
          \/ StartUpdateAnalysis(r, a)
          \/ StartDeleteAnalysis(r, a)
          \/ StartExecuteAnalysis(r, a)
    \/ \E m \in Metrics : StartDeleteMetric(r, m)
    \/ \E b \in Dashboards :
          \/ StartDeleteDashboard(r, b)
          \/ StartReorder(r, b)
          \/ \E s \in Sources : StartCreateWidget(r, b, s)
    \/ \E w \in Widgets :
          \/ StartDeleteWidget(r, w)
          \/ \E s \in Sources \cup {Nil} : StartUpdateWidget(r, w, s)
    \/ CreateDashboard(r)

Step(r) ==
    \/ CreateAnalysis(r) \/ UpdateAnalysis(r) \/ DeleteAnalysis(r)
    \/ ExecuteQuery(r) \/ LogSuccess(r) \/ LogFailure(r) \/ Straggle(r) \/ Reply(r)
    \/ CreateMetric(r) \/ DeleteMetric(r)
    \/ DeleteDashboard(r)
    \/ FindSource(r) \/ CreateWidget(r)
    \/ FindNewSource(r) \/ UpdateWidget(r) \/ DeleteWidget(r)
    \/ UpdatePosition(r) \/ Commit(r) \/ Rollback(r)
    \/ RemoveObject(r) \/ DeleteDataset(r)

Next == \E r \in Requests : Start(r) \/ Step(r) \/ Fail(r)

Spec == Init /\ [][Next]_vars

\* A statement that waits for a row is queued: it gets its turn.  Nothing needs to
\* fail.
Fairness == \A r \in Requests : SF_vars(Step(r))

FairSpec == Spec /\ Fairness

-----------------------------------------------------------------------------
(* What the tables promise                                                   *)

\* Every widget is on a dashboard that exists and is bound to an analysis or a
\* metric that exists, although the lookups of createWidget and updateWidget
\* are over when their statement runs and anything may be deleted in between.
WidgetsResolve ==
    \A w \in Widgets :
        IF home[w] = Nil THEN source[w] = Nil
                         ELSE home[w] \in boards /\ HasSource(source[w])

\* A saved metric measures a dataset that exists (only its foreign key says
\* so: requireDataset looks a statement earlier).
MetricsHaveData ==
    \A m \in Metrics : measured[m] # Nil => measured[m] \in datasets

\* What a page follows from a saved object to another one is there.
ReferencesResolve == WidgetsResolve /\ MetricsHaveData

\* Since a reorder that named every widget of the dashboard, and until a widget
\* is added, moved or removed by other means, their positions are 0, 1, 2, ...
\* without a gap or a tie, whatever reorders have been refused, rolled back or
\* run side by side (datamart.repository.ts:803-806).
NoGaps ==
    \A b \in sorted : {pos[w] : w \in On(b)} = 0 .. Cardinality(On(b)) - 1

\* An execution whose result is shown has exactly one run row, SUCCESS.  One that
\* failed has exactly one, FAILED, as long as no connection was lost while it was
\* recorded: a touch or an INSERT that is reported as failed leads from the record
\* of the success into that of the failure, and both rows, or none, may be left
\* (datamart.service.ts:303-327).  Runs are gone with their analysis.
ExecutionLogged ==
    \A r \in Requests :
        /\ at[r] = "answer" /\ queried[aim[r]] # Nil => ledger[r] = {"SUCCESS"}
        /\ at[r] = "throw" /\ queried[aim[r]] # Nil /\ r \notin troubled =>
              ledger[r] = {"FAILED"}

\* Every request ends: reorders and deletes that wait for each other's rows are
\* told apart by the database, and whoever fails gives its rows back.  (Each is idle
\* again and again: it never has an end of which a request does not come.)
RequestsEnd == \A r \in Requests : []<>(at[r] = "idle")

\* Deleting a dataset removes its object and its row: nobody is left with a
\* READY dataset whose file is gone.
NoGuttedDataset ==
    \A d \in datasets \ objects : \E r \in Requests : at[r] = "dropRow" /\ aim[r] = d
=============================================================================
