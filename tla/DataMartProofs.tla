---------------------------- MODULE DataMartProofs ----------------------------
(***************************************************************************)
(* Theorems about DataMart for any number of requests and objects, checked *)
(* by TLAPS.                                                               *)
(***************************************************************************)
EXTENDS DataMart, FiniteSetTheorems, TLAPS

-----------------------------------------------------------------------------
(* Type correctness.  What a request is about depends on where it stands.    *)

AimTyped ==
    \A r \in Requests :
        /\ at[r] \in {"saveAnalysis", "saveMetric", "unstore", "dropRow"} => aim[r] \in Datasets
        /\ at[r] \in {"editAnalysis", "dropAnalysis", "query", "logSuccess",
                      "logFailure", "answer", "throw"} => aim[r] \in Analyses
        /\ at[r] = "dropMetric" => aim[r] \in Metrics
        /\ at[r] \in {"dropBoard", "findSource", "addWidget", "reorder"} => aim[r] \in Dashboards
        /\ at[r] \in {"findNewSource", "patch", "dropWidget"} => aim[r] \in Widgets
        /\ at[r] \in {"findSource", "addWidget", "findNewSource"} => ref[r] \in Sources
        /\ at[r] = "patch" => ref[r] \in Sources \cup {Nil}
        /\ at[r] = "reorder" => next[r] \in 1 .. Len(list[r]) + 1

RecordSteps == {"logSuccess", "logFailure", "answer", "throw"}

\* Only an execution that has run its query is recorded.
LedgerTyped ==
    \A r \in Requests :
        at[r] \notin RecordSteps => writes[r] = {} /\ ledger[r] = {} /\ r \notin troubled

Typed == TypeOK /\ AimTyped /\ LedgerTyped

LEMMA InitTyped == Init => Typed
  BY IdsAssumption DEF Init, Typed, TypeOK, AimTyped, LedgerTyped, Steps

\* The lists a reorder accepts are sequences of widgets.
LEMMA ListTyped ==
    ASSUME NEW b, NEW ids \in [1..Cardinality(On(b)) -> On(b)]
    PROVE  ids \in Seq(Widgets)
<1>1. On(b) \subseteq Widgets
  BY DEF On
<1>2. Cardinality(On(b)) \in Nat
  BY <1>1, WidgetsAssumption, FS_Subset, FS_CardinalityType
<1>3. ids \in [1..Cardinality(On(b)) -> Widgets]
  BY <1>1
<1>4. QED
  BY <1>2, <1>3

\* Only a request that waits is rolled back.
LEMMA DeadlockedWaits ==
    ASSUME NEW r \in Requests, Deadlocked(r)
    PROVE  at[r] \in {"reorder", "dropBoard"}
<1>1. PICK S \in SUBSET Requests :
          /\ r \in S /\ S # {r}
          /\ \A T \in (SUBSET S) \ {{}, S} : \E q \in T, p \in S \ T : WaitsFor(q, p)
  BY DEF Deadlocked
<1>2. {r} \in (SUBSET S) \ {{}, S}
  BY <1>1, Zenon
<1>3. \E q \in {r}, p \in S \ {r} : WaitsFor(q, p)
  BY <1>1, <1>2, Zenon
<1>4. QED
  BY <1>3 DEF WaitsFor, Updating

\* The record of an execution: one statement of those under way ends, and the
\* request goes on at s.
Recorded(r, s) ==
    /\ at[r] \in {"logSuccess", "logFailure", "throw"}
    /\ s \in RecordSteps
    /\ \E w \in writes[r], v \in SUBSET Writes :
          (Fulfilled(r, w) \/ Rejected(r, w)) /\ Await(r, v, s)
    /\ UNCHANGED <<tables, rows, spent, locks, sorted>>

LEMMA RecordIsRecorded ==
    ASSUME TypeOK, NEW r \in Requests, LogSuccess(r) \/ LogFailure(r) \/ Straggle(r)
    PROVE  \E s \in RecordSteps : Recorded(r, s)
<1> USE DEF TypeOK, RecordSteps, Recorded
<1>0. writes[r] \in SUBSET Writes
  OBVIOUS
<1>1. CASE LogSuccess(r)
  <2>1. PICK w \in writes[r] :
            \/ /\ Fulfilled(r, w)
               /\ Await(r, writes[r] \ {w}, IF writes[r] = {w} THEN "answer" ELSE "logSuccess")
            \/ /\ Rejected(r, w)
               /\ Await(r, (writes[r] \ {w, "touch"}) \cup {"FAILED"}, "logFailure")
    BY <1>1 DEF LogSuccess
  <2>2. at[r] = "logSuccess" /\ UNCHANGED <<tables, rows, spent, locks, sorted>>
    BY <1>1 DEF LogSuccess
  <2>3. /\ writes[r] \ {w} \in SUBSET Writes
        /\ (writes[r] \ {w, "touch"}) \cup {"FAILED"} \in SUBSET Writes
    BY <1>0 DEF Writes, Outcomes
  <2>4. QED
    BY <2>1, <2>2, <2>3
<1>2. CASE LogFailure(r) \/ Straggle(r)
  <2>1. PICK w \in writes[r], s \in RecordSteps :
            (Fulfilled(r, w) \/ Rejected(r, w)) /\ Await(r, writes[r] \ {w}, s)
    BY <1>2 DEF LogFailure, Straggle
  <2>2. /\ at[r] \in {"logFailure", "throw"}
        /\ UNCHANGED <<tables, rows, spent, locks, sorted>>
    BY <1>2 DEF LogFailure, Straggle
  <2>3. writes[r] \ {w} \in SUBSET Writes
    BY <1>0
  <2>4. QED
    BY <2>1, <2>2, <2>3
<1>3. QED
  BY <1>1, <1>2

LEMMA TypedStep == ASSUME Typed, [Next]_vars PROVE Typed'
<1> USE IdsAssumption, PlacesAssumption
    DEF Typed, TypeOK, AimTyped, LedgerTyped, RecordSteps, Steps, Sources, Drawn,
        Writes, Outcomes, tables, rows, locks, request, log, history
<1>1. ASSUME NEW r \in Requests, NEW d \in Datasets, StartCreateAnalysis(r, d) PROVE Typed'
  BY <1>1 DEF StartCreateAnalysis, Begin
<1>2. ASSUME NEW r \in Requests, NEW d \in Datasets, StartCreateMetric(r, d) PROVE Typed'
  BY <1>2 DEF StartCreateMetric, Begin
<1>3. ASSUME NEW r \in Requests, NEW d \in Datasets, StartDeleteDataset(r, d) PROVE Typed'
  BY <1>3 DEF StartDeleteDataset, Begin
<1>4. ASSUME NEW r \in Requests, NEW a \in Analyses, StartUpdateAnalysis(r, a) PROVE Typed'
  BY <1>4 DEF StartUpdateAnalysis, Begin
<1>5. ASSUME NEW r \in Requests, NEW a \in Analyses, StartDeleteAnalysis(r, a) PROVE Typed'
  BY <1>5 DEF StartDeleteAnalysis, Begin
<1>6. ASSUME NEW r \in Requests, NEW a \in Analyses, StartExecuteAnalysis(r, a) PROVE Typed'
  BY <1>6 DEF StartExecuteAnalysis, Begin
<1>7. ASSUME NEW r \in Requests, NEW m \in Metrics, StartDeleteMetric(r, m) PROVE Typed'
  BY <1>7 DEF StartDeleteMetric, Begin
<1>8. ASSUME NEW r \in Requests, NEW b \in Dashboards, StartDeleteDashboard(r, b) PROVE Typed'
  BY <1>8 DEF StartDeleteDashboard, Begin
<1>9. ASSUME NEW r \in Requests, NEW b \in Dashboards, StartReorder(r, b) PROVE Typed'
  <2>1. PICK ids \in [1..Cardinality(On(b)) -> On(b)] : list' = [list EXCEPT ![r] = ids]
    BY <1>9 DEF StartReorder
  <2>2. ids \in Seq(Widgets)
    BY ListTyped
  <2>3. QED
    BY <1>9, <2>1, <2>2 DEF StartReorder
<1>10. ASSUME NEW r \in Requests, NEW b \in Dashboards, NEW s \in Sources,
              StartCreateWidget(r, b, s)
       PROVE  Typed'
  BY <1>10 DEF StartCreateWidget, Begin
<1>11. ASSUME NEW r \in Requests, NEW w \in Widgets, StartDeleteWidget(r, w) PROVE Typed'
  BY <1>11 DEF StartDeleteWidget, Begin
<1>12. ASSUME NEW r \in Requests, NEW w \in Widgets, NEW s \in Sources \cup {Nil},
              StartUpdateWidget(r, w, s)
       PROVE  Typed'
  BY <1>12 DEF StartUpdateWidget, Begin
<1>13. ASSUME NEW r \in Requests, CreateDashboard(r) PROVE Typed'
  BY <1>13 DEF CreateDashboard
<1>14. ASSUME NEW r \in Requests, CreateAnalysis(r) PROVE Typed'
  <2>1. CASE UNCHANGED <<queried, spent>>
    BY <1>14, <2>1 DEF CreateAnalysis, Leave
  <2>2. CASE \E a \in Analyses \ spent : /\ queried' = [queried EXCEPT ![a] = aim[r]]
                                         /\ spent' = spent \cup {a}
    BY <1>14, <2>2 DEF CreateAnalysis, Leave
  <2>3. QED
    BY <1>14, <2>1, <2>2 DEF CreateAnalysis
<1>15. ASSUME NEW r \in Requests, UpdateAnalysis(r) PROVE Typed'
  <2>1. CASE UNCHANGED queried
    BY <1>15, <2>1 DEF UpdateAnalysis, Leave
  <2>2. CASE \E d \in Datasets : queried' = [queried EXCEPT ![aim[r]] = d]
    BY <1>15, <2>2 DEF UpdateAnalysis, Leave
  <2>3. QED
    BY <1>15, <2>1, <2>2 DEF UpdateAnalysis
<1>16. ASSUME NEW r \in Requests, DeleteAnalysis(r) PROVE Typed'
  BY <1>16 DEF DeleteAnalysis, Leave
<1>17. ASSUME NEW r \in Requests, ExecuteQuery(r) PROVE Typed'
  <2>1. CASE Await(r, {"touch", "SUCCESS"}, "logSuccess")
    BY <1>17, <2>1 DEF ExecuteQuery, Await
  <2>2. CASE Await(r, {"FAILED"}, "logFailure")
    BY <1>17, <2>2 DEF ExecuteQuery, Await
  <2>3. QED
    BY <1>17, <2>1, <2>2 DEF ExecuteQuery
<1>18. ASSUME NEW r \in Requests, LogSuccess(r) \/ LogFailure(r) \/ Straggle(r) PROVE Typed'
  <2>0. PICK s \in RecordSteps : Recorded(r, s)
    BY <1>18, RecordIsRecorded
  <2>1. PICK w \in writes[r], v \in SUBSET Writes :
            (Fulfilled(r, w) \/ Rejected(r, w)) /\ Await(r, v, s)
    BY <2>0 DEF Recorded
  <2>2. ledger' \in [Requests -> SUBSET Outcomes] /\ troubled' \subseteq Requests
    <3>1. CASE UNCHANGED ledger
      BY <2>1, <3>1 DEF Fulfilled, Rejected
    <3>2. CASE Apply(r, w)
      BY <2>1, <3>2 DEF Fulfilled, Rejected, Apply
    <3>3. QED
      BY <2>1, <3>1, <3>2 DEF Fulfilled, Rejected
  <2>3. \A q \in Requests \ {r} : ledger'[q] = ledger[q] /\ (q \in troubled' => q \in troubled)
    BY <2>1 DEF Fulfilled, Rejected, Apply
  <2>4. aim[r] \in Analyses
    BY <2>0 DEF Recorded
  <2>5. TypeOK'
    BY <2>0, <2>1, <2>2 DEF Recorded, Await
  <2>6. AimTyped'
    BY <2>0, <2>1, <2>4 DEF Recorded, Await
  <2>7. LedgerTyped'
    BY <2>0, <2>1, <2>3 DEF Recorded, Await
  <2>8. QED
    BY <2>5, <2>6, <2>7
<1>19. ASSUME NEW r \in Requests, Fail(r) PROVE Typed'
  BY <1>19 DEF Fail, Unlock, Leave
<1>20. ASSUME NEW r \in Requests, Reply(r) PROVE Typed'
  BY <1>20 DEF Reply, Leave
<1>21. ASSUME NEW r \in Requests, CreateMetric(r) PROVE Typed'
  <2>1. CASE UNCHANGED <<measured, spent>>
    BY <1>21, <2>1 DEF CreateMetric, Leave
  <2>2. CASE \E m \in Metrics \ spent : /\ measured' = [measured EXCEPT ![m] = aim[r]]
                                        /\ spent' = spent \cup {m}
    BY <1>21, <2>2 DEF CreateMetric, Leave
  <2>3. QED
    BY <1>21, <2>1, <2>2 DEF CreateMetric
<1>22. ASSUME NEW r \in Requests, DeleteMetric(r) PROVE Typed'
  BY <1>22 DEF DeleteMetric, Leave
<1>23. ASSUME NEW r \in Requests, DeleteDashboard(r) PROVE Typed'
  BY <1>23 DEF DeleteDashboard, Leave
<1>24. ASSUME NEW r \in Requests, FindSource(r) PROVE Typed'
  <2>1. CASE GoTo(r, "addWidget")
    BY <1>24, <2>1 DEF FindSource, GoTo
  <2>2. CASE Leave(r)
    BY <1>24, <2>2 DEF FindSource, Leave
  <2>3. QED
    BY <1>24, <2>1, <2>2 DEF FindSource
<1>25. ASSUME NEW r \in Requests, CreateWidget(r) PROVE Typed'
  <2>1. CASE UNCHANGED <<rows, spent, sorted>>
    BY <1>25, <2>1 DEF CreateWidget, Leave
  <2>2. CASE \E w \in Widgets \ spent, p \in Places :
                 /\ home' = [home EXCEPT ![w] = aim[r]]
                 /\ source' = [source EXCEPT ![w] = ref[r]]
                 /\ pos' = [pos EXCEPT ![w] = p]
                 /\ spent' = spent \cup {w}
                 /\ sorted' = sorted \ {aim[r]}
    BY <1>25, <2>2 DEF CreateWidget, Leave
  <2>3. QED
    BY <1>25, <2>1, <2>2 DEF CreateWidget
<1>26. ASSUME NEW r \in Requests, FindNewSource(r) PROVE Typed'
  <2>1. CASE GoTo(r, "patch")
    BY <1>26, <2>1 DEF FindNewSource, GoTo
  <2>2. CASE Leave(r)
    BY <1>26, <2>2 DEF FindNewSource, Leave
  <2>3. QED
    BY <1>26, <2>1, <2>2 DEF FindNewSource
<1>27. ASSUME NEW r \in Requests, UpdateWidget(r) PROVE Typed'
  <2>1. CASE UNCHANGED <<source, pos, sorted>>
    BY <1>27, <2>1 DEF UpdateWidget, Leave
  <2>2. CASE /\ source' = IF ref[r] = Nil THEN source ELSE [source EXCEPT ![aim[r]] = ref[r]]
             /\ \E p \in Places \cup {pos[aim[r]]} : pos' = [pos EXCEPT ![aim[r]] = p]
             /\ sorted' = IF pos' = pos THEN sorted ELSE sorted \ {home[aim[r]]}
    <3>1. source' \in [Widgets -> Sources \cup {Nil}] /\ sorted' \subseteq Dashboards
      BY <1>27, <2>2 DEF UpdateWidget
    <3>2. pos' \in [Widgets -> Nat]
      BY <1>27, <2>2 DEF UpdateWidget
    <3>3. QED
      BY <1>27, <3>1, <3>2 DEF UpdateWidget, Leave
  <2>3. QED
    BY <1>27, <2>1, <2>2 DEF UpdateWidget
<1>28. ASSUME NEW r \in Requests, DeleteWidget(r) PROVE Typed'
  BY <1>28 DEF DeleteWidget, Leave
<1>29. ASSUME NEW r \in Requests, UpdatePosition(r) PROVE Typed'
  <2>1. next[r] \in 1 .. Len(list[r])
    BY <1>29 DEF UpdatePosition, Updating
  <2>2. Row(r) \in Widgets
    BY <2>1 DEF Row
  <2>3. next' \in [Requests -> Nat] /\ next'[r] \in 1 .. Len(list[r]) + 1
    <3>1. next' = [next EXCEPT ![r] = @ + 1]
      BY <1>29 DEF UpdatePosition
    <3>2. next \in [Requests -> Nat] /\ Len(list[r]) \in Nat
      OBVIOUS
    <3>3. next[r] + 1 \in Nat /\ next[r] + 1 \in 1 .. Len(list[r]) + 1
      BY <2>1, <3>2
    <3>4. QED
      BY <3>1, <3>2, <3>3
  <2>4. CASE held' = [held EXCEPT ![Row(r)] = r] /\ draft' = [draft EXCEPT ![Row(r)] = next[r] - 1]
    <3>1. next[r] - 1 \in Nat
      BY <2>1
    <3>2. held' \in [Widgets -> Requests \cup {Nil}] /\ draft' \in [Widgets -> Nat]
      BY <2>4, <3>1
    <3>3. QED
      BY <1>29, <2>3, <3>2 DEF UpdatePosition, Updating
  <2>5. CASE UNCHANGED locks
    BY <1>29, <2>5, <2>3 DEF UpdatePosition, Updating
  <2>6. QED
    BY <1>29, <2>4, <2>5 DEF UpdatePosition
<1>30. ASSUME NEW r \in Requests, Commit(r) PROVE Typed'
  BY <1>30 DEF Commit, Unlock, Leave
<1>31. ASSUME NEW r \in Requests, Rollback(r) PROVE Typed'
  <2>1. at[r] \in {"reorder", "dropBoard"}
    BY <1>31, DeadlockedWaits DEF Rollback
  <2>2. Unlock(r) /\ Leave(r) /\ UNCHANGED <<tables, rows, spent, history>>
    BY <1>31 DEF Rollback
  <2>3. QED
    BY <2>1, <2>2 DEF Unlock, Leave
<1>32. ASSUME NEW r \in Requests, RemoveObject(r) PROVE Typed'
  BY <1>32 DEF RemoveObject, GoTo
<1>33. ASSUME NEW r \in Requests, DeleteDataset(r) PROVE Typed'
  BY <1>33 DEF DeleteDataset, Leave
<1>34. CASE UNCHANGED vars
  BY <1>34 DEF vars
<1>35. QED
  BY <1>1, <1>2, <1>3, <1>4, <1>5, <1>6, <1>7, <1>8, <1>9, <1>10, <1>11, <1>12, <1>13,
     <1>14, <1>15, <1>16, <1>17, <1>18, <1>19, <1>20, <1>21, <1>22, <1>23, <1>24, <1>25,
     <1>26, <1>27, <1>28, <1>29, <1>30, <1>31, <1>32, <1>33, <1>34
     DEF Next, Start, Step

\* Every reachable state of the tables and the requests is well typed.
THEOREM TypeCorrect == Spec => []TypeOK
<1>1. Typed /\ [Next]_vars => Typed'
  BY TypedStep
<1>2. Typed => TypeOK
  BY DEF Typed
<1>3. QED
  BY InitTyped, <1>1, <1>2, PTL DEF Spec

LEMMA AlwaysTyped == Spec => []Typed
<1>1. Typed /\ [Next]_vars => Typed'
  BY TypedStep
<1>2. QED
  BY InitTyped, <1>1, PTL DEF Spec

-----------------------------------------------------------------------------
(* Referential integrity                                                     *)

\* The statements that write the tables and the rows of the widgets.
WritesTables(r) ==
    \/ CreateAnalysis(r) \/ UpdateAnalysis(r) \/ DeleteAnalysis(r)
    \/ CreateMetric(r) \/ DeleteMetric(r)
    \/ CreateDashboard(r) \/ DeleteDashboard(r)
    \/ CreateWidget(r) \/ UpdateWidget(r) \/ DeleteWidget(r)
    \/ Commit(r) \/ DeleteDataset(r)

\* Every other step leaves what the tables say to each other alone.
LEMMA OnlyWritesWrite ==
    ASSUME [Next]_vars, \A r \in Requests : ~WritesTables(r)
    PROVE  UNCHANGED <<datasets, queried, measured, boards, rows, spent, sorted>>
<1>1. CASE UNCHANGED vars
  BY <1>1 DEF vars, tables, history
<1>2. ASSUME NEW r \in Requests, Start(r)
      PROVE  UNCHANGED <<datasets, queried, measured, boards, rows, spent, sorted>>
  BY <1>2 DEF WritesTables, Start, StartCreateAnalysis, StartCreateMetric, StartDeleteDataset,
              StartUpdateAnalysis, StartDeleteAnalysis, StartExecuteAnalysis,
              StartDeleteMetric, StartDeleteDashboard, StartReorder, StartCreateWidget,
              StartDeleteWidget, StartUpdateWidget, tables, history
<1>3. ASSUME NEW r \in Requests, Step(r)
      PROVE  UNCHANGED <<datasets, queried, measured, boards, rows, spent, sorted>>
  BY <1>3 DEF WritesTables, Step, ExecuteQuery, LogSuccess, LogFailure, Straggle, Reply,
              FindSource, FindNewSource, UpdatePosition, Rollback, RemoveObject, tables, history
<1>4. ASSUME NEW r \in Requests, Fail(r)
      PROVE  UNCHANGED <<datasets, queried, measured, boards, rows, spent, sorted>>
  BY <1>4 DEF Fail, tables, history
<1>5. QED
  BY <1>1, <1>2, <1>3, <1>4 DEF Next

LEMMA ResolvedStep == ASSUME Typed, ReferencesResolve, [Next]_vars PROVE ReferencesResolve'
<1> USE IdsAssumption
    DEF Typed, TypeOK, AimTyped, ReferencesResolve, WidgetsResolve, MetricsHaveData, HasSource,
        Sources, rows, tables
<1>1. ASSUME NEW r \in Requests, CreateAnalysis(r) PROVE ReferencesResolve'
  <2>1. \A a \in Analyses : queried[a] # Nil => queried'[a] # Nil
    BY <1>1 DEF CreateAnalysis
  <2>2. QED
    BY <1>1, <2>1 DEF CreateAnalysis
<1>2. ASSUME NEW r \in Requests, UpdateAnalysis(r) PROVE ReferencesResolve'
  <2>1. \A a \in Analyses : queried[a] # Nil => queried'[a] # Nil
    BY <1>2 DEF UpdateAnalysis
  <2>2. QED
    BY <1>2, <2>1 DEF UpdateAnalysis
<1>3. ASSUME NEW r \in Requests, DeleteAnalysis(r) PROVE ReferencesResolve'
  BY <1>3 DEF DeleteAnalysis, Bound
<1>4. ASSUME NEW r \in Requests, CreateMetric(r) PROVE ReferencesResolve'
  <2>1. MetricsHaveData'
    BY <1>4 DEF CreateMetric
  <2>2. \A m \in Metrics : measured[m] # Nil => measured'[m] # Nil
    BY <1>4 DEF CreateMetric
  <2>3. WidgetsResolve'
    BY <1>4, <2>2 DEF CreateMetric
  <2>4. QED
    BY <2>1, <2>3
<1>5. ASSUME NEW r \in Requests, DeleteMetric(r) PROVE ReferencesResolve'
  BY <1>5 DEF DeleteMetric, Bound
<1>6. ASSUME NEW r \in Requests, CreateDashboard(r) PROVE ReferencesResolve'
  BY <1>6 DEF CreateDashboard
<1>7. ASSUME NEW r \in Requests, DeleteDashboard(r) PROVE ReferencesResolve'
  BY <1>7 DEF DeleteDashboard
<1>8. ASSUME NEW r \in Requests, CreateWidget(r) PROVE ReferencesResolve'
  <2>1. CASE UNCHANGED <<rows, spent, sorted>>
    BY <1>8, <2>1 DEF CreateWidget
  <2>2. CASE /\ aim[r] \in boards /\ HasSource(ref[r])
             /\ \E w \in Widgets \ spent : /\ home' = [home EXCEPT ![w] = aim[r]]
                                          /\ source' = [source EXCEPT ![w] = ref[r]]
    BY <1>8, <2>2 DEF CreateWidget
  <2>3. QED
    BY <1>8, <2>1, <2>2 DEF CreateWidget
<1>9. ASSUME NEW r \in Requests, UpdateWidget(r) PROVE ReferencesResolve'
  <2>1. CASE UNCHANGED source
    BY <1>9, <2>1 DEF UpdateWidget
  <2>2. CASE HasSource(ref[r]) /\ source' = [source EXCEPT ![aim[r]] = ref[r]] /\ home[aim[r]] # Nil
    BY <1>9, <2>2 DEF UpdateWidget
  <2>3. QED
    BY <1>9, <2>1, <2>2 DEF UpdateWidget
<1>10. ASSUME NEW r \in Requests, DeleteWidget(r) PROVE ReferencesResolve'
  BY <1>10 DEF DeleteWidget
<1>11. ASSUME NEW r \in Requests, Commit(r) PROVE ReferencesResolve'
  BY <1>11 DEF Commit
<1>12. ASSUME NEW r \in Requests, DeleteDataset(r) PROVE ReferencesResolve'
  BY <1>12 DEF DeleteDataset, Bound, MetricsOf
<1>13. CASE \A r \in Requests : ~WritesTables(r)
  BY <1>13, OnlyWritesWrite
<1>14. QED
  BY <1>1, <1>2, <1>3, <1>4, <1>5, <1>6, <1>7, <1>8, <1>9, <1>10, <1>11, <1>12, <1>13
     DEF WritesTables

\* Every widget is on a dashboard that exists and bound to a source that exists,
\* and every metric measures a dataset that exists, whatever is deleted while
\* createWidget, updateWidget or createMetric is under way.
THEOREM ReferencesAlwaysResolve == Spec => []ReferencesResolve
<1>1. Init => ReferencesResolve
  BY DEF Init, ReferencesResolve, WidgetsResolve, MetricsHaveData
<1>2. Typed /\ ReferencesResolve /\ [Next]_vars => ReferencesResolve'
  BY ResolvedStep
<1>3. QED
  BY AlwaysTyped, <1>1, <1>2, PTL DEF Spec

-----------------------------------------------------------------------------
(* Reorders.  What a request has locked are widgets of its dashboard, each at *)
(* the place its list gives it.                                              *)

\* r has come past w in its list, and has drafted that place for it.
Listed(r, w) ==
    \E i \in 1 .. Len(list[r]) : i < next[r] /\ list[r][i] = w /\ draft[w] = i - 1

LocksOrdered ==
    \A w \in Widgets, r \in Requests :
        held[w] = r => at[r] = "reorder" /\ home[w] = aim[r] /\ Listed(r, w)

\* An INSERT draws an id that no row has.
DrawnOnce ==
    /\ \A a \in Analyses : queried[a] # Nil => a \in spent
    /\ \A w \in Widgets : home[w] # Nil => w \in spent

LEMMA DrawnOnceStep == ASSUME Typed, DrawnOnce, [Next]_vars PROVE DrawnOnce'
<1> USE IdsAssumption DEF Typed, TypeOK, AimTyped, DrawnOnce, rows, tables
<1>1. ASSUME NEW r \in Requests, CreateAnalysis(r) PROVE DrawnOnce'
  BY <1>1 DEF CreateAnalysis
<1>2. ASSUME NEW r \in Requests, UpdateAnalysis(r) PROVE DrawnOnce'
  BY <1>2 DEF UpdateAnalysis
<1>3. ASSUME NEW r \in Requests, DeleteAnalysis(r) PROVE DrawnOnce'
  BY <1>3 DEF DeleteAnalysis
<1>4. ASSUME NEW r \in Requests, CreateMetric(r) PROVE DrawnOnce'
  BY <1>4 DEF CreateMetric
<1>5. ASSUME NEW r \in Requests, DeleteMetric(r) PROVE DrawnOnce'
  BY <1>5 DEF DeleteMetric
<1>6. ASSUME NEW r \in Requests, CreateDashboard(r) PROVE DrawnOnce'
  BY <1>6 DEF CreateDashboard
<1>7. ASSUME NEW r \in Requests, DeleteDashboard(r) PROVE DrawnOnce'
  BY <1>7 DEF DeleteDashboard
<1>8. ASSUME NEW r \in Requests, CreateWidget(r) PROVE DrawnOnce'
  BY <1>8 DEF CreateWidget
<1>9. ASSUME NEW r \in Requests, UpdateWidget(r) PROVE DrawnOnce'
  BY <1>9 DEF UpdateWidget
<1>10. ASSUME NEW r \in Requests, DeleteWidget(r) PROVE DrawnOnce'
  BY <1>10 DEF DeleteWidget
<1>11. ASSUME NEW r \in Requests, Commit(r) PROVE DrawnOnce'
  BY <1>11 DEF Commit
<1>12. ASSUME NEW r \in Requests, DeleteDataset(r) PROVE DrawnOnce'
  BY <1>12 DEF DeleteDataset
<1>13. CASE \A r \in Requests : ~WritesTables(r)
  BY <1>13, OnlyWritesWrite
<1>14. QED
  BY <1>1, <1>2, <1>3, <1>4, <1>5, <1>6, <1>7, <1>8, <1>9, <1>10, <1>11, <1>12, <1>13
     DEF WritesTables

LEMMA AlwaysDrawnOnce == Spec => []DrawnOnce
<1>1. Init => DrawnOnce
  BY DEF Init, DrawnOnce
<1>2. Typed /\ DrawnOnce /\ [Next]_vars => DrawnOnce'
  BY DrawnOnceStep
<1>3. QED
  BY AlwaysTyped, <1>1, <1>2, PTL DEF Spec

\* A step that is not a reorder's leaves the reorders where they are.
ReordersRest ==
    /\ UNCHANGED locks
    /\ \A q \in Requests :
          at[q] = "reorder" =>
              at'[q] = "reorder" /\ aim'[q] = aim[q] /\ list'[q] = list[q] /\ next'[q] = next[q]

LEMMA OnlyReordersReorder ==
    ASSUME Typed, [Next]_vars,
           \A r \in Requests : ~(UpdatePosition(r) \/ Commit(r) \/ Rollback(r) \/ Fail(r))
    PROVE  ReordersRest
<1> USE DEF ReordersRest, Typed, TypeOK, locks
<1>1. CASE UNCHANGED vars
  BY <1>1 DEF vars, request
<1>2. ASSUME NEW r \in Requests, Start(r) PROVE ReordersRest
  <2>1. at[r] = "idle" /\ UNCHANGED locks
    BY <1>2 DEF Start, StartCreateAnalysis, StartCreateMetric, StartDeleteDataset,
                StartUpdateAnalysis, StartDeleteAnalysis, StartExecuteAnalysis,
                StartDeleteMetric, StartDeleteDashboard, StartReorder, StartCreateWidget,
                StartDeleteWidget, StartUpdateWidget, CreateDashboard, Begin
  <2>2. CASE UNCHANGED request
    BY <2>1, <2>2 DEF request
  <2>3. CASE \E s, x, y : Begin(r, s, x, y)
    BY <2>1, <2>3 DEF Begin
  <2>4. CASE \E b \in Dashboards : StartReorder(r, b)
    BY <2>1, <2>4 DEF StartReorder
  <2>5. QED
    BY <1>2, <2>2, <2>3, <2>4
       DEF Start, StartCreateAnalysis, StartCreateMetric, StartDeleteDataset,
           StartUpdateAnalysis, StartDeleteAnalysis, StartExecuteAnalysis,
           StartDeleteMetric, StartDeleteDashboard, StartCreateWidget,
           StartDeleteWidget, StartUpdateWidget, CreateDashboard
<1>3. ASSUME NEW r \in Requests, Step(r) PROVE ReordersRest
  <2>1. /\ at[r] # "reorder" /\ UNCHANGED locks
        /\ Leave(r) \/ (\E s : GoTo(r, s)) \/ (\E w, s : Await(r, w, s))
    BY <1>3 DEF Step, CreateAnalysis, UpdateAnalysis, DeleteAnalysis, ExecuteQuery,
                LogSuccess, LogFailure, Straggle, Reply, CreateMetric, DeleteMetric,
                DeleteDashboard,
                FindSource, CreateWidget, FindNewSource, UpdateWidget, DeleteWidget,
                RemoveObject, DeleteDataset
  <2>2. QED
    BY <2>1 DEF Leave, GoTo, Await
<1>4. QED
  BY <1>1, <1>2, <1>3 DEF Next

\* A widget whose row is locked stays where it is.
LEMMA LockedStays ==
    ASSUME Typed, DrawnOnce, LocksOrdered, [Next]_vars,
           NEW w \in Widgets, held[w] # Nil
    PROVE  home'[w] = home[w]
<1> USE IdsAssumption DEF Typed, TypeOK, AimTyped, DrawnOnce, LocksOrdered, rows, tables
<1>1. home[w] # Nil
  OBVIOUS
<1>2. ASSUME NEW r \in Requests, DeleteDashboard(r) PROVE home'[w] = home[w]
  BY <1>2 DEF DeleteDashboard, On, Free
<1>3. ASSUME NEW r \in Requests, DeleteWidget(r) PROVE home'[w] = home[w]
  BY <1>3 DEF DeleteWidget, Free
<1>4. ASSUME NEW r \in Requests, CreateWidget(r) PROVE home'[w] = home[w]
  BY <1>1, <1>4 DEF CreateWidget
<1>5. ASSUME NEW r \in Requests,
             \/ CreateAnalysis(r) \/ UpdateAnalysis(r) \/ DeleteAnalysis(r)
             \/ CreateMetric(r) \/ DeleteMetric(r) \/ CreateDashboard(r)
             \/ UpdateWidget(r) \/ Commit(r) \/ DeleteDataset(r)
      PROVE  home'[w] = home[w]
  BY <1>5 DEF CreateAnalysis, UpdateAnalysis, DeleteAnalysis, CreateMetric, DeleteMetric,
              CreateDashboard, UpdateWidget, Commit, DeleteDataset
<1>6. CASE \A r \in Requests : ~WritesTables(r)
  BY <1>6, OnlyWritesWrite
<1>7. QED
  BY <1>2, <1>3, <1>4, <1>5, <1>6 DEF WritesTables

LEMMA LocksOrderedStep ==
    ASSUME Typed, DrawnOnce, LocksOrdered, [Next]_vars PROVE LocksOrdered'
<1>1. ASSUME NEW r \in Requests, UpdatePosition(r) PROVE LocksOrdered'
  <2>0. UNCHANGED <<at, aim, home, list>> /\ at[r] = "reorder"
    BY <1>1 DEF UpdatePosition, Updating, rows
  <2>1. \A q \in Requests : next'[q] >= next[q]
    BY <1>1 DEF UpdatePosition, Typed, TypeOK
  <2>2. SUFFICES ASSUME NEW w \in Widgets, NEW q \in Requests, held'[w] = q
                 PROVE  at[q] = "reorder" /\ home[w] = aim[q] /\ Listed(q, w)'
    BY <2>0 DEF LocksOrdered
  <2>3. CASE held[w] = q /\ draft'[w] = draft[w]
    <3>1. at[q] = "reorder" /\ home[w] = aim[q] /\ Listed(q, w)
      BY <2>3 DEF LocksOrdered
    <3>2. PICK i \in 1 .. Len(list[q]) : i < next[q] /\ list[q][i] = w /\ draft[w] = i - 1
      BY <3>1 DEF Listed
    <3>3. next[q] \in Nat /\ next'[q] \in Nat /\ next'[q] >= next[q]
      BY <1>1, <2>1 DEF UpdatePosition, Typed, TypeOK
    <3>4. i < next'[q] /\ list'[q][i] = w /\ draft'[w] = i - 1 /\ i \in 1 .. Len(list'[q])
      BY <2>0, <2>3, <3>2, <3>3
    <3>5. QED
      BY <3>1, <3>4 DEF Listed
  <2>4. CASE ~(held[w] = q /\ draft'[w] = draft[w])
    <3>1. /\ home[Row(r)] = aim[r]
          /\ held' = [held EXCEPT ![Row(r)] = r]
          /\ draft' = [draft EXCEPT ![Row(r)] = next[r] - 1]
      BY <1>1, <2>2, <2>4 DEF UpdatePosition, locks
    <3>2. w = Row(r) /\ q = r /\ draft'[w] = next[r] - 1
      BY <2>2, <2>4, <3>1 DEF Typed, TypeOK
    <3>3. next[r] \in 1 .. Len(list[r]) /\ next'[r] = next[r] + 1
      BY <1>1, <2>0 DEF UpdatePosition, Updating, Typed, TypeOK, AimTyped
    <3>4. QED
      BY <2>0, <3>1, <3>2, <3>3 DEF Listed, Row
  <2>5. QED
    BY <2>3, <2>4
<1>2. ASSUME NEW r \in Requests, Unlock(r), Leave(r), UNCHANGED home PROVE LocksOrdered'
  <2>1. SUFFICES ASSUME NEW w \in Widgets, NEW q \in Requests, held'[w] = q
                 PROVE  at'[q] = "reorder" /\ home'[w] = aim'[q] /\ Listed(q, w)'
    BY DEF LocksOrdered
  <2>2. q # r /\ held[w] = q /\ draft'[w] = draft[w]
    BY <1>2, <2>1, IdsAssumption DEF Unlock, Typed, TypeOK
  <2>3. at'[q] = at[q] /\ aim'[q] = aim[q] /\ list'[q] = list[q] /\ next'[q] = next[q]
    BY <1>2, <2>2 DEF Leave, Typed, TypeOK
  <2>4. at[q] = "reorder" /\ home[w] = aim[q] /\ Listed(q, w)
    BY <2>2 DEF LocksOrdered
  <2>5. Listed(q, w)'
    BY <2>2, <2>3, <2>4 DEF Listed
  <2>6. QED
    BY <1>2, <2>3, <2>4, <2>5
<1>3. CASE \A r \in Requests : ~(UpdatePosition(r) \/ Commit(r) \/ Rollback(r) \/ Fail(r))
  <2>1. ReordersRest
    BY <1>3, OnlyReordersReorder
  <2>2. SUFFICES ASSUME NEW w \in Widgets, NEW q \in Requests, held'[w] = q
                 PROVE  at'[q] = "reorder" /\ home'[w] = aim'[q] /\ Listed(q, w)'
    BY DEF LocksOrdered
  <2>3. held[w] = q /\ draft'[w] = draft[w] /\ held[w] # Nil
    BY <2>1, <2>2, IdsAssumption DEF ReordersRest, locks
  <2>4. home'[w] = home[w]
    BY <2>3, LockedStays
  <2>5. QED
    BY <2>1, <2>3, <2>4 DEF ReordersRest, LocksOrdered, Listed
<1>4. ASSUME NEW r \in Requests, Commit(r) PROVE LocksOrdered'
  BY <1>2, <1>4 DEF Commit
<1>5. ASSUME NEW r \in Requests, Rollback(r) PROVE LocksOrdered'
  BY <1>2, <1>5 DEF Rollback, rows
<1>6. ASSUME NEW r \in Requests, Fail(r) PROVE LocksOrdered'
  BY <1>2, <1>6 DEF Fail, rows
<1>7. QED
  BY <1>1, <1>3, <1>4, <1>5, <1>6

LEMMA AlwaysLocksOrdered == Spec => []LocksOrdered
<1>1. Init => LocksOrdered
  BY IdsAssumption DEF Init, LocksOrdered
<1>2. Typed /\ DrawnOnce /\ LocksOrdered /\ [Next]_vars => LocksOrdered'
  BY LocksOrderedStep
<1>3. QED
  BY AlwaysTyped, AlwaysDrawnOnce, <1>1, <1>2, PTL DEF Spec

\* As many places as widgets, each widget at a place of its own: by the pigeonhole
\* principle, the drafts of a complete reorder are 0, 1, 2, ...
LEMMA CompleteFills ==
    ASSUME Typed, LocksOrdered, NEW r \in Requests, Complete(r)
    PROVE  {draft[w] : w \in On(aim[r])} = 0 .. Cardinality(On(aim[r])) - 1
<1> DEFINE W == On(aim[r])
           n == Len(list[r])
           f == [w \in W |-> draft[w] + 1]
<1>1. W \subseteq Widgets /\ Cardinality(W) = n /\ n \in Nat
  BY DEF Complete, On, Typed, TypeOK
<1>2. \A w \in W : Listed(r, w) /\ draft[w] \in Nat
  BY <1>1 DEF Complete, Locked, LocksOrdered, Typed, TypeOK
<1>3. \A w \in W : f[w] \in 1 .. n /\ list[r][f[w]] = w
  <2> TAKE w \in W
  <2>1. PICK i \in 1 .. n : list[r][i] = w /\ draft[w] = i - 1
    BY <1>2 DEF Listed
  <2>2. f[w] = i
    BY <2>1
  <2>3. QED
    BY <2>1, <2>2
<1>4. f \in Injection(W, 1 .. n)
  BY <1>3 DEF Injection, IsInjective
<1>5. IsFiniteSet(1 .. n) /\ Cardinality(1 .. n) = n
  BY <1>1, FS_Interval
<1>6. f \in Surjection(W, 1 .. n)
  BY <1>1, <1>4, <1>5, FS_Injection
<1>7. \A k \in 1 .. n : \E w \in W : draft[w] + 1 = k
  BY <1>6 DEF Surjection
<1>8. \A k \in 0 .. n - 1 : \E w \in W : draft[w] = k
  <2> TAKE k \in 0 .. n - 1
  <2>1. k + 1 \in 1 .. n
    BY <1>1
  <2>2. PICK w \in W : draft[w] + 1 = k + 1
    BY <1>7, <2>1
  <2>3. QED
    BY <1>2, <2>2
<1>9. \A w \in W : draft[w] \in 0 .. n - 1
  BY <1>1, <1>2, <1>3
<1>10. QED
  BY <1>1, <1>8, <1>9

\* The dashboards in order are dashboards nothing was done to.
GapsRest ==
    /\ sorted' \subseteq sorted
    /\ \A b \in sorted', w \in Widgets :
          /\ home'[w] = b <=> home[w] = b
          /\ home[w] = b => pos'[w] = pos[w]

LEMMA GapsRestKeeps ==
    ASSUME NoGaps, NEW b \in sorted', b \in sorted,
           \A w \in Widgets : /\ home'[w] = b <=> home[w] = b
                              /\ home[w] = b => pos'[w] = pos[w]
    PROVE  {pos'[w] : w \in On(b)'} = 0 .. Cardinality(On(b)') - 1
<1>1. On(b)' = On(b)
  BY DEF On
<1>2. {pos'[w] : w \in On(b)} = {pos[w] : w \in On(b)}
  BY DEF On
<1>3. {pos[w] : w \in On(b)} = 0 .. Cardinality(On(b)) - 1
  BY DEF NoGaps
<1>4. QED
  BY <1>1, <1>2, <1>3

LEMMA NoGapsStep ==
    ASSUME Typed, DrawnOnce, LocksOrdered, NoGaps, [Next]_vars PROVE NoGaps'
<1>1. ASSUME GapsRest PROVE NoGaps'
  BY <1>1, GapsRestKeeps DEF GapsRest, NoGaps
<1>2. ASSUME NEW r \in Requests, Commit(r) PROVE NoGaps'
  <2>1. SUFFICES ASSUME NEW b \in sorted'
                 PROVE  {pos'[w] : w \in On(b)'} = 0 .. Cardinality(On(b)') - 1
    BY DEF NoGaps
  <2>2. CASE b # aim[r]
    <3>1. b \in sorted
      BY <1>2, <2>1, <2>2 DEF Commit
    <3>2. \A w \in Widgets : home[w] = b => pos'[w] = pos[w]
      BY <1>2, <2>2 DEF Commit, LocksOrdered
    <3>3. home' = home
      BY <1>2 DEF Commit
    <3>4. QED
      BY <3>1, <3>2, <3>3, GapsRestKeeps
  <2>3. CASE b = aim[r]
    <3>1. Complete(r)
      BY <1>2, <2>1, <2>3 DEF Commit
    <3>2. On(b)' = On(b)
      BY <1>2 DEF Commit, On
    <3>3. \A w \in On(b) : pos'[w] = draft[w]
      BY <1>2, <2>3, <3>1 DEF Commit, Complete, Locked, On
    <3>4. {pos'[w] : w \in On(b)} = {draft[w] : w \in On(b)}
      BY <3>3
    <3>5. QED
      BY <2>3, <3>1, <3>2, <3>4, CompleteFills
  <2>4. QED
    BY <2>2, <2>3
<1>3. ASSUME NEW r \in Requests, DeleteDashboard(r) PROVE GapsRest
  BY <1>3, IdsAssumption DEF DeleteDashboard, GapsRest, Typed, TypeOK, AimTyped
<1>4. ASSUME NEW r \in Requests, DeleteWidget(r) PROVE GapsRest
  BY <1>4, IdsAssumption DEF DeleteWidget, GapsRest, Typed, TypeOK, AimTyped
<1>5. ASSUME NEW r \in Requests, CreateWidget(r) PROVE GapsRest
  <2>1. CASE UNCHANGED <<rows, spent, sorted>>
    BY <2>1 DEF GapsRest, rows
  <2>2. CASE \E w \in Widgets \ spent, p \in Places :
                 /\ home' = [home EXCEPT ![w] = aim[r]]
                 /\ pos' = [pos EXCEPT ![w] = p]
                 /\ sorted' = sorted \ {aim[r]}
    BY <2>2, IdsAssumption DEF GapsRest, DrawnOnce, Typed, TypeOK
  <2>3. QED
    BY <1>5, <2>1, <2>2 DEF CreateWidget
<1>6. ASSUME NEW r \in Requests, UpdateWidget(r) PROVE GapsRest
  <2>1. CASE pos' = pos /\ sorted' \subseteq sorted
    BY <1>6, <2>1 DEF UpdateWidget, GapsRest
  <2>2. CASE /\ \E p \in Places \cup {pos[aim[r]]} : pos' = [pos EXCEPT ![aim[r]] = p]
             /\ sorted' = sorted \ {home[aim[r]]}
    BY <1>6, <2>2 DEF UpdateWidget, GapsRest, Typed, TypeOK
  <2>3. QED
    BY <1>6, <2>1, <2>2 DEF UpdateWidget
<1>7. ASSUME NEW r \in Requests,
             \/ CreateAnalysis(r) \/ UpdateAnalysis(r) \/ DeleteAnalysis(r)
             \/ CreateMetric(r) \/ DeleteMetric(r) \/ CreateDashboard(r) \/ DeleteDataset(r)
      PROVE  GapsRest
  BY <1>7 DEF CreateAnalysis, UpdateAnalysis, DeleteAnalysis, CreateMetric, DeleteMetric,
              CreateDashboard, DeleteDataset, GapsRest, rows, history
<1>8. CASE \A r \in Requests : ~WritesTables(r)
  BY <1>1, <1>8, OnlyWritesWrite DEF GapsRest, rows
<1>9. QED
  BY <1>1, <1>2, <1>3, <1>4, <1>5, <1>6, <1>7, <1>8 DEF WritesTables

\* A reorder that named every widget leaves the positions 0, 1, 2, ..., for any
\* number of widgets and of requests that race with it.
THEOREM ReordersLeaveNoGaps == Spec => []NoGaps
<1>1. Init => NoGaps
  BY DEF Init, NoGaps
<1>2. Typed /\ DrawnOnce /\ LocksOrdered /\ NoGaps /\ [Next]_vars => NoGaps'
  BY NoGapsStep
<1>3. QED
  BY AlwaysTyped, AlwaysDrawnOnce, AlwaysLocksOrdered, <1>1, <1>2, PTL DEF Spec

-----------------------------------------------------------------------------
(* Executions                                                                *)

ExecSteps == {"query"} \cup RecordSteps

\* What is under way and what is recorded, at each step of an execution of whose
\* record no statement was lost.  A success is recorded by LogSuccess alone: the
\* first statement of its record to fail leaves the step.
RecordKept ==
    \A r \in Requests :
        /\ at[r] = "logSuccess" =>
              /\ writes[r] \subseteq {"touch", "SUCCESS"}
              /\ ledger[r] = {"SUCCESS"} \ writes[r]
              /\ r \notin troubled
        /\ at[r] = "answer" => ledger[r] = {"SUCCESS"}
        /\ at[r] = "logFailure" /\ r \notin troubled =>
              writes[r] = {"FAILED"} /\ ledger[r] = {}
        /\ at[r] = "throw" /\ r \notin troubled =>
              /\ writes[r] = {}
              /\ queried[aim[r]] # Nil => ledger[r] = {"FAILED"}

\* An execution is of an analysis that has been created, and a deleted analysis
\* does not come back under its id.
Logged ==
    /\ RecordKept
    /\ \A r \in Requests : at[r] \in ExecSteps => aim[r] \in spent

\* No execution gets on, and no analysis appears.
LedgerRests ==
    /\ UNCHANGED log
    /\ spent \subseteq spent'
    /\ \A a \in Analyses \cap spent : queried[a] = Nil => queried'[a] = Nil
    /\ \A q \in Requests :
          at'[q] \in ExecSteps =>
              at'[q] = at[q] /\ aim'[q] = aim[q] /\ writes'[q] = writes[q]

LEMMA LedgerRestsKeeps == ASSUME Typed, Logged, LedgerRests PROVE Logged'
<1> USE DEF Logged, LedgerRests, ExecSteps, RecordSteps, log
<1>1. \A r \in Requests : at'[r] \in ExecSteps => aim'[r] \in spent'
  OBVIOUS
<1>2. RecordKept'
  BY DEF RecordKept, Typed, AimTyped
<1>3. QED
  BY <1>1, <1>2

\* A statement of the record ends: what is said of the request it is of has to be
\* shown, and nothing else is touched.
LEMMA RecordedKeeps ==
    ASSUME Typed, Logged, NEW r \in Requests, NEW s \in RecordSteps, Recorded(r, s),
           /\ at'[r] = "logSuccess" =>
                 /\ writes'[r] \subseteq {"touch", "SUCCESS"}
                 /\ ledger'[r] = {"SUCCESS"} \ writes'[r]
                 /\ r \notin troubled'
           /\ at'[r] = "answer" => ledger'[r] = {"SUCCESS"}
           /\ at'[r] = "logFailure" /\ r \notin troubled' =>
                 writes'[r] = {"FAILED"} /\ ledger'[r] = {}
           /\ at'[r] = "throw" /\ r \notin troubled' =>
                 /\ writes'[r] = {}
                 /\ queried[aim[r]] # Nil => ledger'[r] = {"FAILED"}
    PROVE  Logged'
<1>1. PICK w \in writes[r], v \in SUBSET Writes :
          (Fulfilled(r, w) \/ Rejected(r, w)) /\ Await(r, v, s)
  BY DEF Recorded
<1>2. UNCHANGED <<aim, queried, spent>> /\ at[r] \in ExecSteps
  BY <1>1 DEF Recorded, Await, tables, ExecSteps, RecordSteps
<1>3. \A q \in Requests \ {r} :
          /\ at'[q] = at[q] /\ writes'[q] = writes[q] /\ ledger'[q] = ledger[q]
          /\ q \notin troubled' <=> q \notin troubled
  BY <1>1 DEF Await, Fulfilled, Rejected, Apply, log, Typed, TypeOK
<1>4. \A q \in Requests : at'[q] \in ExecSteps => aim'[q] \in spent'
  BY <1>2, <1>3 DEF Logged
<1>5. RecordKept'
  BY <1>2, <1>3 DEF Logged, RecordKept
<1>6. QED
  BY <1>4, <1>5 DEF Logged

LEMMA LogSuccessKeeps ==
    ASSUME Typed, Logged, NEW r \in Requests, LogSuccess(r) PROVE Logged'
<1>1. PICK w \in writes[r] :
          \/ /\ Fulfilled(r, w)
             /\ Await(r, writes[r] \ {w}, IF writes[r] = {w} THEN "answer" ELSE "logSuccess")
          \/ /\ Rejected(r, w)
             /\ Await(r, (writes[r] \ {w, "touch"}) \cup {"FAILED"}, "logFailure")
  BY DEF LogSuccess
<1>2. /\ writes[r] \subseteq {"touch", "SUCCESS"}
      /\ ledger[r] = {"SUCCESS"} \ writes[r]
      /\ r \notin troubled
  BY DEF LogSuccess, Logged, RecordKept
<1>3. PICK s \in RecordSteps : Recorded(r, s)
  BY RecordIsRecorded DEF Typed
<1> USE DEF Await, Fulfilled, Rejected, Apply, Possible, Outcomes, log, Typed, TypeOK
<1>4. CASE /\ Fulfilled(r, w)
           /\ Await(r, writes[r] \ {w}, IF writes[r] = {w} THEN "answer" ELSE "logSuccess")
  <2>1. ledger'[r] = {"SUCCESS"} \ writes'[r] /\ r \notin troubled'
    BY <1>2, <1>4
  <2>2. writes'[r] \subseteq {"touch", "SUCCESS"}
    BY <1>2, <1>4
  <2>3. (at'[r] = "answer" /\ writes'[r] = {}) \/ at'[r] = "logSuccess"
    BY <1>4
  <2>4. QED
    BY <1>3, <2>1, <2>2, <2>3, RecordedKeeps
<1>5. CASE /\ Rejected(r, w)
           /\ Await(r, (writes[r] \ {w, "touch"}) \cup {"FAILED"}, "logFailure")
  <2>1. at'[r] = "logFailure"
    BY <1>5
  <2>2. ASSUME r \notin troubled' PROVE writes'[r] = {"FAILED"} /\ ledger'[r] = {}
    <3>1. ~Possible(r, w) /\ UNCHANGED log
      BY <1>5, <2>2
    <3>2. w = "SUCCESS"
      BY <1>2, <3>1
    <3>3. QED
      BY <1>2, <1>5, <3>1, <3>2
  <2>3. QED
    BY <1>3, <2>1, <2>2, RecordedKeeps
<1>6. QED
  BY <1>1, <1>4, <1>5

LEMMA LogFailureKeeps ==
    ASSUME Typed, Logged, NEW r \in Requests, LogFailure(r) \/ Straggle(r) PROVE Logged'
<1>1. PICK w \in writes[r] :
          /\ Fulfilled(r, w) \/ Rejected(r, w)
          /\ \/ /\ at[r] = "logFailure"
                /\ Await(r, writes[r] \ {w}, IF w = "FAILED" THEN "throw" ELSE "logFailure")
             \/ at[r] = "throw" /\ Await(r, writes[r] \ {w}, "throw")
  BY DEF LogFailure, Straggle
<1>2. PICK s \in RecordSteps : Recorded(r, s)
  BY RecordIsRecorded DEF Typed
<1> USE DEF Await, Fulfilled, Rejected, Apply, Possible, Outcomes, log, Typed, TypeOK
<1>3. at'[r] \in {"logFailure", "throw"} /\ (r \in troubled => r \in troubled')
  BY <1>1
<1>4. CASE r \in troubled'
  BY <1>2, <1>3, <1>4, RecordedKeeps
<1>5. CASE r \notin troubled'
  <2>1. w = "FAILED" /\ writes[r] = {"FAILED"} /\ ledger[r] = {} /\ at[r] = "logFailure"
    BY <1>1, <1>3, <1>5 DEF Logged, RecordKept
  <2>2. at'[r] = "throw" /\ writes'[r] = {}
    BY <1>1, <2>1
  <2>3. queried[aim[r]] # Nil => ledger'[r] = {"FAILED"}
    BY <1>1, <1>5, <2>1
  <2>4. QED
    BY <1>2, <2>2, <2>3, RecordedKeeps
<1>6. QED
  BY <1>4, <1>5

LEMMA LoggedStep == ASSUME Typed, DrawnOnce, Logged, [Next]_vars PROVE Logged'
<1>1. ASSUME NEW r \in Requests, NEW a \in Analyses, StartExecuteAnalysis(r, a) PROVE Logged'
  BY <1>1 DEF StartExecuteAnalysis, Begin, Logged, RecordKept, ExecSteps, RecordSteps, DrawnOnce,
              Typed, TypeOK, tables, log, history
<1>2. ASSUME NEW r \in Requests, ExecuteQuery(r) PROVE Logged'
  <2>1. /\ at[r] = "query" /\ writes[r] = {} /\ ledger[r] = {} /\ r \notin troubled
        /\ UNCHANGED <<aim, queried, spent, ledger, troubled>>
    BY <1>2 DEF ExecuteQuery, Await, Typed, LedgerTyped, RecordSteps, tables, log, history
  <2>2. \A q \in Requests \ {r} : at'[q] = at[q] /\ writes'[q] = writes[q]
    BY <1>2 DEF ExecuteQuery, Await, Typed, TypeOK
  <2>3. \/ at'[r] = "logSuccess" /\ writes'[r] = {"touch", "SUCCESS"}
        \/ at'[r] = "logFailure" /\ writes'[r] = {"FAILED"}
    BY <1>2 DEF ExecuteQuery, Await, Typed, TypeOK
  <2>4. \A q \in Requests : at'[q] \in ExecSteps => aim'[q] \in spent'
    BY <2>1, <2>2 DEF Logged, ExecSteps
  <2>5. RecordKept'
    BY <2>1, <2>2, <2>3 DEF Logged, RecordKept
  <2>6. QED
    BY <2>4, <2>5 DEF Logged
<1>3. ASSUME NEW r \in Requests, LogSuccess(r) \/ LogFailure(r) \/ Straggle(r) PROVE Logged'
  BY <1>3, LogSuccessKeeps, LogFailureKeeps
<1>4. ASSUME NEW r \in Requests, Reply(r) PROVE Logged'
  BY <1>4 DEF Reply, Leave, Logged, RecordKept, ExecSteps, RecordSteps, Typed, TypeOK, tables
<1>5. ASSUME NEW r \in Requests, CreateAnalysis(r) PROVE LedgerRests
  BY <1>5 DEF CreateAnalysis, Leave, LedgerRests, ExecSteps, RecordSteps, Typed, TypeOK,
     log, history
<1>6. ASSUME NEW r \in Requests, UpdateAnalysis(r) PROVE LedgerRests
  BY <1>6 DEF UpdateAnalysis, Leave, LedgerRests, ExecSteps, RecordSteps, Typed, TypeOK,
     AimTyped, log, history
<1>7. ASSUME NEW r \in Requests, DeleteAnalysis(r) PROVE LedgerRests
  BY <1>7 DEF DeleteAnalysis, Leave, LedgerRests, ExecSteps, RecordSteps, Typed, TypeOK,
     AimTyped, log, history
<1>8. ASSUME NEW r \in Requests, CreateDashboard(r) \/ UpdatePosition(r) PROVE LedgerRests
  BY <1>8 DEF CreateDashboard, UpdatePosition, LedgerRests, request, tables, log, history
<1>9. ASSUME NEW r \in Requests,
             \/ CreateMetric(r) \/ DeleteMetric(r) \/ DeleteDashboard(r) \/ CreateWidget(r)
             \/ UpdateWidget(r) \/ DeleteWidget(r) \/ Commit(r) \/ Rollback(r) \/ DeleteDataset(r)
             \/ Fail(r)
      PROVE  LedgerRests
  <2>1. Leave(r) /\ UNCHANGED <<log, queried>> /\ spent \subseteq spent'
    BY <1>9 DEF CreateMetric, DeleteMetric, DeleteDashboard, CreateWidget, UpdateWidget,
                DeleteWidget, Commit, Rollback, DeleteDataset, Fail, tables, log, history
  <2>2. QED
    BY <2>1 DEF Leave, LedgerRests, ExecSteps, RecordSteps, Typed, TypeOK
<1>10. ASSUME NEW r \in Requests, FindSource(r) \/ FindNewSource(r) \/ RemoveObject(r)
       PROVE  LedgerRests
  <2>1. /\ Leave(r) \/ \E s : s \notin ExecSteps /\ GoTo(r, s)
        /\ UNCHANGED <<log, queried, spent>>
    BY <1>10 DEF FindSource, FindNewSource, RemoveObject, ExecSteps, RecordSteps, tables,
       log, history
  <2>2. QED
    BY <2>1 DEF Leave, GoTo, LedgerRests, ExecSteps, RecordSteps, Typed, TypeOK
<1>11. ASSUME NEW r \in Requests, Start(r), ~CreateDashboard(r),
              \A a \in Analyses : ~StartExecuteAnalysis(r, a)
       PROVE  LedgerRests
  <2>1. UNCHANGED <<log, queried, spent>>
    BY <1>11 DEF Start, StartCreateAnalysis, StartCreateMetric, StartDeleteDataset,
                 StartUpdateAnalysis, StartDeleteAnalysis, StartDeleteMetric,
                 StartDeleteDashboard, StartReorder, StartCreateWidget, StartDeleteWidget,
                 StartUpdateWidget, tables, log, history
  <2>2. CASE \E b \in Dashboards : StartReorder(r, b)
    BY <2>1, <2>2 DEF StartReorder, LedgerRests, ExecSteps, RecordSteps, Typed, TypeOK
  <2>3. CASE \E s, x, y : s \notin ExecSteps /\ Begin(r, s, x, y)
    BY <2>1, <2>3 DEF Begin, LedgerRests, ExecSteps, RecordSteps, Typed, TypeOK
  <2>4. QED
    BY <1>11, <2>2, <2>3
       DEF Start, StartCreateAnalysis, StartCreateMetric, StartDeleteDataset,
           StartUpdateAnalysis, StartDeleteAnalysis, StartDeleteMetric, ExecSteps, RecordSteps,
           StartDeleteDashboard, StartCreateWidget, StartDeleteWidget, StartUpdateWidget
<1>12. CASE UNCHANGED vars
  BY <1>12, LedgerRestsKeeps DEF vars, tables, request, history, LedgerRests
<1>13. QED
  BY <1>1, <1>2, <1>3, <1>4, <1>5, <1>6, <1>7, <1>8, <1>9, <1>10, <1>11, <1>12,
     LedgerRestsKeeps DEF Next, Step

\* Every execution that is answered has exactly the run row SUCCESS, and every one
\* that failed exactly the row FAILED, if no statement of its record was lost.
THEOREM ExecutionsLogged == Spec => []ExecutionLogged
<1>1. Init => Logged
  BY DEF Init, Logged, RecordKept, ExecSteps, RecordSteps
<1>2. Typed /\ DrawnOnce /\ Logged /\ [Next]_vars => Logged'
  BY LoggedStep
<1>3. Logged => ExecutionLogged
  BY DEF Logged, RecordKept, ExecutionLogged
<1>4. QED
  BY AlwaysTyped, AlwaysDrawnOnce, <1>1, <1>2, <1>3, PTL DEF Spec
=============================================================================
