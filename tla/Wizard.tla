-------------------------------- MODULE Wizard --------------------------------
(***************************************************************************)
(* A new backtest, from the wizard of NewBacktestPage to the bars that the *)
(* engine is started on.  The page gates its steps by what it has fetched  *)
(* about the dataset, but the buttons of its stepper lead to any step; the *)
(* server checks everything again, in createBacktest, while the dataset    *)
(* may be deleted.  What follows, the run and its rows, is the business of *)
(* Backtest and BacktestPersist.                                           *)
(***************************************************************************)
EXTENDS MarketData

CONSTANTS Datasets,     \* that are ready
          Lists,        \* those that the page may offer: sets of datasets
          Doomed,       \* those that may be deleted
          Columns,      \* what was recorded of each
          Tables,       \* what its file holds: a tuple of rows
          Days,         \* that may be chosen
          Defaults,     \* the parameters of each strategy
          Values,       \* and what may be typed for each of them
          Unit,         \* the parts of one in which those that are not whole are counted
          Pending, Failed

ASSUME WizardAssumption ==
    /\ Lists \subseteq SUBSET Datasets
    /\ Null \notin Datasets /\ Null \notin DOMAIN Defaults /\ Null \notin Days
    /\ Days \subseteq Int
    /\ Null \notin {Pending, Failed}
    /\ DOMAIN Defaults \subseteq {"sma_crossover", "rsi", "bollinger_bands"}
    /\ \A s \in DOMAIN Defaults :
          /\ Defaults[s] \in [DOMAIN Defaults[s] -> Int]
          /\ DOMAIN Defaults[s] =
                CASE s = "sma_crossover"   -> {"shortWindow", "longWindow"}
                  [] s = "rsi"             -> {"period", "oversold", "overbought"}
                  [] s = "bollinger_bands" -> {"period", "stdDev"}
    /\ \A name \in DOMAIN Values : Values[name] \subseteq Int
    /\ Null \notin Int /\ Junk \notin Int /\ Day \in Int /\ Unit \in Nat \ {0}
    /\ \A d \in Datasets :
          /\ Columns[d] \in Seq([name : STRING, type : STRING])
          /\ Tables[d] \in Seq([{c.name : c \in Range(Columns[d])} -> Int \cup {Null, Junk}])

VARIABLES offered,      \* the datasets of the user, when the page asked for them
          form,         \* the fields of the page
          step,         \* 0 to 5
          compatibility, range,     \* what the page knows of form.dataset
          pc, request, map,         \* the run that was asked for, and where it is
          answer,
          listed, objects, copies,  \* rows, objects and local files of the datasets
          gated, datesOf            \* history: were all steps valid when Run was
                                    \* pressed; for which dataset were dates chosen

page    == <<form, step, compatibility, range, datesOf>>
serving == <<pc, request, map, answer, gated>>
storage == <<listed, objects, copies>>
vars    == <<offered, page, serving, storage>>

Steps == 0..5
StrategyIds == DOMAIN Defaults

---------------------------------------------------------------------------
\* The strategies' checks of their parameters, and the bars they take to warm up.

ValidParameters(strategy, p) ==
    CASE strategy = "sma_crossover" ->
            p.shortWindow \in 2..500 /\ p.longWindow \in 2..1000
                                     /\ p.shortWindow < p.longWindow
      [] strategy = "rsi" ->
            p.period \in 2..200 /\ {p.oversold, p.overbought} \subseteq Unit..99 * Unit
                                /\ p.oversold < p.overbought
      [] strategy = "bollinger_bands" ->
            p.period \in 2..500 /\ 10 * p.stdDev >= Unit /\ p.stdDev <= 5 * Unit

Warmup(strategy, p) ==
    CASE strategy = "sma_crossover"   -> p.longWindow
      [] strategy = "rsi"             -> p.period + 1
      [] strategy = "bollinger_bands" -> p.period

MinExecutableBars == 2

---------------------------------------------------------------------------
\* The page. A fetch is pending, has failed, or is what it has brought.

Fetched(query) == query \notin {Null, Pending, Failed}

DatasetStepValid ==
    form.dataset # Null /\ Fetched(compatibility) /\ Compatible(compatibility)

DateOf(time) == time \div Day

\* Dates out of the span of the dataset, as far as the page knows it
OutOfRange ==
    /\ Fetched(range)
    /\ \/ form.from # Null /\ range.start # Null /\ form.from < DateOf(range.start)
       \/ form.to # Null /\ range.end # Null /\ form.to > DateOf(range.end)

DateStepValid_Unordered == ~OutOfRange
DateStepValid ==
    /\ form.from # Null /\ form.to # Null => form.to >= form.from
    /\ ~OutOfRange

\* Capital and rates are "fine", "outside" the limits, or "huge": a capital
\* above the greatest, of which only the server knows.
StepValid(i) ==
    CASE i = 0 -> DatasetStepValid
      [] i = 1 -> form.strategy # Null
      [] i = 2 -> TRUE
      [] i = 3 -> form.execution # "outside"
      [] i = 4 -> DateStepValid
      [] i = 5 -> FALSE

Blank == [dataset |-> Null, strategy |-> Null, parameters |-> <<>>,
          execution |-> "fine", from |-> Null, to |-> Null, name |-> "fine"]

Fetching(d) == IF d = Null THEN Null ELSE Pending

\* The page may be opened for the dataset of an earlier run.
Init ==
    /\ offered \in Lists
    /\ \E d \in offered \cup {Null} :
          /\ form = [Blank EXCEPT !.dataset = d]
          /\ compatibility = Fetching(d) /\ range = Fetching(d)
    /\ step = 0
    /\ datesOf = Null
    /\ pc = "page" /\ request = Null /\ map = Null /\ answer = Null /\ gated = FALSE
    /\ listed = offered /\ objects = offered
    /\ copies \in {{}, offered}

Editing == pc = "page" /\ UNCHANGED <<offered, serving, storage>>

\* The effect on datasetId empties the dates.
SelectDataset(d) ==
    /\ Editing /\ step = 0 /\ d # form.dataset
    /\ form' = [form EXCEPT !.dataset = d, !.from = Null, !.to = Null]
    /\ compatibility' = Pending /\ range' = Pending
    /\ datesOf' = Null
    /\ UNCHANGED step

SelectStrategy_KeepParameters(s) ==
    /\ Editing /\ step = 1
    /\ form' = [form EXCEPT !.strategy = s,
                            !.parameters = IF @ = <<>> THEN Defaults[s] ELSE @]
    /\ UNCHANGED <<step, compatibility, range, datesOf>>
SelectStrategy(s) ==
    /\ Editing /\ step = 1
    /\ form' = [form EXCEPT !.strategy = s, !.parameters = Defaults[s]]
    /\ UNCHANGED <<step, compatibility, range, datesOf>>

SetParameter(name, value) ==
    /\ Editing /\ step = 2
    /\ name \in DOMAIN form.parameters
    /\ form' = [form EXCEPT !.parameters[name] = value]
    /\ UNCHANGED <<step, compatibility, range, datesOf>>

SetExecution(value) ==
    /\ Editing /\ step = 3
    /\ form' = [form EXCEPT !.execution = value]
    /\ UNCHANGED <<step, compatibility, range, datesOf>>

SetDate(bound, day) ==
    /\ Editing /\ step = 4
    /\ bound \in {"from", "to"}
    /\ form' = [form EXCEPT ![bound] = day]
    /\ datesOf' = form.dataset
    /\ UNCHANGED <<step, compatibility, range>>

\* No name is fine, and one of more than 200 characters "long".
SetName(value) ==
    /\ Editing /\ step = 5
    /\ form' = [form EXCEPT !.name = value]
    /\ UNCHANGED <<step, compatibility, range, datesOf>>

\* Back, the stepper, and Continue
GoTo(i) ==
    /\ Editing /\ i # step
    /\ step' = i
    /\ UNCHANGED <<form, compatibility, range, datesOf>>
Continue ==
    /\ Editing /\ step < 5 /\ StepValid(step)
    /\ step' = step + 1
    /\ UNCHANGED <<form, compatibility, range, datesOf>>

\* handleRun
Run ==
    /\ pc = "page" /\ step = 5
    /\ form.dataset # Null /\ form.strategy # Null
    /\ request' = form
    /\ pc' = "body"
    /\ gated' = \A i \in 0..4 : StepValid(i)
    /\ UNCHANGED <<offered, page, map, answer, storage>>

---------------------------------------------------------------------------
\* What is fetched about a dataset: getCompatibility and getDatasetDateRange.
\* A row that goes after it was found leaves no columns.

Detected == [d \in Datasets |-> DetectMarketColumns(Columns[d])]
Span == [d \in Datasets |-> DatasetRange(Detected[d], Tables[d])]

MapOf(d) == IF d \in listed THEN Detected[d] ELSE DetectMarketColumns(<<>>)

FetchCompatibility ==
    /\ compatibility = Pending
    /\ \/ compatibility' = MapOf(form.dataset)
       \/ form.dataset \notin listed /\ compatibility' = Failed
    /\ UNCHANGED <<offered, form, step, range, datesOf, serving, storage>>

RetryCompatibility ==
    /\ Editing /\ step = 0 /\ compatibility = Failed
    /\ compatibility' = Pending
    /\ UNCHANGED <<form, step, range, datesOf>>

Readable(d) ==
    /\ Compatible(Detected[d]) /\ Bound(Detected[d], Columns[d])
    /\ Castable(Detected[d], Tables[d])

FetchRange ==
    LET d == form.dataset
        found == /\ d \in listed /\ d \in objects \cup copies /\ Readable(d)
                 /\ range' = Span[d]
                 /\ copies' = copies \cup {d}
        failed == /\ d \notin listed \cap objects \/ ~Readable(d)
                  /\ range' = Failed
                  /\ UNCHANGED copies
    IN  /\ range = Pending
        /\ found \/ failed
        /\ UNCHANGED <<offered, form, step, compatibility, datesOf, serving, listed, objects>>

\* Or the query client holds the answer of an earlier visit, and never asks again.
RecallCompatibility ==
    /\ compatibility = Pending
    /\ compatibility' = Detected[form.dataset]
    /\ UNCHANGED <<offered, form, step, range, datesOf, serving, storage>>

RecallRange ==
    /\ range = Pending /\ Readable(form.dataset)
    /\ range' = Span[form.dataset]
    /\ UNCHANGED <<offered, form, step, compatibility, datesOf, serving, storage>>

---------------------------------------------------------------------------
\* createBacktest

Refuse(code) ==
    /\ answer' = [kind |-> "refused", code |-> code]
    /\ pc' = "done"

ValidateBody ==
    /\ pc = "body"
    /\ IF request.execution = "fine" /\ request.name = "fine" THEN pc' = "find" /\ UNCHANGED answer
       ELSE Refuse("VALIDATION_ERROR")
    /\ UNCHANGED <<offered, page, request, map, gated, storage>>

\* What is not sent of the parameters of a strategy has its default.
Parameters ==
    [name \in DOMAIN Defaults[request.strategy] |->
        IF name \in DOMAIN request.parameters THEN request.parameters[name]
        ELSE Defaults[request.strategy][name]]

FindDataset ==
    /\ pc = "find"
    /\ IF request.dataset \notin listed THEN Refuse("DATASET_NOT_FOUND")
       ELSE IF ~ValidParameters(request.strategy, Parameters) THEN Refuse("INVALID_PARAMETER")
       ELSE pc' = "columns" /\ UNCHANGED answer
    /\ UNCHANGED <<offered, page, request, map, gated, storage>>

ListColumns ==
    /\ pc = "columns"
    /\ map' = MapOf(request.dataset)
    /\ IF Compatible(map') THEN pc' = "file" /\ UNCHANGED answer
       ELSE Refuse("DATASET_NOT_COMPATIBLE")
    /\ UNCHANGED <<offered, page, request, gated, storage>>

AcquireLocalPath ==
    /\ pc = "file"
    /\ IF request.dataset \in objects \cup copies
       THEN copies' = copies \cup {request.dataset} /\ pc' = "load" /\ UNCHANGED answer
       ELSE Refuse("NOT_READY") /\ UNCHANGED copies
    /\ UNCHANGED <<offered, page, request, map, gated, listed, objects>>

\* load: the bounds, the statement, the checks of its rows, and whether there are
\* enough of them for the strategy
Fault(bars) ==
    IF request.from # Null /\ request.to # Null /\ request.from > request.to
    THEN "INVALID_DATE_RANGE"
    ELSE IF \/ request.dataset \notin copies
            \/ ~Bound(map, Columns[request.dataset])
            \/ ~Castable(map, Tables[request.dataset])
    THEN "INTERNAL_ERROR"
    ELSE IF Len(bars) = 0 THEN "EMPTY"
    ELSE IF Len(bars) > MaxBars \/ ~ValidateMarketData(bars) THEN "INVALID_MARKET_DATA"
    ELSE IF Len(bars) < Warmup(request.strategy, Parameters) + MinExecutableBars
    THEN "INSUFFICIENT_DATA" ELSE "NONE"

Load ==
    LET bars == Loaded(map, Tables[request.dataset], request.from, request.to)
    IN  /\ pc = "load"
        /\ \/ Fault(bars) = "EMPTY" /\ pc' = "range" /\ UNCHANGED answer
           \/ /\ Fault(bars) = "NONE"
              /\ answer' = [kind |-> "run", map |-> map, bars |-> bars]
              /\ pc' = "done"
           \/ Fault(bars) \notin {"EMPTY", "NONE"} /\ Refuse(Fault(bars))
        /\ UNCHANGED <<offered, page, request, map, gated, storage>>

\* An empty period is explained by the span of the dataset: a statement on the
\* columns that load has just read.
ExplainRange ==
    /\ pc = "range"
    /\ Refuse(IF request.dataset \in copies THEN "INSUFFICIENT_DATA" ELSE "INTERNAL_ERROR")
    /\ UNCHANGED <<offered, page, request, map, gated, storage>>

\* After a refusal the page is still there.
TryAgain ==
    /\ pc = "done" /\ answer.kind = "refused"
    /\ pc' = "page"
    /\ request' = Null /\ map' = Null /\ answer' = Null /\ gated' = FALSE
    /\ UNCHANGED <<offered, page, storage>>

---------------------------------------------------------------------------
\* Meanwhile: deleteForUser of a dataset, in three steps.

Deleted == offered \ objects

DeleteObject(d) ==
    /\ Deleted = {}
    /\ objects' = objects \ {d}
    /\ UNCHANGED <<offered, page, serving, listed, copies>>

ReleaseLocalPath(d) ==
    /\ d \in Deleted \cap copies
    /\ copies' = copies \ {d}
    /\ UNCHANGED <<offered, page, serving, listed, objects>>

DeleteRow(d) ==
    /\ d \in (Deleted \cap listed) \ copies
    /\ listed' = listed \ {d}
    /\ UNCHANGED <<offered, page, serving, objects, copies>>

---------------------------------------------------------------------------
Fill ==
    \/ \E d \in offered : SelectDataset(d)
    \/ \E s \in StrategyIds : SelectStrategy(s)
    \/ \E name \in DOMAIN Values : \E v \in Values[name] : SetParameter(name, v)
    \/ \E v \in {"fine", "outside", "huge"} : SetExecution(v)
    \/ \E v \in {"fine", "long"} : SetName(v)
    \/ \E bound \in {"from", "to"}, day \in Days \cup {Null} : SetDate(bound, day)
    \/ \E i \in Steps : GoTo(i)
    \/ Continue \/ RetryCompatibility

Fetch == FetchCompatibility \/ FetchRange \/ RecallCompatibility \/ RecallRange

CreateBacktest ==
    \/ ValidateBody \/ FindDataset \/ ListColumns \/ AcquireLocalPath \/ Load \/ ExplainRange

Delete == \E d \in offered \cap Doomed : DeleteObject(d) \/ ReleaseLocalPath(d) \/ DeleteRow(d)

Next == Fill \/ Fetch \/ Run \/ CreateBacktest \/ TryAgain \/ Delete

Spec == Init /\ [][Next]_vars

---------------------------------------------------------------------------
\* Properties

Ran     == answer # Null /\ answer.kind = "run"
Refused == answer # Null /\ answer.kind = "refused"

\* What the engine takes for granted of its bars (types.ts:22, backtestEngine.ts):
\* they follow each other in time, their prices are positive and agree, there are
\* enough of them to fill an order, and no two prices come from one column.
BarsAreSound ==
    Ran => LET bars == answer.bars
           IN  /\ Len(bars) >= Warmup(request.strategy, Parameters) + MinExecutableBars
               /\ \A n \in 1..Len(bars) :
                     /\ 0 < bars[n].low
                     /\ \A field \in {"open", "close"} :
                           bars[n].low <= bars[n][field] /\ bars[n][field] <= bars[n].high
                     /\ n > 1 => bars[n - 1].ts < bars[n].ts
               /\ \A f, g \in Needed : f # g => answer.map[f] # answer.map[g]

\* The columns of a dataset that go by an alias of a field
Own(d, field) ==
    {c.name : c \in {e \in Range(Normalized(Columns[d])) : e.name \in Aliases[field]}}

\* The rows that a run from one day to another is about; of the last day only
\* its midnight counts.
Asked ==
    LET table == Tables[request.dataset]
        Time(i) == table[i][answer.map.date]
    IN  {i \in DOMAIN table :
            /\ Time(i) # Null
            /\ request.from = Null \/ Time(i) >= request.from * Day
            /\ request.to = Null \/ Time(i) <= request.to * Day
            /\ table[i][answer.map.close] \notin {Null, Junk}}

\* A backtest is of what the wizard shows before Run is pressed: the parameters are
\* those of the strategy, the dates were chosen for the dataset, and every row of
\* the period that has a close is a bar, with the prices of its own columns where
\* each has one (selectStrategy, the effects of NewBacktestPage, load).
RunIsAsReviewed ==
    Ran => LET d == request.dataset
               table == Tables[d]
           IN  /\ DOMAIN request.parameters = DOMAIN Defaults[request.strategy]
               /\ {request.from, request.to} # {Null} => datesOf = d
               /\ (\A field \in Needed : Own(d, field) # {}) =>
                     \A field \in Needed : answer.map[field] \in Own(d, field)
               /\ Len(answer.bars) = Cardinality(Asked)
               /\ \A i \in Asked : \E n \in DOMAIN answer.bars :
                     /\ answer.bars[n].ts = table[i][answer.map.date]
                     /\ \A field \in Range(Prices) :
                           answer.bars[n][field] = table[i][answer.map[field]]

\* What the page does not look at: a capital above the greatest, the length of the
\* name, the parameters, columns whose names the statement does not spell as the file
\* does, the number of rows in the period, and their cells.
Excused(code) ==
    LET d == request.dataset
        rows == Loaded(Detected[d], Tables[d], request.from, request.to)
    IN  \/ code = "VALIDATION_ERROR" /\ (request.execution = "huge" \/ request.name = "long")
        \/ code = "INVALID_PARAMETER" /\ ~ValidParameters(request.strategy, request.parameters)
        \/ /\ code = "INTERNAL_ERROR"
           /\ ~Bound(Detected[d], Columns[d]) \/ ~Castable(Detected[d], Tables[d])
        \/ /\ code = "INVALID_MARKET_DATA"
           /\ \/ Len(rows) > MaxBars
              \/ \E n \in DOMAIN rows : ~ValidBar(rows[n]) \/ ~Follows(rows, n)
        \/ /\ code = "INSUFFICIENT_DATA"
           /\ Len(rows) < Warmup(request.strategy, request.parameters) + MinExecutableBars

\* When every step of the wizard was valid, and no dataset is deleted, the server
\* refuses a run only for what the page does not look at (canContinue, createBacktest).
GatesAgree == Refused /\ gated /\ Deleted = {} => Excused(answer.code)
=============================================================================
