------------------------------ MODULE Analytics ------------------------------
(***************************************************************************)
(* analyticsService: the answers of the dataset workspace, each from one   *)
(* or two statements over the file of one dataset.  A request names its    *)
(* call; answers that DuckDB leaves open (rows that tie, a sample) are     *)
(* sets of answers.                                                        *)
(***************************************************************************)
EXTENDS QueryEngine

CONSTANTS MaxPageSize, MinBuckets,  \* EXPLORER_MAX_PAGE_SIZE, and of getColumnDistribution
          MaxCorrelated             \* MAX_CORRELATION_COLUMNS

ClampInt(value, low, high) == Max({low, Min({value, high})})

\* toFiniteNumber
Finite(value) == IF value = Null THEN 0 ELSE value

---------------------------------------------------------------------------
\* The explorer of the workspace: the filter it builds and the request.

BuildNode(conditions, conjunction) ==
    LET chosen == SelectSeq(conditions, LAMBDA c : c.column # "none")
    IN  CASE chosen = <<>>    -> NoFilter
          [] Len(chosen) = 1  -> chosen
          [] OTHER            -> Group(conjunction, [i \in DOMAIN chosen |-> <<chosen[i]>>])

---------------------------------------------------------------------------
\* What is refused before statement k of a call.

Known(name, types) == IF name \in DOMAIN types THEN Fine ELSE "COLUMN_NOT_FOUND"

MetricOf(request, types) ==
    IF request.metric = "none"
    THEN IF request.aggregation = "count" THEN Fine ELSE "METRIC_REQUIRED"
    ELSE IF Known(request.metric, types) # Fine THEN Known(request.metric, types)
    ELSE IF request.aggregation # "count" /\ ~IsNumeric(types[request.metric])
    THEN "INVALID_METRIC" ELSE Fine

Numeric(name, types) ==
    IF name \in DOMAIN types /\ ~IsNumeric(types[name]) THEN "INVALID_AXIS" ELSE Fine

NumericColumn(name, types) ==
    IF name \in DOMAIN types /\ ~IsNumeric(types[name]) THEN "COLUMN_NOT_NUMERIC" ELSE Fine

Dated(name, types) ==
    IF name \in DOMAIN types /\ ~IsDate(types[name]) THEN "COLUMN_NOT_DATE" ELSE Fine

Chosen(request, types) ==
    IF request.columns = {} THEN DOMAIN types ELSE request.columns \cap DOMAIN types

RowsFault(request, types, k) ==
    LET Filtered(node) == IF IsGroup(node) THEN Fine ELSE Known(node.column, types)
    IN  IF k = 1
        THEN FirstFault(<<IF Chosen(request, types) = {} THEN "COLUMN_NOT_FOUND" ELSE Fine>>
                          \o [i \in DOMAIN request.filters |-> Filtered(request.filters[i])])
        ELSE FirstFault([i \in DOMAIN request.sort |-> Known(request.sort[i].column, types)])

AnalysisFault(request, types, k) ==
    CASE request.call = "rows"  -> RowsFault(request, types, k)
      [] request.call = "group" ->
            FirstFault(<<Known(request.groupBy, types), MetricOf(request, types)>>)
      [] request.call = "series" ->
            FirstFault(<<Known(request.dateColumn, types), Dated(request.dateColumn, types),
                         MetricOf(request, types)>>)
      [] request.call = "scatter" ->
            FirstFault(<<Known(request.x, types), Known(request.y, types),
                         Numeric(request.x, types), Numeric(request.y, types)>>)
      [] request.call = "outliers" ->
            FirstFault(<<Known(request.column, types), NumericColumn(request.column, types)>>)
      [] request.call \in {"top", "distribution", "statistics"} -> Known(request.column, types)
      [] OTHER -> Fine

---------------------------------------------------------------------------
\* The orders of a set that put no element behind one it comes before.
Arranged(S, Ahead(_, _)) ==
    LET Heads(T) == {x \in T : \A y \in T \ {x} : ~Ahead(y, x)}
        of[T \in SUBSET S] ==
            IF T = {} THEN {<<>>}
            ELSE UNION {{<<x>> \o s : s \in of[T \ {x}]} : x \in Heads(T)}
    IN  of[S]

Slice(s, from, length) == SubSeq(s, from + 1, Min({from + length, Len(s)}))

\* buildSearchWhere: any of the columns to search contains the term.
BuildSearchWhere(request, types) ==
    LET targets == IF request.within = {} THEN DOMAIN types
                   ELSE request.within \cap DOMAIN types
        columns == SetToSeq(targets)
    IN  IF request.term = Null \/ targets = {} THEN Nowhere
        ELSE [clause |-> Group("OR", [i \in DOMAIN columns |->
                        <<[column |-> columns[i], op |-> "contains", holes |-> 1]>>]),
              params |-> [i \in DOMAIN columns |-> Escaped("VARCHAR", request.term)]]

RowsWhere(request, types) ==
    LET parts == SelectSeq(<<BuildFilterWhere(request.filters, types),
                             BuildSearchWhere(request, types)>>,
                           LAMBDA p : p.clause # NoFilter)
    IN  [clause |-> Group("AND", [i \in DOMAIN parts |-> parts[i].clause]),
         params |-> FlattenParams(parts)]

\* Does DuckDB run the statements of a call?
RunsCall(request, types) ==
    request.call = "rows" =>
        Runs(RowsWhere(request, types).clause, RowsWhere(request, types).params)

GetFilteredRows(request, types, table) ==
    LET where == RowsWhere(request, types)
        found == {i \in DOMAIN table : Where(where.clause, where.params, table[i]) = "true"}
        page == Max({request.page, 1})
        size == ClampInt(request.pageSize, 1, MaxPageSize)
        Ahead(i, j) ==
            /\ request.sort # <<>>
            /\ Before(table[i][request.sort[1].column], table[j][request.sort[1].column],
                      request.sort[1].direction)
        Shown(i) == [name \in Chosen(request, types) |-> table[i][name]]
    IN  {[rows |-> [p \in DOMAIN shown |-> Shown(shown[p])],
          total |-> Cardinality(found),
          truncated |-> Cardinality(found) > page * size] :
            shown \in {Slice(s, (page - 1) * size, size) : s \in Arranged(found, Ahead)}}

\* The value of an aggregation over the rows of a group
ValueOf_CountingRows(request, table, group) ==
    IF request.metric = "none" \/ request.aggregation = "count" THEN Cardinality(group)
    ELSE Fold(request.aggregation, FALSE, group, table, request.metric)
ValueOf(request, table, group) ==
    IF request.metric = "none" THEN Cardinality(group)
    ELSE Fold(request.aggregation, FALSE, group, table, request.metric)

Groupings(request, table, column, granularity) ==
    LET rowsWith == {i \in DOMAIN table : table[i][column] # Null}
        key == [i \in rowsWith |-> Truncated(table[i][column], granularity)]
    IN  [v \in Range(key) |-> ValueOf(request, table, {i \in rowsWith : key[i] = v})]

\* ORDER BY value DESC, key ASC
Greatest(value, limit) ==
    LET Ahead(a, b) == \/ Before(value[a], value[b], "desc")
                       \/ value[a] = value[b] /\ a < b
    IN  {[i \in DOMAIN s |-> [key |-> s[i], value |-> Finite(value[s[i]])]] :
            s \in {Slice(t, 0, limit) : t \in Arranged(DOMAIN value, Ahead)}}

GetGroupBy(request, table) ==
    {[rows |-> rows] : rows \in Greatest(Groupings(request, table, request.groupBy, "none"),
                                         ClampInt(request.topN, 1, 100))}

GetTimeSeries(request, table) ==
    LET value == Groupings(request, table, request.dateColumn, request.granularity)
    IN  {[rows |-> [i \in DOMAIN s |-> [key |-> s[i], value |-> Finite(value[s[i]])]]] :
            s \in Arranged(DOMAIN value, LAMBDA a, b : a < b)}

TopValues(table, column, top) ==
    Greatest(Groupings([metric |-> "none"], table, column, "none"), ClampInt(top, 1, 50))

HeldIn(table, column) == {i \in DOMAIN table : table[i][column] # Null}

GetColumnTopValues(request, table) ==
    {[rows |-> rows, total |-> Cardinality(HeldIn(table, request.column))] :
        rows \in TopValues(table, request.column, request.top)}

\* Bounds of the buckets are multiplied by their number.
Histogram(table, column, n) ==
    LET held == HeldIn(table, column)
        low == Min({table[i][column] : i \in held})
        span == Max({table[i][column] : i \in held}) - low
        Bucket(v) == Min({n - 1, ((v - low) * n) \div span})
    IN  IF held = {} THEN <<>>
        ELSE IF span = 0 THEN <<[min |-> low, max |-> low, count |-> Cardinality(held)]>>
        ELSE [b \in 1..n |->
                [min |-> low * n + (b - 1) * span, max |-> low * n + b * span,
                 count |-> Cardinality({i \in held : Bucket(table[i][column]) = b - 1})]]

GetColumnDistribution(request, types, table) ==
    IF IsNumeric(types[request.column])
    THEN {[buckets |-> Histogram(table, request.column, ClampInt(request.buckets, MinBuckets, 200)),
           total |-> Cardinality(HeldIn(table, request.column))]}
    ELSE {[rows |-> rows] : rows \in TopValues(table, request.column, 20)}

\* A reservoir of the rows, of which those without a coordinate are dropped.
GetScatter(request, table) ==
    LET sample == Min({ClampInt(request.sample, 1, 5000), Len(table)})
        Complete(S) == {i \in S : table[i][request.x] # Null /\ table[i][request.y] # Null}
        Point(i) == [x |-> table[i][request.x], y |-> table[i][request.y]]
    IN  {[points |-> [p \in DOMAIN s |-> Point(s[p])],
          total |-> Cardinality(Complete(DOMAIN table))] :
            s \in UNION {Arranged(Complete(S), LAMBDA a, b : FALSE) :
                            S \in kSubset(sample, DOMAIN table)}}

NumericColumns(types) == {c \in DOMAIN types : IsNumeric(types[c])}
DateColumns(types)    == {c \in DOMAIN types : IsDate(types[c])}

\* duplicateAnalysis
Duplicates(table) == Len(table) - Cardinality(Range(table))

GetOverview(types, table) ==
    {[rowCount |-> Len(table), columnCount |-> Cardinality(DOMAIN types),
      duplicateRows |-> Duplicates(table),
      numericColumns |-> Cardinality(NumericColumns(types)),
      dateColumns |-> Cardinality(DateColumns(types))]}

\* nullCount, as inspectCsv counted it when the file was uploaded
NullCount(table, column) == Len(table) - Cardinality(HeldIn(table, column))

\* A cell of a typed column without a value is one that could not be parsed.
GetQuality(types, table) ==
    LET typed == NumericColumns(types) \cup DateColumns(types)
        Missing(columns) == MapThenSumSet(LAMBDA c : NullCount(table, c), columns)
    IN  {[rowCount |-> Len(table), duplicateRows |-> Duplicates(table),
          missingValues |-> Missing(DOMAIN types), invalidValues |-> Missing(typed),
          consistent |-> Cardinality({c \in DOMAIN types :
                                        c \in typed => NullCount(table, c) = 0})]}

\* quantile_cont at i quarters, four times over: between the values next to it
Quartile(table, column, i) ==
    LET held == HeldIn(table, column)
        s == CHOOSE t \in Arranged(held, LAMBDA a, b : table[a][column] < table[b][column]) : TRUE
        At(n) == table[s[Min({n, Len(s)})]][column]
        place == (Len(s) - 1) * i
    IN  IF held = {} THEN 0
        ELSE 4 * At(place \div 4 + 1)
               + (place % 4) * (At(place \div 4 + 2) - At(place \div 4 + 1))

GetColumnStatistics(request, types, table) ==
    LET c == request.column
        held == HeldIn(table, c)
        summary == [count |-> Len(table), nullCount |-> NullCount(table, c),
                    uniqueCount |-> Cardinality({table[i][c] : i \in held})]
        range == [min |-> Fold("min", FALSE, held, table, c),
                  max |-> Fold("max", FALSE, held, table, c)]
    IN  CASE IsNumeric(types[c]) ->
               {summary @@ [min |-> Finite(range.min), max |-> Finite(range.max),
                            mean |-> Finite(Fold("avg", FALSE, held, table, c)),
                            quartiles |-> [i \in 1..3 |-> Quartile(table, c, i)]]}
          [] IsDate(types[c]) -> {summary @@ range}
          [] OTHER -> {summary @@ [rows |-> rows] : rows \in TopValues(table, c, 10)}

\* The fence is one and a half times the range of the quartiles away from them.
OutliersIn(table, column) ==
    LET q1 == Quartile(table, column, 1)
        q3 == Quartile(table, column, 3)
    IN  {i \in HeldIn(table, column) :
            \/ 8 * table[i][column] < 2 * q1 - 3 * (q3 - q1)
            \/ 8 * table[i][column] > 2 * q3 + 3 * (q3 - q1)}

GetColumnOutliers(request, table) ==
    {[outlierCount |-> Cardinality(OutliersIn(table, request.column)), total |-> Len(table)]}

\* corr, of which the model keeps the covariance, not divided
Corr(table, a, b) ==
    LET both == HeldIn(table, a) \cap HeldIn(table, b)
        Sum(V(_)) == MapThenSumSet(V, both)
    IN  Cardinality(both) * Sum(LAMBDA i : table[i][a] * table[i][b])
          - Sum(LAMBDA i : table[i][a]) * Sum(LAMBDA i : table[i][b])

First(n, columns) == Slice(SetToSeq(columns), 0, n)

\* The columns asked for, or all, of which the first are taken
Correlated(request, types) ==
    First(MaxCorrelated, IF request.columns = {} THEN NumericColumns(types)
                         ELSE request.columns \cap NumericColumns(types))

\* With fewer than two columns there is no matrix of numbers.
GetCorrelation(request, types, table) ==
    LET names == Correlated(request, types)
        pairs == {[a |-> p[1], b |-> p[2], r |-> Corr(table, names[p[1]], names[p[2]])] :
                    p \in {q \in (1..Len(names)) \X (1..Len(names)) : q[1] < q[2]}}
        CorrelationOf(a, b) ==
            IF a = b THEN 1 ELSE (CHOOSE p \in pairs : {p.a, p.b} = {a, b}).r
    IN  {[columns |-> names,
          matrix |-> IF Len(names) < 2 THEN <<>>
                     ELSE [a \in DOMAIN names |-> [b \in DOMAIN names |-> CorrelationOf(a, b)]]]}

\* Columns by what is missing of them, the most first
GetMissingValueAnalysis(types, table) ==
    LET Ahead(a, b) == NullCount(table, a) > NullCount(table, b)
    IN  {[rowCount |-> Len(table),
          columns |-> [r \in DOMAIN s |-> [column |-> s[r], missing |-> NullCount(table, s[r])]]] :
            s \in Arranged(DOMAIN types, Ahead)}

\* The worst column is the first of those with the most outliers.
GetOutlierAnalysis(types, table) ==
    LET count == [c \in NumericColumns(types) |-> Cardinality(OutliersIn(table, c))]
        worst == {c \in DOMAIN count : \A d \in DOMAIN count : count[d] <= count[c]}
    IN  {[total |-> SumFunction(count),
          columnsWithOutliers |-> Cardinality({c \in DOMAIN count : count[c] > 0}),
          worstColumn |-> w] : w \in IF worst = {} THEN {"none"} ELSE worst}

---------------------------------------------------------------------------
Analyses(request, types, table) ==
    CASE request.call = "rows"         -> GetFilteredRows(request, types, table)
      [] request.call = "group"        -> GetGroupBy(request, table)
      [] request.call = "series"       -> GetTimeSeries(request, table)
      [] request.call = "top"          -> GetColumnTopValues(request, table)
      [] request.call = "distribution" -> GetColumnDistribution(request, types, table)
      [] request.call = "scatter"      -> GetScatter(request, table)
      [] request.call = "overview"     -> GetOverview(types, table)
      [] request.call = "quality"      -> GetQuality(types, table)
      [] request.call = "statistics"   -> GetColumnStatistics(request, types, table)
      [] request.call = "outliers"     -> GetColumnOutliers(request, table)
      [] request.call = "correlation"  -> GetCorrelation(request, types, table)
      [] request.call = "count"        -> {[rowCount |-> Len(table)]}
      [] request.call = "missing"      -> GetMissingValueAnalysis(types, table)
      [] request.call = "fences"       -> GetOutlierAnalysis(types, table)

\* The statements of a call, one after the other
Statements(request, types, table) ==
    CASE request.call \in {"rows", "top", "scatter", "statistics"} -> 2
      [] request.call = "outliers" -> 3
      [] request.call = "correlation" -> IF Len(Correlated(request, types)) < 2 THEN 0 ELSE 1
      [] request.call = "distribution" ->
            IF /\ IsNumeric(types[request.column])
               /\ Cardinality({table[i][request.column] : i \in HeldIn(table, request.column)}) > 1
            THEN 2 ELSE 1
      [] request.call = "fences" ->     \* z-scores, when there is a deviation
            SumFunction([c \in NumericColumns(types) |->
                            IF Corr(table, c, c) > 0 THEN 4 ELSE 3])
      [] OTHER -> 1

\* Mean and median are more than half a deviation apart.
Skewed(table, column) ==
    LET held == HeldIn(table, column)
        gap == 4 * MapThenSumSet(LAMBDA i : table[i][column], held)
                 - Cardinality(held) * Quartile(table, column, 2)
    IN  gap * gap > 4 * Corr(table, column, column) /\ Corr(table, column, column) > 0

\* The calls that a request makes, each of which fetches the file.
Measured(types) == First(3, NumericColumns(types))
CallsOf(call, columns) == [i \in DOMAIN columns |-> [call |-> call, column |-> columns[i]]]
Tops(types, n) ==
    LET texts == First(3, DOMAIN types \ (NumericColumns(types) \cup DateColumns(types)))
    IN  [i \in DOMAIN texts |-> [call |-> "top", column |-> texts[i], top |-> n]]

Correlation == [call |-> "correlation", columns |-> {}]

\* Those of a list of columns up to the first with a mark
UpTo(columns, marked) ==
    LET ends == {i \in DOMAIN columns : columns[i] \in marked}
    IN  IF ends = {} THEN columns ELSE SubSeq(columns, 1, Min(ends))

\* getInsights looks for outliers until it has found a column with some.
InsightCalls(types, table) ==
    LET numbers == Measured(types)
        Many(c) == 200 * Cardinality(OutliersIn(table, c)) >= Len(table)
        series == [call |-> "series", dateColumn |-> First(1, DateColumns(types))[1],
                   granularity |-> "month",
                   metric |-> IF numbers = <<>> THEN "none" ELSE numbers[1],
                   aggregation |-> IF numbers = <<>> THEN "count" ELSE "sum"]
    IN  <<[call |-> "quality"]>> \o Tops(types, 1) \o CallsOf("statistics", numbers)
          \o <<Correlation>>
          \o CallsOf("outliers", UpTo(numbers, {c \in Range(numbers) : Many(c)}))
          \o (IF DateColumns(types) = {} THEN <<>> ELSE <<series>>)

BusinessCalls(types) ==
    <<[call |-> "count"]>> \o CallsOf("statistics", First(5, NumericColumns(types)))
      \o Tops(types, 5)
      \o (IF Cardinality(NumericColumns(types)) < 2 THEN <<>> ELSE <<Correlation>>)

\* The summary looks for a column that is skewed.
SummaryCalls(types, table) ==
    <<[call |-> "overview"], [call |-> "quality"]>> \o InsightCalls(types, table)
      \o CallsOf("statistics", UpTo(Measured(types), {c \in NumericColumns(types) : Skewed(table, c)}))

Parts(request, types, table) ==
    CASE request.call = "insights" -> InsightCalls(types, table)
      [] request.call = "business" -> BusinessCalls(types)
      [] request.call = "summary"  -> SummaryCalls(types, table)
      [] OTHER -> <<request>>
=============================================================================
