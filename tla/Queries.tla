-------------------------------- MODULE Queries --------------------------------
(***************************************************************************)
(* One query from the Query Studio, or from another client of the API, to  *)
(* the rows of its answer: executeQuery of the DataMart loads the datasets *)
(* one by one, compiles, and runs a data and a count statement.  Or one    *)
(* request for an analysis of the dataset workspace, on one dataset.       *)
(* Meanwhile a dataset of it may be deleted or become ready.               *)
(***************************************************************************)
EXTENDS Analytics

CONSTANTS Datasets,     \* a tuple: their order in the lists of the studio
          Types,        \* the columns recorded for each dataset
          Forms,        \* the states of the studio, or wishes of a client
          Most,         \* how long each list of a query may be
          MaxNodes,     \* of a group of a filter
          MaxFormula,   \* tokens of a formula, of 500 characters
          Spelling,     \* names with spaces around them, and what is left of each
          TooLong,      \* names of more than 200 characters
          MaxDeletions

\* Every dataset has a file, and every column a type; "none" is no column, as Null is
\* no dataset.
ASSUME ColumnsHaveTypes ==
    /\ Datasets \in Seq(Range(Datasets)) /\ Null \notin Range(Datasets)
    /\ \A d \in Range(Datasets) :
          /\ d \in DOMAIN Tables
          /\ d \in DOMAIN Types /\ "none" \notin DOMAIN Types[d]
          /\ \A column \in DOMAIN Types[d] : Types[d][column] # "ambiguous"

\* What is asked of the DataMart is a record of lists that names datasets of the list,
\* each once, its filter a tree of conditions with the values that their operators take,
\* its limit and its offset numbers or Junk (a fraction), and its formulas lists of
\* tokens: the studio makes no other, and datamartQuerySchema takes none.
ASSUME FormsAreLists ==
    \A f \in Forms : "call" \notin DOMAIN f =>
        /\ \A field \in {"datasets", "joins", "dimensions", "metrics", "filters", "sorts"} :
              field \in DOMAIN f /\ f[field] \in Seq(Range(f[field]))
        /\ \A field \in {"joins", "dimensions", "metrics", "filters", "sorts"} :
              \A i \in DOMAIN f[field] :
                 f[field][i] = [name \in DOMAIN f[field][i] |-> f[field][i][name]]
        /\ "sort" \notin DOMAIN f
        /\ Range(f.datasets) \subseteq Range(Datasets)
        /\ \A i, j \in DOMAIN f.datasets : i # j => f.datasets[i] # f.datasets[j]
        /\ IsTree(f.filters)
        /\ \A i \in DOMAIN f.filters :
              IF IsGroup(f.filters[i]) THEN DOMAIN f.filters[i] = {"conjunction", "at"}
              ELSE /\ DOMAIN f.filters[i] = {"column", "op", "values"}
                   /\ HasValues(f.filters[i])
        /\ {"limit", "offset"} \subseteq DOMAIN f
        /\ {f.limit, f.offset} \subseteq Int \cup {Junk}
        /\ \A i \in DOMAIN f.metrics :
              /\ DOMAIN f.metrics[i] = {"alias", "column", "aggregation", "formula"}
              /\ f.metrics[i].formula \in Seq(STRING)

VARIABLES form,         \* what is asked, in the studio or by a client of the API
          via,          \* "studio", "api" or "workspace"
          status,       \* of the row of each dataset, or "gone"
          objects,      \* the datasets whose file is in the bucket
          cached,       \* those whose file is in the local cache
          deletions,    \* the deletions begun: [of, next]
          pc, query,    \* the request and where its handler is
          k,            \* the dataset being loaded; 0 loads the base once more;
                        \* or the statement of an analysis
          loads, plan, rows, answer

serving == <<query, k, loads, plan, rows, answer>>
storage == <<status, objects, cached, deletions>>
vars == <<form, via, pc, serving, storage>>

Ids == Range(Datasets)
Touched == {deletions[i].of : i \in DOMAIN deletions}

---------------------------------------------------------------------------
\* The studio: validateQuery, with the columns of the datasets it lists, and
\* buildDataMartQuery.

NoName == "''"       \* the empty text

Selected(f) ==
    LET listed == Picked(Datasets, {i \in DOMAIN Datasets : Datasets[i] \in Range(f.datasets)})
    IN  [i \in DOMAIN listed |-> [id |-> listed[i], types |-> Types[listed[i]]]]

Distinct(s) == \A i, j \in DOMAIN s : i # j => s[i] # s[j]

Brackets(formula, t) == Cardinality({i \in DOMAIN formula : formula[i] = t})

MetricAccepted(metric, sources) ==
    IF metric.formula # <<>>
    THEN Brackets(metric.formula, "(") = Brackets(metric.formula, ")")
    ELSE /\ metric.column \in Names(sources) /\ metric.aggregation # "none"
         /\ metric.aggregation \in NumericOnly => IsNumeric(TypeOf(sources, metric.column))

ValidateQuery(f) ==
    LET sources == Selected(f)
    IN  /\ f.datasets # <<>>
        /\ \A i \in DOMAIN f.dimensions :
              /\ f.dimensions[i].column \in Names(sources)
              /\ f.dimensions[i].granularity # "none"
                    => IsDate(TypeOf(sources, f.dimensions[i].column))
        /\ f.metrics # <<>>
        /\ Distinct([i \in DOMAIN f.metrics |-> f.metrics[i].alias])
        /\ \A i \in DOMAIN f.metrics :
              f.metrics[i].alias # NoName /\ MetricAccepted(f.metrics[i], sources)
        /\ \A i \in DOMAIN f.joins :
              /\ {f.joins[i].left, f.joins[i].right} \subseteq Range(f.datasets)
              /\ f.joins[i].leftColumn \in DOMAIN Types[f.joins[i].left]
              /\ f.joins[i].rightColumn \in DOMAIN Types[f.joins[i].right]
        /\ \A i \in DOMAIN f.sorts : f.sorts[i].column \in Range(OutputNames(f))
        /\ f.limit \in 1..MaxLimit \cup {Junk}
        /\ f.offset \in 0..MaxOffset \cup {Junk}

BuildDataMartQuery(f) ==
    LET Filled(list) == {i \in DOMAIN list : list[i].column # "none"}
        Written == {i \in DOMAIN f.metrics : f.metrics[i].formula # <<>>}
    IN  [f EXCEPT !.dimensions = Picked(@, Filled(@)),
                  !.metrics = Picked(@, Filled(@) \cup Written)]

---------------------------------------------------------------------------
\* The schemas of the API: they trim the names, and keep the fields they know.

Kept(name) == IF name \in DOMAIN Spelling THEN Spelling[name] ELSE name

Spelt(item, fields) ==
    [field \in DOMAIN item |-> IF field \in fields THEN Kept(item[field]) ELSE item[field]]

SpeltAll(list, fields) == [i \in DOMAIN list |-> Spelt(list[i], fields)]

\* The names in the lists of a query; a group of a filter has none.
Named == [dimensions |-> {"column"}, metrics |-> {"column", "alias"}, filters |-> {"column"},
          joins |-> {"leftColumn", "rightColumn"}, sort |-> {"column"}]

\* datamartQuerySchema: a field "sorts" is none of its own, and sort is <<>>.
Parsed(body) ==
    [field \in (DOMAIN body \ {"sorts"}) \cup {"sort"} |->
        IF field \notin DOMAIN body THEN <<>>
        ELSE IF field \in DOMAIN Named THEN SpeltAll(body[field], Named[field])
        ELSE body[field]]

Blank == <<" ">>    \* a formula of spaces

\* No list, name or formula is too long, and no name is empty.
WithinBounds(q) ==
    /\ \A list \in DOMAIN Most : Len(q[list]) <= Most[list]
    /\ \A list \in DOMAIN Named : \A i \in DOMAIN q[list] :
          \A field \in Named[list] \cap DOMAIN q[list][i] :
             /\ q[list][i][field] # NoName
             /\ list # "filters" => q[list][i][field] \notin TooLong
    /\ \A i \in DOMAIN q.filters :
          IsGroup(q.filters[i]) => Len(q.filters[i].at) <= MaxNodes
    /\ \A i \in DOMAIN q.metrics :
          q.metrics[i].formula # Blank /\ Len(q.metrics[i].formula) <= MaxFormula

SchemaTakes(q) ==
    /\ q.datasets # <<>>
    /\ WithinBounds(q)
    /\ \A i \in DOMAIN q.metrics : q.metrics[i].formula = <<>> =>
          /\ q.metrics[i].aggregation # "none"
          /\ q.metrics[i].column = "none" => q.metrics[i].aggregation = "count"
    /\ q.limit \in 1..MaxLimit
    /\ q.offset \in 0..MaxOffset

\* A client of the API that names every field as the schema does.
ApiBody(f) ==
    [field \in (DOMAIN f \ {"sorts"}) \cup {"sort"} |->
        IF field = "sort" THEN f.sorts ELSE f[field]]

---------------------------------------------------------------------------
Init == /\ form \in Forms
        /\ via \in IF "call" \in DOMAIN form THEN {"workspace"} ELSE {"studio", "api"}
        /\ \E late \in {Null} \cup Range(form.datasets) :
              \* The studio offers datasets that are ready.
              /\ via = "studio" => late = Null
              /\ status = [d \in Ids |-> IF d = late THEN "PROCESSING" ELSE "READY"]
        /\ objects = Ids
        /\ cached \in {{}, Ids}
        /\ deletions = <<>>
        /\ pc = "form"
        /\ query = Null /\ k = 0 /\ loads = <<>>
        /\ plan = Null /\ rows = <<>> /\ answer = Null

Refuse(code) ==
    /\ answer' = [kind |-> "refused", code |-> code]
    /\ pc' = "done"

\* A query that the schema refuses is kept to tell why.
Send(body) ==
    /\ pc = "form"
    /\ query' = Parsed(body)
    /\ IF SchemaTakes(Parsed(body)) THEN pc' = "require" /\ UNCHANGED answer
       ELSE Refuse("VALIDATION_ERROR")
    /\ UNCHANGED <<form, via, k, loads, plan, rows, storage>>

\* run of QueryBuilderPage
RunInStudio == via = "studio" /\ ValidateQuery(form) /\ Send(BuildDataMartQuery(form))
CallApi     == via = "api" /\ Send(ApiBody(form))

---------------------------------------------------------------------------
\* executeQuery

\* findByIdAndUser and the test of the status
Usable(d, next) ==
    \/ status[d] = "gone" /\ Refuse("DATASET_NOT_FOUND")
    \/ status[d] = "PROCESSING" /\ Refuse("NOT_READY")
    \/ status[d] = "READY" /\ pc' = next /\ UNCHANGED answer

Loading == query.datasets[IF k = 0 THEN 1 ELSE k]

RequireDataset ==
    /\ pc = "require"
    /\ Usable(query.datasets[1], "row")
    /\ UNCHANGED <<form, via, query, k, loads, plan, rows, storage>>

LoadSchema ==
    /\ pc = "row"
    /\ Usable(Loading, "file")
    /\ UNCHANGED <<form, via, query, k, loads, plan, rows, storage>>

AcquireLocalPath ==
    /\ pc = "file"
    /\ IF Loading \in cached \cup objects
       THEN cached' = cached \cup {Loading} /\ pc' = "columns" /\ UNCHANGED answer
       ELSE Refuse("INTERNAL_ERROR") /\ UNCHANGED cached
    /\ UNCHANGED <<form, via, query, k, loads, plan, rows, status, objects, deletions>>

\* A dataset deleted meanwhile has no columns.
ListColumns ==
    LET types == IF status[Loading] = "gone" THEN <<>> ELSE Types[Loading]
    IN  /\ pc = "columns"
        /\ loads' = IF k = 0 THEN loads ELSE Append(loads, [id |-> Loading, types |-> types])
        /\ IF k = Len(query.datasets) THEN pc' = "compile" /\ UNCHANGED k
           ELSE pc' = "row" /\ k' = k + 1
        /\ UNCHANGED <<form, via, query, plan, rows, answer, storage>>

CompileQuery ==
    /\ pc = "compile"
    /\ IF QueryFault(query, loads) = Fine
       THEN plan' = Compile(query, loads) /\ pc' = "run" /\ UNCHANGED answer
       ELSE Refuse(QueryFault(query, loads)) /\ UNCHANGED plan
    /\ UNCHANGED <<form, via, query, k, loads, rows, storage>>

\* remapRows: the second output of a name is found under its alias.
Label(names, i) ==
    IF \E j \in 1..(i - 1) : names[j] = names[i]
    THEN "__dm_" \o ToString(i) ELSE names[i]

RemapRows(page, names) ==
    [p \in DOMAIN page |->
        [label \in {Label(names, i) : i \in DOMAIN names} |->
            page[p][CHOOSE i \in DOMAIN names : Label(names, i) = label]]]

Answer(page, total) ==
    /\ answer' = [kind |-> "rows", rows |-> RemapRows(page, OutputNames(query)),
                  total |-> total, truncated |-> Len(page) < total]
    /\ pc' = "done"

\* runCompiled: the data statement
RunData ==
    /\ pc = "run"
    /\ IF Binds(plan) /\ Reads(plan) \subseteq cached
       THEN \E page \in Pages(plan) :
              /\ rows' = page
              /\ IF Len(page) < ClampLimit(query.limit)
                 THEN Answer(page, ClampOffset(query.offset) + Len(page))
                 ELSE pc' = "count" /\ UNCHANGED answer
       ELSE Refuse("QUERY_FAILED") /\ UNCHANGED rows
    /\ UNCHANGED <<form, via, query, k, loads, plan, storage>>

\* The count statement; when it fails, what is known is the total.
RunCount_OfThePage ==
    /\ pc = "count"
    /\ Answer(rows, ClampOffset(query.offset) + Len(rows))
    /\ UNCHANGED <<form, via, query, k, loads, plan, rows, storage>>
RunCount ==
    /\ pc = "count"
    /\ Answer(rows, IF Reads(plan) \subseteq cached THEN Total(plan)
                    ELSE ClampOffset(query.offset) + Len(rows))
    /\ UNCHANGED <<form, via, query, k, loads, plan, rows, storage>>

---------------------------------------------------------------------------
\* An analysis: requireDatasetOwner keeps the row of the dataset, with its status.

\* The schemas of the analyses
Trimmed(request) ==
    [field \in DOMAIN request |->
        CASE field \in {"groupBy", "dateColumn", "metric", "column", "x", "y"} ->
               Kept(request[field])
          [] field \in {"within", "columns"} -> {Kept(name) : name \in request[field]}
          [] field \in {"filters", "sort"} -> SpeltAll(request[field], {"column"})
          [] OTHER -> request[field]]

AskAnalysis ==
    /\ via = "workspace" /\ pc = "form"
    /\ query' = Trimmed(
           IF form.call = "rows"
           THEN ("filters" :> BuildNode(form.conditions, form.conjunction)) @@ form
           ELSE form)
    /\ pc' = "owner"
    /\ UNCHANGED <<form, via, k, loads, plan, rows, answer, storage>>

Asked == form.datasets[1]

RequireDatasetOwner ==
    /\ pc = "owner"
    /\ IF status[Asked] = "gone" THEN Refuse("DATASET_NOT_FOUND") /\ UNCHANGED loads
       ELSE /\ loads' = <<[id |-> Asked, ready |-> status[Asked] = "READY"]>>
            /\ pc' = "list"
            /\ UNCHANGED answer
    /\ UNCHANGED <<form, via, query, k, plan, rows, storage>>

ListAnalysed ==
    /\ pc = "list"
    /\ loads' = <<[id |-> Asked, ready |-> loads[1].ready,
                   types |-> IF status[Asked] = "gone" THEN <<>> ELSE Types[Asked]]>>
    /\ pc' = "assert"
    /\ UNCHANGED <<form, via, query, k, plan, rows, answer, storage>>

\* The call being served, and what the next ones need: rows has the answers so far.
Part == Parts(query, loads[1].types, Tables[Asked])[Len(rows) + 1]
LastPart == Len(rows) + 1 = Len(Parts(query, loads[1].types, Tables[Asked]))

\* assertReady and filePath
AssertReady ==
    /\ pc = "assert"
    /\ CASE ~loads[1].ready -> Refuse("NOT_READY") /\ UNCHANGED <<cached, k>>
         [] loads[1].ready /\ Asked \notin cached \cup objects ->
              Refuse("INTERNAL_ERROR") /\ UNCHANGED <<cached, k>>
         [] OTHER -> /\ cached' = cached \cup {Asked}
                     /\ pc' = "statement" /\ k' = 1
                     /\ UNCHANGED answer
    /\ UNCHANGED <<form, via, query, loads, plan, rows, status, objects, deletions>>

\* Statement k of a call, after the checks that precede it
ServeCall(call, types) ==
    LET fault == AnalysisFault(call, types, k)
        n == Statements(call, types, Tables[Asked])
    IN  CASE fault # Fine -> Refuse(fault) /\ UNCHANGED <<k, rows>>
          [] fault = Fine /\ n > 0 /\ (Asked \notin cached \/ ~RunsCall(call, types)) ->
               Refuse("INTERNAL_ERROR") /\ UNCHANGED <<k, rows>>
          [] fault = Fine /\ Asked \in cached /\ k < n ->
               k' = k + 1 /\ UNCHANGED <<pc, answer, rows>>
          [] OTHER ->
               /\ \E a \in Analyses(call, types, Tables[Asked]) : rows' = Append(rows, a)
               /\ IF LastPart
                  THEN /\ answer' = [kind |-> "analysis", of |-> rows']
                       /\ pc' = "done"
                  ELSE pc' = "assert" /\ UNCHANGED answer
               /\ UNCHANGED k

RunStatement ==
    /\ pc = "statement"
    /\ \E call \in {Part}, types \in {loads[1].types} : ServeCall(call, types)
    /\ UNCHANGED <<form, via, query, loads, plan, storage>>

---------------------------------------------------------------------------
\* Meanwhile: deleteForUser of datasets, in three steps, and the end of an upload.

DeleteObject(d) ==
    /\ Len(deletions) < MaxDeletions
    /\ status[d] # "gone" /\ d \notin Touched
    /\ objects' = objects \ {d}
    /\ deletions' = Append(deletions, [of |-> d, next |-> "cache"])
    /\ UNCHANGED <<form, via, pc, serving, status, cached>>

ReleaseLocalPath(i) ==
    /\ deletions[i].next = "cache"
    /\ cached' = cached \ {deletions[i].of}
    /\ deletions' = [deletions EXCEPT ![i].next = "row"]
    /\ UNCHANGED <<form, via, pc, serving, status, objects>>

DeleteRow(i) ==
    /\ deletions[i].next = "row"
    /\ status' = [status EXCEPT ![deletions[i].of] = "gone"]
    /\ deletions' = [deletions EXCEPT ![i].next = "done"]
    /\ UNCHANGED <<form, via, pc, serving, objects, cached>>

FinishProcessing(d) ==
    /\ status[d] = "PROCESSING"
    /\ status' = [status EXCEPT ![d] = "READY"]
    /\ UNCHANGED <<form, via, pc, serving, objects, cached, deletions>>

Next == \/ RunInStudio \/ CallApi
        \/ RequireDataset \/ LoadSchema \/ AcquireLocalPath \/ ListColumns
        \/ CompileQuery \/ RunData \/ RunCount
        \/ AskAnalysis \/ RequireDatasetOwner \/ ListAnalysed
        \/ AssertReady \/ RunStatement
        \/ /\ pc # "done"
           /\ \/ \E d \in Range(form.datasets) : DeleteObject(d) \/ FinishProcessing(d)
              \/ \E i \in DOMAIN deletions : ReleaseLocalPath(i) \/ DeleteRow(i)

Spec == Init /\ [][Next]_vars

---------------------------------------------------------------------------
\* What a query asks of the files, said of all choices of rows at once.

\* The dataset of a name; columns that were gone when they were listed leave
\* their names to the others.
Owner(name) == CHOOSE d \in {loads[i].id : i \in Owners(loads, name)} : TRUE

Owned(name) == Cardinality({d \in Range(query.datasets) : name \in DOMAIN Types[d]})

Joined == {query.datasets[1]} \cup {query.joins[i].right : i \in DOMAIN query.joins}

RowChoices ==
    LET Partners(c, join) ==        \* left and right may be one dataset
            {i \in DOMAIN Tables[join.right] :
                LET at == [c EXCEPT ![join.right] = i]
                    v == Cell(join.left, at[join.left], join.leftColumn)
                IN  v # Null /\ v = Tables[join.right][i][join.rightColumn]}
        Fits(c, join) ==
            IF Partners(c, join) = {} THEN join.type = "left" /\ c[join.right] = 0
            ELSE c[join.right] \in Partners(c, join)
        first == query.datasets[1]
    IN  {c \in [Joined -> 0..Max({Len(Tables[d]) : d \in Joined})] :
            /\ c[first] \in DOMAIN Tables[first]
            /\ \A d \in Joined : c[d] <= Len(Tables[d])
            /\ \A i \in DOMAIN query.joins : Fits(c, query.joins[i])}

ColumnTypes == [name \in Names(loads) |-> Types[Owner(name)][name]]

\* The cells of a choice, in the columns of the joined datasets.
Cells(c) ==
    [name \in {n \in Names(loads) : Owner(n) \in Joined} |->
        Cell(Owner(name), c[Owner(name)], name)]

Tree(metric) == IF metric.formula # <<>> THEN Meaning(metric.formula) ELSE Aggregate(metric)

\* The groups that are asked for, and the row of each, in the order of the outputs.
AskedGroups ==
    LET view == [c \in RowChoices |-> Cells(c)]
        kept == {c \in RowChoices : Keeps(query.filters, ColumnTypes, view[c]) = "true"}
        Of(c) == [i \in DOMAIN query.dimensions |->
                    Truncated(view[c][query.dimensions[i].column],
                              query.dimensions[i].granularity)]
        of == [c \in kept |-> Of(c)]
        Same(v) == {c \in kept : of[c] = v}
        Row(v, group) ==
            v \o [i \in DOMAIN query.metrics |-> Evaluate(Tree(query.metrics[i]), group, view)]
    IN  IF query.dimensions # <<>> THEN [v \in Range(of) |-> Row(v, Same(v))]
        ELSE IF \E i \in DOMAIN query.metrics : ContainsAggregation(Tree(query.metrics[i]))
        THEN [one \in {0} |-> Row(<<>>, kept)]
        ELSE [c \in kept |-> Row(<<>>, {c})]

Answered == answer # Null /\ answer.kind = "rows"
Rejected == answer # Null /\ answer.kind = "refused"

Formulas == {query.metrics[i].formula : i \in DOMAIN query.metrics} \ {<<>>}

\* AGGREGATION_FUNCTIONS makes a count of count_distinct inside a formula, and
\* count(distinct) counts nothing.
Plain(formula) ==
    /\ "count_distinct" \notin Range(formula)
    /\ \A i \in 1..(Len(formula) - 1) : <<formula[i], formula[i + 1]>> # <<"distinct", ")">>

InOrder(a, b, keys) ==
    \A i \in DOMAIN keys :
        (\A j \in 1..(i - 1) : a[keys[j].column] = b[keys[j].column])
            => ~Before(b[keys[i].column], a[keys[i].column], keys[i].direction)

\* Are these, in some columns, the rows of a page of all, sorted by the keys?
IsPage(shown, columns, all, keys, offset, limit) ==
    LET Ahead(g) == {h \in DOMAIN all : ~InOrder(all[g], all[h], keys)}
        Level(g) == {h \in DOMAIN all : InOrder(all[h], all[g], keys)}
    IN  /\ Len(shown) = Max({0, Min({limit, Cardinality(DOMAIN all) - offset})})
        /\ \E page \in [DOMAIN shown -> DOMAIN all] :
              /\ Distinct(page)
              /\ \A i \in DOMAIN shown :
                    /\ shown[i] = Restrict(all[page[i]], columns)
                    /\ Cardinality(Ahead(page[i])) < offset + i
                    /\ offset + i <= Cardinality(Level(page[i]))
                    /\ \A j \in 1..(i - 1) : InOrder(all[page[j]], all[page[i]], keys)

---------------------------------------------------------------------------
\* The rows of an answer are those that the query asks for: each group of the
\* joined and filtered rows once, with its values, in the order of the sort
\* keys, and of these the page from the offset up to the limit; whatever was
\* deleted meanwhile (compile, buildFilterWhere, runCompiled, remapRows).  A text
\* that escapeLike changes is known not to be found.
AnswerIsRight ==
    /\ Answered /\ Distinct(OutputNames(query)) /\ (\A f \in Formulas : Plain(f))
    /\ Literal(query.filters, ColumnTypes)
    => LET groups == AskedGroups
           names == OutputNames(query)
           named == [g \in DOMAIN groups |->
                       [name \in Range(names) |->
                           groups[g][CHOOSE i \in DOMAIN names : names[i] = name]]]
       IN  IsPage(answer.rows, Range(names), named, query.sort, query.offset, query.limit)

\* totalRows is the number of groups without limit and offset, and truncated
\* says that rows are missing (runCompiled saves the count statement when the
\* page is not full).  A page past the end, a file gone before the count
\* statement, and a text that escapeLike changes are known to be wrong.
TotalIsRight ==
    /\ Answered /\ (\A f \in Formulas : Plain(f))
    /\ Literal(query.filters, ColumnTypes)
    /\ ~(answer.rows = <<>> /\ query.offset > 0)
    /\ Touched = {}
    => /\ answer.total = Cardinality(DOMAIN AskedGroups)
       /\ answer.truncated = (Len(answer.rows) < Cardinality(DOMAIN AskedGroups))

\* The rows that a request of the explorer asks for
Wanted(r, types, table) ==
    LET within == IF r.within = {} THEN DOMAIN types ELSE r.within \cap DOMAIN types
        Matches(row) == \E c \in within : row[c] # Null /\ Like(row[c], r.term)
    IN  {i \in DOMAIN table :
            /\ Keeps(r.filters, types, table[i]) = "true"
            /\ r.term = Null \/ within = {} \/ Matches(table[i])}

\* Aggregated values, by key, of the rows that have a key
AggregatedBy(r, table, column, granularity) ==
    LET metric == [formula |-> <<>>, column |-> r.metric, aggregation |-> r.aggregation]
        KeyOf(i) == Truncated(table[i][column], granularity)
    IN  [v \in {KeyOf(i) : i \in DOMAIN table} \ {Null} |->
            Evaluate(Aggregate(metric), {i \in DOMAIN table : KeyOf(i) = v}, table)]

\* No key that is left out has a greater value than one shown before it.
AreGreatest(shown, value, top) ==
    LET Keys(n) == {shown[i].key : i \in 1..n}
    IN  /\ Len(shown) = Min({top, Cardinality(DOMAIN value)})
        /\ Cardinality(Keys(Len(shown))) = Len(shown)
        /\ \A i \in DOMAIN shown :
              /\ shown[i].value = Finite(value[shown[i].key])
              /\ \A v \in DOMAIN value \ Keys(i) :
                    /\ ~Before(value[v], value[shown[i].key], "desc")
                    /\ value[v] = value[shown[i].key] => shown[i].key < v

\* Each value is in one bucket, and the buckets follow each other.
AreBuckets(buckets, values) ==
    LET n == Len(buckets)
        Inside(b, v) == /\ buckets[b].min <= v * n
                        /\ v * n < buckets[b].max \/ (b = n /\ v * n = buckets[b].max)
    IN  /\ \A b \in DOMAIN buckets :
              buckets[b].count = Cardinality({i \in DOMAIN values : Inside(b, values[i])})
        /\ values # <<>> => n > 0 /\ buckets[1].min = Min(Range(values)) * n
        /\ \A b \in 2..n : buckets[b].min = buckets[b - 1].max

\* Does an answer to the call r describe the dataset?
Describes(shown, r, types, table) ==
    LET Held(column) ==
            SelectSeq([i \in DOMAIN table |-> table[i][column]], LAMBDA v : v # Null)
        Among(values, S) == Cardinality({i \in DOMAIN values : values[i] \in S})
        Counts(column) == [v \in Range(Held(column)) |-> Among(Held(column), {v})]
        repeated == {i \in DOMAIN table : \E j \in 1..(i - 1) : table[j] = table[i]}
    IN  CASE r.call = "rows" ->
               Literal(r.filters, types) /\ Escaped("VARCHAR", r.term) = r.term =>
               LET found == Wanted(r, types, table)
                   end == r.page * r.pageSize
               IN  /\ IsPage(shown.rows, Chosen(r, types), [i \in found |-> table[i]],
                             r.sort, end - r.pageSize, r.pageSize)
                   /\ shown.total = Cardinality(found)
                   /\ shown.truncated = (end < Cardinality(found))
          [] r.call = "group" ->
               AreGreatest(shown.rows, AggregatedBy(r, table, r.groupBy, "none"), r.topN)
          [] r.call = "series" ->
               LET value == AggregatedBy(r, table, r.dateColumn, r.granularity)
               IN  /\ {shown.rows[i].key : i \in DOMAIN shown.rows} = DOMAIN value
                   /\ \A i \in DOMAIN shown.rows :
                         /\ shown.rows[i].value = Finite(value[shown.rows[i].key])
                         /\ \A j \in 1..(i - 1) : shown.rows[j].key < shown.rows[i].key
          [] r.call = "top" ->
               /\ AreGreatest(shown.rows, Counts(r.column), r.top)
               /\ shown.total = Len(Held(r.column))
          [] r.call = "distribution" ->
               IF IsNumeric(types[r.column]) THEN AreBuckets(shown.buckets, Held(r.column))
               ELSE AreGreatest(shown.rows, Counts(r.column), 20)
          [] r.call = "statistics" ->
               /\ shown.count = Len(table)
               /\ shown.nullCount + Len(Held(r.column)) = shown.count
               /\ shown.uniqueCount = Cardinality(Range(Held(r.column)))
               /\ IsNumeric(types[r.column]) /\ Held(r.column) # <<>> =>
                    LET q == <<4 * shown.min>> \o shown.quartiles \o <<4 * shown.max>>
                        below == {v \in Range(Held(r.column)) : 4 * v <= q[3]}
                    IN  /\ \A i \in 1..4 : q[i] <= q[i + 1]
                        /\ {shown.min, shown.max} \subseteq Range(Held(r.column))
                        /\ 2 * Among(Held(r.column), below) >= Len(Held(r.column))
          [] r.call = "outliers" ->
               /\ shown.total = Len(table)
               /\ 2 * shown.outlierCount <= Len(Held(r.column))
          [] r.call = "correlation" ->
               LET names == {shown.columns[i] : i \in DOMAIN shown.columns}
                   named == {c \in NumericColumns(types) : r.columns # {} => c \in r.columns}
               IN  /\ names \subseteq named
                   /\ Cardinality(names) = Len(shown.columns)
                   /\ Len(shown.columns) = Min({MaxCorrelated, Cardinality(named)})
                   /\ Len(shown.matrix) = IF Len(shown.columns) < 2 THEN 0 ELSE Len(shown.columns)
                   /\ \A a, b \in DOMAIN shown.matrix :
                         /\ shown.matrix[a][a] = 1
                         /\ shown.matrix[a][b] = shown.matrix[b][a]
                         /\ a # b => shown.matrix[a][b]
                                       = Corr(table, shown.columns[a], shown.columns[b])
          [] r.call = "scatter" ->
               LET points == [i \in DOMAIN table |-> [x |-> table[i][r.x], y |-> table[i][r.y]]]
                   complete == {i \in DOMAIN table : Null \notin {points[i].x, points[i].y}}
               IN  /\ shown.total = Cardinality(complete)
                   /\ r.sample >= Len(table) => Len(shown.points) = shown.total
                   /\ \E from \in [DOMAIN shown.points -> complete] :
                         /\ Distinct(from)
                         /\ \A p \in DOMAIN from : shown.points[p] = points[from[p]]
          [] r.call = "missing" ->
               /\ {shown.columns[i].column : i \in DOMAIN shown.columns} = DOMAIN types
               /\ \A i \in DOMAIN shown.columns :
                     /\ shown.columns[i].missing + Len(Held(shown.columns[i].column)) = Len(table)
                     /\ \A j \in 1..(i - 1) : shown.columns[j].missing >= shown.columns[i].missing
          [] r.call = "fences" ->
               shown.columnsWithOutliers > 0 <=>
                  shown.worstColumn # "none" /\ OutliersIn(table, shown.worstColumn) # {}
          [] r.call = "count" -> shown.rowCount = Len(table)
          [] r.call \in {"overview", "quality"} ->
               /\ shown.rowCount = Len(table)
               /\ shown.duplicateRows = Cardinality(repeated)
               /\ r.call = "overview" => shown.columnCount = Cardinality(DOMAIN types)
               /\ r.call = "quality" => shown.consistent < Cardinality(DOMAIN types)
                                          <=> shown.invalidValues > 0

\* An analysis describes the file as it was uploaded, every part of it: the
\* explorer's page and total are those of the rows that its filter and its search
\* leave, in the order asked for; groups, periods and top values have the values
\* of all their rows; each value is counted in one bucket, and at most half of
\* them are outliers.  Without a deletion nothing fails inside but a condition
\* whose value DuckDB cannot cast, or whose list is empty (getFilteredRows,
\* getGroupBy, getTimeSeries, getColumnDistribution, getInsights and the others).
AnalysisIsRight ==
    /\ answer # Null /\ answer.kind = "analysis" =>
          LET calls == Parts(query, Types[Asked], Tables[Asked])
          IN  /\ Len(answer.of) = Len(calls)
              /\ \A i \in DOMAIN calls :
                    Describes(answer.of[i], calls[i], Types[Asked], Tables[Asked])
    /\ /\ via = "workspace" /\ Rejected /\ Touched = {}
       /\ answer.code = "INTERNAL_ERROR"
       => /\ query.call = "rows"
          /\ \E i \in DOMAIN query.filters : /\ ~IsGroup(query.filters[i])
                                            /\ Unrunnable(query.filters[i], Types[Asked])

\* A formula that is compiled means what its expression stands for, operators
\* binding and associating as usual; and only a formula that means nothing, or
\* names what it may not, is refused as one (Parser, validate, toSql).
FormulaIsRead ==
    LET context == FormulaContext(loads)
        Fits(f) == /\ Meaning(f) # Malformed
                   /\ Fault(Meaning(f), context) = Fine
                   /\ query.dimensions = <<>> \/ ContainsAggregation(Meaning(f))
        index == {i \in DOMAIN query.metrics : query.metrics[i].formula # <<>>}
    IN  /\ plan # Null => \A i \in index :
              LET f == query.metrics[i].formula
              IN  Fits(f) /\ (Plain(f) => plan.values[i] = Meaning(f))
        /\ via # "workspace" /\ Rejected /\ answer.code = "INVALID_METRIC" =>
              \E i \in index : ~Fits(query.metrics[i].formula)

\* Has a column of the form a name that the schema trims?
Padded(f) ==
    LET named == {f.dimensions[i].column : i \in DOMAIN f.dimensions}
                   \cup {f.metrics[i].column : i \in DOMAIN f.metrics}
                   \cup {f.joins[i].leftColumn : i \in DOMAIN f.joins}
                   \cup {f.joins[i].rightColumn : i \in DOMAIN f.joins}
                   \cup FilterColumns(f.filters)
    IN  named \cap DOMAIN Spelling # {}

\* What the studio accepts is answered, unless a dataset of the query is being
\* deleted, a column has spaces around its name, a list, a name or a formula is
\* empty or too long or a number a fraction, a name belongs to two datasets, a
\* formula means nothing, a filter names a column of a dataset that is no longer
\* selected or has a value that DuckDB cannot cast, or the joins do not bring in
\* what the query names or compare columns of two types; validateQuery leaves
\* these to the server.
AcceptedIsServed ==
    LET named == {query.dimensions[i].column : i \in DOMAIN query.dimensions}
                   \cup {query.metrics[i].column : i \in DOMAIN query.metrics}
                   \cup FilterColumns(query.filters) \cup UNION {Range(f) : f \in Formulas}
        Brings(i) == {query.datasets[1]} \cup {query.joins[j].right : j \in 1..i}
        Compares(j) == Types[j.left][j.leftColumn] = Types[j.right][j.rightColumn]
        wired == /\ \A i \in DOMAIN query.joins :
                       /\ query.joins[i].right \notin Brings(i - 1)
                       /\ query.joins[i].left \in Brings(i)
                       /\ Compares(query.joins[i])
                 /\ \A name \in named : Owned(name) = 1 => Owner(name) \in Joined
        runnable == \A i \in DOMAIN query.filters :
            ~IsGroup(query.filters[i]) => ~Unrunnable(query.filters[i], ColumnTypes)
    IN  via = "studio" /\ Rejected /\ Touched = {} /\ ~Padded(form) =>
          CASE answer.code = "VALIDATION_ERROR" ->
                  ~WithinBounds(query) \/ Junk \in {query.limit, query.offset}
            [] answer.code = "AMBIGUOUS_COLUMN" -> \E name \in named : Owned(name) > 1
            [] answer.code = "COLUMN_NOT_FOUND" ->
                  \E name \in FilterColumns(query.filters) : Owned(name) = 0
            [] answer.code = "QUERY_FAILED" ->
                  ~wired \/ ~runnable \/ \E f \in Formulas : ~StarFits(Meaning(f))
            [] OTHER -> answer.code = "INVALID_METRIC" /\ Formulas # {}
=============================================================================
