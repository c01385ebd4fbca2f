---------------------------- MODULE QueryCompiler ----------------------------
(***************************************************************************)
(* DataMartQueryCompiler: from a structured query and the columns of its   *)
(* datasets to a plan (the SQL text), or to the first fault it finds.      *)
(*                                                                         *)
(* A load is [id, types], types giving each column its DuckDB type.  A     *)
(* query has a tuple each of datasets, joins, dimensions, metrics and sort *)
(* keys, a filter, a limit and an offset; "none" is an option left out,    *)
(* and the empty formula belongs to a metric with an aggregation.          *)
(***************************************************************************)
EXTENDS Formula, Filters, TLC

CONSTANTS MaxLimit, MaxOffset     \* DATAMART_MAX_LIMIT, DATAMART_MAX_OFFSET

ASSUME LimitsArePositive == MaxLimit \in Nat \ {0} /\ MaxOffset \in Nat

\* classifyColumnCategory, isNumericCategory, isDateCategory
IsNumeric(type) == type = "BIGINT"
IsDate(type)    == type = "DATE"

---------------------------------------------------------------------------
\* buildScope, resolveScope, formulaContext

Owners(loads, name) == {k \in DOMAIN loads : name \in DOMAIN loads[k].types}

Names(loads) == UNION {DOMAIN loads[k].types : k \in DOMAIN loads}

Resolve(loads, name) ==
    LET owners == Owners(loads, name)
    IN  CASE owners = {} -> "COLUMN_NOT_FOUND"
          [] Cardinality(owners) > 1 -> "AMBIGUOUS_COLUMN"
          [] OTHER -> Fine

TypeOf(loads, name) == loads[Min(Owners(loads, name))].types[name]

FormulaContext(loads) ==
    [name \in Names(loads) |->
        IF Resolve(loads, name) = Fine THEN TypeOf(loads, name) ELSE "ambiguous"]

---------------------------------------------------------------------------
\* The faults of the parts of a query.

IndexOf(loads, id) == CHOOSE k \in DOMAIN loads : loads[k].id = id

JoinFault(join, loads) ==
    IF ~({join.left, join.right} \subseteq {loads[k].id : k \in DOMAIN loads})
    THEN "INVALID_QUERY"
    ELSE IF /\ join.leftColumn \in DOMAIN loads[IndexOf(loads, join.left)].types
            /\ join.rightColumn \in DOMAIN loads[IndexOf(loads, join.right)].types
    THEN Fine ELSE "COLUMN_NOT_FOUND"

DimensionFault(dimension, loads) ==
    IF Resolve(loads, dimension.column) # Fine THEN Resolve(loads, dimension.column)
    ELSE IF dimension.granularity # "none" /\ ~IsDate(TypeOf(loads, dimension.column))
    THEN "INVALID_QUERY" ELSE Fine

\* A formula that is not read, that has a fault, or that aggregates nothing in a
\* grouped query
TreeFault(tree, fault, grouped) ==
    IF fault # Fine THEN fault
    ELSE IF grouped /\ ~ContainsAggregation(tree) THEN "INVALID_METRIC" ELSE Fine

ReadFault(parsed, loads, grouped) ==
    CASE parsed.out = "refused"  -> "INVALID_METRIC"
      [] parsed.out = "overflow" -> "STACK_OVERFLOW"
      [] OTHER -> TreeFault(parsed.tree, Fault(parsed.tree, FormulaContext(loads)), grouped)

FormulaFault(formula, loads, grouped) == ReadFault(Parse(formula), loads, grouped)

AggregateFault_NumbersOnly(metric, loads) ==
    IF metric.column = "none"
    THEN IF metric.aggregation = "count" THEN Fine ELSE "INVALID_QUERY"
    ELSE IF Resolve(loads, metric.column) # Fine THEN Resolve(loads, metric.column)
    ELSE IF ~IsNumeric(TypeOf(loads, metric.column)) THEN "INVALID_QUERY" ELSE Fine
AggregateFault(metric, loads) ==
    IF metric.column = "none"
    THEN IF metric.aggregation = "count" THEN Fine ELSE "INVALID_QUERY"
    ELSE IF Resolve(loads, metric.column) # Fine THEN Resolve(loads, metric.column)
    ELSE IF metric.aggregation \in NumericOnly /\ ~IsNumeric(TypeOf(loads, metric.column))
    THEN "INVALID_QUERY" ELSE Fine

MetricFault(metric, loads, grouped) ==
    IF metric.formula # <<>> THEN FormulaFault(metric.formula, loads, grouped)
    ELSE AggregateFault(metric, loads)

OutputNames(query) ==
    [i \in DOMAIN query.dimensions |-> query.dimensions[i].column]
      \o [i \in DOMAIN query.metrics |-> query.metrics[i].alias]

FilterFault(node, loads) == IF IsGroup(node) THEN Fine ELSE Resolve(loads, node.column)

SortFault(key, query) ==
    IF key.column \in Range(OutputNames(query)) THEN Fine ELSE "INVALID_SORT"

\* In the order in which compile comes upon them.
QueryFault(query, loads) ==
    LET grouped == query.dimensions # <<>>
    IN  FirstFault(
          [i \in DOMAIN query.joins |-> JoinFault(query.joins[i], loads)]
          \o [i \in DOMAIN query.dimensions |-> DimensionFault(query.dimensions[i], loads)]
          \o [i \in DOMAIN query.metrics |-> MetricFault(query.metrics[i], loads, grouped)]
          \o <<IF OutputNames(query) = <<>> THEN "INVALID_QUERY" ELSE Fine>>
          \o [i \in DOMAIN query.filters |-> FilterFault(query.filters[i], loads)]
          \o [i \in DOMAIN query.sort |-> SortFault(query.sort[i], query)])

---------------------------------------------------------------------------
\* The plan: columns are qualified by the place of their dataset, and a join has
\* the types that the files give to its columns.

\* buildAggregateExpression
Aggregate(metric) ==
    IF metric.aggregation = "count_distinct"
    THEN Aggregation("count", TRUE, metric.column)
    ELSE Aggregation(metric.aggregation, FALSE, metric.column)

Expression(metric) ==
    IF metric.formula # <<>> THEN ToSql(Parse(metric.formula).tree) ELSE Aggregate(metric)

BuildJoins(joins, loads) ==
    [i \in DOMAIN joins |->
        [type |-> joins[i].type,
         left |-> IndexOf(loads, joins[i].left), leftColumn |-> joins[i].leftColumn,
         right |-> IndexOf(loads, joins[i].right), rightColumn |-> joins[i].rightColumn,
         types |-> {loads[IndexOf(loads, joins[i].left)].types[joins[i].leftColumn],
                    loads[IndexOf(loads, joins[i].right)].types[joins[i].rightColumn]}]]

\* Of outputs with one name, the last takes its place in the map of the aliases.
BuildOrderBy(query) ==
    LET names == OutputNames(query)
    IN  [i \in DOMAIN query.sort |->
            [output |-> Max({k \in DOMAIN names : names[k] = query.sort[i].column}),
             direction |-> query.sort[i].direction]]

ClampLimit(value)  == IF value <= 0 THEN 1 ELSE Min({value, MaxLimit})
ClampOffset(value) == IF value <= 0 THEN 0 ELSE Min({value, MaxOffset})

Compile(query, loads) ==
    LET types == [name \in Names(loads) |-> TypeOf(loads, name)]
        filter == BuildFilterWhere(query.filters, types)
    IN  [tables  |-> [k \in DOMAIN loads |-> loads[k].id],
         owner   |-> [name \in Names(loads) |-> Min(Owners(loads, name))],
         joins   |-> BuildJoins(query.joins, loads),
         groupBy |-> query.dimensions,
         values  |-> [i \in DOMAIN query.metrics |-> Expression(query.metrics[i])],
         where   |-> filter.clause,
         params  |-> filter.params,
         orderBy |-> BuildOrderBy(query),
         limit   |-> ClampLimit(query.limit),
         offset  |-> ClampOffset(query.offset)]
=============================================================================
