----------------------------- MODULE QueryEngine -----------------------------
(***************************************************************************)
(* DuckDB as the compiled queries use it: joins in the order of the text,  *)
(* a filter, groups, aggregates, an order and a page.                      *)
(*                                                                         *)
(* A combination is a choice of a row in each table joined so far; row 0   *)
(* is the row of nulls that a left join adds.  Numbers, texts and days are *)
(* integers, the last digit of a day being dropped by date_trunc.          *)
(***************************************************************************)
EXTENDS QueryCompiler

CONSTANT Tables     \* what the file of a dataset holds: a tuple of rows

ASSUME TablesAreLists == \A d \in DOMAIN Tables : Tables[d] \in Seq(Range(Tables[d]))

Cell(dataset, i, column) == IF i = 0 THEN Null ELSE Tables[dataset][i][column]

Truncated(value, granularity) ==
    IF value = Null \/ granularity = "none" THEN value ELSE value - (value % 10)

---------------------------------------------------------------------------
\* Expressions over a group of combinations.

Divide(a, b) == IF b > 0 THEN a \div b ELSE Null

Arithmetic(op, a, b) ==
    IF Null \in {a, b} THEN Null
    ELSE CASE op = "+" -> a + b [] op = "-" -> a - b [] op = "*" -> a * b
           [] op = "/" -> Divide(a, b)

\* view[c]: the cells of a combination, by column
Fold(fn, distinct, group, view, column) ==
    LET held == {c \in group : view[c][column] # Null}
        cells == {view[c][column] : c \in held}
        n == IF distinct THEN Cardinality(cells) ELSE Cardinality(held)
        total == IF distinct THEN SumSet(cells)
                 ELSE MapThenSumSet(LAMBDA c : view[c][column], held)
    IN  CASE fn = "count" -> n
          [] fn # "count" /\ held = {} -> Null
          [] fn = "sum" /\ held # {} -> total
          [] fn = "avg" /\ held # {} -> total \div n
          [] fn = "min" /\ held # {} -> Min(cells)
          [] fn = "max" /\ held # {} -> Max(cells)

Evaluate(tree, group, view) ==
    LET Count(fn, distinct) ==      \* of no column; count(DISTINCT null) is 0
            IF ~distinct THEN Cardinality(group) ELSE IF fn = "count" THEN 0 ELSE Null
        value[i \in DOMAIN tree] ==
            LET node == tree[i]
            IN  CASE node.kind = "number" -> IF node.value = "2" THEN 2 ELSE 0
                  [] node.kind = "aggregation" ->
                        IF node.column = "none" THEN Count(node.fn, node.distinct)
                        ELSE Fold(node.fn, node.distinct, group, view, node.column)
                  [] node.kind = "binary" ->
                        Arithmetic(node.op, value[i + 1], value[i + node.right])
    IN  value[1]

\* NULLS LAST, in both directions
Before(a, b, direction) ==
    /\ a # Null
    /\ b = Null \/ IF direction = "desc" THEN a > b ELSE a < b

\* Is row a to come before row b?
Precedes(a, b, orderBy) ==
    \E i \in DOMAIN orderBy :
        /\ Before(a[orderBy[i].output], b[orderBy[i].output], orderBy[i].direction)
        /\ \A j \in 1..(i - 1) : a[orderBy[j].output] = b[orderBy[j].output]

---------------------------------------------------------------------------
\* Binding: a table joins once, after the table it joins on, on columns of one
\* type; nothing names a table that has not joined; only count takes a star; and
\* the clause can be read with its parameters.

Bound(plan, j) == {1} \cup {plan.joins[i].right : i \in 1..j}

Aggregates(tree) == {i \in DOMAIN tree : tree[i].kind = "aggregation"}

TreeColumns(tree) == {tree[i].column : i \in Aggregates(tree)} \ {"none"}
StarFits(tree) ==
    \A i \in Aggregates(tree) :
        tree[i].column # "none" \/ tree[i].distinct \/ tree[i].fn = "count"

Binds(plan) ==
    LET named == {plan.groupBy[i].column : i \in DOMAIN plan.groupBy}
                   \cup FilterColumns(plan.where)
                   \cup UNION {TreeColumns(plan.values[i]) : i \in DOMAIN plan.values}
    IN  /\ \A j \in DOMAIN plan.joins :
              /\ plan.joins[j].right \notin Bound(plan, j - 1)
              /\ plan.joins[j].left \in Bound(plan, j)
              /\ Cardinality(plan.joins[j].types) = 1
        /\ {plan.owner[name] : name \in named} \subseteq Bound(plan, Len(plan.joins))
        /\ \A i \in DOMAIN plan.values : StarFits(plan.values[i])
        /\ Runs(plan.where, plan.params)

\* The files that the statement reads.
Reads(plan) == {plan.tables[k] : k \in Bound(plan, Len(plan.joins))}

---------------------------------------------------------------------------
\* Execution.

\* A combination and row i of one more table
Beside(c, table, i) == [t \in DOMAIN c \cup {table} |-> IF t \in DOMAIN c THEN c[t] ELSE i]

Join(plan, combos, join) ==
    LET left == plan.tables[join.left]
        right == plan.tables[join.right]
        On(c, i) ==
            LET d == Beside(c, join.right, i)
            IN  /\ Cell(left, d[join.left], join.leftColumn) # Null
                /\ Cell(left, d[join.left], join.leftColumn) = Cell(right, i, join.rightColumn)
        Matches(c) == {i \in DOMAIN Tables[right] : On(c, i)}
        With(c) == IF Matches(c) = {} /\ join.type = "left" THEN {0} ELSE Matches(c)
    IN  UNION {{Beside(c, join.right, i) : i \in With(c)} : c \in combos}

\* The cells of a combination, by the columns that the plan can name.
View(plan, c) ==
    [name \in {m \in DOMAIN plan.owner : plan.owner[m] \in DOMAIN c} |->
        Cell(plan.tables[plan.owner[name]], c[plan.owner[name]], name)]

Key(plan, row) ==
    [i \in DOMAIN plan.groupBy |->
        Truncated(row[plan.groupBy[i].column], plan.groupBy[i].granularity)]

\* The groups of the result, as sets of combinations; without GROUP BY there is
\* one with an aggregate, and otherwise one for each combination.
Groups(plan) ==
    LET base == {[t \in {1} |-> i] : i \in DOMAIN Tables[plan.tables[1]]}
        combos == FoldLeft(LAMBDA cs, join : Join(plan, cs, join), base, plan.joins)
        kept == {c \in combos : \/ plan.where = NoFilter
                                \/ Where(plan.where, plan.params, View(plan, c)) = "true"}
        key == [c \in kept |-> Key(plan, View(plan, c))]
    IN  IF plan.groupBy # <<>> THEN {{d \in kept : key[d] = key[c]} : c \in kept}
        ELSE IF \E i \in DOMAIN plan.values : ContainsAggregation(plan.values[i])
        THEN {kept} ELSE {{c} : c \in kept}

RowOf(plan, group) ==
    LET view == [c \in group |-> View(plan, c)]
    IN  (IF group = {} THEN <<>> ELSE Key(plan, view[CHOOSE c \in group : TRUE]))
          \o [i \in DOMAIN plan.values |-> Evaluate(plan.values[i], group, view)]

\* dataSql: rows that tie come in any order.
Pages(plan) ==
    LET groups == Groups(plan)
        row == [g \in groups |-> RowOf(plan, g)]
        orders == {s \in [1..Cardinality(groups) -> groups] :
                      /\ Range(s) = groups
                      /\ \A i, j \in DOMAIN s : i < j => ~Precedes(row[s[j]], row[s[i]], plan.orderBy)}
    IN  {SubSeq([i \in DOMAIN s |-> row[s[i]]], plan.offset + 1,
                Min({plan.offset + plan.limit, Cardinality(groups)})) : s \in orders}

\* countSql
Total(plan) == Cardinality(Groups(plan))
=============================================================================
