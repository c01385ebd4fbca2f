-------------------------------- MODULE Formula --------------------------------
(***************************************************************************)
(* Formulas of calculated metrics: the recursive descent parser and the    *)
(* checks of compileFormula, on tokens, and a definition of what a formula *)
(* means that splits it at its last operator instead.                      *)
(*                                                                         *)
(* A token is a string: a number, an operator, a bracket, "distinct", or   *)
(* else a name; "" is what peek() gives at the end.  median, stddev and    *)
(* variance are treated like avg and left out.  The comma, which no rule   *)
(* takes, is any token that is misplaced.                                  *)
(***************************************************************************)
EXTENDS Integers, Sequences, SequencesExt

Aggregations == {"count", "count_distinct", "sum", "avg", "min", "max"}
NumericOnly  == {"sum", "avg"}

Numbers   == {"0", "2"}
Operators == {"+", "-", "*", "/"}
IsName(t) == t \notin Numbers \cup Operators \cup {"(", ")", "distinct", ""}

\* A syntax tree is the sequence of its nodes, each before its operands: the left
\* one comes next, and the right one "right" places on.  A column "none" is the
\* missing argument.
Number(v) == <<[kind |-> "number", value |-> v]>>
Column(c) == <<[kind |-> "column", name |-> c]>>
Aggregation(fn, distinct, c) ==
    <<[kind |-> "aggregation", fn |-> fn, distinct |-> distinct, column |-> c]>>
Binary(op, l, r) == <<[kind |-> "binary", op |-> op, right |-> Len(l) + 1]>> \o l \o r

---------------------------------------------------------------------------
\* The parser.  A rule gives the tree it has read and where it stopped, or how
\* it failed; the loops of parseExpr and parseTerm give their operands.

Found(tree, i) == [out |-> "found", tree |-> tree, at |-> i]
Loop(steps, i) == [out |-> "loop", steps |-> steps, at |-> i]
Refused  == [out |-> "refused"]
Overflow == [out |-> "overflow"]

\* advance() at the end gives the last token once more, and stays.
Peek(tokens, i)    == IF i <= Len(tokens) THEN tokens[i] ELSE ""
Advance(tokens, i) == tokens[IF i <= Len(tokens) THEN i ELSE Len(tokens)]
After(tokens, i)   == IF i <= Len(tokens) THEN i + 1 ELSE i

\* consume(")") behind an argument
Close(tokens, tree, i) ==
    IF Peek(tokens, i) = ")" THEN Found(tree, i + 1) ELSE Refused

\* parseAggregation, with i at the bracket
Call(tokens, fn, i) ==
    LET distinct == Peek(tokens, i + 1) = "distinct"
        arg == IF distinct THEN i + 2 ELSE i + 1
        name == Advance(tokens, arg)
    IN  IF fn \notin Aggregations \/ (distinct /\ Peek(tokens, arg) = "*") THEN Refused
        ELSE IF Peek(tokens, arg) = ")"
        THEN Close(tokens, Aggregation(fn, distinct, "none"), arg)
        ELSE IF Peek(tokens, arg) = "*"
        THEN Close(tokens, Aggregation(fn, distinct, "none"), arg + 1)
        ELSE IF IsName(name)
        THEN Close(tokens, Aggregation(fn, distinct, name), After(tokens, arg))
        ELSE Refused

\* later[k]: what each rule reads from a place k after i
Factor(tokens, i, later) ==
    LET t == Advance(tokens, i)
    IN  IF t \in Numbers THEN Found(Number(t), After(tokens, i))
        ELSE IF t = "(" /\ i > Len(tokens) THEN Overflow     \* reads the bracket for ever
        ELSE IF t = "("
        THEN LET inner == later[i + 1].expr
             IN  IF inner.out # "found" THEN inner ELSE Close(tokens, inner.tree, inner.at)
        ELSE IF ~IsName(t) THEN Refused
        ELSE IF Peek(tokens, i + 1) = "(" THEN Call(tokens, t, i + 1)
        ELSE Found(Column(t), After(tokens, i))

\* A loop takes operators and their right operands.
Steps(right, rest, op) ==
    IF right.out # "found" THEN right
    ELSE LET loop == rest[right.at]
         IN  IF loop.out # "loop" THEN loop
             ELSE Loop(<<[op |-> op, tree |-> right.tree]>> \o loop.steps, loop.at)

Products(tokens, i, later) ==
    IF Peek(tokens, i) \notin {"*", "/"} THEN Loop(<<>>, i)
    ELSE Steps(later[i + 1].factor, [k \in DOMAIN later |-> later[k].products], tokens[i])
Sums(tokens, i, later) ==
    IF Peek(tokens, i) \notin {"+", "-"} THEN Loop(<<>>, i)
    ELSE Steps(later[i + 1].term, [k \in DOMAIN later |-> later[k].sums], tokens[i])

Attach(first, steps) ==
    LET left[k \in 0..Len(steps)] ==
            IF k = 0 THEN first ELSE Binary(steps[k].op, left[k - 1], steps[k].tree)
    IN  left[Len(steps)]

Chain(first, loop) ==
    IF loop.out # "loop" THEN loop ELSE Found(Attach(first.tree, loop.steps), loop.at)

\* What parseTerm, and parseExpr, make of their first operand, read from i
TermOf(factor, products, i, later) ==
    IF factor.out # "found" THEN factor
    ELSE Chain(factor, IF factor.at = i THEN products ELSE later[factor.at].products)

ExprOf(term, sums, i, later) ==
    IF term.out # "found" THEN term
    ELSE Chain(term, IF term.at = i THEN sums ELSE later[term.at].sums)

RulesAt(tokens, i, later) ==
    LET factor   == Factor(tokens, i, later)
        products == Products(tokens, i, later)
        term     == TermOf(factor, products, i, later)
        sums     == Sums(tokens, i, later)
    IN  [factor |-> factor, products |-> products, term |-> term, sums |-> sums,
         expr |-> ExprOf(term, sums, i, later)]

\* What the rules read from every place, the end included.
Parsing(tokens) ==
    LET n == Len(tokens)
        from[i \in 1..(n + 2)] ==
            IF i = n + 2 THEN <<>>
            ELSE LET later == from[i + 1]
                 IN  [k \in i..(n + 1) |-> IF k = i THEN RulesAt(tokens, i, later) ELSE later[k]]
    IN  from[1]

\* parse: there may be no token behind what is read.
Whole(read, n) == IF read.out = "found" /\ read.at <= n THEN Refused ELSE read

Parse(tokens) ==
    IF tokens = <<>> THEN Refused ELSE Whole(Parsing(tokens)[1].expr, Len(tokens))

---------------------------------------------------------------------------
\* validate: the first fault of a tree, from left to right.  types gives the
\* columns that can be named their types, or says that the name is ambiguous.

Fine == "fine"

FirstFault(faults) ==
    LET found == {i \in DOMAIN faults : faults[i] # Fine}
    IN  IF found = {} THEN Fine ELSE faults[Min(found)]

AggregationFault(node, types) ==
    IF node.column = "none" THEN Fine
    ELSE IF node.column \notin DOMAIN types THEN "INVALID_METRIC"
    ELSE IF types[node.column] = "ambiguous" THEN "AMBIGUOUS_COLUMN"
    ELSE IF node.fn \in NumericOnly /\ types[node.column] # "BIGINT"
    THEN "INVALID_METRIC" ELSE Fine

NodeFault(tree, i, types) ==
    CASE tree[i].kind = "number" -> Fine
      [] tree[i].kind = "column" -> "INVALID_METRIC"
      [] tree[i].kind = "aggregation" -> AggregationFault(tree[i], types)
      [] tree[i].kind = "binary" ->
            IF tree[i].op = "/" /\ <<tree[i + tree[i].right]>> = Number("0")
            THEN "INVALID_METRIC" ELSE Fine

Fault(tree, types) == FirstFault([i \in DOMAIN tree |-> NodeFault(tree, i, types)])

ContainsAggregation(tree) == \E i \in DOMAIN tree : tree[i].kind = "aggregation"

\* toSql and AGGREGATION_FUNCTIONS, which has count for count_distinct.
SqlFunction(fn) == IF fn = "count_distinct" THEN "count" ELSE fn

ToSql_DistinctLost(tree) ==
    [i \in DOMAIN tree |->
        IF tree[i].kind # "aggregation" THEN tree[i]
        ELSE [tree[i] EXCEPT !.fn = SqlFunction(@), !.distinct = FALSE]]
ToSql(tree) ==
    [i \in DOMAIN tree |->
        IF tree[i].kind # "aggregation" THEN tree[i]
        ELSE [tree[i] EXCEPT !.fn = SqlFunction(@)]]

---------------------------------------------------------------------------
\* What a formula means: the operator that binds least and comes last is
\* applied last, and brackets go first.

Malformed == <<>>

\* How many brackets are open behind each token
Depth(tokens) ==
    LET depth[k \in 0..Len(tokens)] ==
            CASE k = 0 -> 0
              [] k > 0 /\ tokens[k] = "(" -> depth[k - 1] + 1
              [] k > 0 /\ tokens[k] = ")" -> depth[k - 1] - 1
              [] OTHER -> depth[k - 1]
    IN  depth

\* The operators from i to j that are in no bracket opened there
Splits(tokens, depth, i, j, ops) ==
    {k \in i..j : tokens[k] \in ops /\ depth[k] = depth[i - 1]}

Argument(args, fn) ==
    CASE args \in {<<>>, <<"*">>} -> Aggregation(fn, FALSE, "none")
      [] args = <<"distinct">> -> Aggregation(fn, TRUE, "none")
      [] Len(args) = 1 /\ IsName(Last(args)) -> Aggregation(fn, FALSE, Last(args))
      [] Len(args) = 2 /\ args[1] = "distinct" /\ IsName(Last(args)) ->
            Aggregation(fn, TRUE, Last(args))
      [] OTHER -> Malformed

Composed(op, l, r) == IF Malformed \in {l, r} THEN Malformed ELSE Binary(op, l, r)

\* What the tokens from i to j mean; inner gives the meaning of any part of them.
MeaningOf(tokens, depth, i, j, inner) ==
    LET sums == Splits(tokens, depth, i, j, {"+", "-"})
        ops  == IF sums # {} THEN sums ELSE Splits(tokens, depth, i, j, {"*", "/"})
        k    == Max(ops)
    IN  IF i > j THEN Malformed
        ELSE IF ops # {} THEN Composed(tokens[k], inner[<<i, k - 1>>], inner[<<k + 1, j>>])
        ELSE IF i = j
        THEN IF tokens[i] \in Numbers THEN Number(tokens[i])
             ELSE IF IsName(tokens[i]) THEN Column(tokens[i]) ELSE Malformed
        ELSE IF tokens[j] # ")" THEN Malformed
        ELSE IF tokens[i] = "(" THEN inner[<<i + 1, j - 1>>]
        ELSE IF tokens[i] \in Aggregations /\ tokens[i + 1] = "("
        THEN Argument(SubSeq(tokens, i + 2, j - 1), tokens[i])
        ELSE Malformed

Meanings(tokens) ==
    LET n == Len(tokens)
        depth == Depth(tokens)
        meaning[span \in (1..(n + 1)) \X (0..n)] ==
            MeaningOf(tokens, depth, span[1], span[2], meaning)
    IN  meaning

Meaning(tokens) == Meanings(tokens)[<<1, Len(tokens)>>]
=============================================================================
