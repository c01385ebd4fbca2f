-------------------------------- MODULE Filters --------------------------------
(***************************************************************************)
(* Filter trees: buildFilterWhere, which makes a clause with holes and the *)
(* list of values that DuckDB puts into them from left to right, and what  *)
(* a filter means, condition by condition.                                 *)
(*                                                                         *)
(* A filter is the sequence of its nodes, each before those in it, and so  *)
(* is a clause: a condition, or a group that says how far on its parts     *)
(* are.  A condition has the list of its values, that of a clause a number *)
(* of holes.  Cells and values are numbers (a text is coded by two digits, *)
(* its letters), Null, and, among the values of a filter only, Junk: what  *)
(* is no number, no day or no text where one is wanted.  A value left out  *)
(* is Junk for a number and Null otherwise; the empty text is Null for a   *)
(* number, and where a text is looked for in another, and Junk for a day.  *)
(***************************************************************************)
EXTENDS Integers, Sequences, SequencesExt

CONSTANTS Null, Junk

ASSUME JunkIsNoCell == Junk # Null /\ Junk \notin Int

\* What a list has at some places, in order
Picked(list, places) ==
    LET upTo[i \in 0..Len(list)] ==
            CASE i = 0 -> <<>>
              [] i > 0 /\ i \in places -> Append(upTo[i - 1], list[i])
              [] OTHER -> upTo[i - 1]
    IN  upTo[Len(list)]

Group(conjunction, parts) ==
    <<[conjunction |-> conjunction,
       at |-> [k \in DOMAIN parts |-> 1 + Len(FlattenSeq(SubSeq(parts, 1, k - 1)))]]>>
      \o FlattenSeq(parts)

NoFilter == Group("AND", <<>>)

IsGroup(node) == "conjunction" \in DOMAIN node

\* Each group is before its parts.
IsTree(filter) ==
    /\ filter # <<>>
    /\ \A i \in DOMAIN filter : IsGroup(filter[i]) => filter[i].at \in Seq(1..(Len(filter) - i))

\* coerceFilterValue: of a number, a text that is none becomes null, and null 0.
Coerce(type, v) ==
    CASE type = "BIGINT" /\ v = Junk -> Null
      [] type = "BIGINT" /\ v = Null -> 0
      [] OTHER -> v

\* escapeLike puts a backslash before a letter 9, which stands for % and _ and the
\* backslash itself; LIKE has no ESCAPE and looks for the backslash in the text.
Looks(op) == op \in {"contains", "not_contains"}

Escaped(type, v) ==
    LET value == Coerce(type, v)
    IN  CASE type = "BIGINT" \/ value = Null -> value
          [] type # "BIGINT" /\ value = Junk -> -1
          [] OTHER -> IF type = "VARCHAR" /\ 9 \in {value \div 10, value % 10} THEN -1 ELSE value

\* The parameter for value i of a condition
Param(node, types, i) ==
    IF Looks(node.op) THEN Escaped(types[node.column], node.values[i])
    ELSE Coerce(types[node.column], node.values[i])

\* The columns of the conditions of a filter, or of a clause
FilterColumns(filter) ==
    {filter[i].column : i \in {k \in DOMAIN filter : ~IsGroup(filter[k])}}

---------------------------------------------------------------------------
\* The clause and its parameters.

Nowhere == [clause |-> NoFilter, params |-> <<>>]

Holes(node) ==
    CASE node.op \in {"is_null", "is_not_null"} -> 0
      [] node.op = "between" -> 2
      [] node.op \in {"in", "not_in"} -> Len(node.values)
      [] OTHER -> 1

\* A condition has the values that its operator takes.
HasValues(node) ==
    node.values \in Seq(Range(node.values)) /\ Holes(node) <= Len(node.values)

BuildCondition(node, types) ==
    [clause |-> <<[column |-> node.column, op |-> node.op, holes |-> Holes(node)]>>,
     params |-> [i \in 1..Holes(node) |-> Param(node, types, i)]]

FlattenParams_Reversed(parts) ==
    FlattenSeq([i \in 1..Len(parts) |-> parts[Len(parts) + 1 - i].params])
FlattenParams(parts) == FlattenSeq([i \in DOMAIN parts |-> parts[i].params])

BuildFilterWhere(filter, types) ==
    LET built[i \in DOMAIN filter] ==
            LET all == [k \in DOMAIN filter[i].at |-> built[i + filter[i].at[k]]]
                parts == Picked(all, {k \in DOMAIN all : all[k].clause # NoFilter})
            IN  IF ~IsGroup(filter[i]) THEN BuildCondition(filter[i], types)
                ELSE IF parts = <<>> THEN Nowhere
                ELSE [clause |-> Group(filter[i].conjunction,
                                       [k \in DOMAIN parts |-> parts[k].clause]),
                      params |-> FlattenParams(parts)]
    IN  built[1]

---------------------------------------------------------------------------
\* SQL: conditions are true, false or unknown.

Not(b) == CASE b = "true" -> "false" [] b = "false" -> "true" [] OTHER -> "unknown"
Truth(b) == IF b THEN "true" ELSE "false"
AllOf(S) == IF "false" \in S THEN "false" ELSE IF "unknown" \in S THEN "unknown" ELSE "true"
AnyOf(S) == Not(AllOf({Not(b) : b \in S}))

\* ILIKE with '%' on both sides; no value is the empty text.
Like(cell, v) == v \in {Null, cell, cell \div 10, cell % 10}

Compare(op, a, b) ==
    IF Null \in {a, b} THEN "unknown"
    ELSE Truth(CASE op = "eq" -> a = b [] op = "gt" -> a > b [] op = "gte" -> a >= b
                 [] op = "lt" -> a < b [] op = "lte" -> a <= b)

Test(op, cell, vs) ==
    CASE op = "is_null"     -> Truth(cell = Null)
      [] op = "is_not_null" -> Truth(cell # Null)
      [] op = "neq"         -> Truth(cell # vs[1])
      [] op = "in"          -> AnyOf({Compare("eq", cell, vs[i]) : i \in DOMAIN vs})
      [] op = "not_in"      -> Not(AnyOf({Compare("eq", cell, vs[i]) : i \in DOMAIN vs}))
      [] op = "between"     -> AllOf({Compare("gte", cell, vs[1]), Compare("lte", cell, vs[2])})
      [] op \in {"contains", "not_contains"} ->
            IF cell = Null THEN "unknown" ELSE Truth(Like(cell, vs[1]) = (op = "contains"))
      [] OTHER -> Compare(op, cell, vs[1])

Together(conjunction, parts) == IF conjunction = "AND" THEN AllOf(parts) ELSE AnyOf(parts)

\* Where(clause, params, row): DuckDB fills the holes in the order of the text.
Where(clause, params, row) ==
    LET Taken(i) == MapThenSumSet(LAMBDA k : IF IsGroup(clause[k]) THEN 0 ELSE clause[k].holes,
                                  1..(i - 1))
        holds[i \in DOMAIN clause] ==
            LET node == clause[i]
            IN  IF IsGroup(node)
                THEN Together(node.conjunction, {holds[i + node.at[k]] : k \in DOMAIN node.at})
                ELSE Test(node.op, row[node.column],
                          SubSeq(params, Taken(i) + 1, Taken(i) + node.holes))
    IN  holds[1]

\* DuckDB casts no text that is no day, compares no text with a number, and reads
\* no empty list.
Listed(op) == op \in {"in", "not_in"}

Runs(clause, params) ==
    /\ Junk \notin Range(params)
    /\ \A i \in DOMAIN clause :
          ~IsGroup(clause[i]) /\ Listed(clause[i].op) => clause[i].holes > 0

---------------------------------------------------------------------------
\* What a filter means: each condition with its own values; a group without
\* conditions asks for nothing.

Asks(filter) ==
    LET asks[i \in DOMAIN filter] ==
            ~IsGroup(filter[i]) \/ \E k \in DOMAIN filter[i].at : asks[i + filter[i].at[k]]
    IN  asks

Keeps(filter, types, row) ==
    LET keeps[i \in DOMAIN filter] ==
            LET node == filter[i]
                parts == {i + node.at[k] : k \in DOMAIN node.at}
                asking == {j \in parts : Asks(filter)[j]}
            IN  IF ~IsGroup(node)
                THEN Test(node.op, row[node.column],
                          [k \in DOMAIN node.values |->
                              Coerce(types[node.column], node.values[k])])
                ELSE IF asking = {} THEN "true"
                ELSE Together(node.conjunction, {keeps[j] : j \in asking})
    IN  keeps[1]

\* A condition that DuckDB refuses
Unrunnable(node, types) ==
    \/ Listed(node.op) /\ node.values = <<>>
    \/ ~Looks(node.op) /\ \E i \in 1..Holes(node) :
          Coerce(types[node.column], node.values[i]) = Junk

\* No text is looked for that escapeLike changes.
Literal(filter, types) ==
    \A i \in DOMAIN filter : ~IsGroup(filter[i]) /\ Looks(filter[i].op) =>
        Param(filter[i], types, 1)
            = Coerce(types[filter[i].column], filter[i].values[1])
=============================================================================
