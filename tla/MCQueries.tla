------------------------------- MODULE MCQueries -------------------------------
(***************************************************************************)
(* Three small files: sales by region, shops of a region with the area     *)
(* they are in, and areas.  "area" is a column of two datasets, and one of *)
(* areas has a space behind its name.                                      *)
(***************************************************************************)
EXTENDS Queries

MCDatasets == <<"sales", "shops", "areas">>

MCTypes ==
    [sales |-> [region |-> "VARCHAR", amount |-> "BIGINT", day |-> "DATE"],
     shops |-> [shop |-> "VARCHAR", area |-> "VARCHAR", target |-> "BIGINT", size |-> "BIGINT",
                rent |-> "BIGINT"],
     areas |-> [column \in {"area", "boss", "note "} |-> "VARCHAR"]]

MCMost == [datasets |-> 3, dimensions |-> 2, metrics |-> 2, joins |-> 2, sort |-> 2]
MCSpelling == "note " :> "note" @@ " " :> NoName
MCTooLong == {"a name of more than two hundred characters"}

Sale(region, amount, day) == [region |-> region, amount |-> amount, day |-> day]
Shop(shop, area, target, size) ==
    [shop |-> shop, area |-> area, target |-> target, size |-> size, rent |-> 3]
Area(area, boss) == "note " :> 13 @@ [area |-> area, boss |-> boss]

MCTables ==
    [sales |-> <<Sale(12, 5, 11), Sale(29, 3, 12), Sale(12, 3, 21), Sale(Null, Null, 21)>>,
     shops |-> <<Shop(12, 7, 4, 9), Shop(12, 8, 2, 1), Shop(31, 7, 1, Null),
                Shop(51, 8, 2, 1), Shop(51, 8, 2, 1)>>,
     areas |-> <<Area(7, 45), Area(9, 49)>>]

---------------------------------------------------------------------------
By(column) == [column |-> column, granularity |-> "none"]
Monthly(column) == [column |-> column, granularity |-> "month"]
Called(alias, fn, column) ==
    [alias |-> alias, column |-> column, aggregation |-> fn, formula |-> <<>>]
Agg(fn, column) == Called(fn, fn, column)
Calculated(f) == [alias |-> "value", column |-> "none", aggregation |-> "none", formula |-> f]
Cond(column, op, values) == [column |-> column, op |-> op, values |-> values]
Only(column, op, values) == <<Cond(column, op, values)>>
And(parts) == Group("AND", parts)
Or(parts)  == Group("OR", parts)
Asc(column) == [column |-> column, direction |-> "asc"]
Desc(column) == [column |-> column, direction |-> "desc"]
JoinOn(type, left, leftColumn, right, rightColumn) ==
    [type |-> type, left |-> left, leftColumn |-> leftColumn,
     right |-> right, rightColumn |-> rightColumn]

Form(datasets, joins, dimensions, metrics, filters, sorts, limit, offset) ==
    [datasets |-> datasets, joins |-> joins, dimensions |-> dimensions, metrics |-> metrics,
     filters |-> filters, sorts |-> sorts, limit |-> limit, offset |-> offset]

\* Every formula of up to three tokens, of four out of five of them, and some longer
\* ones; the tokenizer makes one name of two, and one token of "distinct"
\* and what comes after it.
Words == {"sum", "amount", "count", "2"}
Tokens == Words \cup {"+", "/", "(", ")", "distinct"}
Spelled(f) ==
    \A i \in 1..(Len(f) - 1) :
        /\ ~(f[i] \in Words /\ f[i + 1] \in Words \cup {"distinct"})
        /\ ~(f[i] = "distinct" /\ f[i + 1] = "distinct")
Short ==
    {f \in [1..4 -> Tokens \ {"count", "2", "/", "distinct"}] \cup UNION {[1..n -> Tokens] : n \in 1..3} :
        Spelled(f)}

Sum == <<"sum", "(", "amount", ")">>
Count == <<"count", "(", "*", ")">>
Least == <<"min", "(", "amount", ")">>
Long ==
    {a \o <<o>> \o b \o <<p>> \o c :
        a \in {Sum, <<"2">>}, b \in {Count, <<"2">>}, c \in {Least},
        o \in Operators, p \in Operators}
    \cup {<<"(">> \o Sum \o <<o>> \o Count \o <<")", p>> \o Least : o, p \in {"-", "/"}}
    \cup {Sum \o <<o, "(">> \o Count \o <<p>> \o Least \o <<")">> : o, p \in {"-", "/"}}
    \cup {<<fn, "(", "distinct", c, ")">> : fn \in {"count", "sum", "count_distinct"},
                                            c \in {"region", "amount", "area"}}
    \cup {<<"sum", "(">> \o Sum \o <<")">>, Sum \o <<"/", "(", "0", ")">>,
          Sum \o <<"+", "(">>, <<"avg", "(", "area", ")">>}

FormulaForms ==
    {Form(<<"sales">>, <<>>, <<>>, <<Calculated(f)>>, NoFilter, <<>>, 2, 0) :
        f \in Short \cup Long}
    \cup {Form(<<"sales">>, <<>>, <<By("region")>>, <<Calculated(f)>>, NoFilter,
               <<Desc("value")>>, 2, 0) : f \in Long \cup {<<"2">>}}
    \cup {Form(<<"shops", "areas">>, <<>>, <<>>, <<Calculated(f)>>, NoFilter, <<>>, 2, 0) :
        f \in {<<"count", "(", c, ")">> : c \in {"area", "shop", "boss"}}}
    \cup {Form(<<"sales">>, <<>>, <<>>, <<Calculated(f)>>, NoFilter, <<>>, 2, 0) :
        f \in {Blank, Sum \o <<"+">> \o Sum \o <<"+">> \o Sum \o <<"+">> \o Sum}}

\* Groups, sort keys and pages.
Dimensions == {<<>>, <<By("region")>>, <<Monthly("day")>>, <<Monthly("region")>>,
               <<By("amount"), Monthly("day")>>, <<By("missing")>>}
Metrics == {<<>>, <<Agg("sum", "amount")>>, <<Agg("count", "none"), Agg("avg", "amount")>>,
            <<Agg("count_distinct", "amount"), Agg("max", "day")>>, <<Agg("sum", "region")>>,
            <<Agg("sum", "amount"), Agg("sum", "amount")>>}
Keys == {<<>>, <<Asc("region")>>, <<Desc("sum")>>, <<Desc("count"), Asc("day")>>,
         <<Asc("amount"), Desc("count_distinct")>>}
GroupForms ==
    {Form(<<"sales">>, <<>>, d, m, NoFilter, s, p[1], p[2]) :
        d \in Dimensions, m \in Metrics, s \in Keys,
        p \in {<<2, 1>>, <<2, 4>>, <<4, 0>>}}

\* What the schema refuses or trims.
Plain1 == <<Agg("sum", "amount")>>
Lists(d, m, j, s) == Form(<<"sales", "shops">>, j, d, m, NoFilter, s, 2, 0)
BoundForms ==
    {Lists(d, Plain1, <<>>, <<>>) : d \in {[i \in 1..3 |-> By("region")], <<By("shop")>>}}
    \cup {Lists(<<>>, m, <<>>, <<>>) :
            m \in {<<Agg("sum", "amount"), Agg("max", "amount"), Agg("min", "amount")>>,
                   <<Called("none", "none", "amount")>>, <<Agg("sum", "none")>>}
                  \cup {<<Called(alias, "sum", "amount")>> :
                          alias \in MCTooLong \cup {NoName, " ", "note "}}}
    \cup {Lists(<<>>, Plain1, [i \in 1..3 |-> JoinOn("left", "sales", "region", "shops", "shop")],
                <<>>),
          Lists(<<>>, Plain1, <<>>, [i \in 1..3 |-> Asc("sum")])}
    \cup {Form(<<"sales">>, <<>>, <<>>, Plain1, f, <<>>, p[1], p[2]) :
            f \in {NoFilter, Only(NoName, "eq", <<3>>),
                   And([i \in 1..4 |-> Only("amount", "gt", <<i>>)])},
            p \in {<<0, 0>>, <<5, 0>>, <<2, 5>>, <<Junk, 0>>, <<2, Junk>>}}
    \cup {Form(<<"areas">>, <<>>, d, m, f, s, 2, 0) :
            d \in {<<>>, <<By("note ")>>}, s \in {<<>>, <<Asc("note ")>>},
            m \in {<<Agg("count", "boss")>>, <<Agg("max", "note ")>>},
            f \in {NoFilter, Only("note ", "eq", <<13>>)}}
    \cup {Form(<<>>, <<>>, <<>>, Plain1, NoFilter, <<>>, 2, 0)}

\* Filters: one condition, and groups of them in groups.
Conditions ==
    {Only("amount", op, <<v>>) : op \in {"eq", "neq", "gt", "lte"}, v \in {3, Junk}}
    \cup {Only("amount", "between", <<3, 4>>), Only("region", "contains", <<2>>),
          Only("region", "not_contains", <<12>>), Only("amount", "in", <<3, 5>>),
          Only("amount", "not_in", <<3, Null>>), Only("region", "is_null", <<>>),
          Only("region", "is_not_null", <<>>), Only("area", "eq", <<7>>),
          Only("amount", "in", <<>>), Only("amount", "contains", <<3>>), Only("day", "gt", <<11>>),
          Only("day", "between", <<11, Junk>>), Only("day", "contains", <<Junk>>),
          Only("region", "not_in", <<12, Junk>>)}
Pairs == {Only("amount", "eq", <<5>>), Only("amount", "between", <<3, 3>>),
          Only("region", "neq", <<29>>), NoFilter}
FilterForms ==
    {Form(<<"sales">>, <<>>, <<By("region")>>, <<Agg("sum", "amount")>>, f, <<>>, 4, 0) :
        f \in Conditions \cup {And(<<c>>) : c \in Conditions}
              \cup {g \in {And(<<a, b>>) : a, b \in Pairs} \cup {Or(<<a, b>>) : a, b \in Pairs}
                          \cup {And(<<Or(<<a, b>>), c>>) : a, b, c \in Pairs}
                          \cup {Or(<<c, And(<<a, b>>)>>) : a, b, c \in Pairs} : TRUE}}
    \cup {Form(<<"areas">>, <<>>, <<By("boss")>>, <<Agg("count", "none")>>, f, <<>>, 4, 0) :
        f \in {Only("boss", op, <<v>>) :
                  op \in {"contains", "not_contains"}, v \in {9, 49, 45, Null}}}

\* Joins, the right ones and the wrong ones.
ToShops(t) == JoinOn(t, "sales", "region", "shops", "shop")
ToAreas(t) == JoinOn(t, "shops", "area", "areas", "area")
JoinLists ==
    {<<>>} \cup {<<ToShops(t)>> : t \in {"inner", "left"}}
    \cup {<<ToShops(t), ToAreas(u)>> : t, u \in {"inner", "left"}}
    \cup {<<ToAreas("inner"), ToShops("left")>>, <<ToShops("left"), ToShops("inner")>>,
          <<JoinOn("left", "shops", "shop", "sales", "region")>>,
          <<JoinOn("left", "sales", "day", "areas", "boss")>>,
          <<JoinOn("left", "shops", "size", "shops", "target")>>,
          <<JoinOn("left", "shops", "area", "shops", "area")>>,
          <<JoinOn("inner", "sales", "missing", "shops", "shop")>>}
JoinForms ==
    {Form(ds, j, d, p[1], p[2], <<>>, 3, 0) :
        ds \in {<<"sales", "shops">>, <<"sales", "shops", "areas">>},
        j \in JoinLists,
        d \in {<<By("shop")>>, <<By("boss")>>, <<By("area")>>, <<By("region")>>},
        p \in {<<<<Agg("count", "none"), Agg("sum", "amount")>>, NoFilter>>,
               <<<<Agg("sum", "target")>>, Only("target", "lt", <<4>>)>>}}
    \cup {Form(<<"sales", "areas">>, <<JoinOn("left", "sales", c, "areas", "boss")>>,
               <<By("boss")>>, <<Agg("sum", "amount")>>, NoFilter, <<>>, 3, 0) :
            c \in {"region", "day"}}

\* The dataset workspace.
Request(call, dataset) == [call |-> call, datasets |-> <<dataset>>]
Explored(conditions, conjunction, t, columns, sort, p) ==
    Request("rows", "sales") @@
        [conditions |-> conditions, conjunction |-> conjunction, term |-> t[1], within |-> t[2],
         columns |-> columns, sort |-> sort, page |-> p[1], pageSize |-> p[2]]
Two == <<Cond("amount", "between", <<3, 4>>), Cond("region", "neq", <<29>>)>>
Turned == {<<1, 1>>, <<1, 3>>, <<2, 2>>, <<3, 2>>}
ExplorerForms ==
    {Explored(conditions, conjunction, t, {}, sort, p) :
        conditions \in {<<>>, Two, <<Cond("none", "eq", <<>>), Cond("amount", "lte", <<3>>)>>,
                        <<Cond("day", "gte", <<Junk>>)>>, <<Cond("shop", "eq", <<1>>)>>},
        conjunction \in {"AND", "OR"},
        t \in {<<Null, {}>>, <<1, {}>>, <<2, {"region"}>>, <<9, {"region"}>>, <<1, {"shop"}>>},
        sort \in {<<>>, <<Desc("region")>>}, p \in Turned}
    \cup {Explored(conditions, "OR", t, columns, sort, p) :
        conditions \in {<<>>, Two}, t \in {<<Null, {}>>, <<1, {}>>},
        columns \in {{}, {"region", "shop"}, {"shop"}},
        sort \in {<<>>, <<Asc("amount")>>, <<Desc("region")>>, <<Asc("shop")>>}, p \in Turned}
GroupingForms ==
    {Request("group", "sales") @@
        [groupBy |-> g, aggregation |-> a, metric |-> m, topN |-> n] :
        g \in {"region", "day", "amount", "shop"}, a \in {"sum", "avg", "count", "min", "max"},
        m \in {"none", "amount", "region", "shop"}, n \in {1, 2, 4}}
    \cup {Request("series", "sales") @@
        [dateColumn |-> c, granularity |-> g, aggregation |-> a, metric |-> m] :
        c \in {"day", "region", "shop"}, g \in {"none", "month"},
        a \in {"sum", "count", "max"}, m \in {"none", "amount", "region"}}
ColumnForms ==
    {Request("top", d) @@ [column |-> c, top |-> n] :
        d \in {"sales", "shops"}, c \in {"region", "amount", "area", "shop"}, n \in {1, 3}}
    \cup {Request("top", "areas") @@ [column |-> "note ", top |-> 2]}
    \cup {Request("correlation", d) @@ [columns |-> c] :
        d \in {"sales", "shops", "areas"}, c \in {{}, {"size", "shop", "rent"}, {"size", "region"}}}
    \cup {Request("distribution", d) @@ [column |-> c, buckets |-> n] :
        d \in {"sales", "shops"}, c \in {"region", "amount", "target", "area"}, n \in {5, 6, 7}}
    \cup {Request("scatter", "shops") @@ [x |-> x, y |-> y, sample |-> n] :
        x, y \in {"target", "size", "area", "amount"}, n \in {1, 3, 6}}
    \cup {Request(call, d) @@ [column |-> c] :
        call \in {"statistics", "outliers"}, d \in {"sales", "shops"},
        c \in {"region", "amount", "day", "target", "size"}}
    \cup {Request(call, d) :
        call \in {"overview", "quality", "insights", "missing", "fences", "business", "summary"},
        d \in {"sales", "shops", "areas"}}

MCForms == ExplorerForms \cup GroupingForms \cup ColumnForms
  \cup FormulaForms \cup GroupForms \cup FilterForms \cup JoinForms \cup BoundForms
=============================================================================
