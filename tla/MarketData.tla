------------------------------ MODULE MarketData ------------------------------
(***************************************************************************)
(* From the columns and rows of a dataset to the bars of a backtest:       *)
(* detectMarketColumns and validateMarketData of marketColumns.ts, and     *)
(* load and range of marketDataService.                                    *)
(*                                                                         *)
(* Times are integers, Day units to a day, and a day is written by its     *)
(* number.  A cell is an integer, Null, or Junk: text that is no value of  *)
(* the kind its column is read as.  Names are in lower case; what makes    *)
(* them different to the code is that some have spaces around them, and    *)
(* some a quotation mark in them.                                          *)
(***************************************************************************)
EXTENDS Integers, FiniteSets, Sequences, SequencesExt

CONSTANTS Null, Junk, Day, MaxBars,
          Trimmed,      \* what is left of a name that has spaces around it
          Quoted        \* names with a quotation mark in them

Prices == <<"open", "high", "low", "close">>
Needed == {"date"} \cup Range(Prices)

\* Some of the names by which a field is known
Aliases ==
    [date |-> {"date", "timestamp"}, open |-> {"open", "o"}, high |-> {"high", "h"},
     low |-> {"low", "l"}, close |-> {"close", "adj_close"},
     volume |-> {"volume", "qty"}, symbol |-> {"ticker"}]

IsDateType(type)    == type \in {"DATE", "TIMESTAMP"}
IsNumericType(type) == type \in {"DOUBLE", "BIGINT"}

---------------------------------------------------------------------------
\* The first column that passes a test, by name
FirstColumn(columns, Test(_)) ==
    LET i == SelectInSeq(columns, Test)
    IN  IF i = 0 THEN "none" ELSE columns[i].name

FindByAlias(columns, field, used) ==
    FirstColumn(columns, LAMBDA c : c.name \in Aliases[field] /\ c.name \notin used)

FindDate(columns) ==
    LET byAlias == FindByAlias(columns, "date", {})
    IN  IF byAlias # "none" THEN byAlias
        ELSE FirstColumn(columns, LAMBDA c : IsDateType(c.type))

PickByAliasOrNumeric(columns, field, used) ==
    LET byAlias == FindByAlias(columns, field, used)
    IN  IF byAlias # "none" THEN byAlias
        ELSE FirstColumn(columns, LAMBDA c : IsNumericType(c.type) /\ c.name \notin used)

\* Columns are looked for by their trimmed names.
Normalized(columns) ==
    [i \in DOMAIN columns |->
        [columns[i] EXCEPT !.name = IF @ \in DOMAIN Trimmed THEN Trimmed[@] ELSE @]]

\* Fields are given columns one after the other; volume and symbol may share theirs.
DetectNormalized(columns) ==
    LET Pick(field, used) == PickByAliasOrNumeric(columns, field, used)
        date  == FindDate(columns)
        open  == Pick("open", {date})
        high  == Pick("high", {date, open})
        low   == Pick("low", {date, open, high})
        close == Pick("close", {date, open, high, low})
    IN  [date |-> date, open |-> open, high |-> high, low |-> low, close |-> close,
         volume |-> FindByAlias(columns, "volume", {}),
         symbol |-> FindByAlias(columns, "symbol", {})]

DetectMarketColumns(columns) == DetectNormalized(Normalized(columns))

Compatible(map) ==
    LET names == {map[field] : field \in Needed}
    IN  "none" \notin names /\ Cardinality(names) = Cardinality(Needed)

---------------------------------------------------------------------------
\* The statement can be bound: the file has the columns that it names, by the names
\* it calls them, and that of the close, written between quotation marks as it is,
\* has none of its own.
Bound(map, columns) ==
    /\ {map[field] : field \in DOMAIN map} \subseteq {"none"} \cup {c.name : c \in Range(columns)}
    /\ map.close \notin Quoted

\* A row as the statement reads it: TRY_CAST of what are not numbers gives null.
Number(cell) == IF cell = Junk THEN Null ELSE cell

Source(map, row) ==
    [ts     |-> row[map.date],
     open   |-> Number(row[map.open]), high  |-> Number(row[map.high]),
     low    |-> Number(row[map.low]),  close |-> Number(row[map.close]),
     volume |-> IF map.volume = "none" THEN Null ELSE Number(row[map.volume])]

\* The cast of the date is not a TRY_CAST.
Castable(map, table) == \A i \in DOMAIN table : table[i][map.date] # Junk

\* buildDateBounds: a bound is the midnight at which its day begins.
Inside(ts, from, to) ==
    /\ from # Null => ts >= from * Day
    /\ to # Null => ts <= to * Day

Selected(map, table, from, to) ==
    {i \in DOMAIN table :
        LET row == Source(map, table[i])
        IN  row.ts # Null /\ row.close # Null /\ Inside(row.ts, from, to)}

\* ORDER BY __ts ASC; rows of one time come in any order, and are refused.
Loaded(map, table, from, to) ==
    LET found == Selected(map, table, from, to)
        Earlier(i, j) == \/ table[i][map.date] < table[j][map.date]
                         \/ table[i][map.date] = table[j][map.date] /\ i < j
        At(n) == CHOOSE i \in found : Cardinality({j \in found : Earlier(j, i)}) = n - 1
    IN  [n \in 1..Cardinality(found) |-> Source(map, table[At(n)])]

DatasetRange(map, table) ==
    LET times == {table[i][map.date] : i \in Selected(map, table, Null, Null)}
    IN  [start |-> IF times = {} THEN Null ELSE Min(times),
         end   |-> IF times = {} THEN Null ELSE Max(times)]

---------------------------------------------------------------------------
Positive(bar) == \A field \in Range(Prices) : bar[field] # Null /\ bar[field] > 0

Consistent(bar) ==
    /\ bar.high >= bar.open /\ bar.high >= bar.close
    /\ bar.low <= bar.open /\ bar.low <= bar.close

ValidBar(bar) ==
    /\ Positive(bar) /\ Consistent(bar)
    /\ bar.volume # Null => bar.volume >= 0

Follows(bars, n) == n > 1 => bars[n - 1].ts < bars[n].ts

\* No issues are found.
ValidateMarketData_Unordered(bars) == \A n \in DOMAIN bars : ValidBar(bars[n])
ValidateMarketData(bars) ==
    \A n \in DOMAIN bars : ValidBar(bars[n]) /\ Follows(bars, n)
=============================================================================
