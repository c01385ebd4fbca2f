------------------------------- MODULE MCWizard -------------------------------
(***************************************************************************)
(* Files of a few rows, with the columns that make a difference: daily and *)
(* intraday bars, a column for the open that has another name, fields that *)
(* take the columns of others, flawed rows, a file of texts, and names of  *)
(* columns that have spaces around them or a quotation mark in them.       *)
(***************************************************************************)
EXTENDS Wizard

Column(name, type) == [name |-> name, type |-> type]
Double(names) == [i \in DOMAIN names |-> Column(names[i], "DOUBLE")]

MCColumns ==
    [daily   |-> <<Column("date", "DATE")>> \o Double(<<"close", "open", "high", "low">>),
     ticks   |-> <<Column("low", "DOUBLE"), Column("time", "TIMESTAMP")>>
                   \o Double(<<"price", "h", "close", "volume">>),
     shifted |-> <<Column("timestamp", "DATE")>> \o Double(<<"high", "low", "close", "qty">>),
     flawed  |-> <<Column("date", "VARCHAR")>> \o Double(<<"o", "h", "l", "adj_close">>),
     notes   |-> <<Column("ticker", "VARCHAR"), Column("date", "DATE")>>,
     spaced  |-> <<Column("date", "DATE")>> \o Double(<<" open", "high", "low", "close">>),
     quoted  |-> <<Column("date", "DATE")>> \o Double(<<"open", "high", "low", "\"px\"">>),
     both    |-> <<Column("date", "DATE")>> \o Double(<<" low", "open", "high", "low", "close">>)]

MCTrimmed == (" open" :> "open") @@ (" low" :> "low")
MCQuoted == {"\"px\""}

Daily(date, o, h, l, c) == [date |-> date, open |-> o, high |-> h, low |-> l, close |-> c]
Tick(time, p, h, l, c, v) ==
    [time |-> time, price |-> p, h |-> h, low |-> l, close |-> c, volume |-> v]
Shifted(t, h, l, c, q) == [timestamp |-> t, high |-> h, low |-> l, close |-> c, qty |-> q]
Flawed(date, o, h, l, c) == [date |-> date, o |-> o, h |-> h, l |-> l, adj_close |-> c]

MCTables ==
    [daily   |-> <<Daily(20, 2, 3, 1, 3), Daily(10, 1, 2, 1, 2), Daily(30, 3, 3, 2, Junk),
                   Daily(40, 3, 4, 3, 3), Daily(50, 4, 4, 1, 1)>>,
     ticks   |-> <<Tick(15, 2, 2, 2, 2, 5), Tick(19, 2, 3, 1, 1, Null), Tick(20, 1, 2, 1, 2, 0),
                   Tick(25, 2, 4, 2, 4, 3), Tick(29, 4, 4, 3, 3, 3), Tick(Null, 9, 9, 9, 9, 9)>>,
     shifted |-> <<Shifted(10, 2, 3, 1, 2), Shifted(20, 2, 4, 2, 3), Shifted(30, 3, 3, 2, 2),
                   Shifted(40, 3, 1, 2, 2)>>,
     flawed  |-> <<Flawed(10, 1, 2, 1, 2), Flawed(10, 2, 2, 1, 1), Flawed(20, 2, 3, 2, 2),
                   Flawed(20, 2, 3, 1, 3), Flawed(30, 2, 3, 0, 1), Flawed(40, Null, 3, 2, 2)>>,
     notes   |-> <<[ticker |-> Junk, date |-> 10]>>,
     spaced  |-> <<[date |-> 20, high |-> 3, low |-> 1, close |-> 2] @@ (" open" :> 2)>>,
     quoted  |-> <<[date |-> 20, open |-> 2, high |-> 3, low |-> 1] @@ ("\"px\"" :> 2)>>,
     both    |-> [n \in 1..4 |-> Daily(10 * n, 2, 3, 1, 2) @@ (" low" :> n)]]

MCDatasets == DOMAIN MCTables
MCLists == {{"daily", "ticks"}, {"shifted", "flawed"}, {"notes", "spaced"}, {"quoted", "both"}}

MCDefaults ==
    [sma_crossover   |-> [shortWindow |-> 2, longWindow |-> 3],
     rsi             |-> [period |-> 2, oversold |-> 300, overbought |-> 700],
     bollinger_bands |-> [period |-> 2, stdDev |-> 20]]
MCValues ==
    [longWindow |-> {2}, period |-> {1}, stdDev |-> {0}]
=============================================================================
