---------------------------- MODULE BacktestEngine ----------------------------
(***************************************************************************)
(* One run of the backtest engine (backtestEngine.ts): the bars of a       *)
(* market are taken one by one; a signal raised at the close of a bar is   *)
(* filled at the open of the next one; long only, whole shares, no         *)
(* leverage.  The strategy is left open: any signal may follow any bar     *)
(* (Backtest closes it with the strategies of the platform).               *)
(*                                                                         *)
(* Amounts are integers, in units of the smallest price step (roundPrice:  *)
(* 0.000001); roundMoney rounds to a Cent, Cent of those units.  Rates are *)
(* fractions of Whole.  The doubles of the code are taken to be exact.     *)
(***************************************************************************)
EXTENDS Integers, Sequences

CONSTANTS
    Quotes,    \* the bars a market may have: their open and close
    Configs,   \* the requests: initialCapital, commission and slippage
    Whole,     \* the rate that is 100 per cent
    Cent,      \* what roundMoney rounds to
    MaxBars    \* bound: the length of the market

\* backtest.validator.ts: rates of at most 5 per cent (less than one half is all
\* that matters here); validateMarketData: positive prices.
ASSUME QuotesAssumption == Quotes \subseteq [open : Nat \ {0}, close : Nat \ {0}]
ASSUME UnitsAssumption  == Whole \in Nat \ {0} /\ Cent \in Nat \ {0} /\ MaxBars \in Nat
ASSUME ConfigsAssumption ==
    /\ Configs \subseteq [initialCapital : Nat \ {0}, commission : Nat, slippage : Nat]
    /\ \A c \in Configs : 2 * c.commission < Whole /\ 2 * c.slippage < Whole

VARIABLES
    config,     \* the request of this run
    bars,       \* history: the bars so far, each with the signal at its close
    cash, position,
    basis,      \* what the position has cost: avgCost times position
    pending,    \* the signal to be filled at the next open
    trades,     \* the executed orders
    hold,       \* the benchmark: what it bought at the first open
    realised,   \* history: the sum of the pnl of the sales,
    sales       \* and their number

account == <<cash, position, basis, trades, realised, sales>>
vars == <<config, bars, account, pending, hold>>

Signals == {"BUY", "SELL", "HOLD"}

-----------------------------------------------------------------------------
(* utils/money.ts                                                            *)

\* Math.round(x / y): half up.
RoundDiv(x, y) == (2 * x + y) \div (2 * y)

\* An amount of x / y units, rounded to cents.
RoundMoney(x, y) == Cent * RoundDiv(x, Cent * y)

\* roundPrice(open * (1 +- slippage))
FillPrice(open, rate) == RoundDiv(open * rate, Whole)

Commission(value) == RoundMoney(value * config.commission, Whole)

\* Price and commission of one share, times Whole.
Gross(price) == price * (Whole + config.commission)

\* wholeShares(cash / (executionPrice * (1 + commissionRate))), which is 0 on a
\* division by zero.
MaxQuantity(money, price) == IF price = 0 THEN 0 ELSE (money * Whole) \div Gross(price)

Cost(price, quantity) == price * quantity + Commission(price * quantity)

\* Mutant: no guard against the rounding of the commission.
Sized_Unguarded(price) == MaxQuantity(cash, price)

\* One share less when rounding the commission has made the order too dear.
Sized(price) ==
    LET max == MaxQuantity(cash, price)
    IN  IF max = 0 \/ Cost(price, max) <= cash THEN max ELSE max - 1

-----------------------------------------------------------------------------
(* runBacktest                                                               *)

Init ==
    /\ config \in Configs
    /\ bars = <<>>
    /\ cash = config.initialCapital
    /\ position = 0
    /\ basis = 0
    /\ pending = "HOLD"
    /\ trades = {}
    /\ hold = [quantity |-> 0, entry |-> 0]
    /\ realised = 0
    /\ sales = 0

\* The fill happens at the bar that is being processed.
Now == Len(bars) + 1

\* pnl: null in the code for a BUY.
Order(side, quantity, price, pnl) ==
    trades' = trades \cup {[bar |-> Now, side |-> side, quantity |-> quantity, price |-> price,
                            commission |-> Commission(price * quantity), pnl |-> pnl]}

ExecuteBuy(open) ==
    LET price    == FillPrice(open, Whole + config.slippage)
        quantity == Sized(price)
    IN  IF quantity = 0
        THEN UNCHANGED account
        ELSE /\ cash' = cash - Cost(price, quantity)
             /\ position' = quantity
             /\ basis' = Cost(price, quantity)
             /\ Order("BUY", quantity, price, 0)
             /\ UNCHANGED <<realised, sales>>

\* All of the position is sold; its profit is what comes in, less the
\* commission and what the position has cost.
Sell(price, proceeds, pnl) ==
    /\ cash' = cash + proceeds
    /\ position' = 0
    /\ basis' = 0
    /\ Order("SELL", position, price, pnl)
    /\ realised' = realised + pnl
    /\ sales' = sales + 1

\* Mutant: the profit forgets the commission of the sale.
ExecuteSell_Free(open) ==
    LET price    == FillPrice(open, Whole - config.slippage)
        value    == price * position
    IN  Sell(price, value - Commission(value), RoundMoney(value - basis, 1))

ExecuteSell(open) ==
    LET price    == FillPrice(open, Whole - config.slippage)
        value    == price * position
        proceeds == value - Commission(value)
    IN  Sell(price, proceeds, RoundMoney(proceeds - basis, 1))

\* The signal of the last close meets this open, once; a BUY with a position
\* and a SELL without one are dropped.
Fill(signal, open) ==
    IF signal = "BUY" /\ position = 0 /\ cash > 0 THEN ExecuteBuy(open)
    ELSE IF signal = "SELL" /\ position > 0 THEN ExecuteSell(open)
    ELSE UNCHANGED account

\* computeBuyAndHold invests all of the capital at the first open.  Its entry
\* price is not rounded; entry is Whole times that price.
Hold(open) ==
    IF bars # <<>> THEN UNCHANGED hold
    ELSE LET entry == open * (Whole + config.slippage)
         IN  hold' = [entry |-> entry,
                      quantity |-> (config.initialCapital * Whole * Whole) \div Gross(entry)]

\* Mutant: the signal of a close is filled at the open of its own bar.
Bar_SameBar(quote, signal) ==
    /\ Len(bars) < MaxBars
    /\ Fill(signal, quote.open)
    /\ Hold(quote.open)
    /\ bars' = Append(bars, [quote |-> quote, signal |-> signal])
    /\ pending' = signal
    /\ UNCHANGED config

\* One round of the loop.
Bar(quote, signal) ==
    /\ Len(bars) < MaxBars
    /\ Fill(pending, quote.open)
    /\ Hold(quote.open)
    /\ bars' = Append(bars, [quote |-> quote, signal |-> signal])
    /\ pending' = signal
    /\ UNCHANGED config

Next == \E quote \in Quotes, signal \in Signals : Bar(quote, signal)

Spec == Init /\ [][Next]_vars

-----------------------------------------------------------------------------
(* Properties                                                                *)

Trades == [bar : Nat, side : {"BUY", "SELL"}, quantity : Nat, price : Nat,
           commission : Nat, pnl : Int]

TypeOK ==
    /\ config \in Configs
    /\ bars \in Seq([quote : Quotes, signal : Signals])
    /\ cash \in Int
    /\ position \in Nat
    /\ basis \in Nat
    /\ pending \in Signals
    /\ trades \subseteq Trades
    /\ hold \in [quantity : Nat, entry : Nat]
    /\ realised \in Int
    /\ sales \in Nat

\* "never lets cash go negative" (tests/backtestEngine.test.ts:78, and the guard
\* of executeBuy, backtestEngine.ts:147): true as long as every order was filled
\* at half a cent or more a share, commission included.
NeverOverdrawn ==
    cash >= 0 \/ \E t \in trades : 2 * Gross(t.price) < Whole * Cent

\* No rows the engine returns are refused by the CHECKs of backtest_trades and
\* backtest_equity (schema.sql:240-316), which would lose the whole run:
\* quantities and prices are positive, commissions are not negative, and the
\* cash of strategy and benchmark, rounded to cents, never goes below zero, nor
\* by less than a cent where the guard of executeBuy is to prevent it.
RowsFitSchema ==
    /\ \A t \in trades : t.quantity > 0 /\ t.price > 0 /\ t.commission >= 0
    /\ basis >= position
    /\ RoundMoney(cash, 1) >= 0
    /\ hold.quantity * Gross(hold.entry) <= config.initialCapital * Whole * Whole
    /\ NeverOverdrawn

\* No look-ahead (backtestEngine.ts:47-53): an order is filled at the open of the
\* bar after the one whose close raised its signal, at that open with slippage.
FilledAtNextOpen ==
    \A t \in trades :
        /\ t.bar \in 2..Len(bars)
        /\ bars[t.bar - 1].signal = t.side
        /\ t.price = FillPrice(bars[t.bar].quote.open,
                               IF t.side = "BUY" THEN Whole + config.slippage
                                                 ELSE Whole - config.slippage)

\* The realised profits and losses account for every unit of cash, and of cost
\* in the open position, up to half a cent of rounding for each sale: the trade
\* list and the total return of computeMetrics tell the same story.
PnlAddsUp ==
    LET gap == cash + basis - config.initialCapital - realised
    IN  2 * gap <= Cent * sales /\ -(Cent * sales) <= 2 * gap
=============================================================================
