------------------------------- MODULE Backtest -------------------------------
(***************************************************************************)
(* The engine driven by the strategies of the platform: BacktestEngine     *)
(* closed with Strategies.  What the strategies compute incrementally is   *)
(* compared with the definitions of indicators.ts, which read the closes   *)
(* up to an index afresh.                                                  *)
(***************************************************************************)
EXTENDS BacktestEngine, Strategies

VARIABLES
    strategy,  \* the strategy of this run
    closes,    \* the closes it has been fed
    state      \* and what it keeps besides

allVars == <<vars, strategy, closes, state>>

BacktestInit ==
    /\ Init
    /\ strategy \in StrategyIds
    /\ closes = <<>>
    /\ state = CreateState(strategy)

\* A bar is filled, fed to the strategy, and asked for its signal.
BacktestNext ==
    \E quote \in Quotes :
        LET cs == Append(closes, quote.close)
            s  == OnBar(strategy, state, cs)
        IN  /\ Bar(quote, GenerateSignal(strategy, s, cs))
            /\ closes' = cs
            /\ state' = Remember(strategy, s, cs)
            /\ UNCHANGED strategy

BacktestSpec == BacktestInit /\ [][BacktestNext]_allVars

-----------------------------------------------------------------------------
(* indicators.ts, at the i-th close                                          *)

\* The loop: n values from an index on, added up.
SumOf(f, from, n) ==
    LET Added[k \in 0..n] == IF k = 0 THEN 0 ELSE Added[k - 1] + f[from + k - 1]
    IN  Added[n]

\* w times smaAt
SmaSum(w, i) == SumOf(closes, i - w + 1, w)

\* BandPeriod cubed times the square of populationStdDevAt: the squares of the
\* distances to the mean.
Deviation(i) ==
    LET Distance(k) == BandPeriod * closes[k] - SmaSum(BandPeriod, i)
    IN  SumOf([k \in DOMAIN closes |-> Distance(k) * Distance(k)],
              i - BandPeriod + 1, BandPeriod)

Power(base, n) ==
    LET Multiplied[k \in 0..n] == IF k = 0 THEN 1 ELSE base * Multiplied[k - 1]
    IN  Multiplied[n]

\* rsiAt, with Wilder's averages written out: each delta after the first
\* period weighs (1 - 1/period) for every later one.
Weight(k, i) ==
    IF k <= RsiPeriod + 1 THEN Power(RsiPeriod - 1, i - RsiPeriod - 1)
    ELSE Power(RsiPeriod - 1, i - k) * Power(RsiPeriod, k - RsiPeriod - 1)

RsiAt(i) ==
    Index(SumOf([k \in 2..i |-> Weight(k, i) * Gain(closes, k)], 2, i - 1),
          SumOf([k \in 2..i |-> Weight(k, i) * Loss(closes, k)], 2, i - 1))

-----------------------------------------------------------------------------
(* Properties                                                                *)

Raised(id, i, signal) == strategy = id /\ bars[i].signal = signal

Beyond(id) == (Warmup(id) + 1)..Len(bars)

\* smaCrossover.ts:31-34: BUY exactly when the short average of the closes
\* crosses above the long one, SELL when it crosses below, although the sums
\* are kept by adding and taking out one close at a time.
SmaCrosses ==
    strategy = "sma_crossover" =>
        \A i \in Beyond("sma_crossover") :
            LET lead(j) == Lead(SmaSum(ShortWindow, j), SmaSum(LongWindow, j))
            IN  /\ Raised("sma_crossover", i, "BUY") <=> lead(i) > 0 /\ lead(i - 1) <= 0
                /\ Raised("sma_crossover", i, "SELL") <=> lead(i) < 0 /\ lead(i - 1) >= 0

\* rsi.ts:41-44: BUY exactly when Wilder's RSI of all the closes crosses below
\* the oversold level, SELL when it crosses above the overbought level.
RsiCrosses ==
    strategy = "rsi" =>
        \A i \in Beyond("rsi") :
            /\ Raised("rsi", i, "BUY") <=>
                   Below(RsiAt(i), Oversold) /\ ~Below(RsiAt(i - 1), Oversold)
            /\ Raised("rsi", i, "SELL") <=>
                   Above(RsiAt(i), Overbought) /\ ~Above(RsiAt(i - 1), Overbought)

\* bollingerBands.ts:31-34, with the bands of bollingerAt: BUY exactly when the
\* close is below the lower band of its window and the close before was not, SELL
\* when it is above the middle of it and the close before was not.
BandCrosses ==
    strategy = "bollinger_bands" =>
        \A i \in Beyond("bollinger_bands") :
            LET sum == SmaSum(BandPeriod, i)
                below(j) == LET depth == sum - BandPeriod * closes[j]
                            IN  /\ depth > 0
                                /\ BandPeriod * depth * depth
                                       > StdDev * StdDev * Deviation(i)
            IN  /\ Raised("bollinger_bands", i, "BUY") <=> below(i) /\ ~below(i - 1)
                /\ Raised("bollinger_bands", i, "SELL") <=>
                       /\ AboveMiddle(closes[i], sum)
                       /\ ~AboveMiddle(closes[i - 1], sum)

\* types.ts:64: no strategy raises a signal before its warm-up is over, so the
\* check on the number of bars in createBacktest (backtesting.service.ts:239)
\* counts all the bars without a signal.
QuietWarmup ==
    \A i \in 1..Len(bars) : i <= Warmup(strategy) => bars[i].signal = "HOLD"

\* The signals of every run are the crossings that indicators.ts defines, and
\* none comes before them.
SignalsAreCrossings == SmaCrosses /\ RsiCrosses /\ BandCrosses /\ QuietWarmup
=============================================================================
