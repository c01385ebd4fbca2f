------------------------------ MODULE Strategies ------------------------------
(***************************************************************************)
(* The strategies of the backtest registry (smaCrossover.ts, rsi.ts,       *)
(* bollingerBands.ts).  Each keeps rolling values that onBar brings up to  *)
(* date with one close, and compares them with the previous ones in        *)
(* generateSignal.                                                         *)
(*                                                                         *)
(* No division: an average is compared by its sum, a ratio by its terms,   *)
(* and a deviation by its square.  <<>> is the null of the code.           *)
(***************************************************************************)
EXTENDS Integers, Sequences

CONSTANTS
    ShortWindow, LongWindow,                  \* sma_crossover
    RsiPeriod, Oversold, Overbought,          \* rsi, levels in per cent
    BandPeriod, StdDev                        \* bollinger_bands

\* The validate functions of the three.
ASSUME ParametersAssumption ==
    /\ ShortWindow \in Nat /\ LongWindow \in Nat /\ 2 <= ShortWindow /\ ShortWindow < LongWindow
    /\ RsiPeriod \in Nat /\ RsiPeriod >= 2
    /\ Oversold \in 1..99 /\ Overbought \in 1..99 /\ Oversold < Overbought
    /\ BandPeriod \in Nat /\ BandPeriod >= 2
    /\ StdDev \in Nat \ {0}

StrategyIds == {"sma_crossover", "rsi", "bollinger_bands"}

Latest(closes) == closes[Len(closes)]

\* The close that falls out of a window of w as the latest one comes in.
Removed(closes, w) == IF Len(closes) > w THEN closes[Len(closes) - w] ELSE 0

-----------------------------------------------------------------------------
(* SMA crossover                                                             *)

SmaState == [shortSum |-> 0, longSum |-> 0, prev |-> <<>>]

SmaOnBar(s, closes) ==
    [s EXCEPT !.shortSum = @ + Latest(closes) - Removed(closes, ShortWindow),
              !.longSum = @ + Latest(closes) - Removed(closes, LongWindow)]

\* How far the short average is above the long one, times both windows.
Lead(short, long) == short * LongWindow - long * ShortWindow

SmaSignal(s, closes) ==
    LET lead == Lead(s.shortSum, s.longSum)
    IN  IF Len(closes) < LongWindow \/ s.prev = <<>> THEN "HOLD"
        ELSE IF lead > 0 /\ s.prev[1] <= 0 THEN "BUY"
        ELSE IF lead < 0 /\ s.prev[1] >= 0 THEN "SELL"
        ELSE "HOLD"

SmaRemember(s, closes) ==
    IF Len(closes) < LongWindow THEN s
    ELSE [s EXCEPT !.prev = <<Lead(s.shortSum, s.longSum)>>]

-----------------------------------------------------------------------------
(* RSI with Wilder's smoothing                                               *)

\* The averages are gain / scale and loss / scale.
RsiState == [gain |-> 0, loss |-> 0, scale |-> 1, rsi |-> <<>>, prev |-> <<>>]

Gain(closes, i) == IF closes[i] > closes[i - 1] THEN closes[i] - closes[i - 1] ELSE 0
Loss(closes, i) == IF closes[i] < closes[i - 1] THEN closes[i - 1] - closes[i] ELSE 0

Smooth(s, gain, loss) ==
    [s EXCEPT !.gain = @ * (RsiPeriod - 1) + gain * s.scale,
              !.loss = @ * (RsiPeriod - 1) + loss * s.scale,
              !.scale = @ * RsiPeriod]

RsiAverages(s, closes) ==
    LET n == Len(closes)
    IN  IF n = 1 THEN s
        ELSE IF n <= RsiPeriod + 1
        THEN [s EXCEPT !.gain = @ + Gain(closes, n),
                       !.loss = @ + Loss(closes, n),
                       !.scale = IF n = RsiPeriod + 1 THEN RsiPeriod ELSE @]
        ELSE Smooth(s, Gain(closes, n), Loss(closes, n))

\* The index as a fraction: <<100 * gain, gain + loss>>, 100 without a loss.
Index(gain, loss) == IF loss = 0 THEN <<100, 1>> ELSE <<100 * gain, gain + loss>>

RsiOnBar(s, closes) ==
    LET t == RsiAverages(s, closes)
    IN  IF Len(closes) >= RsiPeriod + 1 THEN [t EXCEPT !.rsi = Index(t.gain, t.loss)] ELSE t

Below(rsi, level) == rsi[1] < level * rsi[2]
Above(rsi, level) == rsi[1] > level * rsi[2]

RsiSignal(s, closes) ==
    IF s.rsi = <<>> \/ s.prev = <<>> THEN "HOLD"
    ELSE IF Below(s.rsi, Oversold) /\ ~Below(s.prev, Oversold) THEN "BUY"
    ELSE IF Above(s.rsi, Overbought) /\ ~Above(s.prev, Overbought) THEN "SELL"
    ELSE "HOLD"

RsiRemember(s, closes) == [s EXCEPT !.prev = s.rsi]

-----------------------------------------------------------------------------
(* Bollinger bands                                                           *)

BandState == [sum |-> 0, sumSq |-> 0, prevClose |-> <<>>]

\* Mutant: the square of the removed close stays in the sum of squares.
BandOnBar_StaleSquare(s, closes) ==
    [s EXCEPT !.sum = @ + Latest(closes) - Removed(closes, BandPeriod),
              !.sumSq = @ + Latest(closes) * Latest(closes)]

BandOnBar(s, closes) ==
    LET latest == Latest(closes)
        removed == Removed(closes, BandPeriod)
    IN  [s EXCEPT !.sum = @ + latest - removed,
                  !.sumSq = @ + latest * latest - removed * removed]

\* close < mean - StdDev * stddev, for a window with this sum and BandPeriod
\* squared times its variance.
BelowBand(close, sum, spread) ==
    LET depth == sum - BandPeriod * close
    IN  depth > 0 /\ depth * depth > StdDev * StdDev * spread

AboveMiddle(close, sum) == BandPeriod * close > sum

\* variance = max(sumSq / period - mean * mean, 0)
Spread(s) ==
    LET spread == BandPeriod * s.sumSq - s.sum * s.sum
    IN  IF spread > 0 THEN spread ELSE 0

BandSignal(s, closes) ==
    LET close == Latest(closes)
    IN  IF Len(closes) < BandPeriod \/ s.prevClose = <<>> THEN "HOLD"
        ELSE IF /\ BelowBand(close, s.sum, Spread(s))
                /\ ~BelowBand(s.prevClose[1], s.sum, Spread(s)) THEN "BUY"
        ELSE IF AboveMiddle(close, s.sum) /\ ~AboveMiddle(s.prevClose[1], s.sum) THEN "SELL"
        ELSE "HOLD"

BandRemember(s, closes) ==
    IF Len(closes) < BandPeriod THEN s ELSE [s EXCEPT !.prevClose = <<Latest(closes)>>]

-----------------------------------------------------------------------------
(* The Strategy interface                                                    *)

CreateState(id) ==
    CASE id = "sma_crossover"   -> SmaState
      [] id = "rsi"             -> RsiState
      [] id = "bollinger_bands" -> BandState

OnBar(id, s, closes) ==
    CASE id = "sma_crossover"   -> SmaOnBar(s, closes)
      [] id = "rsi"             -> RsiOnBar(s, closes)
      [] id = "bollinger_bands" -> BandOnBar(s, closes)

\* generateSignal: the signal, and what it leaves in the state.
GenerateSignal(id, s, closes) ==
    CASE id = "sma_crossover"   -> SmaSignal(s, closes)
      [] id = "rsi"             -> RsiSignal(s, closes)
      [] id = "bollinger_bands" -> BandSignal(s, closes)

Remember(id, s, closes) ==
    CASE id = "sma_crossover"   -> SmaRemember(s, closes)
      [] id = "rsi"             -> RsiRemember(s, closes)
      [] id = "bollinger_bands" -> BandRemember(s, closes)

\* The bars needed before a signal may be raised.
Warmup(id) ==
    CASE id = "sma_crossover"   -> LongWindow
      [] id = "rsi"             -> RsiPeriod + 1
      [] id = "bollinger_bands" -> BandPeriod
=============================================================================
