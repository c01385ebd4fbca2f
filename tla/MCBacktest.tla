------------------------------ MODULE MCBacktest ------------------------------
(***************************************************************************)
(* Instances of Backtest for TLC.  A cent is 10 units, so that prices of   *)
(* 1 to 4 units are below half a cent with their commission.               *)
(***************************************************************************)
EXTENDS Backtest

Quote(o, c) == [open |-> o, close |-> c]
SomeQuotes == {Quote(1, 3), Quote(4, 1), Quote(9, 2)}

Config(capital, commission, slippage) ==
    [initialCapital |-> capital, commission |-> commission, slippage |-> slippage]
SomeConfigs == {Config(70, 3, 0), Config(100, 5, 5), Config(45, 0, 2), Config(8, 3, 0)}
=============================================================================
