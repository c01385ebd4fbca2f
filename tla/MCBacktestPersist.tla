--------------------------- MODULE MCBacktestPersist ---------------------------
(***************************************************************************)
(* Instances of BacktestPersist for TLC.                                   *)
(***************************************************************************)
EXTENDS BacktestPersist
=============================================================================
