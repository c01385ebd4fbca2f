------------------------------ MODULE MCDataMart ------------------------------
(* DataMart with model values only; its configurations say how many. *)
EXTENDS DataMart, TLC

=============================================================================
