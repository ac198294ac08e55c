--------------------------- MODULE MCSignalEngine ---------------------------
(* Instances of SignalEngine for TLC. *)
EXTENDS SignalEngine

Trade(p, q, side) == [price |-> p, qty |-> q, side |-> side]

MCTrades == {Trade(1, 1, "B"), Trade(2, 3, "S"), Trade(3, 1, "B"),
             Trade(4, 2, "U"), Trade(2, 0, "S")}
MCFewTrades == {Trade(1, 1, "B"), Trade(2, 1, "S")}
=============================================================================
