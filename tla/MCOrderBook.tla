----------------------------- MODULE MCOrderBook -----------------------------
(* Levels for TLC: good, worthless and broken ones. *)
EXTENDS OrderBook

MCItems ==
    { [price |-> p, size |-> 1] : p \in {1, 2, NaN, Infinity} }
    \cup { [price |-> 1, size |-> 2] }
    \cup { [price |-> p, size |-> 0] : p \in {1, Malformed} }
    \cup { [price |-> p, size |-> NaN] : p \in {0, 1} }
=============================================================================
