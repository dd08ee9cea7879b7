------------------------------- MODULE MCSizing -------------------------------
(* Decimals for TLC: prices of up to four places, in and out of lowest terms, *)
(* and sizes below, at and above the steps they lead to.  Numerators are kept *)
(* small enough for the 32 bits of TLC.                                       *)
EXTENDS Sizing

MCPrices == { <<p, 100>> : p \in {1, 4, 25, 50, 57, 98, 99} }
            \cup { <<1, 8>>, <<41, 200>>, <<13, 400>>, <<9, 10>>, <<1, 1>> }
MCSizes  == { <<s, 100>> : s \in {1, 3, 24, 25, 26, 49, 50, 99, 100, 101, 199, 1000, 2001} }
            \cup { <<1, 1000>>, <<1999, 200>>, <<65, 8>>, <<25, 2>>, <<8, 1>> }
=============================================================================
