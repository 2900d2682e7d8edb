----------------------------- MODULE MCRSkJudge -----------------------------
(* Model-checking instance of RSkJudge: three nodes, leader 0, node 1 may  *)
(* cheat on its shares, node 2 may file false accusations.                 *)
EXTENDS RSkJudge

\* Degree-1 nonce polynomials and x values 1, 2, 3.
MCPoly == [n \in 0 .. 2 |-> IF n = 0 THEN <<2, 1>> ELSE IF n = 1 THEN <<3, 4>> ELSE <<1, 2>>]
MCX == [n \in 0 .. 2 |-> n + 1]
=============================================================================
