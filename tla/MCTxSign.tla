------------------------------ MODULE MCTxSign ------------------------------
(* Model-checking instance of TxSign: three storemen with MPCDegree 1    *)
(* over Z_5, so a run needs all three; at most one follower is faulty.     *)
EXTENDS TxSign

CONSTANTS n1, n2, n3

MCNode == {n1, n2, n3}
MCX == (n1 :> 1) @@ (n2 :> 2) @@ (n3 :> 3)
MCKeyPoly == (n1 :> <<2, 1>>) @@ (n2 :> <<3, 4>>) @@ (n3 :> <<1, 2>>)
MCAPoly == (n1 :> <<1, 2>>) @@ (n2 :> <<2, 1>>) @@ (n3 :> <<3, 3>>)
MCRPoly == (n1 :> <<2, 3>>) @@ (n2 :> <<1, 1>>) @@ (n3 :> <<1, 4>>)
MCCPoly == (n1 :> <<0, 1, 2>>) @@ (n2 :> <<0, 3, 1>>) @@ (n3 :> <<0, 2, 2>>)

\* x coordinates of the points k*G: a fixed permutation of the non-zero
\* scalars, 0 for the point at infinity.
MCPX == [k \in 0 .. 4 |-> CASE k = 0 -> 0 [] k = 1 -> 3 [] k = 2 -> 1 [] k = 3 -> 4 [] k = 4 -> 2]
=============================================================================
