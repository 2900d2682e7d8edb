------------------------------ MODULE MCSignRun ------------------------------
(* Model-checking instance of SignRun: three peers with threshold 2 over   *)
(* Z_5, the key polynomials of MCGpkRun, two nonce polynomials per peer.   *)
EXTENDS SignRun

CONSTANTS n1, n2, n3

MCNode == {n1, n2, n3}
MCX == (n1 :> 1) @@ (n2 :> 2) @@ (n3 :> 3)
MCKeyPoly == (n1 :> <<2, 1>>) @@ (n2 :> <<3, 4>>) @@ (n3 :> <<1, 2>>)
MCNoncePolys == {<<1, 1>>, <<2, 3>>}

\* The two hashes of m as tables over R in Z_5.  They are independent
\* functions; over a field this small they agree on some inputs (R = 3
\* and R = 4 here) and differ on the others.
MCHashS == [r \in 0 .. 4 |-> CASE r = 0 -> 1 [] r = 1 -> 3 [] r = 2 -> 0 [] r = 3 -> 2 [] r = 4 -> 4]
MCHashV == [r \in 0 .. 4 |-> CASE r = 0 -> 4 [] r = 1 -> 0 [] r = 2 -> 3 [] r = 3 -> 2 [] r = 4 -> 4]
=============================================================================
