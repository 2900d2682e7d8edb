----------------------------- MODULE MCGpkRun -----------------------------
(* Model-checking instance of GpkRun: three storemen, threshold 2          *)
(* (Degree 1), the field Z_5, and fixed polynomials for the contributors.  *)
EXTENDS GpkRun

CONSTANTS n1, n2, n3

MCNode == {n1, n2, n3}

\* Secrets 2, 3, 1 (group secret 1); every evaluation at seeds 1..3 differs
\* from the secret, so a missing or doubled share changes the result.
MCPoly == [n \in MCNode |-> IF n = n1 THEN <<2, 1>>
                            ELSE IF n = n2 THEN <<3, 4>>
                            ELSE <<1, 2>>]

\* One draw of the leader's seed loop; every draw is a permutation of the
\* pool, and the properties do not depend on which peer gets which seed.
MCSeedDraws == {[n \in MCNode |-> IF n = n1 THEN 1 ELSE IF n = n2 THEN 2 ELSE 3]}
=============================================================================
