------------------------------ MODULE MpcMath ------------------------------
(***************************************************************************)
(* Scalar-field arithmetic used by the storeman MPC steps, over a small    *)
(* prime field Z_P that stands in for the secp256k1 scalar field.  Curve   *)
(* points are represented by their discrete logarithm with generator 1,    *)
(* so "s*G" is s itself and point addition is addition mod P.  Nothing    *)
(* the properties distinguish is lost: every relation the code checks     *)
(* between points is a linear relation between their logarithms.          *)
(***************************************************************************)
EXTENDS Integers, Sequences, FiniteSets

CONSTANT P          \* the prime order of the field (Secp256k1_N in the code)

ASSUME P \in Nat /\ P > 2

Field == 0 .. (P - 1)

\* Multiplicative inverse modulo P (big.Int.ModInverse).
ModInv(a) == CHOOSE b \in 1 .. (P - 1) : (a * b) % P = 1

\* Value of the polynomial with coefficient sequence c (c[1] is the constant
\* term) at x, reduced modulo P (schnorrmpc.EvaluatePoly).
RECURSIVE EvalPoly(_, _)
EvalPoly(c, x) ==
    IF c = << >> THEN 0
    ELSE (Head(c) + x * EvalPoly(Tail(c), x)) % P

\* Sum of the values of a function modulo P: how
\* RandomPolynomialValue.calculateResult folds the received shares.
RECURSIVE SumMod(_)
SumMod(f) ==
    IF DOMAIN f = {} THEN 0
    ELSE LET k == CHOOSE k \in DOMAIN f : TRUE
         IN  (f[k] + SumMod([j \in DOMAIN f \ {k} |-> f[j]])) % P

\* Product of the values of a function modulo P.
RECURSIVE ProdMod(_)
ProdMod(f) ==
    IF DOMAIN f = {} THEN 1
    ELSE LET k == CHOOSE k \in DOMAIN f : TRUE
         IN  (f[k] * ProdMod([j \in DOMAIN f \ {k} |-> f[j]])) % P

\* Lagrange coefficient of abscissa xi for interpolation at 0 over the
\* abscissae X: prod_{xj /= xi} xj / (xj - xi).
LagrangeCoef(xi, X) ==
    ProdMod([xj \in X \ {xi} |-> (xj * ModInv((xj - xi) % P)) % P])

\* Value at 0 of the polynomial through the points pts (a function from
\* distinct non-zero abscissae to ordinates): Lagrange reconstruction.
LagrangeAt0(pts) ==
    SumMod([x \in DOMAIN pts |-> (pts[x] * LagrangeCoef(x, DOMAIN pts)) % P])

=============================================================================
