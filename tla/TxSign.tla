------------------------------- MODULE TxSign -------------------------------
(***************************************************************************)
(* Transaction signing in the schnorr/ copy of the engine                  *)
(* (schnorr/storemanmpc/tx_sign_mpc.go and its steps): an ECDSA signature  *)
(* computed by threshold shares.  After the JR/JZ step every participant   *)
(* holds shares a_i, r_i of two random secrets a, r (degree Degree), a     *)
(* share c_i of zero (degree 2*Degree) and its key share x_i; the AGPoint  *)
(* step publishes a*G.  Then                                               *)
(*   ARLag   (TXSign_Lagrange_Step): every participant broadcasts a_i*r_i  *)
(*           and interpolates a*r;                                         *)
(*   CalSign (TxSign_CalSignStep): R = (a*r)^-1 * aG = r^-1 * G, the       *)
(*           share s_i = (R.x * x_i + h) * r_i + c_i is broadcast and      *)
(*           interpolated to s = r * (R.x * x + h); SignTransaction        *)
(*           recovers the signer and FinishStep compares it with the       *)
(*           expected address.                                             *)
(* a_i*r_i and s_i lie on polynomials of degree 2*Degree, so the           *)
(* interpolation is right only over 2*Degree+1 shares or more; the API     *)
(* (SignMpcTransaction) refuses a run with fewer than 2*MPCDegree peers.   *)
(*                                                                         *)
(* Points are scalars (generator 1, MpcMath); PX[k] stands for the x       *)
(* coordinate of k*G reduced mod N (PX[0] = 0: the point at infinity).     *)
(* One signature per run (signNum = 1, a non-BTC chain).  A faulty        *)
(* participant sends any value in each message.                            *)
(***************************************************************************)
EXTENDS Integers, FiniteSets, Functions, TLC, MpcMath

CONSTANTS
    Node,       \* the storemen of the group
    Leader,     \* the node the signing request is made to
    X,          \* X[n]: n's seed (abscissa)
    Degree,     \* MPCDegree
    KeyPoly,    \* KeyPoly[n]: n's contribution to the group key
    APoly,      \* APoly[n]: n's contribution to a (JR)
    RPoly,      \* RPoly[n]: n's contribution to r (JR)
    CPoly,      \* CPoly[n]: n's zero-sharing polynomial (JZ, degree 2*Degree)
    H,          \* the transaction hash
    PX,         \* PX[k]: x coordinate of k*G mod N
    MaxFaulty,  \* how many followers may not follow the code
    MaxDup      \* how many deliveries the transport may duplicate

ASSUME /\ Leader \in Node /\ X \in [Node -> 1 .. (P - 1)] /\ IsInjective(X)
       /\ \A n \in Node : CPoly[n][1] = 0
       /\ H \in Field /\ PX \in [Field -> Field] /\ PX[0] = 0
       /\ MaxFaulty \in Nat /\ MaxDup \in Nat

None == -1
Steps == {"ARLag", "CalSign"}
Errors == {"ErrTooLessStoreman", "ErrSignTransaction", "ErrFailSignRetVerify", "ErrTimeout"}

VARIABLES
    run,        \* the participants: the leader and the peers connected at request
    faulty,     \* the participants that do not follow the code
    phase,      \* phase[n]: "idle", a step, "Done" or an error
    waiting,    \* waiting[n]: BaseMpcStep.waiting of n's current step
    recv,       \* recv[n]: the lagrangeGenerator's message map, seed -> value
    sig,        \* sig[n]: n's R point, R.x and s (Result Store), None fields before
    net,        \* messages in flight
    dups        \* deliveries duplicated so far

vars == <<run, faulty, phase, waiting, recv, sig, net, dups>>

-----------------------------------------------------------------------------
(* The secrets and shares the JR/JZ and AGPoint steps leave behind.       *)

\* Sum over the run's participants of their polynomials at x.
RunShare(polys, x) == SumMod([j \in run |-> EvalPoly(polys[j], x)])

GPK    == SumMod([j \in Node |-> KeyPoly[j][1]])   \* the group key (generator 1)
XShare(n) == SumMod([j \in Node |-> EvalPoly(KeyPoly[j], X[n])])
APoint == RunShare(APoly, 0)                         \* MpcSignAPoint: a*G
ARSeed(n) == (RunShare(APoly, X[n]) * RunShare(RPoly, X[n])) % P
RShare(n) == RunShare(RPoly, X[n])
CShare(n) == RunShare(CPoly, X[n])

EmptyMap == [x \in {} |-> 0]

Msg(step, src, dst, val) == [step |-> step, src |-> src, dst |-> dst, val |-> val]

\* TXSign_Lagrange_Step.CreateMessage: one message to every participant;
\* a faulty participant's value is chosen when it arrives (None here).
LagMsgs(n, step, v) ==
    {Msg(step, n, d, IF n \in faulty THEN None ELSE v) : d \in run}

\* Mutant of Wait: one reply more than the run has.
WaitPlusOne == Cardinality(run) + 1

\* The wait count BaseMpcStep sets (CreateBaseMpcStep, not in src): the
\* step waits for every participant.
Wait == Cardinality(run)

\* lagrangeGenerator.calculateResult: interpolation at 0 over every share
\* received.
LagResult(n) == LagrangeAt0(recv[n])

\* invRPoint = ModInverse(ar) * aPoint; ModInverse of 0 leaves arInv at 0,
\* which gives the point at infinity.
RPointOf(ar) == IF ar = 0 THEN 0 ELSE (ModInv(ar) * APoint) % P

\* SignSeed = invRPoint.X mod N: R.x of the signature (v is not modelled).
SigR(k) == PX[k]

\* Mutant of SignSeed: the last reduction mod N is missing.
SignSeedNoMod(n, rx) ==
    LET e == (rx * XShare(n) + H) % P IN ((e * RShare(n)) % P) + CShare(n)

\* ((R.x * privateKey + hash) * r + c) mod N.
SignSeed(n, rx) ==
    LET e == (rx * XShare(n) + H) % P IN (((e * RShare(n)) % P) + CShare(n)) % P

\* TxSign_CalSignStep.InitStep: R point, R.x and n's signature share.
CalSignInit(n, ar) ==
    LET k == RPointOf(ar) IN [k |-> k, rx |-> SigR(k), seed |-> SignSeed(n, SigR(k))]

\* SignTransaction and MPCSignedFrom: the key ecrecover yields for (h, R, s);
\* a zero r or s is an invalid signature and SignTransaction fails.
Recover(k, rx, s) ==
    IF s = 0 \/ rx = 0 THEN None ELSE (((s * k - H) % P) * ModInv(rx)) % P

-----------------------------------------------------------------------------
(* Actions                                                                 *)

Init ==
    /\ run \in {S \in SUBSET Node : Leader \in S /\ Cardinality(S) >= 2}
    /\ faulty \in {F \in SUBSET (run \ {Leader}) : Cardinality(F) <= MaxFaulty}
    /\ phase = [n \in Node |-> "idle"]
    /\ waiting = [n \in Node |-> 0]
    /\ recv = [n \in Node |-> EmptyMap]
    /\ sig = [n \in Node |-> [k |-> None, rx |-> None, s |-> None]]
    /\ net = {}
    /\ dups = 0

\* Enter a Lagrange step: a fresh message map, the full waiting count, and
\* the step's broadcast.
EnterLag(n, step, v) ==
    /\ phase' = [phase EXCEPT ![n] = step]
    /\ waiting' = [waiting EXCEPT ![n] = Wait]
    /\ recv' = [recv EXCEPT ![n] = EmptyMap]
    /\ net' = net \cup LagMsgs(n, step, v)

\* Mutant of RequestTxSign: the gate asks for MPCDegree peers only.
RequestTxSignDegree ==
    /\ phase[Leader] = "idle"
    /\ IF Cardinality(run) - 1 < Degree
          THEN /\ phase' = [phase EXCEPT ![Leader] = "ErrTooLessStoreman"]
               /\ UNCHANGED <<waiting, recv, net>>
          ELSE EnterLag(Leader, "ARLag", ARSeed(Leader))
    /\ UNCHANGED <<run, faulty, dups, sig>>

\* SignMpcTransaction at the leader: with fewer than 2*MPCDegree connected
\* peers the request is refused; otherwise requestTxSignMpc creates the
\* context and, after request and ready, the ARLag step broadcasts a_i*r_i.
RequestTxSign ==
    /\ phase[Leader] = "idle"
    /\ IF Cardinality(run) - 1 < Degree * 2
          THEN /\ phase' = [phase EXCEPT ![Leader] = "ErrTooLessStoreman"]
               /\ UNCHANGED <<waiting, recv, net>>
          ELSE EnterLag(Leader, "ARLag", ARSeed(Leader))
    /\ UNCHANGED <<run, faulty, dups, sig>>

\* The leader's request passed the gate and its context runs.
Requested == phase[Leader] \notin {"idle", "ErrTooLessStoreman"}

\* acknowledgeTxSignMpc at a follower of the run: the same steps.
AckTxSign(n) ==
    /\ n \in run \ faulty /\ n /= Leader /\ phase[n] = "idle"
    /\ Requested
    /\ EnterLag(n, "ARLag", ARSeed(n))
    /\ UNCHANGED <<run, faulty, dups, sig>>

\* A faulty participant sends its ARLag and CalSign messages at will.
FaultySend(n) ==
    /\ n \in run \cap faulty /\ phase[n] = "idle"
    /\ Requested
    /\ phase' = [phase EXCEPT ![n] = "Done"]
    /\ net' = net \cup LagMsgs(n, "ARLag", None) \cup LagMsgs(n, "CalSign", None)
    /\ UNCHANGED <<run, faulty, dups, waiting, recv, sig>>

\* Mutant of HandleLag: a second message from a seed is not refused.
HandleLagNoDedup(n, m) ==
    /\ m \in net /\ m.dst = n /\ phase[n] = m.step
    /\ \/ net' = net \ {m} /\ UNCHANGED dups
       \/ dups < MaxDup /\ net' = net /\ dups' = dups + 1
    /\ \E v \in (IF m.val = None THEN Field ELSE {m.val}) :
          recv' = [recv EXCEPT ![n] = (X[m.src] :> v) @@ @]
    /\ waiting' = [waiting EXCEPT ![n] = @ - 1]
    /\ UNCHANGED <<run, faulty, phase, sig>>

\* TXSign_Lagrange_Step.HandleMessage: the value is stored under the
\* sender's seed; a second value for a seed is refused.  The transport may
\* deliver a message and keep a copy in flight (up to MaxDup times).
HandleLag(n, m) ==
    /\ m \in net /\ m.dst = n /\ phase[n] = m.step
    /\ \/ net' = net \ {m} /\ UNCHANGED dups
       \/ dups < MaxDup /\ net' = net /\ dups' = dups + 1
    /\ IF X[m.src] \in DOMAIN recv[n]
          THEN UNCHANGED <<recv, waiting>>
          ELSE /\ \E v \in (IF m.val = None THEN Field ELSE {m.val}) :
                    recv' = [recv EXCEPT ![n] = @ @@ (X[m.src] :> v)]
               /\ waiting' = [waiting EXCEPT ![n] = @ - 1]
    /\ UNCHANGED <<run, faulty, phase, sig>>

\* ARLag FinishStep stores a*r; CalSign's InitStep computes R and the
\* share, and its CreateMessage broadcasts the share.
FinishAR(n) ==
    /\ phase[n] = "ARLag" /\ waiting[n] <= 0
    /\ LET cs == CalSignInit(n, LagResult(n)) IN
       /\ sig' = [sig EXCEPT ![n] = [k |-> cs.k, rx |-> cs.rx, s |-> None]]
       /\ EnterLag(n, "CalSign", cs.seed)
    /\ UNCHANGED <<run, faulty, dups>>

\* TxSign_CalSignStep.FinishStep: interpolate s, SignTransaction, and
\* compare the recovered signer with the expected address.
FinishSign(n) ==
    /\ phase[n] = "CalSign" /\ waiting[n] <= 0
    /\ LET s == LagResult(n)
           from == Recover(sig[n].k, sig[n].rx, s)
       IN /\ sig' = [sig EXCEPT ![n].s = s]
          /\ phase' = [phase EXCEPT ![n] =
                         CASE from = None -> "ErrSignTransaction"
                           [] from /= GPK -> "ErrFailSignRetVerify"
                           [] OTHER       -> "Done"]
    /\ UNCHANGED <<run, faulty, dups, waiting, recv, net>>

\* The round timeout of BaseStep.FinishStep fires while replies are missing.
Timeout(n) ==
    /\ phase[n] \in Steps /\ waiting[n] > 0
    /\ phase' = [phase EXCEPT ![n] = "ErrTimeout"]
    /\ UNCHANGED <<run, faulty, dups, waiting, recv, sig, net>>

Next ==
    \/ RequestTxSign
    \/ \E n \in Node : \/ AckTxSign(n) \/ FaultySend(n) \/ FinishAR(n) \/ FinishSign(n)
                       \/ Timeout(n)
    \/ \E n \in Node, m \in net : HandleLag(n, m)

Spec == Init /\ [][Next]_vars

-----------------------------------------------------------------------------
(* Properties                                                              *)

TypeOK ==
    /\ run \subseteq Node /\ Leader \in run
    /\ phase \in [Node -> {"idle", "Done"} \cup Steps \cup Errors]
    /\ \A n \in Node : \A x \in DOMAIN recv[n] : recv[n][x] \in Field
    /\ \A m \in net : m.val \in Field \cup {None}

\* ECDSA verification of (R.x, s) for hash H against the group key:
\* (H + R.x * GPK) / s is a point whose x coordinate is R.x.
Verifies(rx, s) ==
    /\ s \notin {0, None} /\ rx \notin {0, None}
    /\ LET u == ((H + rx * GPK) * ModInv(s)) % P IN u /= 0 /\ PX[u] = rx

\* A run of participants that all follow the code never fails: the
\* interpolations of the degree-2*MPCDegree products a_i*r_i and s_i are
\* exact because the API gate admits only runs of 2*MPCDegree+1 nodes.
HonestRunSigns ==
    faulty = {} => \A n \in Node : phase[n] \notin {"ErrSignTransaction", "ErrFailSignRetVerify"}

\* Some goroutine of the code can take a step: a node's receive loop, its
\* context, or the API call (faulty sends, the transport's duplicates and
\* the timers aside).
CodeCanMove ==
    \/ \E n \in Node, m \in net : ENABLED HandleLag(n, m)
    \/ ENABLED RequestTxSign
    \/ \E n \in Node : ENABLED AckTxSign(n) \/ ENABLED FinishAR(n) \/ ENABLED FinishSign(n)

\* A run of participants that all follow the code never gets stuck short
\* of the signature: while no round has timed out, the gate has not
\* refused the request and some participant is not Done, a goroutine of
\* the code can move.  The waiting counts, the buffering of messages sent for a step
\* the receiver has not entered yet, and the seed check on duplicates
\* must leave no node waiting for a reply that will not come.  Every
\* behaviour of the model is finite (phases only advance; duplicates and
\* faulty sends are bounded), so with the code's goroutines scheduled
\* fairly this is the liveness of the honest run.
HonestRunNeverStuck ==
    /\ faulty = {}
    /\ \A n \in Node : phase[n] /= "ErrTimeout"
    /\ phase[Leader] /= "ErrTooLessStoreman"
    /\ \E n \in run : phase[n] /= "Done"
    => CodeCanMove

=============================================================================
