------------------------------ MODULE SignRun ------------------------------
(***************************************************************************)
(* The tail of a signing run: the S step, whose mpcSGenerator signs m with *)
(* each node's key and nonce shares and interpolates the group's s         *)
(* (storeman/storemanmpc/step/mpc_s_generator.go), and the AckRS step,     *)
(* where every node broadcasts its (s, R) and FinishStep cross-checks the  *)
(* peers' values and re-verifies the signature (mpc_ack_rs_step.go).       *)
(*                                                                         *)
(* The run starts after the key generation and the nonce sharing: every   *)
(* node holds its key share and nonce share and the same group nonce      *)
(* point R.  m is a hash of M and R; the signer (sha256) and the verifier  *)
(* (Keccak256) compute it with different hash functions, modelled as two   *)
(* fixed tables from R to the field.  A Faulty node does not run the code: *)
(* it may send each node a different signature share, and any AckRS        *)
(* message, a short one (fewer than three values) included.                *)
(***************************************************************************)
EXTENDS Integers, Sequences, FiniteSets, Functions, TLC, MpcMath

CONSTANTS
    Node,       \* the peers of the run
    X,          \* X[n]: n's seed (its abscissa)
    Degree,     \* MPCDegree
    KeyPoly,    \* KeyPoly[n]: n's contribution to the group key (from GPK generation)
    NoncePolys, \* the nonce polynomials createSkPolyValue may draw
    HashS,      \* HashS[R]: m as mpcSGenerator.initialize computes it (sha256)
    HashV,      \* HashV[R]: m as verifyRS computes it (Keccak256)
    Faulty      \* peers that do not follow the code

ASSUME /\ X \in [Node -> 1 .. (P - 1)] /\ IsInjective(X)
       /\ HashS \in [Field -> Field] /\ HashV \in [Field -> Field]
       /\ Faulty \subseteq Node

Honest == Node \ Faulty
None   == -1

\* Failures of FinishStep, by the error the code returns.
Errors == {"ErrInvalidMPCR", "ErrInvalidMPCS", "ErrVerifyFailed", "ErrTimeout"}

VARIABLES
    nonce,      \* nonce[n]: n's nonce polynomial (RSKShare)
    phase,      \* phase[n]: "init", "S", "AckRS", "Done" or an error
    waiting,    \* waiting[n]: BaseStep.waiting of n's current step
    sMsg,       \* sMsg[n]: the S step's message map, seed -> signature share
    sRes,       \* sRes[n]: mpcSGenerator.result, the group's s (Result Store MpcS)
    ackSeen,    \* ackSeen[n]: MpcAckRSStep.message, the peers counted
    ackRS,      \* ackRS[n]: remoteMpcR / remoteMpcS, peer -> [r, s]
    net         \* messages in flight

vars == <<nonce, phase, waiting, sMsg, sRes, ackSeen, ackRS, net>>

-----------------------------------------------------------------------------
(* The values the keys and nonces define.                                  *)

\* Sum over the contributors of their polynomials' value at x.
ShareAt(polys, x) == SumMod([s \in Node |-> EvalPoly(polys[s], x)])

GskShare(n) == ShareAt(KeyPoly, X[n])          \* MpcPrivateShare
RskShare(n) == ShareAt(nonce, X[n])            \* RMpcPrivateShare
GPK == ShareAt(KeyPoly, 0)                     \* PublicKeyResult (generator 1)
R   == ShareAt(nonce, 0)                       \* RPublicKeyResult

\* Mutant of SchnorrSign: the share is not reduced modulo the order.
SchnorrSignNoMod(x, r, m) == r + m * x

\* shcnorrmpc.SchnorrSign(gskShare, rskShare, m): s = r + m * x.
SchnorrSign(x, r, m) == (r + m * x) % P

\* n's signature share (mpcSGenerator.initialize).
SigShare(n) == SchnorrSign(GskShare(n), RskShare(n), HashS[R])

Msg(kind, src, dst, val) == [kind |-> kind, src |-> src, dst |-> dst, val |-> val]

\* The AckRS Data of a node, [s, R[0], R[1]]; Short stands for a message
\* with fewer than three values.
RS(r, s) == [r |-> r, s |-> s]
Short == RS(None, None)

\* The group's s: the signature the honest shares interpolate to.
GroupS(nc) ==
    LET r == ShareAt(nc, 0) IN SchnorrSign(ShareAt(KeyPoly, 0), r, HashS[r])

\* What a faulty node sends each honest node: in the S step its share or
\* another value, in AckRS a short message, the group's s, another s, or
\* another R.
FaultyShares(nc, f) ==
    LET good == SchnorrSign(ShareAt(KeyPoly, X[f]), ShareAt(nc, X[f]), HashS[ShareAt(nc, 0)])
    IN  {good, (good + 1) % P}

FaultyAcks(nc) ==
    LET r == ShareAt(nc, 0) IN
    {Short, RS(r, GroupS(nc)), RS(r, (GroupS(nc) + 1) % P), RS((r + 1) % P, GroupS(nc))}

FaultyMsgs(nc) ==
    { {Msg("S", f, d, sv[f][d]) : f \in Faulty, d \in Honest}
        \cup {Msg("RS", f, d, av[f][d]) : f \in Faulty, d \in Honest} :
      sv \in [Faulty -> [Honest -> UNION {FaultyShares(nc, f) : f \in Faulty}]],
      av \in [Faulty -> [Honest -> FaultyAcks(nc)]] }

EmptyMap == [x \in {} |-> 0]

Init ==
    /\ nonce \in [Node -> NoncePolys]
    /\ net \in FaultyMsgs(nonce)
    /\ phase = [n \in Node |-> IF n \in Faulty THEN "faulty" ELSE "init"]
    /\ waiting = [n \in Node |-> 0]
    /\ sMsg = [n \in Node |-> EmptyMap]
    /\ sRes = [n \in Node |-> None]
    /\ ackSeen = [n \in Node |-> {}]
    /\ ackRS = [n \in Node |-> EmptyMap]

\* S step InitStep (mpcSGenerator.initialize) and CreateMessage: n signs
\* with its shares and sends every peer its share; the step waits for
\* every peer (its own share included).
InitS(n) ==
    /\ phase[n] = "init"
    /\ phase' = [phase EXCEPT ![n] = "S"]
    /\ waiting' = [waiting EXCEPT ![n] = Cardinality(Node)]
    /\ net' = net \cup {Msg("S", n, d, SigShare(n)) : d \in Honest}
    /\ UNCHANGED <<nonce, sMsg, sRes, ackSeen, ackRS>>

\* The S step's HandleMessage (BaseMpcStep): the share is stored under the
\* sender's seed; a second share for a seed is rejected.
HandleS(n, m) ==
    /\ phase[n] = "S" /\ m.kind = "S" /\ m.dst = n
    /\ net' = net \ {m}
    /\ IF X[m.src] \in DOMAIN sMsg[n]
          THEN UNCHANGED <<sMsg, waiting>>
          ELSE /\ sMsg' = [sMsg EXCEPT ![n] = @ @@ (X[m.src] :> m.val)]
               /\ waiting' = [waiting EXCEPT ![n] = @ - 1]
    /\ UNCHANGED <<nonce, phase, sRes, ackSeen, ackRS>>

\* mpcSGenerator.calculateResult: Lagrange over the seeds in the order a
\* range over the message map yields them; Lagrange uses the first
\* Degree + 1 of them.  Then AckRS InitStep and CreateMessage: n
\* broadcasts [s, R] and waits for every peer.
FinishS(n) ==
    /\ phase[n] = "S" /\ waiting[n] <= 0
    /\ \E Q \in SUBSET DOMAIN sMsg[n] :
          /\ Cardinality(Q) = Degree + 1
          /\ LET s == LagrangeAt0([x \in Q |-> sMsg[n][x]]) IN
             /\ sRes' = [sRes EXCEPT ![n] = s]
             /\ net' = net \cup {Msg("RS", n, d, RS(R, s)) : d \in Honest}
    /\ phase' = [phase EXCEPT ![n] = "AckRS"]
    /\ waiting' = [waiting EXCEPT ![n] = Cardinality(Node)]
    /\ UNCHANGED <<nonce, sMsg, ackSeen, ackRS>>

\* MpcAckRSStep.HandleMessage: a second message of a peer is rejected; R
\* and s are stored only if the message has three values, but the
\* message is counted either way.
HandleRS(n, m) ==
    /\ phase[n] = "AckRS" /\ m.kind = "RS" /\ m.dst = n
    /\ net' = net \ {m}
    /\ IF m.src \in ackSeen[n]
          THEN UNCHANGED <<ackSeen, ackRS, waiting>>
          ELSE /\ ackSeen' = [ackSeen EXCEPT ![n] = @ \cup {m.src}]
               /\ ackRS' = IF m.val /= Short
                              THEN [ackRS EXCEPT ![n] = @ @@ (m.src :> m.val)]
                              ELSE ackRS
               /\ waiting' = [waiting EXCEPT ![n] = @ - 1]
    /\ UNCHANGED <<nonce, phase, sMsg, sRes>>

\* MpcAckRSStep.verifyRS: every stored R, then every stored s, must equal
\* n's own; then s*G = R + m*gpk with m computed by the verifier's hash.
VerifyRS(n) ==
    CASE \E p \in DOMAIN ackRS[n] : ackRS[n][p].r /= R -> "ErrInvalidMPCR"
      [] \E p \in DOMAIN ackRS[n] : ackRS[n][p].s /= sRes[n] -> "ErrInvalidMPCS"
      [] sRes[n] /= (R + HashV[R] * GPK) % P -> "ErrVerifyFailed"
      [] OTHER -> "Done"

\* MpcAckRSStep.FinishStep: verifyRS, then the signature is stored.
FinishRS(n) ==
    /\ phase[n] = "AckRS" /\ waiting[n] <= 0
    /\ phase' = [phase EXCEPT ![n] = VerifyRS(n)]
    /\ UNCHANGED <<nonce, waiting, sMsg, sRes, ackSeen, ackRS, net>>

\* The round timeout of BaseStep.FinishStep while replies are missing.
Timeout(n) ==
    /\ phase[n] \in {"S", "AckRS"} /\ waiting[n] > 0
    /\ phase' = [phase EXCEPT ![n] = "ErrTimeout"]
    /\ UNCHANGED <<nonce, waiting, sMsg, sRes, ackSeen, ackRS, net>>

Next ==
    \E n \in Honest :
        \/ InitS(n) \/ FinishS(n) \/ FinishRS(n) \/ Timeout(n)
        \/ \E m \in net : HandleS(n, m) \/ HandleRS(n, m)

Spec == Init /\ [][Next]_vars

-----------------------------------------------------------------------------
(* Properties                                                              *)

TypeOK ==
    /\ phase \in [Node -> {"faulty", "init", "S", "AckRS", "Done"} \cup Errors]
    /\ \A n \in Node : \A x \in DOMAIN sMsg[n] : sMsg[n][x] \in Field
    /\ sRes \in [Node -> Field \cup {None}]
    /\ \A n \in Node : ackSeen[n] \subseteq Node /\ DOMAIN ackRS[n] \subseteq ackSeen[n]

\* When every peer follows the code, no node's re-verification of the
\* signature fails (spec 8: S*G = R + H(H(M) || R)*GPK holds for the s a
\* completed run produces).
SignatureVerifies ==
    Faulty = {} => \A n \in Node : phase[n] /= "ErrVerifyFailed"

=============================================================================
