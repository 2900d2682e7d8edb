------------------------------ MODULE RSkJudge ------------------------------
(***************************************************************************)
(* The slashing judge of a signing run (MpcRSkJudgeStep,                   *)
(* storeman/storemanmpc/step/mpc_rskjudge_step.go) together with what      *)
(* feeds it: every node shares a nonce share with every other node, a      *)
(* receiver records the shares that fail the commitment check as error    *)
(* tuples (MPCRSkErrInfos), and each node's judge step sends them to the   *)
(* leader, whose judge step decides who is at fault and records proofs.    *)
(*                                                                         *)
(* Nodes are group indices 0 .. N-1 (osmconf indices).  Commitments are    *)
(* polynomial coefficients (generator 1).  A signature is represented by  *)
(* the value the sender signed: it verifies for sij exactly when it is    *)
(* sij; NoSig is the zero signature (r = s = 0), which never verifies.    *)
(***************************************************************************)
EXTENDS Integers, Sequences, FiniteSets, Functions, MpcMath

CONSTANTS
    N,          \* number of nodes in the group
    Leader,     \* the group leader's index (GetLeaderIndex)
    Poly,       \* Poly[n]: node n's nonce polynomial (its commitment)
    X,          \* X[n]: GetXValueByIndex(n)
    Cheater,    \* nodes that may send a share inconsistent with their commitment
    Liar        \* nodes that may file an accusation with a forged sij

Node == 0 .. (N - 1)

ASSUME /\ N \in Nat \ {0} /\ Leader \in Node
       /\ Poly \in [Node -> Seq(Field)] /\ X \in [Node -> 1 .. (P - 1)]
       /\ Cheater \subseteq Node /\ Liar \subseteq Node

None  == -1
NoSig == -1

\* The five scalars of a judge message: sender index, receiver index, sij,
\* and the signature (r, s) here folded into one field.
Tuple(snd, rcv, sij, sig) == <<snd, rcv, sij, sig>>
ZeroData == Tuple(0, 0, 0, NoSig)

VARIABLES
    share,      \* share[s][r]: the signed share s sent r (None before)
    checked,    \* pairs <<s, r>> whose share r has checked
    errs,       \* errs[r]: r's error tuples (MPCRSkErrNum / MPCRSkErrInfos)
    created,    \* nodes whose judge step ran CreateMessage
    sent,       \* every judge message ever sent: [from, data]
    net,        \* judge messages in flight to the leader
    RSlshCount, \* the leader's MpcRSkJudgeStep.RSlshCount
    proofs,     \* the leader's slash proofs, in order
    saved,      \* the slash count saveSlshCount stored (None before)
    finished    \* the leader's judge step has finished

vars == <<share, checked, errs, created, sent, net, RSlshCount, proofs, saved, finished>>

\* The share polynomial of s evaluated at r's x value: what sij must be.
Expected(s, r) == EvalPoly(Poly[s], X[r])

Init ==
    /\ share = [s \in Node |-> [r \in Node |-> None]]
    /\ checked = {}
    /\ errs = [n \in Node |-> << >>]
    /\ created = {}
    /\ sent = {}
    /\ net = {}
    /\ RSlshCount = 0
    /\ proofs = << >>
    /\ saved = None
    /\ finished = FALSE

\* MpcRSKShare_Step.CreateMessage: s sends peer r polyValue[r], its nonce
\* polynomial at r's x value (createSkPolyValue).  The signature spec 8
\* attaches is not in this code; the model lets the share stand for it.
\* A cheater may send another value instead.
SendShare(s, r) ==
    /\ s /= r /\ share[s][r] = None
    /\ \E v \in {Expected(s, r)} \cup (IF s \in Cheater THEN {(Expected(s, r) + 1) % P} ELSE {}) :
          share' = [share EXCEPT ![s][r] = v]
    /\ UNCHANGED <<checked, errs, created, sent, net, RSlshCount, proofs, saved, finished>>

\* r checks the share of s against the commitment and records an error
\* tuple if it fails.  A liar may record a tuple with any claimed sij and
\* any receiver index: the signature it attaches is still the one s gave
\* it, and that signature covers sij alone (h = sha256(sij)).
CheckShare(s, r) ==
    /\ share[s][r] /= None /\ <<s, r>> \notin checked
    /\ checked' = checked \cup {<<s, r>>}
    /\ LET v == share[s][r] IN
       \/ v /= Expected(s, r) /\ errs' = [errs EXCEPT ![r] = Append(@, Tuple(s, r, v, v))]
       \/ v = Expected(s, r) /\ r \notin Liar /\ UNCHANGED errs
       \/ r \in Liar /\ \E q \in Node, w \in Field : errs' = [errs EXCEPT ![r] = Append(@, Tuple(s, q, w, v))]
    /\ UNCHANGED <<share, created, sent, net, RSlshCount, proofs, saved, finished>>

\* The judge messages CreateMessage builds from the error tuples e: ret is
\* re-allocated in every iteration, so only the last entry survives, and
\* that entry copies data[i] = errInfo[i] for i the error's own position.
\* The zero-valued entries (message code 0) carry nothing.
JudgeData(e) ==
    LET k == Len(e) IN
    IF k = 0 THEN {}
    ELSE {[j \in 1 .. 4 |-> IF j = k THEN e[k][j] ELSE ZeroData[j]]}

\* MpcRSkJudgeStep.CreateMessage at a conforming node n, sent to the leader.
CreateMessage(n) ==
    /\ n \notin created /\ n \notin Liar
    /\ \A s \in Node \ {n} : <<s, n>> \in checked
    /\ Len(errs[n]) <= 4
    /\ created' = created \cup {n}
    /\ LET out == {[from |-> n, data |-> d] : d \in JudgeData(errs[n])} IN
       /\ sent' = sent \cup out
       /\ net' = net \cup out
    /\ UNCHANGED <<share, checked, errs, RSlshCount, proofs, saved, finished>>

\* A liar does not run this build: it sends the leader one well-formed
\* judge message per tuple it recorded.
LiarSend(n) ==
    /\ n \notin created /\ n \in Liar
    /\ \A s \in Node \ {n} : <<s, n>> \in checked
    /\ created' = created \cup {n}
    /\ LET out == {[from |-> n, data |-> errs[n][i]] : i \in 1 .. Len(errs[n])} IN
       /\ sent' = sent \cup out
       /\ net' = net \cup out
    /\ UNCHANGED <<share, checked, errs, RSlshCount, proofs, saved, finished>>

\* sij*G = EvalByPolyG(commitment of snd, x value of rcv).
ContentCheck(snd, rcv, sij) == sij = EvalPoly(Poly[snd], X[rcv])

\* saveSlshProof: the proof the leader stores under MPCRSlshProof+count.
\* Whether the signature verified is kept as the signature itself (the
\* polyR, polyS entries); the second write to index 5 drops r, which the
\* model does not represent.
ProofRecord(isSnder, snd, rcv, sij, sigOK) ==
    [blameSender |-> isSnder, snd |-> snd, rcv |-> rcv, sij |-> sij, sigOK |-> sigOK]

\* Mutant of HandleMessage: the slash count is not incremented.
HandleMessageNoCount(m) ==
    /\ m \in net /\ Leader \in created /\ ~finished
    /\ net' = net \ {m}
    /\ LET snd == m.data[1]  rcv == m.data[2]  sij == m.data[3]
           sigOK == m.data[4] = sij
           content == ContentCheck(snd, rcv, sij)
       IN IF ~content \/ ~sigOK
             THEN /\ UNCHANGED RSlshCount
                  /\ proofs' = Append(proofs, ProofRecord(~content, snd, rcv, sij, sigOK))
             ELSE UNCHANGED <<RSlshCount, proofs>>
    /\ UNCHANGED <<share, checked, errs, created, sent, saved, finished>>

\* MpcRSkJudgeStep.HandleMessage at the leader: the signature check, then
\* the content check, whose outcome alone decides bSnderWrong; a proof is
\* saved if either check failed.
HandleMessage(m) ==
    /\ m \in net /\ Leader \in created /\ ~finished
    /\ net' = net \ {m}
    /\ LET snd == m.data[1]  rcv == m.data[2]  sij == m.data[3]
           sigOK == m.data[4] = sij
           content == ContentCheck(snd, rcv, sij)
       IN IF ~content \/ ~sigOK
             THEN /\ RSlshCount' = RSlshCount + 1
                  /\ proofs' = Append(proofs, ProofRecord(~content, snd, rcv, sij, sigOK))
             ELSE UNCHANGED <<RSlshCount, proofs>>
    /\ UNCHANGED <<share, checked, errs, created, sent, saved, finished>>

\* saveSlshCount: the value stored under MPCRSlshProofNum is the step's own
\* RSlshCount (the parameter is ignored).
SaveSlshCount == RSlshCount

\* MpcRSkJudgeStep.FinishStep: saveSlshCount, then BaseStep.FinishStep,
\* which returns at once: the step waits for no message.
FinishStep ==
    /\ Leader \in created /\ ~finished
    /\ saved' = SaveSlshCount
    /\ finished' = TRUE
    /\ UNCHANGED <<share, checked, errs, created, sent, net, RSlshCount, proofs>>

Next ==
    \/ \E s, r \in Node : SendShare(s, r) \/ CheckShare(s, r)
    \/ \E n \in Node : CreateMessage(n) \/ LiarSend(n)
    \/ \E m \in net : HandleMessage(m)
    \/ FinishStep

Spec == Init /\ [][Next]_vars

-----------------------------------------------------------------------------
(* Properties                                                              *)

TypeOK ==
    /\ share \in [Node -> [Node -> Field \cup {None}]]
    /\ \A n \in Node : errs[n] \in Seq(Node \X Node \X Field \X Field)
    /\ created \subseteq Node
    /\ RSlshCount \in Nat /\ Len(proofs) = RSlshCount
    /\ saved \in {None} \cup Nat /\ finished \in BOOLEAN

\* The judge never blames a sender whose share is genuine: a proof that
\* blames the sender on a claim the sender really signed names a node
\* that sent an inconsistent share (a cheater).  Spec 8: replacing the
\* accuser's claim alone must flag the accuser.  HandleMessage takes the
\* receiver index from the message data and never compares it with the
\* peer the message came from, and the sender's signature covers sij alone.
HonestSenderNeverBlamed ==
    \A i \in 1 .. Len(proofs) :
        proofs[i].blameSender /\ proofs[i].sigOK => proofs[i].snd \in Cheater

\* The leader's judge step finishes only after every node's accusations
\* have reached it and been judged.
JudgeWaitsForAccusations ==
    finished => created = Node /\ net = {}

=============================================================================
