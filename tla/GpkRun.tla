------------------------------ MODULE GpkRun ------------------------------
(***************************************************************************)
(* One group-public-key generation run of the storeman MPC engine         *)
(* (storeman/storemanmpc/mpc_create_gpk.go), executed by every node of    *)
(* the run's peer set over an unreliable transport.                        *)
(*                                                                         *)
(* Each node holds one protocol context whose step list is                 *)
(*   leader:   RequestMpcStep, MpcReadyStep,    SKShare, GPK, AckGPK       *)
(*   follower: AckMpcStep,     GetMpcReadyStep, SKShare, GPK, AckGPK       *)
(* A step is entered by InitStep + CreateMessage (messages are sent),      *)
(* absorbs messages routed to it by step id through HandleMessage (an      *)
(* accepted message decrements the step's waiting count), and runs        *)
(* FinishStep once the count reaches zero, or fails on the round timeout.  *)
(* The context/step driver and the distributor are not in this source     *)
(* tree; their behaviour is taken from the specification (section 4.1).   *)
(*                                                                         *)
(* Network: a set of in-flight messages.  Arrival at a node removes a     *)
(* message, or (at most MaxDup times) leaves a copy behind; a message may *)
(* be lost (at most MaxLoss times); arrival order is arbitrary.  A message *)
(* for a run the node has no context for is dropped by the distributor.   *)
(* A message for a later step waits in flight (the step's buffered        *)
(* channel); messages for a step the node has left, or for a context that *)
(* has ended, can never be read again and are removed when it moves on.   *)
(***************************************************************************)
EXTENDS Integers, Sequences, FiniteSets, Functions, TLC, MpcMath

CONSTANTS
    Node,       \* the run's peers (model values)
    Leader,     \* the node that issued the request
    Degree,     \* mpcprotocol.MPCDegree: degree of every share polynomial
    Poly,       \* Poly[n]: the coefficients node n draws (Poly[n][1] is its secret)
    SeedPool,   \* the values rand.Intn(0x0FFFFFE)+1 may return, abstracted
    Faulty,     \* nodes whose published point may arrive tampered (signature fails)
    MaxLoss,    \* bound on lost messages
    MaxDup      \* bound on duplicated deliveries

ASSUME /\ Leader \in Node
       /\ Degree \in Nat /\ Degree + 1 <= Cardinality(Node)
       /\ Poly \in [Node -> Seq(Field)] /\ \A n \in Node : Len(Poly[n]) = Degree + 1
       /\ SeedPool \subseteq 1 .. (P - 1) /\ Cardinality(SeedPool) >= Cardinality(Node)
       /\ Faulty \subseteq Node
       /\ MaxLoss \in Nat /\ MaxDup \in Nat

N == Cardinality(Node)

\* Step ids, as set by SetStepId in genCreateGPKMpc.
ReqStep    == 0
ReadyStep  == 1
SKShareStep == 2
GPKStep    == 3
AckGPKStep == 4
StepIds    == ReqStep .. AckGPKStep

\* Context states outside the step list: not created, finished, aborted.
NoCtx  == -1
Done   == 5
Failed == 6

None == -1              \* a Result Store key that has not been set

\* ackGPKMpc's admission limit on a seed (item.Seed > 0xffffff is refused).
MaxAdmittedSeed == 16777215

Msg(kind, src, dst, step, val, sig) ==
    [kind |-> kind, src |-> src, dst |-> dst, step |-> step, val |-> val, sig |-> sig]

MsgSpace == [kind : {"req", "mpc"}, src : Node, dst : Node, step : StepIds,
             val : Field, sig : BOOLEAN]

VARIABLES
    ctx,        \* ctx[n]: NoCtx, the current step id, Done or Failed
    waiting,    \* waiting[n]: BaseStep.waiting of the current step
    seed,       \* the PeerInfo seeds the leader assigned (0 = not yet assigned)
    recv,       \* recv[n]: the current step's message map (key -> received value)
    ko,         \* ko[n]: MpcPointStep.rpkshareKOIndex of the current step
    privShare,  \* Result Store MpcPrivateShare of n (None until SKShare finishes)
    gpk,        \* Result Store MpcContextResult of n: the GPK it computed
    net,        \* messages in flight
    lost,       \* messages lost so far
    dups        \* duplicate deliveries so far

vars == <<ctx, waiting, seed, recv, ko, privShare, gpk, net, lost, dups>>

-----------------------------------------------------------------------------
(* Result of the whole run, for the properties.                            *)

\* The group secret: the sum of every contributor's secret term.
GroupSecret == SumMod([n \in Node |-> Poly[n][1]])

\* With generator 1 the group public key is the group secret itself.
GroupKey == GroupSecret

\* getPeerSeed: the seed of a peer of the run, 0 for anyone else.
PeerSeed(p) == IF p \in Node THEN seed[p] ELSE 0

\* Mutant of Wait: the leader's request step expects no acknowledgement.
WaitLeaderNoAcks(n, i) ==
    IF i = ReqStep THEN 0
    ELSE IF i = ReadyStep THEN IF n = Leader THEN 0 ELSE 1
    ELSE N

\* Expected reply count of each step (CreateBaseStep's wait argument; -1,
\* used by BaseMpcStep and AckMpcGPKStep, means every peer).
Wait(n, i) ==
    IF i = ReqStep THEN IF n = Leader THEN N - 1 ELSE 0
    ELSE IF i = ReadyStep THEN IF n = Leader THEN 0 ELSE 1
    ELSE N

EmptyMap == [x \in {} |-> 0]

Broadcast(n, i, v, s) == {Msg("mpc", n, d, i, v, s) : d \in Node}

\* Enter step i at n: the context moves on, the new step starts with an
\* empty message map and its full waiting count; msgs is what is in flight
\* afterwards, less the messages buffered for n's earlier steps, which are
\* never read again.
Enter(n, i, msgs) ==
    /\ ctx' = [ctx EXCEPT ![n] = i]
    /\ waiting' = [waiting EXCEPT ![n] = Wait(n, i)]
    /\ recv' = [recv EXCEPT ![n] = EmptyMap]
    /\ ko' = [ko EXCEPT ![n] = << >>]
    /\ net' = {m \in msgs : ~(m.kind = "mpc" /\ m.dst = n /\ m.step < i)}

\* The context ends (success or error): it is destroyed with its buffers.
End(n, outcome, msgs) ==
    /\ ctx' = [ctx EXCEPT ![n] = outcome]
    /\ net' = {m \in msgs : ~(m.kind = "mpc" /\ m.dst = n)}
    /\ UNCHANGED <<waiting, recv, ko>>

\* ackGPKMpc: every seed within range and no two peers sharing one.
SeedsAdmissible ==
    /\ \A p \in Node : seed[p] <= MaxAdmittedSeed
    /\ IsInjective(seed)

\* The seed assignments RequestMpcStep.InitStep can draw: distinct values
\* rand.Intn(0x0FFFFFE)+1, re-drawn on collision.
SeedDraws == Injection(Node, SeedPool)

-----------------------------------------------------------------------------
Init ==
    /\ ctx = [n \in Node |-> NoCtx]
    /\ waiting = [n \in Node |-> 0]
    /\ seed = [n \in Node |-> 0]
    /\ recv = [n \in Node |-> EmptyMap]
    /\ ko = [n \in Node |-> << >>]
    /\ privShare = [n \in Node |-> None]
    /\ gpk = [n \in Node |-> None]
    /\ net = {}
    /\ lost = 0
    /\ dups = 0

(* reqGPKMpc + RequestMpcStep.InitStep/CreateMessage: the leader creates   *)
(* its context, draws a distinct seed for every peer and sends the request *)
(* carrying the peer list to the other peers.                              *)
RequestGPK ==
    /\ ctx[Leader] = NoCtx
    /\ \E f \in SeedDraws : seed' = f
    /\ Enter(Leader, ReqStep,
              net \cup {Msg("req", Leader, d, ReqStep, 0, TRUE) : d \in Node \ {Leader}})
    /\ UNCHANGED <<privShare, gpk, lost, dups>>

\* The transport hands message m to its destination; at most MaxDup times a
\* copy stays in flight and may arrive again (keep).
DupChoice == IF dups < MaxDup THEN BOOLEAN ELSE {FALSE}
Delivered(m, keep) == IF keep THEN net ELSE net \ {m}
CountDup(keep) == dups' = IF keep THEN dups + 1 ELSE dups

Arrive(m) ==
    /\ m \in net
    /\ \E keep \in DupChoice : net' = Delivered(m, keep) /\ CountDup(keep)

\* AckMpcStep.CreateMessage: one message with no PeerID, which the
\* context sends to every peer.
AckMsgs(n) == Broadcast(n, ReqStep, 0, TRUE)

(* A follower receives the request: ackGPKMpc validates the seeds, creates *)
(* the context, and AckMpcStep broadcasts its acknowledgement.             *)
AckGPK(m) ==
    /\ m.kind = "req"
    /\ ctx[m.dst] = NoCtx
    /\ SeedsAdmissible
    /\ \E keep \in DupChoice :
          /\ Enter(m.dst, ReqStep, Delivered(m, keep) \cup AckMsgs(m.dst))
          /\ CountDup(keep)
    /\ UNCHANGED <<seed, privShare, gpk, lost>>

\* The distributor drops what no context takes: an MPC message for a run
\* the node has no context for yet, a repeated request, or a request whose
\* peer list fails admission.
Discard(m) ==
    /\ IF m.kind = "req" THEN ctx[m.dst] /= NoCtx \/ ~SeedsAdmissible
                         ELSE ctx[m.dst] = NoCtx
    /\ Arrive(m)
    /\ UNCHANGED <<ctx, waiting, seed, recv, ko, privShare, gpk, lost>>

\* A message is lost: SendToPeer finds no registry entry for the receiver
\* (it disconnected, or its handshake has not run yet), logs and returns
\* nil, so the sending step goes on as if it had been sent; the transport
\* may lose it the same way.
Lose(m) ==
    /\ m \in net
    /\ lost < MaxLoss
    /\ net' = net \ {m}
    /\ lost' = lost + 1
    /\ UNCHANGED <<ctx, waiting, seed, recv, ko, privShare, gpk, dups>>

-----------------------------------------------------------------------------
(* HandleMessage of the current step.  An accepted message decrements the *)
(* waiting count; a rejected one is only dropped from the channel.         *)

Accept(n, m, r, k) ==
    /\ Arrive(m)
    /\ recv' = [recv EXCEPT ![n] = r]
    /\ ko' = [ko EXCEPT ![n] = k]
    /\ waiting' = [waiting EXCEPT ![n] = @ - 1]
    /\ UNCHANGED <<ctx, seed, privShare, gpk, lost>>

Reject(n, m) ==
    /\ Arrive(m)
    /\ UNCHANGED <<ctx, waiting, seed, recv, ko, privShare, gpk, lost>>

Current(n, m) == m.kind = "mpc" /\ m.dst = n /\ m.step = ctx[n]

\* RequestMpcStep.HandleMessage (leader): one acknowledgement per peer.
HandleRequest(n, m) ==
    /\ n = Leader /\ ctx[n] = ReqStep /\ Current(n, m)
    /\ \/ m.src \in DOMAIN recv[n] /\ Reject(n, m)
       \/ m.src \notin DOMAIN recv[n]
          /\ Accept(n, m, recv[n] @@ (m.src :> m.val), ko[n])

\* AckMpcStep, MpcReadyStep and GetMpcReadyStep accept every message.
HandleReady(n, m) ==
    /\ ctx[n] \in {ReqStep, ReadyStep} /\ ~(n = Leader /\ ctx[n] = ReqStep)
    /\ Current(n, m)
    /\ Accept(n, m, recv[n], ko[n])

\* Mutant of HandleSKShare: the duplicate check on the seed is missing.
HandleSKShareNoDedup(n, m) ==
    /\ ctx[n] = SKShareStep /\ Current(n, m)
    /\ Accept(n, m, (PeerSeed(m.src) :> m.val) @@ recv[n], ko[n])

\* MpcSKShareStep.HandleMessage: the share is keyed by the sender's seed;
\* a second share under the same seed is refused.
HandleSKShare(n, m) ==
    /\ ctx[n] = SKShareStep /\ Current(n, m)
    /\ LET sd == PeerSeed(m.src) IN
       \/ sd \in DOMAIN recv[n] /\ Reject(n, m)
       \/ sd \notin DOMAIN recv[n] /\ Accept(n, m, recv[n] @@ (sd :> m.val), ko[n])

\* MpcPointStep.HandleMessage: a point whose signature verifies is stored
\* under its sender; one that fails is only listed in rpkshareKOIndex.
\* Both are accepted.
HandlePoint(n, m) ==
    /\ ctx[n] = GPKStep /\ Current(n, m)
    /\ \/ m.src \in DOMAIN recv[n] /\ Reject(n, m)
       \/ m.src \notin DOMAIN recv[n] /\ m.sig
          /\ Accept(n, m, recv[n] @@ (m.src :> m.val), ko[n])
       \/ m.src \notin DOMAIN recv[n] /\ ~m.sig
          /\ Accept(n, m, recv[n], Append(ko[n], m.src))

\* AckMpcGPKStep.HandleMessage: one GPK per peer.
HandleAckGPK(n, m) ==
    /\ ctx[n] = AckGPKStep /\ Current(n, m)
    /\ \/ m.src \in DOMAIN recv[n] /\ Reject(n, m)
       \/ m.src \notin DOMAIN recv[n]
          /\ Accept(n, m, recv[n] @@ (m.src :> m.val), ko[n])

-----------------------------------------------------------------------------
(* FinishStep of the current step, followed by InitStep and CreateMessage *)
(* of the next one.                                                        *)

Complete(n, i) == ctx[n] = i /\ waiting[n] <= 0

\* MpcReadyStep.CreateMessage: the leader's "ready", sent to every peer; a
\* follower's GetMpcReadyStep sends nothing.
ReadyMsgs(n) == IF n = Leader THEN Broadcast(n, ReadyStep, 1, TRUE) ELSE {}

\* RequestMpcStep / AckMpcStep finish; the leader's MpcReadyStep
\* broadcasts "ready", a follower's GetMpcReadyStep sends nothing.
FinishRequest(n) ==
    /\ Complete(n, ReqStep)
    /\ Enter(n, ReadyStep, net \cup ReadyMsgs(n))
    /\ UNCHANGED <<seed, privShare, gpk, lost, dups>>

\* The ready step finishes; SKShare's generator draws the polynomial and
\* sends peer d its evaluation at d's seed.
FinishReady(n) ==
    /\ Complete(n, ReadyStep)
    /\ Enter(n, SKShareStep,
             net \cup {Msg("mpc", n, d, SKShareStep, EvalPoly(Poly[n], seed[d]), TRUE) : d \in Node})
    /\ UNCHANGED <<seed, privShare, gpk, lost, dups>>

\* Mutant of PrivateShare: the sum is not reduced modulo the group order.
PrivateShareNoMod(n) == FoldFunction(LAMBDA x, y : x + y, 0, recv[n])

\* The point n's GPK step publishes.  For a node in Faulty the point may
\* arrive tampered: a different value whose signature does not verify.
PublishedPoint(share, good) == IF good THEN share ELSE (share + 1) % P

\* RandomPolynomialValue.calculateResult: the sum of the received shares
\* modulo the group order.
PrivateShare(n) == SumMod(recv[n])

\* MpcSKShareStep.FinishStep: calculateResult sums the received shares
\* into MpcPrivateShare; the GPK step then publishes share*G, signed.
FinishSKShare(n) ==
    /\ Complete(n, SKShareStep)
    /\ LET share == PrivateShare(n) IN
       /\ privShare' = [privShare EXCEPT ![n] = share]
       /\ \E good \in IF n \in Faulty THEN BOOLEAN ELSE {TRUE} :
             Enter(n, GPKStep, net \cup Broadcast(n, GPKStep, PublishedPoint(share, good), good))
    /\ UNCHANGED <<seed, gpk, lost, dups>>

\* The published points of n's GPK step, keyed by their sender's seed.
PointsBySeed(n) ==
    [x \in {seed[p] : p \in DOMAIN recv[n]} |->
        recv[n][CHOOSE p \in DOMAIN recv[n] : seed[p] = x]]

\* The point generator interpolates the stored points at 0; fewer than
\* Degree+1 points cannot be interpolated.
Interpolable(n) == Cardinality(DOMAIN recv[n]) >= Degree + 1

\* GPK step finish: the interpolated GPK becomes MpcContextResult, and
\* AckMpcGPKStep broadcasts it.
FinishGPK(n) ==
    /\ Complete(n, GPKStep)
    /\ \/ /\ Interpolable(n)
          /\ gpk' = [gpk EXCEPT ![n] = LagrangeAt0(PointsBySeed(n))]
          /\ Enter(n, AckGPKStep, net \cup Broadcast(n, AckGPKStep, gpk'[n], TRUE))
       \/ /\ ~Interpolable(n)
          /\ End(n, Failed, net)
          /\ UNCHANGED gpk
    /\ UNCHANGED <<seed, privShare, lost, dups>>

\* AckMpcGPKStep.FinishStep: every peer's GPK must have arrived and equal
\* the local one, else ErrInvalidMPCAddr.
GPKsAgree(n) ==
    /\ Cardinality(DOMAIN recv[n]) = N
    /\ \A p \in DOMAIN recv[n] : recv[n][p] = gpk[n]

FinishAckGPK(n) ==
    /\ Complete(n, AckGPKStep)
    /\ End(n, IF GPKsAgree(n) THEN Done ELSE Failed, net)
    /\ UNCHANGED <<seed, privShare, gpk, lost, dups>>

\* The round timeout of BaseStep.FinishStep fires while replies are missing.
Timeout(n) ==
    /\ ctx[n] \in StepIds
    /\ waiting[n] > 0
    /\ End(n, Failed, net)
    /\ UNCHANGED <<seed, privShare, gpk, lost, dups>>

-----------------------------------------------------------------------------
Arrival(m) == AckGPK(m) \/ Discard(m)

Handle(n, m) ==
    \/ HandleRequest(n, m) \/ HandleReady(n, m) \/ HandleSKShare(n, m)
    \/ HandlePoint(n, m) \/ HandleAckGPK(n, m)

Finish(n) ==
    FinishRequest(n) \/ FinishReady(n) \/ FinishSKShare(n) \/ FinishGPK(n) \/ FinishAckGPK(n)

Next ==
    \/ RequestGPK
    \/ \E m \in net : Arrival(m) \/ Lose(m)
    \/ \E n \in Node : \/ \E m \in net : Handle(n, m)
                       \/ Finish(n)
                       \/ Timeout(n)

\* Each node's receive loop, step goroutine and context driver keep running;
\* the transport, the timers and faults get no fairness.
Fairness ==
    /\ WF_vars(RequestGPK)
    /\ \A n \in Node :
          /\ WF_vars(\E m \in net : m.dst = n /\ Arrival(m))
          /\ WF_vars(\E m \in net : Handle(n, m))
          /\ WF_vars(Finish(n))

Spec == Init /\ [][Next]_vars
FairSpec == Spec /\ Fairness

-----------------------------------------------------------------------------
(* Properties                                                              *)

TypeOK ==
    /\ ctx \in [Node -> {NoCtx, Done, Failed} \cup StepIds]
    /\ waiting \in [Node -> -N .. N]
    /\ seed \in [Node -> {0} \cup SeedPool]
    /\ \A n \in Node : /\ DOMAIN recv[n] \subseteq Node \cup SeedPool \cup {0}
                       /\ \A k \in DOMAIN recv[n] : recv[n][k] \in Field
    /\ ko \in [Node -> Seq(Node)]
    /\ privShare \in [Node -> Field \cup {None}]
    /\ gpk \in [Node -> Field \cup {None}]
    /\ net \subseteq MsgSpace
    /\ lost \in 0 .. MaxLoss /\ dups \in 0 .. MaxDup

\* JRSS correctness (SKShare HandleMessage dedup + calculateResult): the
\* private shares of any Degree+1 nodes that finished SKShare interpolate
\* to the group secret, whatever duplicates, reordering and losses the
\* transport produced.
SharesReconstructSecret ==
    \A S \in SUBSET {n \in Node : privShare[n] /= None} :
        Cardinality(S) = Degree + 1 =>
            LagrangeAt0([x \in {seed[n] : n \in S} |->
                          privShare[CHOOSE n \in S : seed[n] = x]]) = GroupSecret

\* With at-least-once delivery and no timeout, every node completes the run:
\* the request/ready handshake guarantees no step waits for a message that
\* arrived before the receiver had a context.
AllComplete == \A n \in Node : ctx[n] = Done
NoFault == lost = 0 /\ \A n \in Node : ctx[n] /= Failed
RunCompletes == [](NoFault) => <>AllComplete

=============================================================================
