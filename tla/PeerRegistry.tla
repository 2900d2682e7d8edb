---------------------------- MODULE PeerRegistry ----------------------------
(***************************************************************************)
(* The storeman node's registry of connected group peers: Storeman.peers   *)
(* under peerMu, filled by HandlePeer (the p2p protocol's Run function,    *)
(* one goroutine per connection) and read by IsActivePeer, SendToPeer and  *)
(* the Peers API.  The repository has two copies of HandlePeer:            *)
(* storeman/storeman.go registers its deferred removal only after the      *)
(* handshake succeeded, schnorr/storeman.go registers it before; copy      *)
(* is the one this node runs, chosen at start from Copies.                 *)
(*                                                                         *)
(* The p2p layer (outside src) runs at most one connection per peer id at  *)
(* a time and starts a new one only after the previous Run returned.      *)
(***************************************************************************)
EXTENDS Integers, FiniteSets

CONSTANTS
    Remote,     \* ids of the nodes that may connect
    Group,      \* storemanPeers: the group members Start read
    Copies,     \* the copies of HandlePeer a node may run
    MaxConn     \* connections the model opens per peer

ASSUME /\ Group \subseteq Remote /\ Copies \subseteq {"storeman", "schnorr"}
       /\ MaxConn \in Nat \ {0}

VARIABLES
    copy,       \* "storeman" or "schnorr": which HandlePeer this node runs
    pc,         \* pc[p]: where p's HandlePeer goroutine is: "idle" (no
                \* connection), "handshake" or "running" (runMessageLoop)
    peers,      \* the keys of Storeman.peers
    conns       \* connections opened so far per peer (bounded by MaxConn)

vars == <<copy, pc, peers, conns>>

Init ==
    /\ copy \in Copies
    /\ pc = [p \in Remote |-> "idle"]
    /\ peers = {}
    /\ conns = [p \in Remote |-> 0]

\* Mutant of IsGroupPeer: the membership check is dropped.
IsGroupPeerAny(p) == TRUE

\* The storemanPeers membership check at the top of HandlePeer.
IsGroupPeer(p) == p \in Group

\* HandlePeer up to the handshake: a group peer's entry is stored.
Register(p) ==
    /\ pc[p] = "idle" /\ conns[p] < MaxConn
    /\ IsGroupPeer(p)
    /\ conns' = [conns EXCEPT ![p] = @ + 1]
    /\ pc' = [pc EXCEPT ![p] = "handshake"]
    /\ peers' = peers \cup {p}
    /\ UNCHANGED copy

\* A connection of a node outside the group: HandlePeer returns an error
\* before touching the registry.
RejectOutsider(p) ==
    /\ pc[p] = "idle" /\ conns[p] < MaxConn
    /\ ~IsGroupPeer(p)
    /\ conns' = [conns EXCEPT ![p] = @ + 1]
    /\ UNCHANGED <<copy, pc, peers>>

\* The handshake succeeds; storemanPeer.start and runMessageLoop follow.
HandshakeOK(p) ==
    /\ pc[p] = "handshake"
    /\ pc' = [pc EXCEPT ![p] = "running"]
    /\ UNCHANGED <<copy, peers, conns>>

\* storeman/storeman.go: the handshake fails and HandlePeer returns before
\* the deferred removal is registered; the entry stays.
HandshakeFailKeep(p) ==
    /\ pc[p] = "handshake"
    /\ pc' = [pc EXCEPT ![p] = "idle"]
    /\ UNCHANGED <<copy, peers, conns>>

\* Mutant of HandshakeFailRemove: the schnorr copy with its defer moved
\* below the handshake, as in the other copy.
HandshakeFailRemoveLate(p) == HandshakeFailKeep(p)

\* schnorr/storeman.go: the handshake fails and the deferred removal,
\* registered before it, deletes the entry.
HandshakeFailRemove(p) ==
    /\ pc[p] = "handshake"
    /\ pc' = [pc EXCEPT ![p] = "idle"]
    /\ peers' = peers \ {p}
    /\ UNCHANGED <<copy, conns>>

\* runMessageLoop returns (read error): the deferred removal deletes the
\* entry (storeman/storeman.go also asks the server to remove the peer).
LoopExit(p) ==
    /\ pc[p] = "running"
    /\ pc' = [pc EXCEPT ![p] = "idle"]
    /\ peers' = peers \ {p}
    /\ UNCHANGED <<copy, conns>>

Next ==
    \/ \E p \in Remote :
          \/ Register(p) \/ RejectOutsider(p) \/ HandshakeOK(p) \/ LoopExit(p)
          \/ copy = "storeman" /\ HandshakeFailKeep(p)
          \/ copy = "schnorr" /\ HandshakeFailRemove(p)

Spec == Init /\ [][Next]_vars

-----------------------------------------------------------------------------
(* Properties                                                              *)

TypeOK ==
    /\ copy \in Copies
    /\ pc \in [Remote -> {"idle", "handshake", "running"}]
    /\ peers \subseteq Group
    /\ conns \in [Remote -> 0 .. MaxConn]

\* Every entry of Storeman.peers has a live connection: IsActivePeer,
\* SendToPeer and the peer count handed to the distributor
\* (SetCurPeerCount(len(peers))) see only peers that can still be reached.
RegisteredPeersConnected ==
    \A p \in peers : pc[p] /= "idle"

\* What RegisteredPeersConnected promises holds for the schnorr copy.
SchnorrPeersConnected ==
    copy = "schnorr" => RegisteredPeersConnected

=============================================================================
