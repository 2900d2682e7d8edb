\* Both copies of HandlePeer: a running peer is registered, and the schnorr copy registers only connected peers.
CONSTANTS
    a = a
    b = b
    o = o
    Remote = {a, b, o}
    Group = {a, b}
    Copies = {"storeman", "schnorr"}
    MaxConn = 2

SPECIFICATION Spec
\* Every behaviour stops once each peer used its MaxConn connections; the
\* registry itself never blocks.
CHECK_DEADLOCK FALSE

INVARIANT TypeOK
INVARIANT SchnorrPeersConnected
