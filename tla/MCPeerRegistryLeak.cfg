\* storeman/storeman.go: a failed handshake leaves its entry behind.
CONSTANTS
    a = a
    b = b
    o = o
    Remote = {a, b, o}
    Group = {a, b}
    Copies = {"storeman"}
    MaxConn = 2

SPECIFICATION Spec
\* Every behaviour stops once each peer used its MaxConn connections; the
\* registry itself never blocks.
CHECK_DEADLOCK FALSE

INVARIANT RegisteredPeersConnected
