\* Every peer follows the code; the signer and the verifier hash m differently.
CONSTANTS
    n1 = n1
    n2 = n2
    n3 = n3
    Node <- MCNode
    X <- MCX
    P = 5
    Degree = 1
    KeyPoly <- MCKeyPoly
    NoncePolys <- MCNoncePolys
    HashS <- MCHashS
    HashV <- MCHashV
    Faulty = {}

SPECIFICATION Spec
\* A run ends once every honest node has finished or failed its last step.
CHECK_DEADLOCK FALSE

INVARIANT SignatureVerifies
