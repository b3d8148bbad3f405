---------------------------- MODULE MCHelloWorld ----------------------------
(* Small instances of HelloWorld for TLC. *)
EXTENDS HelloWorld

CONSTANTS n1, n2, n3, data, fixed

\* The library's clients choose their nonce; a client may send no user data.
OwnNonce == [n \in Nonclave |-> n]
SomeData == [n \in Nonclave |-> IF n = n1 THEN Empty ELSE n]

\* hello-world/nonclave: the same nonce and user data in every run.
FixedNonce == [n \in Nonclave |-> fixed]
FixedData == [n \in Nonclave |-> data]

AllFaults == FaultKind
SetupFaults == {"setup"}
NoFaults == {}
=============================================================================
