---------------------------- MODULE MCDeployment ----------------------------
(* Small instances of Deployment for TLC. *)
EXTENDS Deployment

CONSTANTS n1, n2, localhost, other

AllFaults == FaultKind
SetupFaults == {"setup"}

\* No "args" in a configuration file.
NoArgs == [k \in {} |-> NotString]
NobodysArgs == [n \in Nonclave |-> NoArgs]

\* n1 has no "args", n2 expects another domain than the Enclave has.
OthersArgs == [n \in Nonclave |-> IF n = n2 THEN [domain |-> other] ELSE NoArgs]

\* The domain of n1 is no string: it falls back on the host it dials.
OddArgs == [n \in Nonclave |-> IF n = n1 THEN [domain |-> NotString] ELSE NoArgs]
=============================================================================
