------------------------- MODULE AttestedEvaluation -------------------------
(***************************************************************************)
(* What an Enclave that evaluates expressions promises its clients, with   *)
(* the engine, its goroutines and deadlines left out: each request is      *)
(* answered once, with an error, or with a report on exactly what was      *)
(* asked and on one result of evaluating just that, obtained before the    *)
(* answer.  An evaluation may go on, and succeed, after its request has    *)
(* been refused; nobody hears of it.                                       *)
(***************************************************************************)

CONSTANTS
  Request,
  Correct,     \* Correct[r]: what evaluating the expression of r may result in
  NoOutput,    \* the result of a request that has none
  NoResponse,
  Error        \* the answer to a request that is refused

VARIABLES
  asked,       \* the requests that have arrived
  result,      \* result[r]: what the evaluation of r resulted in
  answer       \* answer[r]: the response to r

vars == <<asked, result, answer>>

Init ==
  /\ asked = {}
  /\ result = [r \in Request |-> NoOutput]
  /\ answer = [r \in Request |-> NoResponse]

Ask(r) ==
  /\ r \notin asked
  /\ asked' = asked \union {r}
  /\ UNCHANGED <<result, answer>>

Evaluate(r) ==
  /\ r \in asked
  /\ result[r] = NoOutput
  /\ \E v \in Correct[r] : result' = [result EXCEPT ![r] = v]
  /\ UNCHANGED <<asked, answer>>

Refuse(r) ==
  /\ r \in asked
  /\ answer[r] = NoResponse
  /\ answer' = [answer EXCEPT ![r] = Error]
  /\ UNCHANGED <<asked, result>>

Attest(r) ==
  /\ answer[r] = NoResponse
  /\ result[r] # NoOutput
  /\ answer' = [answer EXCEPT ![r] = [expression |-> r, env |-> r, output |-> result[r]]]
  /\ UNCHANGED <<asked, result>>

Next == \E r \in Request : Ask(r) \/ Evaluate(r) \/ Refuse(r) \/ Attest(r)

Spec == Init /\ [][Next]_vars
=============================================================================
