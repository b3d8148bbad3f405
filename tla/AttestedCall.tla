----------------------------- MODULE AttestedCall -----------------------------
(***************************************************************************)
(* What the examples hello-https, hello-http, hello-expr and hello-cel     *)
(* promise their clients, with processes, servers, proxies, TLS and        *)
(* configuration left out: a client accepts at most one report, which the  *)
(* Enclave that was there made while the client asked for it.  In          *)
(* hello-https that is the Enclave of one certificate, attested before.    *)
(* An Enclave may be replaced by another one of the same measurement at    *)
(* any time; so reports say who made them, which no client can see.        *)
(***************************************************************************)
EXTENDS Naturals

CONSTANTS
  Client,
  Bodies,    \* Bodies[e]: what may be attested in example e
  NoAnswer

VARIABLES
  example,   \* which of the examples it is
  enclave,   \* the Enclave that is there
  client,    \* client[n]: how far it has come
  bound,     \* bound[n]: the Enclaves whose certificates n trusts
  answer     \* answer[n]: the report n was last given

vars == <<example, enclave, client, bound, answer>>

Init ==
  /\ example \in DOMAIN Bodies
  /\ enclave = 0
  /\ client = [n \in Client |-> "idle"]
  /\ bound = [n \in Client |-> {}]
  /\ answer = [n \in Client |-> NoAnswer]

Replace ==
  /\ enclave' = enclave + 1
  /\ UNCHANGED <<example, client, bound, answer>>

Ask(n) ==
  /\ client[n] = "idle"
  /\ client' = [client EXCEPT ![n] = "asked"]
  /\ UNCHANGED <<example, enclave, bound, answer>>

\* The Enclave attests its certificate.
Certify(n) ==
  /\ example = "https"
  /\ client[n] = "asked"
  /\ bound[n] = {}
  /\ answer[n] = NoAnswer
  /\ answer' = [answer EXCEPT ![n] = [by |-> enclave, body |-> "chain"]]
  /\ UNCHANGED <<example, enclave, client, bound>>

\* From now on the client deals with that Enclave only.
Bind(n) ==
  /\ client[n] = "asked"
  /\ answer[n] # NoAnswer /\ answer[n].body = "chain"
  /\ bound' = [bound EXCEPT ![n] = {answer[n].by}]
  /\ answer' = [answer EXCEPT ![n] = NoAnswer]
  /\ UNCHANGED <<example, enclave, client>>

\* The Enclave attests the result of a call.
Attest(n) ==
  /\ client[n] = "asked"
  /\ answer[n] = NoAnswer
  /\ example = "https" => bound[n] = {enclave}
  /\ \E b \in Bodies[example] : answer' = [answer EXCEPT ![n] = [by |-> enclave, body |-> b]]
  /\ UNCHANGED <<example, enclave, client, bound>>

Accept(n) ==
  /\ client[n] = "asked"
  /\ answer[n] # NoAnswer /\ answer[n].body # "chain"
  /\ client' = [client EXCEPT ![n] = "accepted"]
  /\ UNCHANGED <<example, enclave, bound, answer>>

Fail(n) ==
  /\ client[n] \in {"idle", "asked"}
  /\ client' = [client EXCEPT ![n] = "failed"]
  /\ UNCHANGED <<example, enclave, bound, answer>>

Next ==
  \/ Replace
  \/ \E n \in Client : \/ Ask(n) \/ Certify(n) \/ Bind(n)
                       \/ Attest(n) \/ Accept(n) \/ Fail(n)

Spec == Init /\ [][Next]_vars
=============================================================================
