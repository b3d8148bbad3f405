--------------------------- MODULE WitnessService ---------------------------
(***************************************************************************)
(* What the hello-world example promises a Nonclave, with the Proxy, the   *)
(* sockets and the HTTP exchange left out: a client asks the Enclave to    *)
(* witness its data, the Enclave witnesses data that some client asked it  *)
(* to witness, at most once per request, and a client accepts a report     *)
(* only when the report was issued and carries the client's own nonce.     *)
(* The nonce is all that ties a report to the client: who asked for it is  *)
(* recorded in "origin", which no program of the example can see.          *)
(***************************************************************************)

CONSTANTS
  Nonclave,   \* the clients, each one run of hello-world/nonclave
  Nonce,      \* Nonce[n]: the nonce client n sends and verifies with
  UserData,   \* UserData[n]: the data client n wants witnessed
  NoReport    \* the verdict of a client that has accepted nothing

VARIABLES
  client,     \* client[n]: how far client n has come
  witnessed,  \* the reports the Enclave has issued
  verdict     \* verdict[n]: the report client n has accepted

vars == <<client, witnessed, verdict>>

\* The report the Enclave issues for the request of client n.
ReportFor(n) == [origin |-> n, nonce |-> Nonce[n], userData |-> UserData[n]]

Report == {ReportFor(n) : n \in Nonclave}

Init ==
  /\ client = [n \in Nonclave |-> "idle"]
  /\ witnessed = {}
  /\ verdict = [n \in Nonclave |-> NoReport]

Ask(n) ==
  /\ client[n] = "idle"
  /\ client' = [client EXCEPT ![n] = "asked"]
  /\ UNCHANGED <<witnessed, verdict>>

\* The client may have given up by the time its data is witnessed.
Witness(n) ==
  /\ client[n] # "idle"
  /\ ReportFor(n) \notin witnessed
  /\ witnessed' = witnessed \union {ReportFor(n)}
  /\ UNCHANGED <<client, verdict>>

Accept(n, rep) ==
  /\ client[n] = "asked"
  /\ rep.nonce = Nonce[n]
  /\ client' = [client EXCEPT ![n] = "accepted"]
  /\ verdict' = [verdict EXCEPT ![n] = rep]
  /\ UNCHANGED witnessed

Fail(n) ==
  /\ client[n] \in {"idle", "asked"}
  /\ client' = [client EXCEPT ![n] = "failed"]
  /\ UNCHANGED <<witnessed, verdict>>

Next ==
  \E n \in Nonclave :
    \/ Ask(n)
    \/ Witness(n)
    \/ \E rep \in witnessed : Accept(n, rep)
    \/ Fail(n)

Spec == Init /\ [][Next]_vars
=============================================================================
