------------------------ MODULE DeploymentRefinement ------------------------
(***************************************************************************)
(* Deployment implements AttestedCall: each step of its programs, servers, *)
(* relays and Nonclaves is a step of the abstract service or changes       *)
(* nothing of it.                                                          *)
(***************************************************************************)
EXTENDS DeploymentProofs

-----------------------------------------------------------------------------
(* The refinement mapping.                                                 *)

Clients == [n \in Nonclave |-> ClientOf(n)]
Answers == [n \in Nonclave |-> AnswerOf(n)]

\* Where a client is stands for one state of the abstract client.
LEMMA ClientStates ==
  ASSUME NEW n \in Nonclave
  PROVE  /\ nonclave[n] = "start" => ClientOf(n) = "idle"
         /\ nonclave[n] \in {"fetching", "verifyingCert", "calling", "verifyingCall"} =>
              ClientOf(n) = "asked"
         /\ nonclave[n] = "accepted" => ClientOf(n) = "accepted"
         /\ nonclave[n] \in {"misconfigured", "failed"} => ClientOf(n) = "failed"
  BY DEF ClientOf

\* The same after a step.
LEMMA ClientStatesNext ==
  ASSUME NEW n \in Nonclave
  PROVE  /\ nonclave'[n] = "start" => ClientOf(n)' = "idle"
         /\ nonclave'[n] \in {"fetching", "verifyingCert", "calling", "verifyingCall"} =>
              ClientOf(n)' = "asked"
         /\ nonclave'[n] = "accepted" => ClientOf(n)' = "accepted"
         /\ nonclave'[n] \in {"misconfigured", "failed"} => ClientOf(n)' = "failed"
  BY DEF ClientOf

\* A report is what it is, anything else is no answer.
LEMMA AnswerStates ==
  ASSUME NEW n \in Nonclave
  PROVE  /\ reply[n] \in Report => AnswerOf(n) = reply[n] /\ AnswerOf(n) # NoReply
         /\ reply[n] \in {NoReply, Error} => AnswerOf(n) = NoReply
  BY SentinelsAssumption DEF AnswerOf

\* The same after a step.
LEMMA AnswerStatesNext ==
  ASSUME NEW n \in Nonclave
  PROVE  /\ reply'[n] \in Report => AnswerOf(n)' = reply'[n]
         /\ reply'[n] \in {NoReply, Error} => AnswerOf(n)' = NoReply
  BY SentinelsAssumption DEF AnswerOf

\* What replies may be is a report, and so neither nothing nor an error.
LEMMA ReportsOfCalls ==
  ASSUME TypeOK
  PROVE  ChainReport \subseteq Report /\ CallReport \subseteq Report
  BY Programs DEF TypeOK, ChainReport, CallReport, Report

\* What is issued in an example is what it promises.
LEMMA KeptBodies ==
  ASSUME TypeOK
  PROVE  EnclaveOf[example].attests \subseteq Promised[example]
  BY Programs DEF TypeOK, Promised

-----------------------------------------------------------------------------
(* Steps.                                                                  *)

\* A step that leaves clients and Enclave alone is none of the service.
LEMMA Stutters ==
  ASSUME UNCHANGED <<example, inc, nonclave, trusted, reply>>
  PROVE  UNCHANGED Call!vars
  BY DEF Call!vars, ClientOf, AnswerOf

\* A client's step changes what is mapped from its variables, if anything.
LEMMA OwnStep ==
  ASSUME TypeOK, NEW n \in Nonclave, ClientStep(n)
  PROVE  /\ UNCHANGED <<example, inc>>
         /\ Clients' = [Clients EXCEPT ![n] = ClientOf(n)']
         /\ Answers' = [Answers EXCEPT ![n] = AnswerOf(n)']
         /\ Clients[n] = ClientOf(n) /\ Answers[n] = AnswerOf(n)
<1>1. ASSUME NEW m \in Nonclave, m # n
      PROVE  nonclave'[m] = nonclave[m] /\ reply'[m] = reply[m]
  BY <1>1, ClientStepOwn DEF TypeOK
<1>2. ASSUME NEW m \in Nonclave, m # n
      PROVE  ClientOf(m)' = ClientOf(m) /\ AnswerOf(m)' = AnswerOf(m)
  BY <1>1, <1>2 DEF ClientOf, AnswerOf
<1> QED
  BY <1>2, ClientStepOwn DEF Clients, Answers

\* If what is mapped is as it was, the step is none of the service.
LEMMA OwnStutters ==
  ASSUME TypeOK, NEW n \in Nonclave, ClientStep(n), UNCHANGED trusted,
         ClientOf(n)' = ClientOf(n), AnswerOf(n)' = AnswerOf(n)
  PROVE  UNCHANGED Call!vars
<1>1. Clients' = Clients /\ Answers' = Answers
  BY OwnStep DEF Clients, Answers
<1> QED
  BY <1>1, OwnStep DEF Call!vars, Clients, Answers

\* A client that ends without a report that it accepts.
LEMMA Fails ==
  ASSUME TypeOK, NEW n \in Nonclave, ClientStep(n),
         nonclave[n] \in {"start", "fetching", "verifyingCert", "calling", "verifyingCall"},
         nonclave'[n] \in {"misconfigured", "failed"}, UNCHANGED <<trusted, reply>>
  PROVE  Call!Fail(n)
<1>1. ClientOf(n) \in {"idle", "asked"} /\ ClientOf(n)' = "failed"
  BY ClientStates, ClientStatesNext
<1>2. AnswerOf(n)' = AnswerOf(n)
  BY DEF AnswerOf
<1>3. Answers' = Answers
  BY <1>2, OwnStep DEF Answers
<1> QED
  BY <1>1, <1>3, OwnStep DEF Call!Fail, Clients, Answers

\* The main of a Nonclave asks, is bound to a certificate, accepts or fails.
LEMMA NonclaveRefines ==
  ASSUME IInv, NEW n \in Nonclave,
         NonclaveStarts(n) \/ NonclaveSetupFails(n) \/ NonclaveStep(n)
  PROVE  [Call!Next]_(Call!vars)
<1>1. TypeOK /\ ClientInv(n) /\ ClientStep(n)
  BY DEF IInv, ClientStep
<1>2. SUFFICES Call!Ask(n) \/ Call!Bind(n) \/ Call!Accept(n) \/ Call!Fail(n) \/ UNCHANGED Call!vars
  BY DEF Call!Next
<1>3. CASE NonclaveStarts(n)
  <2>1. nonclave'[n] \in {"fetching", "calling"}
    BY <1>1, <1>3, Programs DEF TypeOK, NonclaveStarts
  <2>2. ClientOf(n) = "idle" /\ ClientOf(n)' = "asked"
    BY <1>3, <2>1, ClientStates, ClientStatesNext DEF NonclaveStarts
  <2>3. UNCHANGED <<trusted, reply>>
    BY <1>3 DEF NonclaveStarts
  <2>4. Answers' = Answers
    BY <2>3 DEF Answers, AnswerOf
  <2>5. Call!Ask(n)
    BY <1>1, <2>2, <2>3, <2>4, OwnStep DEF Call!Ask, Clients, Answers
  <2> QED
    BY <2>5
<1>4. CASE NonclaveSetupFails(n)
  BY <1>1, <1>4, Fails DEF TypeOK, NonclaveSetupFails
<1>5. CASE Connect(n)
  BY <1>5, Stutters DEF Connect
<1>6. CASE RequestFails(n)
  BY <1>1, <1>6, Fails DEF TypeOK, RequestFails, Asking, End
<1>7. CASE GetResponse(n)
  <2>1. Asking(n) /\ UNCHANGED <<trusted, reply>>
    BY <1>7 DEF GetResponse
  <2>2. nonclave'[n] \in {"failed", "verifyingCert", "verifyingCall"}
    BY <1>1, <1>7 DEF TypeOK, GetResponse
  <2>3. CASE nonclave'[n] = "failed"
    BY <1>1, <2>1, <2>3, Fails DEF Asking
  <2>4. CASE nonclave'[n] # "failed"
    <3>1. ClientOf(n) = "asked" /\ ClientOf(n)' = "asked"
      BY <2>1, <2>2, <2>4, ClientStates, ClientStatesNext DEF Asking
    <3> QED
      BY <1>1, <2>1, <3>1, OwnStutters DEF AnswerOf
  <2> QED
    BY <2>3, <2>4
<1>8. CASE VerifyCert(n) /\ n \in Mismatched
  BY <1>1, <1>8, Fails DEF TypeOK, VerifyCert
<1>9. CASE VerifyCert(n) /\ n \notin Mismatched
  <2>1. /\ nonclave[n] = "verifyingCert" /\ nonclave'[n] = "calling" /\ reply'[n] = NoReply
        /\ trusted' = [trusted EXCEPT ![n] = @ \union {reply[n].by}]
    BY <1>1, <1>9 DEF TypeOK, VerifyCert, AddCertChain
  <2>2. reply[n] \in ChainReport /\ trusted[n] = {}
    BY <1>1, <2>1 DEF ClientInv, OnItsWay, RepliesFit, TrustsOne
  <2>3. trusted' = [trusted EXCEPT ![n] = {reply[n].by}]
    BY <2>1, <2>2
  <2>4. ClientOf(n) = "asked" /\ ClientOf(n)' = "asked"
    BY <2>1, ClientStates, ClientStatesNext
  <2>5. /\ AnswerOf(n) = reply[n] /\ AnswerOf(n) # NoReply /\ AnswerOf(n).body = "chain"
        /\ AnswerOf(n)' = NoReply
    BY <1>1, <2>1, <2>2, ReportsOfCalls, AnswerStates, AnswerStatesNext DEF ChainReport
  <2>6. Clients' = Clients
    BY <1>1, <2>4, OwnStep DEF Clients
  <2>7. Call!Bind(n)
    BY <1>1, <2>3, <2>4, <2>5, <2>6, OwnStep DEF Call!Bind, Clients, Answers
  <2> QED
    BY <2>7
<1>10. CASE VerifyCall(n)
  <2>1. nonclave[n] = "verifyingCall" /\ UNCHANGED <<trusted, reply>>
    BY <1>10 DEF VerifyCall
  <2>2. nonclave'[n] \in {"accepted", "failed"}
    BY <1>1, <1>10 DEF TypeOK, VerifyCall
  <2>3. CASE nonclave'[n] = "failed"
    BY <1>1, <2>1, <2>3, Fails
  <2>4. CASE nonclave'[n] = "accepted"
    <3>1. ClientOf(n) = "asked" /\ ClientOf(n)' = "accepted"
      BY <2>1, <2>4, ClientStates, ClientStatesNext
    <3>2. reply[n] \in CallReport /\ reply[n].body # "chain"
      BY <1>1, <2>1 DEF ClientInv, RepliesFit, TypeOK
    <3>3. AnswerOf(n) = reply[n] /\ AnswerOf(n) # NoReply
      BY <1>1, <3>2, ReportsOfCalls, AnswerStates
    <3>4. Answers' = Answers
      BY <2>1 DEF Answers, AnswerOf
    <3>5. Call!Accept(n)
      BY <1>1, <2>1, <3>1, <3>2, <3>3, <3>4, OwnStep DEF Call!Accept, Clients, Answers
    <3> QED
      BY <3>5
  <2> QED
    BY <2>2, <2>3, <2>4
<1> QED
  BY <1>3, <1>4, <1>5, <1>6, <1>7, <1>8, <1>9, <1>10 DEF NonclaveStep

\* The servers on the way give the client nothing but an error.
LEMMA RelayRefines ==
  ASSUME IInv, NEW n \in Nonclave, RelayStep(n)
  PROVE  UNCHANGED Call!vars
<1>1. TypeOK /\ ClientInv(n) /\ ClientStep(n)
  BY DEF IInv, ClientStep
<1>2. UNCHANGED <<nonclave, trusted>> /\ request[n] # "none"
  BY DEF RelayStep, Forward, HandshakeFails, HandleCall, RemoteAnswers, At
<1>3. reply[n] = NoReply /\ reply'[n] \in {NoReply, Error}
  BY <1>1, <1>2 DEF TypeOK, ClientInv, OnItsWay, RelayStep, Forward, HandshakeFails,
                    HandleCall, RemoteAnswers, Answer
<1>4. ClientOf(n)' = ClientOf(n) /\ AnswerOf(n)' = AnswerOf(n)
  BY <1>2, <1>3, AnswerStates, AnswerStatesNext DEF ClientOf
<1> QED
  BY <1>1, <1>2, <1>4, OwnStutters

\* The Enclave certifies or attests, or answers with an error.
LEMMA AttestingRefines ==
  ASSUME IInv, NEW n \in Nonclave, AttestingStep(n)
  PROVE  [Call!Next]_(Call!vars)
<1>1. TypeOK /\ ClientInv(n) /\ ClientStep(n)
  BY DEF IInv, ClientStep
<1>2. SUFFICES Call!Certify(n) \/ Call!Attest(n) \/ UNCHANGED Call!vars
  BY DEF Call!Next
<1>3. UNCHANGED <<nonclave, trusted>> /\ Asking(n) /\ request[n] \in {"cert", "attest"}
  BY DEF AttestingStep, AttestCert, AttestCall, At
<1>4. ClientOf(n) = "asked" /\ ClientOf(n)' = "asked" /\ Clients' = Clients
  BY <1>3, ClientStates, ClientStatesNext DEF Asking, Clients, ClientOf
<1>5. reply[n] = NoReply /\ AnswerOf(n) = NoReply
  BY <1>1, <1>3, AnswerStates DEF ClientInv, OnItsWay
<1>6. CASE reply'[n] = Error
  BY <1>1, <1>3, <1>4, <1>5, <1>6, AnswerStatesNext, OwnStutters
<1>7. CASE AttestCert(n) /\ reply'[n] = [by |-> inc, body |-> "chain"]
  <2>1. nonclave[n] = "fetching" /\ example = "https" /\ trusted[n] = {}
    BY <1>1, <1>3, <1>7 DEF AttestCert, At, Asking, ClientInv, OnItsWay, TrustsOne, FirstHop
  <2>2. AnswerOf(n)' = [by |-> inc, body |-> "chain"]
    BY <1>1, <1>7, AnswerStatesNext DEF TypeOK, Report
  <2>3. Call!Certify(n)
    BY <1>1, <1>3, <1>4, <1>5, <2>1, <2>2, OwnStep DEF Call!Certify, Clients, Answers
  <2> QED
    BY <2>3
<1>8. ASSUME AttestCall(n), NEW b \in EnclaveOf[example].attests,
             reply'[n] = [by |-> inc, body |-> b]
      PROVE  Call!Attest(n)
  <2>1. nonclave[n] = "calling" /\ request[n] = "attest"
    BY <1>1, <1>3, <1>8 DEF AttestCall, Asking, ClientInv, OnItsWay
  <2>2. example = "https" => trusted[n] = {inc}
    BY <1>1, <2>1 DEF ClientInv, TrustsOne
  <2>3. AnswerOf(n)' = [by |-> inc, body |-> b]
    BY <1>1, <1>8, Programs, AnswerStatesNext DEF TypeOK, Report
  <2>4. b \in Promised[example]
    BY <1>1, KeptBodies
  <2> QED
    BY <1>1, <1>3, <1>4, <1>5, <2>2, <2>3, <2>4, OwnStep DEF Call!Attest, Clients, Answers
<1>9. CASE AttestCert(n)
  BY <1>1, <1>6, <1>7, <1>9 DEF TypeOK, AttestCert, Answer
<1>10. CASE AttestCall(n)
  <2>1. \/ reply'[n] = Error
        \/ \E b \in EnclaveOf[example].attests : reply'[n] = [by |-> inc, body |-> b]
    BY <1>1, <1>10 DEF TypeOK, AttestCall, Answer
  <2> QED
    BY <1>6, <1>8, <1>10, <2>1
<1> QED
  BY <1>9, <1>10 DEF AttestingStep

\* Programs, servers and deployment tools change nothing but which Enclave it is.
LEMMA SystemRefines ==
  ASSUME IInv, SystemStep
  PROVE  [Call!Next]_(Call!vars)
<1>1. UNCHANGED <<example, nonclave, trusted, reply>> /\ (inc' = inc \/ Restart)
  BY SystemStepBreaks DEF IInv
<1>2. CASE inc' = inc
  BY <1>1, <1>2, Stutters
<1>3. CASE Restart
  <2>1. Clients' = Clients /\ Answers' = Answers
    BY <1>1 DEF Clients, Answers, ClientOf, AnswerOf
  <2>2. Call!Replace
    BY <1>1, <1>3, <2>1 DEF Restart, Call!Replace, Clients, Answers
  <2> QED
    BY <2>2 DEF Call!Next
<1> QED
  BY <1>1, <1>2, <1>3

-----------------------------------------------------------------------------
\* Any of the four examples keeps the promise of AttestedCall: under every
\* fault, a report is issued by the Enclave that is there, in hello-https to a
\* client that trusts its certificate and no other, and accepted at most once.
THEOREM ImplementsAttestedCall == Spec => KeepsCallPromise
<1>1. Init => Call!Init
  BY SentinelsAssumption DEF Init, Call!Init, Promised, ClientOf, AnswerOf
<1>2. ASSUME IInv, [Next]_vars PROVE [Call!Next]_(Call!vars)
  <2>1. CASE SystemStep
    BY <1>2, <2>1, SystemRefines
  <2>2. ASSUME NEW n \in Nonclave, ClientStep(n) PROVE [Call!Next]_(Call!vars)
    BY <1>2, <2>2, NonclaveRefines, RelayRefines, AttestingRefines DEF ClientStep
  <2>3. CASE UNCHANGED vars
    BY <2>3, Stutters DEF vars
  <2> QED
    BY <1>2, <2>1, <2>2, <2>3 DEF Next, SystemStep, ClientStep
<1> QED
  BY <1>1, <1>2, Invariance, PTL DEF Spec, KeepsCallPromise, Call!Spec
=============================================================================
