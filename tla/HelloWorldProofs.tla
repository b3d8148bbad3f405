-------------------------- MODULE HelloWorldProofs --------------------------
(***************************************************************************)
(* Theorems about HelloWorld, for any number of clients, any nonces and    *)
(* user data, and any set of faults.                                       *)
(***************************************************************************)
EXTENDS HelloWorld, TLAPS

-----------------------------------------------------------------------------
(* Messages.                                                               *)

\* Decoding a request into a zero struct yields what the client asked for.
LEMMA UnmarshalFresh ==
  ASSUME NEW n \in Nonclave
  PROVE  Unmarshal(n, DecodeTarget) = RequestOf(n)
  BY DEF Unmarshal, DecodeTarget, ZeroRequest, RequestOf

\* The report of what a client asked for is a report.
LEMMA ReportOfRequest ==
  ASSUME NEW n \in Nonclave
  PROVE  /\ RequestOf(n) \in AttestUserDataRequest
         /\ ReportOn(n, RequestOf(n)) \in Report
<1>1. RequestOf(n) \in AttestUserDataRequest
  BY DEF RequestOf, AttestUserDataRequest
<1>2. ReportOn(n, RequestOf(n)) \in Report
  BY <1>1 DEF Report
<1> QED
  BY <1>1, <1>2

-----------------------------------------------------------------------------
(* Type correctness.                                                       *)

LEMMA TypeInit == Init => TypeOK
  BY DEF Init, TypeOK, AttestUserDataRequest, ZeroRequest

\* When the Proxy exits each handler that was at work has returned, with an
\* error, and the others are as they were.
LEMMA ProxyExitCuts ==
  ASSUME TypeOK, ProxyExits
  PROVE  /\ proxy' = "exited" /\ toProxy' = {}
         /\ handler' \in [Nonclave -> {"idle", "returned"}]
         /\ reply' = [n \in Nonclave |-> NoReply]
         /\ response' \in [Nonclave -> Report \union {NoResponse, Error}]
         /\ \A n \in Nonclave :
              \/ /\ handler[n] \in {"idle", "returned"}
                 /\ handler'[n] = handler[n] /\ response'[n] = response[n]
              \/ /\ handler[n] \notin {"idle", "returned"}
                 /\ handler'[n] = "returned"
                 /\ response[n] = NoResponse /\ response'[n] = Error
  BY DEF TypeOK, ProxyExits

\* A step after which the Proxy has exited keeps the types of its variables.
LEMMA ProxyExitTypes ==
  ASSUME TypeOK, ProxyExits, UNCHANGED nonclave, NEW n \in Nonclave
  PROVE  /\ nonclave'[n] = "start" => handler'[n] = "idle"
         /\ reply'[n] \in IF handler'[n] = "replying" THEN Reply ELSE {NoReply}
         /\ response'[n] \in IF handler'[n] = "returned" THEN Report \union {Error}
                                                       ELSE {NoResponse}
         /\ handler'[n] \in {"idle", "returned"}
<1>1. reply'[n] = NoReply /\ handler'[n] \in {"idle", "returned"}
  BY ProxyExitCuts
<1>2. nonclave[n] = "start" => handler[n] = "idle"
  BY DEF TypeOK
<1>3. response[n] \in IF handler[n] = "returned" THEN Report \union {Error} ELSE {NoResponse}
  BY DEF TypeOK
<1> QED
  BY <1>1, <1>2, <1>3, ProxyExitCuts

\* One step for each action; only the variables an action assigns are cited.
LEMMA TypeNext == TypeOK /\ [Next]_vars => TypeOK'
<1> SUFFICES ASSUME TypeOK, [Next]_vars PROVE TypeOK'
  OBVIOUS
<1> USE DEF EnclaveListens
<1>1. ASSUME NEW n \in Nonclave, SetupFails(n) \/ Refused(n) PROVE TypeOK'
  BY <1>1 DEF TypeOK, SetupFails, Refused, proxyVars, network, enclaveVars, history
<1>2. ASSUME NEW n \in Nonclave, Ask(n) PROVE TypeOK'
  <2>1. before' \in [Nonclave -> SUBSET Report]
    BY <1>2 DEF TypeOK, Ask
  <2> QED
    BY <1>2, <2>1 DEF TypeOK, Ask, network, enclaveVars
<1>3. ASSUME NEW n \in Nonclave, RequestFails(n) PROVE TypeOK'
  BY <1>3 DEF TypeOK, RequestFails, proxyVars, network, enclaveVars, history
<1>4. ASSUME NEW n \in Nonclave, GetResponse(n) PROVE TypeOK'
  BY <1>4 DEF TypeOK, GetResponse, proxyVars, network, enclaveVars, history
<1>5. ASSUME NEW n \in Nonclave, Verify(n) PROVE TypeOK'
  BY <1>5 DEF TypeOK, Verify, proxyVars, network, enclaveVars, history
<1>6. ASSUME NEW n \in Nonclave, HandlerStep(n) PROVE TypeOK'
  <2>1. CASE ReadBody(n)
    BY <2>1 DEF TypeOK, ReadBody, clientVars, network, enclaveVars, history
  <2>2. CASE ReadBodyFails(n)
    BY <2>2 DEF TypeOK, ReadBodyFails, Returns, network, enclaveVars, history
  <2>3. CASE ProxySend(n)
    <3>1. [origin |-> n, whole |-> TRUE] \in Request
      BY DEF Request
    <3> QED
      BY <2>3, <3>1 DEF TypeOK, ProxySend, clientVars, enclaveVars, history
  <2>4. CASE ProxySendFails(n)
    <3>1. \A whole \in BOOLEAN : [origin |-> n, whole |-> whole] \in Request
      BY DEF Request
    <3> QED
      BY <2>4, <3>1 DEF TypeOK, ProxySendFails, Returns, enclaveVars, history
  <2>5. CASE ProxyReceive(n)
    BY <2>5 DEF TypeOK, ProxyReceive, clientVars, enclaveVars, history
  <2>6. CASE ProxyReceiveFails(n)
    BY <2>6 DEF TypeOK, ProxyReceiveFails, Returns, enclaveVars, history
  <2>7. CASE ProxyReply(n)
    <3>1. reply[n].report \in Report
      BY <2>7 DEF TypeOK, ProxyReply, Reply
    <3> QED
      BY <2>7, <3>1 DEF TypeOK, ProxyReply, Returns, network, enclaveVars, history
  <2> QED
    BY <1>6, <2>1, <2>2, <2>3, <2>4, <2>5, <2>6, <2>7 DEF HandlerStep
<1>7. ASSUME EnclaveStep PROVE TypeOK'
  <2>1. CASE EnclaveReceive
    BY <2>1 DEF TypeOK, EnclaveReceive, clientVars, proxyVars, history
  <2>2. CASE EnclaveReceiveFails
    BY <2>2 DEF TypeOK, EnclaveReceiveFails, EnclaveExits, clientVars, proxyVars, history
  <2>3. CASE EnclaveAttest
    <3>1. reqBytes.origin \in Nonclave
      BY <2>3 DEF TypeOK, EnclaveAttest, Decodes, Request
    <3>2. req' = RequestOf(reqBytes.origin)
      BY <2>3, <3>1, UnmarshalFresh DEF EnclaveAttest
    <3>3. req' \in AttestUserDataRequest /\ attested' \in Report
      BY <2>3, <3>1, <3>2, ReportOfRequest DEF EnclaveAttest
    <3> QED
      BY <2>3, <3>3 DEF TypeOK, EnclaveAttest, clientVars, proxyVars, network
  <2>4. CASE EnclaveUnmarshalFails
    BY <2>4 DEF TypeOK, EnclaveUnmarshalFails, EnclaveExits, clientVars, proxyVars, history
  <2>5. CASE EnclaveAttestFails
    BY <2>5 DEF TypeOK, EnclaveAttestFails, EnclaveExits, clientVars, proxyVars, history
  <2>6. CASE EnclaveSend
    <3>1. [report |-> attested, whole |-> TRUE] \in Reply
      BY <2>6 DEF TypeOK, EnclaveSend, Reply
    <3> QED
      BY <2>6, <3>1 DEF TypeOK, EnclaveSend, clientVars, proxyVars, history
  <2>7. CASE EnclaveSendFails
    <3>1. \A whole \in BOOLEAN : [report |-> attested, whole |-> whole] \in Reply
      BY <2>7 DEF TypeOK, EnclaveSendFails, Reply
    <3> QED
      BY <2>7, <3>1 DEF TypeOK, EnclaveSendFails, EnclaveExits, clientVars, proxyVars, history
  <2>8. CASE EnclaveStarts
    BY <2>8 DEF TypeOK, EnclaveStarts, clientVars, proxyVars, network, history
  <2>9. CASE EnclaveSetupFails
    BY <2>9 DEF TypeOK, EnclaveSetupFails, EnclaveExits, clientVars, proxyVars, history
  <2> QED
    BY <1>7, <2>1, <2>2, <2>3, <2>4, <2>5, <2>6, <2>7, <2>8, <2>9 DEF EnclaveStep
<1>8. CASE ProxyStarts
  BY <1>8 DEF TypeOK, ProxyStarts, clientVars, network, enclaveVars, history
<1>9. CASE ProxySetupFails \/ ProxyServeEnds
  BY <1>9, ProxyExitCuts, ProxyExitTypes
     DEF TypeOK, ProxySetupFails, ProxyServeEnds, enclaveVars, history
<1>10. CASE ContainerEnds
  BY <1>10, ProxyExitCuts, ProxyExitTypes DEF TypeOK, ContainerEnds, EnclaveExits, history
<1>11. CASE UNCHANGED vars
  BY <1>11 DEF TypeOK, vars
<1> QED
  BY <1>1, <1>2, <1>3, <1>4, <1>5, <1>6, <1>7, <1>8, <1>9, <1>10, <1>11 DEF Next

\* Every variable keeps its type, whatever interleaving and faults.
THEOREM TypeCorrect == Spec => []TypeOK
  BY TypeInit, TypeNext, PTL DEF Spec

-----------------------------------------------------------------------------
(* The inductive invariant.  What the properties say of reports holds      *)
(* because a request is in one place at a time too, and because every      *)
(* report that is anywhere has been issued.                                *)

Sent(n) == handler[n] \in {"receiving", "replying", "returned"}
Unissued(n) == \A rep \in issued : rep.origin # n

\* A request on its way has been sent, has not been attested yet, and is the
\* only one of its client.
RequestOnce ==
  /\ \A m \in toEnclave : Sent(m.origin) /\ Unissued(m.origin)
  /\ \A m1, m2 \in toEnclave : m1.origin = m2.origin => m1 = m2
  /\ enclave = "attesting" =>
       /\ Sent(reqBytes.origin)
       /\ Unissued(reqBytes.origin)
       /\ \A m \in toEnclave : m.origin # reqBytes.origin

\* Reports come from the Enclave only.
FromEnclave ==
  /\ enclave = "sending" => attested \in issued
  /\ \A m \in toProxy : m.report \in issued
  /\ \A n \in Nonclave :
       /\ handler[n] = "replying" => reply[n].report \in issued
       /\ response[n] \in Report => response[n] \in issued

\* The Proxy's socket does not hold a report twice, whole and cut off.
SocketOnce == \A m1, m2 \in toProxy : m1.report = m2.report => m1 = m2

\* What the client has seen: a report, with its nonce if it accepted it, and
\* none of its own had been issued when it asked.
ClientSaw ==
  \A n \in Nonclave :
    /\ nonclave[n] \in {"verifying", "accepted"} => response[n] \in Report
    /\ nonclave[n] = "accepted" => response[n].nonce = Nonce[n]
    /\ \A rep \in before[n] : rep.origin # n

IInv ==
  /\ TypeOK
  /\ RequestOnce
  /\ AttestedAsAsked
  /\ FromEnclave
  /\ SocketOnce
  /\ OnePlace
  /\ ClientSaw

LEMMA InvInit == Init => IInv
<1> SUFFICES ASSUME Init PROVE IInv
  OBVIOUS
<1>1. TypeOK
  BY TypeInit
<1>2. RequestOnce /\ AttestedAsAsked /\ SocketOnce
  BY DEF Init, RequestOnce, AttestedAsAsked, SocketOnce
<1>3. FromEnclave
  BY SentinelsAssumption DEF Init, FromEnclave
<1>4. OnePlace
  BY DEF Init, OnePlace
<1>5. ClientSaw
  BY DEF Init, ClientSaw
<1> QED
  BY <1>1, <1>2, <1>3, <1>4, <1>5 DEF IInv

-----------------------------------------------------------------------------
(* Requests.  Only the steps that send, receive, drop or attest one, and   *)
(* the steps of a handler, which decides who has sent, matter.             *)

\* A handler that has sent does not take it back.
LEMMA SentStays ==
  ASSUME TypeOK, [Next]_vars, NEW n \in Nonclave, Sent(n)
  PROVE  Sent(n)'
<1>1. ASSUME NEW m \in Nonclave, Ask(m) PROVE Sent(n)'
  BY <1>1 DEF Ask, Sent, TypeOK
<1>2. ASSUME NEW m \in Nonclave, HandlerStep(m) PROVE Sent(n)'
  BY <1>2 DEF HandlerStep, ReadBody, ReadBodyFails, ProxySend, ProxySendFails, ProxyReceive,
              ProxyReceiveFails, ProxyReply, Returns, Sent, TypeOK
<1>3. ASSUME NEW m \in Nonclave,
             SetupFails(m) \/ Refused(m) \/ RequestFails(m) \/ GetResponse(m) \/ Verify(m)
      PROVE  Sent(n)'
  BY <1>3 DEF SetupFails, Refused, RequestFails, GetResponse, Verify, proxyVars, Sent
<1>4. CASE EnclaveStep
  BY <1>4 DEF EnclaveStep, EnclaveStarts, EnclaveSetupFails, EnclaveReceive, EnclaveReceiveFails, EnclaveAttest,
              EnclaveUnmarshalFails, EnclaveAttestFails, EnclaveSend, EnclaveSendFails,
              proxyVars, Sent
<1>5. CASE ProxySetupFails \/ ProxyServeEnds \/ ContainerEnds
  BY <1>5, ProxyExitCuts DEF ProxySetupFails, ProxyServeEnds, ContainerEnds, Sent
<1>6. CASE ProxyStarts \/ UNCHANGED vars
  BY <1>6 DEF ProxyStarts, vars, Sent
<1> QED
  BY <1>1, <1>2, <1>3, <1>4, <1>5, <1>6 DEF Next

LEMMA RequestOnceNext ==
  ASSUME IInv, [Next]_vars
  PROVE  RequestOnce'
<1> USE DEF IInv
<1>1. \A m \in toEnclave : m.origin \in Nonclave
  BY DEF TypeOK, Request
<1>2. enclave = "attesting" => reqBytes.origin \in Nonclave
  BY DEF TypeOK, Request
<1>3. CASE UNCHANGED <<toEnclave, enclave, reqBytes, issued>>
  BY <1>1, <1>2, <1>3, SentStays DEF RequestOnce, Unissued
<1>4. ASSUME NEW n \in Nonclave, NEW whole \in BOOLEAN,
             handler[n] = "sending", Sent(n)',
             toEnclave' = toEnclave \union {[origin |-> n, whole |-> whole]},
             UNCHANGED <<enclave, reqBytes, issued>>
      PROVE  RequestOnce'
  <2>1. ~Sent(n)
    BY <1>4 DEF Sent
  <2>2. Unissued(n)
    BY <2>1 DEF Unissued, AttestedAsAsked, Sent
  <2>3. \A m \in toEnclave : m.origin # n
    BY <2>1 DEF RequestOnce
  <2>4. enclave = "attesting" => reqBytes.origin # n
    BY <2>1 DEF RequestOnce
  <2> QED
    BY <1>1, <1>2, <1>4, <2>2, <2>3, <2>4, SentStays DEF RequestOnce, Unissued
<1>5. CASE toEnclave' = {} /\ enclave' # "attesting"
  BY <1>5 DEF RequestOnce
<1>6. ASSUME NEW n \in Nonclave, HandlerStep(n) PROVE RequestOnce'
  <2>1. CASE ProxySend(n)
    <3>1. Sent(n)'
      BY <2>1 DEF ProxySend, TypeOK, Sent
    <3> QED
      BY <1>4, <2>1, <3>1 DEF ProxySend, enclaveVars, history
  <2>2. CASE ProxySendFails(n)
    <3>1. Sent(n)'
      BY <2>2 DEF ProxySendFails, Returns, TypeOK, Sent
    <3> QED
      BY <1>3, <1>4, <2>2, <3>1 DEF ProxySendFails, enclaveVars, history
  <2>3. CASE ReadBody(n) \/ ReadBodyFails(n) \/ ProxyReply(n)
    BY <1>3, <2>3 DEF ReadBody, ReadBodyFails, ProxyReply, network, enclaveVars, history
  <2>4. CASE ProxyReceive(n) \/ ProxyReceiveFails(n)
    BY <1>3, <2>4 DEF ProxyReceive, ProxyReceiveFails, enclaveVars, history
  <2> QED
    BY <1>6, <2>1, <2>2, <2>3, <2>4 DEF HandlerStep
<1>7. ASSUME NEW n \in Nonclave,
             \/ SetupFails(n) \/ Refused(n) \/ Ask(n)
             \/ RequestFails(n) \/ GetResponse(n) \/ Verify(n)
      PROVE  RequestOnce'
  BY <1>3, <1>7 DEF SetupFails, Refused, Ask, RequestFails, GetResponse, Verify, network, enclaveVars,
                    history
<1>8. CASE EnclaveReceive
  BY <1>1, <1>8, SentStays DEF EnclaveReceive, RequestOnce, Unissued, history
<1>9. CASE EnclaveAttest
  <2>1. issued' = issued \union {attested'} /\ attested'.origin = reqBytes.origin
    BY <1>9 DEF EnclaveAttest, ReportOn
  <2> QED
    BY <1>1, <1>9, <2>1, SentStays DEF EnclaveAttest, RequestOnce, Unissued, network
<1>10. CASE EnclaveSend
  BY <1>1, <1>10, SentStays DEF EnclaveSend, RequestOnce, Unissued, history
<1>11. CASE \/ EnclaveSetupFails \/ EnclaveReceiveFails \/ EnclaveUnmarshalFails
            \/ EnclaveAttestFails \/ EnclaveSendFails \/ ContainerEnds
  BY <1>5, <1>11 DEF EnclaveSetupFails, EnclaveReceiveFails, EnclaveUnmarshalFails,
                     EnclaveAttestFails, EnclaveSendFails, ContainerEnds, EnclaveExits
<1>12. CASE EnclaveStarts
  BY <1>1, <1>12, SentStays DEF EnclaveStarts, RequestOnce, Unissued, network, history
<1>13. CASE ProxyStarts \/ ProxySetupFails \/ ProxyServeEnds
  BY <1>3, <1>13 DEF ProxyStarts, ProxySetupFails, ProxyServeEnds, network, enclaveVars, history
<1>14. CASE UNCHANGED vars
  BY <1>3, <1>14 DEF vars
<1> QED
  BY <1>6, <1>7, <1>8, <1>9, <1>10, <1>11, <1>12, <1>13, <1>14 DEF Next, EnclaveStep

-----------------------------------------------------------------------------
(* Reports.                                                                *)

LEMMA AttestedAsAskedNext ==
  ASSUME IInv, [Next]_vars
  PROVE  AttestedAsAsked'
<1> USE DEF IInv
<1>1. \A rep \in issued : rep.origin \in Nonclave
  BY DEF TypeOK, Report, ReportOn
<1>2. CASE UNCHANGED issued
  BY <1>1, <1>2, SentStays DEF AttestedAsAsked, Sent
<1>3. CASE EnclaveAttest
  <2>1. PICK o \in Nonclave : o = reqBytes.origin /\ o \notin Malformed
    BY <1>3 DEF EnclaveAttest, Decodes, TypeOK, Request
  <2>2. attested' = ReportOn(o, RequestOf(o))
    BY <1>3, <2>1, UnmarshalFresh DEF EnclaveAttest
  <2>3. attested'.origin = o
    BY <2>2 DEF ReportOn
  <2>4. Sent(o)'
    BY <1>3, <2>1, SentStays DEF EnclaveAttest, RequestOnce
  <2>5. issued' = issued \union {attested'}
    BY <1>3 DEF EnclaveAttest
  <2> QED
    BY <1>1, <2>1, <2>2, <2>3, <2>4, <2>5, SentStays DEF AttestedAsAsked, Sent
<1>4. CASE EnclaveStep /\ ~EnclaveAttest
  BY <1>2, <1>4 DEF EnclaveStep, EnclaveStarts, EnclaveSetupFails, EnclaveReceive,
                    EnclaveReceiveFails, EnclaveUnmarshalFails, EnclaveAttestFails, EnclaveSend,
                    EnclaveSendFails, history
<1>5. ASSUME NEW n \in Nonclave, HandlerStep(n) PROVE AttestedAsAsked'
  BY <1>2, <1>5 DEF HandlerStep, ReadBody, ReadBodyFails, ProxySend, ProxySendFails,
                    ProxyReceive, ProxyReceiveFails, ProxyReply, history
<1>6. ASSUME NEW n \in Nonclave,
             \/ SetupFails(n) \/ Refused(n) \/ Ask(n)
             \/ RequestFails(n) \/ GetResponse(n) \/ Verify(n)
      PROVE  AttestedAsAsked'
  BY <1>2, <1>6 DEF SetupFails, Refused, Ask, RequestFails, GetResponse, Verify, history
<1>7. CASE ProxyStarts \/ ProxySetupFails \/ ProxyServeEnds \/ ContainerEnds
  BY <1>2, <1>7 DEF ProxyStarts, ProxySetupFails, ProxyServeEnds, ContainerEnds, history
<1>8. CASE UNCHANGED vars
  BY <1>2, <1>8 DEF vars
<1> QED
  BY <1>3, <1>4, <1>5, <1>6, <1>7, <1>8 DEF Next

LEMMA FromEnclaveNext ==
  ASSUME IInv, [Next]_vars
  PROVE  FromEnclave'
<1> USE DEF IInv
<1>1. CASE UNCHANGED <<enclave, attested, toProxy, handler, reply, response, issued>>
  BY <1>1 DEF FromEnclave
<1>2. ASSUME NEW n \in Nonclave, HandlerStep(n) PROVE FromEnclave'
  <2>1. CASE ReadBody(n)
    BY <2>1 DEF ReadBody, FromEnclave, TypeOK, clientVars, network, enclaveVars, history
  <2>2. CASE ReadBodyFails(n)
    BY <2>2, SentinelsAssumption
       DEF ReadBodyFails, Returns, FromEnclave, TypeOK, network, enclaveVars, history
  <2>3. CASE ProxySend(n)
    BY <2>3 DEF ProxySend, FromEnclave, TypeOK, clientVars, enclaveVars, history
  <2>4. CASE ProxySendFails(n)
    BY <2>4, SentinelsAssumption
       DEF ProxySendFails, Returns, FromEnclave, TypeOK, enclaveVars, history
  <2>5. CASE ProxyReceive(n)
    BY <2>5 DEF ProxyReceive, FromEnclave, TypeOK, clientVars, enclaveVars, history
  <2>6. CASE ProxyReceiveFails(n)
    BY <2>6, SentinelsAssumption
       DEF ProxyReceiveFails, Returns, FromEnclave, TypeOK, enclaveVars, history
  <2>7. CASE ProxyReply(n)
    BY <2>7, SentinelsAssumption
       DEF ProxyReply, Returns, FromEnclave, TypeOK, network, enclaveVars, history
  <2> QED
    BY <1>2, <2>1, <2>2, <2>3, <2>4, <2>5, <2>6, <2>7 DEF HandlerStep
<1>3. ASSUME NEW n \in Nonclave, Ask(n) PROVE FromEnclave'
  BY <1>3 DEF Ask, FromEnclave, TypeOK, network, enclaveVars
<1>4. ASSUME NEW n \in Nonclave,
             SetupFails(n) \/ Refused(n) \/ RequestFails(n) \/ GetResponse(n) \/ Verify(n)
      PROVE  FromEnclave'
  BY <1>1, <1>4 DEF SetupFails, Refused, RequestFails, GetResponse, Verify, proxyVars, network,
                    enclaveVars, history
<1>5. CASE EnclaveReceive
  BY <1>5 DEF EnclaveReceive, FromEnclave, clientVars, proxyVars, history
<1>6. CASE EnclaveAttest
  BY <1>6 DEF EnclaveAttest, FromEnclave, clientVars, proxyVars, network
<1>7. CASE EnclaveSetupFails \/ EnclaveReceiveFails \/ EnclaveUnmarshalFails \/ EnclaveAttestFails
  BY <1>7 DEF EnclaveSetupFails, EnclaveReceiveFails, EnclaveUnmarshalFails, EnclaveAttestFails,
              EnclaveExits, FromEnclave, clientVars, proxyVars, history
<1>8. CASE EnclaveSend
  BY <1>8 DEF EnclaveSend, FromEnclave, clientVars, proxyVars, history
<1>9. CASE EnclaveSendFails
  BY <1>9 DEF EnclaveSendFails, EnclaveExits, FromEnclave, clientVars, proxyVars, history
<1>10. CASE EnclaveStarts
  BY <1>10 DEF EnclaveStarts, FromEnclave, clientVars, proxyVars, network, history
<1>11. CASE ProxySetupFails \/ ProxyServeEnds \/ ContainerEnds
  <2>1. ProxyExits /\ UNCHANGED issued
    BY <1>11 DEF ProxySetupFails, ProxyServeEnds, ContainerEnds, history
  <2>2. \A n \in Nonclave : response'[n] \in Report => response[n] = response'[n]
    BY <2>1, ProxyExitCuts, SentinelsAssumption
  <2>3. enclave' = "sending" => enclave = "sending" /\ attested' = attested
    BY <1>11 DEF ProxySetupFails, ProxyServeEnds, ContainerEnds, EnclaveExits, enclaveVars
  <2> QED
    BY <2>1, <2>2, <2>3, ProxyExitCuts DEF FromEnclave
<1>12. CASE ProxyStarts \/ UNCHANGED vars
  BY <1>1, <1>12 DEF ProxyStarts, clientVars, network, enclaveVars, history, vars
<1> QED
  BY <1>2, <1>3, <1>4, <1>5, <1>6, <1>7, <1>8, <1>9, <1>10, <1>11, <1>12 DEF Next, EnclaveStep

\* The report the Enclave holds is in nobody else's hands.
LEMMA AttestedIsNew ==
  ASSUME IInv, enclave = "sending"
  PROVE  /\ attested \in issued
         /\ \A m \in toProxy : m.report # attested
  BY DEF IInv, FromEnclave, OnePlace, InSocket

LEMMA SocketOnceNext ==
  ASSUME IInv, [Next]_vars
  PROVE  SocketOnce'
<1> USE DEF IInv
<1>1. CASE toProxy' \subseteq toProxy
  BY <1>1 DEF SocketOnce
<1>2. CASE EnclaveSend
  <2>1. \A m \in toProxy : m.report # attested
    BY <1>2, AttestedIsNew DEF EnclaveSend
  <2>2. PICK m \in {[report |-> attested, whole |-> TRUE]} : toProxy' = toProxy \union {m}
    BY <1>2 DEF EnclaveSend
  <2>3. m.report = attested
    BY <2>2
  <2> QED
    BY <2>1, <2>2, <2>3 DEF SocketOnce
<1>3. CASE EnclaveSendFails
  BY <1>3, AttestedIsNew DEF EnclaveSendFails, SocketOnce
<1>4. CASE EnclaveStep /\ ~EnclaveSend /\ ~EnclaveSendFails
  BY <1>1, <1>4 DEF EnclaveStep, EnclaveStarts, EnclaveSetupFails, EnclaveReceive,
                    EnclaveReceiveFails, EnclaveAttest, EnclaveUnmarshalFails,
                    EnclaveAttestFails, EnclaveExits, network
<1>5. ASSUME NEW n \in Nonclave, HandlerStep(n) PROVE SocketOnce'
  BY <1>1, <1>5 DEF HandlerStep, ReadBody, ReadBodyFails, ProxySend, ProxySendFails,
                    ProxyReceive, ProxyReceiveFails, ProxyReply, network
<1>6. ASSUME NEW n \in Nonclave,
             \/ SetupFails(n) \/ Refused(n) \/ Ask(n)
             \/ RequestFails(n) \/ GetResponse(n) \/ Verify(n)
      PROVE  SocketOnce'
  BY <1>1, <1>6 DEF SetupFails, Refused, Ask, RequestFails, GetResponse, Verify, network
<1>7. CASE ProxyStarts \/ ProxySetupFails \/ ProxyServeEnds \/ ContainerEnds
  BY <1>1, <1>7 DEF ProxyStarts, ProxySetupFails, ProxyServeEnds, ContainerEnds, ProxyExits,
                    network
<1>8. CASE UNCHANGED vars
  BY <1>1, <1>8 DEF vars
<1> QED
  BY <1>2, <1>3, <1>4, <1>5, <1>6, <1>7, <1>8 DEF Next

LEMMA OnePlaceNext ==
  ASSUME IInv, [Next]_vars
  PROVE  OnePlace'
<1> USE DEF IInv
<1>1. CASE UNCHANGED <<attested, reply, response, issued>> /\ toProxy' \subseteq toProxy
  BY <1>1 DEF OnePlace, InSocket, InReplyOf
<1>2. ASSUME NEW n \in Nonclave,
             response' = [response EXCEPT ![n] = Error],
             UNCHANGED <<attested, reply, issued>>,
             toProxy' \subseteq toProxy
      PROVE  OnePlace'
  <2>1. Error \notin issued
    BY SentinelsAssumption DEF TypeOK
  <2> QED
    BY <1>2, <2>1 DEF OnePlace, InSocket, InReplyOf, TypeOK
<1>3. ASSUME NEW n \in Nonclave, ProxyReceive(n) PROVE OnePlace'
  <2>1. PICK m \in toProxy : reply' = [reply EXCEPT ![n] = m] /\ toProxy' = toProxy \ {m}
    BY <1>3 DEF ProxyReceive
  <2>2. m \in Reply /\ m # NoReply
    BY SentinelsAssumption DEF TypeOK
  <2>3. /\ UNCHANGED <<attested, response, issued>>
        /\ \A rep \in issued : InSocket(rep)' <=> InSocket(rep) /\ m.report # rep
    BY <1>3, <2>1 DEF ProxyReceive, clientVars, enclaveVars, history, InSocket, SocketOnce
  <2>4. \A k \in Nonclave, rep \in issued :
          InReplyOf(k, rep)' <=> IF k = n THEN m.report = rep ELSE InReplyOf(k, rep)
    BY <2>1, <2>2 DEF InReplyOf, TypeOK
  <2>5. InSocket(m.report)
    BY DEF InSocket
  <2> QED
    BY <2>3, <2>4, <2>5 DEF OnePlace
<1>4. ASSUME NEW n \in Nonclave, ProxyReply(n) PROVE OnePlace'
  <2>1. reply[n] \in Reply /\ reply[n] # NoReply
    BY <1>4, SentinelsAssumption DEF ProxyReply, TypeOK
  <2>2. UNCHANGED <<attested, issued, toProxy>>
    BY <1>4 DEF ProxyReply, network, enclaveVars, history
  <2>3. \A k \in Nonclave, rep \in issued :
          InReplyOf(k, rep)' <=> k # n /\ InReplyOf(k, rep)
    BY <1>4 DEF ProxyReply, InReplyOf, TypeOK
  <2>4. Error \notin issued
    BY SentinelsAssumption DEF TypeOK
  <2>5. \A k \in Nonclave, rep \in issued :
          response'[k] = rep => IF k = n THEN InReplyOf(n, rep) ELSE response[k] = rep
    BY <1>4, <2>1, <2>4 DEF ProxyReply, Returns, InReplyOf, TypeOK
  <2> QED
    BY <2>2, <2>3, <2>5 DEF OnePlace, InSocket
<1>5. CASE EnclaveAttest
  <2>1. attested'.origin = reqBytes.origin /\ issued' = issued \union {attested'}
    BY <1>5 DEF EnclaveAttest, ReportOn
  <2>2. attested' \notin issued
    BY <1>5, <2>1 DEF EnclaveAttest, RequestOnce, Unissued
  <2>3. attested' \in Report
    BY <1>5, TypeNext DEF EnclaveAttest, TypeOK
  <2>4. /\ \A n \in Nonclave : ~InReplyOf(n, attested') /\ response[n] # attested'
        /\ ~InSocket(attested')
    BY <2>2, <2>3 DEF FromEnclave, InReplyOf, InSocket, TypeOK
  <2> QED
    BY <1>5, <2>1, <2>4 DEF EnclaveAttest, OnePlace, InSocket, InReplyOf, clientVars, proxyVars, network
<1>6. ASSUME attested' = NoReport, UNCHANGED <<response, reply, issued>>,
             \/ UNCHANGED toProxy
             \/ \E whole \in BOOLEAN :
                  toProxy' = toProxy \union {[report |-> attested, whole |-> whole]}
      PROVE  OnePlace'
  <2>1. NoReport \notin issued
    BY SentinelsAssumption DEF TypeOK
  <2>2. \A rep \in issued : InSocket(rep)' => InSocket(rep) \/ attested = rep
    BY <1>6 DEF InSocket
  <2> QED
    BY <1>6, <2>1, <2>2 DEF OnePlace, InReplyOf
<1>7. ASSUME NEW n \in Nonclave, HandlerStep(n) PROVE OnePlace'
  <2>1. CASE ReadBody(n) \/ ProxySend(n)
    BY <1>1, <2>1 DEF ReadBody, ProxySend, clientVars, network, enclaveVars, history
  <2>2. CASE ReadBodyFails(n) \/ ProxySendFails(n) \/ ProxyReceiveFails(n)
    BY <1>2, <2>2 DEF ReadBodyFails, ProxySendFails, ProxyReceiveFails, Returns, network,
                      enclaveVars, history
  <2> QED
    BY <1>3, <1>4, <1>7, <2>1, <2>2 DEF HandlerStep
<1>8. ASSUME NEW n \in Nonclave,
             \/ SetupFails(n) \/ Refused(n) \/ Ask(n)
             \/ RequestFails(n) \/ GetResponse(n) \/ Verify(n)
      PROVE  OnePlace'
  BY <1>1, <1>8 DEF SetupFails, Refused, Ask, RequestFails, GetResponse, Verify, proxyVars, network,
                    enclaveVars, history
<1>9. CASE EnclaveReceive
  BY <1>1, <1>9 DEF EnclaveReceive, clientVars, proxyVars, history
<1>10. CASE \/ EnclaveSetupFails \/ EnclaveReceiveFails \/ EnclaveUnmarshalFails
            \/ EnclaveAttestFails \/ EnclaveSendFails
  BY <1>6, <1>10 DEF EnclaveSetupFails, EnclaveReceiveFails, EnclaveUnmarshalFails, EnclaveAttestFails,
                     EnclaveSendFails, EnclaveExits, clientVars, proxyVars, history
<1>11. CASE EnclaveSend
  BY <1>6, <1>11 DEF EnclaveSend, clientVars, proxyVars, history
<1>12. CASE ProxySetupFails \/ ProxyServeEnds \/ ContainerEnds
  <2>1. ProxyExits /\ UNCHANGED issued
    BY <1>12 DEF ProxySetupFails, ProxyServeEnds, ContainerEnds, history
  <2>2. attested' \in {attested, NoReport}
    BY <1>12 DEF ProxySetupFails, ProxyServeEnds, ContainerEnds, EnclaveExits, enclaveVars
  <2>3. Error \notin issued /\ NoReport \notin issued
    BY SentinelsAssumption DEF TypeOK
  <2>4. \A n \in Nonclave, rep \in issued :
          ~InReplyOf(n, rep)' /\ (response'[n] = rep => response[n] = rep)
    BY <2>1, <2>3, ProxyExitCuts DEF InReplyOf
  <2>5. \A rep \in issued : ~InSocket(rep)'
    BY <2>1, ProxyExitCuts DEF InSocket
  <2> QED
    BY <2>1, <2>2, <2>3, <2>4, <2>5 DEF OnePlace
<1>13. CASE EnclaveStarts \/ ProxyStarts \/ UNCHANGED vars
  BY <1>1, <1>13 DEF EnclaveStarts, ProxyStarts, clientVars, proxyVars, network, enclaveVars,
                     history, vars
<1> QED
  BY <1>5, <1>7, <1>8, <1>9, <1>10, <1>11, <1>12, <1>13 DEF Next, EnclaveStep

LEMMA ClientSawNext ==
  ASSUME IInv, [Next]_vars
  PROVE  ClientSaw'
<1> USE DEF IInv
<1>1. CASE UNCHANGED <<nonclave, response, before>>
  BY <1>1 DEF ClientSaw
<1>2. ASSUME NEW n \in Nonclave, SetupFails(n) \/ Refused(n) \/ RequestFails(n)
      PROVE  ClientSaw'
  BY <1>2 DEF SetupFails, Refused, RequestFails, ClientSaw, TypeOK, history
<1>3. ASSUME NEW n \in Nonclave, Ask(n) PROVE ClientSaw'
  <2>1. \A rep \in issued : rep.origin # n
    BY <1>3 DEF Ask, TypeOK, AttestedAsAsked
  <2> QED
    BY <1>3, <2>1 DEF Ask, ClientSaw, TypeOK
<1>4. ASSUME NEW n \in Nonclave, GetResponse(n) PROVE ClientSaw'
  BY <1>4 DEF GetResponse, ClientSaw, TypeOK, history
<1>5. ASSUME NEW n \in Nonclave, Verify(n) PROVE ClientSaw'
  BY <1>5 DEF Verify, Verifies, ClientSaw, TypeOK, history
<1>6. ASSUME NEW n \in Nonclave, HandlerStep(n) PROVE ClientSaw'
  <2>1. CASE ReadBody(n) \/ ProxySend(n) \/ ProxyReceive(n)
    BY <1>1, <2>1 DEF ReadBody, ProxySend, ProxyReceive, clientVars, history
  <2>2. CASE ReadBodyFails(n) \/ ProxySendFails(n) \/ ProxyReceiveFails(n) \/ ProxyReply(n)
    <3>1. response[n] \notin Report
      BY <2>2, SentinelsAssumption
         DEF ReadBodyFails, ProxySendFails, ProxyReceiveFails, ProxyReply, TypeOK
    <3>2. nonclave[n] \notin {"verifying", "accepted"}
      BY <3>1 DEF ClientSaw
    <3>3. /\ UNCHANGED <<nonclave, before>>
          /\ \A k \in Nonclave \ {n} : response'[k] = response[k]
      BY <2>2 DEF ReadBodyFails, ProxySendFails, ProxyReceiveFails, ProxyReply, Returns,
                  TypeOK, history
    <3> QED
      BY <3>2, <3>3 DEF ClientSaw
  <2> QED
    BY <1>6, <2>1, <2>2 DEF HandlerStep
<1>7. CASE EnclaveStep
  BY <1>1, <1>7 DEF EnclaveStep, EnclaveStarts, EnclaveSetupFails, EnclaveReceive,
                    EnclaveReceiveFails, EnclaveAttest, EnclaveUnmarshalFails,
                    EnclaveAttestFails, EnclaveSend, EnclaveSendFails, clientVars, history
<1>8. CASE ProxySetupFails \/ ProxyServeEnds \/ ContainerEnds
  <2>1. ProxyExits /\ UNCHANGED <<nonclave, before>>
    BY <1>8 DEF ProxySetupFails, ProxyServeEnds, ContainerEnds, history
  <2>2. \A n \in Nonclave : response[n] \in Report => response'[n] = response[n]
    BY <2>1, ProxyExitCuts, SentinelsAssumption
  <2> QED
    BY <2>1, <2>2 DEF ClientSaw
<1>9. CASE ProxyStarts \/ UNCHANGED vars
  BY <1>1, <1>9 DEF ProxyStarts, clientVars, history, vars
<1> QED
  BY <1>2, <1>3, <1>4, <1>5, <1>6, <1>7, <1>8, <1>9 DEF Next

LEMMA InvNext == IInv /\ [Next]_vars => IInv'
<1> SUFFICES ASSUME IInv, [Next]_vars PROVE IInv'
  OBVIOUS
<1>1. TypeOK'
  BY TypeNext DEF IInv
<1> QED
  BY <1>1, RequestOnceNext, AttestedAsAskedNext, FromEnclaveNext, SocketOnceNext, OnePlaceNext,
     ClientSawNext DEF IInv

LEMMA Invariance == Spec => []IInv
  BY InvInit, InvNext, PTL DEF Spec

-----------------------------------------------------------------------------
(* The properties.                                                         *)

\* Reports bind exactly what a client that has sent a request asked for.
THEOREM ReportsAreAsAsked == Spec => []AttestedAsAsked
<1>1. IInv => AttestedAsAsked
  BY DEF IInv
<1> QED
  BY <1>1, Invariance, PTL

\* No report is in two places: no two handlers share a reply.
THEOREM ReportsAreInOnePlace == Spec => []OnePlace
<1>1. IInv => OnePlace
  BY DEF IInv
<1> QED
  BY <1>1, Invariance, PTL

\* With a nonce of its own a client accepts its own fresh report only.
THEOREM OwnReportAccepted == Spec => []AcceptedIsOwn
<1>1. ASSUME IInv PROVE AcceptedIsOwn
  <2> SUFFICES ASSUME UniqueNonces, NEW n \in Nonclave, nonclave[n] = "accepted"
               PROVE  /\ response[n] = ReportOn(n, RequestOf(n))
                      /\ response[n] \notin before[n]
    BY DEF AcceptedIsOwn
  <2>1. response[n] \in issued /\ response[n].nonce = Nonce[n]
    BY <1>1 DEF IInv, ClientSaw, FromEnclave
  <2>2. PICK o \in Nonclave : response[n] = ReportOn(o, RequestOf(o))
    BY <1>1, <2>1 DEF IInv, AttestedAsAsked, TypeOK, Report, ReportOn
  <2>3. o = n
    BY <2>1, <2>2 DEF UniqueNonces, ReportOn, RequestOf
  <2>4. response[n].origin = n
    BY <2>2, <2>3 DEF ReportOn
  <2> QED
    BY <1>1, <2>2, <2>3, <2>4 DEF IInv, ClientSaw
<1> QED
  BY <1>1, Invariance, PTL

-----------------------------------------------------------------------------
(* HelloWorld implements WitnessService.                                   *)

Verdict(n) == IF nonclave[n] = "accepted" THEN response[n] ELSE NoReport

\* The state of the abstract client follows the concrete one.
LEMMA ClientStates ==
  ASSUME TypeOK, NEW n \in Nonclave
  PROVE  /\ nonclave[n] = "start" <=> ClientOf(n) = "idle"
         /\ nonclave[n] \in {"waiting", "verifying"} <=> ClientOf(n) = "asked"
         /\ nonclave[n] = "accepted" <=> ClientOf(n) = "accepted"
         /\ nonclave[n] = "failed" <=> ClientOf(n) = "failed"
  BY DEF TypeOK, ClientOf

\* A step that leaves clients, verdicts and issued reports alone stutters.
LEMMA Stutters ==
  ASSUME \A n \in Nonclave : ClientOf(n)' = ClientOf(n) /\ Verdict(n)' = Verdict(n),
         UNCHANGED issued
  PROVE  UNCHANGED Witness!vars
  BY DEF Witness!vars, Verdict

\* A step of one client is one of the abstract client's.
LEMMA ClientMoves ==
  ASSUME NEW n \in Nonclave, UNCHANGED issued,
         \A k \in Nonclave \ {n} : ClientOf(k)' = ClientOf(k) /\ Verdict(k)' = Verdict(k)
  PROVE  /\ [k \in Nonclave |-> ClientOf(k)]'
              = [[k \in Nonclave |-> ClientOf(k)] EXCEPT ![n] = ClientOf(n)']
         /\ [k \in Nonclave |-> Verdict(k)]'
              = [[k \in Nonclave |-> Verdict(k)] EXCEPT ![n] = Verdict(n)']
  OBVIOUS

LEMMA RefinementInit == Init => Witness!Init
  BY DEF Init, Witness!Init, ClientOf

LEMMA RefinementNext ==
  ASSUME IInv, IInv', [Next]_vars
  PROVE  [Witness!Next]_(Witness!vars)
<1> USE DEF IInv
<1>1. CASE UNCHANGED <<nonclave, response, issued>>
  BY <1>1, Stutters DEF ClientOf, Verdict
<1>2. ASSUME NEW n \in Nonclave, ClientOf(n) \in {"idle", "asked"}, ClientOf(n)' = "failed",
             nonclave' = [nonclave EXCEPT ![n] = "failed"], UNCHANGED <<response, issued>>
      PROVE  Witness!Fail(n)
  BY <1>2, ClientMoves, ClientStates DEF Witness!Fail, ClientOf, Verdict, TypeOK
<1>3. ASSUME NEW n \in Nonclave, SetupFails(n) \/ Refused(n) PROVE Witness!Fail(n)
  BY <1>2, <1>3, ClientStates DEF SetupFails, Refused, ClientOf, TypeOK, history
<1>4. ASSUME NEW n \in Nonclave, RequestFails(n) PROVE Witness!Fail(n)
  BY <1>2, <1>4, ClientStates DEF RequestFails, ClientOf, TypeOK, history
<1>5. ASSUME NEW n \in Nonclave, Ask(n) PROVE Witness!Ask(n)
  BY <1>5, ClientMoves DEF Ask, Witness!Ask, ClientOf, Verdict, TypeOK
<1>6. ASSUME NEW n \in Nonclave, GetResponse(n)
      PROVE  Witness!Fail(n) \/ UNCHANGED Witness!vars
  <2>1. CASE response[n] = Error
    BY <1>2, <1>6, <2>1 DEF GetResponse, ClientOf, TypeOK, history
  <2>2. CASE response[n] # Error
    BY <1>6, <2>2, Stutters DEF GetResponse, ClientOf, Verdict, TypeOK, history
  <2> QED
    BY <2>1, <2>2
<1>7. ASSUME NEW n \in Nonclave, Verify(n)
      PROVE  Witness!Fail(n) \/ \E rep \in issued : Witness!Accept(n, rep)
  <2>1. CASE Verifies(n, response[n])
    <3>1. response[n] \in issued
      BY <1>7 DEF Verify, ClientSaw, FromEnclave
    <3>2. nonclave[n] = "verifying" /\ response[n].nonce = Nonce[n]
      BY <1>7, <2>1 DEF Verify, Verifies
    <3>3. nonclave' = [nonclave EXCEPT ![n] = "accepted"] /\ UNCHANGED <<response, issued>>
      BY <1>7, <2>1 DEF Verify, history
    <3>4. ClientOf(n) = "asked" /\ ClientOf(n)' = "accepted" /\ Verdict(n)' = response[n]
      BY <3>2, <3>3 DEF ClientOf, Verdict, TypeOK
    <3>5. \A k \in Nonclave \ {n} : ClientOf(k)' = ClientOf(k) /\ Verdict(k)' = Verdict(k)
      BY <3>3 DEF ClientOf, Verdict, TypeOK
    <3>6. /\ [k \in Nonclave |-> ClientOf(k)]'
               = [[k \in Nonclave |-> ClientOf(k)] EXCEPT ![n] = "accepted"]
          /\ [k \in Nonclave |-> Verdict(k)]'
               = [[k \in Nonclave |-> Verdict(k)] EXCEPT ![n] = response[n]]
      BY <3>3, <3>4, <3>5, ClientMoves
    <3>7. PICK rep \in issued : rep = response[n]
      BY <3>1
    <3>8. Witness!Accept(n, rep)
      BY <3>2, <3>3, <3>4, <3>6, <3>7 DEF Witness!Accept, Verdict
    <3> QED
      BY <3>8
  <2>2. CASE ~Verifies(n, response[n])
    BY <1>2, <1>7, <2>2 DEF Verify, ClientOf, TypeOK, history
  <2> QED
    BY <2>1, <2>2
<1>8. ASSUME NEW n \in Nonclave, HandlerStep(n) PROVE UNCHANGED Witness!vars
  <2>1. CASE ReadBody(n) \/ ProxySend(n) \/ ProxyReceive(n)
    BY <1>1, <2>1, Stutters DEF ReadBody, ProxySend, ProxyReceive, ClientOf, Verdict,
                                clientVars, history
  <2>2. CASE ReadBodyFails(n) \/ ProxySendFails(n) \/ ProxyReceiveFails(n) \/ ProxyReply(n)
    <3>1. nonclave[n] # "accepted"
      BY <2>2, SentinelsAssumption
         DEF ReadBodyFails, ProxySendFails, ProxyReceiveFails, ProxyReply, TypeOK, ClientSaw
    <3>2. /\ UNCHANGED <<nonclave, issued>>
          /\ \A k \in Nonclave \ {n} : response'[k] = response[k]
      BY <2>2 DEF ReadBodyFails, ProxySendFails, ProxyReceiveFails, ProxyReply, Returns,
                  TypeOK, history
    <3> QED
      BY <3>1, <3>2, Stutters DEF ClientOf, Verdict
  <2> QED
    BY <1>8, <2>1, <2>2 DEF HandlerStep
<1>9. CASE EnclaveAttest
  <2>1. PICK o \in Nonclave : o = reqBytes.origin
    BY <1>9 DEF EnclaveAttest, TypeOK, Request
  <2>2. ReportOn(o, RequestOf(o)) = Witness!ReportFor(o)
    BY DEF ReportOn, RequestOf, Witness!ReportFor
  <2>3. attested' = ReportOn(o, RequestOf(o))
    BY <1>9, <2>1, UnmarshalFresh DEF EnclaveAttest
  <2>4. Witness!ReportFor(o) \notin issued
    BY <1>9, <2>1 DEF EnclaveAttest, RequestOnce, Unissued, Witness!ReportFor
  <2>5. ClientOf(o) # "idle"
    BY <1>9, <2>1, ClientStates DEF EnclaveAttest, RequestOnce, Sent, TypeOK
  <2>6. UNCHANGED <<nonclave, response>> /\ issued' = issued \union {Witness!ReportFor(o)}
    BY <1>9, <2>2, <2>3 DEF EnclaveAttest, clientVars
  <2>7. \A k \in Nonclave : ClientOf(k)' = ClientOf(k) /\ Verdict(k)' = Verdict(k)
    BY <2>6 DEF ClientOf, Verdict
  <2>8. UNCHANGED <<[k \in Nonclave |-> ClientOf(k)], [k \in Nonclave |-> Verdict(k)]>>
    BY <2>7
  <2>9. Witness!Witness(o)
    BY <2>4, <2>5, <2>6, <2>8 DEF Witness!Witness, Verdict
  <2> QED
    BY <2>9 DEF Witness!Next
<1>10. CASE EnclaveStep /\ ~EnclaveAttest
  <2>1. UNCHANGED <<clientVars, issued>>
    BY <1>10 DEF EnclaveStep, EnclaveStarts, EnclaveSetupFails, EnclaveReceive, EnclaveReceiveFails, EnclaveUnmarshalFails,
                 EnclaveAttestFails, EnclaveSend, EnclaveSendFails, history
  <2> QED
    BY <1>1, <2>1 DEF clientVars
<1>11. CASE ProxySetupFails \/ ProxyServeEnds \/ ContainerEnds
  <2>1. ProxyExits /\ UNCHANGED <<nonclave, issued>>
    BY <1>11 DEF ProxySetupFails, ProxyServeEnds, ContainerEnds, history
  <2>2. \A n \in Nonclave : nonclave[n] = "accepted" => response'[n] = response[n]
    BY <2>1, ProxyExitCuts, SentinelsAssumption DEF ClientSaw
  <2> QED
    BY <2>1, <2>2, Stutters DEF ClientOf, Verdict
<1>12. CASE ProxyStarts \/ UNCHANGED vars
  BY <1>1, <1>12 DEF ProxyStarts, clientVars, history, vars
<1> QED
  BY <1>3, <1>4, <1>5, <1>6, <1>7, <1>8, <1>9, <1>10, <1>11, <1>12 DEF Next, Witness!Next

\* Nonclaves, Proxy and Enclave implement the witness service.
THEOREM ImplementsWitnessService == Spec => KeepsWitnessPromise
<1>1. Init => Witness!Init
  BY RefinementInit
<1>2. IInv /\ IInv' /\ [Next]_vars => [Witness!Next]_(Witness!vars)
  BY RefinementNext
<1> QED
  BY <1>1, <1>2, Invariance, PTL DEF Spec, KeepsWitnessPromise, Witness!Spec
=============================================================================
