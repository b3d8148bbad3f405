----------------------------- MODULE HelloWorld -----------------------------
(***************************************************************************)
(* The hello-world example: Nonclaves (hello-world/nonclave) POST a nonce  *)
(* and user data to the Proxy (hello-world/proxy), which forwards the body *)
(* to the Enclave (hello-world/enclave) over a socket; the Enclave attests *)
(* it and sends the report to the Proxy's socket, and the Proxy hands it   *)
(* to a waiting HTTP client, which verifies it.                            *)
(*                                                                         *)
(* The Proxy runs one handler goroutine per HTTP request, and all of them  *)
(* receive from ONE socket; nothing in a reply says which request it       *)
(* answers.  Every Send is a connection of its own, so two messages on     *)
(* their way to the same socket have no order.  Sockets, attester and      *)
(* verifier belong to the bearclave SDK and are modelled from how they are *)
(* used.                                                                   *)
(***************************************************************************)

EXTENDS Integers, FiniteSets

CONSTANTS
  Nonclave,     \* the HTTP clients; each makes one request, as main does
  Nonce,        \* Nonce[n], UserData[n]: what client n asks to be attested
  UserData,
  Empty,        \* a field of no bytes: JSON leaves it out (omitempty)
  Malformed,    \* clients whose body is not a JSON request
  Mismatched,   \* clients configured for another enclave measurement
  Faults,       \* which faults may happen, see FaultKind
  Awaited,      \* clients are started when Proxy and Enclave have logged that
                \* they are ready, as by process-compose, else at any time
  NoRequest, NoReport, NoReply, NoResponse,   \* nothing there yet
  Error         \* an HTTP response with status 500

\* "setup": a program cannot be set up; "serve": the Proxy's server ends;
\* "timeout": a context ends before what it waits for; "socket": a Send
\* reports an error, whatever was delivered, or a Receive does; "attester":
\* Attest fails or never returns; "client": a client loses its connection.
FaultKind == {"setup", "serve", "timeout", "socket", "attester", "client"}

ASSUME ConstantsAssumption ==
  /\ Malformed \subseteq Nonclave
  /\ Mismatched \subseteq Nonclave
  /\ Faults \subseteq FaultKind
  /\ Awaited \in BOOLEAN

VARIABLES
  nonclave,   \* nonclave[n]: how far the main of client n has come
  response,   \* response[n]: the HTTP response on its way to client n
  proxy,      \* the main of the Proxy
  handler,    \* handler[n]: the handler goroutine of client n's request
  reply,      \* reply[n]: attestBytes of that handler
  toEnclave,  \* requests sent to the Enclave's socket, not received
  toProxy,    \* replies sent to the Proxy's socket, not received
  enclave,    \* where the main of the Enclave is, in its setup or its loop
  reqBytes,   \* the request the Enclave has received
  req,        \* the request it has decoded
  attested,   \* the report it is about to send
  issued,     \* history: every report ever attested
  before      \* history: before[n], those attested before client n asked

clientVars == <<nonclave, response>>
proxyVars == <<proxy, handler, reply>>
enclaveVars == <<enclave, reqBytes, req, attested>>
network == <<toEnclave, toProxy>>
history == <<issued, before>>
vars == <<nonclave, response, proxy, handler, reply, toEnclave, toProxy,
          enclave, reqBytes, req, attested, issued, before>>

-----------------------------------------------------------------------------
(* Messages.  A body that was cut off does not decode ("whole" is FALSE).  *)
(* "origin" is for the properties only: no program looks at it.            *)

\* networking.AttestUserDataRequest
AttestUserDataRequest ==
  [nonce    : {Nonce[n] : n \in Nonclave} \union {Empty},
   userData : {UserData[n] : n \in Nonclave} \union {Empty}]

ZeroRequest == [nonce |-> Empty, userData |-> Empty]

RequestOf(n) == [nonce |-> Nonce[n], userData |-> UserData[n]]

\* json.Unmarshal leaves the fields that the JSON does not name alone.
Unmarshal(n, into) ==
  [nonce    |-> IF Nonce[n] = Empty THEN into.nonce ELSE Nonce[n],
   userData |-> IF UserData[n] = Empty THEN into.userData ELSE UserData[n]]

\* The report of a request r that came from client n.
ReportOn(n, r) == [origin |-> n, nonce |-> r.nonce, userData |-> r.userData]

Report == {ReportOn(n, r) : n \in Nonclave, r \in AttestUserDataRequest}
Request == [origin : Nonclave, whole : BOOLEAN]
Reply == [report : Report, whole : BOOLEAN]

ASSUME SentinelsAssumption ==
  /\ NoReport \notin Report
  /\ NoResponse \notin Report
  /\ Error \notin Report
  /\ NoReply \notin Reply

Init ==
  /\ nonclave = [n \in Nonclave |-> "start"]
  /\ response = [n \in Nonclave |-> NoResponse]
  /\ proxy = "setup"
  /\ handler = [n \in Nonclave |-> "idle"]
  /\ reply = [n \in Nonclave |-> NoReply]
  /\ toEnclave = {}
  /\ toProxy = {}
  /\ enclave = "setup"
  /\ reqBytes = NoRequest
  /\ req = ZeroRequest
  /\ attested = NoReport
  /\ issued = {}
  /\ before = [n \in Nonclave |-> {}]

-----------------------------------------------------------------------------
(* The Nonclave: load the configuration, make the verifier, ask, verify.   *)

\* The socket of the Enclave takes connections.
EnclaveListens == enclave \notin {"setup", "exited"}

\* ready_log_line of both programs
MayStart == Awaited => proxy = "running" /\ EnclaveListens

SetupFails(n) ==
  /\ "setup" \in Faults
  /\ MayStart
  /\ nonclave[n] = "start"
  /\ nonclave' = [nonclave EXCEPT ![n] = "failed"]
  /\ UNCHANGED <<response, proxyVars, network, enclaveVars, history>>

\* Nobody listens at the Proxy's address, so that Client.Do returns an error.
Refused(n) ==
  /\ nonclave[n] = "start"
  /\ MayStart
  /\ proxy # "running"
  /\ nonclave' = [nonclave EXCEPT ![n] = "failed"]
  /\ UNCHANGED <<response, proxyVars, network, enclaveVars, history>>

\* Client.Do sends the request; the Proxy's server starts a handler for it.
Ask(n) ==
  /\ nonclave[n] = "start"
  /\ MayStart
  /\ proxy = "running"
  /\ nonclave' = [nonclave EXCEPT ![n] = "waiting"]
  /\ handler' = [handler EXCEPT ![n] = "reading"]
  /\ before' = [before EXCEPT ![n] = issued]
  /\ UNCHANGED <<response, proxy, reply, network, enclaveVars, issued>>

\* The context of main ends, or the connection does.  The handler goes on.
RequestFails(n) ==
  /\ Faults \intersect {"timeout", "client"} # {}
  /\ nonclave[n] = "waiting"
  /\ nonclave' = [nonclave EXCEPT ![n] = "failed"]
  /\ UNCHANGED <<response, proxyVars, network, enclaveVars, history>>

\* Client.Do returns: anything but status 200 is an error.
GetResponse(n) ==
  /\ nonclave[n] = "waiting"
  /\ response[n] # NoResponse
  /\ nonclave' = [nonclave EXCEPT
                    ![n] = IF response[n] = Error THEN "failed" ELSE "verifying"]
  /\ UNCHANGED <<response, proxyVars, network, enclaveVars, history>>

\* Mutant: WithVerifyNonce forgotten.
VerifiesAnyNonce(n, rep) == n \notin Mismatched

\* Verifier.Verify: a genuine report of the configured measurement, with the
\* client's nonce.  The user data in it is logged, not compared.
Verifies(n, rep) ==
  /\ n \notin Mismatched
  /\ rep.nonce = Nonce[n]

Verify(n) ==
  /\ nonclave[n] = "verifying"
  /\ nonclave' = [nonclave EXCEPT
                    ![n] = IF Verifies(n, response[n]) THEN "accepted" ELSE "failed"]
  /\ UNCHANGED <<response, proxyVars, network, enclaveVars, history>>

-----------------------------------------------------------------------------
(* The Proxy: main, and MakeAttestHandler in one goroutine per request.    *)

\* The socket and the server are made, and then served.
ProxyStarts ==
  /\ proxy = "setup"
  /\ proxy' = "running"
  /\ UNCHANGED <<clientVars, handler, reply, network, enclaveVars, history>>

\* The program ends, its handlers with it, and their clients lose the
\* connection; so does what waited in its socket.
ProxyExits ==
  LET cut == {n \in Nonclave : handler[n] \notin {"idle", "returned"}}
  IN /\ proxy' = "exited"
     /\ handler' = [n \in Nonclave |-> IF n \in cut THEN "returned" ELSE handler[n]]
     /\ response' = [n \in Nonclave |-> IF n \in cut THEN Error ELSE response[n]]
     /\ reply' = [n \in Nonclave |-> NoReply]
     /\ toProxy' = {}

ProxySetupFails ==
  /\ "setup" \in Faults
  /\ proxy = "setup"
  /\ ProxyExits
  /\ UNCHANGED <<nonclave, toEnclave, enclaveVars, history>>

\* Serve returns, and main with it.
ProxyServeEnds ==
  /\ "serve" \in Faults
  /\ proxy = "running"
  /\ ProxyExits
  /\ UNCHANGED <<nonclave, toEnclave, enclaveVars, history>>

Returns(n, resp) ==
  /\ handler' = [handler EXCEPT ![n] = "returned"]
  /\ response' = [response EXCEPT ![n] = resp]

ReadBody(n) ==
  /\ handler[n] = "reading"
  /\ handler' = [handler EXCEPT ![n] = "sending"]
  /\ UNCHANGED <<clientVars, proxy, reply, network, enclaveVars, history>>

\* The client's connection breaks while its body is read.
ReadBodyFails(n) ==
  /\ "client" \in Faults
  /\ handler[n] = "reading"
  /\ Returns(n, Error)
  /\ UNCHANGED <<nonclave, proxy, reply, network, enclaveVars, history>>

ProxySend(n) ==
  /\ handler[n] = "sending"
  /\ EnclaveListens
  /\ handler' = [handler EXCEPT ![n] = "receiving"]
  /\ toEnclave' = toEnclave \union {[origin |-> n, whole |-> TRUE]}
  /\ UNCHANGED <<clientVars, proxy, reply, toProxy, enclaveVars, history>>

\* Nobody listens, or Send breaks off, as it does when its client has gone and
\* r.Context() with it: before anything is delivered, in the middle of the
\* message, or when all of it is.
ProxySendFails(n) ==
  /\ handler[n] = "sending"
  /\ \/ /\ ~EnclaveListens
        /\ UNCHANGED toEnclave
     \/ /\ Faults \intersect {"timeout", "socket"} # {} \/ nonclave[n] # "waiting"
        /\ EnclaveListens
        /\ \/ UNCHANGED toEnclave
           \/ \E whole \in BOOLEAN :
                toEnclave' = toEnclave \union {[origin |-> n, whole |-> whole]}
  /\ Returns(n, Error)
  /\ UNCHANGED <<nonclave, proxy, reply, toProxy, enclaveVars, history>>

\* Mutant: the reply stays in the socket.
ProxyPeeks(n) ==
  /\ handler[n] = "receiving"
  /\ \E m \in toProxy : reply' = [reply EXCEPT ![n] = m]
  /\ handler' = [handler EXCEPT ![n] = "replying"]
  /\ UNCHANGED <<clientVars, proxy, network, enclaveVars, history>>

\* Whatever reply comes first, whoever's it is.
ProxyReceive(n) ==
  /\ handler[n] = "receiving"
  /\ \E m \in toProxy :
       /\ reply' = [reply EXCEPT ![n] = m]
       /\ toProxy' = toProxy \ {m}
  /\ handler' = [handler EXCEPT ![n] = "replying"]
  /\ UNCHANGED <<clientVars, proxy, toEnclave, enclaveVars, history>>

\* Mutant: Receive with context.Background(), which never ends.
ProxyReceiveWaits(n) ==
  /\ "socket" \in Faults
  /\ handler[n] = "receiving"
  /\ \E m \in toProxy : toProxy' = toProxy \ {m}
  /\ Returns(n, Error)
  /\ UNCHANGED <<nonclave, proxy, reply, toEnclave, enclaveVars, history>>

\* DefaultTimeout, or the client has gone and r.Context() with it, or the
\* connection that carried a reply broke.  When nothing is slow enough to
\* time out, only a handler that no reply can reach does.
ProxyReceiveFails(n) ==
  /\ handler[n] = "receiving"
  /\ \/ /\ \/ "timeout" \in Faults \/ nonclave[n] # "waiting"
           \/ enclave = "exited" /\ toProxy = {}
        /\ UNCHANGED toProxy
     \/ /\ "socket" \in Faults
        /\ \E m \in toProxy : toProxy' = toProxy \ {m}
  /\ Returns(n, Error)
  /\ UNCHANGED <<nonclave, proxy, reply, toEnclave, enclaveVars, history>>

\* Mutant: the bytes are written as they came, decoded or not.
ProxyPassesOn(n) ==
  /\ handler[n] = "replying"
  /\ Returns(n, reply[n])
  /\ reply' = [reply EXCEPT ![n] = NoReply]
  /\ UNCHANGED <<nonclave, proxy, network, enclaveVars, history>>

\* Unmarshal attestBytes and write the response, or the error.
ProxyReply(n) ==
  /\ handler[n] = "replying"
  /\ Returns(n, IF reply[n].whole THEN reply[n].report ELSE Error)
  /\ reply' = [reply EXCEPT ![n] = NoReply]
  /\ UNCHANGED <<nonclave, proxy, network, enclaveVars, history>>

HandlerStep(n) ==
  \/ ReadBody(n) \/ ReadBodyFails(n)
  \/ ProxySend(n) \/ ProxySendFails(n)
  \/ ProxyReceive(n) \/ ProxyReceiveFails(n)
  \/ ProxyReply(n)

-----------------------------------------------------------------------------
(* The Enclave: its socket, then one loop; any error ends the program.     *)

EnclaveStarts ==
  /\ enclave = "setup"
  /\ enclave' = "receiving"
  /\ UNCHANGED <<clientVars, proxyVars, network, reqBytes, req, attested, history>>

\* Return from main.  The listening socket goes, and what waited in it.
EnclaveExits ==
  /\ enclave' = "exited"
  /\ toEnclave' = {}
  /\ reqBytes' = NoRequest
  /\ attested' = NoReport
  /\ UNCHANGED req

EnclaveSetupFails ==
  /\ "setup" \in Faults
  /\ enclave = "setup"
  /\ EnclaveExits
  /\ UNCHANGED <<clientVars, proxyVars, toProxy, history>>

EnclaveReceive ==
  /\ enclave = "receiving"
  /\ \E m \in toEnclave :
       /\ reqBytes' = m
       /\ toEnclave' = toEnclave \ {m}
  /\ enclave' = "attesting"
  /\ UNCHANGED <<clientVars, proxyVars, toProxy, req, attested, history>>

EnclaveReceiveFails ==
  /\ "socket" \in Faults
  /\ enclave = "receiving"
  /\ EnclaveExits
  /\ UNCHANGED <<clientVars, proxyVars, toProxy, history>>

Decodes(m) == m.whole /\ m.origin \notin Malformed

\* Mutant: req is declared outside the loop.
ReusedRequest == req

\* The struct a request is decoded into: req is declared inside the loop.
DecodeTarget == ZeroRequest

EnclaveAttest ==
  /\ enclave = "attesting"
  /\ Decodes(reqBytes)
  /\ req' = Unmarshal(reqBytes.origin, DecodeTarget)
  /\ attested' = ReportOn(reqBytes.origin, req')
  /\ issued' = issued \union {attested'}
  /\ reqBytes' = NoRequest
  /\ enclave' = "sending"
  /\ UNCHANGED <<clientVars, proxyVars, network, before>>

\* Mutant: continue instead of return, with nothing sent back.
EnclaveSkipsRequest ==
  /\ enclave = "attesting"
  /\ ~Decodes(reqBytes)
  /\ enclave' = "receiving"
  /\ reqBytes' = NoRequest
  /\ UNCHANGED <<clientVars, proxyVars, network, req, attested, history>>

EnclaveUnmarshalFails ==
  /\ enclave = "attesting"
  /\ ~Decodes(reqBytes)
  /\ EnclaveExits
  /\ UNCHANGED <<clientVars, proxyVars, toProxy, history>>

\* Mutant: the error of Attest is logged and the loop goes on.
EnclaveIgnoresAttester ==
  /\ "attester" \in Faults
  /\ enclave = "attesting"
  /\ enclave' = "receiving"
  /\ reqBytes' = NoRequest
  /\ UNCHANGED <<clientVars, proxyVars, network, req, attested, history>>

EnclaveAttestFails ==
  /\ "attester" \in Faults
  /\ enclave = "attesting"
  /\ EnclaveExits
  /\ UNCHANGED <<clientVars, proxyVars, toProxy, history>>

\* Mutant: no loop around Receive, Attest and Send.
EnclaveSendsOnce ==
  /\ enclave = "sending"
  /\ toProxy' = toProxy \union {[report |-> attested, whole |-> TRUE]}
  /\ EnclaveExits
  /\ UNCHANGED <<clientVars, proxyVars, history>>

EnclaveSend ==
  /\ enclave = "sending"
  /\ proxy = "running"
  /\ toProxy' = toProxy \union {[report |-> attested, whole |-> TRUE]}
  /\ attested' = NoReport
  /\ enclave' = "receiving"
  /\ UNCHANGED <<clientVars, proxyVars, toEnclave, reqBytes, req, history>>

\* As in the Proxy; nobody listens there if that has exited.
EnclaveSendFails ==
  /\ enclave = "sending"
  /\ \/ /\ proxy # "running" \/ "socket" \in Faults
        /\ UNCHANGED toProxy
     \/ /\ proxy = "running" /\ "socket" \in Faults
        /\ \E whole \in BOOLEAN :
             toProxy' = toProxy \union {[report |-> attested, whole |-> whole]}
  /\ EnclaveExits
  /\ UNCHANGED <<clientVars, proxyVars, history>>

EnclaveStep ==
  \/ EnclaveStarts \/ EnclaveSetupFails
  \/ EnclaveReceive \/ EnclaveReceiveFails
  \/ EnclaveAttest \/ EnclaveUnmarshalFails \/ EnclaveAttestFails
  \/ EnclaveSend \/ EnclaveSendFails

-----------------------------------------------------------------------------
\* sev-run.sh and tdx-run.sh: one of the two has ended, and the container ends
\* with the other (Deployment has the steps of the script between the two).
\* Elsewhere the other one just goes on.
ContainerEnds ==
  /\ proxy = "exited" \/ enclave = "exited"
  /\ proxy # "exited" \/ enclave # "exited"
  /\ ProxyExits
  /\ EnclaveExits
  /\ UNCHANGED <<nonclave, history>>

Next ==
  \/ \E n \in Nonclave :
       \/ SetupFails(n) \/ Refused(n) \/ Ask(n) \/ RequestFails(n)
       \/ GetResponse(n) \/ Verify(n)
       \/ HandlerStep(n)
  \/ ProxyStarts \/ ProxySetupFails \/ ProxyServeEnds
  \/ EnclaveStep
  \/ ContainerEnds

Spec == Init /\ [][Next]_vars

\* Goroutines and processes that can go on do; nobody has to fail, and
\* nobody has to start a Nonclave.  Receive always returns in the end
\* because its context has a deadline: ProxyReceiveFails is a handler step.
\* Attest takes no context: one that may fail may as well never return.
Fairness ==
  /\ \A n \in Nonclave :
       WF_vars(GetResponse(n)) /\ WF_vars(Verify(n)) /\ WF_vars(HandlerStep(n))
  /\ WF_vars(ProxyStarts)
  /\ WF_vars(EnclaveStep /\ (enclave = "attesting" => "attester" \notin Faults))

FairSpec == Spec /\ Fairness
-----------------------------------------------------------------------------
(* Correctness.                                                            *)

\* The type of every variable; a message is held only where it is worked on, a
\* client that has not asked has no handler, and handlers and what waits in a
\* socket are gone with their program.
TypeOK ==
  /\ nonclave \in [Nonclave -> {"start", "waiting", "verifying", "accepted", "failed"}]
  /\ response \in [Nonclave -> Report \union {NoResponse, Error}]
  /\ proxy \in {"setup", "running", "exited"}
  /\ handler \in [Nonclave -> {"idle", "reading", "sending", "receiving",
                               "replying", "returned"}]
  /\ reply \in [Nonclave -> Reply \union {NoReply}]
  /\ toEnclave \subseteq Request
  /\ toProxy \subseteq Reply
  /\ enclave \in {"setup", "receiving", "attesting", "sending", "exited"}
  /\ reqBytes \in IF enclave = "attesting" THEN Request ELSE {NoRequest}
  /\ req \in AttestUserDataRequest
  /\ attested \in IF enclave = "sending" THEN Report ELSE {NoReport}
  /\ issued \subseteq Report
  /\ before \in [Nonclave -> SUBSET Report]
  /\ \A n \in Nonclave :
       /\ nonclave[n] = "start" => handler[n] = "idle"
       /\ reply[n] \in IF handler[n] = "replying" THEN Reply ELSE {NoReply}
       /\ response[n] \in IF handler[n] = "returned" THEN Report \union {Error}
                                                    ELSE {NoResponse}
       /\ proxy # "running" => handler[n] \in {"idle", "returned"}
  /\ proxy # "running" => toProxy = {}
  /\ ~EnclaveListens => toEnclave = {}

\* Every client chose a nonce of its own.
UniqueNonces ==
  \A m, n \in Nonclave : Nonce[n] # Empty /\ (Nonce[m] = Nonce[n] => m = n)

\* Although the Proxy hands any reply to any handler, a client that chose a
\* nonce nobody else uses accepts only the report of its own request: with its
\* own user data, which it does not compare, and issued after it asked.
AcceptedIsOwn ==
  UniqueNonces =>
    \A n \in Nonclave : nonclave[n] = "accepted" =>
      /\ response[n] = ReportOn(n, RequestOf(n))
      /\ response[n] \notin before[n]

\* The Enclave attests what was asked and nothing else: a report it issued has
\* exactly the fields of a well-formed request whose handler has sent it, and
\* no field left over from a request before it.
AttestedAsAsked ==
  \A rep \in issued :
    /\ rep = ReportOn(rep.origin, RequestOf(rep.origin))
    /\ rep.origin \notin Malformed
    /\ handler[rep.origin] \in {"receiving", "replying", "returned"}

InReplyOf(n, rep) == reply[n] # NoReply /\ reply[n].report = rep
InSocket(rep) == \E m \in toProxy : m.report = rep

\* A report is in one place at a time: on its way out of the Enclave, in the
\* Proxy's socket, in the hands of one handler, or delivered to one client.
\* Two handlers that wait on the socket never share a reply.
OnePlace ==
  \A rep \in issued :
    /\ \A m, n \in Nonclave :
         /\ InReplyOf(m, rep) /\ InReplyOf(n, rep) => m = n
         /\ response[m] = rep /\ response[n] = rep => m = n
         /\ ~(InReplyOf(m, rep) /\ response[n] = rep)
    /\ InSocket(rep) =>
         /\ attested # rep
         /\ \A n \in Nonclave : ~InReplyOf(n, rep) /\ response[n] # rep
    /\ attested = rep =>
         \A n \in Nonclave : ~InReplyOf(n, rep) /\ response[n] # rep

Receiving == {n \in Nonclave : handler[n] = "receiving"}

\* The replies that are in the Proxy's socket or will be, less the handlers
\* that wait for one.
Surplus ==
  Cardinality(toEnclave) + Cardinality(toProxy)
    + (IF enclave \in {"attesting", "sending"} THEN 1 ELSE 0)
    - Cardinality(Receiving)

\* While the Enclave runs, no handler waits for a reply that nobody is going
\* to send, whatever requests were lost, cut off or given up.
SomeReplyComing == enclave # "exited" => Surplus >= 0

\* Nothing empties the socket of a Proxy that runs: a reply whose handler has given up stays
\* for another one, and from then on somebody always has a reply too many.
SurplusKept ==
  [][enclave' # "exited" /\ proxy' # "exited" => Surplus' >= Surplus]_vars

\* A client accepts no report that existed before it asked.
AcceptedFresh ==
  \A n \in Nonclave : nonclave[n] = "accepted" => response[n] \notin before[n]

\* The Proxy returns the Enclave's report to the Nonclave that asked for it.
ReturnedToRequester ==
  \A n \in Nonclave :
    response[n] \notin {NoResponse, Error} => response[n].origin = n

\* Every request is answered, by a report or an error, and its client ends: the
\* handlers' deadlines suffice, even if the Enclave has exited or hangs, and the
\* Proxy that ends takes its handlers with it.
EveryRequestAnswered ==
  \A n \in Nonclave :
    nonclave[n] = "waiting" ~>
      handler[n] = "returned" /\ nonclave[n] \in {"accepted", "failed"}

\* The demonstration works: when nothing fails or times out after the programs
\* have been set up, and the clients are started when both are ready, each of several
\* clients at once, all with the constant nonce, ends with a report it accepts.
AllServed == \A n \in Nonclave : nonclave[n] = "waiting" ~> nonclave[n] = "accepted"

-----------------------------------------------------------------------------
(* The promise of the example, without Proxy, sockets and HTTP.            *)

ClientOf(n) ==
  CASE nonclave[n] = "start" -> "idle"
    [] nonclave[n] \in {"waiting", "verifying"} -> "asked"
    [] nonclave[n] = "accepted" -> "accepted"
    [] nonclave[n] = "failed" -> "failed"

Witness == INSTANCE WitnessService WITH
  client <- [n \in Nonclave |-> ClientOf(n)],
  witnessed <- issued,
  verdict <- [n \in Nonclave |->
                IF nonclave[n] = "accepted" THEN response[n] ELSE NoReport]

\* Nonclaves, Proxy and Enclave together keep the promise of WitnessService,
\* under every fault and every interleaving of handlers.
KeepsWitnessPromise == Witness!Spec
=============================================================================
