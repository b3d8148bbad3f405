----------------------------- MODULE Deployment -----------------------------
(***************************************************************************)
(* The examples hello-https, hello-http, hello-expr and hello-cel as       *)
(* deployments: the Enclave and the Proxy open their servers one after the *)
(* other and then serve them, one in main and the others in goroutines;    *)
(* either may fail on the way or later, and a container may be started     *)
(* again, which makes a new Enclave.  A Nonclave asks for an attested call *)
(* of a remote site, which the Enclave makes through the Proxy:            *)
(*   Nonclave -> rev -> call -> fwd -> remote site.                        *)
(* In hello-https that is done over TLS, with the Enclave's self-signed    *)
(* certificate, which the Nonclave fetches and verifies before:            *)
(*   Nonclave -> rev -> cert;   Nonclave -> revTLS -> call -> fwd -> site. *)
(* A request is where it waits.  Servers and proxies of the SDK are        *)
(* modelled from how they are used: the constructors listen, so a          *)
(* connection made before Serve waits.                                     *)
(***************************************************************************)
EXTENDS Naturals, Sequences, FiniteSets

CONSTANTS
  Examples,     \* the examples that may be deployed
  Nonclave,     \* runs of its Nonclave
  Mismatched,   \* those configured for another enclave measurement
  EnclaveArgs,  \* the "args" of the Enclave's configuration
  NonclaveArgs, \* NonclaveArgs[n]: those of n's
  DefaultDomain, DefaultIP,  \* the names of a certificate by default
  Host,         \* where the Nonclaves find the Proxy
  NotString,    \* a value in a configuration that is not a string
  EmptyString,
  Faults,       \* which faults may happen, see FaultKind
  Compose,      \* started by process-compose, else by sev-run.sh, tdx-run.sh
  MaxRestarts,  \* bound: how often the container is started again
  NoReply,
  Error         \* an HTTP response with another status than 200

Example == {"https", "http", "expr", "cel"}

\* "setup": a program cannot be set up; "serve": Serve returns an error;
\* "stop": the container is told to stop; "timeout": the context of a Nonclave's
\* request ends; "attester": Attest or GetCert fails or does not return;
\* "remote": the remote site fails, or its answer is not the expected one.
FaultKind == {"setup", "serve", "stop", "timeout", "attester", "remote"}

ASSUME DeploymentAssumption ==
  /\ Examples \subseteq Example
  /\ Mismatched \subseteq Nonclave
  /\ DOMAIN NonclaveArgs = Nonclave
  /\ Faults \subseteq FaultKind
  /\ Compose \in BOOLEAN
  /\ Compose => \A m, n \in Nonclave : m = n   \* it runs one Nonclave
  /\ MaxRestarts \in Nat

VARIABLES
  example,    \* the example that is deployed
  process,    \* process[p]: the main of p
  awk,        \* the processes whose output the awk behind them still copies
  server,     \* server[s]: the server s
  inc,        \* how often the container was started again: which Enclave, and
              \* which certificate, this is
  nonclave,   \* nonclave[n]: how far the main of n has come
  trusted,    \* trusted[n]: the certificates in RootCAs of n's TLS client
  request,    \* request[n]: where n's current request is
  reply       \* reply[n]: the response to it, then the report in it

vars == <<example, process, awk, server, inc, nonclave, trusted, request, reply>>

-----------------------------------------------------------------------------
(* The programs.  Servers are listed in the order in which main makes them;*)
(* main serves the last one itself.  A body of the remote site is "result" *)
(* if it is the JSON of a response with status 200, "errorJSON" if it is   *)
(* JSON with another status, else "text".                                  *)

Pages == {"result", "errorJSON", "text"}

\* A report: by which Enclave, and on what; "chain" is its certificate chain.
Report == [by : 0..MaxRestarts, body : {"chain"} \union Pages]

ASSUME SentinelsAssumption == NoReply \notin Report /\ Error \notin Report

HTTPSProxy == <<"rev", "revTLS", "fwd">>
HTTPProxy == <<"rev", "fwd">>
ExprProxy == <<"rev", "fwd">>
CELProxy == <<"rev", "fwd">>

\* "attests": the bodies for which the handler of "call" issues a report.
HTTPSEnclave == [servers |-> <<"cert", "call">>, attests |-> Pages]
HTTPEnclave == [servers |-> <<"call">>, attests |-> Pages]

\* Mutant: httpGet without the check of the status.
AnyStatus == {"result", "errorJSON"}

\* httpGet is an error unless the status is 200 and the body is JSON.
HTTPGetResult == {"result"}
ExprEnclave == [servers |-> <<"call">>, attests |-> HTTPGetResult]
CELEnclave == [servers |-> <<"call">>, attests |-> HTTPGetResult]

\* "asks": the requests it makes; "decodes": the attested bodies, or outputs
\* computed from them, that it can decode.
HTTPSNonclave == [asks |-> <<"fetching", "calling">>, decodes |-> {"result", "errorJSON"}]
HTTPNonclave == [asks |-> <<"calling">>, decodes |-> {"result", "errorJSON"}]
ExprNonclave == [asks |-> <<"calling">>, decodes |-> {"result", "errorJSON"}]
CELNonclave == [asks |-> <<"calling">>, decodes |-> {"result", "errorJSON"}]

ProxyOf == [https |-> HTTPSProxy, http |-> HTTPProxy, expr |-> ExprProxy, cel |-> CELProxy]
EnclaveOf == [https |-> HTTPSEnclave, http |-> HTTPEnclave,
              expr |-> ExprEnclave, cel |-> CELEnclave]
NonclaveOf == [https |-> HTTPSNonclave, http |-> HTTPNonclave,
               expr |-> ExprNonclave, cel |-> CELNonclave]

-----------------------------------------------------------------------------
(* Processes and servers.                                                  *)

Process == {"enclave", "proxy"}

\* Where the main of a Nonclave returns.
Ended == {"misconfigured", "accepted", "failed"}

Servers(p) == IF p = "enclave" THEN EnclaveOf[example].servers ELSE ProxyOf[example]
ServerSet(p) == {Servers(p)[i] : i \in 1..Len(Servers(p))}
ServedByMain(p) == Servers(p)[Len(Servers(p))]

EnclaveServer == {"cert", "call"}
Server == EnclaveServer \union {"rev", "revTLS", "fwd"}
Owner(s) == IF s \in EnclaveServer THEN "enclave" ELSE "proxy"

Init ==
  /\ example \in Examples
  /\ process = [p \in Process |-> IF Compose /\ p = "enclave" THEN "waiting" ELSE "setup"]
  /\ awk = IF Compose THEN {} ELSE Process
  /\ server = [s \in Server |-> "closed"]
  /\ inc = 0
  /\ nonclave = [n \in Nonclave |-> "start"]
  /\ trusted = [n \in Nonclave |-> {}]
  /\ request = [n \in Nonclave |-> "none"]
  /\ reply = [n \in Nonclave |-> NoReply]

\* The connection is reset of each request that waits at one of these places.
Break(places) ==
  request' = [n \in Nonclave |-> IF request[n] \in places THEN "broken" ELSE request[n]]

\* Places whose requests p carries: the Proxy all of them.
CarriedBy(p) ==
  IF p = "enclave" THEN {"cert", "call", "fwd", "attest"}
                   ELSE Server \union {"attest"}

\* Return from main: the servers are closed, by their defers or the system.
Exit(p) ==
  /\ process' = [process EXCEPT ![p] = "exited"]
  /\ server' = [s \in Server |-> IF Owner(s) = p THEN "closed" ELSE server[s]]
  /\ Break(CarriedBy(p))

\* Make the next server; after the last one main goes on to serve.
Listen(p) ==
  /\ process[p] = "setup"
  /\ \E i \in 1..Len(Servers(p)) :
       /\ server[Servers(p)[i]] = "closed"
       /\ \A j \in 1..(i - 1) : server[Servers(p)[j]] # "closed"
       /\ server' = [server EXCEPT ![Servers(p)[i]] = "listening"]
       /\ process' = [process EXCEPT ![p] = IF i = Len(Servers(p)) THEN "running" ELSE @]
  /\ UNCHANGED <<example, awk, inc, nonclave, trusted, request, reply>>

\* Configuration, attester, certificate, a server: the first error returns.
SetupFails(p) ==
  /\ "setup" \in Faults
  /\ process[p] = "setup"
  /\ Exit(p)
  /\ UNCHANGED <<example, awk, inc, nonclave, trusted, reply>>

\* Mutant: a goroutine is started as soon as its server is made.
LogsEarly(s) ==
  /\ server[s] = "listening"
  /\ server' = [server EXCEPT ![s] = "logged"]
  /\ UNCHANGED <<example, process, awk, inc, nonclave, trusted, request, reply>>

\* Main and each goroutine log that their server has started, then serve.
LogStarted(s) ==
  /\ process[Owner(s)] = "running"
  /\ server[s] = "listening"
  /\ server' = [server EXCEPT ![s] = "logged"]
  /\ UNCHANGED <<example, process, awk, inc, nonclave, trusted, request, reply>>

Serve(s) ==
  /\ server[s] = "logged"
  /\ server' = [server EXCEPT ![s] = "serving"]
  /\ UNCHANGED <<example, process, awk, inc, nonclave, trusted, request, reply>>

\* In a goroutine the error is logged and everything else goes on; in main it
\* ends the program.
ServeFails(s) ==
  /\ "serve" \in Faults
  /\ server[s] = "serving"
  /\ IF s = ServedByMain(Owner(s))
     THEN Exit(Owner(s))
     ELSE /\ server' = [server EXCEPT ![s] = "closed"]
          /\ Break({s})
          /\ UNCHANGED process
  /\ UNCHANGED <<example, awk, inc, nonclave, trusted, reply>>

-----------------------------------------------------------------------------
(* Who starts and stops the processes.                                     *)

\* ready_log_line of each process in .process-compose.yaml
Started(s) == server[s] \in {"logged", "serving"}
ReadyLine(p) ==
  IF p = "enclave" THEN Started("call")
  ELSE Started(IF example = "https" THEN "revTLS" ELSE "rev")

ComposeStartsEnclave ==
  /\ process["enclave"] = "waiting"
  /\ ReadyLine("proxy")
  /\ process' = [process EXCEPT !["enclave"] = "setup"]
  /\ UNCHANGED <<example, awk, server, inc, nonclave, trusted, request, reply>>

\* Everything is stopped: all of process-compose, or the container, which ends
\* with the script that is its main process.
AllEnd ==
  /\ process' = [p \in Process |-> "exited"]
  /\ awk' = {}
  /\ server' = [s \in Server |-> "closed"]
  /\ Break(CarriedBy("enclave") \union CarriedBy("proxy"))
  /\ UNCHANGED <<example, inc, nonclave, trusted, reply>>

Up == awk # {} \/ \E p \in Process : process[p] # "exited"

\* exit_on_end of the nonclave process.
ComposeEnds ==
  /\ Compose
  /\ Up
  /\ \E n \in Nonclave : nonclave[n] \in Ended
  /\ AllEnd

\* The script starts "program | awk" twice and takes $! for the programs: what
\* it waits for are the awks.  An awk ends when the pipe has no writer left.
AwkEnds(p) ==
  /\ p \in awk
  /\ process[p] = "exited"
  /\ awk' = awk \ {p}
  /\ UNCHANGED <<example, process, server, inc, nonclave, trusted, request, reply>>

\* Mutant: wait without -n, for both of them.
WaitsForBoth ==
  /\ ~Compose
  /\ Up
  /\ awk = {}
  /\ AllEnd

\* wait -n: one of the awks has ended, if only before the script came to wait.
ScriptEnds ==
  /\ ~Compose
  /\ Up
  /\ awk # Process
  /\ AllEnd

\* The trap: the script kills the awks, not the programs, and exits.
ScriptStopped ==
  /\ "stop" \in Faults
  /\ ~Compose
  /\ Up
  /\ AllEnd

\* Bounded by MaxRestarts.
Restart ==
  /\ ~Compose
  /\ inc < MaxRestarts
  /\ ~Up
  /\ inc' = inc + 1
  /\ process' = [p \in Process |-> "setup"]
  /\ awk' = Process
  /\ UNCHANGED <<example, server, nonclave, trusted, request, reply>>

-----------------------------------------------------------------------------
(* The Nonclave.                                                           *)

Asking(n) == nonclave[n] \in {"fetching", "calling"}

End(n, how) ==
  /\ nonclave' = [nonclave EXCEPT ![n] = how]
  /\ request' = [request EXCEPT ![n] = "none"]

\* Mutant: no depends_on in .process-compose.yaml.
StartsAtOnce(n) == TRUE

\* process-compose waits for both ready lines, an operator for nothing.
MayStart(n) == Compose => \A p \in Process : ReadyLine(p)

NonclaveStarts(n) ==
  /\ nonclave[n] = "start"
  /\ MayStart(n)
  /\ nonclave' = [nonclave EXCEPT ![n] = NonclaveOf[example].asks[1]]
  /\ UNCHANGED <<example, process, awk, server, inc, trusted, request, reply>>

\* LoadConfig or NewVerifier fails.
NonclaveSetupFails(n) ==
  /\ "setup" \in Faults
  /\ nonclave[n] = "start"
  /\ MayStart(n)
  /\ nonclave' = [nonclave EXCEPT ![n] = "misconfigured"]
  /\ UNCHANGED <<example, process, awk, server, inc, trusted, request, reply>>

\* Client.Do of AttestCertChain, AttestHTTPSCall, AttestHTTPCall, AttestExpr
\* or AttestCEL: connect to the Proxy, by TLS for the call of hello-https.
Connect(n) ==
  /\ Asking(n)
  /\ request[n] = "none"
  /\ reply[n] = NoReply
  /\ LET s == IF example = "https" /\ nonclave[n] = "calling" THEN "revTLS" ELSE "rev"
     IN request' = [request EXCEPT ![n] = IF server[s] = "closed" THEN "broken" ELSE s]
  /\ UNCHANGED <<example, process, awk, server, inc, nonclave, trusted, reply>>

\* Mutant: requests without a deadline.
NoDeadline(n) ==
  /\ Asking(n)
  /\ request[n] = "broken"
  /\ End(n, "failed")
  /\ UNCHANGED <<example, process, awk, server, inc, trusted, reply>>

\* The connection was refused or reset, or the context has ended: each
\* request has one, and waits no longer for a server that never serves.
RequestFails(n) ==
  /\ Asking(n)
  /\ request[n] = "broken" \/ "timeout" \in Faults
  /\ End(n, "failed")
  /\ UNCHANGED <<example, process, awk, server, inc, trusted, reply>>

GetResponse(n) ==
  /\ Asking(n)
  /\ reply[n] # NoReply
  /\ nonclave' = [nonclave EXCEPT ![n] =
                    IF reply[n] = Error THEN "failed"
                    ELSE IF nonclave[n] = "fetching" THEN "verifyingCert"
                    ELSE "verifyingCall"]
  /\ UNCHANGED <<example, process, awk, server, inc, trusted, request, reply>>

\* The certificate goes into the RootCAs of n's client, the domain into its
\* ServerName; nothing is ever taken out again.
AddCertChain(n, cert) == trusted' = [trusted EXCEPT ![n] = @ \union {cert}]

\* Verify the report of the certificate, and have a new client trust it.
VerifyCert(n) ==
  /\ nonclave[n] = "verifyingCert"
  /\ IF n \in Mismatched
     THEN /\ nonclave' = [nonclave EXCEPT ![n] = "failed"]
          /\ UNCHANGED <<trusted, reply>>
     ELSE /\ nonclave' = [nonclave EXCEPT ![n] = "calling"]
          /\ AddCertChain(n, reply[n].by)
          /\ reply' = [reply EXCEPT ![n] = NoReply]
  /\ UNCHANGED <<example, process, awk, server, inc, request>>

\* Verify the report of the call and decode what it attests.
VerifyCall(n) ==
  /\ nonclave[n] = "verifyingCall"
  /\ nonclave' = [nonclave EXCEPT ![n] =
                    IF n \notin Mismatched /\ reply[n].body \in NonclaveOf[example].decodes
                    THEN "accepted" ELSE "failed"]
  /\ UNCHANGED <<example, process, awk, server, inc, trusted, request, reply>>

-----------------------------------------------------------------------------
(* Configuration and trust.                                                *)

GetArg(args, key, default) == IF key \in DOMAIN args THEN args[key] ELSE default

\* domain, _ := GetArg(...).(string): a value of another type becomes "".
DomainOf(args) ==
  LET d == GetArg(args, "domain", DefaultDomain)
  IN IF d = NotString THEN EmptyString ELSE d

CertificateNames == {DomainOf(EnclaveArgs), DefaultIP}

\* An empty ServerName in the TLS configuration stands for the host dialled.
ServerName(n) ==
  LET d == DomainOf(NonclaveArgs[n]) IN IF d = EmptyString THEN Host ELSE d

\* Mutant: the certificate is not checked against RootCAs.
TrustsAnyCertificate(n) == ServerName(n) \in CertificateNames

\* The client trusts this Enclave's certificate, for the name it expects.
Trusts(n) == inc \in trusted[n] /\ ServerName(n) \in CertificateNames

-----------------------------------------------------------------------------
(* Servers at work on the request of n.                                    *)

At(n, s) == Asking(n) /\ request[n] = s /\ server[s] = "serving"

Answer(n, r) ==
  /\ request' = [request EXCEPT ![n] = "none"]
  /\ reply' = [reply EXCEPT ![n] = r]

\* The server of the Enclave at config.Enclave.Addr, or AddrTLS.
Behind(s) == IF s = "rev" THEN EnclaveOf[example].servers[1] ELSE "call"

\* A reverse proxy passes the request on, or answers that it cannot; the TLS
\* one only passes on bytes, so its client sees the connection break.
Forward(n, s) ==
  /\ At(n, s)
  /\ IF server[Behind(s)] # "closed"
     THEN request' = [request EXCEPT ![n] = Behind(s)] /\ UNCHANGED reply
     ELSE IF s = "rev" THEN Answer(n, Error)
          ELSE request' = [request EXCEPT ![n] = "broken"] /\ UNCHANGED reply
  /\ UNCHANGED <<example, process, awk, server, inc, nonclave, trusted>>

\* Mutant: the certificate is kept over a restart.
AttestFirstCert(n) ==
  /\ At(n, "cert")
  /\ \/ Answer(n, [by |-> 0, body |-> "chain"])
     \/ "attester" \in Faults /\ Answer(n, Error)
  /\ UNCHANGED <<example, process, awk, server, inc, nonclave, trusted>>

\* MakeAttestCertHandler: the certificate of this Enclave, attested.
AttestCert(n) ==
  /\ At(n, "cert")
  /\ \/ Answer(n, [by |-> inc, body |-> "chain"])
     \/ "attester" \in Faults /\ Answer(n, Error)
  /\ UNCHANGED <<example, process, awk, server, inc, nonclave, trusted>>

\* The client's TLS connection ends here, and it gives up a server that it
\* does not trust.
HandshakeFails(n) ==
  /\ At(n, "call")
  /\ example = "https"
  /\ ~Trusts(n)
  /\ request' = [request EXCEPT ![n] = "broken"]
  /\ UNCHANGED <<example, process, awk, server, inc, nonclave, trusted, reply>>

\* MakeAttestHTTP(S)CallHandler, or httpGet in the worker of Execute: send a
\* request to the remote site by the proxied client, or answer that one cannot.
HandleCall(n) ==
  /\ At(n, "call")
  /\ example = "https" => Trusts(n)
  /\ IF server["fwd"] # "closed"
     THEN request' = [request EXCEPT ![n] = "fwd"] /\ UNCHANGED reply
     ELSE Answer(n, Error)
  /\ UNCHANGED <<example, process, awk, server, inc, nonclave, trusted>>

\* The remote site answers; or the call fails, which the handler reports.
RemoteAnswers(n) ==
  /\ At(n, "fwd")
  /\ \/ request' = [request EXCEPT ![n] = "attest"] /\ UNCHANGED reply
     \/ "remote" \in Faults /\ Answer(n, Error)
  /\ UNCHANGED <<example, process, awk, server, inc, nonclave, trusted>>

\* Attest the body, or the output computed from it, if the handler takes it.
AttestCall(n) ==
  /\ Asking(n)
  /\ request[n] = "attest"
  /\ \/ \E b \in IF "remote" \in Faults THEN Pages ELSE {"result"} :
          IF b \in EnclaveOf[example].attests
          THEN Answer(n, [by |-> inc, body |-> b])
          ELSE Answer(n, Error)
     \/ "attester" \in Faults /\ Answer(n, Error)
  /\ UNCHANGED <<example, process, awk, server, inc, nonclave, trusted>>

-----------------------------------------------------------------------------
ProcessStep(p) == Listen(p) \/ SetupFails(p)
ServerStep(s) == LogStarted(s) \/ Serve(s) \/ ServeFails(s)
RelayStep(n) ==
  \/ Forward(n, "rev") \/ Forward(n, "revTLS")
  \/ HandshakeFails(n) \/ HandleCall(n) \/ RemoteAnswers(n)
AttestingStep(n) == AttestCert(n) \/ AttestCall(n)
NonclaveStep(n) ==
  \/ Connect(n) \/ RequestFails(n)
  \/ GetResponse(n) \/ VerifyCert(n) \/ VerifyCall(n)

Next ==
  \/ \E p \in Process : ProcessStep(p)
  \/ \E s \in Server : ServerStep(s)
  \/ \E p \in Process : AwkEnds(p)
  \/ ComposeStartsEnclave \/ ComposeEnds \/ ScriptEnds \/ ScriptStopped \/ Restart
  \/ \E n \in Nonclave : NonclaveStarts(n) \/ NonclaveSetupFails(n)
                       \/ NonclaveStep(n) \/ RelayStep(n) \/ AttestingStep(n)

Spec == Init /\ [][Next]_vars

\* Programs and goroutines go on, servers serve, and awk, the script and
\* process-compose do their work; nobody has to stop or restart a container.  A call ends by the context
\* of its handler, but Attest takes none: one that may fail may also hang.
FairSpec ==
  /\ Spec
  /\ \A p \in Process : WF_vars(Listen(p))
  /\ \A s \in Server : WF_vars(LogStarted(s)) /\ WF_vars(Serve(s))
  /\ WF_vars(ComposeStartsEnclave) /\ WF_vars(ComposeEnds)
  /\ (\A p \in Process : WF_vars(AwkEnds(p))) /\ WF_vars(ScriptEnds)
  /\ \A n \in Nonclave : /\ WF_vars(NonclaveStarts(n)) /\ WF_vars(NonclaveStep(n))
                         /\ WF_vars(RelayStep(n))
                         /\ WF_vars("attester" \notin Faults /\ AttestingStep(n))

-----------------------------------------------------------------------------
(* Correctness.                                                            *)

Place == Server \union {"none", "attest", "broken"}

\* The type of every variable; an awk ends after its program, a server is served
\* only while the program that made it runs, and a report is verified for what
\* it was asked for.
TypeOK ==
  /\ example \in Examples
  /\ process \in [Process -> {"waiting", "setup", "running", "exited"}]
  /\ awk \subseteq Process
  /\ ~Compose => \A p \in Process \ awk : process[p] = "exited"
  /\ server \in [Server -> {"closed", "listening", "logged", "serving"}]
  /\ inc \in 0..MaxRestarts
  /\ nonclave \in [Nonclave -> {"start", "fetching", "verifyingCert", "calling",
                                "verifyingCall"} \union Ended]
  /\ trusted \in [Nonclave -> SUBSET (0..MaxRestarts)]
  /\ request \in [Nonclave -> Place]
  /\ reply \in [Nonclave -> {NoReply, Error} \union Report]
  /\ \A s \in Server : Started(s) => process[Owner(s)] = "running"
  /\ \A n \in Nonclave :
       /\ nonclave[n] = "verifyingCert" => reply[n].body = "chain"
       /\ nonclave[n] \in {"verifyingCall", "accepted"} => reply[n].body # "chain"

\* A hello-https Nonclave accepts the report of a call only from the very
\* Enclave whose attested certificate it fetched: not from the one a restart put
\* in its place, although its measurement is the same and Verify would pass it.
SameEnclave ==
  example = "https" =>
    \A n \in Nonclave : nonclave[n] = "accepted" => trusted[n] = {reply[n].by}

\* When process-compose has seen both ready lines every server of the
\* deployment accepts connections, the ones in goroutines that have logged
\* nothing yet included: the Nonclave it starts then is not refused.
ReadyMeansListening ==
  (\A p \in Process : ReadyLine(p)) =>
    \A p \in Process : \A s \in ServerSet(p) : server[s] # "closed"

\* Under process-compose the Nonclave ends with a verified response, unless it
\* or one of the other programs could not be set up.
DemoServed ==
  \A n \in Nonclave :
    <>( \/ nonclave[n] \in {"accepted", "misconfigured"}
       \/ /\ nonclave[n] = "start"
          /\ \E p \in Process : process[p] = "exited" )

\* Every Nonclave that makes a request ends, whichever server or process is
\* gone, and even if the attester never returns.
EveryNonclaveEnds == \A n \in Nonclave : Asking(n) ~> nonclave[n] \in Ended

\* A container never stays half alive: when Enclave or Proxy has ended, from
\* whatever error, the other one ends as well, although the script that sees to
\* it waits for neither of them but for the awks that copy their output.
SharedFate ==
  \A p \in Process :
    process[p] = "exited" ~> \A q \in Process : process[q] = "exited"

-----------------------------------------------------------------------------
(* The promise of the examples, without processes, servers and proxies.    *)

ClientOf(n) ==
  CASE nonclave[n] = "start" -> "idle"
    [] nonclave[n] \in {"fetching", "verifyingCert", "calling", "verifyingCall"} -> "asked"
    [] nonclave[n] = "accepted" -> "accepted"
    [] nonclave[n] \in {"misconfigured", "failed"} -> "failed"

\* A response that is an error gives the client nothing.
AnswerOf(n) == IF reply[n] = Error THEN NoReply ELSE reply[n]

\* hello-expr and hello-cel promise an evaluation of a response that the remote
\* site gave with status 200.
Promised == [e \in Examples |-> IF e \in {"expr", "cel"} THEN {"result"} ELSE Pages]

Call == INSTANCE AttestedCall WITH
  Client <- Nonclave,
  Bodies <- Promised,
  NoAnswer <- NoReply,
  enclave <- inc,
  client <- [n \in Nonclave |-> ClientOf(n)],
  bound <- trusted,
  answer <- [n \in Nonclave |-> AnswerOf(n)]

\* Nonclave, servers and Enclave together keep the promise of AttestedCall, under
\* every fault, and wherever a restart puts another Enclave in the place of one
\* whose certificate has been fetched or that is at work on a call.
KeepsCallPromise == Call!Spec
=============================================================================
