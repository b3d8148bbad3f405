-------------------------- MODULE DeploymentProofs --------------------------
(***************************************************************************)
(* Theorems about Deployment, for any of the four examples, any Nonclaves  *)
(* and configurations, any number of restarts and any set of faults.       *)
(***************************************************************************)
EXTENDS Deployment, TLAPS

-----------------------------------------------------------------------------
(* The programs.                                                           *)

\* What the proofs use of the tables of programs.
LEMMA Programs ==
  ASSUME example \in Examples
  PROVE  /\ example \in Example
         /\ EnclaveOf[example].attests \subseteq Pages
         /\ example \in {"expr", "cel"} => EnclaveOf[example].attests = {"result"}
         /\ Behind("rev") = IF example = "https" THEN "cert" ELSE "call"
         /\ NonclaveOf[example].asks[1] = IF example = "https" THEN "fetching" ELSE "calling"
<1>1. example \in Example
  BY DeploymentAssumption
<1>2. CASE example = "https"
  BY <1>2 DEF Example, EnclaveOf, NonclaveOf, HTTPSEnclave, HTTPSNonclave, Behind
<1>3. CASE example = "http"
  BY <1>3 DEF Example, EnclaveOf, NonclaveOf, HTTPEnclave, HTTPNonclave, Behind
<1>4. CASE example = "expr"
  BY <1>4 DEF Example, EnclaveOf, NonclaveOf, ExprEnclave, ExprNonclave, Behind,
              HTTPGetResult, Pages
<1>5. CASE example = "cel"
  BY <1>5 DEF Example, EnclaveOf, NonclaveOf, CELEnclave, CELNonclave, Behind,
              HTTPGetResult, Pages
<1> QED
  BY <1>1, <1>2, <1>3, <1>4, <1>5 DEF Example

\* Each program makes servers of its own only.
LEMMA OwnServers ==
  ASSUME example \in Examples, NEW p \in Process
  PROVE  /\ Len(Servers(p)) \in Nat \ {0}
         /\ \A i \in 1..Len(Servers(p)) : Servers(p)[i] \in Server /\ Owner(Servers(p)[i]) = p
<1> USE DEF Server, EnclaveServer, Owner, Servers
<1>1. example \in Example
  BY Programs
<1>2. CASE p = "enclave" /\ example = "https"
  BY <1>2 DEF EnclaveOf, HTTPSEnclave
<1>3. CASE p = "enclave" /\ example # "https"
  <2>1. EnclaveOf[example].servers = <<"call">>
    BY <1>1, <1>3 DEF Example, EnclaveOf, HTTPEnclave, ExprEnclave, CELEnclave
  <2> QED
    BY <1>3, <2>1
<1>4. CASE p = "proxy" /\ example = "https"
  BY <1>4 DEF ProxyOf, HTTPSProxy
<1>5. CASE p = "proxy" /\ example # "https"
  <2>1. ProxyOf[example] = <<"rev", "fwd">>
    BY <1>1, <1>5 DEF Example, ProxyOf, HTTPProxy, ExprProxy, CELProxy
  <2> QED
    BY <1>5, <2>1
<1> QED
  BY <1>2, <1>3, <1>4, <1>5 DEF Process

-----------------------------------------------------------------------------
(* The inductive invariant.  Which Enclave a report is by follows from     *)
(* where the request is: it reaches the remote site only from an Enclave   *)
(* that its client trusts, and goes down with that Enclave.                *)

\* A report of a certificate, and one of a call as the handler of this example
\* issues it.
ChainReport == [by : 0..MaxRestarts, body : {"chain"}]
CallReport == [by : 0..MaxRestarts, body : EnclaveOf[example].attests]

AtEnclave == {"cert", "call", "fwd", "attest"}

\* A program that does not run has no server, and what the Enclave worked on
\* is gone with it.
DownIsClosed ==
  \A p \in Process : process[p] \in {"waiting", "exited"} =>
    /\ \A s \in Server : Owner(s) = p => server[s] = "closed"
    /\ p = "enclave" => \A n \in Nonclave : request[n] \notin AtEnclave

FirstHop == IF example = "https" THEN "revTLS" ELSE "rev"

\* A request takes the way of what it asks for, and ends in one reply.
OnItsWay(n) ==
  /\ ~Asking(n) => request[n] = "none"
  /\ reply[n] # NoReply => request[n] = "none"
  /\ nonclave[n] \in {"fetching", "verifyingCert"} => example = "https"
  /\ nonclave[n] = "fetching" => request[n] \in {"none", "rev", "cert", "broken"}
  /\ nonclave[n] = "calling" =>
       request[n] \in {"none", FirstHop, "call", "fwd", "attest", "broken"}

\* A reply is one to what was asked.
RepliesFit(n) ==
  /\ nonclave[n] = "start" => reply[n] = NoReply
  /\ nonclave[n] = "fetching" => reply[n] \in {NoReply, Error} \union ChainReport
  /\ nonclave[n] = "verifyingCert" => reply[n] \in ChainReport
  /\ nonclave[n] = "calling" => reply[n] \in {NoReply, Error} \union CallReport
  /\ nonclave[n] \in {"verifyingCall", "accepted"} => reply[n] \in CallReport

\* A hello-https client trusts one certificate, once it has verified it: that
\* of the Enclave which works on its call, and which a report of one is by.
TrustsOne(n) ==
  example = "https" =>
    /\ nonclave[n] \in {"start", "fetching", "verifyingCert"} => trusted[n] = {}
    /\ nonclave[n] \in {"calling", "verifyingCall", "accepted"} =>
         \E c \in 0..MaxRestarts : trusted[n] = {c}
    /\ request[n] \in {"fwd", "attest"} => inc \in trusted[n]
    /\ nonclave[n] = "calling" /\ reply[n] \notin {NoReply, Error} =>
         reply[n].by \in trusted[n]
    /\ nonclave[n] \in {"verifyingCall", "accepted"} => reply[n].by \in trusted[n]

ClientInv(n) == OnItsWay(n) /\ RepliesFit(n) /\ TrustsOne(n)

IInv ==
  /\ TypeOK
  /\ DownIsClosed
  /\ \A n \in Nonclave : ClientInv(n)

LEMMA InvInit == Init => IInv
<1> SUFFICES ASSUME Init PROVE IInv
  OBVIOUS
<1>1. TypeOK
  BY DeploymentAssumption DEF Init, TypeOK, Started, Ended, Place
<1>2. DownIsClosed
  BY DEF Init, DownIsClosed, AtEnclave
<1>3. ASSUME NEW n \in Nonclave PROVE ClientInv(n)
  BY <1>3 DEF Init, ClientInv, OnItsWay, RepliesFit, TrustsOne, Asking
<1> QED
  BY <1>1, <1>2, <1>3 DEF IInv

-----------------------------------------------------------------------------
(* Steps of the programs and of what starts and stops them.  They change   *)
(* nothing of a client but that its connection breaks.                     *)

SystemStep ==
  \/ \E p \in Process : ProcessStep(p)
  \/ \E s \in Server : ServerStep(s)
  \/ \E p \in Process : AwkEnds(p)
  \/ ComposeStartsEnclave \/ ComposeEnds \/ ScriptEnds \/ ScriptStopped \/ Restart

\* A reset of connections at some places leaves the others alone.
LEMMA Breaks ==
  ASSUME NEW places \in SUBSET Place, "none" \notin places,
         request \in [Nonclave -> Place], Break(places)
  PROVE  /\ request' \in [Nonclave -> Place]
         /\ \A n \in Nonclave :
              \/ request'[n] = request[n] /\ request[n] \notin places
              \/ request'[n] = "broken" /\ request[n] # "none"
  BY DEF Break, Place

LEMMA ExitBreaks ==
  ASSUME TypeOK, NEW p \in Process, Exit(p)
  PROVE  /\ process' = [process EXCEPT ![p] = "exited"]
         /\ server' = [s \in Server |-> IF Owner(s) = p THEN "closed" ELSE server[s]]
         /\ request' \in [Nonclave -> Place]
         /\ \A n \in Nonclave :
              \/ request'[n] = request[n] /\ request[n] \notin AtEnclave
              \/ request'[n] = "broken" /\ request[n] # "none"
<1>1. CarriedBy(p) \in SUBSET Place /\ "none" \notin CarriedBy(p) /\ AtEnclave \subseteq CarriedBy(p)
  BY DEF CarriedBy, Place, Server, EnclaveServer, AtEnclave
<1>2. Break(CarriedBy(p))
  BY DEF Exit
<1> QED
  BY <1>1, <1>2, Breaks DEF Exit, TypeOK

LEMMA AllEndBreaks ==
  ASSUME TypeOK, AllEnd
  PROVE  /\ request' \in [Nonclave -> Place]
         /\ \A n \in Nonclave :
              \/ request'[n] = request[n] /\ request[n] \notin AtEnclave
              \/ request'[n] = "broken" /\ request[n] # "none"
<1> DEFINE places == CarriedBy("enclave") \union CarriedBy("proxy")
<1>1. places \in SUBSET Place /\ "none" \notin places /\ AtEnclave \subseteq places
  BY DEF CarriedBy, Place, Server, EnclaveServer, AtEnclave
<1>2. Break(places)
  BY DEF AllEnd
<1> HIDE DEF places
<1> QED
  BY <1>1, <1>2, Breaks DEF TypeOK

LEMMA ServeFailBreaks ==
  ASSUME TypeOK, NEW s \in Server, ServeFails(s)
  PROVE  \/ Exit(Owner(s))
         \/ /\ server' = [server EXCEPT ![s] = "closed"]
            /\ UNCHANGED process
            /\ request' \in [Nonclave -> Place]
            /\ \A n \in Nonclave :
                 \/ request'[n] = request[n]
                 \/ request'[n] = "broken" /\ request[n] # "none"
<1>1. {s} \in SUBSET Place /\ "none" \notin {s}
  BY DEF Place, Server, EnclaveServer
<1>2. CASE Break({s})
  BY <1>1, <1>2, Breaks DEF TypeOK, ServeFails
<1> QED
  BY <1>2 DEF ServeFails

LEMMA SystemStepBreaks ==
  ASSUME TypeOK, SystemStep
  PROVE  /\ UNCHANGED <<example, nonclave, trusted, reply>>
         /\ request' \in [Nonclave -> Place]
         /\ \A n \in Nonclave :
              \/ request'[n] = request[n]
              \/ request'[n] = "broken" /\ request[n] # "none"
         /\ inc' = inc \/ Restart
<1>1. CASE UNCHANGED <<example, inc, nonclave, trusted, request, reply>>
  BY <1>1 DEF TypeOK
<1>2. ASSUME NEW p \in Process, ProcessStep(p)
      PROVE  \/ UNCHANGED <<example, inc, nonclave, trusted, request, reply>>
             \/ SetupFails(p)
  BY <1>2 DEF ProcessStep, Listen
<1>3. ASSUME NEW s \in Server, ServerStep(s)
      PROVE  \/ UNCHANGED <<example, inc, nonclave, trusted, request, reply>>
             \/ ServeFails(s)
  BY <1>3 DEF ServerStep, LogStarted, Serve
<1>4. ASSUME NEW p \in Process, SetupFails(p)
      PROVE  /\ UNCHANGED <<example, inc, nonclave, trusted, reply>>
             /\ request' \in [Nonclave -> Place]
             /\ \A n \in Nonclave : \/ request'[n] = request[n]
                                    \/ request'[n] = "broken" /\ request[n] # "none"
  BY <1>4, ExitBreaks DEF SetupFails
<1>5. ASSUME NEW s \in Server, ServeFails(s)
      PROVE  /\ UNCHANGED <<example, inc, nonclave, trusted, reply>>
             /\ request' \in [Nonclave -> Place]
             /\ \A n \in Nonclave : \/ request'[n] = request[n]
                                    \/ request'[n] = "broken" /\ request[n] # "none"
  <2>1. Owner(s) \in Process
    BY DEF Owner, Process
  <2> QED
    BY <1>5, <2>1, ExitBreaks, ServeFailBreaks DEF ServeFails
<1>6. CASE ComposeStartsEnclave
  BY <1>1, <1>6 DEF ComposeStartsEnclave
<1>7. CASE AllEnd
  BY <1>7, AllEndBreaks DEF AllEnd
<1>8. CASE Restart
  BY <1>8 DEF Restart, TypeOK
<1>9. ASSUME NEW p \in Process, AwkEnds(p)
      PROVE  UNCHANGED <<example, inc, nonclave, trusted, request, reply>>
  BY <1>9 DEF AwkEnds
<1> QED
  BY <1>1, <1>2, <1>3, <1>4, <1>5, <1>6, <1>7, <1>8, <1>9
     DEF SystemStep, ComposeEnds, ScriptEnds, ScriptStopped

\* The servers and processes after a program has exited.
LEMMA ExitCloses ==
  ASSUME TypeOK, DownIsClosed, NEW p \in Process, Exit(p)
  PROVE  /\ process' \in [Process -> {"waiting", "setup", "running", "exited"}]
         /\ server' \in [Server -> {"closed", "listening", "logged", "serving"}]
         /\ \A s \in Server : Started(s)' => process'[Owner(s)] = "running"
         /\ DownIsClosed'
<1> USE ExitBreaks
<1>1. /\ process' \in [Process -> {"waiting", "setup", "running", "exited"}]
      /\ server' \in [Server -> {"closed", "listening", "logged", "serving"}]
  BY DEF TypeOK
<1>2. \A s \in Server : Started(s)' => process'[Owner(s)] = "running"
  BY DEF TypeOK, Started, Owner, Process
<1>3. DownIsClosed'
  <2> SUFFICES ASSUME NEW q \in Process, process'[q] \in {"waiting", "exited"}
               PROVE  /\ \A s \in Server : Owner(s) = q => server'[s] = "closed"
                      /\ q = "enclave" => \A n \in Nonclave : request'[n] \notin AtEnclave
    BY DEF DownIsClosed
  <2>1. \A n \in Nonclave : request'[n] \notin AtEnclave
    BY DEF AtEnclave
  <2>2. q = p \/ process[q] \in {"waiting", "exited"}
    BY DEF TypeOK
  <2>3. \A s \in Server : Owner(s) = q => server'[s] = "closed"
    BY <2>2 DEF DownIsClosed
  <2> QED
    BY <2>1, <2>3
<1> QED
  BY <1>1, <1>2, <1>3

LEMMA SystemStepServers ==
  ASSUME TypeOK, DownIsClosed, SystemStep
  PROVE  /\ process' \in [Process -> {"waiting", "setup", "running", "exited"}]
         /\ server' \in [Server -> {"closed", "listening", "logged", "serving"}]
         /\ \A s \in Server : Started(s)' => process'[Owner(s)] = "running"
         /\ DownIsClosed'
<1> DEFINE Types == /\ process' \in [Process -> {"waiting", "setup", "running", "exited"}]
                    /\ server' \in [Server -> {"closed", "listening", "logged", "serving"}]
                    /\ \A s \in Server : Started(s)' => process'[Owner(s)] = "running"
<1>1. ASSUME NEW p \in Process, SetupFails(p) PROVE Types /\ DownIsClosed'
  BY <1>1, ExitCloses DEF SetupFails
<1>2. ASSUME NEW p \in Process, Listen(p) PROVE Types /\ DownIsClosed'
  <2>1. PICK i \in 1..Len(Servers(p)) :
          /\ server' = [server EXCEPT ![Servers(p)[i]] = "listening"]
          /\ process' = [process EXCEPT ![p] = IF i = Len(Servers(p)) THEN "running" ELSE @]
    BY <1>2 DEF Listen
  <2>2. Servers(p)[i] \in Server /\ Owner(Servers(p)[i]) = p
    BY OwnServers DEF TypeOK
  <2>3. process[p] = "setup" /\ process'[p] \in {"setup", "running"}
    BY <1>2, <2>1 DEF Listen, TypeOK
  <2>4. Types
    BY <2>1, <2>2, <2>3 DEF TypeOK, Started
  <2>5. DownIsClosed'
    BY <1>2, <2>1, <2>2, <2>3 DEF TypeOK, DownIsClosed, Listen
  <2> QED
    BY <2>4, <2>5
<1>3. ASSUME NEW s \in Server, LogStarted(s) \/ Serve(s) PROVE Types /\ DownIsClosed'
  <2>1. process[Owner(s)] = "running" /\ UNCHANGED <<process, request>>
    BY <1>3 DEF LogStarted, Serve, TypeOK, Started
  <2>2. \E how \in {"logged", "serving"} : server' = [server EXCEPT ![s] = how]
    BY <1>3 DEF LogStarted, Serve
  <2> QED
    BY <2>1, <2>2 DEF TypeOK, Started, DownIsClosed
<1>4. ASSUME NEW s \in Server, ServeFails(s) PROVE Types /\ DownIsClosed'
  <2>1. Owner(s) \in Process
    BY DEF Owner, Process
  <2>2. CASE Exit(Owner(s))
    BY <2>1, <2>2, ExitCloses
  <2>3. CASE /\ server' = [server EXCEPT ![s] = "closed"]
             /\ UNCHANGED process
             /\ \A n \in Nonclave : request'[n] \in {request[n], "broken"}
    BY <2>3 DEF TypeOK, Started, DownIsClosed, AtEnclave
  <2> QED
    BY <1>4, <2>2, <2>3, ServeFailBreaks
<1>5. CASE ComposeStartsEnclave
  BY <1>5 DEF ComposeStartsEnclave, TypeOK, Started, DownIsClosed, Process, Owner
<1>6. CASE AllEnd
  <2>1. \A n \in Nonclave : request'[n] \notin AtEnclave
    BY <1>6, AllEndBreaks DEF AtEnclave
  <2> QED
    BY <1>6, <2>1 DEF AllEnd, TypeOK, Started, DownIsClosed
<1>7. CASE Restart
  BY <1>7 DEF Restart, Up, TypeOK, Started, DownIsClosed, Process, Owner
<1>8. ASSUME NEW p \in Process, AwkEnds(p) PROVE Types /\ DownIsClosed'
  BY <1>8 DEF AwkEnds, TypeOK, Started, DownIsClosed
<1> QED
  BY <1>1, <1>2, <1>3, <1>4, <1>5, <1>6, <1>7, <1>8
     DEF SystemStep, ProcessStep, ServerStep, ComposeEnds, ScriptEnds, ScriptStopped

\* An awk is there as long as its program, under the script.
LEMMA SystemStepAwks ==
  ASSUME TypeOK, SystemStep
  PROVE  /\ awk' \subseteq Process
         /\ ~Compose => \A p \in Process \ awk' : process'[p] = "exited"
<1>1. CASE UNCHANGED awk /\ \A p \in Process : process[p] = "exited" => process'[p] = "exited"
  BY <1>1 DEF TypeOK
<1>2. ASSUME NEW p \in Process, ProcessStep(p)
      PROVE  UNCHANGED awk /\ \A q \in Process : process[q] = "exited" => process'[q] = "exited"
  BY <1>2 DEF TypeOK, ProcessStep, Listen, SetupFails, Exit
<1>3. ASSUME NEW s \in Server, ServerStep(s)
      PROVE  UNCHANGED awk /\ \A q \in Process : process[q] = "exited" => process'[q] = "exited"
  BY <1>3 DEF TypeOK, ServerStep, LogStarted, Serve, ServeFails, Exit
<1>4. CASE ComposeStartsEnclave
  BY <1>1, <1>4 DEF TypeOK, ComposeStartsEnclave
<1>5. CASE AllEnd
  BY <1>5 DEF AllEnd
<1>6. CASE Restart
  BY <1>6 DEF Restart
<1>7. ASSUME NEW p \in Process, AwkEnds(p)
      PROVE  /\ awk' \subseteq Process
             /\ ~Compose => \A q \in Process \ awk' : process'[q] = "exited"
  BY <1>7 DEF TypeOK, AwkEnds
<1> QED
  BY <1>1, <1>2, <1>3, <1>4, <1>5, <1>6, <1>7
     DEF SystemStep, ComposeEnds, ScriptEnds, ScriptStopped

LEMMA SystemStepInv ==
  ASSUME IInv, SystemStep
  PROVE  IInv'
<1> USE SystemStepBreaks DEF IInv
<1>1. inc' \in 0..MaxRestarts
  BY DeploymentAssumption DEF TypeOK, Restart
<1>2. TypeOK'
  BY <1>1, SystemStepServers, SystemStepAwks DEF TypeOK
<1>3. ASSUME NEW n \in Nonclave PROVE ClientInv(n)'
  <2>1. OnItsWay(n)'
    BY DEF ClientInv, OnItsWay, Asking, FirstHop
  <2>2. RepliesFit(n)'
    BY DEF ClientInv, RepliesFit, CallReport
  <2>3. TrustsOne(n)'
    <3>1. Restart => request[n] \notin {"fwd", "attest"}
      BY DEF Restart, Up, DownIsClosed, AtEnclave, Process
    <3>2. request'[n] \in {"fwd", "attest"} => request[n] = request'[n] /\ inc' = inc
      BY <3>1 DEF Restart
    <3> QED
      BY <3>2 DEF ClientInv, TrustsOne
  <2> QED
    BY <2>1, <2>2, <2>3 DEF ClientInv
<1> QED
  BY <1>2, <1>3, SystemStepServers

-----------------------------------------------------------------------------
(* Steps of a client and of the servers that work on its request.          *)

ClientStep(n) ==
  \/ NonclaveStarts(n) \/ NonclaveSetupFails(n)
  \/ NonclaveStep(n) \/ RelayStep(n) \/ AttestingStep(n)

\* They change what belongs to this client, if anything.
LEMMA ClientStepOwn ==
  ASSUME TypeOK, NEW n \in Nonclave, ClientStep(n)
  PROVE  /\ UNCHANGED <<example, process, awk, server, inc>>
         /\ \E x : nonclave' = [nonclave EXCEPT ![n] = x]
         /\ \E x : trusted' = [trusted EXCEPT ![n] = x]
         /\ \E x : request' = [request EXCEPT ![n] = x]
         /\ \E x : reply' = [reply EXCEPT ![n] = x]
<1>1. /\ nonclave = [nonclave EXCEPT ![n] = nonclave[n]]
      /\ trusted = [trusted EXCEPT ![n] = trusted[n]]
      /\ request = [request EXCEPT ![n] = request[n]]
      /\ reply = [reply EXCEPT ![n] = reply[n]]
  BY DEF TypeOK
<1>2. CASE NonclaveStarts(n) \/ NonclaveSetupFails(n)
  BY <1>1, <1>2 DEF NonclaveStarts, NonclaveSetupFails
<1>3. CASE NonclaveStep(n)
  BY <1>1, <1>3 DEF NonclaveStep, Connect, RequestFails, End, GetResponse, VerifyCert,
                    VerifyCall, AddCertChain
<1>4. CASE RelayStep(n)
  BY <1>1, <1>4 DEF RelayStep, Forward, HandshakeFails, HandleCall, RemoteAnswers, Answer
<1>5. CASE AttestingStep(n)
  BY <1>1, <1>5 DEF AttestingStep, AttestCert, AttestCall, Answer
<1> QED
  BY <1>2, <1>3, <1>4, <1>5 DEF ClientStep

\* What a client's own variables have to be.
TypeOf(n) ==
  /\ nonclave[n] \in {"start", "fetching", "verifyingCert", "calling",
                      "verifyingCall"} \union Ended
  /\ trusted[n] \in SUBSET (0..MaxRestarts)
  /\ request[n] \in Place
  /\ reply[n] \in {NoReply, Error} \union Report

\* Where a server of the Enclave is, the Enclave runs.
LEMMA UpIsOpen ==
  ASSUME DownIsClosed, TypeOK, NEW s \in EnclaveServer, server[s] # "closed"
  PROVE  process["enclave"] \notin {"waiting", "exited"}
  BY DEF DownIsClosed, Process, Server, Owner

\* What a client asks for reaches the Enclave only while that runs.
LEMMA EnclaveAtWork ==
  ASSUME IInv, NEW n \in Nonclave, ClientStep(n), request'[n] \in AtEnclave
  PROVE  process["enclave"] \notin {"waiting", "exited"}
<1>1. CASE request[n] \in AtEnclave
  BY <1>1 DEF IInv, DownIsClosed, Process
<1>2. ASSUME NEW s \in {"rev", "revTLS"}, Forward(n, s), request[n] \notin AtEnclave
      PROVE  process["enclave"] \notin {"waiting", "exited"}
  <2>1. Behind(s) \in EnclaveServer
    BY Programs DEF IInv, TypeOK, Behind, EnclaveServer
  <2>2. server[Behind(s)] # "closed"
    BY <1>2 DEF IInv, TypeOK, Forward, Answer, AtEnclave
  <2> QED
    BY <2>1, <2>2, UpIsOpen DEF IInv
<1>3. CASE request[n] \notin AtEnclave /\ ~Forward(n, "rev") /\ ~Forward(n, "revTLS")
  <2>1. request'[n] \notin AtEnclave
    BY <1>3 DEF IInv, TypeOK, ClientStep, NonclaveStarts, NonclaveSetupFails, NonclaveStep,
                Connect, RequestFails, End, GetResponse, VerifyCert, VerifyCall, RelayStep,
                HandshakeFails, HandleCall, RemoteAnswers, AttestingStep, AttestCert,
                AttestCall, Answer, At, AtEnclave
  <2> QED
    BY <2>1
<1> QED
  BY <1>1, <1>2, <1>3

\* The client alone: it starts, connects, gives up, and gets a response.
LEMMA NonclaveKeeps ==
  ASSUME IInv, NEW n \in Nonclave,
         \/ NonclaveStarts(n) \/ NonclaveSetupFails(n)
         \/ Connect(n) \/ RequestFails(n) \/ GetResponse(n)
  PROVE  TypeOf(n)' /\ ClientInv(n)'
<1> USE DEF ClientInv, OnItsWay, RepliesFit, TrustsOne, Asking
<1>1. TypeOK /\ TypeOf(n) /\ ClientInv(n)
  BY DEF IInv, TypeOK, TypeOf
<1>2. CASE NonclaveStarts(n)
  <2>1. nonclave'[n] = IF example = "https" THEN "fetching" ELSE "calling"
    BY <1>1, <1>2, Programs DEF TypeOK, NonclaveStarts
  <2> QED
    BY <1>1, <1>2, <2>1 DEF TypeOK, TypeOf, NonclaveStarts, CallReport
<1>3. CASE NonclaveSetupFails(n)
  BY <1>1, <1>3 DEF TypeOK, TypeOf, Ended, NonclaveSetupFails
<1>4. CASE Connect(n)
  <2>1. request'[n] \in {"broken", IF nonclave[n] = "fetching" THEN "rev" ELSE FirstHop}
    BY <1>1, <1>4 DEF TypeOK, Connect, FirstHop
  <2>2. request'[n] \in Place
    BY <2>1 DEF FirstHop, Place, Server
  <2>3. TypeOf(n)'
    BY <1>1, <1>4, <2>2 DEF TypeOf, Connect
  <2>4. OnItsWay(n)'
    BY <1>1, <1>4, <2>1 DEF Connect, FirstHop
  <2>5. RepliesFit(n)' /\ TrustsOne(n)'
    BY <1>1, <1>4, <2>1 DEF Connect, FirstHop, CallReport
  <2> QED
    BY <2>3, <2>4, <2>5
<1>5. CASE RequestFails(n)
  BY <1>1, <1>5 DEF TypeOK, TypeOf, Ended, Place, RequestFails, End
<1>6. CASE GetResponse(n)
  <2>1. /\ UNCHANGED <<example, inc, trusted, request, reply>>
        /\ reply[n] # NoReply /\ request[n] = "none"
    BY <1>1, <1>6 DEF GetResponse
  <2>2. CASE reply[n] = Error
    <3>1. nonclave'[n] = "failed"
      BY <1>1, <1>6, <2>2 DEF TypeOK, GetResponse
    <3> QED
      BY <1>1, <2>1, <3>1 DEF TypeOf, Ended
  <2>3. CASE reply[n] # Error /\ nonclave[n] = "fetching"
    <3>1. nonclave'[n] = "verifyingCert"
      BY <1>1, <1>6, <2>3 DEF TypeOK, GetResponse
    <3> QED
      BY <1>1, <2>1, <2>3, <3>1 DEF TypeOf
  <2>4. CASE reply[n] # Error /\ nonclave[n] = "calling"
    <3>1. nonclave'[n] = "verifyingCall"
      BY <1>1, <1>6, <2>4 DEF TypeOK, GetResponse
    <3> QED
      BY <1>1, <2>1, <2>4, <3>1 DEF TypeOf, CallReport
  <2> QED
    BY <1>6, <2>2, <2>3, <2>4 DEF GetResponse
<1> QED
  BY <1>2, <1>3, <1>4, <1>5, <1>6

\* The client verifies, first the certificate and then the call.
LEMMA VerifyingKeeps ==
  ASSUME IInv, NEW n \in Nonclave, VerifyCert(n) \/ VerifyCall(n)
  PROVE  TypeOf(n)' /\ ClientInv(n)'
<1> USE DEF ClientInv, OnItsWay, RepliesFit, TrustsOne, Asking
<1>1. TypeOK /\ TypeOf(n) /\ ClientInv(n)
  BY DEF IInv, TypeOK, TypeOf
<1>2. CASE VerifyCert(n) /\ n \in Mismatched
  BY <1>1, <1>2 DEF TypeOK, TypeOf, Ended, VerifyCert
<1>3. CASE VerifyCert(n) /\ n \notin Mismatched
  <2>1. nonclave'[n] = "calling" /\ reply'[n] = NoReply /\ request'[n] = "none"
    BY <1>1, <1>3 DEF TypeOK, VerifyCert
  <2>2. example = "https" /\ trusted[n] = {} /\ reply[n].by \in 0..MaxRestarts
    BY <1>1, <1>3 DEF VerifyCert, ChainReport
  <2>3. trusted'[n] = {reply[n].by}
    BY <1>1, <1>3, <2>2 DEF TypeOK, VerifyCert, AddCertChain
  <2> QED
    BY <1>3, <2>1, <2>2, <2>3 DEF VerifyCert, TypeOf, Place
<1>4. CASE VerifyCall(n)
  BY <1>1, <1>4 DEF TypeOK, TypeOf, Ended, VerifyCall, CallReport
<1> QED
  BY <1>2, <1>3, <1>4

\* The servers on the way pass the request on, or answer that they cannot.
LEMMA RelayKeeps ==
  ASSUME IInv, NEW n \in Nonclave, RelayStep(n)
  PROVE  TypeOf(n)' /\ ClientInv(n)'
<1> USE DEF ClientInv, OnItsWay, RepliesFit, TrustsOne, Asking
<1>1. TypeOK /\ TypeOf(n) /\ ClientInv(n)
  BY DEF IInv, TypeOK, TypeOf
<1>2. UNCHANGED <<example, process, server, inc, nonclave, trusted>>
  BY DEF RelayStep, Forward, HandshakeFails, HandleCall, RemoteAnswers
<1>3. ASSUME request'[n] = "none", reply'[n] = Error
      PROVE  TypeOf(n)' /\ ClientInv(n)'
  BY <1>1, <1>2, <1>3 DEF TypeOf, Place, RelayStep, Forward, HandshakeFails, HandleCall,
                          RemoteAnswers, At
<1>4. ASSUME request'[n] = "broken", UNCHANGED reply
      PROVE  TypeOf(n)' /\ ClientInv(n)'
  BY <1>1, <1>2, <1>4 DEF TypeOf, Place, CallReport, RelayStep, Forward, HandshakeFails,
                          HandleCall, RemoteAnswers, At
<1>5. Asking(n) /\ request[n] \notin {"none", "broken"}
  BY DEF RelayStep, Forward, HandshakeFails, HandleCall, RemoteAnswers, At
<1>6. reply[n] = NoReply
  BY <1>1, <1>5
<1>7. ASSUME UNCHANGED reply, request'[n] \in Place,
             nonclave[n] = "fetching" => request'[n] = "cert",
             nonclave[n] = "calling" => request'[n] \in {"call", "fwd", "attest"},
             example = "https" /\ request'[n] \in {"fwd", "attest"} => inc \in trusted[n]
      PROVE  TypeOf(n)' /\ ClientInv(n)'
  BY <1>1, <1>2, <1>5, <1>6, <1>7 DEF TypeOf, CallReport, FirstHop
<1>8. CASE Forward(n, "rev") \/ Forward(n, "revTLS")
  <2>1. PICK s \in {"rev", "revTLS"} : Forward(n, s)
    BY <1>8
  <2>2. CASE request' = [request EXCEPT ![n] = Behind(s)] /\ UNCHANGED reply
    <3>1. request'[n] = Behind(s)
      BY <1>1, <2>2 DEF TypeOK
    <3>2. Behind("revTLS") = "call" /\ Behind("rev") = IF example = "https" THEN "cert" ELSE "call"
      BY <1>1, Programs DEF TypeOK, Behind
    <3>3. request[n] = s
      BY <2>1 DEF Forward, At
    <3> QED
      BY <1>1, <1>5, <1>7, <2>2, <3>1, <3>2, <3>3 DEF FirstHop, Place, Server, EnclaveServer
  <2>3. CASE Answer(n, Error)
    BY <1>1, <1>3, <2>3 DEF TypeOK, Answer
  <2>4. CASE request' = [request EXCEPT ![n] = "broken"] /\ UNCHANGED reply
    BY <1>1, <1>4, <2>4 DEF TypeOK
  <2> QED
    BY <2>1, <2>2, <2>3, <2>4 DEF Forward
<1>9. CASE HandshakeFails(n)
  BY <1>1, <1>4, <1>9 DEF TypeOK, HandshakeFails
<1>10. CASE HandleCall(n)
  <2>1. nonclave[n] = "calling" /\ (example = "https" => inc \in trusted[n])
    BY <1>1, <1>5, <1>10 DEF HandleCall, At, Trusts
  <2>2. CASE request' = [request EXCEPT ![n] = "fwd"] /\ UNCHANGED reply
    BY <1>1, <1>7, <2>1, <2>2 DEF TypeOK, Place, Server
  <2>3. CASE Answer(n, Error)
    BY <1>1, <1>3, <2>3 DEF TypeOK, Answer
  <2> QED
    BY <1>10, <2>2, <2>3 DEF HandleCall
<1>11. CASE RemoteAnswers(n)
  <2>1. nonclave[n] = "calling" /\ (example = "https" => inc \in trusted[n])
    BY <1>1, <1>5, <1>11 DEF RemoteAnswers, At
  <2>2. CASE request' = [request EXCEPT ![n] = "attest"] /\ UNCHANGED reply
    BY <1>1, <1>7, <2>1, <2>2 DEF TypeOK, Place
  <2>3. CASE Answer(n, Error)
    BY <1>1, <1>3, <2>3 DEF TypeOK, Answer
  <2> QED
    BY <1>11, <2>2, <2>3 DEF RemoteAnswers
<1> QED
  BY <1>8, <1>9, <1>10, <1>11 DEF RelayStep

\* The Enclave answers, with a report of its own or with an error.
LEMMA AttestingKeeps ==
  ASSUME IInv, NEW n \in Nonclave, AttestingStep(n)
  PROVE  TypeOf(n)' /\ ClientInv(n)'
<1> USE DEF ClientInv, OnItsWay, RepliesFit, TrustsOne, Asking
<1>1. TypeOK /\ TypeOf(n) /\ ClientInv(n)
  BY DEF IInv, TypeOK, TypeOf
<1>2. UNCHANGED <<example, process, server, inc, nonclave, trusted>>
  BY DEF AttestingStep, AttestCert, AttestCall
<1>3. request'[n] = "none" /\ Asking(n)
  BY <1>1 DEF TypeOK, AttestingStep, AttestCert, AttestCall, Answer, At
<1>4. CASE reply'[n] = Error
  BY <1>1, <1>2, <1>3, <1>4 DEF TypeOf, Place
<1>5. CASE AttestCert(n) /\ reply'[n] = [by |-> inc, body |-> "chain"]
  <2>1. nonclave[n] = "fetching"
    BY <1>1, <1>3, <1>5 DEF AttestCert, At, FirstHop
  <2>2. reply'[n] \in ChainReport
    BY <1>1, <1>5 DEF TypeOK, ChainReport
  <2> QED
    BY <1>1, <1>2, <1>3, <2>1, <2>2 DEF TypeOf, Place, ChainReport, Report
<1>6. ASSUME AttestCall(n), NEW b \in EnclaveOf[example].attests,
             reply'[n] = [by |-> inc, body |-> b]
      PROVE  TypeOf(n)' /\ ClientInv(n)'
  <2>1. nonclave[n] = "calling" /\ (example = "https" => inc \in trusted[n])
    BY <1>1, <1>3, <1>6 DEF AttestCall
  <2>2. reply'[n] \in CallReport' /\ reply'[n].by = inc
    BY <1>1, <1>2, <1>6 DEF TypeOK, CallReport
  <2>3. reply'[n] \in Report
    BY <1>1, <1>6, Programs DEF TypeOK, Report
  <2> QED
    BY <1>1, <1>2, <1>3, <2>1, <2>2, <2>3 DEF TypeOf, Place
<1>7. CASE AttestCert(n)
  BY <1>1, <1>4, <1>5, <1>7 DEF TypeOK, AttestCert, Answer
<1>8. CASE AttestCall(n)
  <2>1. \/ reply'[n] = Error
        \/ \E b \in EnclaveOf[example].attests : reply'[n] = [by |-> inc, body |-> b]
    BY <1>1, <1>8 DEF TypeOK, AttestCall, Answer
  <2> QED
    BY <1>4, <1>6, <1>8, <2>1
<1> QED
  BY <1>7, <1>8 DEF AttestingStep

LEMMA ClientStepInv ==
  ASSUME IInv, NEW n \in Nonclave, ClientStep(n)
  PROVE  IInv'
<1>1. TypeOf(n)' /\ ClientInv(n)'
  BY NonclaveKeeps, VerifyingKeeps, RelayKeeps, AttestingKeeps DEF ClientStep, NonclaveStep
<1>2. ASSUME NEW m \in Nonclave, m # n
      PROVE  /\ nonclave'[m] = nonclave[m] /\ trusted'[m] = trusted[m]
             /\ request'[m] = request[m] /\ reply'[m] = reply[m]
  BY <1>2, ClientStepOwn DEF IInv, TypeOK
<1>3. UNCHANGED <<example, process, awk, server, inc>>
  BY ClientStepOwn DEF IInv
<1>4. ASSUME NEW m \in Nonclave, m # n PROVE TypeOf(m)' /\ ClientInv(m)'
  <2>1. TypeOf(m) /\ ClientInv(m)
    BY DEF IInv, TypeOK, TypeOf
  <2> QED
    BY <1>2, <1>3, <1>4, <2>1 DEF TypeOf, ClientInv, OnItsWay, RepliesFit, TrustsOne, Asking,
                                  FirstHop, CallReport
<1>5. \A m \in Nonclave : TypeOf(m)' /\ ClientInv(m)'
  BY <1>1, <1>4
<1>6. \A m \in Nonclave :
        /\ (nonclave[m] = "verifyingCert" => reply[m].body = "chain")'
        /\ (nonclave[m] \in {"verifyingCall", "accepted"} => reply[m].body # "chain")'
  <2>1. EnclaveOf[example].attests' \subseteq Pages
    BY <1>3, Programs DEF IInv, TypeOK
  <2> QED
    BY <1>5, <2>1 DEF ClientInv, RepliesFit, ChainReport, CallReport, Pages
<1>7. TypeOK'
  <2>1. /\ nonclave' \in [Nonclave -> {"start", "fetching", "verifyingCert", "calling",
                                       "verifyingCall"} \union Ended]
        /\ trusted' \in [Nonclave -> SUBSET (0..MaxRestarts)]
        /\ request' \in [Nonclave -> Place]
        /\ reply' \in [Nonclave -> {NoReply, Error} \union Report]
    BY <1>5, ClientStepOwn DEF IInv, TypeOK, TypeOf
  <2> QED
    BY <1>3, <1>6, <2>1 DEF IInv, TypeOK, Started
<1>8. DownIsClosed'
  BY <1>2, <1>3, EnclaveAtWork DEF IInv, DownIsClosed
<1> QED
  BY <1>5, <1>7, <1>8 DEF IInv

LEMMA InvNext == IInv /\ [Next]_vars => IInv'
<1> SUFFICES ASSUME IInv, [Next]_vars PROVE IInv'
  OBVIOUS
<1>1. CASE SystemStep
  BY <1>1, SystemStepInv
<1>2. ASSUME NEW n \in Nonclave, ClientStep(n) PROVE IInv'
  BY <1>2, ClientStepInv
<1>3. CASE UNCHANGED vars
  BY <1>3 DEF vars, IInv, TypeOK, Started, DownIsClosed, ClientInv, OnItsWay, RepliesFit,
              TrustsOne, Asking, FirstHop, CallReport
<1> QED
  BY <1>1, <1>2, <1>3 DEF Next, SystemStep, ClientStep

LEMMA Invariance == Spec => []IInv
  BY InvInit, InvNext, PTL DEF Spec

-----------------------------------------------------------------------------
(* The theorems.                                                           *)

\* Every variable keeps its type, and a server is served only while its program
\* runs, whatever fails, ends or is started again.
THEOREM TypeCorrect == Spec => []TypeOK
<1>1. IInv => TypeOK
  BY DEF IInv
<1> QED
  BY <1>1, Invariance, PTL

\* In hello-https the report of an accepted call is by the Enclave whose
\* certificate the client fetched and verified, however often another one was
\* started in its place.
THEOREM CallBySameEnclave == Spec => []SameEnclave
<1>1. ASSUME IInv PROVE SameEnclave
  <2> SUFFICES ASSUME example = "https", NEW n \in Nonclave, nonclave[n] = "accepted"
               PROVE  trusted[n] = {reply[n].by}
    BY DEF SameEnclave
  <2>1. (\E c : trusted[n] = {c}) /\ reply[n].by \in trusted[n]
    BY <1>1 DEF IInv, ClientInv, TrustsOne
  <2> QED
    BY <2>1
<1> QED
  BY <1>1, Invariance, PTL

-----------------------------------------------------------------------------
(* Ready lines.  They say something of the other servers of a program too, *)
(* because main makes all of them before it starts the first goroutine;    *)
(* but only if the server of a goroutine never ends with an error, which   *)
(* leaves the program running without it.                                  *)

\* A program that runs listens at every server it has made.
RunningListens ==
  \A p \in Process : process[p] = "running" =>
    \A s \in ServerSet(p) : server[s] # "closed"

LEMMA RunningListensNext ==
  ASSUME "serve" \notin Faults, IInv, RunningListens, [Next]_vars
  PROVE  RunningListens'
<1> USE DEF IInv, RunningListens
<1>1. \A p \in Process : \A s \in ServerSet(p) : s \in Server /\ Owner(s) = p
  BY OwnServers DEF TypeOK, ServerSet
<1>2. UNCHANGED example
  BY SystemStepBreaks, ClientStepOwn DEF Next, SystemStep, ClientStep, vars
<1>3. \A p \in Process : ServerSet(p)' = ServerSet(p)
  BY <1>2 DEF ServerSet, Servers
<1>4. CASE UNCHANGED <<process, server>>
  BY <1>3, <1>4
<1>5. ASSUME NEW p \in Process, Listen(p) PROVE RunningListens'
  <2>1. PICK i \in 1..Len(Servers(p)) :
          /\ server[Servers(p)[i]] = "closed"
          /\ \A j \in 1..(i - 1) : server[Servers(p)[j]] # "closed"
          /\ server' = [server EXCEPT ![Servers(p)[i]] = "listening"]
          /\ process' = [process EXCEPT ![p] = IF i = Len(Servers(p)) THEN "running" ELSE @]
    BY <1>5 DEF Listen
  <2>2. Servers(p)[i] \in Server /\ server'[Servers(p)[i]] = "listening"
    BY <2>1, OwnServers DEF TypeOK
  <2>3. \A s \in Server : server[s] # "closed" => server'[s] # "closed"
    BY <2>1, <2>2 DEF TypeOK
  <2>4. ASSUME process'[p] = "running" PROVE \A s \in ServerSet(p) : server'[s] # "closed"
    <3>1. i = Len(Servers(p))
      BY <1>5, <2>1, <2>4 DEF TypeOK, Listen
    <3>2. \A j \in 1..Len(Servers(p)) : j = i \/ j \in 1..(i - 1)
      BY <3>1
    <3>3. \A j \in 1..Len(Servers(p)) : Servers(p)[j] \in Server
      BY OwnServers DEF TypeOK
    <3> QED
      BY <2>1, <2>2, <2>3, <3>2, <3>3 DEF ServerSet
  <2>5. \A q \in Process : q # p => process'[q] = process[q]
    BY <2>1 DEF TypeOK
  <2> QED
    BY <1>1, <1>3, <2>3, <2>4, <2>5
<1>6. ASSUME NEW p \in Process, SetupFails(p) PROVE RunningListens'
  <2>1. /\ process' = [process EXCEPT ![p] = "exited"]
        /\ server' = [s \in Server |-> IF Owner(s) = p THEN "closed" ELSE server[s]]
    BY <1>6 DEF SetupFails, Exit
  <2> QED
    BY <1>1, <1>3, <2>1 DEF TypeOK
<1>7. ASSUME NEW s \in Server, ServerStep(s) PROVE RunningListens'
  <2>1. UNCHANGED process /\ \E how \in {"logged", "serving"} : server' = [server EXCEPT ![s] = how]
    BY <1>7 DEF ServerStep, LogStarted, Serve, ServeFails
  <2> QED
    BY <1>1, <1>3, <2>1 DEF TypeOK
<1>8. CASE ComposeStartsEnclave \/ AllEnd \/ Restart
  <2>1. \A p \in Process : process'[p] = "running" => process[p] = "running" /\ UNCHANGED server
    BY <1>8 DEF ComposeStartsEnclave, AllEnd, Restart, TypeOK
  <2> QED
    BY <1>3, <2>1
<1>9. ASSUME NEW n \in Nonclave, ClientStep(n) PROVE RunningListens'
  BY <1>4, <1>9, ClientStepOwn
<1>10. ASSUME NEW p \in Process, AwkEnds(p) PROVE RunningListens'
  BY <1>4, <1>10 DEF AwkEnds
<1> QED
  BY <1>4, <1>5, <1>6, <1>7, <1>8, <1>9, <1>10
     DEF Next, ProcessStep, ClientStep, ComposeEnds, ScriptEnds, ScriptStopped, vars

\* If no server ends with an error, the ready lines that process-compose waits
\* for mean that every server of the deployment accepts connections.
THEOREM ReadyLinesAreTrue ==
  ASSUME "serve" \notin Faults
  PROVE  Spec => []ReadyMeansListening
<1>1. Init => RunningListens
  BY DEF Init, RunningListens
<1>2. IInv /\ RunningListens /\ [Next]_vars => RunningListens'
  BY RunningListensNext
<1>3. ASSUME IInv, RunningListens PROVE ReadyMeansListening
  <2> SUFFICES ASSUME \A p \in Process : ReadyLine(p)
               PROVE  \A p \in Process : process[p] = "running"
    BY <1>3 DEF ReadyMeansListening, RunningListens
  <2>1. \A s \in Server : Started(s) => process[Owner(s)] = "running"
    BY <1>3 DEF IInv, TypeOK
  <2>2. Started("call") /\ (Started("revTLS") \/ Started("rev"))
    BY DEF ReadyLine, Process
  <2> QED
    BY <2>1, <2>2 DEF Process, Server, EnclaveServer, Owner
<1> QED
  BY <1>1, <1>2, <1>3, Invariance, PTL DEF Spec
=============================================================================
