# Verification of bearclave-examples

TLA+ models of the programs of this repository, TLC runs that check them on
small instances and TLAPS proofs about them. The repository holds five example
deployments of Trusted Execution Environments (`hello-world`, `hello-http`,
`hello-https`, `hello-expr`, `hello-cel`) and the library they share
(`internal`). Each example has three programs:

- the **Enclave** runs inside the TEE and attests data;
- the **Proxy** runs beside it and is its only connection to the outside;
- the **Nonclave** is the client, which asks the Proxy and verifies the report.

The Enclave's report is the only thing a Nonclave trusts. What makes the
examples hard to get right is everything between the two: goroutines that share
a socket or an engine, deadlines that leave late replies or workers behind,
programs that exit on the first error, servers that are started in an order, and
certificates that outlive neither their Enclave nor its restart.

## Inventory

| Component | Code | State | Operations | Hard behaviour |
|---|---|---|---|---|
| hello-world Nonclave | `hello-world/nonclave`, `Client.AttestUserData` | how far main is, the response | ask, fail, verify | times out while its request goes on; the nonce is a constant |
| hello-world Proxy | `hello-world/proxy` | main, one handler goroutine per request, the socket | start, end; read, send to the Enclave, receive, reply | all handlers receive from one socket; late replies stay in it; it takes its handlers with it |
| hello-world Enclave | `hello-world/enclave` | setup or loop, the request | start; receive, attest, send | any error ends the program |
| Expr and CEL engines | `internal/engine` | base options shared by all requests, a worker and two channels per request | make overloads; compile, run, select | shared slice, worker that outlives its handler, racing select cases |
| hello-expr, hello-cel Enclaves | `MakeAttest{Expr,CEL}Handler`, `MakeHTTPGet` | the context of a request | decode, execute, marshal, attest; `httpGet` | a call with a deadline of its own inside an evaluation |
| Deployments of hello-https, -http, -expr, -cel | their `enclave`, `proxy`, `nonclave`, `deploy` | processes, two to five servers, the certificate of this Enclave | set up, log, serve, fail, restart; fetch the certificate, call | readiness taken from one log line, half-dead processes, restart between two requests |
| Library handlers | `internal/networking/handlers.go` | the handler's context, the response writer | decode, call or execute, attest, respond | a client that goes away, a write that breaks after the status line |
| HTTP client | `internal/networking/client.go` | RootCAs and ServerName of the TLS client, its connections | `Do`, `AddCertChain` | status, cut-off bodies, a body that is never closed |
| Configuration | `internal/setup` | none after start | `LoadConfig`, `GetArg` | a default, a value of the wrong type |
| bearclave SDK | not in the repository | sockets, servers, attesters, verifiers, certificates | | modelled from its use |
| Infrastructure | `infra`, `Makefile`, `modfiles` | | | no program logic |

What makes each correct:

- **hello-world**: an accepted report is the requester's own and fresh; the
  Enclave attests what it was asked; no reply is used twice; nobody waits for
  ever, whatever is lost and whichever program ends.
- **engines**: a report binds the expression and variables of one request to the
  output of just that evaluation, with the functions that it names; what the
  documentation calls supported is evaluated; the handler returns by its
  deadline; workers are not left behind, whatever a remote site does; select
  always has something to wait for.
- **deployments**: a hello-https call is accepted from the Enclave whose
  certificate was attested; an Enclave attests only what its example promises to
  attest; what process-compose calls ready accepts connections; a Nonclave always
  ends; a container is never half alive.
- **HTTP exchange**: what `Client.Do` returns is what the handler did; a handler
  does not outlive its client; connections are given back.

`PROJECT.json` lists the hazards line by line with the properties that cover
them.

## Modules

| Module | What it is |
|---|---|
| `WitnessService` | abstract: what hello-world promises a client, without Proxy, sockets, HTTP |
| `HelloWorld`, `MCHelloWorld` | Nonclaves, Proxy with its handlers, socket, Enclave; implements `WitnessService` |
| `HelloWorldProofs` | theorems about `HelloWorld`, its refinement included |
| `HelloWorldSurplus` | theorems about `HelloWorld` that count replies and handlers |
| `AttestedEvaluation` | abstract: what an Enclave that evaluates expressions promises, without engine, goroutines, deadlines |
| `Engine`, `MCEngine` | concurrent requests to one Expr or CEL engine; implements `AttestedEvaluation` |
| `EngineProofs` | theorems about `Engine`, its refinement included |
| `HTTPExchange`, `MCHTTPExchange` | one call of `Client.Do` to any of the library's handlers |
| `HTTPExchangeProofs` | theorems about `HTTPExchange` |
| `AttestedCall` | abstract: what the other four examples promise a client across restarts, without processes, servers, proxies, TLS |
| `Deployment`, `MCDeployment` | these examples with their programs, servers, restarts and certificates; implements `AttestedCall` |
| `DeploymentProofs` | theorems about `Deployment` |
| `DeploymentRefinement` | the proof that it implements `AttestedCall` |

The modules cut the system along its interfaces: `HTTPExchange` shows what a
request over HTTP may come to, and `HelloWorld` and `Deployment` take just these
outcomes (a response, an error, no response) as steps; `Engine` shows what the
handler of an evaluation does, and `Deployment` takes it as one step.

Operators with a comment that starts with "Mutant:" are plausible mistakes, kept
directly before the definition they would replace. They are used by no
specification; `PROJECT.json` ("mutants") says which property each one breaks.

### HelloWorld

- `nonclave[n]`, `response[n]`: the main of client `n` and the HTTP response on
  its way to it. `proxy`: the main of the Proxy. `handler[n]`, `reply[n]`: the
  goroutine of its request in `MakeAttestHandler` and the `attestBytes` of it.
  `enclave`, `reqBytes`, `req`, `attested`: the Enclave's main with its local
  variables. `toEnclave`, `toProxy`: messages in flight or waiting at a socket.
  `issued`, `before` are history variables for the properties.
- Both programs start in no order and may fail in their setup (`"setup"`); the
  Proxy's server may end (`"serve"`), and then its handlers are cut off and what
  waits in its socket is lost (`ProxyExits`). `ContainerEnds` is the end of the
  SEV and TDX scripts (`Deployment` has its steps), a step that may or may not
  happen because elsewhere, on Nitro or under process-compose, the other program
  just goes on. With `Awaited`
  clients are started when both ready lines have been logged, otherwise at any
  time, so that they may be refused.
- Each Go statement that waits, or that another goroutine can notice, is an
  action; what follows it up to the next such statement is part of it.
  `ProxySend` is `proxy/main.go:41`, `ProxyReceive` is line 52, `ProxyReply`
  decodes and writes the response, and each has a `...Fails` action for its
  error path. An error in the Enclave's loop is `EnclaveExits`: the socket and
  what waited in it are gone, and Sends to it fail from then on.
- Every `Send` opens a connection of its own, so sockets are sets: no order
  between messages. That two messages are never equal, so that a set loses
  nothing, is `OnePlace` and its lemmas. `Send` may report an error after
  delivering nothing, a part, or all of the message.
- `DecodeTarget` and `Unmarshal` model `json.Unmarshal` into the struct with
  `omitempty` fields: fields the JSON leaves out keep the struct's value.
- `Faults` selects the faults: with `"timeout"` a deadline may pass at any
  point. Without it a handler's deadline passes only when no reply can come. A
  client that has gone takes `r.Context()` with it: its handler may then fail in
  Send or Receive, whatever the faults.
- In `WitnessService` the reports of a client are a set: that one is not issued
  twice is no concern of the refinement but of `RequestOnce` and `OnePlace`.

### Engine

`Execute` of both engines is cut at the points where goroutines interact:
options, compilation, select, the worker's calls, its evaluation and its send.
`spare` is the slot behind the last element of `e.baseOptions`, the element that
concurrent appends would share if `NewExprEngineWithWhitelist` made the slice
with more capacity than options; `EnvSeen` reads the options as they are at
compile time. `Overloads` are those of `MakeWhitelistedFnOpts`, one for each
number of arguments up to `maxVariadicArgs`; `Callable` is what Compile accepts.
`Calls[r]` is the sequence of calls in the expression of `r`, `ran[r]` those made
so far: an evaluation may skip the last ones. A failing function ends an Expr
evaluation; in CEL it is a value. `httpGet` waits for the remote site
(`HTTPGetReturns`, which may never happen) or for its own deadline
(`HTTPGetTimesOut`); the context of the handler ends neither.
What an expression computes is abstracted to which expression was evaluated,
whose variables it was compiled against and which functions ran.

`AttestedEvaluation` has three steps for a request that was asked: evaluate,
refuse, attest. The refinement finds the result of an evaluation wherever the
worker, a channel or `Execute` holds it.

### HTTPExchange

`do` is where `Client.Do` is, then which of its errors it has returned; the six
functions of `Client` differ in the handler they reach, each a sequence of steps
(`CertSteps`, `CELSteps`, ...). Any step may fail, which writes the error and
returns; `call` and `execute` wait for others and end with the handler's context.
`StartResponse` writes status 200 and part of the body, `FinishResponse` the
rest, unless the connection has broken: then `WriteError` changes nothing any
more, and the client sees a body that was cut off (`"unread"`). `held` tells
whether the client's transport still has the connection in use: `Do` closes the
body except after a status other than 200. The certificate handler responds by the
SDK's `tee.WriteResponse`, which is taken to be like the repository's.

### Deployment

`example` is chosen at the start: the tables `HTTPSEnclave`, `CELProxy`,
`ExprNonclave` and so on say which servers each program makes in which order,
for which bodies of the remote site a report is issued, what a Nonclave asks and
what it can decode. `server[s]` goes from closed over listening (made by the
constructor) and logged (`"... started"`) to serving. `request[n]` is the server
at which `n`'s request waits: an SDK constructor listens, so a connection made
before `Serve` waits there and is not refused. `inc` counts restarts and stands
for the certificate, which each Enclave makes for itself for the names in
`CertificateNames`; `Trusts` is the check of the TLS client, against RootCAs and
the name that `DomainOf` reads from the configuration. `Compose` selects who
runs the programs: `.process-compose.yaml` (ready lines, `depends_on`,
`exit_on_end`) or `sev-run.sh`/`tdx-run.sh`. These run each program in a pipeline
with an `awk` and take `$!` for its PID, which is the awk's: `awk` holds the
programs whose awk still copies. It ends when its program has and the pipe is at
its end (`AwkEnds`); `wait -n` returns when either awk has ended (`ScriptEnds`),
also if that happened before the script came to wait; the trap exits at once
(`ScriptStopped`, the fault `"stop"`). The script is the main process of the
container, so that all else ends with it (`AllEnd`).

In `AttestedCall` an Enclave may be replaced at any time; what it attests, for
whom it does so, and in which order a client is bound to a certificate and
accepts is all that is left. The refinement takes an error response for no
answer, and `trusted` for the Enclaves a client is bound to. `Promised` is what
the examples promise to attest, apart from what their handlers do.

## Runs

| Run | Instance | Shows |
|---|---|---|
| `hw_fresh` | 3 clients with own nonces; one sends no user data and one a malformed body, one is configured for another measurement; all faults | `TypeOK`, `AcceptedIsOwn`, `AttestedAsAsked`, `OnePlace`, `SomeReplyComing`, `SurplusKept`, and `KeepsWitnessPromise`, the refinement |
| `hw_live` | 3 clients, one malformed, all faults, fairness | `EveryRequestAnswered` |
| `hw_demo` | 3 clients with the program's constant nonce and data, started when Proxy and Enclave are ready; setup may fail; fairness | `AllServed`: swapped replies do no harm to the demonstration |
| `hw_stale` | 2 clients, constant nonce, all faults | violates `AcceptedFresh` |
| `hw_cross` | 2 clients, own nonces, no faults | violates `ReturnedToRequester` |
| `engine_expr` | 4 requests, Expr: one does not decode, one does not compile, one calls `httpGet` twice, one calls another function with 9 arguments; handlers fair, workers not | `TypeOK`, `AttestsOwnEvaluation`, `SelectCanReturn`, `EvaluatesWhatIsSupported`, `KeepsEvaluationPromise`, the refinement, and `HandlerReturns` |
| `engine_cel` | 4 requests, CEL: calls with 0, 1, 8 and 9 arguments of two functions, one call of a function that is not whitelisted, one bad output; handlers and workers fair, the remote site not | the same without `TypeOK`, and `WorkerExits` in place of `HandlerReturns` |
| `exchange` | one call of each of the six functions | `TypeOK`, `OutcomeIsTrue`, `HandlerFollowsClient`, `ConnectionReleased` |
| `deploy_restart` | each example, 2 Nonclaves (one expects another domain), all faults, one restart | `TypeOK`, `SameEnclave`, and `KeepsCallPromise`, the refinement |
| `deploy_ends` | each example, 2 Nonclaves (one expects another measurement), all faults, no restart, fairness | `EveryNonclaveEnds`, `SharedFate` |
| `deploy_compose` | each example, 1 Nonclave (process-compose runs one) whose configured domain is no string; setup may fail; fairness | `ReadyMeansListening`, `DemoServed` |

Deadlock checking is off: every program of the repository but the Proxy's and
the engines' servers ends, and those then have no clients left.

### Why the bounds are enough

Two requests are needed to swap replies; three let one handler be a step behind
two others, with a lost, a malformed and a good request at once. In `Engine`
three requests that compile let two concurrent appends overlap a third one's
compilation; two calls of `httpGet` distinguish "once" from "again", and 8 and 9
arguments are at either side of `maxVariadicArgs`. In `Deployment` one restart
separates the certificate fetched from the one presented. Nonclaves make one
request (two for hello-https) because their programs do. `MaxRestarts` is the
only bound on a counter; the calls of an expression are finitely many because
`Calls` lists them. `HTTPExchange` needs no bound: one call, one handler, and
different calls share nothing but the pool of connections.

### Fairness

Weak fairness of the actions of each goroutine and program that can go on: the
Go scheduler and the operating system run them. Never of a fault, of a client's
start, or of a restart or stop. Receives with a deadline are treated as steps that
happen in the end (`ProxyReceiveFails` is a handler's step, `RequestFails` a
Nonclave's): the code passes contexts with a timeout to every one of them. The
attester's `Attest` takes no context, so where the fault `"attester"` may happen
no fairness is assumed of it: it may never return, and the deadlines of the
Proxy's handler and of the Nonclave must do. (In `Engine` and in `HTTPExchange`
it returns.) In `engine_expr` the worker has no fairness at all, since expr and
CEL do not stop when the context ends; in `engine_cel` an evaluation goes on to
its end, since expressions have no unbounded loop, and `httpGet`'s deadline
passes, but nothing is assumed of the remote site: `WorkerExits` rests on that
deadline. In `deploy_ends` awk, script and process-compose do their work; that
Enclave and Proxy end together takes an awk that sees the end of its pipe, then
the `wait -n` of the script. In `exchange` the context of the client ends, as the
callers' deferred cancel has it, and the server notices a connection that is gone, as net/http
promises for a request whose body has been read; nothing is assumed of the
remote site, of the evaluation, nor of the handler's own deadline, so that
`HandlerFollowsClient` rests on `r.Context()` alone.

### What the violations say

- `hw_stale`: `hello-world/nonclave/main.go:74` uses a constant nonce where the
  README speaks of "a nonce for freshness". A handler has given up, at its
  deadline or because Send reported an error although it had delivered; the
  report stays in the Proxy's socket, and a client that starts later accepts it.
  With a nonce per request the same system satisfies `AcceptedIsOwn`, in which
  freshness is included: that is what `hw_fresh` and its proof show.
- `hw_cross`: the Proxy returns the Enclave's report to any waiting Nonclave,
  not to the one that asked (`hello-world/proxy/main.go:52`). With own nonces
  the clients reject the report they did not ask for; with the constant nonce
  they accept each other's.

## Proofs

Every safety property that a passing run checks is also a theorem, and so are
the three refinements and the action property `SurplusKept`.

| Module | Theorem | States |
|---|---|---|
| `HelloWorldProofs` | `TypeCorrect` | `Spec => []TypeOK` |
| | `ReportsAreAsAsked` | `Spec => []AttestedAsAsked` |
| | `ReportsAreInOnePlace` | `Spec => []OnePlace` |
| | `OwnReportAccepted` | `Spec => []AcceptedIsOwn` |
| | `ImplementsWitnessService` | `Spec => KeepsWitnessPromise` |
| `HelloWorldSurplus` | `RepliesAreComing` | `Spec => []SomeReplyComing` |
| | `RepliesAccumulate` | `Spec => SurplusKept` |
| `EngineProofs` | `TypeCorrect` | `Spec => []TypeOK` |
| | `OwnEvaluationAttested` | `Spec => []AttestsOwnEvaluation` |
| | `SupportedIsEvaluated` | `Spec => []EvaluatesWhatIsSupported` |
| | `SelectReturns` | `Spec => []SelectCanReturn` |
| | `ImplementsAttestedEvaluation` | `Spec => KeepsEvaluationPromise` |
| `HTTPExchangeProofs` | `TypeCorrect` | `Spec => []TypeOK` |
| | `OutcomesAreTrue` | `Spec => []OutcomeIsTrue` |
| `DeploymentProofs` | `TypeCorrect` | `Spec => []TypeOK` |
| | `CallBySameEnclave` | `Spec => []SameEnclave` |
| | `ReadyLinesAreTrue` | `Spec => []ReadyMeansListening` if `"serve" \notin Faults` |
| `DeploymentRefinement` | `ImplementsAttestedCall` | `Spec => KeepsCallPromise` |

They hold for every value of the constants: any set of clients or requests, any
nonces, data, expressions, whitelists and configurations, any choice of faults,
any number of restarts.

### Assumptions

Only the named assumptions of the modules, all of which the runs evaluate:

- parameters are of the right kind (`ConstantsAssumption`, `EngineAssumption`,
  `DeploymentAssumption`). `EngineAssumption` has a finite whitelist, since it is
  a Go map, and the calls of an expression are a finite sequence;
- values that stand for "nothing there yet" or for an error differ from what
  they are told apart from (`SentinelsAssumption` of `HelloWorld`, `Engine` and
  `Deployment`, `NoneAssumption` of `HTTPExchange`).

`ReadyLinesAreTrue` has one hypothesis more: no server's `Serve` returns an
error. Without it the property is false of the code, and rightly so: a goroutine
logs such an error and the program goes on without that server
(`hello-https/enclave/main.go:110`), after its ready line or another's has been
written. `deploy_compose` has the same restriction; `deploy_ends` and
`deploy_restart` check the system with these faults.

### The arguments

None of the properties is inductive. Each module has an `IInv` that is, and
lemmas that the initial states satisfy it and that each step keeps it.

**`HelloWorldProofs`.** `IInv` adds to the properties

- `RequestOnce`: a request is at one place, the Proxy's handler, the Enclave's
  socket or its hands, and was not attested before; hence no report is issued
  twice;
- `FromEnclave`: every report that is anywhere was issued;
- `SocketOnce`: what is in the Proxy's socket is there once, whole or cut off;
- `ClientSaw`: a client that verifies or has accepted holds a report with its
  nonce that an Enclave issued, and one of its own was not issued before it asked.

The order matters: that a report is new when it is attested (`AttestedIsNew`,
from `RequestOnce`) is what keeps `SocketOnce` and `OnePlace` when it is sent.
Each conjunct has a lemma that the next-state relation preserves it, with one
case per action that can disturb it; `InvNext` joins them. `AcceptedIsOwn` then
follows from `AttestedAsAsked`, `ClientSaw` and the uniqueness of nonces. The
refinement maps a client's steps to `Ask`, `Accept` and `Fail`, `EnclaveAttest`
to `Witness`, and everything the Proxy and the sockets do to stuttering; that
`Witness` happens at most once per client is `RequestOnce` again. That a program
may end does not change the argument: a Proxy that exits only takes reports away
(`ProxyExitCuts`), and an Enclave that exits only requests.

**`HelloWorldSurplus`** counts, on top of that invariant. `FinitelyMany` says
that messages and waiting handlers are finitely many, which is so in every
reachable state even if the clients are not. A step that makes a handler wait
adds a request to the Enclave's socket, and it is a new one (`RequestOnce`), so
that the set grows; the Enclave's steps hand it on, and the report it sends is
new (`AttestedIsNew`); a handler that receives or gives up takes one reply at
most and waits no more. So `Surplus` never shrinks (`StepCounts`), unless a
program ends: with the Proxy the waiting handlers are gone, and of an Enclave
that has ended nothing is promised.

**`EngineProofs`.** `IInv` is `TypeOK` and, for each request, one conjunct per
link of the chain from Compile to the response: `RunsOwnProgram` (the program
was compiled against this request's variables only, and the worker runs no
other), `SendsOwnOutcome` (worker, channels and Execute hold the outcome of the
request's own evaluation, at one of these places), `HandlesInOrder` (what there
is of a worker follows from where the handler is) and `AnswersOnce`. The calls an
evaluation has made are always a prefix of those in the expression
(`FirstCallsGrow`), and a call compiles exactly if there is an overload for it
(`CallableCalls`). For the refinement each step is shown to be `Ask`, `Evaluate`,
`Refuse` or `Attest` of `AttestedEvaluation`, or to leave its variables alone.

**`HTTPExchangeProofs`.** `TypeOK` and `OutcomeIsTrue` need `HandlerWrites` (a
handler exists exactly for a call that was sent, an error ends it, and what is
being written is a report) and `ClientReads` (the body is read of a response with
status 200 only). `StepsOfHandler` and `AfterStep` say what is needed of the six
tables of steps.

**`DeploymentProofs`.** `IInv` is `TypeOK`, `DownIsClosed` (a program that does
not run has no open server, and nothing is at work in an Enclave that is down)
and, for each Nonclave, `OnItsWay` (at which servers its request may be),
`RepliesFit` (a reply is one to what was asked, and of a body for which this
example issues reports) and `TrustsOne`: a hello-https Nonclave trusts one
certificate, and a request that has passed the TLS handshake is at work in the
Enclave with that certificate. Only a restart puts another Enclave in its place,
and then `DownIsClosed` says that no request has stayed. `TypeOK` includes that an
awk ends after its program (`SystemStepAwks`). Steps are of two kinds:
a `SystemStep` changes nothing of a Nonclave but that its connection breaks
(`SystemStepBreaks`), a `ClientStep` nothing of the programs and of other
Nonclaves (`ClientStepOwn`). `ReadyLinesAreTrue` rests on `RunningListens`: main
makes the last server when it has made all others, and only then is it running.

**`DeploymentRefinement`** uses the same invariant. `Restart` is `Replace`, the
other system steps are stutters; `AttestCert` is `Certify`, `VerifyCert` is
`Bind`, `AttestCall` is `Attest` and a `VerifyCall` that succeeds is `Accept`;
what servers and proxies do in between, and every error response, is a stutter.
That `Attest` finds its client bound to the very Enclave that is there is
`TrustsOne`; that it finds a body of `Promised`, so in hello-expr and hello-cel
none of an error page, is `KeptBodies`.

### Model-checked only

The liveness properties: `EveryRequestAnswered`, `AllServed`, `HandlerReturns`,
`WorkerExits`, `HandlerFollowsClient`, `ConnectionReleased`, `EveryNonclaveEnds`,
`SharedFate` and `DemoServed`. They rest on fairness, which is out of the
prover's reach.

## Not modelled

- JSON and HTTP below "whole or not", how viper reads a file, logging, and the
  platforms' attestation itself.
- Time. Any deadline may end first, so that nothing rests on the order of
  durations; that the deadlines of Nonclave, handler and `httpGet` are equal and
  nested, so that the client always reports its own, cannot be seen.
- hello-world's Enclave or Proxy being started again by hand, as on Nitro: no
  program or script of the repository does. The container of the other examples
  is, by `MaxRestarts`, because its certificate is what a restart changes.
- On Nitro the Proxy runs outside the Enclave's container (`nitro.Dockerfile`):
  `HelloWorld` covers it, `Deployment` has the process-compose and the SEV and
  TDX deployments only.
- The Terraform and make files under `infra`.

See "components" in `PROJECT.json`.

## Plan

Done: `WitnessService`, `HelloWorld`, `AttestedEvaluation`, `Engine`,
`HTTPExchange`, `AttestedCall`, `Deployment`, and the proofs of their safety
properties and refinements.

Left: the safety parts of the liveness properties as theorems, for instance that
a Nonclave that waits always has a server at work, a connection that is broken
or a deadline.
