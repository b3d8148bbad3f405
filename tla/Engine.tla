------------------------------- MODULE Engine -------------------------------
(***************************************************************************)
(* An Enclave that evaluates expressions (hello-expr, hello-cel): requests *)
(* arrive concurrently at MakeAttestExprHandler or MakeAttestCELHandler,   *)
(* all of which share one engine.  Execute compiles the expression against *)
(* the variables of its request, evaluates it in a goroutine (the worker)  *)
(* and selects between the worker's two channels and its context.  An      *)
(* expression may call httpGet, which has a deadline of its own and does   *)
(* not know the request's.  Neither expr.Run nor ContextEval, with its     *)
(* default options, stops when the context ends, so a worker can outlive   *)
(* its handler.                                                            *)
(***************************************************************************)
EXTENDS Naturals, Sequences, FiniteSets

CONSTANTS
  Request,        \* the requests, each one handler goroutine
  Language,       \* "expr" or "cel": which of the two engines this is
  Function,       \* the names of functions that occur in expressions
  Whitelist,      \* those of the functions that expressions may call
  HTTPGet,        \* the one that hello-expr and hello-cel have
  Calls,          \* Calls[r]: the calls in the expression of r, each the name of
                  \* a function and the number of its arguments
  BadBody,        \* requests that do not decode
  BadExpression,  \* those whose expression or variables do not compile, even if
                  \* all functions were known
  BadOutput,      \* those whose output json.Marshal rejects
  NoEnv, NoOutput, NoResponse,
  Failed,         \* an error in errChan
  Error           \* a response with status 500

ASSUME EngineAssumption ==
  /\ Language \in {"expr", "cel"}
  /\ Whitelist \subseteq Function /\ IsFiniteSet(Whitelist)
  /\ BadBody \subseteq Request
  /\ BadExpression \subseteq Request
  /\ BadOutput \subseteq Request
  /\ Calls \in [Request -> Seq([fn : Function, args : Nat])]

VARIABLES
  handler,     \* handler[r]: where the handler of r is, inside Execute included
  ctx,         \* ctx[r]: whether the context of r has ended
  spare,       \* the element behind the last one of e.baseOptions, if the
               \* array that holds them has room for it
  options,     \* options[r]: the array with the compile options of r
  program,     \* program[r]: the request whose env r was compiled against
  worker,      \* worker[r]: the goroutine that evaluates it
  ran,         \* ran[r]: the functions that it has called so far
  out,         \* out[r]: what the worker is about to send
  resultChan,  \* resultChan[r], errChan[r]: the channels of Execute
  errChan,
  output,      \* output[r]: what Execute returned
  response     \* response[r]: the HTTP response

execVars == <<spare, options, program>>
workerVars == <<worker, ran, out>>
chans == <<resultChan, errChan>>
vars == <<handler, ctx, spare, options, program, worker, ran, out, resultChan,
          errChan, output, response>>

\* Mutant: make(chan any), make(chan error).
Unbuffered == 0

\* Both engines make their channels with room for one item.
ChanCap == 1

\* An evaluation of the expression of r, compiled against the variables of e, in
\* which these functions ran.
Value(r, e, fns) == [expression |-> r, compiledFor |-> e, ran |-> fns]
Values == [expression : Request, compiledFor : Request \union {NoEnv}, ran : Seq(Whitelist)]

\* Which calls are made depends on the values: conditionals skip some of the
\* last, so that those made are the first ones.
FirstCalls(r) == {[i \in 1..k |-> Calls[r][i].fn] : k \in 0..Len(Calls[r])}

\* AttestedExpr, AttestedCEL: what goes into the report as user data.
Attested == [expression : Request, env : Request, output : Values]

ASSUME SentinelsAssumption ==
  /\ NoEnv \notin Request
  /\ NoOutput \notin Values /\ Failed \notin Values /\ Failed # NoOutput
  /\ NoResponse \notin Attested /\ Error \notin Attested /\ Error # NoResponse

Init ==
  /\ handler = [r \in Request |-> "idle"]
  /\ ctx = [r \in Request |-> "live"]
  /\ spare = NoEnv
  /\ options = [r \in Request |-> "none"]
  /\ program = [r \in Request |-> NoEnv]
  /\ worker = [r \in Request |-> "none"]
  /\ ran = [r \in Request |-> <<>>]
  /\ out = [r \in Request |-> NoOutput]
  /\ resultChan = [r \in Request |-> <<>>]
  /\ errChan = [r \in Request |-> <<>>]
  /\ output = [r \in Request |-> NoOutput]
  /\ response = [r \in Request |-> NoResponse]

-----------------------------------------------------------------------------
(* The handler, up to Execute.                                             *)

Goto(r, place) == handler' = [handler EXCEPT ![r] = place]

\* Write the response and return; the deferred cancel ends the context.
Respond(r, resp) ==
  /\ Goto(r, "returned")
  /\ response' = [response EXCEPT ![r] = resp]
  /\ ctx' = [ctx EXCEPT ![r] = "done"]

Arrive(r) ==
  /\ handler[r] = "idle"
  /\ Goto(r, "decoding")
  /\ UNCHANGED <<ctx, execVars, workerVars, chans, output, response>>

\* Mutant: no return after an error of Decode.
DecodeGoesOn(r) ==
  /\ handler[r] = "decoding"
  /\ Goto(r, "executing")
  /\ UNCHANGED <<ctx, execVars, workerVars, chans, output, response>>

Decode(r) ==
  /\ handler[r] = "decoding"
  /\ \/ /\ r \in BadBody
        /\ Respond(r, Error)
     \/ /\ r \notin BadBody
        /\ Goto(r, "executing")
        /\ UNCHANGED <<ctx, response>>
  /\ UNCHANGED <<execVars, workerVars, chans, output>>

\* The timeout of the handler, or the client has gone.
ContextEnds(r) ==
  /\ handler[r] \notin {"idle", "returned"}
  /\ ctx[r] = "live"
  /\ ctx' = [ctx EXCEPT ![r] = "done"]
  /\ UNCHANGED <<handler, execVars, workerVars, chans, output, response>>

-----------------------------------------------------------------------------
(* The functions of the engine.                                            *)

maxVariadicArgs == 8

\* Mutant: i < maxVariadicArgs.
OneOverloadShort(f) == {[fn |-> f, args |-> i] : i \in 0..(maxVariadicArgs - 1)}

\* CEL has no variadic functions, each number of arguments is declared.
Overloads(f) == {[fn |-> f, args |-> i] : i \in 0..maxVariadicArgs}

\* Whether Compile accepts a call.
Callable(c) ==
  IF Language = "cel" THEN \E f \in Whitelist : c \in Overloads(f)
                      ELSE c.fn \in Whitelist

-----------------------------------------------------------------------------
(* Execute.                                                                *)

\* Mutant: room for expr.Env(env), which every Execute appends.
RoomForEnv == Cardinality(Whitelist) + 1

\* The array NewExprEngineWithWhitelist makes: as long as the whitelist.
BaseCapacity == Cardinality(Whitelist)

\* append(e.baseOptions, expr.Env(env)) by concurrent calls: an array that is
\* full is copied; one with room would be written by all of them.
ExprOptions(r) ==
  /\ Language = "expr"
  /\ handler[r] = "executing"
  /\ IF Cardinality(Whitelist) < BaseCapacity
     THEN /\ options' = [options EXCEPT ![r] = "shared"]
          /\ spare' = r
     ELSE /\ options' = [options EXCEPT ![r] = "own"]
          /\ UNCHANGED spare
  /\ Goto(r, "compiling")
  /\ UNCHANGED <<ctx, program, workerVars, chans, output, response>>

\* Mutant: the variables are appended to options that the engine keeps.
CELSharedOptions(r) ==
  /\ Language = "cel"
  /\ handler[r] = "executing"
  /\ options' = [options EXCEPT ![r] = "shared"]
  /\ spare' = r
  /\ Goto(r, "compiling")
  /\ UNCHANGED <<ctx, program, workerVars, chans, output, response>>

\* The variables go into a slice of their own, and Extend copies baseEnv.
CELOptions(r) ==
  /\ Language = "cel"
  /\ handler[r] = "executing"
  /\ options' = [options EXCEPT ![r] = "own"]
  /\ Goto(r, "compiling")
  /\ UNCHANGED <<ctx, spare, program, workerVars, chans, output, response>>

EnvSeen(r) == IF options[r] = "shared" THEN spare ELSE r

Compiles(r) == r \notin BadExpression /\ \A i \in 1..Len(Calls[r]) : Callable(Calls[r][i])

\* Compile with the options as they are now; on success make the channels and
\* start the worker.
Compile(r) ==
  /\ handler[r] = "compiling"
  /\ program' = [program EXCEPT ![r] = EnvSeen(r)]
  /\ IF Compiles(r)
     THEN /\ Goto(r, "selecting")
          /\ worker' = [worker EXCEPT ![r] = "running"]
          /\ UNCHANGED <<ctx, response>>
     ELSE /\ Respond(r, Error)
          /\ UNCHANGED worker
  /\ UNCHANGED <<spare, options, ran, out, chans, output>>

\* Mutant: Execute just waits for the worker.
NoContextCase(r) == FALSE

SelectContext(r) ==
  /\ handler[r] = "selecting"
  /\ ctx[r] = "done"
  /\ Respond(r, Error)
  /\ UNCHANGED <<execVars, workerVars, chans, output>>

SelectError(r) ==
  /\ handler[r] = "selecting"
  /\ errChan[r] # <<>>
  /\ errChan' = [errChan EXCEPT ![r] = Tail(@)]
  /\ Respond(r, Error)
  /\ UNCHANGED <<execVars, workerVars, resultChan, output>>

\* Mutant: the engine has one resultChan for all requests.
SelectsAnyResult(r) ==
  /\ handler[r] = "selecting"
  /\ \E q \in Request :
       /\ resultChan[q] # <<>>
       /\ output' = [output EXCEPT ![r] = Head(resultChan[q])]
       /\ resultChan' = [resultChan EXCEPT ![q] = Tail(@)]
  /\ Goto(r, "marshaling")
  /\ UNCHANGED <<ctx, execVars, workerVars, errChan, response>>

SelectResult(r) ==
  /\ handler[r] = "selecting"
  /\ resultChan[r] # <<>>
  /\ output' = [output EXCEPT ![r] = Head(resultChan[r])]
  /\ resultChan' = [resultChan EXCEPT ![r] = Tail(@)]
  /\ Goto(r, "marshaling")
  /\ UNCHANGED <<ctx, execVars, workerVars, errChan, response>>

-----------------------------------------------------------------------------
(* The worker.                                                             *)

\* A function that returns an error ends expr.Run with it; in CEL it becomes a
\* value, and the expression may do without it.
CallFails(r) ==
  IF Language = "expr"
  THEN /\ worker' = [worker EXCEPT ![r] = "sending"]
       /\ out' = [out EXCEPT ![r] = Failed]
  ELSE /\ worker' = [worker EXCEPT ![r] = "running"]
       /\ UNCHANGED out

CallSucceeds(r) ==
  /\ worker' = [worker EXCEPT ![r] = "running"]
  /\ UNCHANGED out

\* The next function is called.  httpGet fails without a URL, or if that is no
\* string, else it sends a request, with a context of its own.
Call(r) ==
  /\ worker[r] = "running"
  /\ Len(ran[r]) < Len(Calls[r])
  /\ LET c == Calls[r][Len(ran[r]) + 1]
     IN /\ ran' = [ran EXCEPT ![r] = Append(@, c.fn)]
        /\ \/ CallFails(r)
           \/ c.fn # HTTPGet /\ CallSucceeds(r)
           \/ /\ c.fn = HTTPGet /\ c.args > 0
              /\ worker' = [worker EXCEPT ![r] = "getting"]
              /\ UNCHANGED out
  /\ UNCHANGED <<handler, ctx, execVars, chans, output, response>>

\* The remote site answers, if it ever does: a JSON body with status 200, or
\* anything else.
HTTPGetReturns(r) ==
  /\ worker[r] = "getting"
  /\ CallSucceeds(r) \/ CallFails(r)
  /\ UNCHANGED <<handler, ctx, execVars, ran, chans, output, response>>

\* Mutant: http.NewRequest, without a context.
NoHTTPGetDeadline(r) == FALSE

\* httpGet's own deadline, which the handler's context neither is nor ends.
HTTPGetTimesOut(r) ==
  /\ worker[r] = "getting"
  /\ CallFails(r)
  /\ UNCHANGED <<handler, ctx, execVars, ran, chans, output, response>>

\* expr.Run or ContextEval returns, with an output or an error.
Evaluate(r) ==
  /\ worker[r] = "running"
  /\ \E v \in {Value(r, program[r], ran[r]), Failed} : out' = [out EXCEPT ![r] = v]
  /\ worker' = [worker EXCEPT ![r] = "sending"]
  /\ UNCHANGED <<handler, ctx, execVars, ran, chans, output, response>>

\* Mutant: the worker returns on an error without sending it.
WorkerDropsError(r) ==
  /\ worker[r] = "sending"
  /\ IF out[r] = Failed
     THEN UNCHANGED chans
     ELSE /\ Len(resultChan[r]) < ChanCap
          /\ resultChan' = [resultChan EXCEPT ![r] = Append(@, out[r])]
          /\ UNCHANGED errChan
  /\ worker' = [worker EXCEPT ![r] = "exited"]
  /\ out' = [out EXCEPT ![r] = NoOutput]
  /\ UNCHANGED <<handler, ctx, execVars, ran, output, response>>

\* Mutant: no return after the error has been sent.
WorkerSendsTwice(r) ==
  /\ worker[r] = "sending"
  /\ resultChan' = [resultChan EXCEPT ![r] = Append(@, out[r])]
  /\ IF out[r] = Failed
     THEN errChan' = [errChan EXCEPT ![r] = Append(@, out[r])]
     ELSE UNCHANGED errChan
  /\ worker' = [worker EXCEPT ![r] = "exited"]
  /\ out' = [out EXCEPT ![r] = NoOutput]
  /\ UNCHANGED <<handler, ctx, execVars, ran, output, response>>

\* Mutant: whatever Run returned goes to resultChan.
WorkerIgnoresError(r) ==
  /\ worker[r] = "sending"
  /\ Len(resultChan[r]) < ChanCap
  /\ resultChan' = [resultChan EXCEPT ![r] = Append(@, out[r])]
  /\ worker' = [worker EXCEPT ![r] = "exited"]
  /\ out' = [out EXCEPT ![r] = NoOutput]
  /\ UNCHANGED <<handler, ctx, execVars, ran, errChan, output, response>>

WorkerSends(r) ==
  /\ worker[r] = "sending"
  /\ IF out[r] = Failed
     THEN /\ Len(errChan[r]) < ChanCap
          /\ errChan' = [errChan EXCEPT ![r] = Append(@, out[r])]
          /\ UNCHANGED resultChan
     ELSE /\ Len(resultChan[r]) < ChanCap
          /\ resultChan' = [resultChan EXCEPT ![r] = Append(@, out[r])]
          /\ UNCHANGED errChan
  /\ worker' = [worker EXCEPT ![r] = "exited"]
  /\ out' = [out EXCEPT ![r] = NoOutput]
  /\ UNCHANGED <<handler, ctx, execVars, ran, output, response>>

-----------------------------------------------------------------------------
(* The handler, after Execute.                                             *)

Marshal(r) ==
  /\ handler[r] = "marshaling"
  /\ \/ /\ r \in BadOutput
        /\ Respond(r, Error)
     \/ /\ r \notin BadOutput
        /\ Goto(r, "attesting")
        /\ UNCHANGED <<ctx, response>>
  /\ UNCHANGED <<execVars, workerVars, chans, output>>

\* Attest what was asked and what came of it, and write the response.  The
\* context may have ended since Execute returned: nobody looks.
Attest(r) ==
  /\ handler[r] = "attesting"
  /\ \/ Respond(r, [expression |-> r, env |-> r, output |-> output[r]])
     \/ Respond(r, Error)
  /\ UNCHANGED <<execVars, workerVars, chans, output>>

HandlerStep(r) ==
  \/ Decode(r)
  \/ ExprOptions(r) \/ CELOptions(r) \/ Compile(r)
  \/ SelectContext(r) \/ SelectError(r) \/ SelectResult(r)
  \/ Marshal(r) \/ Attest(r)

WorkerStep(r) ==
  Call(r) \/ HTTPGetTimesOut(r) \/ Evaluate(r) \/ WorkerSends(r)

Next ==
  \E r \in Request : \/ Arrive(r) \/ ContextEnds(r) \/ HandlerStep(r)
                     \/ WorkerStep(r) \/ HTTPGetReturns(r)

Spec == Init /\ [][Next]_vars

\* Handlers go on, Attest returns and deadlines pass, but a worker may run or
\* hang forever.
ImpatientSpec ==
  Spec /\ \A r \in Request : WF_vars(ContextEnds(r)) /\ WF_vars(HandlerStep(r))

\* Expressions have no unbounded loop, so that their evaluation goes on to its
\* end, and deadlines pass; but the remote site need never answer.
PatientSpec == Spec /\ \A r \in Request : WF_vars(HandlerStep(r)) /\ WF_vars(WorkerStep(r))

-----------------------------------------------------------------------------
(* Correctness.                                                            *)

\* The type of every variable; the channels of Execute hold values and errors.
TypeOK ==
  /\ handler \in [Request -> {"idle", "decoding", "executing", "compiling", "selecting",
                              "marshaling", "attesting", "returned"}]
  /\ ctx \in [Request -> {"live", "done"}]
  /\ spare \in Request \union {NoEnv}
  /\ options \in [Request -> {"none", "own", "shared"}]
  /\ program \in [Request -> Request \union {NoEnv}]
  /\ worker \in [Request -> {"none", "running", "getting", "sending", "exited"}]
  /\ ran \in [Request -> Seq(Whitelist)]
  /\ out \in [Request -> Values \union {Failed, NoOutput}]
  /\ resultChan \in [Request -> Seq(Values)]
  /\ errChan \in [Request -> Seq({Failed})]
  /\ output \in [Request -> Values \union {NoOutput}]
  /\ response \in [Request -> Attested \union {NoResponse, Error}]

\* A report on request r binds its expression and env to the output of
\* evaluating that expression, compiled against that env and no concurrent
\* request's, with the functions that it names, by a worker that has finished:
\* there is none for an evaluation that timed out.
AttestsOwnEvaluation ==
  \A r \in Request : response[r] \notin {NoResponse, Error} =>
    /\ \E fns \in FirstCalls(r) :
         response[r] = [expression |-> r, env |-> r, output |-> Value(r, r, fns)]
    /\ worker[r] = "exited"

\* "maxVariadicArgs defines the maximum number of arguments supported for
\* whitelisted functions": a request is evaluated if it decodes, compiles and
\* calls only whitelisted functions, in CEL with no more arguments than that,
\* and refused without an evaluation otherwise.
EvaluatesWhatIsSupported ==
  \A r \in Request : handler[r] = "returned" =>
    ( worker[r] # "none" <=>
      /\ r \notin BadBody \union BadExpression
      /\ \A i \in 1..Len(Calls[r]) :
           /\ Calls[r][i].fn \in Whitelist
           /\ Language = "cel" => Calls[r][i].args <= maxVariadicArgs )

\* Execute waits only for what can still come: as long as it selects, either
\* the worker has yet to send or what it sent is there to be received.
SelectCanReturn ==
  \A r \in Request : handler[r] = "selecting" =>
    (worker[r] = "exited") <=> (Len(resultChan[r]) + Len(errChan[r]) = 1)

\* Engine and handlers implement AttestedEvaluation: an answer reports what was
\* asked and what came of evaluating it before.
Evaluation == INSTANCE AttestedEvaluation WITH
  Correct <- [r \in Request |-> {Value(r, r, fns) : fns \in FirstCalls(r)}],
  asked <- {r \in Request : handler[r] # "idle"},
  result <- [r \in Request |-> IF out[r] \in Values THEN out[r]
                               ELSE IF resultChan[r] # <<>> THEN Head(resultChan[r])
                               ELSE output[r]],
  answer <- response

KeepsEvaluationPromise == Evaluation!Spec

\* "Wrap expression executions with a context so that the Enclave does not
\* block forever": the handler answers even if the evaluation never ends.
HandlerReturns == \A r \in Request : handler[r] = "decoding" ~> handler[r] = "returned"

\* No worker is left behind for good: it ends, with or without anybody to
\* receive its outcome, also when Execute has long returned or the remote site
\* never answers.
WorkerExits ==
  \A r \in Request :
    worker[r] = "running" ~> worker[r] = "exited" /\ handler[r] = "returned"
=============================================================================
