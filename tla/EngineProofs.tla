---------------------------- MODULE EngineProofs ----------------------------
(***************************************************************************)
(* Theorems about Engine, for either language, any number of concurrent    *)
(* requests, any whitelist and any expressions.                            *)
(***************************************************************************)
EXTENDS Engine, FiniteSetTheorems, SequenceTheorems, TLAPS

-----------------------------------------------------------------------------
(* Calls and values.                                                       *)

\* What evaluating the expression of r, against its own variables, may yield.
OwnValues(r) == {Value(r, r, fns) : fns \in FirstCalls(r)}

\* Compile accepts a call of a whitelisted function, in CEL of at most
\* maxVariadicArgs arguments, and no other.
LEMMA CallableCalls ==
  ASSUME NEW c \in [fn : Function, args : Nat]
  PROVE  Callable(c) <=> /\ c.fn \in Whitelist
                         /\ Language = "cel" => c.args <= maxVariadicArgs
<1>1. CASE Language = "cel"
  <2>1. \A f \in Whitelist : c \in Overloads(f) <=> c.fn = f /\ c.args <= maxVariadicArgs
    BY DEF Overloads, maxVariadicArgs
  <2> QED
    BY <1>1, <2>1 DEF Callable
<1>2. CASE Language # "cel"
  BY <1>2 DEF Callable
<1> QED
  BY <1>1, <1>2

\* The calls of an expression that compiles are calls of whitelisted functions.
LEMMA CompiledCalls ==
  ASSUME NEW r \in Request
  PROVE  /\ Len(Calls[r]) \in Nat
         /\ \A i \in 1..Len(Calls[r]) : Calls[r][i] \in [fn : Function, args : Nat]
         /\ Compiles(r) => \A i \in 1..Len(Calls[r]) : Calls[r][i].fn \in Whitelist
<1>1. Calls[r] \in Seq([fn : Function, args : Nat])
  BY EngineAssumption
<1>2. \A i \in 1..Len(Calls[r]) : Calls[r][i] \in [fn : Function, args : Nat]
  BY <1>1, ElementOfSeq
<1> QED
  BY <1>1, <1>2, CallableCalls, LenProperties DEF Compiles

\* No call has been made, or one more than before.
LEMMA FirstCallsGrow ==
  ASSUME NEW r \in Request
  PROVE  /\ <<>> \in FirstCalls(r)
         /\ \A fns \in FirstCalls(r) :
              /\ Len(fns) \in 0..Len(Calls[r])
              /\ Len(fns) < Len(Calls[r]) =>
                   Append(fns, Calls[r][Len(fns) + 1].fn) \in FirstCalls(r)
<1> DEFINE First(k) == [i \in 1..k |-> Calls[r][i].fn]
<1>1. Len(Calls[r]) \in Nat
  BY CompiledCalls
<1>2. First(0) = <<>>
  OBVIOUS
<1>3. ASSUME NEW k \in 0..Len(Calls[r])
      PROVE  /\ Len(First(k)) = k
             /\ Append(First(k), Calls[r][k + 1].fn) = First(k + 1)
  <2> DEFINE S == {Calls[r][i].fn : i \in 1..(k + 1)}
  <2>1. k \in Nat
    BY <1>1, <1>3
  <2>2. First(k) \in Seq(S) /\ First(k + 1) \in Seq(S)
    BY <2>1
  <2>3. Calls[r][k + 1].fn \in S
    BY <2>1
  <2> HIDE DEF S
  <2>4. Len(First(k)) = k /\ Len(First(k + 1)) = k + 1
    BY <2>1
  <2>5. Append(First(k), Calls[r][k + 1].fn) = First(k + 1)
    BY <2>1, <2>2, <2>3, <2>4
  <2> QED
    BY <2>4, <2>5
<1>4. \A k \in 0..Len(Calls[r]) : k < Len(Calls[r]) => k + 1 \in 0..Len(Calls[r])
  BY <1>1
<1>5. FirstCalls(r) = {First(k) : k \in 0..Len(Calls[r])}
  BY DEF FirstCalls
<1>6. \A fns \in FirstCalls(r) : \E k \in 0..Len(Calls[r]) : fns = First(k)
  BY <1>5
<1>7. 0 \in 0..Len(Calls[r])
  BY <1>1
<1> HIDE DEF First
<1>8. <<>> \in FirstCalls(r)
  BY <1>2, <1>5, <1>7
<1>9. ASSUME NEW fns \in FirstCalls(r)
      PROVE  /\ Len(fns) \in 0..Len(Calls[r])
             /\ Len(fns) < Len(Calls[r]) =>
                  Append(fns, Calls[r][Len(fns) + 1].fn) \in FirstCalls(r)
  <2>1. PICK k \in 0..Len(Calls[r]) : fns = First(k)
    BY <1>6
  <2>2. Len(fns) = k /\ Append(fns, Calls[r][k + 1].fn) = First(k + 1)
    BY <1>3, <2>1
  <2> QED
    BY <1>4, <1>5, <2>2
<1> QED
  BY <1>8, <1>9

LEMMA FirstCallsType ==
  ASSUME NEW r \in Request, Compiles(r), NEW fns \in FirstCalls(r)
  PROVE  fns \in Seq(Whitelist)
  BY CompiledCalls DEF FirstCalls

\* The own values of an expression that compiles are values, and no error.
LEMMA OwnValuesType ==
  ASSUME NEW r \in Request, Compiles(r)
  PROVE  OwnValues(r) \subseteq Values
  BY FirstCallsType DEF OwnValues, Value, Values

-----------------------------------------------------------------------------
(* The inductive invariant.  What is attested comes out of a chain of      *)
(* goroutines and channels: it says of each link that it holds nothing but *)
(* the outcome of the request's own evaluation, and when.                  *)

\* The worker of r runs the program that was compiled for r, without the
\* variables of any other request.
RunsOwnProgram(r) ==
  /\ options[r] # "shared"
  /\ worker[r] # "none" => program[r] = r /\ Compiles(r) /\ r \notin BadBody

\* The worker sends one outcome of its own, when it exits, into an empty channel,
\* where it is until Execute takes it.
SendsOwnOutcome(r) ==
  /\ ran[r] \in FirstCalls(r)
  /\ out[r] \in IF worker[r] = "sending" THEN OwnValues(r) \union {Failed} ELSE {NoOutput}
  /\ resultChan[r] = <<>> \/ \E v \in OwnValues(r) : resultChan[r] = <<v>>
  /\ errChan[r] = <<>> \/ errChan[r] = <<Failed>>
  /\ output[r] \in OwnValues(r) \union {NoOutput}
  /\ output[r] # NoOutput => resultChan[r] = <<>>
  /\ worker[r] # "exited" =>
       resultChan[r] = <<>> /\ errChan[r] = <<>> /\ output[r] = NoOutput

\* How far the handler of r is tells what there is of its worker and outcome.
HandlesInOrder(r) ==
  /\ handler[r] \in {"idle", "decoding", "executing", "compiling"} => worker[r] = "none"
  /\ handler[r] \in {"executing", "compiling"} => r \notin BadBody
  /\ handler[r] \in {"selecting", "marshaling", "attesting"} => worker[r] # "none"
  /\ handler[r] = "selecting" =>
       /\ output[r] = NoOutput
       /\ worker[r] = "exited" => (resultChan[r] = <<>> <=> errChan[r] # <<>>)
  /\ handler[r] \in {"marshaling", "attesting"} => output[r] # NoOutput
  /\ handler[r] = "returned" /\ worker[r] = "none" => r \in BadBody \/ ~Compiles(r)

AnswersOnce(r) ==
  /\ handler[r] # "returned" => response[r] = NoResponse
  /\ response[r] \notin {NoResponse, Error} =>
       /\ output[r] # NoOutput
       /\ response[r] = [expression |-> r, env |-> r, output |-> output[r]]

RequestInv(r) ==
  RunsOwnProgram(r) /\ SendsOwnOutcome(r) /\ HandlesInOrder(r) /\ AnswersOnce(r)

IInv == TypeOK /\ \A r \in Request : RequestInv(r)

LEMMA InvInit == Init => IInv
<1> SUFFICES ASSUME Init PROVE IInv
  OBVIOUS
<1>1. TypeOK
  BY DEF Init, TypeOK
<1>2. ASSUME NEW r \in Request PROVE RequestInv(r)
  BY FirstCallsGrow DEF Init, RequestInv, RunsOwnProgram, SendsOwnOutcome, HandlesInOrder, AnswersOnce
<1> QED
  BY <1>1, <1>2 DEF IInv

-----------------------------------------------------------------------------
(* A step of one request.                                                  *)

\* What belongs to request k.
Of(k) == <<handler[k], ctx[k], options[k], program[k], worker[k], ran[k], out[k],
           resultChan[k], errChan[k], output[k], response[k]>>

RequestStep(r) == Arrive(r) \/ ContextEnds(r) \/ HandlerStep(r) \/ WorkerStep(r) \/ HTTPGetReturns(r)

\* A step of one request leaves the others alone; the only variable they share,
\* spare, has no use.
LEMMA OthersUnchanged ==
  ASSUME TypeOK, NEW r \in Request, NEW k \in Request, k # r, RequestStep(r)
  PROVE  UNCHANGED Of(k)
<1> USE DEF TypeOK, Of, Goto, Respond, execVars, workerVars, chans
<1>1. CASE Arrive(r) \/ ContextEnds(r) \/ Decode(r)
  BY <1>1 DEF Arrive, ContextEnds, Decode
<1>2. CASE ExprOptions(r) \/ CELOptions(r)
  BY <1>2 DEF ExprOptions, CELOptions
<1>3. CASE Compile(r)
  BY <1>3 DEF Compile
<1>4. CASE SelectContext(r) \/ SelectError(r) \/ SelectResult(r)
  BY <1>4 DEF SelectContext, SelectError, SelectResult
<1>5. CASE Marshal(r) \/ Attest(r)
  BY <1>5 DEF Marshal, Attest
<1>6. CASE Call(r)
  BY <1>6 DEF Call, CallFails, CallSucceeds
<1>7. CASE HTTPGetReturns(r) \/ HTTPGetTimesOut(r) \/ Evaluate(r)
  BY <1>7 DEF HTTPGetReturns, HTTPGetTimesOut, CallFails, CallSucceeds, Evaluate
<1>8. CASE WorkerSends(r)
  BY <1>8 DEF WorkerSends
<1> QED
  BY <1>1, <1>2, <1>3, <1>4, <1>5, <1>6, <1>7, <1>8 DEF RequestStep, HandlerStep, WorkerStep

LEMMA OthersKeep ==
  ASSUME NEW k \in Request, RequestInv(k), UNCHANGED Of(k)
  PROVE  RequestInv(k)'
  BY DEF Of, RequestInv, RunsOwnProgram, SendsOwnOutcome, HandlesInOrder, AnswersOnce

\* <<v>> as what is in a channel into which v was sent.
LEMMA OneItem ==
  ASSUME NEW S, NEW v \in S
  PROVE  /\ Append(<<>>, v) = <<v>>
         /\ <<v>> \in Seq(S) /\ <<v>> # <<>> /\ Len(<<v>>) = 1
         /\ Head(<<v>>) = v /\ Tail(<<v>>) = <<>>
  OBVIOUS

\* How a handler answers, or moves on.
LEMMA Responds ==
  ASSUME TypeOK, NEW r \in Request, NEW resp \in Attested \union {Error}, Respond(r, resp)
  PROVE  /\ handler'[r] = "returned" /\ response'[r] = resp
         /\ handler' \in [Request -> {"idle", "decoding", "executing", "compiling",
                              "selecting", "marshaling", "attesting", "returned"}]
         /\ ctx' \in [Request -> {"live", "done"}]
         /\ response' \in [Request -> Attested \union {NoResponse, Error}]
  BY DEF TypeOK, Respond, Goto

LEMMA GoesTo ==
  ASSUME TypeOK, NEW r \in Request,
         NEW place \in {"decoding", "executing", "compiling", "selecting", "marshaling",
                        "attesting"},
         Goto(r, place)
  PROVE  /\ handler'[r] = place
         /\ handler' \in [Request -> {"idle", "decoding", "executing", "compiling",
                              "selecting", "marshaling", "attesting", "returned"}]
  BY DEF TypeOK, Goto

\* An error ends a handler that has not answered yet.
LEMMA ErrorKeeps ==
  ASSUME NEW r \in Request, RequestInv(r), handler[r] # "returned",
         handler'[r] = "returned", response'[r] = Error,
         UNCHANGED <<options[r], program[r], worker[r], ran[r], out[r], resultChan[r], output[r]>>,
         errChan'[r] = errChan[r] \/ (worker[r] = "exited" /\ errChan'[r] = <<>>),
         worker[r] = "none" => r \in BadBody \/ ~Compiles(r)
  PROVE  RequestInv(r)'
  BY DEF RequestInv, RunsOwnProgram, SendsOwnOutcome, HandlesInOrder, AnswersOnce

LEMMA HandlerEntryKeeps ==
  ASSUME IInv, NEW r \in Request,
         Arrive(r) \/ ContextEnds(r) \/ Decode(r) \/ ExprOptions(r) \/ CELOptions(r)
  PROVE  TypeOK' /\ RequestInv(r)'
<1> USE DEF IInv, execVars, workerVars, chans
<1>1. CASE Arrive(r)
  <2>1. TypeOK'
    BY <1>1, GoesTo DEF Arrive, TypeOK
  <2>2. handler[r] = "idle" /\ handler'[r] = "decoding"
    BY <1>1, GoesTo DEF Arrive
  <2> QED
    BY <1>1, <2>1, <2>2 DEF Arrive, RequestInv, RunsOwnProgram, SendsOwnOutcome, HandlesInOrder,
                            AnswersOnce
<1>2. CASE ContextEnds(r)
  BY <1>2 DEF ContextEnds, TypeOK, RequestInv, RunsOwnProgram, SendsOwnOutcome, HandlesInOrder,
              AnswersOnce
<1>3. CASE Decode(r) /\ r \in BadBody
  <2>1. TypeOK' /\ handler'[r] = "returned" /\ response'[r] = Error
    BY <1>3, Responds DEF Decode, TypeOK
  <2> QED
    BY <1>3, <2>1, ErrorKeeps DEF Decode
<1>4. CASE Decode(r) /\ r \notin BadBody
  <2>1. TypeOK'
    BY <1>4, GoesTo DEF Decode, TypeOK
  <2>2. handler[r] = "decoding" /\ handler'[r] = "executing"
    BY <1>4, GoesTo DEF Decode
  <2> QED
    BY <1>4, <2>1, <2>2 DEF Decode, RequestInv, RunsOwnProgram, SendsOwnOutcome, HandlesInOrder,
                            AnswersOnce
<1>5. CASE ExprOptions(r) \/ CELOptions(r)
  <2>1. /\ options' = [options EXCEPT ![r] = "own"]
        /\ handler[r] = "executing" /\ Goto(r, "compiling")
        /\ UNCHANGED <<ctx, spare, program, workerVars, chans, output, response>>
    BY <1>5, EngineAssumption, FS_CardinalityType DEF ExprOptions, CELOptions, BaseCapacity
  <2>2. TypeOK'
    BY <2>1, GoesTo DEF TypeOK
  <2>3. handler'[r] = "compiling" /\ options'[r] = "own"
    BY <2>1, GoesTo DEF TypeOK
  <2> QED
    BY <2>1, <2>2, <2>3 DEF RequestInv, RunsOwnProgram, SendsOwnOutcome, HandlesInOrder,
                            AnswersOnce
<1> QED
  BY <1>1, <1>2, <1>3, <1>4, <1>5

\* The program is compiled against the own variables, and only a program that
\* compiles is run.
LEMMA CompileKeeps ==
  ASSUME IInv, NEW r \in Request, Compile(r)
  PROVE  TypeOK' /\ RequestInv(r)'
<1> USE DEF IInv, execVars, workerVars, chans
<1>1. program' = [program EXCEPT ![r] = r] /\ handler[r] = "compiling"
  BY DEF Compile, EnvSeen, RequestInv, RunsOwnProgram
<1>2. r \notin BadBody /\ worker[r] = "none"
  BY <1>1 DEF RequestInv, HandlesInOrder
<1>3. CASE Compiles(r)
  <2>1. /\ program' \in [Request -> Request \union {NoEnv}]
        /\ worker' = [worker EXCEPT ![r] = "running"]
        /\ Goto(r, "selecting")
        /\ UNCHANGED <<ctx, spare, options, ran, out, chans, output, response>>
    BY <1>1, <1>3 DEF Compile, TypeOK
  <2>2. TypeOK'
    BY <2>1, GoesTo DEF TypeOK
  <2>3. /\ handler'[r] = "selecting" /\ worker'[r] = "running" /\ program'[r] = r
        /\ UNCHANGED <<options[r], ran[r], out[r], resultChan[r], errChan[r], output[r], response[r]>>
    BY <1>1, <1>3, GoesTo DEF Compile, TypeOK
  <2> QED
    BY <1>1, <1>2, <1>3, <2>2, <2>3
       DEF RequestInv, RunsOwnProgram, SendsOwnOutcome, HandlesInOrder, AnswersOnce
<1>4. CASE ~Compiles(r)
  <2>1. TypeOK'
    BY <1>1, <1>4, Responds DEF Compile, TypeOK
  <2>2. /\ handler'[r] = "returned" /\ response'[r] = Error
        /\ UNCHANGED <<options[r], worker[r], ran[r], out[r], resultChan[r], errChan[r], output[r]>>
    BY <1>1, <1>4, Responds DEF Compile
  <2> QED
    BY <1>1, <1>2, <1>4, <2>1, <2>2
       DEF RequestInv, RunsOwnProgram, SendsOwnOutcome, HandlesInOrder, AnswersOnce
<1> QED
  BY <1>3, <1>4

\* Execute takes the only item there is.
LEMMA SelectKeeps ==
  ASSUME IInv, NEW r \in Request, SelectContext(r) \/ SelectError(r) \/ SelectResult(r)
  PROVE  TypeOK' /\ RequestInv(r)'
<1> USE DEF IInv, execVars, workerVars, chans
<1>1. CASE SelectContext(r)
  <2>1. TypeOK' /\ handler'[r] = "returned" /\ response'[r] = Error
    BY <1>1, Responds DEF SelectContext, TypeOK
  <2>2. handler[r] = "selecting" /\ worker[r] # "none"
    BY <1>1 DEF SelectContext, RequestInv, HandlesInOrder
  <2> QED
    BY <1>1, <2>1, <2>2, ErrorKeeps DEF SelectContext
<1>2. CASE SelectError(r)
  <2>1. handler[r] = "selecting" /\ errChan[r] = <<Failed>> /\ worker[r] = "exited"
    BY <1>2 DEF SelectError, RequestInv, SendsOwnOutcome
  <2>2. Tail(errChan[r]) = <<>>
    BY <2>1, OneItem
  <2>3. errChan' = [errChan EXCEPT ![r] = <<>>]
    BY <1>2, <2>2 DEF SelectError
  <2>4. TypeOK' /\ handler'[r] = "returned" /\ response'[r] = Error /\ errChan'[r] = <<>>
    BY <1>2, <2>3, Responds, EmptySeq DEF SelectError, TypeOK
  <2> QED
    BY <1>2, <2>1, <2>4, ErrorKeeps DEF SelectError
<1>3. CASE SelectResult(r)
  <2>1. PICK v \in OwnValues(r) : resultChan[r] = <<v>>
    BY <1>3 DEF SelectResult, RequestInv, SendsOwnOutcome
  <2>2. Head(resultChan[r]) = v /\ Tail(resultChan[r]) = <<>> /\ resultChan[r] # <<>>
    BY <2>1, OneItem
  <2>3. worker[r] = "exited" /\ Compiles(r)
    BY <2>2 DEF RequestInv, SendsOwnOutcome, RunsOwnProgram
  <2>4. v \in Values /\ v # NoOutput
    BY <2>3, OwnValuesType, SentinelsAssumption
  <2>5. /\ handler[r] = "selecting" /\ Goto(r, "marshaling")
        /\ output' = [output EXCEPT ![r] = v]
        /\ resultChan' = [resultChan EXCEPT ![r] = <<>>]
        /\ UNCHANGED <<ctx, execVars, workerVars, errChan, response>>
    BY <1>3, <2>2 DEF SelectResult
  <2>6. TypeOK'
    BY <2>4, <2>5, GoesTo, EmptySeq DEF TypeOK
  <2>7. handler'[r] = "marshaling" /\ output'[r] = v /\ resultChan'[r] = <<>>
    BY <2>5, GoesTo DEF TypeOK
  <2> QED
    BY <2>3, <2>4, <2>5, <2>6, <2>7
       DEF RequestInv, RunsOwnProgram, SendsOwnOutcome, HandlesInOrder, AnswersOnce
<1> QED
  BY <1>1, <1>2, <1>3

\* The handler reports what Execute took.
LEMMA HandlerExitKeeps ==
  ASSUME IInv, NEW r \in Request, Marshal(r) \/ Attest(r)
  PROVE  TypeOK' /\ RequestInv(r)'
<1> USE DEF IInv, execVars, workerVars, chans
<1>1. /\ handler[r] \in {"marshaling", "attesting"} /\ worker[r] # "none"
      /\ output[r] # NoOutput
  BY DEF Marshal, Attest, RequestInv, HandlesInOrder
<1>2. CASE Marshal(r) /\ r \notin BadOutput
  <2>1. TypeOK' /\ handler'[r] = "attesting"
    BY <1>2, GoesTo DEF Marshal, TypeOK
  <2> QED
    BY <1>1, <1>2, <2>1 DEF Marshal, RequestInv, RunsOwnProgram, SendsOwnOutcome, HandlesInOrder,
                            AnswersOnce
<1>3. ASSUME Respond(r, Error), UNCHANGED <<execVars, workerVars, chans, output>>
      PROVE  TypeOK' /\ RequestInv(r)'
  <2>1. TypeOK' /\ handler'[r] = "returned" /\ response'[r] = Error
    BY <1>3, Responds DEF TypeOK
  <2> QED
    BY <1>1, <1>3, <2>1, ErrorKeeps
<1>4. ASSUME Respond(r, [expression |-> r, env |-> r, output |-> output[r]]),
             UNCHANGED <<execVars, workerVars, chans, output>>
      PROVE  TypeOK' /\ RequestInv(r)'
  <2>1. output[r] \in Values
    BY <1>1 DEF TypeOK
  <2>2. [expression |-> r, env |-> r, output |-> output[r]] \in Attested
    BY <2>1 DEF Attested
  <2>3. TypeOK'
    BY <1>4, <2>2, Responds DEF TypeOK
  <2>4. /\ handler'[r] = "returned"
        /\ response'[r] = [expression |-> r, env |-> r, output |-> output[r]]
    BY <1>4, <2>2, Responds
  <2> QED
    BY <1>1, <1>4, <2>3, <2>4
       DEF RequestInv, RunsOwnProgram, SendsOwnOutcome, HandlesInOrder, AnswersOnce
<1> QED
  BY <1>2, <1>3, <1>4 DEF Marshal, Attest

\* A worker calls the functions of its expression in their order.
LEMMA CallKeeps ==
  ASSUME IInv, NEW r \in Request, Call(r)
  PROVE  TypeOK' /\ RequestInv(r)'
<1> USE DEF IInv, execVars, workerVars, chans
<1> DEFINE c == Calls[r][Len(ran[r]) + 1]
<1>1. worker[r] = "running" /\ Compiles(r) /\ ran[r] \in FirstCalls(r)
  BY DEF Call, RequestInv, RunsOwnProgram, SendsOwnOutcome
<1>2. Append(ran[r], c.fn) \in FirstCalls(r)
  BY <1>1, FirstCallsGrow DEF Call
<1>3. Append(ran[r], c.fn) \in Seq(Whitelist)
  BY <1>1, <1>2, FirstCallsType
<1>4. /\ ran' = [ran EXCEPT ![r] = Append(@, c.fn)]
      /\ \/ worker' = [worker EXCEPT ![r] = "sending"] /\ out' = [out EXCEPT ![r] = Failed]
         \/ worker' = [worker EXCEPT ![r] = "running"] /\ UNCHANGED out
         \/ worker' = [worker EXCEPT ![r] = "getting"] /\ UNCHANGED out
      /\ UNCHANGED <<handler, ctx, execVars, chans, output, response>>
  BY DEF Call, CallFails, CallSucceeds
<1> HIDE DEF c
<1>5. TypeOK'
  BY <1>3, <1>4 DEF TypeOK
<1>6. /\ ran'[r] = Append(ran[r], c.fn)
      /\ \/ worker'[r] = "sending" /\ out'[r] = Failed
         \/ worker'[r] \in {"running", "getting"} /\ out'[r] = out[r]
  BY <1>4 DEF TypeOK
<1> QED
  BY <1>1, <1>2, <1>4, <1>5, <1>6
     DEF RequestInv, RunsOwnProgram, SendsOwnOutcome, HandlesInOrder, AnswersOnce

\* What a worker that has called those functions may have computed.
LEMMA OwnResult ==
  ASSUME IInv, NEW r \in Request, worker[r] # "none"
  PROVE  Value(r, program[r], ran[r]) \in OwnValues(r)
  BY DEF IInv, RequestInv, RunsOwnProgram, SendsOwnOutcome, OwnValues

LEMMA EvaluateKeeps ==
  ASSUME IInv, NEW r \in Request,
         HTTPGetReturns(r) \/ HTTPGetTimesOut(r) \/ Evaluate(r)
  PROVE  TypeOK' /\ RequestInv(r)'
<1> USE DEF IInv, execVars, workerVars, chans
<1>1. worker[r] \in {"getting", "running"} /\ Compiles(r)
  BY DEF HTTPGetReturns, HTTPGetTimesOut, Evaluate, RequestInv, RunsOwnProgram
<1>2. PICK v \in OwnValues(r) \union {Failed} :
        /\ \/ worker' = [worker EXCEPT ![r] = "sending"] /\ out' = [out EXCEPT ![r] = v]
           \/ worker' = [worker EXCEPT ![r] = "running"] /\ UNCHANGED out
        /\ UNCHANGED <<handler, ctx, execVars, ran, chans, output, response>>
  BY <1>1, OwnResult DEF HTTPGetReturns, HTTPGetTimesOut, CallFails, CallSucceeds, Evaluate
<1>3. v \in Values \union {Failed}
  BY <1>1, OwnValuesType
<1>4. TypeOK'
  <2>1. worker' \in [Request -> {"none", "running", "getting", "sending", "exited"}]
    BY <1>2 DEF TypeOK
  <2>2. out' \in [Request -> Values \union {Failed, NoOutput}]
    BY <1>2, <1>3 DEF TypeOK
  <2> QED
    BY <1>2, <2>1, <2>2 DEF TypeOK
<1>5. \/ worker'[r] = "sending" /\ out'[r] = v
      \/ worker'[r] = "running" /\ out'[r] = out[r]
  BY <1>2 DEF TypeOK
<1> QED
  BY <1>1, <1>2, <1>4, <1>5
     DEF RequestInv, RunsOwnProgram, SendsOwnOutcome, HandlesInOrder, AnswersOnce

\* The one outcome finds room in an empty channel, whoever waits for it.
LEMMA WorkerSendsKeeps ==
  ASSUME IInv, NEW r \in Request, WorkerSends(r)
  PROVE  TypeOK' /\ RequestInv(r)'
<1> USE DEF IInv, execVars, workerVars, chans
<1>1. /\ worker[r] = "sending" /\ Compiles(r)
      /\ out[r] \in OwnValues(r) \union {Failed}
      /\ resultChan[r] = <<>> /\ errChan[r] = <<>> /\ output[r] = NoOutput
  BY DEF WorkerSends, RequestInv, RunsOwnProgram, SendsOwnOutcome
<1>2. /\ worker' = [worker EXCEPT ![r] = "exited"]
      /\ out' = [out EXCEPT ![r] = NoOutput]
      /\ UNCHANGED <<handler, ctx, execVars, ran, output, response>>
  BY DEF WorkerSends
<1>3. CASE out[r] = Failed
  <2>1. errChan' = [errChan EXCEPT ![r] = <<Failed>>] /\ UNCHANGED resultChan
    BY <1>1, <1>3, OneItem DEF WorkerSends
  <2>2. <<Failed>> \in Seq({Failed}) /\ <<Failed>> # <<>>
    BY OneItem
  <2>3. TypeOK'
    BY <1>2, <2>1, <2>2 DEF TypeOK
  <2>4. /\ worker'[r] = "exited" /\ out'[r] = NoOutput
        /\ errChan'[r] = <<Failed>> /\ resultChan'[r] = <<>>
    BY <1>1, <1>2, <2>1 DEF TypeOK
  <2>5. SendsOwnOutcome(r)'
    <3>1. ran'[r] \in FirstCalls(r) /\ out'[r] = NoOutput /\ worker'[r] = "exited"
      BY <1>1, <1>2, <2>2, <2>3, <2>4 DEF RequestInv, SendsOwnOutcome
    <3>2. resultChan'[r] = <<>> \/ \E v \in OwnValues(r) : resultChan'[r] = <<v>>
      BY <1>1, <1>2, <2>2, <2>3, <2>4
    <3>3. errChan'[r] = <<>> \/ errChan'[r] = <<Failed>>
      BY <1>1, <1>2, <2>2, <2>3, <2>4
    <3>4. output'[r] = NoOutput
      BY <1>1, <1>2, <2>2, <2>3, <2>4
    <3> QED
      BY <3>1, <3>2, <3>3, <3>4 DEF SendsOwnOutcome
  <2>6. HandlesInOrder(r)'
    BY <1>1, <1>2, <2>2, <2>3, <2>4 DEF RequestInv, HandlesInOrder
  <2>7. RunsOwnProgram(r)' /\ AnswersOnce(r)'
    BY <1>1, <1>2, <2>2, <2>3, <2>4 DEF RequestInv, RunsOwnProgram, AnswersOnce
  <2> QED
    BY <2>5, <2>6, <2>7, <2>3 DEF RequestInv
<1>4. CASE out[r] # Failed
  <2>1. PICK v \in OwnValues(r) : v = out[r]
    BY <1>1, <1>4
  <2>2. v \in Values
    BY <1>1, OwnValuesType
  <2>3. resultChan' = [resultChan EXCEPT ![r] = <<v>>] /\ UNCHANGED errChan
    BY <1>1, <1>4, <2>1, OneItem DEF WorkerSends
  <2>4. <<v>> \in Seq(Values) /\ <<v>> # <<>>
    BY <2>2, OneItem
  <2>5. TypeOK'
    BY <1>2, <2>3, <2>4 DEF TypeOK
  <2>6. /\ worker'[r] = "exited" /\ out'[r] = NoOutput
        /\ errChan'[r] = <<>> /\ resultChan'[r] = <<v>>
    BY <1>1, <1>2, <2>3 DEF TypeOK
  <2>7. SendsOwnOutcome(r)'
    <3>1. ran'[r] \in FirstCalls(r) /\ out'[r] = NoOutput /\ worker'[r] = "exited"
      BY <1>1, <1>2, <2>4, <2>5, <2>6 DEF RequestInv, SendsOwnOutcome
    <3>2. resultChan'[r] = <<>> \/ \E w \in OwnValues(r) : resultChan'[r] = <<w>>
      BY <1>1, <1>2, <2>4, <2>5, <2>6
    <3>3. errChan'[r] = <<>> \/ errChan'[r] = <<Failed>>
      BY <1>1, <1>2, <2>4, <2>5, <2>6
    <3>4. output'[r] = NoOutput
      BY <1>1, <1>2, <2>4, <2>5, <2>6
    <3> QED
      BY <3>1, <3>2, <3>3, <3>4 DEF SendsOwnOutcome
  <2>8. HandlesInOrder(r)'
    BY <1>1, <1>2, <2>4, <2>5, <2>6 DEF RequestInv, HandlesInOrder
  <2>9. RunsOwnProgram(r)' /\ AnswersOnce(r)'
    BY <1>1, <1>2, <2>4, <2>5, <2>6 DEF RequestInv, RunsOwnProgram, AnswersOnce
  <2> QED
    BY <2>7, <2>8, <2>9, <2>5 DEF RequestInv
<1> QED
  BY <1>3, <1>4

LEMMA InvNext == IInv /\ [Next]_vars => IInv'
<1> SUFFICES ASSUME IInv, [Next]_vars PROVE IInv'
  OBVIOUS
<1>1. ASSUME NEW r \in Request, RequestStep(r) PROVE IInv'
  <2>1. TypeOK' /\ RequestInv(r)'
    BY <1>1, HandlerEntryKeeps, CompileKeeps, SelectKeeps, HandlerExitKeeps, CallKeeps,
       EvaluateKeeps, WorkerSendsKeeps DEF RequestStep, HandlerStep, WorkerStep
  <2>2. ASSUME NEW k \in Request, k # r PROVE RequestInv(k)'
    BY <1>1, <2>2, OthersUnchanged, OthersKeep DEF IInv
  <2> QED
    BY <2>1, <2>2 DEF IInv
<1>2. CASE UNCHANGED vars
  <2>1. TypeOK'
    BY <1>2 DEF IInv, TypeOK, vars
  <2>2. ASSUME NEW k \in Request PROVE RequestInv(k)'
    BY <1>2, OthersKeep DEF IInv, vars, Of
  <2> QED
    BY <2>1, <2>2 DEF IInv
<1> QED
  BY <1>1, <1>2 DEF Next, RequestStep

LEMMA Invariance == Spec => []IInv
  BY InvInit, InvNext, PTL DEF Spec

-----------------------------------------------------------------------------
(* The properties.                                                         *)

\* Every variable keeps its type; channels hold values or errors only.
THEOREM TypeCorrect == Spec => []TypeOK
<1>1. IInv => TypeOK
  BY DEF IInv
<1> QED
  BY <1>1, Invariance, PTL

\* For any number of concurrent requests, each report binds the expression and the
\* variables of its request to a value computed from just these, with the
\* functions the expression names, by a worker that has finished.
THEOREM OwnEvaluationAttested == Spec => []AttestsOwnEvaluation
<1>1. ASSUME IInv PROVE AttestsOwnEvaluation
  <2> SUFFICES ASSUME NEW r \in Request, response[r] \notin {NoResponse, Error}
               PROVE  /\ \E fns \in FirstCalls(r) : response[r] =
                           [expression |-> r, env |-> r, output |-> Value(r, r, fns)]
                      /\ worker[r] = "exited"
    BY DEF AttestsOwnEvaluation
  <2>1. /\ output[r] # NoOutput
        /\ response[r] = [expression |-> r, env |-> r, output |-> output[r]]
    BY <1>1 DEF IInv, RequestInv, AnswersOnce
  <2>2. worker[r] = "exited" /\ output[r] \in OwnValues(r)
    BY <1>1, <2>1 DEF IInv, RequestInv, SendsOwnOutcome
  <2> QED
    BY <2>1, <2>2 DEF OwnValues
<1> QED
  BY <1>1, Invariance, PTL

\* A request is evaluated exactly if it decodes, compiles and calls whitelisted
\* functions only, with no more arguments than the engine declares.
THEOREM SupportedIsEvaluated == Spec => []EvaluatesWhatIsSupported
<1>1. ASSUME IInv PROVE EvaluatesWhatIsSupported
  <2> SUFFICES ASSUME NEW r \in Request, handler[r] = "returned"
               PROVE  worker[r] # "none" <=>
                        /\ r \notin BadBody \union BadExpression
                        /\ \A i \in 1..Len(Calls[r]) :
                             /\ Calls[r][i].fn \in Whitelist
                             /\ Language = "cel" => Calls[r][i].args <= maxVariadicArgs
    BY DEF EvaluatesWhatIsSupported
  <2>1. worker[r] # "none" <=> r \notin BadBody /\ Compiles(r)
    BY <1>1 DEF IInv, RequestInv, RunsOwnProgram, HandlesInOrder
  <2>2. \A i \in 1..Len(Calls[r]) :
          Callable(Calls[r][i]) <=>
            /\ Calls[r][i].fn \in Whitelist
            /\ Language = "cel" => Calls[r][i].args <= maxVariadicArgs
    BY CompiledCalls, CallableCalls
  <2> QED
    BY <2>1, <2>2 DEF Compiles
<1> QED
  BY <1>1, Invariance, PTL

\* Execute never selects without a worker that has yet to send or an item that it
\* has sent.
THEOREM SelectReturns == Spec => []SelectCanReturn
<1>1. ASSUME IInv PROVE SelectCanReturn
  <2> SUFFICES ASSUME NEW r \in Request, handler[r] = "selecting"
               PROVE  worker[r] = "exited" <=> Len(resultChan[r]) + Len(errChan[r]) = 1
    BY DEF SelectCanReturn
  <2>1. /\ resultChan[r] = <<>> \/ \E v \in OwnValues(r) : resultChan[r] = <<v>>
        /\ errChan[r] = <<>> \/ errChan[r] = <<Failed>>
        /\ worker[r] # "exited" => resultChan[r] = <<>> /\ errChan[r] = <<>>
        /\ worker[r] = "exited" => (resultChan[r] = <<>> <=> errChan[r] # <<>>)
    BY <1>1 DEF IInv, RequestInv, SendsOwnOutcome, HandlesInOrder
  <2>2. Len(resultChan[r]) = IF resultChan[r] = <<>> THEN 0 ELSE 1
    BY <2>1, OneItem, EmptySeq
  <2>3. Len(errChan[r]) = IF errChan[r] = <<>> THEN 0 ELSE 1
    BY <2>1, OneItem, EmptySeq
  <2> QED
    BY <2>1, <2>2, <2>3
<1> QED
  BY <1>1, Invariance, PTL

-----------------------------------------------------------------------------
(* Engine implements AttestedEvaluation.                                   *)

\* The abstract result of r: what its worker is about to send, has sent, or what
\* Execute has returned.
Result(r) == IF out[r] \in Values THEN out[r]
             ELSE IF resultChan[r] # <<>> THEN Head(resultChan[r])
             ELSE output[r]

Asked == {r \in Request : handler[r] # "idle"}

\* The result there is of each outcome that a worker has got so far.
LEMMA ResultOf ==
  ASSUME NEW r \in Request, RequestInv(r)
  PROVE  /\ worker[r] \in {"none", "running", "getting"} => Result(r) = NoOutput
         /\ worker[r] = "sending" =>
              Result(r) = IF out[r] = Failed THEN NoOutput ELSE out[r]
         /\ worker[r] = "exited" =>
              Result(r) = IF resultChan[r] # <<>> THEN Head(resultChan[r]) ELSE output[r]
         /\ output[r] # NoOutput => Result(r) = output[r]
<1>1. CASE worker[r] \in {"none", "running", "getting", "exited"}
  BY <1>1, SentinelsAssumption DEF RequestInv, SendsOwnOutcome, Result
<1>2. CASE worker[r] = "sending"
  <2>1. OwnValues(r) \subseteq Values
    BY <1>2, OwnValuesType DEF RequestInv, RunsOwnProgram
  <2> QED
    BY <1>2, <2>1, SentinelsAssumption DEF RequestInv, SendsOwnOutcome, Result
<1> QED
  BY <1>1, <1>2 DEF RequestInv, SendsOwnOutcome, Result

LEMMA RefinementInit == Init => Evaluation!Init
<1> SUFFICES ASSUME Init PROVE Evaluation!Init
  OBVIOUS
<1>1. Asked = {}
  BY DEF Init, Asked
<1>2. \A r \in Request : Result(r) = NoOutput
  BY SentinelsAssumption DEF Init, Result
<1> QED
  BY <1>1, <1>2 DEF Init, Evaluation!Init, Asked, Result

\* The abstract state is that of each request.
LEMMA Stutters ==
  ASSUME \A k \in Request : /\ handler'[k] = "idle" <=> handler[k] = "idle"
                            /\ Result(k)' = Result(k),
         UNCHANGED response
  PROVE  UNCHANGED Evaluation!vars
<1>1. Asked' = Asked
  BY DEF Asked
<1>2. [k \in Request |-> Result(k)]' = [k \in Request |-> Result(k)]
  OBVIOUS
<1> QED
  BY <1>1, <1>2 DEF Evaluation!vars, Asked, Result

\* An error refuses a request that has been asked and not answered.
LEMMA Refuses ==
  ASSUME TypeOK, NEW r \in Request, handler[r] # "idle", response[r] = NoResponse,
         Respond(r, Error),
         \A k \in Request : Result(k)' = Result(k)
  PROVE  Evaluation!Refuse(r)
<1>1. Asked' = Asked /\ r \in Asked
  BY DEF Asked, Respond, Goto, TypeOK
<1>2. [k \in Request |-> Result(k)]' = [k \in Request |-> Result(k)]
  OBVIOUS
<1> QED
  BY <1>1, <1>2 DEF Evaluation!Refuse, Asked, Result, Respond

LEMMA OthersResult ==
  ASSUME IInv, NEW r \in Request, RequestStep(r)
  PROVE  \A k \in Request \ {r} : /\ handler'[k] = handler[k]
                                 /\ Result(k)' = Result(k)
  BY OthersUnchanged DEF IInv, Of, Result

\* A step that answers nothing and leaves the result of its own request as it was
\* stutters, if the request had arrived.
LEMMA OwnStutters ==
  ASSUME IInv, NEW r \in Request, RequestStep(r), UNCHANGED response,
         handler[r] # "idle", handler'[r] # "idle", Result(r)' = Result(r)
  PROVE  UNCHANGED Evaluation!vars
  BY OthersResult, Stutters

LEMMA HandlerRefines ==
  ASSUME IInv, NEW r \in Request, Arrive(r) \/ ContextEnds(r) \/ HandlerStep(r)
  PROVE  [Evaluation!Next]_(Evaluation!vars)
<1> USE DEF execVars, workerVars, chans
<1>1. RequestStep(r) /\ TypeOK /\ RequestInv(r)
  BY DEF RequestStep, IInv
<1>2. ASSUME Respond(r, Error), handler[r] \notin {"idle", "returned"},
             UNCHANGED <<workerVars, resultChan, output>>
      PROVE  Evaluation!Next
  <2>1. response[r] = NoResponse
    BY <1>1, <1>2 DEF RequestInv, AnswersOnce
  <2>2. Result(r)' = Result(r)
    BY <1>2 DEF Result
  <2>3. Evaluation!Refuse(r)
    BY <1>1, <1>2, <2>1, <2>2, OthersResult, Refuses
  <2> QED
    BY <2>3 DEF Evaluation!Next
<1>3. ASSUME handler[r] # "idle", handler'[r] # "idle", UNCHANGED <<out, resultChan, output, response>>
      PROVE  UNCHANGED Evaluation!vars
  BY <1>1, <1>3, OwnStutters DEF Result
<1>4. CASE Arrive(r)
  <2>1. handler[r] = "idle" /\ handler'[r] = "decoding"
    BY <1>1, <1>4, GoesTo DEF Arrive
  <2>2. \A k \in Request : Result(k)' = Result(k)
    BY <1>4 DEF Arrive, Result
  <2>3. Asked' = Asked \union {r} /\ r \notin Asked
    BY <1>1, <2>1, OthersResult DEF Asked
  <2>4. [k \in Request |-> Result(k)]' = [k \in Request |-> Result(k)]
    BY <2>2
  <2>5. Evaluation!Ask(r)
    BY <1>4, <2>3, <2>4 DEF Arrive, Evaluation!Ask, Asked, Result
  <2> QED
    BY <2>5 DEF Evaluation!Next
<1>5. CASE ContextEnds(r)
  BY <1>3, <1>5 DEF ContextEnds
<1>6. CASE Decode(r)
  BY <1>1, <1>2, <1>3, <1>6, GoesTo DEF Decode
<1>7. CASE ExprOptions(r) \/ CELOptions(r)
  BY <1>1, <1>3, <1>7, GoesTo DEF ExprOptions, CELOptions
<1>8. CASE Compile(r)
  <2>1. CASE Compiles(r)
    BY <1>1, <1>3, <1>8, <2>1, GoesTo DEF Compile
  <2>2. CASE ~Compiles(r)
    BY <1>2, <1>8, <2>2 DEF Compile
  <2> QED
    BY <2>1, <2>2
<1>9. CASE SelectContext(r) \/ SelectError(r)
  BY <1>2, <1>9 DEF SelectContext, SelectError
<1>10. CASE SelectResult(r)
  <2>1. PICK v \in OwnValues(r) : resultChan[r] = <<v>>
    BY <1>1, <1>10 DEF SelectResult, RequestInv, SendsOwnOutcome
  <2>2. Head(resultChan[r]) = v /\ Tail(resultChan[r]) = <<>> /\ resultChan[r] # <<>>
    BY <2>1, OneItem
  <2>3. /\ handler[r] = "selecting" /\ handler'[r] = "marshaling"
        /\ output'[r] = v /\ resultChan'[r] = <<>> /\ out'[r] = out[r]
        /\ UNCHANGED response
    BY <1>1, <1>10, <2>2, GoesTo DEF SelectResult, TypeOK
  <2>4. worker[r] = "exited" /\ out[r] = NoOutput
    BY <1>1, <2>2 DEF RequestInv, SendsOwnOutcome
  <2>5. Result(r) = v /\ Result(r)' = v
    BY <2>2, <2>3, <2>4, SentinelsAssumption DEF Result
  <2> QED
    BY <1>1, <2>3, <2>5, OwnStutters
<1>11. CASE Marshal(r)
  BY <1>1, <1>2, <1>3, <1>11, GoesTo DEF Marshal
<1>12. CASE Attest(r)
  <2>1. CASE Respond(r, Error)
    BY <1>2, <1>12, <2>1 DEF Attest
  <2>2. CASE Respond(r, [expression |-> r, env |-> r, output |-> output[r]])
    <3>1. handler[r] = "attesting" /\ response[r] = NoResponse /\ output[r] # NoOutput
      BY <1>1, <1>12 DEF Attest, RequestInv, HandlesInOrder, AnswersOnce
    <3>2. Result(r) = output[r]
      BY <1>1, <3>1, ResultOf
    <3>3. UNCHANGED <<workerVars, chans, output>>
      BY <1>12 DEF Attest
    <3>4. [k \in Request |-> Result(k)]' = [k \in Request |-> Result(k)]
      BY <3>3 DEF Result
    <3>5. Asked' = Asked
      BY <1>1, <2>2, <3>1 DEF Respond, Goto, Asked, TypeOK
    <3>6. Evaluation!Attest(r)
      BY <2>2, <3>1, <3>2, <3>4, <3>5 DEF Evaluation!Attest, Respond, Asked, Result
    <3> QED
      BY <3>6 DEF Evaluation!Next
  <2> QED
    BY <1>12, <2>1, <2>2 DEF Attest
<1> QED
  BY <1>4, <1>5, <1>6, <1>7, <1>8, <1>9, <1>10, <1>11, <1>12 DEF HandlerStep

\* Only the end of an evaluation is seen, and only if it was one without an error.
LEMMA WorkerRefines ==
  ASSUME IInv, NEW r \in Request, WorkerStep(r) \/ HTTPGetReturns(r)
  PROVE  [Evaluation!Next]_(Evaluation!vars)
<1> USE DEF execVars, workerVars, chans
<1>1. RequestStep(r) /\ TypeOK /\ RequestInv(r)
  BY DEF RequestStep, IInv
<1>2. worker[r] # "none" /\ handler[r] # "idle"
  BY <1>1 DEF WorkerStep, Call, HTTPGetReturns, HTTPGetTimesOut, Evaluate, WorkerSends,
                  RequestInv, HandlesInOrder
<1>3. UNCHANGED <<handler, output, response>>
  BY DEF WorkerStep, Call, HTTPGetReturns, HTTPGetTimesOut, Evaluate, WorkerSends
<1>4. ASSUME worker[r] \in {"running", "getting"}, UNCHANGED resultChan,
             out'[r] \in {out[r], Failed}
      PROVE  UNCHANGED Evaluation!vars
  <2>1. Result(r) = NoOutput
    BY <1>1, <1>4, ResultOf
  <2>2. resultChan[r] = <<>> /\ output[r] = NoOutput /\ out[r] = NoOutput
    BY <1>1, <1>4 DEF RequestInv, SendsOwnOutcome
  <2>3. Result(r)' = NoOutput
    BY <1>3, <1>4, <2>2, SentinelsAssumption DEF Result
  <2> QED
    BY <1>1, <1>2, <1>3, <2>1, <2>3, OwnStutters
<1>5. CASE Call(r) \/ HTTPGetReturns(r) \/ HTTPGetTimesOut(r)
  BY <1>1, <1>4, <1>5 DEF Call, HTTPGetReturns, HTTPGetTimesOut, CallFails, CallSucceeds, TypeOK
<1>6. CASE Evaluate(r)
  <2>1. PICK v \in {Value(r, program[r], ran[r]), Failed} : out' = [out EXCEPT ![r] = v]
    BY <1>6 DEF Evaluate
  <2>2. out'[r] = v
    BY <1>1, <2>1 DEF TypeOK
  <2>3. CASE v = Failed
    BY <1>4, <1>6, <2>2, <2>3 DEF Evaluate
  <2>4. CASE v = Value(r, program[r], ran[r])
    <3>1. v \in OwnValues(r) /\ v \in Values
      BY <1>1, <1>2, <2>4, OwnResult, OwnValuesType DEF IInv, RequestInv, RunsOwnProgram
    <3>2. Result(r) = NoOutput /\ Result(r)' = v
      BY <1>1, <1>6, <2>2, <3>1, ResultOf DEF Evaluate, Result
    <3>3. [k \in Request |-> Result(k)]' = [[k \in Request |-> Result(k)] EXCEPT ![r] = v]
      BY <1>1, <3>2, OthersResult
    <3>4. Asked' = Asked /\ r \in Asked
      BY <1>2, <1>3 DEF Asked
    <3>5. [k \in Request |-> OwnValues(k)][r] = OwnValues(r)
      OBVIOUS
    <3>6. Evaluation!Evaluate(r)
      BY <1>3, <3>1, <3>2, <3>3, <3>4, <3>5
         DEF Evaluation!Evaluate, Asked, Result, OwnValues
    <3> QED
      BY <3>6 DEF Evaluation!Next
  <2> QED
    BY <2>1, <2>3, <2>4
<1>7. CASE WorkerSends(r)
  <2>1. /\ worker[r] = "sending" /\ out'[r] = NoOutput
        /\ resultChan[r] = <<>> /\ output[r] = NoOutput
        /\ out[r] \in OwnValues(r) \union {Failed}
    BY <1>1, <1>7 DEF WorkerSends, RequestInv, SendsOwnOutcome, TypeOK
  <2>2. CASE out[r] = Failed
    <3>1. Result(r) = NoOutput
      BY <1>1, <2>1, <2>2, ResultOf
    <3>2. Result(r)' = NoOutput
      BY <1>3, <1>7, <2>1, <2>2, SentinelsAssumption DEF WorkerSends, Result
    <3> QED
      BY <1>1, <1>2, <1>3, <3>1, <3>2, OwnStutters
  <2>3. CASE out[r] # Failed
    <3>1. Result(r) = out[r]
      BY <1>1, <2>1, <2>3, ResultOf
    <3>2. resultChan'[r] = <<out[r]>>
      BY <1>1, <1>7, <2>1, <2>3, OneItem DEF WorkerSends, TypeOK
    <3>3. Head(resultChan'[r]) = out[r] /\ resultChan'[r] # <<>>
      BY <3>2, OneItem
    <3>4. Result(r)' = out[r]
      BY <2>1, <3>3, SentinelsAssumption DEF Result
    <3> QED
      BY <1>1, <1>2, <1>3, <3>1, <3>4, OwnStutters
  <2> QED
    BY <2>2, <2>3
<1> QED
  BY <1>5, <1>6, <1>7 DEF WorkerStep

\* Engine and handlers implement the attested evaluation, whatever times out and
\* whichever evaluations go on after their handler has returned.
THEOREM ImplementsAttestedEvaluation == Spec => KeepsEvaluationPromise
<1>1. Init => Evaluation!Init
  BY RefinementInit
<1>2. ASSUME IInv, [Next]_vars PROVE [Evaluation!Next]_(Evaluation!vars)
  <2>1. ASSUME NEW r \in Request, RequestStep(r)
        PROVE  [Evaluation!Next]_(Evaluation!vars)
    BY <1>2, <2>1, HandlerRefines, WorkerRefines DEF RequestStep
  <2>2. CASE UNCHANGED vars
    BY <2>2, Stutters DEF vars, Result
  <2> QED
    BY <1>2, <2>1, <2>2 DEF Next, RequestStep
<1> QED
  BY <1>1, <1>2, Invariance, PTL DEF Spec, KeepsEvaluationPromise, Evaluation!Spec
=============================================================================
