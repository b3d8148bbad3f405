------------------------- MODULE HTTPExchangeProofs -------------------------
(***************************************************************************)
(* Theorems about HTTPExchange: for each function of Client and whatever   *)
(* fails, what Do returns is true of the handler at the other end.         *)
(***************************************************************************)
EXTENDS HTTPExchange, TLAPS

-----------------------------------------------------------------------------
(* The steps of the handlers.                                              *)

StepName == {"decode", "getCert", "marshal", "execute", "newRequest", "call", "attest"}

\* Where a handler of api is before its response.
Places == {Steps[api][i] : i \in 1..Len(Steps[api])}

\* Every handler has a first step, and all of them have names.
LEMMA StepsOfHandler ==
  ASSUME NEW f \in DOMAIN Steps
  PROVE  /\ Len(Steps[f]) \in Nat \ {0}
         /\ \A i \in 1..Len(Steps[f]) : Steps[f][i] \in StepName
<1>1. f \in {"AttestCertChain", "AttestCEL", "AttestExpr", "AttestHTTPCall",
             "AttestHTTPSCall", "AttestUserData"}
  BY DEF Steps
<1>2. \/ Steps[f] = <<"decode", "getCert", "marshal", "attest">>
      \/ Steps[f] = <<"decode", "execute", "marshal", "attest">>
      \/ Steps[f] = <<"decode", "newRequest", "call", "attest">>
      \/ Steps[f] = <<"decode", "attest">>
  BY <1>1 DEF Steps, CertSteps, CELSteps, ExprSteps, HTTPCallSteps, HTTPSCallSteps,
              UserDataSteps
<1> QED
  BY <1>2 DEF StepName

\* A handler at one of its steps is not yet at its response.
LEMMA AtStepIsAtPlace ==
  ASSUME TypeOK
  PROVE  /\ Places \subseteq StepName
         /\ AtStep <=> handler \in Places
         /\ handler \in Waiting => AtStep
<1>1. Places \subseteq StepName
  BY StepsOfHandler DEF TypeOK, Places
<1>2. handler \in Places \union {"absent", "respond", "writing", "returned"}
  BY DEF TypeOK, Places
<1> QED
  BY <1>1, <1>2 DEF StepName, AtStep, Waiting

\* After a step comes another one, or the response.
LEMMA AfterStep ==
  ASSUME TypeOK, AtStep
  PROVE  After(handler) \in Places \union {"respond"}
<1>1. \E j \in 1..Len(Steps[api]) : Steps[api][j] = handler
  BY AtStepIsAtPlace DEF Places
<1> DEFINE i == CHOOSE j \in 1..Len(Steps[api]) : Steps[api][j] = handler
<1>2. i \in 1..Len(Steps[api])
  BY <1>1
<1>3. i # Len(Steps[api]) => i + 1 \in 1..Len(Steps[api])
  BY <1>2, StepsOfHandler DEF TypeOK
<1>4. After(handler) = IF i = Len(Steps[api]) THEN "respond" ELSE Steps[api][i + 1]
  BY DEF After
<1> QED
  BY <1>3, <1>4 DEF Places

-----------------------------------------------------------------------------
(* The inductive invariant.  TypeOK alone is not: a handler that has yet   *)
(* to be called could have a client that has already read its response.    *)

\* There is a handler exactly for a call that was sent; an error is written in
\* one piece and ends the handler; what is being written is a report.
HandlerWrites ==
  /\ do \in {"idle", "unsent"} <=> handler = "absent"
  /\ status = 500 => handler = "returned"
  /\ handler = "writing" => status = 200 /\ body = "part"

\* A client reads, or has read, only the body of a response with status 200.
ClientReads == do \in {"reading", "ok", "unread", "undecodable"} => status = 200

IInv ==
  /\ TypeOK
  /\ HandlerWrites
  /\ ClientReads
  /\ OutcomeIsTrue

\* FALSE as the value of a variable and as a formula.
LEMMA NotHeld ==
  /\ held = FALSE => held \in BOOLEAN /\ ~held
  /\ held' = FALSE => held' \in BOOLEAN /\ ~held'
  OBVIOUS

LEMMA InvInit == Init => IInv
  BY NotHeld, NoneAssumption DEF Init, IInv, TypeOK, HandlerWrites, ClientReads, OutcomeIsTrue

\* A step of the handler before its response changes the place only.
LEMMA StepSucceedsKeeps ==
  ASSUME IInv, StepSucceeds
  PROVE  IInv'
<1>1. handler' \in Places \union {"respond"}
  BY AfterStep DEF IInv, StepSucceeds
<1>2. handler' \notin {"absent", "writing", "returned"} /\ Places' = Places
  BY <1>1, AtStepIsAtPlace DEF IInv, StepSucceeds, StepName, Places
<1>3. UNCHANGED <<api, do, ctx, link, held, handlerCtx, status, body>>
  BY DEF StepSucceeds, clientVars
<1>4. status = None /\ handler # "absent"
  BY DEF IInv, TypeOK, StepSucceeds, AtStep
<1>5. TypeOK'
  BY <1>1, <1>2, <1>3, <1>4 DEF IInv, TypeOK, Places
<1>6. HandlerWrites' /\ ClientReads' /\ OutcomeIsTrue'
  BY <1>2, <1>3, <1>4, NoneAssumption DEF IInv, HandlerWrites, ClientReads, OutcomeIsTrue
<1> QED
  BY <1>5, <1>6 DEF IInv

\* An error is written at most once, by a handler that has written nothing.
LEMMA WriteErrorKeeps ==
  ASSUME IInv, AtStep \/ handler = "respond", WriteError,
         UNCHANGED <<api, clientVars, link>>, handlerCtx' \in {"live", "done"}
  PROVE  IInv'
<1>1. status = None /\ handler # "absent"
  BY DEF IInv, TypeOK, AtStep
<1>2. do \notin {"ok", "non200", "reading", "unread", "undecodable", "idle", "unsent"}
  BY <1>1, NoneAssumption DEF IInv, ClientReads, OutcomeIsTrue, HandlerWrites
<1>3. TypeOK'
  BY <1>1, NoneAssumption DEF IInv, TypeOK, WriteError, clientVars
<1>4. HandlerWrites' /\ ClientReads' /\ OutcomeIsTrue'
  BY <1>2 DEF WriteError, clientVars, HandlerWrites, ClientReads, OutcomeIsTrue, IInv, TypeOK
<1> QED
  BY <1>3, <1>4 DEF IInv

\* A call starts the handler of its function at its first step.
LEMMA SendKeeps ==
  ASSUME IInv, Send
  PROVE  IInv'
<1>1. api' = api /\ handler' \in Places
  BY StepsOfHandler DEF IInv, TypeOK, Send, Places
<1>2. handler' \notin {"absent", "respond", "writing", "returned"}
  BY <1>1, AtStepIsAtPlace DEF IInv, StepName
<1>3. handler = "absent" /\ status = None
  BY DEF IInv, TypeOK, HandlerWrites, Send
<1>4. TypeOK'
  BY <1>1, <1>2, <1>3 DEF IInv, TypeOK, Send, Places
<1>5. HandlerWrites' /\ ClientReads' /\ OutcomeIsTrue'
  BY <1>2, <1>3, NoneAssumption DEF Send, HandlerWrites, ClientReads, OutcomeIsTrue
<1> QED
  BY <1>4, <1>5 DEF IInv

\* The rest of the client, which only looks at what the handler has written.
LEMMA ClientKeeps ==
  ASSUME IInv, SendFails \/ GetStatus \/ ReadBody \/ ExchangeFails \/ ReleaseUnclosed
  PROVE  IInv'
<1> USE DEF IInv, TypeOK, HandlerWrites, ClientReads, OutcomeIsTrue, serverVars, Returned
<1>1. CASE SendFails
  BY <1>1 DEF SendFails
<1>2. CASE GetStatus
  BY <1>2 DEF GetStatus
<1>3. CASE ReadBody
  BY <1>3, NotHeld, NoneAssumption DEF ReadBody
<1>4. CASE ExchangeFails
  BY <1>4, NotHeld DEF ExchangeFails
<1>5. CASE ReleaseUnclosed
  BY <1>5, NotHeld DEF ReleaseUnclosed
<1> QED
  BY <1>1, <1>2, <1>3, <1>4, <1>5

LEMMA InvNext == IInv /\ [Next]_vars => IInv'
<1> SUFFICES ASSUME IInv, [Next]_vars PROVE IInv'
  OBVIOUS
<1>1. CASE ClientStep
  BY <1>1, SendKeeps, ClientKeeps DEF ClientStep
<1>2. CASE ContextEnds \/ Break \/ RequestContextEnds \/ HandlerDeadline
  BY <1>2 DEF ContextEnds, Break, RequestContextEnds, HandlerDeadline, IInv, TypeOK,
              HandlerWrites, ClientReads, OutcomeIsTrue, clientVars, serverVars
<1>3. CASE StepSucceeds
  BY <1>3, StepSucceedsKeeps
<1>4. CASE StepFails \/ StepTimesOut \/ MarshalFails
  BY <1>4, WriteErrorKeeps, AtStepIsAtPlace
     DEF StepFails, StepTimesOut, MarshalFails, IInv, TypeOK
<1>5. CASE StartResponse
  <2>1. status = None /\ handler = "respond"
    BY <1>5 DEF StartResponse, IInv, TypeOK
  <2>2. do \notin {"ok", "non200", "idle", "unsent", "undecodable"}
    BY <2>1, NoneAssumption DEF IInv, OutcomeIsTrue, HandlerWrites
  <2> QED
    BY <1>5, <2>2, NoneAssumption
       DEF StartResponse, IInv, TypeOK, HandlerWrites, ClientReads, OutcomeIsTrue, clientVars
<1>6. CASE FinishResponse
  BY <1>6, NoneAssumption
     DEF FinishResponse, IInv, TypeOK, HandlerWrites, ClientReads, OutcomeIsTrue, clientVars
<1>7. CASE UNCHANGED vars
  BY <1>7 DEF vars, IInv, TypeOK, HandlerWrites, ClientReads, OutcomeIsTrue
<1> QED
  BY <1>1, <1>2, <1>3, <1>4, <1>5, <1>6, <1>7 DEF Next, Respond

LEMMA Invariance == Spec => []IInv
  BY InvInit, InvNext, PTL DEF Spec

-----------------------------------------------------------------------------
(* The properties.                                                         *)

\* Every variable keeps its type, and a status comes with its body.
THEOREM TypeCorrect == Spec => []TypeOK
<1>1. IInv => TypeOK
  BY DEF IInv
<1> QED
  BY <1>1, Invariance, PTL

\* Do returns a report only if the handler has written all of it, and the
\* handler's error as an error, wherever either of them or the connection fails.
THEOREM OutcomesAreTrue == Spec => []OutcomeIsTrue
<1>1. IInv => OutcomeIsTrue
  BY DEF IInv
<1> QED
  BY <1>1, Invariance, PTL
=============================================================================
