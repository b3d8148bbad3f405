---------------------------- MODULE HTTPExchange ----------------------------
(***************************************************************************)
(* One call of the attestation API of internal/networking, from Client.Do  *)
(* in one process to a handler in another: the client, the connection,     *)
(* which may break at any time, and the handler's goroutine take their     *)
(* steps independently.  A handler is a sequence of steps each of which    *)
(* may fail; whatever comes of them it writes one response.  What a step   *)
(* computes is left to Engine and Deployment.                              *)
(* From net/http: the status is sent once, with the first byte of a body;  *)
(* a write fails only on a broken connection, and nothing follows it; a    *)
(* body that has been cut off is an error for its reader; the context of a *)
(* request ends when its connection does.                                  *)
(***************************************************************************)
EXTENDS Naturals, Sequences

CONSTANT
  None   \* no status yet

ASSUME NoneAssumption == None \notin {200, 500}

VARIABLES
  api,      \* the function of Client that is called
  do,       \* where Do is, then what it has returned
  ctx,      \* the context given to Do
  link,     \* the connection
  held,     \* whether the client's Transport keeps the connection for this call
  handler,  \* the step the handler is at, or "absent", "writing", "returned"
  handlerCtx, \* the context of the handler, made from the request's
  status,   \* what the handler has written: the status
  body      \* and the body

clientVars == <<do, ctx, held>>
serverVars == <<handler, handlerCtx, status, body>>
vars == <<api, do, ctx, link, held, handler, handlerCtx, status, body>>

-----------------------------------------------------------------------------
(* The handlers, each a sequence of steps before its WriteResponse.        *)

\* tee.WriteResponse of the SDK sends the certificate's response, all others the
\* WriteResponse of the repository: they are taken to be alike.
CertSteps == <<"decode", "getCert", "marshal", "attest">>
CELSteps == <<"decode", "execute", "marshal", "attest">>
ExprSteps == <<"decode", "execute", "marshal", "attest">>
HTTPCallSteps == <<"decode", "newRequest", "call", "attest">>
HTTPSCallSteps == <<"decode", "newRequest", "call", "attest">>
UserDataSteps == <<"decode", "attest">>

\* The functions of Client, each for the handler of its path.
Steps == [AttestCertChain |-> CertSteps, AttestCEL |-> CELSteps, AttestExpr |-> ExprSteps,
          AttestHTTPCall |-> HTTPCallSteps, AttestHTTPSCall |-> HTTPSCallSteps,
          AttestUserData |-> UserDataSteps]

\* Steps that wait for others, and that the context ends.
Waiting == {"call", "execute"}

\* The step after s, the response after the last one.
After(s) ==
  LET i == CHOOSE j \in 1..Len(Steps[api]) : Steps[api][j] = s
  IN IF i = Len(Steps[api]) THEN "respond" ELSE Steps[api][i + 1]

Init ==
  /\ api \in DOMAIN Steps
  /\ do = "idle"
  /\ ctx = "live"
  /\ link = "none"
  /\ held = FALSE
  /\ handler = "absent"
  /\ handlerCtx = "live"
  /\ status = None
  /\ body = "empty"

-----------------------------------------------------------------------------
(* Client.Do.                                                              *)

Returned == {"ok", "non200", "unsent", "unanswered", "unread", "undecodable"}

\* Marshal, NewRequestWithContext or dialling fails; or the context has ended.
SendFails ==
  /\ do = "idle"
  /\ do' = "unsent"
  /\ UNCHANGED <<api, ctx, link, held, serverVars>>

Send ==
  /\ do = "idle"
  /\ ctx = "live"
  /\ do' = "waiting"
  /\ link' = "open"
  /\ held' = TRUE
  /\ handler' = Steps[api][1]
  /\ UNCHANGED <<api, ctx, handlerCtx, status, body>>

\* A status other than 200 is returned at once, before the deferred Close.
GetStatus ==
  /\ do = "waiting"
  /\ status # None
  /\ do' = IF status = 200 THEN "reading" ELSE "non200"
  /\ UNCHANGED <<api, ctx, link, held, serverVars>>

\* Mutant: the error of ReadAll is ignored.
IgnoresReadError ==
  /\ do = "reading"
  /\ handler = "returned" \/ link = "broken"
  /\ do' = IF body = "report" THEN "ok" ELSE "undecodable"
  /\ held' = FALSE
  /\ UNCHANGED <<api, ctx, link, serverVars>>

\* ReadAll sees the end of the body, Unmarshal takes nothing but a report.
ReadBody ==
  /\ do = "reading"
  /\ handler = "returned"
  /\ body \in {"report", "text"}
  /\ do' = IF body = "report" THEN "ok" ELSE "undecodable"
  /\ held' = FALSE
  /\ UNCHANGED <<api, ctx, link, serverVars>>

\* The connection has broken, or the context has ended, which breaks it.
ExchangeFails ==
  /\ do \in {"waiting", "reading"}
  /\ ctx = "done" \/ link = "broken"
  /\ do' = IF do = "waiting" THEN "unanswered" ELSE "unread"
  /\ held' = FALSE
  /\ link' = "broken"
  /\ UNCHANGED <<api, ctx, serverVars>>

\* Mutant: no deadline and no cancel.
NeverEnds == FALSE /\ UNCHANGED vars

\* The deadline of the context, or the deferred cancel of the caller.
ContextEnds ==
  /\ ctx = "live"
  /\ ctx' = "done"
  /\ UNCHANGED <<api, do, link, held, serverVars>>

\* A response that nobody has closed keeps its connection until then.
ReleaseUnclosed ==
  /\ do = "non200"
  /\ held
  /\ ctx = "done" \/ link = "broken"
  /\ held' = FALSE
  /\ link' = "broken"
  /\ UNCHANGED <<api, do, ctx, serverVars>>

-----------------------------------------------------------------------------
(* The connection, and the handler's goroutine.                            *)

Break ==
  /\ link = "open"
  /\ link' = "broken"
  /\ UNCHANGED <<api, clientVars, serverVars>>

AtStep == handler \notin {"absent", "respond", "writing", "returned"}

\* Mutant: context.WithTimeout(context.Background(), ctxTimeout).
ForgetsRequest == FALSE /\ UNCHANGED vars

\* context.WithTimeout(r.Context(), ctxTimeout), and the client has gone.
RequestContextEnds ==
  /\ AtStep
  /\ link = "broken"
  /\ handlerCtx = "live"
  /\ handlerCtx' = "done"
  /\ UNCHANGED <<api, clientVars, link, handler, status, body>>

HandlerDeadline ==
  /\ AtStep
  /\ \E i \in 1..Len(Steps[api]) : Steps[api][i] \in Waiting
  /\ handlerCtx = "live"
  /\ handlerCtx' = "done"
  /\ UNCHANGED <<api, clientVars, link, handler, status, body>>

StepSucceeds ==
  /\ AtStep
  /\ handler' = After(handler)
  /\ UNCHANGED <<api, clientVars, link, handlerCtx, status, body>>

\* Mutant: no return after WriteError.
NoReturn == status' = 500 /\ body' = "text" /\ handler' = After(handler)

\* http.Error, then return.
WriteError == status' = 500 /\ body' = "text" /\ handler' = "returned"

\* Every step has its "if err != nil", decode and Attest included.
StepFails ==
  /\ AtStep
  /\ WriteError
  /\ UNCHANGED <<api, clientVars, link, handlerCtx>>

\* The call of the remote site, or Execute, gives up.
StepTimesOut ==
  /\ handler \in Waiting
  /\ handlerCtx = "done"
  /\ WriteError
  /\ UNCHANGED <<api, clientVars, link, handlerCtx>>

\* Mutant: WriteHeader(http.StatusOK) comes before Marshal.
MarshalsTooLate ==
  /\ handler = "respond"
  /\ status' = 200
  /\ body' = "text"
  /\ handler' = "returned"
  /\ UNCHANGED <<api, clientVars, link, handlerCtx>>

\* WriteResponse: Marshal fails.
MarshalFails ==
  /\ handler = "respond"
  /\ WriteError
  /\ UNCHANGED <<api, clientVars, link, handlerCtx>>

\* WriteHeader(http.StatusOK) and some of Write.
StartResponse ==
  /\ handler = "respond"
  /\ handler' = "writing"
  /\ status' = 200
  /\ body' = "part"
  /\ UNCHANGED <<api, clientVars, link, handlerCtx>>

\* Write fails if the connection has broken, and so does the WriteError that
\* follows it; else the report ends with the return of the handler.
FinishResponse ==
  /\ handler = "writing"
  /\ handler' = "returned"
  /\ body' = IF link = "broken" THEN "part" ELSE "report"
  /\ UNCHANGED <<api, clientVars, link, handlerCtx, status>>

-----------------------------------------------------------------------------
ClientStep == SendFails \/ Send \/ GetStatus \/ ReadBody \/ ExchangeFails \/ ReleaseUnclosed
Respond == MarshalFails \/ StartResponse \/ FinishResponse

Next ==
  \/ ClientStep \/ ContextEnds \/ Break
  \/ RequestContextEnds \/ HandlerDeadline
  \/ StepSucceeds \/ StepFails \/ StepTimesOut \/ Respond

Spec == Init /\ [][Next]_vars

\* The client goes on and its context ends; the server notices a connection that
\* has gone; steps that wait for nobody return.  Nothing is said of the remote
\* site, of the evaluation, nor of the deadline of the handler.
FairSpec ==
  /\ Spec
  /\ WF_vars(ClientStep) /\ WF_vars(ContextEnds)
  /\ WF_vars(RequestContextEnds) /\ WF_vars(StepTimesOut) /\ WF_vars(Respond)
  /\ WF_vars(handler \notin Waiting /\ (StepSucceeds \/ StepFails))

-----------------------------------------------------------------------------
(* Correctness.                                                            *)

\* The type of every variable; status and body belong together, and the client's
\* Transport holds a connection only for a call that needs it or has leaked it.
TypeOK ==
  /\ api \in DOMAIN Steps
  /\ do \in {"idle", "waiting", "reading"} \union Returned
  /\ ctx \in {"live", "done"}
  /\ link \in {"none", "open", "broken"}
  /\ held \in BOOLEAN
  /\ handler \in {Steps[api][i] : i \in 1..Len(Steps[api])}
                 \union {"absent", "respond", "writing", "returned"}
  /\ handlerCtx \in {"live", "done"}
  /\ <<status, body>> \in {<<None, "empty">>, <<500, "text">>, <<200, "part">>, <<200, "report">>}
  /\ status # None <=> handler \in {"writing", "returned"}
  /\ held => do \in {"waiting", "reading", "non200"}

\* What Do returns tells what has happened at the other end: a report has been
\* written to its end; or an error, ErrClientNon200Response, and no report.  A
\* handler's error never comes with status 200, to be found out by Unmarshal.
OutcomeIsTrue ==
  /\ do = "ok" => status = 200 /\ body = "report"
  /\ do = "non200" => status = 500 /\ handler = "returned"
  /\ do # "undecodable"

\* A handler does not outlive its client: once the client has its answer or has
\* given up the handler returns, although the remote site or the evaluation may
\* never answer it and its own deadline may be far away.
HandlerFollowsClient == do \in Returned /\ handler # "absent" ~> handler = "returned"

\* The connection of every call is given back, also that of a response whose
\* body Do has not closed.
ConnectionReleased == held ~> ~held
=============================================================================
