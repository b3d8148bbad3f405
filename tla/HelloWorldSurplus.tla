------------------------- MODULE HelloWorldSurplus -------------------------
(***************************************************************************)
(* Theorems about HelloWorld that count: the replies in the Proxy's socket *)
(* or on their way to it, and the handlers that wait for one.              *)
(***************************************************************************)
EXTENDS HelloWorldProofs, FiniteSetTheorems

-----------------------------------------------------------------------------
(* What is counted.                                                        *)

InHand == IF enclave \in {"attesting", "sending"} THEN 1 ELSE 0

\* Each step adds a message or a waiting handler at most, so that they are
\* finitely many even if the clients are not.
FinitelyMany ==
  IsFiniteSet(toEnclave) /\ IsFiniteSet(toProxy) /\ IsFiniteSet(Receiving)

LEMMA Counts ==
  ASSUME FinitelyMany
  PROVE  /\ Cardinality(toEnclave) \in Nat
         /\ Cardinality(toProxy) \in Nat
         /\ Cardinality(Receiving) \in Nat
         /\ InHand \in {0, 1}
         /\ Surplus = Cardinality(toEnclave) + Cardinality(toProxy) + InHand
                        - Cardinality(Receiving)
  BY FS_CardinalityType DEF FinitelyMany, Surplus, InHand

\* What a step does to each of the numbers, and what that does to the surplus.
LEMMA Changes ==
  ASSUME FinitelyMany, FinitelyMany',
         Cardinality(toEnclave)' + Cardinality(toProxy)' + InHand' + Cardinality(Receiving)
           >= Cardinality(toEnclave) + Cardinality(toProxy) + InHand + Cardinality(Receiving)'
  PROVE  Surplus' >= Surplus
<1>1. /\ Cardinality(toEnclave)' \in Nat
      /\ Cardinality(toProxy)' \in Nat
      /\ Cardinality(Receiving)' \in Nat
      /\ InHand' \in {0, 1}
      /\ Surplus' = Cardinality(toEnclave)' + Cardinality(toProxy)' + InHand'
                      - Cardinality(Receiving)'
  BY FS_CardinalityType DEF FinitelyMany, Surplus, InHand
<1> QED
  BY <1>1, Counts

\* A set after one more, or one less.
LEMMA AnyMore ==
  ASSUME NEW S, NEW x, IsFiniteSet(S)
  PROVE  /\ IsFiniteSet(S \union {x})
         /\ Cardinality(S \union {x}) \in Nat /\ Cardinality(S \union {x}) >= Cardinality(S)
<1>1. Cardinality(S) \in Nat
  BY FS_CardinalityType
<1>2. /\ IsFiniteSet(S \union {x})
      /\ Cardinality(S \union {x}) \in {Cardinality(S), Cardinality(S) + 1}
  BY FS_AddElement
<1> QED
  BY <1>1, <1>2

LEMMA OneMore ==
  ASSUME NEW S, NEW x, IsFiniteSet(S), x \notin S
  PROVE  IsFiniteSet(S \union {x}) /\ Cardinality(S \union {x}) = Cardinality(S) + 1
  BY FS_AddElement

LEMMA OneLess ==
  ASSUME NEW S, NEW x \in S, IsFiniteSet(S)
  PROVE  IsFiniteSet(S \ {x}) /\ Cardinality(S \ {x}) = Cardinality(S) - 1
  BY FS_RemoveElement

LEMMA AnyLess ==
  ASSUME NEW S, NEW x, IsFiniteSet(S)
  PROVE  /\ IsFiniteSet(S \ {x})
         /\ Cardinality(S \ {x}) \in Nat /\ Cardinality(S \ {x}) >= Cardinality(S) - 1
<1>1. Cardinality(S) \in Nat
  BY FS_CardinalityType
<1>2. /\ IsFiniteSet(S \ {x})
      /\ Cardinality(S \ {x}) \in {Cardinality(S), Cardinality(S) - 1}
  BY FS_RemoveElement
<1>3. Cardinality(S \ {x}) \in Nat
  BY <1>2, FS_CardinalityType
<1> QED
  BY <1>1, <1>2, <1>3

\* The step of a handler decides whether it waits, nobody else's does.
LEMMA ReceivingChanges ==
  ASSUME TypeOK, NEW n \in Nonclave, NEW place, handler' = [handler EXCEPT ![n] = place]
  PROVE  /\ place = "receiving" => Receiving' = Receiving \union {n}
         /\ place # "receiving" => Receiving' = Receiving \ {n}
  BY DEF TypeOK, Receiving

-----------------------------------------------------------------------------
(* No step of a handler takes a reply from those that go on waiting.       *)

LEMMA HandlerCounts ==
  ASSUME IInv, FinitelyMany, NEW n \in Nonclave, HandlerStep(n)
  PROVE  FinitelyMany' /\ Surplus' >= Surplus
<1>1. TypeOK /\ UNCHANGED <<enclave, InHand>>
  BY DEF IInv, HandlerStep, ReadBody, ReadBodyFails, ProxySend, ProxySendFails, ProxyReceive,
         ProxyReceiveFails, ProxyReply, enclaveVars, InHand
<1>2. IsFiniteSet(toEnclave) /\ IsFiniteSet(toProxy) /\ IsFiniteSet(Receiving)
  BY DEF FinitelyMany
<1>3. CASE ReadBody(n) \/ ReadBodyFails(n) \/ ProxyReply(n)
  <2>1. n \notin Receiving
    BY <1>3 DEF Receiving, ReadBody, ReadBodyFails, ProxyReply
  <2>2. Receiving' = Receiving
    BY <1>1, <1>3, <2>1, ReceivingChanges DEF ReadBody, ReadBodyFails, ProxyReply, Returns
  <2>3. UNCHANGED <<toEnclave, toProxy>>
    BY <1>3 DEF ReadBody, ReadBodyFails, ProxyReply, network
  <2> QED
    BY <1>1, <1>2, <2>2, <2>3, Counts, Changes DEF FinitelyMany
<1>4. CASE ProxySend(n)
  <2> DEFINE m == [origin |-> n, whole |-> TRUE]
  <2>1. m \notin toEnclave
    BY <1>4 DEF IInv, RequestOnce, Sent, ProxySend
  <2>2. n \notin Receiving /\ Receiving' = Receiving \union {n}
    BY <1>1, <1>4, ReceivingChanges DEF Receiving, ProxySend
  <2>3. toEnclave' = toEnclave \union {m} /\ UNCHANGED toProxy
    BY <1>4 DEF ProxySend
  <2> HIDE DEF m
  <2>4. /\ IsFiniteSet(toEnclave') /\ Cardinality(toEnclave') = Cardinality(toEnclave) + 1
        /\ IsFiniteSet(Receiving') /\ Cardinality(Receiving') = Cardinality(Receiving) + 1
    BY <1>2, <2>1, <2>2, <2>3, OneMore
  <2> QED
    BY <1>1, <1>2, <2>3, <2>4, Counts, Changes DEF FinitelyMany
<1>5. CASE ProxySendFails(n)
  <2>1. n \notin Receiving /\ Receiving' = Receiving
    BY <1>1, <1>5, ReceivingChanges DEF Receiving, ProxySendFails, Returns
  <2>2. UNCHANGED toProxy
    BY <1>5 DEF ProxySendFails
  <2>3. CASE UNCHANGED toEnclave
    BY <1>1, <1>2, <2>1, <2>2, <2>3, Counts, Changes DEF FinitelyMany
  <2>4. ASSUME NEW m, toEnclave' = toEnclave \union {m}
        PROVE  FinitelyMany' /\ Surplus' >= Surplus
    <3>1. /\ IsFiniteSet(toEnclave') /\ Cardinality(toEnclave') \in Nat
          /\ Cardinality(toEnclave') >= Cardinality(toEnclave)
      BY <1>2, <2>4, AnyMore
    <3>2. FinitelyMany'
      BY <1>2, <2>1, <2>2, <3>1 DEF FinitelyMany
    <3> QED
      BY <1>1, <2>1, <2>2, <3>1, <3>2, Counts, Changes
  <2> QED
    BY <1>5, <2>3, <2>4 DEF ProxySendFails
<1>6. CASE ProxyReceive(n) \/ ProxyReceiveFails(n)
  <2>1. n \in Receiving /\ Receiving' = Receiving \ {n}
    BY <1>1, <1>6 DEF TypeOK, Receiving, ProxyReceive, ProxyReceiveFails, Returns
  <2>2. IsFiniteSet(Receiving') /\ Cardinality(Receiving') = Cardinality(Receiving) - 1
    BY <1>2, <2>1, OneLess
  <2>3. UNCHANGED toEnclave
    BY <1>6 DEF ProxyReceive, ProxyReceiveFails
  <2>4. CASE UNCHANGED toProxy
    BY <1>1, <1>2, <2>2, <2>3, <2>4, Counts, Changes DEF FinitelyMany
  <2>5. ASSUME NEW m, toProxy' = toProxy \ {m}
        PROVE  FinitelyMany' /\ Surplus' >= Surplus
    <3>1. /\ IsFiniteSet(toProxy') /\ Cardinality(toProxy') \in Nat
          /\ Cardinality(toProxy') >= Cardinality(toProxy) - 1
      BY <1>2, <2>5, AnyLess
    <3>2. FinitelyMany'
      BY <1>2, <2>2, <2>3, <3>1 DEF FinitelyMany
    <3> QED
      BY <1>1, <2>2, <2>3, <3>1, <3>2, Counts, Changes
  <2> QED
    BY <1>6, <2>4, <2>5 DEF ProxyReceive, ProxyReceiveFails
<1> QED
  BY <1>3, <1>4, <1>5, <1>6 DEF HandlerStep

-----------------------------------------------------------------------------
(* Nor does any other step, unless one of the programs ends in it.         *)

\* The steps that only clients, or a program that starts, take part in.
LEMMA NothingCounted ==
  ASSUME FinitelyMany, UNCHANGED <<toEnclave, toProxy, Receiving, InHand>>
  PROVE  FinitelyMany' /\ Surplus' >= Surplus
  BY Counts, Changes DEF FinitelyMany

LEMMA EnclaveCounts ==
  ASSUME IInv, FinitelyMany, EnclaveStep, enclave' # "exited"
  PROVE  FinitelyMany' /\ Surplus' >= Surplus
<1>1. UNCHANGED Receiving
  BY DEF EnclaveStep, EnclaveStarts, EnclaveSetupFails, EnclaveReceive, EnclaveReceiveFails,
         EnclaveAttest, EnclaveUnmarshalFails, EnclaveAttestFails, EnclaveSend,
         EnclaveSendFails, proxyVars, Receiving
<1>2. IsFiniteSet(toEnclave) /\ IsFiniteSet(toProxy) /\ IsFiniteSet(Receiving)
  BY DEF FinitelyMany
<1>3. CASE EnclaveStarts \/ EnclaveAttest
  BY <1>1, <1>3, NothingCounted DEF EnclaveStarts, EnclaveAttest, network, InHand
<1>4. CASE EnclaveReceive
  <2>1. PICK m \in toEnclave : toEnclave' = toEnclave \ {m}
    BY <1>4 DEF EnclaveReceive
  <2>2. IsFiniteSet(toEnclave') /\ Cardinality(toEnclave') = Cardinality(toEnclave) - 1
    BY <1>2, <2>1, OneLess
  <2>3. UNCHANGED toProxy /\ InHand = 0 /\ InHand' = 1
    BY <1>4 DEF EnclaveReceive, InHand
  <2>4. FinitelyMany'
    BY <1>1, <1>2, <2>2, <2>3 DEF FinitelyMany
  <2> QED
    BY <1>1, <2>2, <2>3, <2>4, Counts, Changes
<1>5. CASE EnclaveSend
  <2> DEFINE m == [report |-> attested, whole |-> TRUE]
  <2>1. m \notin toProxy
    BY <1>5, AttestedIsNew DEF EnclaveSend
  <2>2. UNCHANGED toEnclave /\ toProxy' = toProxy \union {m} /\ InHand = 1 /\ InHand' = 0
    BY <1>5 DEF EnclaveSend, InHand
  <2> HIDE DEF m
  <2>3. IsFiniteSet(toProxy') /\ Cardinality(toProxy') = Cardinality(toProxy) + 1
    BY <1>2, <2>1, <2>2, OneMore
  <2>4. FinitelyMany'
    BY <1>1, <1>2, <2>2, <2>3 DEF FinitelyMany
  <2> QED
    BY <1>1, <2>2, <2>3, <2>4, Counts, Changes
<1> QED
  BY <1>3, <1>4, <1>5 DEF EnclaveStep, EnclaveSetupFails, EnclaveReceiveFails,
                          EnclaveUnmarshalFails, EnclaveAttestFails, EnclaveSendFails,
                          EnclaveExits

\* What waits in the socket of a program that ends is gone, and so are the
\* handlers of the Proxy; a last report may be delivered.
LEMMA ExitCounts ==
  ASSUME IInv, FinitelyMany,
         \/ ProxySetupFails \/ ProxyServeEnds \/ ContainerEnds
         \/ EnclaveStep /\ enclave' = "exited"
  PROVE  FinitelyMany'
<1>1. IsFiniteSet(toEnclave) /\ IsFiniteSet(toProxy) /\ IsFiniteSet(Receiving)
  BY DEF FinitelyMany
<1>2. CASE ProxySetupFails \/ ProxyServeEnds \/ ContainerEnds
  <2>1. toProxy' = {} /\ Receiving' = {}
    BY <1>2, ProxyExitCuts
       DEF IInv, ProxySetupFails, ProxyServeEnds, ContainerEnds, Receiving
  <2>2. toEnclave' \in {toEnclave, {}}
    BY <1>2 DEF ProxySetupFails, ProxyServeEnds, ContainerEnds, EnclaveExits
  <2> QED
    BY <1>1, <2>1, <2>2, FS_EmptySet DEF FinitelyMany
<1>3. CASE EnclaveStep /\ enclave' = "exited"
  <2>1. toEnclave' = {} /\ UNCHANGED Receiving
    BY <1>3 DEF EnclaveStep, EnclaveStarts, EnclaveSetupFails, EnclaveReceive,
                EnclaveReceiveFails, EnclaveAttest, EnclaveUnmarshalFails, EnclaveAttestFails,
                EnclaveSend, EnclaveSendFails, EnclaveExits, proxyVars, Receiving
  <2>2. UNCHANGED toProxy \/ \E m : toProxy' = toProxy \union {m}
    BY <1>3 DEF EnclaveStep, EnclaveStarts, EnclaveSetupFails, EnclaveReceive,
                EnclaveReceiveFails, EnclaveAttest, EnclaveUnmarshalFails, EnclaveAttestFails,
                EnclaveSend, EnclaveSendFails, network
  <2>3. IsFiniteSet(toProxy')
    BY <1>1, <2>2, AnyMore
  <2> QED
    BY <1>1, <2>1, <2>3, FS_EmptySet DEF FinitelyMany
<1> QED
  BY <1>2, <1>3

\* A step in which no program ends takes no reply from the handlers that wait.
LEMMA StepCounts ==
  ASSUME IInv, FinitelyMany, [Next]_vars
  PROVE  /\ FinitelyMany'
         /\ enclave' # "exited" /\ proxy' # "exited" => Surplus' >= Surplus
<1>1. ASSUME NEW n \in Nonclave, HandlerStep(n)
      PROVE  FinitelyMany' /\ Surplus' >= Surplus
  BY <1>1, HandlerCounts
<1>2. ASSUME NEW n \in Nonclave, Ask(n)
      PROVE  FinitelyMany' /\ Surplus' >= Surplus
  <2>1. UNCHANGED Receiving
    BY <1>2 DEF IInv, TypeOK, Ask, Receiving
  <2> QED
    BY <1>2, <2>1, NothingCounted DEF Ask, network, enclaveVars, InHand
<1>3. ASSUME NEW n \in Nonclave,
             SetupFails(n) \/ Refused(n) \/ RequestFails(n) \/ GetResponse(n) \/ Verify(n)
      PROVE  FinitelyMany' /\ Surplus' >= Surplus
  BY <1>3, NothingCounted
     DEF SetupFails, Refused, RequestFails, GetResponse, Verify, proxyVars, network,
         enclaveVars, Receiving, InHand
<1>4. CASE ProxyStarts \/ UNCHANGED vars
  BY <1>4, NothingCounted DEF ProxyStarts, vars, network, enclaveVars, Receiving, InHand
<1>5. CASE ProxySetupFails \/ ProxyServeEnds \/ ContainerEnds
  BY <1>5, ExitCounts DEF ProxySetupFails, ProxyServeEnds, ContainerEnds, ProxyExits
<1>6. CASE EnclaveStep
  BY <1>6, EnclaveCounts, ExitCounts
<1> QED
  BY <1>1, <1>2, <1>3, <1>4, <1>5, <1>6 DEF Next

-----------------------------------------------------------------------------
(* The theorems.                                                           *)

\* A program that has exited stays so, within what is modelled.
LEMMA ExitedStays ==
  ASSUME [Next]_vars, enclave = "exited"
  PROVE  enclave' = "exited"
  BY DEF Next, SetupFails, Refused, Ask, RequestFails, GetResponse, Verify, HandlerStep,
         ReadBody, ReadBodyFails, ProxySend, ProxySendFails, ProxyReceive, ProxyReceiveFails,
         ProxyReply, ProxyStarts, ProxySetupFails, ProxyServeEnds, EnclaveStep, EnclaveStarts,
         EnclaveSetupFails, EnclaveReceive, EnclaveReceiveFails, EnclaveAttest,
         EnclaveUnmarshalFails, EnclaveAttestFails, EnclaveSend, EnclaveSendFails,
         EnclaveExits, ContainerEnds, enclaveVars, vars

CInv == FinitelyMany /\ SomeReplyComing

LEMMA CountInit == Init => CInv
<1> SUFFICES ASSUME Init PROVE CInv
  OBVIOUS
<1>1. toEnclave = {} /\ toProxy = {} /\ Receiving = {} /\ InHand = 0
  BY DEF Init, Receiving, InHand
<1>2. FinitelyMany
  BY <1>1, FS_EmptySet DEF FinitelyMany
<1> QED
  BY <1>1, <1>2, Counts, FS_EmptySet DEF CInv, SomeReplyComing

LEMMA CountNext ==
  ASSUME IInv, IInv', CInv, [Next]_vars
  PROVE  CInv'
<1>1. FinitelyMany'
  BY StepCounts DEF CInv
<1>2. ASSUME enclave' # "exited", proxy' # "exited" PROVE SomeReplyComing'
  <2>1. Surplus >= 0
    BY <1>2, ExitedStays DEF CInv, SomeReplyComing
  <2>2. Surplus' >= Surplus
    BY <1>2, StepCounts DEF CInv
  <2>3. Surplus \in Int
    BY Counts DEF CInv
  <2>4. Surplus' \in Int
    BY <1>1, FS_CardinalityType DEF FinitelyMany, Surplus
  <2> QED
    BY <2>1, <2>2, <2>3, <2>4 DEF SomeReplyComing
<1>3. ASSUME proxy' = "exited" PROVE SomeReplyComing'
  <2>1. Receiving' = {}
    BY <1>3 DEF IInv, TypeOK, Receiving
  <2>2. Cardinality(toEnclave') \in Nat /\ Cardinality(toProxy') \in Nat
    BY <1>1, FS_CardinalityType DEF FinitelyMany
  <2>3. Cardinality(Receiving') = 0
    BY <2>1, FS_EmptySet
  <2> QED
    BY <2>2, <2>3 DEF SomeReplyComing, Surplus
<1> QED
  BY <1>1, <1>2, <1>3 DEF CInv, SomeReplyComing

LEMMA Counted == Spec => [](IInv /\ CInv)
<1>1. IInv /\ IInv' /\ CInv /\ [Next]_vars => CInv'
  BY CountNext
<1> QED
  BY <1>1, CountInit, Invariance, PTL DEF Spec

\* While the Enclave runs, no handler of the Proxy waits in Receive for a reply
\* that nobody sends.
THEOREM RepliesAreComing == Spec => []SomeReplyComing
<1>1. CInv => SomeReplyComing
  BY DEF CInv
<1> QED
  BY <1>1, Counted, PTL

\* As long as both programs run, no step of a client, a handler or the Enclave
\* takes a reply from the handlers that wait: what a handler that gave up has
\* left in the socket stays there for another.
THEOREM RepliesAccumulate == Spec => SurplusKept
<1>1. IInv /\ CInv /\ [Next]_vars
        => [enclave' # "exited" /\ proxy' # "exited" => Surplus' >= Surplus]_vars
  BY StepCounts DEF CInv
<1> QED
  BY <1>1, Counted, PTL DEF Spec, SurplusKept
=============================================================================
