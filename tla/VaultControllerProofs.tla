------------------------ MODULE VaultControllerProofs ------------------------
(***************************************************************************)
(* Proofs about VaultController for every value of the constants that     *)
(* satisfies VaultAssumption.  Neither TypeOK nor IdentityBeforeUse is    *)
(* inductive as it stands: TypeOK needs to know that a waiting call has a  *)
(* real call number, IdentityBeforeUse that past the constructor, on a     *)
(* real manager port, pmid_ is set.                                        *)
(***************************************************************************)
EXTENDS VaultController, TLAPS

USE VaultAssumption DEF VaultAssumption

-----------------------------------------------------------------------------
(* The identity is set before GetIdentity reads it.                        *)

\* The constructor has returned normally.
PastCtor == vpc \notin {"ctorWait", "threw"}

IdInv ==
    /\ IdentityBeforeUse
    /\ cmPort # 0 /\ PastCtor => pmid

LEMMA StepId == IdInv /\ [Next]_vars => IdInv'
<1> SUFFICES ASSUME IdInv, [Next]_vars PROVE IdInv'
  OBVIOUS
<1> USE DEF IdInv, IdentityBeforeUse, PastCtor
<1>1. ASSUME NEW c \in inflight, Deliver(c) PROVE IdInv'
  <2>1. UNCHANGED <<cmPort, pmid, vpc, nullDeref>>
    <3>1. CASE IdentitySlot(c) \/ IdentityError(c)
      BY <3>1 DEF IdentitySlot, IdentityError, caller, history
    <3>2. CASE RequestError(c)
      BY <3>2, Zenon DEF RequestError
    <3>3. CASE JoinAck(c)
      BY <3>3, Zenon DEF JoinAck
    <3>4. CASE BootstrapResponse(c)
      BY <3>4, Zenon DEF BootstrapResponse
    <3>5. CASE EndpointResponse(c)
      BY <3>5, Zenon DEF EndpointResponse
    <3>6. QED
      BY <1>1, <3>1, <3>2, <3>3, <3>4, <3>5 DEF Deliver
  <2>2. QED
    BY <2>1
<1>2. CASE IdentityResponse
  <2>1. pmid => pmid'
    BY <1>2 DEF IdentityResponse
  <2>2. QED
    BY <1>2, <2>1 DEF IdentityResponse, caller
<1>3. CASE IdentityNotify \/ VaultShutdownRequest
  BY <1>3 DEF IdentityNotify, VaultShutdownRequest, caller, history
<1>4. CASE CtorWakeup \/ CtorTimeout \/ JoinReturns \/ RequestWakeup \/ RequestTimeout
  BY <1>4 DEF CtorWakeup, CtorTimeout, JoinReturns, RequestWakeup, RequestTimeout,
       history
<1>5. CASE ConfirmJoin \/ GetBootstrapNodes \/ SendEndpointToClientManager
  <2>1. vpc = "ready" /\ vpc' \in {"ready", "joinWait", "bootWait", "sendWait"}
    BY <1>5 DEF ConfirmJoin, GetBootstrapNodes, SendEndpointToClientManager,
         SendRequest, WaitOf
  <2>2. QED
    BY <1>5, <2>1 DEF ConfirmJoin, GetBootstrapNodes, SendEndpointToClientManager,
         history
<1>6. CASE GetIdentity
  BY <1>6 DEF GetIdentity, caller
<1>7. CASE UNCHANGED vars
  BY <1>7 DEF vars, caller, history
<1>8. QED
  BY <1>1, <1>2, <1>3, <1>4, <1>5, <1>6, <1>7 DEF Next, VaultStep

\* GetIdentity never dereferences an empty pmid_: the constructor returns
\* only once the identity response set it, and the "test" identifier's
\* port 0 makes GetIdentity refuse.
THEOREM IdentityBeforeUseThm == Spec => []IdentityBeforeUse
<1>1. Init => IdInv
  BY DEF Init, IdInv, IdentityBeforeUse, PastCtor
<1>2. IdInv => IdentityBeforeUse
  BY DEF IdInv
<1>3. QED
  BY <1>1, <1>2, StepId, PTL DEF Spec

-----------------------------------------------------------------------------
(* Type correctness.                                                       *)

\* The waits of the blocking calls.
CallWaits == {"joinWait", "bootWait", "sendWait"}

\* TypeOK is not inductive on its own: RequestWakeup adds `call` to
\* succeeded, which is a real call only because a call waits only after
\* SendRequest numbered it.
TInv ==
    /\ TypeOK
    /\ vpc \in CallWaits => call \in Calls

\* The callbacks of Complete and Notify keep the caller's locals Boolean
\* and record at most the connection's kind as a dead-frame touch.
LEMMA CallbackType ==
    ASSUME TypeOK, NEW c \in Conns, c.kind \in ReqKinds,
           Complete(c, FALSE) \/ Complete(c, TRUE) \/ Notify(c)
    PROVE  /\ done' \in BOOLEAN /\ success' \in BOOLEAN
           /\ deadTouch' \subseteq {"identity"} \cup ReqKinds
BY DEF Complete, Notify, TypeOK

\* A connection in flight is one of Conns, so a reply names a real call.
LEMMA ConnCall ==
    ASSUME TypeOK, NEW c \in inflight, c.kind \in ReqKinds
    PROVE  c \in Conns /\ c.call \in Calls
BY DEF TypeOK, Conns, ReqKinds

LEMMA StepType == TInv /\ [Next]_vars => TypeOK'
<1> SUFFICES ASSUME TypeOK, vpc \in CallWaits => call \in Calls, [Next]_vars
             PROVE TypeOK'
  BY DEF TInv
<1>1. ASSUME NEW c \in inflight, IdentitySlot(c) \/ IdentityError(c) PROVE TypeOK'
  BY <1>1 DEF IdentitySlot, IdentityError, TypeOK, caller, history
<1>2. ASSUME NEW c \in inflight, RequestError(c) PROVE TypeOK'
  <2>1. c \in Conns /\ c.kind \in ReqKinds
    BY <1>2, ConnCall DEF RequestError
  <2>2. /\ done' \in BOOLEAN /\ success' \in BOOLEAN
        /\ deadTouch' \subseteq {"identity"} \cup ReqKinds
    BY <1>2, <2>1, CallbackType DEF RequestError
  <2>3. QED
    BY <1>2, <2>2 DEF RequestError, TypeOK
<1>3. ASSUME NEW c \in inflight, JoinAck(c) PROVE TypeOK'
  <2>1. c \in Conns /\ c.kind \in ReqKinds
    BY <1>3, ConnCall DEF JoinAck, ReqKinds
  <2>2. /\ done' \in BOOLEAN /\ success' \in BOOLEAN
        /\ deadTouch' \subseteq {"identity"} \cup ReqKinds
    BY <1>3, <2>1, CallbackType DEF JoinAck, TypeOK
  <2>3. QED
    BY <1>3, <2>2 DEF JoinAck, TypeOK
<1>4. ASSUME NEW c \in inflight, BootstrapResponse(c) PROVE TypeOK'
  <2>1. c \in Conns /\ c.kind \in ReqKinds /\ c.call \in Calls
    BY <1>4, ConnCall DEF BootstrapResponse, ReqKinds
  <2>2. /\ done' \in BOOLEAN /\ success' \in BOOLEAN
        /\ deadTouch' \subseteq {"identity"} \cup ReqKinds
    BY <1>4, <2>1, CallbackType DEF BootstrapResponse
  <2>3. boot' \subseteq Endpoints /\ argvec' \subseteq Endpoints
        /\ granted' \subseteq Calls
    BY <1>4, <2>1 DEF BootstrapResponse, TypeOK
  <2>4. QED
    BY <1>4, <2>2, <2>3 DEF BootstrapResponse, TypeOK
<1>5. ASSUME NEW c \in inflight, EndpointResponse(c) PROVE TypeOK'
  <2>1. c \in Conns /\ c.kind \in ReqKinds /\ c.call \in Calls
    BY <1>5, ConnCall DEF EndpointResponse, ReqKinds
  <2>2. PICK ok \in BOOLEAN :
           /\ Complete(c, ok)
           /\ granted' = IF ok THEN granted \cup {c.call} ELSE granted
    BY <1>5 DEF EndpointResponse
  <2>3. /\ done' \in BOOLEAN /\ success' \in BOOLEAN
        /\ deadTouch' \subseteq {"identity"} \cup ReqKinds
    BY <2>1, <2>2, CallbackType
  <2>4. QED
    BY <1>5, <2>1, <2>2, <2>3 DEF EndpointResponse, TypeOK
<1>6. CASE IdentityResponse \/ IdentityNotify
  BY <1>6 DEF IdentityResponse, IdentityNotify, TypeOK, caller
<1>7. CASE CtorWakeup \/ CtorTimeout \/ JoinReturns \/ RequestTimeout
  BY <1>7 DEF CtorWakeup, CtorTimeout, JoinReturns, RequestTimeout, TypeOK,
       history
<1>8. CASE RequestWakeup
  <2>1. call \in Calls
    BY <1>8 DEF RequestWakeup, CallWaits
  <2>2. QED
    BY <1>8, <2>1 DEF RequestWakeup, TypeOK
<1>9. CASE GetIdentity
  BY <1>9 DEF GetIdentity, TypeOK, caller
<1>10. ASSUME NEW k \in ReqKinds, SendRequest(k) PROVE
         /\ call' \in 0..MaxCalls /\ done' \in BOOLEAN /\ success' \in BOOLEAN
         /\ inflight' \subseteq Conns
         /\ vpc' \in {"ctorWait", "threw", "ready", "joinWait", "bootWait", "sendWait"}
  <2>1. call + 1 \in Calls
    BY <1>10 DEF SendRequest, TypeOK, Calls
  <2>2. WaitOf[k] \in {"joinWait", "bootWait", "sendWait"}
    BY DEF WaitOf, ReqKinds
  <2>3. [kind |-> k, call |-> call + 1] \in Conns
    BY <2>1 DEF Conns
  <2>4. call' \in 0..MaxCalls /\ done' \in BOOLEAN /\ success' \in BOOLEAN
    <3>1. call' = call + 1 /\ done' = FALSE /\ success' = FALSE
      BY <1>10, Zenon DEF SendRequest
    <3>2. call' \in 0..MaxCalls
      BY <2>1, <3>1 DEF Calls, TypeOK
    <3>3. QED
      BY <3>1, <3>2
  <2>5. PICK connected \in ConnectOutcomes :
           IF connected
           THEN /\ inflight' = inflight \cup {[kind |-> k, call |-> call + 1]}
                /\ vpc' = WaitOf[k]
           ELSE UNCHANGED <<inflight, vpc>>
    BY <1>10 DEF SendRequest
  <2>6. CASE connected
    BY <2>2, <2>3, <2>4, <2>5, <2>6 DEF TypeOK
  <2>7. CASE ~connected
    BY <2>4, <2>5, <2>7 DEF TypeOK
  <2>8. QED
    BY <2>6, <2>7
<1>11. CASE ConfirmJoin \/ GetBootstrapNodes \/ SendEndpointToClientManager
  BY <1>11, <1>10 DEF ConfirmJoin, GetBootstrapNodes, SendEndpointToClientManager,
       TypeOK, ReqKinds, history
<1>12. CASE VaultShutdownRequest
  BY <1>12 DEF VaultShutdownRequest, TypeOK, caller, history
<1>13. CASE UNCHANGED vars
  BY <1>13 DEF vars, TypeOK, caller, history
<1>14. QED
  BY <1>1, <1>2, <1>3, <1>4, <1>5, <1>6, <1>7, <1>8, <1>9, <1>11, <1>12, <1>13
  DEF Next, Deliver, VaultStep

\* A call waits only with the number SendRequest gave it; every other step
\* leaves vpc and call alone or returns the caller to "ready".
LEMMA StepWaitCall ==
    TInv /\ [Next]_vars => (vpc \in CallWaits => call \in Calls)'
<1> SUFFICES ASSUME TInv, [Next]_vars PROVE (vpc \in CallWaits => call \in Calls)'
  OBVIOUS
<1>1. CASE UNCHANGED <<vpc, call>>
  BY <1>1 DEF TInv
<1>2. ASSUME NEW k \in ReqKinds, SendRequest(k) PROVE (vpc \in CallWaits => call \in Calls)'
  <2>1. call' = call + 1 /\ call + 1 \in Calls
    BY <1>2 DEF SendRequest, TInv, TypeOK, Calls
  <2>2. QED
    BY <2>1
<1>3. CASE vpc' \notin CallWaits
  BY <1>3
<1>4. CASE ConfirmJoin \/ GetBootstrapNodes \/ SendEndpointToClientManager
  BY <1>4, <1>2 DEF ConfirmJoin, GetBootstrapNodes, SendEndpointToClientManager, ReqKinds
<1>5. ASSUME NEW c \in inflight, Deliver(c) PROVE UNCHANGED <<vpc, call>>
  <2>1. CASE IdentitySlot(c) \/ IdentityError(c)
    BY <2>1 DEF IdentitySlot, IdentityError, caller
  <2>2. CASE RequestError(c)
    BY <2>2, Zenon DEF RequestError
  <2>3. CASE JoinAck(c)
    BY <2>3, Zenon DEF JoinAck
  <2>4. CASE BootstrapResponse(c)
    BY <2>4, Zenon DEF BootstrapResponse
  <2>5. CASE EndpointResponse(c)
    BY <2>5, Zenon DEF EndpointResponse
  <2>6. QED
    BY <1>5, <2>1, <2>2, <2>3, <2>4, <2>5 DEF Deliver
<1>6. QED
  BY <1>1, <1>3, <1>4, <1>5
  DEF Next, VaultStep, IdentityResponse, IdentityNotify, VaultShutdownRequest, caller,
      CtorWakeup, CtorTimeout, JoinReturns, RequestWakeup, RequestTimeout, GetIdentity,
      CallWaits, vars

\* Every variable keeps the type its C++ member or local has, for every
\* value of the constants VaultAssumption allows.
THEOREM TypeCorrect == Spec => []TypeOK
<1>1. Init => TInv
  <2> SUFFICES ASSUME Init PROVE TInv
    OBVIOUS
  <2>1. inflight \subseteq Conns
    BY DEF Init, Conns
  <2>2. stopCalls \in Seq(ShutdownPayloads)
    BY DEF Init
  <2>3. call \in 0..MaxCalls /\ granted \subseteq Calls /\ succeeded \subseteq Calls
    BY DEF Init
  <2>4. vpc \in {"ctorWait", "threw", "ready"} /\ cmPort \in {0, ManagerPort}
    BY DEF Init
  <2>5. QED
    BY <2>1, <2>2, <2>3, <2>4 DEF Init, TInv, TypeOK, CallWaits
<1>2. TInv /\ [Next]_vars => TInv'
  BY StepType, StepWaitCall DEF TInv
<1>3. QED
  BY <1>1, <1>2, PTL DEF Spec, TInv

=============================================================================
