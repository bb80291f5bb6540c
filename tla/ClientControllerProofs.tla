----------------------- MODULE ClientControllerProofs -----------------------
(***************************************************************************)
(* Proofs about ClientController for every value of the constants that    *)
(* satisfies PortAssumption.  The handshake's safety properties are not   *)
(* inductive by themselves: FailedOnlyAfterExhaustion needs to know that  *)
(* the probed ports are exactly kMinPort..port_ while initialising, and   *)
(* that only one probe, to the cursor, is ever in flight (otherwise a     *)
(* second probe's error would advance the cursor twice).  IInv states     *)
(* those facts and is proved inductive.                                   *)
(***************************************************************************)
EXTENDS ClientController, TLAPS

\* The port space is only used through this fact; its literal value is
\* never expanded in the proofs.
LEMMA PortSpaceFact == PortSpace \in Nat /\ PortSpace > 2
BY DEF PortSpace

USE PortAssumption, PortSpaceFact DEF PortAssumption

-----------------------------------------------------------------------------
(* Type correctness.                                                       *)

\* A probe to a uint16_t port is a connection.
LEMMA HelloInConns ==
    ASSUME NEW p \in Ports PROVE Hello(p) \in Conns
BY DEF Hello, Conns

LEMMA InitTypeOK == Init => TypeOK
<1> SUFFICES ASSUME Init PROVE TypeOK
  OBVIOUS
<1>1. MinPort \in Ports
  BY DEF Ports
<1>2. inflight \subseteq Conns /\ probed \subseteq Ports
  BY <1>1, HelloInConns DEF Init
<1>3. state_ \in States /\ port_ \in Ports
  BY <1>1 DEF Init, States
<1>4. cpc \in {"idle", "waitInit", "request", "waitReply"} /\ call \in 0..MaxCalls
  BY DEF Init
<1>5. done \in BOOLEAN /\ result \in BOOLEAN
  BY DEF Init
<1>6. granted \subseteq Calls /\ succeeded \subseteq Calls /\ deadWrites \subseteq Calls
  BY DEF Init
<1>7. QED
  BY <1>2, <1>3, <1>4, <1>5, <1>6 DEF Init, TypeOK

\* The cursor update of ConnectToManager stays a uint16_t value and a new
\* probe is a connection.
LEMMA ConnectTypeOK ==
    ASSUME TypeOK, NEW pending, pending \subseteq Conns,
           ConnectToManager(pending)
    PROVE  /\ state_' \in States
           /\ port_' \in Ports
           /\ inflight' \subseteq Conns
           /\ probed' \subseteq Ports
<1>1. CASE state_ # "Initialising"
  BY <1>1 DEF ConnectToManager, TypeOK
<1>2. CASE state_ = "Initialising"
  <2> DEFINE p == IF port_ = 0 THEN MinPort ELSE (port_ + 1) % PortSpace
  <2>1. p \in Ports
    BY DEF TypeOK, Ports
  <2>2. port_' = p
    BY <1>2 DEF ConnectToManager
  <2>3. CASE p > MaxPort
    BY <1>2, <2>1, <2>2, <2>3 DEF ConnectToManager, TypeOK, States
  <2>4. CASE ~(p > MaxPort)
    <3>1. Hello(p) \in Conns
      BY <2>1, HelloInConns
    <3>2. /\ inflight' = pending \cup {Hello(p)}
          /\ probed' = probed \cup {p}
          /\ state_' = state_
      BY <1>2, <2>4 DEF ConnectToManager
    <3>3. QED
      BY <1>2, <2>1, <2>2, <3>1, <3>2 DEF TypeOK, States
  <2>5. QED
    BY <2>3, <2>4
<1>3. QED
  BY <1>1, <1>2

LEMMA CallbackTypeOK ==
    ASSUME TypeOK, NEW c \in Conns, NEW val \in BOOLEAN, CallbackOf(c, val)
    PROVE  /\ done' \in BOOLEAN
           /\ result' \in BOOLEAN
           /\ deadWrites' \subseteq Calls
<1>1. CASE c.kind = "start"
  <2>1. c.call \in Calls
    BY <1>1 DEF Conns, Calls
  <2>2. QED
    BY <1>1, <2>1 DEF CallbackOf, RunCallback, TypeOK
<1>2. CASE c.kind # "start"
  BY <1>2 DEF CallbackOf, TypeOK
<1>3. QED
  BY <1>1, <1>2

LEMMA StepTypeOK == TypeOK /\ [Next]_vars => TypeOK'
<1> SUFFICES ASSUME TypeOK, [Next]_vars PROVE TypeOK'
  OBVIOUS
<1>1. ASSUME NEW c \in inflight, OnSendError(c) PROVE TypeOK'
  <2>1. c \in Conns /\ inflight \ {c} \subseteq Conns
    BY DEF TypeOK
  <2>2. /\ state_' \in States /\ port_' \in Ports
        /\ inflight' \subseteq Conns /\ probed' \subseteq Ports
    BY <1>1, <2>1, ConnectTypeOK DEF OnSendError
  <2>3. done' \in BOOLEAN /\ result' \in BOOLEAN /\ deadWrites' \subseteq Calls
    BY <1>1, <2>1, CallbackTypeOK DEF OnSendError
  <2>4. QED
    BY <1>1, <2>2, <2>3 DEF OnSendError, TypeOK
<1>2. ASSUME NEW c \in inflight, HelloResponse(c) PROVE TypeOK'
  BY <1>2 DEF HelloResponse, TypeOK, Conns, Ports, States, caller, history
<1>3. ASSUME NEW c \in inflight, InvalidHelloResponse(c) PROVE TypeOK'
  <2>1. inflight \ {c} \subseteq Conns
    BY DEF TypeOK
  <2>2. QED
    BY <1>3, <2>1, ConnectTypeOK DEF InvalidHelloResponse, TypeOK, caller
<1>4. ASSUME NEW c \in inflight, UnexpectedMessage(c) PROVE TypeOK'
  BY <1>4 DEF UnexpectedMessage, TypeOK, caller, history
<1>5. ASSUME NEW c \in inflight, StartResponse(c) PROVE TypeOK'
  <2>1. PICK ok \in BOOLEAN :
           /\ CallbackOf(c, ok)
           /\ granted' = IF ok THEN granted \cup {c.call} ELSE granted
    BY <1>5 DEF StartResponse
  <2>2. c \in Conns /\ c.kind = "start"
    BY <1>5 DEF TypeOK, StartResponse
  <2>3. c.call \in Calls
    BY <2>2 DEF Conns, Calls
  <2>4. done' \in BOOLEAN /\ result' \in BOOLEAN /\ deadWrites' \subseteq Calls
    BY <2>1, <2>2, CallbackTypeOK
  <2>5. QED
    BY <1>5, <2>1, <2>3, <2>4 DEF StartResponse, TypeOK
<1>6. CASE CallStartVault
  BY <1>6 DEF CallStartVault, TypeOK, ctl, history, Calls
<1>7. CASE InitVerified \/ InitFailed \/ InitTimeout \/ ReplyTimeout
  BY <1>7 DEF InitVerified, InitFailed, InitTimeout, ReplyTimeout, TypeOK, ctl, history
<1>8. CASE SendStartRequest
  <2>1. StartReq(port_, call) \in Conns
    BY <1>8 DEF SendStartRequest, TypeOK, StartReq, Conns
  <2>2. QED
    BY <1>8, <2>1 DEF SendStartRequest, TypeOK, history
<1>9. CASE ReplyWakeup
  BY <1>9 DEF ReplyWakeup, TypeOK, ctl
<1>10. CASE UNCHANGED vars
  BY <1>10 DEF vars, TypeOK
<1>11. QED
  BY <1>1, <1>2, <1>3, <1>4, <1>5, <1>6, <1>7, <1>8, <1>9, <1>10
  DEF Next, Deliver, CallerStep

\* The model's variables always have their types (ports are uint16_t values,
\* every connection is a hello or a start request of a call made so far).
THEOREM TypeCorrect == Spec => []TypeOK
BY InitTypeOK, StepTypeOK, PTL DEF Spec

-----------------------------------------------------------------------------
(* The inductive invariant.                                                *)

LEMMA InitIInv == Init => IInv
<1> SUFFICES ASSUME Init PROVE IInv
  OBVIOUS
<1>1. TypeOK
  BY InitTypeOK
<1>2. ProbeAtCursor /\ StartAfterVerified
  BY DEF Init, ProbeAtCursor, StartAfterVerified, Hello
<1>3. CursorInRange
  BY DEF Init, CursorInRange
<1>4. VerifiedPortIsManager /\ StartRequestsReachManager /\ FailedOnlyAfterExhaustion
  BY DEF Init, VerifiedPortIsManager, StartRequestsReachManager,
         FailedOnlyAfterExhaustion, Hello
<1>5. QED
  BY <1>1, <1>2, <1>3, <1>4 DEF IInv

\* When the probe c fires, it is the only connection in flight.
LEMMA ProbeIsAlone ==
    ASSUME IInv, NEW c \in inflight, c.kind = "hello"
    PROVE  /\ c = Hello(port_)
           /\ state_ = "Initialising"
           /\ inflight \ {c} = {}
<1>1. c = Hello(port_) /\ state_ = "Initialising"
  BY DEF IInv, ProbeAtCursor
<1>2. ASSUME NEW d \in inflight, d # c PROVE FALSE
  <2>1. d \in Conns
    BY DEF IInv, TypeOK
  <2>2. d.kind = "hello" \/ d.kind = "start"
    BY <2>1 DEF Conns
  <2>3. CASE d.kind = "hello"
    BY <1>1, <1>2, <2>3 DEF IInv, ProbeAtCursor
  <2>4. CASE d.kind = "start"
    BY <1>1, <2>4 DEF IInv, StartAfterVerified
  <2>5. QED
    BY <2>2, <2>3, <2>4
<1>3. QED
  BY <1>1, <1>2

\* ConnectToManager, called by the handler of connection c, keeps the
\* invariant's parts about the controller.
LEMMA ConnectIInv ==
    ASSUME IInv, NEW c \in inflight,
           c.kind = "hello" \/ state_ # "Initialising",
           ConnectToManager(inflight \ {c}),
           cpc' = cpc
    PROVE  /\ ProbeAtCursor'
           /\ StartAfterVerified'
           /\ CursorInRange'
           /\ VerifiedPortIsManager'
           /\ StartRequestsReachManager'
           /\ FailedOnlyAfterExhaustion'
<1>1. CASE state_ # "Initialising"
  <2>1. /\ inflight' \subseteq inflight
        /\ UNCHANGED <<state_, port_, probed>>
    BY <1>1 DEF ConnectToManager
  <2>2. QED
    BY <1>1, <2>1 DEF IInv, ProbeAtCursor, StartAfterVerified, CursorInRange,
                      VerifiedPortIsManager, StartRequestsReachManager,
                      FailedOnlyAfterExhaustion
<1>2. CASE state_ = "Initialising"
  <2>1. c.kind = "hello"
    BY <1>2
  <2>2. inflight \ {c} = {}
    BY <2>1, ProbeIsAlone
  <2>3. port_ \in MinPort..MaxPort /\ probed = MinPort..port_
    BY <1>2 DEF IInv, CursorInRange
  <2>4. port_ # 0 /\ (port_ + 1) % PortSpace = port_ + 1
    BY <2>3
  <2>5. port_' = port_ + 1
    BY <1>2, <2>4 DEF ConnectToManager
  <2>6. cpc # "request"
    BY <1>2 DEF IInv, StartAfterVerified
  <2>7. CASE port_ + 1 > MaxPort
    <3>1. /\ state_' = "Failed"
          /\ inflight' = {}
          /\ probed' = probed
      BY <1>2, <2>2, <2>4, <2>7 DEF ConnectToManager
    <3>2. port_ = MaxPort
      BY <2>3, <2>7
    <3>3. QED
      BY <2>3, <2>6, <3>1, <3>2 DEF ProbeAtCursor, StartAfterVerified, CursorInRange,
           VerifiedPortIsManager, StartRequestsReachManager, FailedOnlyAfterExhaustion
  <2>8. CASE ~(port_ + 1 > MaxPort)
    <3>1. /\ state_' = "Initialising"
          /\ inflight' = {Hello(port_ + 1)}
          /\ probed' = probed \cup {port_ + 1}
      BY <1>2, <2>2, <2>4, <2>8 DEF ConnectToManager
    <3>2. port_ + 1 \in MinPort..MaxPort
      BY <2>3, <2>8
    <3>3. MinPort..(port_ + 1) = (MinPort..port_) \cup {port_ + 1}
      BY <2>3
    <3>4. Hello(port_ + 1).kind = "hello"
      BY DEF Hello
    <3>5. QED
      BY <2>3, <2>5, <2>6, <3>1, <3>2, <3>3, <3>4
      DEF ProbeAtCursor, StartAfterVerified, CursorInRange,
          VerifiedPortIsManager, StartRequestsReachManager, FailedOnlyAfterExhaustion
  <2>9. QED
    BY <2>7, <2>8
<1>3. QED
  BY <1>1, <1>2

\* A handler's connection is either the probe or a start request made
\* after verification.
LEMMA HandlerGuard ==
    ASSUME IInv, NEW c \in inflight
    PROVE  c.kind = "hello" \/ state_ # "Initialising"
<1>1. c \in Conns
  BY DEF IInv, TypeOK
<1>2. c.kind = "hello" \/ c.kind = "start"
  BY <1>1 DEF Conns
<1>3. QED
  BY <1>2 DEF IInv, StartAfterVerified

LEMMA StepIInv == IInv /\ [Next]_vars => IInv'
<1> SUFFICES ASSUME IInv, [Next]_vars PROVE IInv'
  OBVIOUS
<1>0. TypeOK'
  BY StepTypeOK DEF IInv
<1> DEFINE Parts == /\ ProbeAtCursor /\ StartAfterVerified /\ CursorInRange
                    /\ VerifiedPortIsManager /\ StartRequestsReachManager
                    /\ FailedOnlyAfterExhaustion
<1> SUFFICES Parts'
  BY <1>0 DEF IInv
<1>1. ASSUME NEW c \in inflight, OnSendError(c) PROVE Parts'
  BY <1>1, HandlerGuard, ConnectIInv DEF OnSendError
<1>2. ASSUME NEW c \in inflight, HelloResponse(c) PROVE Parts'
  <2>1. inflight \ {c} = {} /\ state_ = "Initialising"
    BY <1>2, ProbeIsAlone DEF HelloResponse
  <2>2. cpc # "request"
    BY <2>1 DEF IInv, StartAfterVerified
  <2>3. QED
    BY <1>2, <2>1, <2>2 DEF HelloResponse, caller, history, ProbeAtCursor,
         StartAfterVerified, CursorInRange, VerifiedPortIsManager,
         StartRequestsReachManager, FailedOnlyAfterExhaustion
<1>3. ASSUME NEW c \in inflight, InvalidHelloResponse(c) PROVE Parts'
  BY <1>3, ConnectIInv DEF InvalidHelloResponse, caller
<1>4. ASSUME NEW c \in inflight, UnexpectedMessage(c) PROVE Parts'
  BY <1>4 DEF UnexpectedMessage, caller, history, IInv, ProbeAtCursor,
       StartAfterVerified, CursorInRange, VerifiedPortIsManager,
       StartRequestsReachManager, FailedOnlyAfterExhaustion
<1>5. ASSUME NEW c \in inflight, StartResponse(c) PROVE Parts'
  BY <1>5 DEF StartResponse, IInv, ProbeAtCursor,
       StartAfterVerified, CursorInRange, VerifiedPortIsManager,
       StartRequestsReachManager, FailedOnlyAfterExhaustion
<1>6. CASE CallStartVault
  BY <1>6 DEF CallStartVault, ctl, history, IInv, ProbeAtCursor,
       StartAfterVerified, CursorInRange, VerifiedPortIsManager,
       StartRequestsReachManager, FailedOnlyAfterExhaustion
<1>7. CASE InitVerified \/ InitFailed \/ InitTimeout
  BY <1>7 DEF InitVerified, InitFailed, InitTimeout, ctl, history, IInv,
       ProbeAtCursor, StartAfterVerified, CursorInRange, VerifiedPortIsManager,
       StartRequestsReachManager, FailedOnlyAfterExhaustion
<1>8. CASE SendStartRequest
  <2>1. state_ = "Verified" /\ port_ \in ManagerPorts
    BY <1>8 DEF SendStartRequest, IInv, StartAfterVerified, VerifiedPortIsManager
  <2>2. QED
    BY <1>8, <2>1 DEF SendStartRequest, StartReq, history, IInv, ProbeAtCursor,
         StartAfterVerified, CursorInRange, VerifiedPortIsManager,
         StartRequestsReachManager, FailedOnlyAfterExhaustion
<1>9. CASE ReplyWakeup \/ ReplyTimeout
  BY <1>9 DEF ReplyWakeup, ReplyTimeout, ctl, history, IInv,
       ProbeAtCursor, StartAfterVerified, CursorInRange, VerifiedPortIsManager,
       StartRequestsReachManager, FailedOnlyAfterExhaustion
<1>10. CASE UNCHANGED vars
  BY <1>10 DEF vars, IInv, ProbeAtCursor, StartAfterVerified, CursorInRange,
       VerifiedPortIsManager, StartRequestsReachManager, FailedOnlyAfterExhaustion
<1>11. QED
  BY <1>1, <1>2, <1>3, <1>4, <1>5, <1>6, <1>7, <1>8, <1>9, <1>10
  DEF Next, Deliver, CallerStep

\* The connections the handshake and StartVault open are always aimed as
\* the code intends, for every port range and every set of listeners:
\* ConnectToManager never outlives the handshake, and the caller only sends
\* after the Verified wake-up, to a port that answered a hello.
THEOREM Safety == Spec => []IInv
BY InitIInv, StepIInv, PTL DEF Spec

\* StartVault's start request only ever goes to a port where the manager
\* answered a hello response (client_controller.cc, StartVault reading
\* port_ after its state check).
THEOREM StartRequestsReachManagerThm == Spec => []StartRequestsReachManager
<1>1. IInv => StartRequestsReachManager
  BY DEF IInv
<1>2. QED
  BY Safety, <1>1, PTL

\* ConnectToManager reports kFailed only after every port of
\* kMinPort..kMaxPort has been probed.
THEOREM FailedOnlyAfterExhaustionThm == Spec => []FailedOnlyAfterExhaustion
<1>1. IInv => FailedOnlyAfterExhaustion
  BY DEF IInv
<1>2. QED
  BY Safety, <1>1, PTL

\* Once the handshake has ended, no handler changes the controller's state
\* or port: a late OnSendError or hello cannot re-open probing.
THEOREM HandshakeSettlesThm == Spec => HandshakeSettles
<1>1. IInv /\ [Next]_vars => [state_ # "Initialising" => UNCHANGED <<state_, port_>>]_vars
  <2> SUFFICES ASSUME IInv, [Next]_vars, state_ # "Initialising"
               PROVE  UNCHANGED <<state_, port_>>
    BY DEF vars
  <2>1. ASSUME NEW c \in inflight, Deliver(c) PROVE UNCHANGED <<state_, port_>>
    <3>1. c.kind # "hello"
      BY DEF IInv, ProbeAtCursor
    <3>2. QED
      BY <2>1, <3>1 DEF Deliver, OnSendError, HelloResponse, InvalidHelloResponse,
           UnexpectedMessage, StartResponse, ConnectToManager
  <2>2. QED
    BY <2>1 DEF Next, CallStartVault, CallerStep, InitVerified, InitFailed,
         InitTimeout, SendStartRequest, ReplyWakeup, ReplyTimeout, ctl, vars
<1>2. QED
  BY Safety, <1>1, PTL DEF HandshakeSettles, Spec

-----------------------------------------------------------------------------
(* Refinement of the abstract discovery service.                           *)

LEMMA InitRefines == Init => Discovery!Init
BY DEF Init, Discovery!Init, AbsStatus, AbsManager

\* A step that leaves the controller's state, port and probes alone is a
\* stutter of the discovery service.
LEMMA QuietStutters ==
    ASSUME UNCHANGED <<state_, port_, probed>>
    PROVE  UNCHANGED Discovery!vars
BY DEF Discovery!vars, AbsStatus, AbsManager

\* ConnectToManager, run by the handler of connection c, asks the next
\* port, gives up after the last one, or (after the handshake) does nothing.
LEMMA ConnectRefines ==
    ASSUME IInv, NEW c \in inflight,
           c.kind = "hello" \/ state_ # "Initialising",
           ConnectToManager(inflight \ {c})
    PROVE  [Discovery!Next]_Discovery!vars
<1>1. CASE state_ # "Initialising"
  <2>1. UNCHANGED <<state_, port_, probed>>
    BY <1>1 DEF ConnectToManager
  <2>2. QED
    BY <2>1, QuietStutters
<1>2. CASE state_ = "Initialising"
  <2>1. port_ \in MinPort..MaxPort /\ probed = MinPort..port_
    BY <1>2 DEF IInv, CursorInRange
  <2>2. port_ # 0 /\ (port_ + 1) % PortSpace = port_ + 1
    BY <2>1
  <2>3. port_' = port_ + 1
    BY <1>2, <2>2 DEF ConnectToManager
  <2>4. CASE port_ + 1 > MaxPort
    <3>1. state_' = "Failed" /\ probed' = probed
      BY <1>2, <2>2, <2>4 DEF ConnectToManager
    <3>2. Discovery!Range \subseteq probed
      BY <2>1, <2>4 DEF Discovery!Range
    <3>3. Discovery!GiveUp
      BY <1>2, <2>3, <3>1, <3>2 DEF Discovery!GiveUp, AbsStatus, AbsManager
    <3>4. QED
      BY <3>3 DEF Discovery!Next
  <2>5. CASE ~(port_ + 1 > MaxPort)
    <3>1. state_' = "Initialising" /\ probed' = probed \cup {port_ + 1}
      BY <1>2, <2>2, <2>5 DEF ConnectToManager
    <3>2. port_ + 1 \in Discovery!Range \ probed
      BY <2>1, <2>5 DEF Discovery!Range
    <3>3. Discovery!Ask(port_ + 1)
      BY <1>2, <2>3, <3>1, <3>2 DEF Discovery!Ask, AbsStatus, AbsManager
    <3>4. QED
      BY <3>2, <3>3 DEF Discovery!Next
  <2>6. QED
    BY <2>4, <2>5
<1>3. QED
  BY <1>1, <1>2

LEMMA StepRefines == IInv /\ [Next]_vars => [Discovery!Next]_Discovery!vars
<1> SUFFICES ASSUME IInv, [Next]_vars PROVE [Discovery!Next]_Discovery!vars
  OBVIOUS
<1>1. ASSUME NEW c \in inflight, OnSendError(c) PROVE [Discovery!Next]_Discovery!vars
  BY <1>1, HandlerGuard, ConnectRefines DEF OnSendError
<1>2. ASSUME NEW c \in inflight, HelloResponse(c) PROVE [Discovery!Next]_Discovery!vars
  <2>1. c = Hello(port_) /\ state_ = "Initialising"
    BY <1>2, ProbeIsAlone DEF HelloResponse
  <2>2. port_ \in MinPort..MaxPort /\ port_ \in probed
    BY <2>1 DEF IInv, CursorInRange
  <2>3. port_ \in ManagerPorts /\ port_' = port_
    BY <1>2, <2>1 DEF HelloResponse, Hello
  <2>4. Discovery!Find(port_)
    BY <1>2, <2>1, <2>2, <2>3 DEF HelloResponse, history, Discovery!Find,
         AbsStatus, AbsManager
  <2>5. QED
    BY <2>2, <2>4 DEF Discovery!Next, Discovery!Range
<1>3. ASSUME NEW c \in inflight, InvalidHelloResponse(c) PROVE [Discovery!Next]_Discovery!vars
  BY <1>3, ConnectRefines DEF InvalidHelloResponse
<1>4. ASSUME NEW c \in inflight, UnexpectedMessage(c) \/ StartResponse(c)
      PROVE [Discovery!Next]_Discovery!vars
  BY <1>4, QuietStutters DEF UnexpectedMessage, StartResponse, history
<1>5. CASE CallStartVault \/ CallerStep
  BY <1>5, QuietStutters DEF CallStartVault, CallerStep, InitVerified, InitFailed,
       InitTimeout, SendStartRequest, ReplyWakeup, ReplyTimeout, ctl, history
<1>6. CASE UNCHANGED vars
  BY <1>6, QuietStutters DEF vars
<1>7. QED
  BY <1>1, <1>2, <1>3, <1>4, <1>5, <1>6 DEF Next, Deliver

\* The client's handshake (ConnectToManager and the hello handlers)
\* implements the discovery service of ManagerDiscovery under the mapping
\* of state_, the verified port_ and the probed ports.
THEOREM DiscoveryRefinedThm == Spec => DiscoveryRefined
<1>1. QED
  BY Safety, InitRefines, StepRefines, PTL DEF Spec, DiscoveryRefined, Discovery!Spec

=============
