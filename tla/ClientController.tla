-------------------------- MODULE ClientController --------------------------
(***************************************************************************)
(* The client side of the control plane: maidsafe::priv::ClientController  *)
(* (src/src/maidsafe/private/client_controller.cc).                        *)
(*                                                                         *)
(* The controller discovers the manager by probing the loopback ports      *)
(* MinPort..MaxPort one at a time with a "hello" message, each over a      *)
(* fresh transport; a StartVault caller thread blocks on the handshake     *)
(* (3 s) and then on the manager's start response (10 s).  Transport       *)
(* callbacks run on the asio threads and are interleaved with the caller.  *)
(*                                                                         *)
(* A connection is a record in `inflight` until the transport fires its    *)
(* single event for it: a reply or an error (connect refused or the send   *)
(* timeout).  Payloads are abstracted to what the handlers tell apart.     *)
(***************************************************************************)
EXTENDS Naturals

CONSTANTS
    MinPort,       \* VaultManager::kMinPort
    MaxPort,       \* VaultManager::kMaxPort
    ManagerPorts,  \* loopback ports where a manager answers hello
    ForeignPorts,  \* loopback ports where some other process answers
    MaxCalls       \* bound on the number of StartVault calls of the caller

\* port_ and the probe cursor are uint16_t: arithmetic is modulo 2^16.
PortSpace == 65536

ASSUME PortAssumption ==
    /\ MaxPort \in 1..(PortSpace - 2)
    /\ MinPort \in 1..MaxPort
    /\ ManagerPorts \subseteq 1..(PortSpace - 1)
    /\ ForeignPorts \subseteq 1..(PortSpace - 1)
    /\ ManagerPorts \cap ForeignPorts = {}
    /\ MaxCalls \in Nat

VARIABLES
    state_,      \* kInitialising / kVerified / kFailed
    port_,       \* probe cursor, then the verified manager port
    inflight,    \* connections whose transport has not fired yet
    cpc,         \* where the StartVault caller thread is
    call,        \* number of the caller's current (or last) StartVault call
    done,        \* StartVault's local `done`
    result,      \* StartVault's local `local_result`
    probed,      \* history: ports a hello was sent to
    granted,     \* history: calls whose start response said `result`
    succeeded,   \* history: calls for which StartVault returned true
    deadWrites   \* history: calls whose callback ran after StartVault returned

ctl == <<state_, port_, inflight>>
caller == <<cpc, call, done, result>>
history == <<probed, granted, succeeded, deadWrites>>
vars == <<state_, port_, inflight, cpc, call, done, result,
          probed, granted, succeeded, deadWrites>>

States == {"Initialising", "Verified", "Failed"}
Ports == {n \in Nat : n < PortSpace}
Calls == 1..MaxCalls

\* The request carried by one fresh TcpTransport: a hello probe (no
\* callback) or a start request made by StartVault call k.
Hello(p) == [kind |-> "hello", port |-> p, call |-> 0]
StartReq(p, k) == [kind |-> "start", port |-> p, call |-> k]
Conns == [kind : {"hello"}, port : Ports, call : {0}]
            \cup [kind : {"start"}, port : Ports, call : Calls]

-----------------------------------------------------------------------------
(* The controller (asio threads).                                          *)

\* Variants of the handlers below, each with a plausible slip, kept for
\* checking that the properties notice them.
\* ConnectToManager without its "still initialising" guard.
ConnectToManagerUnguarded(pending) ==
    LET p == IF port_ = 0 THEN MinPort ELSE (port_ + 1) % PortSpace
    IN  /\ port_' = p
        /\ IF p > MaxPort
           THEN /\ state_' = "Failed" /\ inflight' = pending /\ UNCHANGED probed
           ELSE /\ inflight' = pending \cup {Hello(p)}
                /\ probed' = probed \cup {p}
                /\ UNCHANGED state_

\* ConnectToManager giving up on reaching kMaxPort instead of passing it.
ConnectToManagerEarlyFail(pending) ==
    IF state_ # "Initialising"
    THEN /\ inflight' = pending
         /\ UNCHANGED <<state_, port_, probed>>
    ELSE LET p == IF port_ = 0 THEN MinPort ELSE (port_ + 1) % PortSpace
         IN  /\ port_' = p
             /\ IF p >= MaxPort
                THEN /\ state_' = "Failed" /\ inflight' = pending /\ UNCHANGED probed
                ELSE /\ inflight' = pending \cup {Hello(p)}
                     /\ probed' = probed \cup {p}
                     /\ UNCHANGED state_

\* ConnectToManager(): under mutex_, give up unless still initialising,
\* advance the cursor (kMinPort on the first probe), fail past kMaxPort,
\* otherwise send a hello to the cursor on a fresh transport.  `pending`
\* is the set of connections left once the calling handler's own
\* connection has fired.
ConnectToManager(pending) ==
    IF state_ # "Initialising"
    THEN /\ inflight' = pending
         /\ UNCHANGED <<state_, port_, probed>>
    ELSE LET p == IF port_ = 0 THEN MinPort ELSE (port_ + 1) % PortSpace
         IN  /\ port_' = p
             /\ IF p > MaxPort
                THEN /\ state_' = "Failed"
                     /\ inflight' = pending
                     /\ UNCHANGED probed
                ELSE /\ inflight' = pending \cup {Hello(p)}
                     /\ probed' = probed \cup {p}
                     /\ UNCHANGED state_

\* The lambda StartVault hands to StartVaultRequest writes the caller's
\* stack locals `local_result` and `done` through references.  While the
\* call that created it waits, they are its own.  Once that call has
\* returned, the references dangle (recorded in deadWrites): the write
\* lands in dead stack memory, or -- when the caller thread is back in
\* StartVault, waiting on a later call whose locals occupy the same slots
\* -- in that call's `done` and `local_result`.  (A write landing before
\* the later call's locals are initialised is overwritten by that
\* initialisation and has no effect.)
RunCallback(k, val) ==
    IF cpc = "waitReply" /\ call = k
    THEN /\ done' = TRUE
         /\ result' = val
         /\ UNCHANGED deadWrites
    ELSE /\ deadWrites' = deadWrites \cup {k}
         /\ \/ UNCHANGED <<done, result>>
            \/ /\ cpc = "waitReply"
               /\ done' = TRUE
               /\ result' = val

\* Callback of connection c, if it has one (hello probes pass nullptr).
CallbackOf(c, val) ==
    IF c.kind = "start"
    THEN RunCallback(c.call, val)
    ELSE UNCHANGED <<done, result, deadWrites>>

\* The constructor: the asio service is started and ConnectToManager runs
\* with port_ = 0, so the first probe goes to kMinPort (<= kMaxPort).
Init ==
    /\ state_ = "Initialising"
    /\ port_ = MinPort
    /\ inflight = {Hello(MinPort)}
    /\ probed = {MinPort}
    /\ cpc = "idle"
    /\ call = 0
    /\ done = FALSE
    /\ result = FALSE
    /\ granted = {}
    /\ succeeded = {}
    /\ deadWrites = {}

\* An error handler that drops the connection without probing on.
OnSendErrorNoRetry(c) ==
    /\ c \in inflight
    /\ inflight' = inflight \ {c}
    /\ CallbackOf(c, FALSE)
    /\ UNCHANGED <<state_, port_, probed, cpc, call, granted, succeeded>>

\* OnSendError: the transport reports a connect or send/receive failure
\* (nothing listening, or the send timeout expired).  Probing goes on with
\* the next port, and a start request's callback gets false.
OnSendError(c) ==
    /\ c \in inflight
    /\ ConnectToManager(inflight \ {c})
    /\ CallbackOf(c, FALSE)
    /\ UNCHANGED <<cpc, call, granted, succeeded>>

\* A hello handler that takes any reply as the manager's, without parsing.
HelloResponseUnparsed(c) ==
    /\ c \in inflight
    /\ c.kind = "hello"
    /\ c.port \in ManagerPorts \cup ForeignPorts
    /\ inflight' = inflight \ {c}
    /\ port_' = c.port
    /\ state_' = "Verified"
    /\ UNCHANGED <<caller, history>>

\* HandleIncomingMessage(kHelloResponseToClient) with a valid payload:
\* ConnectToManagerCallback records the sender's port and verifies.
HelloResponse(c) ==
    /\ c \in inflight
    /\ c.kind = "hello"
    /\ c.port \in ManagerPorts
    /\ inflight' = inflight \ {c}
    /\ port_' = c.port
    /\ state_' = "Verified"
    /\ UNCHANGED <<caller, history>>

\* ConnectToManagerCallback with a payload that does not parse as
\* "hello response": try again with the next port.
InvalidHelloResponse(c) ==
    /\ c \in inflight
    /\ c.kind = "hello"
    /\ c.port \in ForeignPorts
    /\ ConnectToManager(inflight \ {c})
    /\ UNCHANGED <<caller, granted, succeeded, deadWrites>>

\* HandleIncomingMessage with a type outside its switch: logged, dropped.
UnexpectedMessage(c) ==
    /\ c \in inflight
    /\ c.port \in ForeignPorts
    /\ inflight' = inflight \ {c}
    /\ UNCHANGED <<state_, port_, caller, history>>

\* HandleIncomingMessage(kStartResponseToClient): StartVaultRequestCallback
\* passes the response's result to the request's callback.
StartResponse(c) ==
    /\ c \in inflight
    /\ c.kind = "start"
    /\ c.port \in ManagerPorts
    /\ inflight' = inflight \ {c}
    /\ \E ok \in BOOLEAN :
          /\ CallbackOf(c, ok)
          /\ granted' = IF ok THEN granted \cup {c.call} ELSE granted
    /\ UNCHANGED <<state_, port_, cpc, call, probed, succeeded>>

\* ResetTransport wires each transport's events to the handlers above.
Deliver(c) ==
    \/ OnSendError(c)
    \/ HelloResponse(c)
    \/ InvalidHelloResponse(c)
    \/ UnexpectedMessage(c)
    \/ StartResponse(c)

-----------------------------------------------------------------------------
(* The StartVault caller thread.                                           *)

\* StartVault's bound checked one call too late.
CallStartVaultOffByOne ==
    /\ cpc = "idle"
    /\ call <= MaxCalls
    /\ call' = call + 1
    /\ cpc' = "waitInit"
    /\ UNCHANGED <<ctl, done, result, history>>

CallStartVault ==
    /\ cpc = "idle"
    /\ call < MaxCalls
    /\ call' = call + 1
    /\ cpc' = "waitInit"
    /\ UNCHANGED <<ctl, done, result, history>>

\* timed_wait(3 s) for state_ != kInitialising returned true, kVerified.
InitVerified ==
    /\ cpc = "waitInit"
    /\ state_ = "Verified"
    /\ cpc' = "request"
    /\ UNCHANGED <<ctl, call, done, result, history>>

\* ... returned true but the controller failed: StartVault returns false.
InitFailed ==
    /\ cpc = "waitInit"
    /\ state_ = "Failed"
    /\ cpc' = "idle"
    /\ UNCHANGED <<ctl, call, done, result, history>>

\* ... timed out with the handshake still running: returns false.
InitTimeout ==
    /\ cpc = "waitInit"
    /\ state_ = "Initialising"
    /\ cpc' = "idle"
    /\ UNCHANGED <<ctl, call, done, result, history>>

\* The locals are set up and StartVaultRequest sends the start request on a
\* fresh transport to port_, read again under mutex_ after the state check.
SendStartRequest ==
    /\ cpc = "request"
    /\ inflight' = inflight \cup {StartReq(port_, call)}
    /\ done' = FALSE
    /\ result' = FALSE
    /\ cpc' = "waitReply"
    /\ UNCHANGED <<state_, port_, call, history>>

\* timed_wait(10 s) for `done` returned true: StartVault returns local_result.
ReplyWakeup ==
    /\ cpc = "waitReply"
    /\ done
    /\ cpc' = "idle"
    /\ succeeded' = IF result THEN succeeded \cup {call} ELSE succeeded
    /\ UNCHANGED <<ctl, call, done, result, probed, granted, deadWrites>>

\* ... timed out: StartVault returns false and its locals die.
ReplyTimeout ==
    /\ cpc = "waitReply"
    /\ ~done
    /\ cpc' = "idle"
    /\ UNCHANGED <<ctl, call, done, result, history>>

CallerStep ==
    \/ InitVerified \/ InitFailed \/ InitTimeout
    \/ SendStartRequest \/ ReplyWakeup \/ ReplyTimeout

Next ==
    \/ \E c \in inflight : Deliver(c)
    \/ CallStartVault
    \/ CallerStep

\* Each transport fires exactly one event (its send timeout guarantees
\* one): while a connection is in flight, some connection eventually fires.
\* The caller's timed waits end.  Calling StartVault is up to the
\* application and is not fair.
Fairness ==
    /\ WF_vars(\E c \in inflight : Deliver(c))
    /\ WF_vars(CallerStep)

Spec == Init /\ [][Next]_vars
FairSpec == Spec /\ Fairness

-----------------------------------------------------------------------------
(* Properties.                                                             *)

TypeOK ==
    /\ state_ \in States
    /\ port_ \in Ports
    /\ inflight \subseteq Conns
    /\ cpc \in {"idle", "waitInit", "request", "waitReply"}
    /\ call \in 0..MaxCalls
    /\ cpc # "idle" => call \in Calls
    /\ done \in BOOLEAN
    /\ result \in BOOLEAN
    /\ probed \subseteq Ports
    /\ granted \subseteq Calls
    /\ succeeded \subseteq Calls
    /\ deadWrites \subseteq Calls

\* Every start request StartVault sends goes to a port where the manager
\* answered the handshake: the port_ read after the state check (lock
\* released in between) is the verified one.
StartRequestsReachManager ==
    \A c \in inflight : c.kind = "start" => c.port \in ManagerPorts

\* The controller fails only after a hello went to every port of
\* kMinPort..kMaxPort (spec 3 and 8.7): no port of the range is skipped by
\* the retries triggered from errors and invalid replies.
FailedOnlyAfterExhaustion ==
    state_ = "Failed" => MinPort..MaxPort \subseteq probed

\* StartVault returns true only for a call whose own start request was
\* answered with result = true (spec 8.8).
StartVaultReturnsOwnResult ==
    succeeded \subseteq granted

\* Once the handshake has ended (verified or failed), neither the outcome
\* nor the recorded manager port changes again, whatever late errors of
\* start requests re-enter ConnectToManager.
HandshakeSettles ==
    [][state_ # "Initialising" => UNCHANGED <<state_, port_>>]_vars

\* The handshake ends: the controller reaches kVerified or kFailed
\* (spec 4.4 step 5 and 8.6-8.7).
HandshakeTerminates ==
    <>(state_ # "Initialising")

(* The abstract discovery service ClientController implements.          *)

\* The refinement mapping: the controller's state and verified port, and
\* the ports a hello was sent to.
AbsStatus ==
    CASE state_ = "Initialising" -> "searching"
      [] state_ = "Verified"     -> "found"
      [] state_ = "Failed"       -> "failed"
AbsManager == IF state_ = "Verified" THEN port_ ELSE 0

Discovery == INSTANCE ManagerDiscovery
                 WITH status <- AbsStatus, manager <- AbsManager, asked <- probed

\* The handshake of ConnectToManager and its handlers does only what the
\* discovery service allows: every hello goes to a new port of the range,
\* kVerified is reached only on a port that was probed and answered like
\* the manager, kFailed only after the whole range, and neither changes.
DiscoveryRefined == Discovery!Spec

(* The inductive strengthening of the safety properties, proved in       *)
(* ClientControllerProofs, in named parts.                                 *)

\* At most one probe is in flight: to the cursor, while initialising.
ProbeAtCursor ==
    \A c \in inflight : c.kind = "hello" =>
        /\ c = Hello(port_)
        /\ state_ = "Initialising"

\* Start requests, and a caller about to send one, exist only once verified.
StartAfterVerified ==
    /\ \A c \in inflight : c.kind = "start" => state_ = "Verified"
    /\ cpc = "request" => state_ = "Verified"

\* While initialising, the probed ports are exactly kMinPort..port_.
CursorInRange ==
    state_ = "Initialising" =>
        /\ port_ \in MinPort..MaxPort
        /\ probed = MinPort..port_

\* The verified port is one where a manager answered.
VerifiedPortIsManager ==
    state_ = "Verified" => port_ \in ManagerPorts

IInv ==
    /\ TypeOK
    /\ ProbeAtCursor
    /\ StartAfterVerified
    /\ CursorInRange
    /\ VerifiedPortIsManager
    /\ StartRequestsReachManager
    /\ FailedOnlyAfterExhaustion

\* No StartVault callback runs after the call that created it returned
\* (spec 5: a late reply must be safely ignorable).
NoCallbackIntoDeadFrame ==
    deadWrites = {}

=============================================================================
