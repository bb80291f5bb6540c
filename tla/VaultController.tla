--------------------------- MODULE VaultController ---------------------------
(***************************************************************************)
(* client_manager::VaultController (src/src/maidsafe/vault_controller.cc), *)
(* the worker side of the manager protocol.  The constructor parses its    *)
(* process index and the manager's port, starts listening for requests and *)
(* blocks in RequestVaultIdentity until the identity arrives (or throws).  *)
(* The vault then calls GetIdentity, ConfirmJoin, GetBootstrapNodes and    *)
(* SendEndpointToClientManager, each of which opens a fresh transport,     *)
(* hands it a callback that captures its stack locals by reference and     *)
(* waits at most 3 s on a condition variable.  Shutdown requests arrive on *)
(* the listening transport at any time.                                    *)
(*                                                                         *)
(* The vault's own thread is the caller (vpc); the asio threads run the    *)
(* handlers, one per connection event.  A request connection is a record   *)
(* [kind, call]: `call` numbers the blocking call that sent it, so that a  *)
(* reply reaching a call that has already returned is visible.  Endpoints  *)
(* are model values; malformed endpoint pairs, which GetEndpoint rejects   *)
(* and the loops skip, are left out of the response sets.                 *)
(***************************************************************************)
EXTENDS Naturals, Sequences

CONSTANTS
    ManagerPort,    \* client_manager_port_ parsed from the identifier (non-zero)
    OwnIndex,       \* process_index_ parsed from the identifier
    OtherIndex,     \* the index of some other vault of the same manager
    IdEps,          \* endpoints carried by the VaultIdentityResponse
    BootEps,        \* endpoints carried by a BootstrapResponse
    Endpoints,      \* every endpoint a vector may hold
    MaxCalls,       \* bound on the blocking calls the vault makes
    MaxStops        \* bound on the shutdown requests the manager sends

ASSUME VaultAssumption ==
    /\ ManagerPort \in Nat \ {0}
    /\ OwnIndex # OtherIndex
    /\ IdEps \cup BootEps \subseteq Endpoints
    /\ MaxCalls \in Nat
    /\ MaxStops \in Nat

VARIABLES
    cmPort,       \* client_manager_port_ (0 for the "test" identifier)
    pmid,         \* pmid_ is set
    boot,         \* bootstrap_endpoints_ (as a set)
    vpc,          \* where the vault's thread is
    call,         \* number of the current (or last) blocking call
    done,         \* the current call's local `done`
    success,      \* the current call's local `success`
    argvec,       \* the caller's vector passed to GetBootstrapNodes
    inflight,     \* request connections whose event has not fired
    idHandler,    \* progress of the VaultIdentityResponse handler
    stopCalls,    \* process indices of the requests that ran stop_callback_
    granted,      \* calls whose reply carried success
    succeeded,    \* calls that returned true
    deadTouch,    \* kinds of handlers that touched a returned call's locals
    nullDeref,    \* GetIdentity dereferenced an empty pmid_
    outEps        \* the endpoints GetIdentity last handed to the vault

caller == <<vpc, call, done, success, argvec>>
history == <<granted, succeeded, deadTouch, nullDeref>>
vars == <<cmPort, pmid, boot, caller, inflight, idHandler, stopCalls, history, outEps>>

Calls == 1..MaxCalls
ReqKinds == {"join", "boot", "endpoint"}
Conns == [kind : {"identity"}, call : {0}] \cup [kind : ReqKinds, call : Calls]
\* The wait each kind of request's caller blocks in.
WaitOf == [join |-> "joinWait", boot |-> "bootWait", endpoint |-> "sendWait"]
\* What a shutdown request's payload parses to: an index, or nothing.
ShutdownPayloads == {OwnIndex, OtherIndex, "unparsable"}

-----------------------------------------------------------------------------
(* Completion callbacks.                                                   *)

\* The call that sent c is still waiting for it.
Alive(c) == vpc = WaitOf[c.kind] /\ call = c.call

\* A later blocking call, whose stack locals may occupy the slots a
\* returned call's lambda still refers to, is waiting.
LaterCallWaits == vpc \in {"joinWait", "bootWait", "sendWait"}

\* The [&] lambda of GetBootstrapNodes and SendEndpointToClientManager: sets
\* `done` and `success` under local_mutex.  After its call has returned the
\* references dangle (recorded in deadTouch): the write lands in dead stack
\* memory or, while a later call waits, in that call's `done` and
\* `success`, which then wakes with a result that is not its own.
Complete(c, val) ==
    IF Alive(c)
    THEN /\ done' = TRUE
         /\ success' = val
         /\ UNCHANGED deadTouch
    ELSE /\ deadTouch' = deadTouch \cup {c.kind}
         /\ \/ UNCHANGED <<done, success>>
            \/ /\ LaterCallWaits
               /\ done' = TRUE
               /\ success' = val

\* ConfirmJoin's lambda: the same without a result.
Notify(c) ==
    IF Alive(c)
    THEN /\ done' = TRUE
         /\ UNCHANGED <<success, deadTouch>>
    ELSE /\ deadTouch' = deadTouch \cup {c.kind}
         /\ UNCHANGED success
         /\ \/ UNCHANGED done
            \/ /\ LaterCallWaits
               /\ done' = TRUE

-----------------------------------------------------------------------------
(* The constructor.                                                        *)

\* For the "test" identifier nothing is parsed and no identity is asked
\* for.  Otherwise RequestVaultIdentity connects to the manager: a failed
\* connect throws from the constructor, a successful one sends the request
\* and waits for pmid_ with the lock released.
Init ==
    /\ \/ /\ cmPort = 0
          /\ vpc = "ready"
          /\ inflight = {}
       \/ /\ cmPort = ManagerPort
          /\ vpc = "threw"
          /\ inflight = {}
       \/ /\ cmPort = ManagerPort
          /\ vpc = "ctorWait"
          /\ inflight = {[kind |-> "identity", call |-> 0]}
    /\ pmid = FALSE
    /\ boot = {}
    /\ call = 0
    /\ done = FALSE
    /\ success = FALSE
    /\ argvec = {}
    /\ idHandler = "none"
    /\ stopCalls = << >>
    /\ granted = {}
    /\ succeeded = {}
    /\ deadTouch = {}
    /\ nullDeref = FALSE
    /\ outEps = {}

\* The identity transport delivers the response: the slot runs and
\* HandleVaultIdentityResponse blocks on the constructor's local_mutex.
IdentitySlot(c) ==
    /\ c \in inflight
    /\ c.kind = "identity"
    /\ inflight' = inflight \ {c}
    /\ idHandler' = "entered"
    /\ UNCHANGED <<cmPort, pmid, boot, caller, stopCalls, history, outEps>>

\* The identity transport reports an error: the error slot only logs.
IdentityError(c) ==
    /\ c \in inflight
    /\ c.kind = "identity"
    /\ inflight' = inflight \ {c}
    /\ UNCHANGED <<cmPort, pmid, boot, caller, idHandler, stopCalls, history, outEps>>

\* HandleVaultIdentityResponse holds local_mutex: a response that unwraps
\* and parses sets pmid_ and appends its endpoints; then the lock is
\* released.  If the constructor has already thrown, the mutex is gone.
IdentityResponse ==
    /\ idHandler = "entered"
    /\ idHandler' = "notify"
    /\ \E parsed \in BOOLEAN :
          /\ pmid' = (pmid \/ parsed)
          /\ boot' = IF parsed THEN boot \cup IdEps ELSE boot
    /\ deadTouch' = IF vpc = "ctorWait" THEN deadTouch
                    ELSE deadTouch \cup {"identity"}
    /\ UNCHANGED <<cmPort, caller, inflight, stopCalls, granted, succeeded, nullDeref, outEps>>

\* The slot's lambda then calls local_cond_var.notify_one(), outside the
\* lock: the constructor may already have returned.
IdentityNotify ==
    /\ idHandler = "notify"
    /\ idHandler' = "none"
    /\ deadTouch' = IF vpc = "ctorWait" THEN deadTouch
                    ELSE deadTouch \cup {"identity"}
    /\ UNCHANGED <<cmPort, pmid, boot, caller, inflight, stopCalls,
                   granted, succeeded, nullDeref, outEps>>

\* wait_for(3 s, pmid_) returns true: the constructor returns.  The
\* predicate is rechecked on timeout, so this also covers a timeout that
\* follows the handler's unlock but precedes its notify.
CtorWakeup ==
    /\ vpc = "ctorWait"
    /\ pmid
    /\ vpc' = "ready"
    /\ UNCHANGED <<cmPort, pmid, boot, call, done, success, argvec, inflight,
                   idHandler, stopCalls, history, outEps>>

\* A constructor that logs the timeout and returns instead of throwing.
CtorTimeoutReturns ==
    /\ vpc = "ctorWait"
    /\ ~pmid
    /\ vpc' = "ready"
    /\ inflight' = {c \in inflight : c.kind # "identity"}
    /\ UNCHANGED <<cmPort, pmid, boot, call, done, success, argvec,
                   idHandler, stopCalls, history, outEps>>

\* The wait times out without pmid_: both slots are disconnected (an event
\* not yet delivered never runs) and the constructor throws.
CtorTimeout ==
    /\ vpc = "ctorWait"
    /\ ~pmid
    /\ vpc' = "threw"
    /\ inflight' = {c \in inflight : c.kind # "identity"}
    /\ UNCHANGED <<cmPort, pmid, boot, call, done, success, argvec,
                   idHandler, stopCalls, history, outEps>>

-----------------------------------------------------------------------------
(* The vault's blocking calls.                                             *)

\* Connect(client_manager_port_) on a fresh transport: port 0 never
\* connects; the manager may be gone.
ConnectOutcomes == IF cmPort = 0 THEN {FALSE} ELSE BOOLEAN

\* The bound on calls checked one call too late.
SendRequestOffByOne(k) ==
    /\ vpc = "ready"
    /\ call <= MaxCalls
    /\ call' = call + 1
    /\ done' = FALSE
    /\ success' = FALSE
    /\ \E connected \in ConnectOutcomes :
          IF connected
          THEN /\ inflight' = inflight \cup {[kind |-> k, call |-> call + 1]}
               /\ vpc' = WaitOf[k]
          ELSE UNCHANGED <<inflight, vpc>>

\* Start call `call + 1` of kind k: connect, and on success wire the
\* transport's slots to the callback, send and wait with the lock released.
\* A failed connect returns at once (ConfirmJoin: void; the others: false).
SendRequest(k) ==
    /\ vpc = "ready"
    /\ call < MaxCalls
    /\ call' = call + 1
    /\ done' = FALSE
    /\ success' = FALSE
    /\ \E connected \in ConnectOutcomes :
          IF connected
          THEN /\ inflight' = inflight \cup {[kind |-> k, call |-> call + 1]}
               /\ vpc' = WaitOf[k]
          ELSE UNCHANGED <<inflight, vpc>>

\* ConfirmJoin(): sends VaultJoinedNetwork.
ConfirmJoin ==
    /\ SendRequest("join")
    /\ UNCHANGED <<cmPort, pmid, boot, argvec, idHandler, stopCalls, history, outEps>>

\* GetBootstrapNodes(bootstrap_endpoints): the reply handler captures the
\* caller's vector by reference.
GetBootstrapNodes ==
    /\ SendRequest("boot")
    /\ \E v \in SUBSET Endpoints : argvec' = v
    /\ UNCHANGED <<cmPort, pmid, boot, idHandler, stopCalls, history, outEps>>

\* SendEndpointToClientManager(endpoint).
SendEndpointToClientManager ==
    /\ SendRequest("endpoint")
    /\ UNCHANGED <<cmPort, pmid, boot, argvec, idHandler, stopCalls, history, outEps>>

\* ConfirmJoin's wait_for(3 s, done) ends, by the ack or by the timeout:
\* the function returns nothing either way.
JoinReturns ==
    /\ vpc = "joinWait"
    /\ vpc' = "ready"
    /\ UNCHANGED <<cmPort, pmid, boot, call, done, success, argvec, inflight,
                   idHandler, stopCalls, history, outEps>>

\* GetBootstrapNodes / SendEndpointToClientManager: the wait saw `done`
\* and the call returns `success`.
RequestWakeup ==
    /\ vpc \in {"bootWait", "sendWait"}
    /\ done
    /\ vpc' = "ready"
    /\ succeeded' = IF success THEN succeeded \cup {call} ELSE succeeded
    /\ UNCHANGED <<cmPort, pmid, boot, call, done, success, argvec, inflight,
                   idHandler, stopCalls, granted, deadTouch, nullDeref, outEps>>

\* ... the wait timed out: the call returns false and its locals die.
RequestTimeout ==
    /\ vpc \in {"bootWait", "sendWait"}
    /\ ~done
    /\ vpc' = "ready"
    /\ UNCHANGED <<cmPort, pmid, boot, call, done, success, argvec, inflight,
                   idHandler, stopCalls, history, outEps>>

\* GetIdentity: for port 0 it returns false and changes nothing (not an
\* action); otherwise it copies *pmid_ (a null pointer if pmid_ is empty)
\* and bootstrap_endpoints_ into its out-parameters.
GetIdentity ==
    /\ vpc = "ready"
    /\ cmPort # 0
    /\ nullDeref' = (nullDeref \/ ~pmid)
    /\ outEps' = boot
    /\ UNCHANGED <<cmPort, pmid, boot, caller, inflight, idHandler, stopCalls,
                   granted, succeeded, deadTouch>>

-----------------------------------------------------------------------------
(* The request transports' handlers.                                       *)

\* An error on a request transport: the error slot calls callback(false)
\* (ConfirmJoin: callback()).
RequestError(c) ==
    /\ c \in inflight
    /\ c.kind \in ReqKinds
    /\ inflight' = inflight \ {c}
    /\ IF c.kind = "join" THEN Notify(c) ELSE Complete(c, FALSE)
    /\ UNCHANGED <<cmPort, pmid, boot, argvec, vpc, call, idHandler, stopCalls,
                   granted, succeeded, nullDeref, outEps>>

\* HandleVaultJoinedAck: an ack that unwraps and parses runs the callback;
\* anything else is dropped and the caller times out.
JoinAck(c) ==
    /\ c \in inflight
    /\ c.kind = "join"
    /\ inflight' = inflight \ {c}
    /\ \/ Notify(c)
       \/ UNCHANGED <<done, success, deadTouch>>
    /\ UNCHANGED <<cmPort, pmid, boot, argvec, vpc, call, idHandler, stopCalls,
                   granted, succeeded, nullDeref, outEps>>

\* HandleBootstrapResponse: an unparsable reply calls back false; a parsed
\* one appends its endpoints to the caller's vector, copies that vector
\* over bootstrap_endpoints_ and calls back true.  Once the call has
\* returned, the vector is whatever the caller left behind the reference.
BootstrapResponse(c) ==
    /\ c \in inflight
    /\ c.kind = "boot"
    /\ inflight' = inflight \ {c}
    /\ \/ /\ Complete(c, FALSE)
          /\ UNCHANGED <<boot, argvec, granted>>
       \/ /\ \E v \in IF Alive(c) THEN {argvec} ELSE SUBSET Endpoints :
                /\ argvec' = v \cup BootEps
                /\ boot' = v \cup BootEps
          /\ Complete(c, TRUE)
          /\ granted' = granted \cup {c.call}
    /\ UNCHANGED <<cmPort, pmid, vpc, call, idHandler, stopCalls, succeeded, nullDeref, outEps>>

\* HandleSendEndpointToClientManagerResponse: an unparsable reply calls
\* back false, a parsed one calls back with its result field.
EndpointResponse(c) ==
    /\ c \in inflight
    /\ c.kind = "endpoint"
    /\ inflight' = inflight \ {c}
    /\ \E ok \in BOOLEAN :
          /\ Complete(c, ok)
          /\ granted' = IF ok THEN granted \cup {c.call} ELSE granted
    /\ UNCHANGED <<cmPort, pmid, boot, argvec, vpc, call, idHandler, stopCalls,
                   succeeded, nullDeref, outEps>>

-----------------------------------------------------------------------------
(* The listening transport.                                                *)

\* HandleReceivedRequest with kVaultShutdownRequest: HandleVaultShutdownRequest
\* sets the response's flag from the parse and the index check, and then
\* calls stop_callback_() whatever the flag.  Other message types and
\* envelopes that do not unwrap change nothing and are not actions.  Only
\* a constructor given a real identifier starts the listening port
\* (before RequestVaultIdentity), and a constructor that threw leaves no
\* object to deliver to.
VaultShutdownRequest ==
    /\ cmPort # 0
    /\ vpc # "threw"
    /\ Len(stopCalls) < MaxStops
    /\ \E payload \in ShutdownPayloads : stopCalls' = Append(stopCalls, payload)
    /\ UNCHANGED <<cmPort, pmid, boot, caller, inflight, idHandler, history, outEps>>

-----------------------------------------------------------------------------

Deliver(c) ==
    \/ IdentitySlot(c)
    \/ IdentityError(c)
    \/ RequestError(c)
    \/ JoinAck(c)
    \/ BootstrapResponse(c)
    \/ EndpointResponse(c)

VaultStep ==
    \/ CtorWakeup \/ CtorTimeout
    \/ ConfirmJoin \/ GetBootstrapNodes \/ SendEndpointToClientManager
    \/ JoinReturns \/ RequestWakeup \/ RequestTimeout \/ GetIdentity

Next ==
    \/ \E c \in inflight : Deliver(c)
    \/ IdentityResponse
    \/ IdentityNotify
    \/ VaultStep
    \/ VaultShutdownRequest

Spec == Init /\ [][Next]_vars

-----------------------------------------------------------------------------
(* Properties.                                                             *)

TypeOK ==
    /\ cmPort \in {0, ManagerPort}
    /\ pmid \in BOOLEAN
    /\ boot \subseteq Endpoints
    /\ vpc \in {"ctorWait", "threw", "ready", "joinWait", "bootWait", "sendWait"}
    /\ call \in 0..MaxCalls
    /\ done \in BOOLEAN
    /\ success \in BOOLEAN
    /\ argvec \subseteq Endpoints
    /\ inflight \subseteq Conns
    /\ idHandler \in {"none", "entered", "notify"}
    /\ stopCalls \in Seq(ShutdownPayloads)
    /\ granted \subseteq Calls
    /\ succeeded \subseteq Calls
    /\ deadTouch \subseteq {"identity"} \cup ReqKinds
    /\ nullDeref \in BOOLEAN
    /\ outEps \subseteq Endpoints

\* A blocking GetBootstrapNodes or SendEndpointToClientManager returns true
\* only when its own request was answered with success: a late reply to an
\* earlier, timed-out call never makes a later call succeed.
ReturnedOwnResult == succeeded \subseteq granted

\* GetIdentity never dereferences an empty pmid_: the constructor returns
\* only once HandleVaultIdentityResponse has set it (RequestVaultIdentity
\* throws on a failed connect or a timeout), and the "test" identifier,
\* which skips the request, leaves the port 0 that GetIdentity refuses.
IdentityBeforeUse == ~nullDeref

\* Spec 8.9: a shutdown request addressed to another process index leaves
\* stop_callback_ uninvoked, and the matching one invokes it exactly once
\* even when delivered twice (HandleVaultShutdownRequest).
ShutdownAsSpecified ==
    /\ Len(stopCalls) <= 1
    /\ \A i \in DOMAIN stopCalls : stopCalls[i] = OwnIndex

\* Spec 3: the bootstrap list accumulates across the identity response and
\* later bootstrap responses, so the identity's endpoints stay in
\* bootstrap_endpoints_ (HandleVaultIdentityResponse, HandleBootstrapResponse).
IdentityEndpointsKept == pmid => IdEps \subseteq boot

\* Spec 5: a reply or error arriving after ConfirmJoin, GetBootstrapNodes or
\* SendEndpointToClientManager gave up is ignorable: its callback never
\* writes the returned call's stack locals.
NoCallbackIntoDeadFrame == deadTouch \subseteq {"identity"}

\* Spec 5: the identity response handler never uses RequestVaultIdentity's
\* local_mutex or local_cond_var once that call has returned or thrown.
NoIdentityHandlerAfterReturn == "identity" \notin deadTouch

\* Spec 5 as one rule: no completion handler -- of the identity request or
\* of ConfirmJoin, GetBootstrapNodes or SendEndpointToClientManager --
\* touches the stack locals of a call that has already returned.
NoHandlerIntoDeadFrame == NoCallbackIntoDeadFrame /\ NoIdentityHandlerAfterReturn

=============================================================================
