# TLA+ models of MaidSafe-Vault-Manager

This directory holds TLA+ models of the control plane between clients,
the vault manager and vaults. It also holds TLC configurations that
model-check them, and TLAPS proofs of every safety invariant and action
property the passing runs check.
Every module is translated from the C++ under `src/`. PROJECT.json maps
each definition to the lines it models.

## The system

| Part | Source | Role |
|---|---|---|
| Client handshake agent | `src/src/maidsafe/private/client_controller.cc` | A client finds the manager by probing loopback ports `kMinPort..kMaxPort` with hellos. It then asks the manager to start a vault (`StartVault`). |
| Worker identity agent | `src/src/maidsafe/vault_controller.cc` (`client_manager::VaultController`) | A vault asks the manager for its identity at start-up and later confirms joining, pulls bootstrap nodes and reports endpoints. It obeys shutdown requests. |
| Legacy vault agent | `src/src/maidsafe/private/vault_controller.cc` | An older variant of the above. |
| Download manager | `src/src/maidsafe/private/download_manager.cc` | Picks and fetches update files. |
| Process supervisor | tests only (`private/tests/process_test.cc`) | Spawns and tracks vault processes. |
| Codec, vmid helpers | `private/lifestuff_manager/utils.h` (declarations only) | Message envelope; the vmid parameter (process index and manager port). |

Interaction: a client's controller and a vault's controller both talk to
the manager only. Each request goes over a fresh `TcpTransport` or
`LocalTcpTransport`. The transport fires exactly one event: a message,
or an error that also covers the send timeout. The caller blocks on a
condition variable with its own timeout. The callbacks run on asio
threads.

### What is hard in this code
- Callbacks capture the blocking caller's stack locals by reference,
  and the caller may time out first. The transport timeout (10 s) equals
  `StartVault`'s wait, and the vault's calls wait 3 s.
- The client's handshake is driven by several handlers. Each ends in
  `ConnectToManager`, which is guarded only by `state_`.
- `StartVault` checks the state, drops `mutex_`, and later re-reads `port_`.
- The identity handler of the vault locks the constructor's local mutex.
  The constructor can throw between that handler's slot call and its lock.
- Shutdown requests arrive at any time, possibly duplicated or misaddressed.

## Modules

| Module | Models | Status |
|---|---|---|
| `ClientController` | `priv::ClientController`, the whole file except the no-op `StopVault` | modelled, proved |
| `MCClientController` | TLC instance: ports 5483..5486, a manager on 5485, a foreign listener on 5484, 3 calls | |
| `ManagerDiscovery` | abstract spec of the handshake: search the range, settle on a manager, or give up | refined by `ClientController` |
| `ClientControllerProofs` | TLAPS proofs of type correctness, safety and the refinement | |
| `VaultController` | `client_manager::VaultController` | modelled, proved |
| `MCVaultController` | TLC instance: 3 endpoints, 3 calls, 1 or 2 shutdowns | |
| `VaultControllerProofs` | TLAPS proofs of `TypeOK` and `IdentityBeforeUse` | |
| `LegacyVaultController` | `priv::VaultController` (private/vault_controller.cc) | modelled, proved |
| `LegacyVaultControllerProofs` | TLAPS proof of `ConnectsToParsedPort` | |
| `MCLegacyVaultController` | TLC instance: eight pid strings (empty, well formed twice, port 0, bad port, no separator, no id, extra part), 2 starts | |
| `DownloadManager` | `DownloadManager` (private/download_manager.cc) | modelled |
| `MCDownloadManager` | TLC instance: seven list lines, lists of up to 2 lines, current version and patch "" or 1, a 2-block body, 2 calls | |

### ClientController
State:
- `state_`, `port_`: the controller's members.
- `inflight`: the transports whose event has not fired. Each is a
  record `[kind, port, call]`: a hello probe, or the start request of
  StartVault call `call`.
- The caller thread: `cpc` (`idle`, `waitInit`, `request`, `waitReply`),
  `call`, and the locals `done` and `result` of the live call.
- History variables: `probed` (ports probed), `granted` (calls whose
  reply said yes), `succeeded` (calls that returned true) and
  `deadWrites` (callbacks that ran after their call returned).

Actions:
- One per handler: `OnSendError`, `HelloResponse`, `InvalidHelloResponse`,
  `UnexpectedMessage` and `StartResponse`.
  - Each includes the `ConnectToManager` call the handler makes, and the
    request's callback.
  - `UnexpectedMessage` is the `default:` branch of `HandleIncomingMessage`.
- `RunCallback` is `StartVault`'s `[&]` lambda. While its call waits it
  writes that call's `done` and `local_result`. After the call returned
  the references dangle, which is undefined behaviour; the model takes
  the two outcomes a build gives: the write lands in dead stack memory,
  or, while the caller thread waits in a later `StartVault` whose locals
  occupy the same slots, in that later call's locals.
- The `StartVault` thread is split at its two timed waits: `CallStartVault`,
  then `InitVerified`, `InitFailed` or `InitTimeout`, then
  `SendStartRequest`, then `ReplyWakeup` or `ReplyTimeout`.

Ports:
- `port_` is incremented modulo 2^16, as a `uint16_t` is.
- `PortAssumption` keeps `kMaxPort < 65535` and `kMinPort >= 1`. Outside
  that range the code wraps or collides with the sentinel 0 (a hazard
  listed in PROJECT.json).

Message contents are abstracted to who answers on a port. A port in
`ManagerPorts` answers like the manager. A port in `ForeignPorts` answers
with a wrong payload or a wrong type. Any other port gives a transport
error.

The refinement: `ManagerDiscovery` has `status` (`searching`, `found`,
`gaveUp`), `manager` and `asked`. Its steps are `Ask(p)` for a new port
in range, `Find(p)` for an asked manager port, and `GiveUp` once the
whole range was asked. `ClientController` maps `state_` to the status
(`AbsStatus`), the verified `port_` to `manager` (`AbsManager`), and
`probed` to `asked`. `DiscoveryRefined` is that spec as a property.

### VaultController
State:
- `cmPort` (0 for the `"test"` identifier), `pmid` (whether `pmid_` is
  set) and `boot` (`bootstrap_endpoints_` as a set).
- The vault thread: `vpc`, `call`, and the locals `done` and `success`.
- `argvec`: the caller's vector passed to `GetBootstrapNodes`.
- `inflight`: the request transports whose event has not fired.
- `idHandler`: the identity handler is `entered` (blocked on the
  constructor's `local_mutex`) or at `notify` (lock released, about to
  call `notify_one`).
- History: `stopCalls` (the payload of each shutdown that ran
  `stop_callback_`), `granted`, `succeeded`, `deadTouch`, `nullDeref`
  and `outEps`.

Actions:
- Constructor and identity handler: `IdentitySlot`, `IdentityError`,
  `IdentityResponse`, `IdentityNotify`, `CtorWakeup` and `CtorTimeout`.
  `CtorTimeout` disconnects the slots and throws.
- The vault's calls: `ConfirmJoin`, `GetBootstrapNodes`,
  `SendEndpointToClientManager` and `GetIdentity`. The first three share
  `SendRequest`: connect, send, wait.
- Ending a wait: `JoinReturns`, `RequestWakeup` and `RequestTimeout`.
- Reply handlers: `RequestError`, `JoinAck`, `BootstrapResponse` and
  `EndpointResponse`.
- `VaultShutdownRequest`.

The completion lambdas (`Complete`, `Notify`) write the live call's
locals, or, after their call returned, dead memory or the locals of a
later waiting call (`LaterCallWaits`), as in the client.
`VaultShutdownRequest` is enabled only once the constructor has started
the listening port (a real identifier, and no throw).

Abstractions:
- Whether a message unwraps and parses is a nondeterministic choice,
  because the codec's source is not in `src/`.
- After its call has returned, a bootstrap reply reads a caller vector
  whose contents are arbitrary. The reference may dangle, and any
  contents are a possible outcome.

### LegacyVaultController
State: `alive` and `halted` (destroyed; aborted or terminated),
`processId`, `port`, `thd` (which launched thread `thd` holds), and per
launched thread `thr[i]` (`start`, `connect`, `done`) and
`readPort[i]`. `parsed` records `<<i, p>>` when the i-th `Start` set
`port_` to `p`; numerals may have any value, 0 included ("7-0"). Two build choices are fixed in `Init`: `debugBuild`
(`BOOST_ASSERT` on) and `terminateV3` (boost thread API v3 terminates on
a joinable thread's destruction or move assignment). History: `starts`,
`lastPid`, `lastRes`, `deadUse`.

Actions: `Start(s)` is the whole of `Start`: the empty-string return,
tokenizing on "-", the dereferences (an abort in a debug build past the
end, "" in a release build), `lexical_cast` (a throw caught as false),
the launch and the move into `thd`. `Destroy` is the empty destructor
followed by `thd`'s. `ReadPortStep(i)` and `ConnectStep(i)` are the two
halves of `ConnectToManager` on thread `i`. A pid string is a sequence
of words and "-" pieces; `Tokens` drops the separators.

### DownloadManager
State: the server's `fileList` (lines as token sequences), `curVersion`
and `curPatch`, the socket (`fresh` or `used`), `fileToDownload`, the
outcomes of the last `Exists` and `UpdateCurrentFile`, the history flag
`faulted` (the server or network failed), and a call counter.

`FileIsUseful` is an operator with one early return per test of the
code. `lexical_cast<uint32_t>` accepts numerals and "-1", which wraps to
`U32Max`. `Exists` and `UpdateCurrentFile` are one action each. Every
request sends "Connection: close", and `socket_` is connected only in
the constructor, so a request on a used socket fails
(`GetFileBufferOutcomes`). The read loop of `UpdateCurrentFile` is
modelled by its outcome: k blocks read, then EOF or a reset. `Written(k)`
is what the loop's rewrite of the accumulated buffer leaves in the file.

## Runs

| Run | Checks | Result and meaning |
|---|---|---|
| `MCClientController.cfg` | `TypeOK`, `StartRequestsReachManager`, `FailedOnlyAfterExhaustion`, `HandshakeSettles`, `DiscoveryRefined` | pass, 548 states |
| `MCClientControllerLive.cfg` | `HandshakeTerminates` under `FairSpec`, no foreign listener | pass: probing always ends |
| `MCClientControllerStall.cfg` | `HandshakeTerminates` with a foreign listener | violation: a wrong-type reply stalls the handshake (spec 4.4 step 5) |
| `MCClientControllerLateReply.cfg` | `StartVaultReturnsOwnResult` | violation: call 1 times out, its start response (true) arrives while call 2 waits, lands in call 2's locals, and call 2 returns true though its own request was never answered (spec 8.8, 5) |
| `MCVaultController.cfg` | `TypeOK`, `IdentityBeforeUse` | pass, about 850k states |
| `MCVaultControllerShutdown.cfg` | `ShutdownAsSpecified` | violation: once the listening port has started, the stop callback runs for a request addressed to another index, for an unparsable one, and again for a duplicate (spec 8.9) |
| `MCVaultControllerLateReply.cfg` | `NoHandlerIntoDeadFrame` | violation: late replies run `[&]` callbacks into dead frames, and the identity handler uses the constructor's destroyed mutex or condition variable (spec 5) |
| `MCLegacyVaultController.cfg` | `ConnectsToParsedPort` | pass, 1560 states: each connect thread reads the port its own or a later `Start` parsed, 0 included, even racing a later failed `Start` |
| `MCLegacyVaultControllerDtor.cfg` | `NoUseAfterDestroy` | violation: the destructor leaves the connect thread running on the destroyed object |
| `MCDownloadManager.cfg` | `TypeOK` | pass, 2736 states |
| `MCDownloadManagerVersion.cfg` | `ExistsFindsMoreRecent` | violation: version 2 patch 0 is rejected against 1.1, and version "-1" is accepted |
| `MCDownloadManagerReuse.cfg` | `DownloadFailsOnlyOnFault` | violation: `UpdateCurrentFile` reuses the socket the server closed, so it fails after every successful `Exists` |

Four more configurations each check one property that is not in the
run list above; each reproduces a violation:
- `MCVaultControllerLateResult.cfg` (`ReturnedOwnResult`): the vault's
  counterpart of the client's late reply: a `GetBootstrapNodes` that
  timed out has its reply land in the next `GetBootstrapNodes`, which
  returns true on it.
- `MCVaultControllerIdentityRace.cfg` (`NoIdentityHandlerAfterReturn`):
  the identity half of `NoHandlerIntoDeadFrame`.
- `MCVaultControllerBootstrap.cfg` (`IdentityEndpointsKept`):
  `HandleBootstrapResponse` assigns the caller's vector to
  `bootstrap_endpoints_`. That discards the endpoints the identity
  response stored, although spec 3 has the list accumulate.
- `MCLegacyVaultControllerPid.cfg` (`MalformedIdentifierFatal`):
  `Start("")` returns true, and so does an identifier with an extra
  part, although spec 4.5 and 7 make a malformed identifier fatal.

### Bounds
- Client runs: four ports give each case a port to land on: a silent
  port, a foreign listener, the manager, and a port past the manager.
  - The probe can therefore verify, skip a foreign port, or run off the
    end of the range.
  - Three StartVault calls let a call time out and a later call meet its
    late reply, in its own locals.
- Vault runs: three calls do the same for the vault. Three endpoints
  (identity, bootstrap, and one of the caller's own) separate
  "accumulated" from "overwritten". Two shutdowns allow a duplicate.
- Legacy runs: two `Start`s allow a second launch to race the first
  thread, and the eight pid strings cover every branch of `Start` and a
  port that parses to 0.
- Download runs: two-line lists over seven lines reach every branch of
  `FileIsUseful`: reject at each field, throw on a bad version, the
  "-1" wrap, and the first useful line shadowing a later one. Two calls
  give `Exists` then `UpdateCurrentFile`, or two `Exists`.
- Deadlock checking is off. The caller's call bound ends behaviours, and
  the vault thread stops for good after the constructor throws.

### Fairness
`FairSpec` assumes weak fairness of message delivery and of the caller's
steps.
- Delivery: each transport has a send timeout, so an in-flight
  connection always fires.
- Caller steps: each timed wait ends.
- Calling `StartVault` is not fair. It is up to the application.

## Proofs
`ClientControllerProofs` proves these for every value of the constants
allowed by `PortAssumption`:
- `TypeCorrect`: `Spec => []TypeOK`.
- `Safety`: `Spec => []IInv`.
- From `Safety`: `StartRequestsReachManagerThm`,
  `FailedOnlyAfterExhaustionThm`, and `HandshakeSettlesThm`, which
  proves the action property from `IInv /\ [Next]_vars`.

`IInv` strengthens the properties with four facts:
- `ProbeAtCursor`: the only hello in flight is the probe of `port_`,
  while still initialising.
- `StartAfterVerified`: start requests and the `request` step only
  exist once Verified.
- `CursorInRange`: while initialising, `probed = MinPort..port_`.
- `VerifiedPortIsManager`.

`ProbeAtCursor` and `StartAfterVerified` together give lemma
`ProbeIsAlone`: when a handler runs `ConnectToManager` during the
handshake, nothing else is in flight. So the next cursor is `port_ + 1`
with no wrap, and `probed` grows by exactly that port. Lemma
`ConnectIInv` proves this once for the three handlers that call it.

The refinement `DiscoveryRefinedThm` (`Spec => DiscoveryRefined`)
follows the two-phase-commit pattern. `InitRefines` shows initial states
map to initial states. `StepRefines` shows, under `IInv`, that each step
maps to an abstract step or a stutter. Its core is `ConnectRefines`: a
`ConnectToManager` during the handshake is `Ask(port_+1)`, or `GiveUp`
past `MaxPort`. (`StartVault`'s own result is not proved: it is false
of the code, see `MCClientControllerLateReply.cfg`.)

`VaultControllerProofs` proves, from `VaultAssumption`:
- `IdentityBeforeUseThm`, from `IdInv`: past the constructor, on a real
  manager port, `pmid` is set. `CtorWakeup` is the only way out of
  `ctorWait` besides throwing, and it requires `pmid`.
- `TypeCorrect`, from `TInv`: `TypeOK` and "a call waiting in
  `joinWait`, `bootWait` or `sendWait` has a number in `1..MaxCalls`".
  `TypeOK` alone is not inductive: `RequestWakeup` adds `call` to
  `succeeded`. Late writes into a later call's locals keep them Boolean.

`LegacyVaultControllerProofs` proves `ConnectsToParsedPortThm` from
`LInv`: the types, "only threads of earlier `Start`s exist", and "while
thread i is still at `start`, `port_` holds a value that `Start` i or a
later `Start` parsed" (`PortFrom`). A thread at `start` reads `port_`
later, so the property alone is not inductive. `LInv` holds because
`Launch` follows the assignment of the port that parsed, a later `Start`
that fails to parse leaves `port_` alone, and one that parses has a
larger index. No assumption on numeral values is needed: "7-0" is a
parsed port like any other. TLC checked `LInv` on the legacy run before
the proof.

Proof conventions:
- `PortSpace` stays opaque. The proofs only use
  `PortSpace \in Nat /\ PortSpace > 2`.
- The empty string is named `EmptyString` in `LegacyVaultController`
  and kept opaque, because the SMT backend cannot handle the literal.

TLC only, not proved:
- Liveness (`HandshakeTerminates`), which needs fairness and ENABLED.
- The properties of the violation runs. They are false of the code, and
  TLC gives the counterexamples.
- The truth of `FileIsUseful` on all inputs (`ExistsFindsMoreRecent`).
  TLC shows it false on the instance; no general theorem is stated.
- `DownloadManager`'s `TypeOK`. Its proof needs `FirstNotRejected`'s
  `CHOOSE` of a least index to return a member of the list, which rests
  on the least-number principle, a library theorem with an operator
  parameter that the installed provers cannot instantiate.
## Not modelled
- Legacy `ReceiveKeys` (called from nowhere) and `GetKeys` (its body is
  commented out).
- The download manager's HTTP framing and file I/O, which are reduced to
  success or failure.
- Process supervisor: its implementation is not under `src/`; it is
  planned as a spec-modelled module.
- Codec and vmid helpers: only declared.
- The loopback origin check in `HandleIncomingMessage`: all transports
  are loopback, so it never fires.
- `StopVault`: it only logs.

## Plan for later work
1. `ProcessManager` from spec 4.3, checked for spec 8.1-8.3.
2. A composed system: the client and vault controllers with an abstract
   manager, plus an abstract one-shot request spec ("completion fires at
   most once") that both blocking wrappers refine where they are correct.
