-------------------------- MODULE ManagerDiscovery --------------------------
(***************************************************************************)
(* What a client's discovery of the vault manager promises (spec 4.4 and  *)
(* 8.6-8.7), without the transports, the cursor or the probing order: the *)
(* client asks ports of kMinPort..kMaxPort; it may settle on a port that   *)
(* it asked and where a manager listens, or give up once it has asked      *)
(* every port of the range; after either, nothing changes.                 *)
(***************************************************************************)
EXTENDS Naturals

CONSTANTS MinPort, MaxPort, ManagerPorts

VARIABLES
    status,   \* "searching", "found" or "failed"
    manager,  \* the port settled on (0 while none)
    asked     \* the ports asked so far

vars == <<status, manager, asked>>

Range == MinPort..MaxPort

\* The first port is asked as the client starts.
Init ==
    /\ status = "searching"
    /\ manager = 0
    /\ asked = {MinPort}

\* Ask one more port of the range.
Ask(p) ==
    /\ status = "searching"
    /\ p \in Range \ asked
    /\ asked' = asked \cup {p}
    /\ UNCHANGED <<status, manager>>

\* Settle on an asked port where a manager listens.
Find(p) ==
    /\ status = "searching"
    /\ p \in asked \cap ManagerPorts
    /\ status' = "found"
    /\ manager' = p
    /\ UNCHANGED asked

\* Give up, only once every port of the range was asked.
GiveUp ==
    /\ status = "searching"
    /\ Range \subseteq asked
    /\ status' = "failed"
    /\ UNCHANGED <<manager, asked>>

Next == (\E p \in Range : Ask(p) \/ Find(p)) \/ GiveUp

Spec == Init /\ [][Next]_vars

=============================================================================
