--------------------- MODULE LegacyVaultControllerProofs ---------------------
(***************************************************************************)
(* Proof that each thread priv::VaultController::Start launches resolves  *)
(* a port that its own Start, or a later one, parsed, for every set of pid *)
(* strings, every numeral value (0 included) and every bound on the calls  *)
(* of Start.                                                               *)
(*                                                                         *)
(* ConnectsToParsedPort is not inductive: a thread still at "start" reads  *)
(* port_ later, so the invariant must also say what port_ holds while such *)
(* a thread exists -- a value a Start no earlier than the thread's own     *)
(* parsed.  That holds because Launch follows the assignment of the port   *)
(* lexical_cast parsed, a later Start that fails to parse leaves port_     *)
(* alone, and a later one that parses has a larger index.                  *)
(***************************************************************************)
EXTENDS LegacyVaultController, TLAPS

USE LegacyAssumption DEF LegacyAssumption

ThreadStates == {"none", "start", "connect", "done"}

\* port_ holds what some Start no earlier than the i-th parsed.
PortFrom(i, p) == \E j \in i..MaxStarts : <<j, p>> \in parsed

LInv ==
    /\ thr \in [Threads -> ThreadStates]
    /\ readPort \in [Threads -> Nat]
    /\ port \in Nat
    /\ starts \in 0..MaxStarts
    /\ \A i \in Threads : thr[i] # "none" => i <= starts
    /\ \A i \in Threads : thr[i] = "start" => PortFrom(i, port)
    /\ ConnectsToParsedPort

\* Start either leaves the threads, port_ and the parsed ports alone, or
\* launches thread starts + 1 right after assigning the port it parsed.
LEMMA StartLInv ==
    ASSUME LInv, NEW s \in PidStrings, Start(s)
    PROVE  LInv'
<1> DEFINE p == Deref(Tokens(s), 2)
           n == starts + 1
<1>1. n \in Threads /\ starts' = n
  BY DEF Start, LInv, Threads
<1>2. CASE UNCHANGED <<port, thr, readPort, parsed>>
  <2>1. \A i \in Threads : thr'[i] # "none" => i <= starts'
    BY <1>1, <1>2 DEF LInv
  <2>2. (\A i \in Threads : thr[i] = "start" => PortFrom(i, port))'
    BY <1>2 DEF LInv, PortFrom
  <2>3. ConnectsToParsedPort'
    BY <1>2 DEF LInv, ConnectsToParsedPort
  <2>4. QED
    BY <1>1, <1>2, <2>1, <2>2, <2>3 DEF LInv, Threads
<1>3. CASE /\ p \in DOMAIN NumeralValue
           /\ port' = NumeralValue[p]
           /\ parsed' = parsed \cup {<<n, NumeralValue[p]>>}
           /\ Launch(n)
           /\ UNCHANGED readPort
  <2>1. thr' = [thr EXCEPT ![n] = "start"] /\ port' \in Nat
    BY <1>3 DEF Launch
  <2>2. \A i \in Threads : thr'[i] # "none" => i <= n
    BY <1>1, <2>1 DEF LInv, Threads
  <2>3. \A i \in Threads : i <= n => PortFrom(i, port)'
    BY <1>1, <1>3 DEF PortFrom, Threads
  <2>4. \A i \in Threads : thr'[i] \in {"connect", "done"} =>
            thr[i] \in {"connect", "done"}
    BY <1>1, <2>1 DEF LInv
  <2>5. ConnectsToParsedPort'
    BY <1>3, <2>4 DEF LInv, ConnectsToParsedPort
  <2>6. (\A i \in Threads : thr[i] = "start" => PortFrom(i, port))'
    BY <2>2, <2>3
  <2>7. thr' \in [Threads -> ThreadStates]
    BY <1>1, <2>1 DEF LInv, ThreadStates
  <2>8. QED
    BY <1>1, <1>3, <2>2, <2>5, <2>6, <2>7 DEF LInv, Threads
<1>4. QED
  BY <1>2, <1>3 DEF Start, Launch

\* ConnectToManager's first step copies port_, which a Start no earlier
\* than the thread's own parsed, into the thread's query.
LEMMA ReadPortLInv ==
    ASSUME LInv, NEW i \in Threads, ReadPortStep(i)
    PROVE  LInv'
<1>1. PortFrom(i, port)
  BY DEF ReadPortStep, LInv
<1>2. thr' = [thr EXCEPT ![i] = "connect"] /\ readPort' = [readPort EXCEPT ![i] = port]
  BY DEF ReadPortStep
<1>3. UNCHANGED <<port, parsed, starts>>
  BY DEF ReadPortStep
<1>4. ConnectsToParsedPort'
  BY <1>1, <1>2, <1>3 DEF LInv, ConnectsToParsedPort, PortFrom
<1>5. QED
  BY <1>2, <1>3, <1>4 DEF ReadPortStep, LInv, PortFrom, ThreadStates

LEMMA StepLInv == LInv /\ [Next]_vars => LInv'
<1> SUFFICES ASSUME LInv, [Next]_vars PROVE LInv'
  OBVIOUS
<1>1. CASE \E s \in PidStrings : Start(s)
  BY <1>1, StartLInv
<1>2. CASE Destroy
  BY <1>2 DEF Destroy, LInv, PortFrom, ConnectsToParsedPort
<1>3. ASSUME NEW i \in Threads, ReadPortStep(i) PROVE LInv'
  BY <1>3, ReadPortLInv
<1>4. ASSUME NEW i \in Threads, ConnectStep(i) PROVE LInv'
  <2>1. thr' = [thr EXCEPT ![i] = "done"] /\ thr[i] = "connect"
    BY <1>4 DEF ConnectStep
  <2>2. UNCHANGED <<port, parsed, starts, readPort>>
    BY <1>4 DEF ConnectStep
  <2>3. QED
    BY <2>1, <2>2 DEF LInv, PortFrom, ConnectsToParsedPort, ThreadStates
<1>5. CASE UNCHANGED vars
  BY <1>5 DEF vars, LInv, PortFrom, ConnectsToParsedPort
<1>6. QED
  BY <1>1, <1>2, <1>3, <1>4, <1>5 DEF Next

\* The query ConnectToManager resolves names the port the thread's own
\* Start parsed, or one a later Start parsed -- never the unset port_ nor
\* an earlier Start's port -- even when a later Start whose port does not
\* parse runs concurrently with it.
THEOREM ConnectsToParsedPortThm == Spec => []ConnectsToParsedPort
<1>1. Init => LInv
  <2> SUFFICES ASSUME Init PROVE LInv
    OBVIOUS
  <2>1. thr \in [Threads -> ThreadStates] /\ readPort \in [Threads -> Nat]
    BY DEF Init, ThreadStates
  <2>2. starts \in 0..MaxStarts /\ port \in Nat
    BY DEF Init
  <2>3. \A i \in Threads : thr[i] = "none"
    BY DEF Init
  <2>4. QED
    BY <2>1, <2>2, <2>3 DEF LInv, ConnectsToParsedPort
<1>2. LInv => ConnectsToParsedPort
  BY DEF LInv
<1>3. QED
  BY <1>1, <1>2, StepLInv, PTL DEF Spec

=============================================================================
