------------------------ MODULE LegacyVaultController ------------------------
(***************************************************************************)
(* maidsafe::priv::VaultController (src/src/maidsafe/private/              *)
(* vault_controller.cc), the older worker agent.  Start(pid_string) parses *)
(* "<process id>-<port>" with a boost::tokenizer on "-", stores the two    *)
(* parts in process_id_ and port_, and launches boost::thread thd running  *)
(* ConnectToManager, which reads port_ and connects socket_ to it.  The    *)
(* destructor is empty: thd is neither joined nor detached.                *)
(*                                                                         *)
(* The owner thread calls Start and finally destroys the object; each      *)
(* launched thread runs ConnectToManager in two steps: line 135 (reads     *)
(* port_, writes query_) and lines 136-148 (resolve, connect socket_).     *)
(*                                                                         *)
(* A pid string is a sequence of pieces, each "-" or a word; the tokenizer *)
(* drops the separators and the empty tokens between them.  Two choices    *)
(* are fixed per build: whether BOOST_ASSERT is on (dereferencing the      *)
(* tokenizer past its end aborts; in a release build it yields "") and     *)
(* whether boost::thread's destructor and move assignment call             *)
(* std::terminate on a joinable thread (thread API v3 and later) or detach *)
(* it (v2).                                                                *)
(***************************************************************************)
EXTENDS Naturals, Sequences

CONSTANTS
    PidStrings,     \* the pid strings Start may be given
    NumeralValue,   \* the decimal numerals in use and their values
    MaxStarts       \* bound on the calls of Start

ASSUME LegacyAssumption ==
    /\ MaxStarts \in Nat \ {0}
    /\ NumeralValue \in [DOMAIN NumeralValue -> Nat]
    /\ <<>> \in PidStrings

VARIABLES
    alive,        \* the object has not been destroyed
    halted,       \* the process aborted or called std::terminate
    debugBuild,   \* BOOST_ASSERT is on
    terminateV3,  \* ~thread and operator= terminate on a joinable thread
    processId,    \* process_id_ ("" before any Start)
    port,         \* port_
    thd,          \* the thread thd holds (0: none, or not joinable)
    thr,          \* thr[i]: where the thread of the i-th Start is
    readPort,     \* readPort[i]: the port_ that thread read
    starts,       \* Start calls made
    lastPid,      \* history: the argument of the last Start
    lastRes,      \* history: what the last Start returned ("none" before)
    parsed,       \* history: <<i, p>> when the i-th Start set port_ to p
    deadUse       \* history: a thread touched a member of a destroyed object

vars == <<alive, halted, debugBuild, terminateV3, processId, port, thd, thr,
          readPort, starts, lastPid, lastRes, parsed, deadUse>>

Threads == 1..MaxStarts

-----------------------------------------------------------------------------
\* The tokens boost::char_separator<char>("-") yields: the words, in order.
Tokens(s) == SelectSeq(s, LAMBDA piece : piece # "-")

\* std::string's empty value.
EmptyString == ""

\* *it on the i-th token: the token, or past the end "" in a release build
\* and an abort ("abort") in a debug one.
Deref(toks, i) ==
    IF i <= Len(toks) THEN toks[i]
    ELSE IF debugBuild THEN "abort" ELSE EmptyString

Init ==
    /\ alive = TRUE
    /\ halted = FALSE
    /\ debugBuild \in BOOLEAN
    /\ terminateV3 \in BOOLEAN
    /\ processId = EmptyString
    /\ port = 0
    /\ thd = 0
    /\ thr = [i \in Threads |-> "none"]
    /\ readPort = [i \in Threads |-> 0]
    /\ starts = 0
    /\ lastPid = <<>>
    /\ lastRes = "none"
    /\ parsed = {}
    /\ deadUse = FALSE

\* boost::thread([=] { ConnectToManager(); }) is created, then moved into
\* thd.  If thd still holds a joinable thread, a v3 move assignment calls
\* std::terminate; v2 detaches the old thread.
Launch(i) ==
    /\ thr' = [thr EXCEPT ![i] = "start"]
    /\ thd' = i
    /\ halted' = (thd # 0 /\ terminateV3)

\* Mutant: the thread is launched even when the port does not parse.
StartLaunchOnFailure(s) ==
    /\ alive /\ ~halted
    /\ starts < MaxStarts
    /\ starts' = starts + 1
    /\ lastPid' = s
    /\ UNCHANGED <<alive, debugBuild, terminateV3, readPort, deadUse>>
    /\ IF s = <<>>
       THEN /\ lastRes' = "true"
            /\ UNCHANGED <<halted, processId, port, thd, thr, parsed>>
       ELSE LET id == Deref(Tokens(s), 1)
                p  == Deref(Tokens(s), 2)
            IN  IF id = "abort" \/ p = "abort"
                THEN /\ halted' = TRUE
                     /\ lastRes' = "none"
                     /\ UNCHANGED <<processId, port, thd, thr, parsed>>
                ELSE /\ processId' = id
                     /\ port' = IF p \in DOMAIN NumeralValue
                                THEN NumeralValue[p] ELSE port
                     /\ lastRes' = IF p \in DOMAIN NumeralValue THEN "true" ELSE "false"
                     /\ parsed' = IF p \in DOMAIN NumeralValue
                                  THEN parsed \cup {<<starts + 1, NumeralValue[p]>>}
                                  ELSE parsed
                     /\ Launch(starts + 1)

\* Start(pid_string, stop_callback): the empty string returns 1 (true) at
\* once.  Otherwise process_id_ = *it, ++it, port_ =
\* lexical_cast<uint32_t>(*it) -- which throws on "" or on a word that is
\* no numeral, and the catch returns false -- then the thread is launched
\* and true returned.  A debug build aborts on a dereference past the end.
Start(s) ==
    /\ alive /\ ~halted
    /\ starts < MaxStarts
    /\ starts' = starts + 1
    /\ lastPid' = s
    /\ UNCHANGED <<alive, debugBuild, terminateV3, readPort, deadUse>>
    /\ IF s = <<>>
       THEN /\ lastRes' = "true"
            /\ UNCHANGED <<halted, processId, port, thd, thr, parsed>>
       ELSE LET id == Deref(Tokens(s), 1)
                p  == Deref(Tokens(s), 2)
            IN  IF id = "abort" \/ p = "abort"
                THEN /\ halted' = TRUE
                     /\ lastRes' = "none"
                     /\ UNCHANGED <<processId, port, thd, thr, parsed>>
                ELSE IF p \notin DOMAIN NumeralValue
                THEN /\ processId' = id
                     /\ lastRes' = "false"
                     /\ UNCHANGED <<halted, port, thd, thr, parsed>>
                ELSE /\ processId' = id
                     /\ port' = NumeralValue[p]
                     /\ lastRes' = "true"
                     /\ parsed' = parsed \cup {<<starts + 1, NumeralValue[p]>>}
                     /\ Launch(starts + 1)

\* ~VaultController() {}: the members are destroyed, then thd's destructor
\* terminates the process (v3) or detaches the thread (v2) if it is joinable.
Destroy ==
    /\ alive /\ ~halted
    /\ alive' = FALSE
    /\ halted' = (thd # 0 /\ terminateV3)
    /\ thd' = 0
    /\ UNCHANGED <<debugBuild, terminateV3, processId, port, thr, readPort,
                   starts, lastPid, lastRes, parsed, deadUse>>

\* ConnectToManager, line 135: query_ = query("127.0.0.1", port_).
ReadPortStep(i) ==
    /\ ~halted
    /\ thr[i] = "start"
    /\ thr' = [thr EXCEPT ![i] = "connect"]
    /\ readPort' = [readPort EXCEPT ![i] = port]
    /\ deadUse' = (deadUse \/ ~alive)
    /\ UNCHANGED <<alive, halted, debugBuild, terminateV3, processId, port,
                   thd, starts, lastPid, lastRes, parsed>>

\* ConnectToManager, lines 136-148: resolve query_, close and connect
\* socket_ over the endpoints; a failure is thrown, caught and logged.
ConnectStep(i) ==
    /\ ~halted
    /\ thr[i] = "connect"
    /\ thr' = [thr EXCEPT ![i] = "done"]
    /\ deadUse' = (deadUse \/ ~alive)
    /\ UNCHANGED <<alive, halted, debugBuild, terminateV3, processId, port,
                   thd, readPort, starts, lastPid, lastRes, parsed>>

Next ==
    \/ \E s \in PidStrings : Start(s)
    \/ Destroy
    \/ \E i \in Threads : ReadPortStep(i) \/ ConnectStep(i)

Spec == Init /\ [][Next]_vars

-----------------------------------------------------------------------------
(* Properties.                                                             *)

\* The thread of the i-th Start is launched only after that Start assigned
\* port_, so ConnectToManager resolves the port that Start parsed, or one
\* a later Start parsed before the thread read port_ -- never the initial
\* port_ nor the port of an earlier Start, even when a later Start whose
\* port does not parse races with the thread.
ConnectsToParsedPort ==
    \A i \in Threads : thr[i] \in {"connect", "done"} =>
        \E j \in i..MaxStarts : <<j, readPort[i]>> \in parsed

\* The identifier format of spec 6: "<name>-<port>", two words around one
\* hyphen, the port a numeral.
WellFormed(s) ==
    /\ Len(s) = 3 /\ s[2] = "-"
    /\ s[1] # "-" /\ s[3] \in DOMAIN NumeralValue

\* Spec 4.5 step 1 and spec 7: a malformed identifier is a fatal startup
\* error, so Start returns true only for a well-formed one.
MalformedIdentifierFatal == lastRes = "true" => WellFormed(lastPid)

\* No thread launched by Start touches the object's members after the
\* object was destroyed.
NoUseAfterDestroy == ~deadUse

=============================================================================
