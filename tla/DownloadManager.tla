--------------------------- MODULE DownloadManager ---------------------------
(***************************************************************************)
(* maidsafe::DownloadManager (src/src/maidsafe/private/download_manager.cc)*)
(* looks for an update of one program on an HTTP server.  The constructor  *)
(* resolves and connects socket_ once.  Exists() fetches "/file_list",     *)
(* reads it to EOF and keeps the first line FileIsUseful accepts;          *)
(* UpdateCurrentFile() fetches that file over the same socket and copies   *)
(* the body into a local file, one read of at most 1024 bytes at a time.   *)
(*                                                                         *)
(* A line of the file list is modelled by the tokens boost::tokenizer      *)
(* splits it into at "_" (NAME_PLATFORM_CPU_VERSION_PATCH); a token is a   *)
(* model value or a number.  Every request carries "Connection: close", so *)
(* the server closes socket_ after its first response.  A file body is a   *)
(* sequence of 1024-byte blocks.  The object is used from one thread.      *)
(***************************************************************************)
EXTENDS Naturals, Sequences, SequencesExt

CONSTANTS
    Name, Platform, Cpu,  \* name_, platform_, cpu_size_
    Lines,                \* the lines (token sequences) a file list may hold
    NumeralValue,         \* the decimal numerals in use and their values
    MaxLines,             \* bound on the length of the file list
    CurrentVersions,      \* values of current_version_ ("" or a number)
    CurrentPatchlevels,   \* values of current_patchlevel_ ("" or a number)
    Body,                 \* the blocks of the file the server serves
    MaxCalls              \* bound on the calls made on the object

ASSUME DownloadAssumption ==
    /\ MaxLines \in Nat /\ MaxCalls \in Nat
    /\ Body \in Seq({"b1", "b2", "b3"})
    /\ NumeralValue \in [DOMAIN NumeralValue -> Nat]
    /\ CurrentVersions \subseteq DOMAIN NumeralValue \cup {""}
    /\ CurrentPatchlevels \subseteq DOMAIN NumeralValue \cup {""}

VARIABLES
    fileList,     \* what the server's /file_list holds
    curVersion,   \* current_version_
    curPatch,     \* current_patchlevel_
    sock,         \* socket_: "fresh" until a request was sent on it
    fileToDownload,  \* file_to_download_ as tokens (<< >> is "")
    existsRes,    \* how the last Exists() ended ("none" before any call)
    out,          \* what the last UpdateCurrentFile() wrote to the file
    updateRes,    \* what the last UpdateCurrentFile() returned
    faulted,      \* history: the server or the network failed a request
    calls         \* calls made so far

vars == <<fileList, curVersion, curPatch, sock, fileToDownload, existsRes,
          out, updateRes, faulted, calls>>

\* The ways Exists() ends: GetFileBuffer or the read failed ("failed"),
\* no line was useful ("noneFound"), FileIsUseful threw, or a file was
\* chosen.  The first two return false, the last true.
ExistsResults == {"none", "failed", "noneFound", "throws", "found"}

-----------------------------------------------------------------------------
(* FileIsUseful, a pure function of one line.                              *)

\* uint32_t's range: boost::lexical_cast<uint32_t> accepts "-1" and wraps.
U32Max == 2^32 - 1

\* The i-th token of a line.  Dereferencing the tokenizer past its end is
\* undefined; in a release build it yields the empty token.
Tok(line, i) == IF i <= Len(line) THEN line[i] ELSE ""

\* boost::lexical_cast<uint32_t>(t) succeeds on a decimal numeral and on
\* "-1", which it wraps; on anything else it throws.
Parses(t) == t \in DOMAIN NumeralValue \/ t = "-1"
U32(t) == IF t = "-1" THEN U32Max ELSE NumeralValue[t]

\* FileIsUseful(file) returns true ("accept") or false ("reject"), or
\* throws bad_lexical_cast ("throws").  Each test is one early return.
FileIsUseful(line) ==
    IF Tok(line, 1) # Name THEN "reject"
    ELSE IF Tok(line, 2) # Platform THEN "reject"
    ELSE IF Tok(line, 3) # Cpu THEN "reject"
    ELSE IF ~Parses(Tok(line, 4)) THEN "throws"
    ELSE IF curVersion = "" THEN "accept"
    ELSE IF U32(Tok(line, 4)) < U32(curVersion) THEN "reject"
    ELSE IF ~Parses(Tok(line, 5)) THEN "throws"
    ELSE IF curPatch = "" THEN "accept"
    ELSE IF U32(Tok(line, 5)) <= U32(curPatch) THEN "reject"
    ELSE "accept"

\* The loop of Exists(): the index of the first line FileIsUseful does not
\* reject (0 if there is none).
FirstNotRejected(list) ==
    LET hits == {i \in 1..Len(list) : FileIsUseful(list[i]) # "reject"}
    IN  IF hits = {} THEN 0 ELSE CHOOSE i \in hits : \A j \in hits : i <= j

\* What the read loop of UpdateCurrentFile() has written after k reads of
\* one block each: current_block_stream accumulates, and after every read
\* the whole accumulated string is written again.
Written(k) == FlattenSeq([i \in 1..k |-> SubSeq(Body, 1, i)])

-----------------------------------------------------------------------------
(* The object's calls.                                                     *)

\* The constructor connected socket_ (a failure throws before the object
\* exists).  The server's list and the current version are inputs.
Init ==
    /\ fileList \in UNION {[1..n -> Lines] : n \in 0..MaxLines}
    /\ curVersion \in CurrentVersions
    /\ curPatch \in CurrentPatchlevels
    /\ sock = "fresh"
    /\ fileToDownload = << >>
    /\ existsRes = "none"
    /\ out = << >>
    /\ updateRes = "none"
    /\ faulted = FALSE
    /\ calls = 0

\* GetFileBuffer: write the GET, read the status line and the headers.  On
\* a fresh socket the server answers 200 or fails.  It closes the
\* connection after a response ("Connection: close"), and socket_ is never
\* reconnected, so every later request on it fails.
GetFileBufferOutcomes == IF sock = "fresh" THEN BOOLEAN ELSE {FALSE}

\* A failure the server or the network chose, as opposed to one the code
\* brings on itself by reusing a closed socket.
Fault(ok) == faulted' = (faulted \/ (sock = "fresh" /\ ~ok))

\* Mutant: Exists() with its call bound checked one call too late.
ExistsOffByOne ==
    /\ calls <= MaxCalls
    /\ calls' = calls + 1
    /\ sock' = "used"
    /\ \E fetched \in GetFileBufferOutcomes, readToEof \in BOOLEAN :
          LET i == FirstNotRejected(fileList)
          IN  /\ Fault(fetched /\ readToEof)
              /\ IF ~(fetched /\ readToEof) THEN existsRes' = "failed"
                 ELSE IF i = 0 THEN existsRes' = "noneFound"
                 ELSE IF FileIsUseful(fileList[i]) = "throws"
                      THEN existsRes' = "throws"
                 ELSE existsRes' = "found"
              /\ fileToDownload' = IF existsRes' = "found" THEN fileList[i]
                                                          ELSE << >>
    /\ UNCHANGED <<fileList, curVersion, curPatch, out, updateRes>>

\* Exists(): reset file_to_download_, fetch the list, read it to EOF (any
\* other error returns false), then take the first line FileIsUseful does
\* not reject; a throw from FileIsUseful leaves Exists().
Exists ==
    /\ calls < MaxCalls
    /\ calls' = calls + 1
    /\ sock' = "used"
    /\ \E fetched \in GetFileBufferOutcomes, readToEof \in BOOLEAN :
          LET i == FirstNotRejected(fileList)
          IN  /\ Fault(fetched /\ readToEof)
              /\ IF ~(fetched /\ readToEof) THEN existsRes' = "failed"
                 ELSE IF i = 0 THEN existsRes' = "noneFound"
                 ELSE IF FileIsUseful(fileList[i]) = "throws"
                      THEN existsRes' = "throws"
                 ELSE existsRes' = "found"
              /\ fileToDownload' = IF existsRes' = "found" THEN fileList[i]
                                                          ELSE << >>
    /\ UNCHANGED <<fileList, curVersion, curPatch, out, updateRes>>

\* UpdateCurrentFile(directory): fetch "/" + file_to_download_, open the
\* local file (with no file chosen the path is the directory itself, which
\* no ofstream opens), then loop on read(socket_, buffer of 1024).  k reads
\* return a block; the loop then ends either on a read that returns data
\* with an error other than EOF (return false) or on a read that returns
\* nothing, at EOF or on a reset before the body is complete (return true).
UpdateCurrentFile ==
    /\ calls < MaxCalls
    /\ calls' = calls + 1
    /\ sock' = "used"
    /\ \E fetched \in GetFileBufferOutcomes :
          IF ~fetched \/ fileToDownload = << >>
          THEN /\ updateRes' = "false"
               /\ out' = << >>
               /\ Fault(fetched)
          ELSE \E k \in 0..Len(Body), reset \in BOOLEAN :
                  /\ out' = Written(k)
                  /\ updateRes' = IF reset /\ k < Len(Body) THEN "false" ELSE "true"
                  /\ Fault(~reset)
    /\ UNCHANGED <<fileList, curVersion, curPatch, fileToDownload, existsRes>>

Next == Exists \/ UpdateCurrentFile

Spec == Init /\ [][Next]_vars

-----------------------------------------------------------------------------
(* Properties.                                                             *)

TypeOK ==
    /\ fileList \in UNION {[1..n -> Lines] : n \in 0..MaxLines}
    /\ curVersion \in CurrentVersions
    /\ curPatch \in CurrentPatchlevels
    /\ sock \in {"fresh", "used"}
    /\ fileToDownload \in Lines \cup {<< >>}
    /\ existsRes \in ExistsResults
    /\ out \in {Written(k) : k \in 0..Len(Body)} \cup {<< >>}
    /\ updateRes \in {"none", "true", "false"}
    /\ faulted \in BOOLEAN
    /\ calls \in 0..MaxCalls

\* The reference the header's comments describe: a line names this
\* program's name, platform and cpu size and a more recent release, the
\* version and the patchlevel compared in that order; an empty current
\* version or patchlevel accepts any.
MoreRecent(line) ==
    /\ Tok(line, 1) = Name /\ Tok(line, 2) = Platform /\ Tok(line, 3) = Cpu
    /\ Tok(line, 4) \in DOMAIN NumeralValue
    /\ \/ curVersion = ""
       \/ NumeralValue[Tok(line, 4)] > NumeralValue[curVersion]
       \/ /\ NumeralValue[Tok(line, 4)] = NumeralValue[curVersion]
          /\ \/ curPatch = ""
             \/ /\ Tok(line, 5) \in DOMAIN NumeralValue
                /\ NumeralValue[Tok(line, 5)] > NumeralValue[curPatch]

\* Exists() logs "Found more recent version" when it returns true and "No
\* more recent version ... exists" when no line is useful: the chosen line
\* is more recent, and when none was found no line of the list is.
ExistsFindsMoreRecent ==
    /\ existsRes = "found" => MoreRecent(fileToDownload)
    /\ existsRes = "noneFound" =>
          \A i \in DOMAIN fileList : ~MoreRecent(fileList[i])

\* After Exists() found a file, UpdateCurrentFile() fails only when the
\* server or the network failed a request.
DownloadFailsOnlyOnFault ==
    existsRes = "found" /\ updateRes = "false" => faulted

=============================================================================
