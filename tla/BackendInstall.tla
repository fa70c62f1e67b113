--------------------------- MODULE BackendInstall ---------------------------
(***************************************************************************)
(* The installed llama.cpp releases: how resolve_backend_binary picks a    *)
(* release, downloads, verifies, extracts and moves it into place, what a  *)
(* crash or a deletion leaves behind, and the picker that starts it.       *)
(*                                                                         *)
(* A release is the number in its tag.  A directory holds the server       *)
(* binary, libraries, the temporary archive and the extraction directory;  *)
(* each task works in the directory of its release, one file operation at  *)
(* a time.                                                                 *)
(***************************************************************************)
EXTENDS Integers, FiniteSets

CONSTANTS
    Releases,   \* numbers of the releases that can be downloaded
    Custom,     \* directories of third-party builds, installed by the user
    Libs,       \* the libraries of a release
    Sentinel,   \* the library that stands for all of them
    Default,    \* default_tag
    Tasks,      \* bound: resolutions under way at one time
    NoTask,     \* no task
    MaxCrash    \* bound: times the program ends at any place

ASSUME ReleasesAssumption == Releases \subseteq 0..999 /\ Default \in Releases
ASSUME SentinelAssumption == Sentinel \in Libs
ASSUME NamesAssumption == NoTask \notin Tasks /\ Custom \cap (Releases \cup {-1, -2}) = {}
ASSUME CrashAssumption == MaxCrash \in Nat

Tags == Releases \cup Custom
NoTag == -1
Latest == -2                    \* no version is asked for

VARIABLES
    server,     \* tag |-> the llama-server binary: none, plain or executable
    libs,       \* tag |-> the libraries in place
    tmp,        \* tag |-> the downloaded archive
    extract,    \* tag |-> the extraction directory
    pc,         \* task |-> where it is in resolve_backend_binary
    tag,        \* task |-> its release
    local,      \* task |-> what latest_local was, before GitHub answered
    progress,   \* tasks that report progress
    digest,     \* tasks that received a sha2-256 header
    result,     \* task |-> setup_res, during the clean-up
    shared,     \* history: releases that two tasks have worked on at one time
    resolving,  \* pending.backend_resolving
    handle,     \* pending.backend_resolve_handle
    frozen,     \* the task a key handler waits for: the main loop stands
    crashes

files == <<server, libs, tmp, extract>>
app == <<resolving, handle, frozen>>
task == <<pc, tag, local, progress, digest, result>>
vars == <<files, task, app, shared, crashes>>

Content == {"none", "part", "good", "corrupt"}
Places == {"idle", "local", "choose", "ready", "create", "receive", "verify", "extract",
           "extracting", "move", "libs", "check", "chmod", "clean", "ok", "error"}

TypeOK ==
    /\ server \in [Tags -> {"none", "plain", "exec"}]
    /\ libs \in [Tags -> SUBSET Libs]
    /\ tmp \in [Tags -> Content] /\ extract \in [Tags -> Content]
    /\ pc \in [Tasks -> Places]
    /\ tag \in [Tasks -> Tags \cup {NoTag}]
    /\ \A r \in Tasks : tag[r] = NoTag => pc[r] \in {"idle", "local", "choose"}
    /\ local \in [Tasks -> Releases \cup {NoTag}]
    /\ progress \subseteq Tasks /\ digest \subseteq Tasks
    /\ result \in [Tasks -> {"ok", "error"}]
    /\ resolving \in BOOLEAN /\ {handle, frozen} \subseteq Tasks \cup {NoTask}
    /\ shared \subseteq Tags /\ crashes \in 0..MaxCrash

Init ==
    /\ server = [t \in Tags |-> IF t \in Custom THEN "exec" ELSE "none"]
    /\ libs = [t \in Tags |-> {}]
    /\ tmp = [t \in Tags |-> "none"] /\ extract = [t \in Tags |-> "none"]
    /\ pc = [r \in Tasks |-> "idle"] /\ tag = [r \in Tasks |-> NoTag]
    /\ local = [r \in Tasks |-> NoTag]
    /\ progress = {} /\ digest = {} /\ result = [r \in Tasks |-> "error"]
    /\ resolving = FALSE /\ handle = NoTask /\ frozen = NoTask
    /\ shared = {} /\ crashes = 0

-----------------------------------------------------------------------------
(* Releases.                                                                *)

\* Mutant: only the binary is looked for.
ReadyWithoutLibs(t) == server[t] # "none"

\* backend_binary_ready
Ready(t) == server[t] # "none" /\ (t \in Custom \/ Sentinel \in libs[t])

\* A directory that was created, and not removed since.
Exists(t) == server[t] # "none" \/ libs[t] # {} \/ tmp[t] # "none" \/ extract[t] # "none"

\* list_installed_backends: the binary is enough to be listed.
Installed == {t \in Releases : server[t] # "none"}

\* Tags are listed in descending order of their text: 9 comes before 10.
Digits(n) == IF n < 10 THEN 1 ELSE IF n < 100 THEN 2 ELSE 3
Aligned(n) == IF n < 10 THEN n * 100 ELSE IF n < 100 THEN n * 10 ELSE n
TextBefore(a, b) ==
    Aligned(a) > Aligned(b) \/ (Aligned(a) = Aligned(b) /\ Digits(a) > Digits(b))

LatestLocal ==
    IF Installed = {} THEN NoTag
    ELSE CHOOSE t \in Installed : \A u \in Installed : u = t \/ TextBefore(t, u)

\* Mutant: the release GitHub offers is not compared with the local one.
NewerLocal(a, b) == a

\* compare_versions, by number
Newer(a, b) == IF a >= b THEN a ELSE b

-----------------------------------------------------------------------------
(* A resolution.                                                            *)

GoTo(r, place) == pc' = [pc EXCEPT ![r] = place]

Working(r) == pc[r] \notin {"idle", "ok", "error"}

\* The task begins to work on a release.
Meets(r, t) ==
    shared' = IF \E s \in Tasks \ {r} : Working(s) /\ tag[s] = t THEN shared \cup {t} ELSE shared

\* The task has ended.
Forget(r) ==
    /\ GoTo(r, "idle")
    /\ tag' = [tag EXCEPT ![r] = NoTag] /\ local' = [local EXCEPT ![r] = NoTag]
    /\ progress' = progress \ {r} /\ digest' = digest \ {r}
    /\ result' = [result EXCEPT ![r] = "error"]

\* A task asks for a release, for the latest one, or for a third-party build.
Begin(r, version, reports) ==
    /\ pc[r] = "idle"
    /\ GoTo(r, IF version = Latest THEN "local" ELSE "ready")
    /\ tag' = [tag EXCEPT ![r] = IF version = Latest THEN NoTag ELSE version]
    /\ progress' = IF reports THEN progress \cup {r} ELSE progress \ {r}
    /\ Meets(r, version)
    /\ UNCHANGED <<files, local, digest, result, crashes>>

Listed(r) ==
    /\ pc[r] = "local" /\ GoTo(r, "choose")
    /\ local' = [local EXCEPT ![r] = LatestLocal]
    /\ UNCHANGED <<files, tag, progress, digest, result, app, shared, crashes>>

\* GitHub names a release; the default stands in for it when it does not.
Chosen(r) ==
    /\ pc[r] = "choose" /\ GoTo(r, "ready")
    /\ \E available \in Releases :
           /\ tag' = [tag EXCEPT ![r] = Newer(local[r], available)]
           /\ Meets(r, Newer(local[r], available))
    /\ UNCHANGED <<files, local, progress, digest, result, app, crashes>>

CheckReady(r) ==
    /\ pc[r] = "ready"
    /\ GoTo(r, IF Ready(tag[r]) THEN "ok" ELSE IF tag[r] \in Custom THEN "error" ELSE "create")
    /\ UNCHANGED <<files, tag, local, progress, digest, result, app, shared, crashes>>

\* The answer to the request, and File::create.
Create(r) ==
    /\ pc[r] = "create"
    /\ \/ /\ GoTo(r, "receive")
          /\ tmp' = [tmp EXCEPT ![tag[r]] = "part"]
          /\ digest' \in {digest, digest \cup {r}}
       \/ GoTo(r, "error") /\ UNCHANGED <<tmp, digest>>
    /\ UNCHANGED <<server, libs, extract, tag, local, progress, result, app, shared, crashes>>

\* download_file removes what it could not finish; without progress it stays.
Receive(r) ==
    /\ pc[r] = "receive"
    /\ LET t == tag[r]
       IN \/ /\ tmp[t] # "none"
             /\ GoTo(r, "verify") /\ \E c \in {"good", "corrupt"} : tmp' = [tmp EXCEPT ![t] = c]
          \/ /\ tmp[t] = "none"
             /\ GoTo(r, "error") /\ UNCHANGED tmp
          \/ /\ GoTo(r, "error")
             /\ tmp' = IF r \in progress THEN [tmp EXCEPT ![t] = "none"] ELSE tmp
    /\ UNCHANGED <<server, libs, extract, tag, local, progress, digest, result, app, shared, crashes>>

Fails(r) == result' = [result EXCEPT ![r] = "error"] /\ GoTo(r, "clean")

\* Mutant: what was received is not compared with its digest.
VerifyNothing(r) ==
    /\ pc[r] = "verify"
    /\ GoTo(r, "extract") /\ UNCHANGED result
    /\ UNCHANGED <<files, tag, local, progress, digest, app, shared, crashes>>

Verify(r) ==
    /\ pc[r] = "verify"
    /\ IF tmp[tag[r]] = "none" \/ (r \in digest /\ tmp[tag[r]] # "good")
       THEN Fails(r)
       ELSE GoTo(r, "extract") /\ UNCHANGED result
    /\ UNCHANGED <<files, tag, local, progress, digest, app, shared, crashes>>

\* extract_archive begins; a link left by an earlier extraction is an error.
Extract(r) ==
    /\ pc[r] = "extract"
    /\ LET t == tag[r]
       IN \/ /\ tmp[t] # "none"
             /\ extract' = [extract EXCEPT ![t] = "part"]
             /\ GoTo(r, "extracting") /\ UNCHANGED result
          \/ /\ tmp[t] = "none" \/ extract[t] # "none"
             /\ Fails(r) /\ UNCHANGED extract
    /\ UNCHANGED <<server, libs, tmp, tag, local, progress, digest, app, shared, crashes>>

\* An archive that is not whole cannot be read to its end, or is taken as it is.
Extracted(r) ==
    /\ pc[r] = "extracting"
    /\ LET t == tag[r]
       IN \/ /\ tmp[t] \in {"good", "corrupt"} /\ extract[t] # "none"
             /\ extract' = [extract EXCEPT ![t] = tmp[t]]
             /\ GoTo(r, "move") /\ UNCHANGED result
          \/ Fails(r) /\ UNCHANGED extract
    /\ UNCHANGED <<server, libs, tmp, tag, local, progress, digest, app, shared, crashes>>

\* The binary is renamed into place; an archive may have none, or an empty one.
Move(r) ==
    /\ pc[r] = "move"
    /\ LET t == tag[r]
       IN \/ /\ extract[t] # "none"
             /\ server' = [server EXCEPT ![t] = "plain"]
             /\ \/ GoTo(r, "libs") /\ UNCHANGED result
                \/ extract[t] = "corrupt" /\ Fails(r)
          \/ extract[t] # "good" /\ Fails(r) /\ UNCHANGED server
    /\ UNCHANGED <<libs, tmp, extract, tag, local, progress, digest, app, shared, crashes>>

\* The libraries are copied one by one; a copy that fails is passed over.
CopyLib(r) ==
    /\ pc[r] = "libs"
    /\ \E lib \in Libs \ libs[tag[r]] : libs' = [libs EXCEPT ![tag[r]] = @ \cup {lib}]
    /\ extract[tag[r]] # "none"
    /\ UNCHANGED <<server, tmp, extract, pc, tag, local, progress, digest, result, app, shared, crashes>>

LibsCopied(r) ==
    /\ pc[r] = "libs" /\ GoTo(r, "check")
    /\ UNCHANGED <<files, tag, local, progress, digest, result, app, shared, crashes>>

\* Mutant: an archive without the library is accepted.
CheckNothing(r) ==
    /\ pc[r] = "check" /\ GoTo(r, "chmod") /\ UNCHANGED result
    /\ UNCHANGED <<files, tag, local, progress, digest, app, shared, crashes>>

CheckLibs(r) ==
    /\ pc[r] = "check"
    /\ IF Sentinel \in libs[tag[r]] THEN GoTo(r, "chmod") /\ UNCHANGED result ELSE Fails(r)
    /\ UNCHANGED <<files, tag, local, progress, digest, app, shared, crashes>>

Chmod(r) ==
    /\ pc[r] = "chmod"
    /\ IF server[tag[r]] = "none"
       THEN Fails(r) /\ UNCHANGED server
       ELSE /\ server' = [server EXCEPT ![tag[r]] = "exec"]
            /\ result' = [result EXCEPT ![r] = "ok"] /\ GoTo(r, "clean")
    /\ UNCHANGED <<libs, tmp, extract, tag, local, progress, digest, app, shared, crashes>>

\* Mutant: the extraction directory is kept after a failure.
CleanSuccess(r) ==
    /\ pc[r] = "clean" /\ GoTo(r, result[r])
    /\ tmp' = [tmp EXCEPT ![tag[r]] = "none"]
    /\ extract' = IF result[r] = "ok" THEN [extract EXCEPT ![tag[r]] = "none"] ELSE extract
    /\ UNCHANGED <<server, libs, tag, local, progress, digest, result, app, shared, crashes>>

\* Whatever happened, the archive and the extraction directory go.
Clean(r) ==
    /\ pc[r] = "clean" /\ GoTo(r, result[r])
    /\ tmp' = [tmp EXCEPT ![tag[r]] = "none"]
    /\ extract' = [extract EXCEPT ![tag[r]] = "none"]
    /\ UNCHANGED <<server, libs, tag, local, progress, digest, result, app, shared, crashes>>

-----------------------------------------------------------------------------
(* The app.                                                                 *)

\* Enter in the picker: an installed release only ends the waiting.
PickerEnter(r, version) ==
    /\ UNCHANGED frozen
    /\ IF version # Latest /\ Ready(version)
       THEN /\ resolving' = FALSE
            /\ UNCHANGED <<files, task, handle, shared, crashes>>
       ELSE /\ Begin(r, version, TRUE)
            /\ resolving' = TRUE /\ handle' = r

\* A load, refused while the picker installs; its spawn task resolves.
Load(r, version) ==
    /\ ~resolving /\ version \notin Custom
    /\ Begin(r, version, TRUE) /\ UNCHANGED app

\* Ctrl+K, the command palette and the device list resolve without progress, in
\* the key handler: no other key and no tick is served until they have answered.
Resolve(r, version) ==
    /\ Begin(r, version, FALSE)
    /\ frozen' = r /\ UNCHANGED <<resolving, handle>>

\* A task that is not the picker's has answered.
Answered(r) ==
    /\ pc[r] \in {"ok", "error"} /\ r # handle
    /\ Forget(r)
    /\ frozen' = IF frozen = r THEN NoTask ELSE frozen
    /\ UNCHANGED <<files, resolving, handle, shared, crashes>>

\* Mutant: only an installation that worked ends the waiting.
TickIfInstalled ==
    /\ frozen = NoTask /\ handle # NoTask /\ pc[handle] \in {"ok", "error"}
    /\ Forget(handle)
    /\ handle' = NoTask /\ resolving' = (resolving /\ pc[handle] = "error")
    /\ UNCHANGED <<files, frozen, shared, crashes>>

TickBackendResolution ==
    /\ frozen = NoTask /\ handle # NoTask /\ pc[handle] \in {"ok", "error"}
    /\ Forget(handle)
    /\ handle' = NoTask /\ resolving' = FALSE
    /\ UNCHANGED <<files, frozen, shared, crashes>>

\* A confirmed deletion, also of a directory a task works in.
DeleteBackend(t) ==
    /\ Exists(t)
    /\ server' = [server EXCEPT ![t] = "none"] /\ libs' = [libs EXCEPT ![t] = {}]
    /\ tmp' = [tmp EXCEPT ![t] = "none"] /\ extract' = [extract EXCEPT ![t] = "none"]
    /\ UNCHANGED <<task, app, shared, crashes>>

\* The program ends anywhere and is started again; the files stay.
Crash ==
    /\ crashes < MaxCrash /\ crashes' = crashes + 1
    /\ pc' = [r \in Tasks |-> "idle"] /\ tag' = [r \in Tasks |-> NoTag]
    /\ local' = [r \in Tasks |-> NoTag]
    /\ progress' = {} /\ digest' = {} /\ result' = [r \in Tasks |-> "error"]
    /\ resolving' = FALSE /\ handle' = NoTask /\ frozen' = NoTask /\ UNCHANGED <<files, shared>>

TaskStep(r) ==
    \/ Listed(r) \/ Chosen(r) \/ CheckReady(r) \/ Create(r) \/ Receive(r)
    \/ Verify(r) \/ Extract(r) \/ Extracted(r) \/ Move(r) \/ CopyLib(r) \/ LibsCopied(r)
    \/ CheckLibs(r) \/ Chmod(r) \/ Clean(r)

Key ==
    /\ frozen = NoTask
    /\ \E version \in Tags \cup {Latest} :
          \/ \E r \in Tasks : PickerEnter(r, version) \/ Load(r, version) \/ Resolve(r, version)
          \/ version \in Tags /\ DeleteBackend(version)

Next ==
    \/ \E r \in Tasks : TaskStep(r) \/ Answered(r)
    \/ Key \/ TickBackendResolution \/ Crash

Spec == Init /\ [][Next]_vars

(***************************************************************************)
(* Fairness: a server that took a request answers it or closes, and the    *)
(* rest of a resolution is work on files.  The body of an answer may       *)
(* stall; only download_file, the way with progress, gives up after 60     *)
(* seconds.  The loop turns for ever unless a key handler waits.           *)
(***************************************************************************)
TimedStep(r) == (pc[r] = "receive" => r \in progress) /\ TaskStep(r)

FairSpec ==
    /\ Spec
    /\ \A r \in Tasks : WF_vars(TimedStep(r)) /\ WF_vars(Answered(r))
    /\ WF_vars(TickBackendResolution)

-----------------------------------------------------------------------------
(***************************************************************************)
(* Properties.                                                             *)
(***************************************************************************)

\* What is moved into place was received whole and is what GitHub announced, if
\* it announced anything; leftovers of a run that crashed are never used for it.
\* Two tasks on one release share its archive and its extraction: nothing of this
\* holds for them.
OnlyVerifiedMoves ==
    \A r \in Tasks :
        pc[r] \in {"move", "libs", "check", "chmod"} /\ r \in digest /\ tag[r] \notin shared
            => extract[tag[r]] \in {"good", "none"}

\* A task that reports an installation leaves a binary that can be started, its
\* library and no archive, whatever a crash left in the directory before.
InstallationIsWhole ==
    [][\A r \in Tasks :
          pc[r] = "clean" /\ pc'[r] = "ok" /\ tag[r] \notin shared
              => \/ server[tag[r]] = "exec" /\ Sentinel \in libs[tag[r]] /\ tmp'[tag[r]] = "none"
                 \/ ~Exists(tag[r])]_vars

\* Loads are not refused for ever: the picker's waiting ends, also after a failure
\* or a restart, unless the user passes it to newer tasks for ever.  A key handler
\* that waits for a download of its own stops everything, and when that stalls
\* without a timeout, for ever.
ResolvingEnds ==
    []<>(~resolving \/ frozen # NoTask) \/ []<><<handle' # handle>>_vars

\* The same without fairness: while loads are refused there is a task whose answer the
\* tick waits for, one with the timeout of a download that reports progress; and the
\* loop never stands for a task whose answer only its tick could take.
WaitsForATask ==
    /\ resolving => handle # NoTask
    /\ handle # NoTask => pc[handle] # "idle" /\ handle \in progress
    /\ frozen # NoTask => pc[frozen] # "idle" /\ frozen # handle

\* Whatever failed on the way, an extraction is gone when nobody works with it: a
\* later one would fail at its links.  Only a crash, or a second task, leaves one.
NoExtractionStays ==
    crashes = 0 =>
        \A t \in Releases \ shared :
            extract[t] # "none" => \E r \in Tasks : Working(r) /\ tag[r] = t

\* What resolve_backend_binary calls ready can be started: it is executable and
\* has its libraries.
ReadyIsRunnable ==
    \A t \in Releases :
        Ready(t) /\ (\A r \in Tasks : Working(r) => tag[r] # t)
            => server[t] = "exec" /\ libs[t] = Libs

\* The latest release is never older than one that is installed.
LatestIsNewest ==
    [][\A r \in Tasks :
          pc[r] = "choose" /\ pc'[r] = "ready"
              => \A t \in Installed : tag'[r] >= t]_vars
=============================================================================
