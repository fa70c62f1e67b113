------------------------------- MODULE TlsCerts -------------------------------
(***************************************************************************)
(* ensure_tls_certs: the certificates the program makes for itself.  A     *)
(* call writes a certificate authority, then a server certificate and its  *)
(* key beside their final names, renames both, loads them to validate them *)
(* and writes the version last.  The terminal program and the headless     *)
(* mode share the directory, and either may end anywhere.                  *)
(***************************************************************************)
EXTENDS Naturals

CONSTANTS
    Programs,   \* processes that may call it at the same time
    MaxPairs,   \* bound: key pairs generated
    MaxFaults   \* bound: crashes and damaged or deleted files

Missing == 0
Pairs == 1..MaxPairs            \* a pair: a certificate and its key
Files == {"ca", "caKey", "cert", "key", "tmpCert", "tmpKey"}

VARIABLES
    file,       \* file |-> the pair whose half it holds, or Missing
    version,    \* the version file holds TLS_VERSION
    call,         \* program |-> where its call is
    made,       \* program |-> the pair its call has generated
    pairs,      \* pairs generated so far
    faults,     \* faults so far
    lone        \* history: programs whose call met no other call

vars == <<file, version, call, made, pairs, faults, lone>>

Places == {"idle", "check", "authority", "caKey", "generate", "tmpKey", "cert", "key", "validate",
           "version", "ok", "error"}

TypeOK ==
    /\ file \in [Files -> Pairs \cup {Missing}] /\ version \in BOOLEAN
    /\ call \in [Programs -> Places] /\ made \in [Programs -> Pairs \cup {Missing}]
    /\ pairs \in 0..MaxPairs /\ faults \in 0..MaxFaults /\ lone \subseteq Programs

Init ==
    /\ file = [f \in Files |-> Missing] /\ version = FALSE
    /\ call = [p \in Programs |-> "idle"] /\ made = [p \in Programs |-> Missing]
    /\ pairs = 0 /\ faults = 0 /\ lone = {}

InCall(p) == call[p] \notin {"idle", "ok", "error"}
GoTo(p, place) == call' = [call EXCEPT ![p] = place]
Write(f, pair) == file' = [file EXCEPT ![f] = pair]

\* try_load_tls: both files are there and rustls finds that they belong together.
Loads == file["cert"] # Missing /\ file["cert"] = file["key"]

\* The authority is looked at as DER, and the file holds PEM: parsing always fails.
ParsesAuthority == FALSE

-----------------------------------------------------------------------------
Call(p) ==
    /\ ~InCall(p) /\ GoTo(p, "check")
    /\ LET others == {q \in Programs \ {p} : InCall(q)}
       IN lone' = IF others = {} THEN lone \cup {p} ELSE lone \ (others \cup {p})
    /\ UNCHANGED <<file, version, made, pairs, faults>>

\* Mutant: the version file vouches for the pair.
CheckVersionOnly(p) ==
    /\ call[p] = "check"
    /\ GoTo(p, IF version THEN "ok" ELSE "authority")
    /\ UNCHANGED <<file, version, made, pairs, faults, lone>>

Check(p) ==
    /\ call[p] = "check"
    /\ GoTo(p, IF version /\ Loads THEN "ok" ELSE "authority")
    /\ UNCHANGED <<file, version, made, pairs, faults, lone>>

\* An authority that is there is parsed for its expiry, else one is generated.
Authority(p) ==
    /\ call[p] = "authority"
    /\ IF file["ca"] # Missing /\ file["caKey"] # Missing
       THEN /\ GoTo(p, IF ParsesAuthority THEN "generate" ELSE "error")
            /\ UNCHANGED <<file, pairs, made>>
       ELSE /\ pairs < MaxPairs /\ pairs' = pairs + 1
            /\ made' = [made EXCEPT ![p] = pairs + 1]
            /\ Write("ca", pairs + 1) /\ GoTo(p, "caKey")
    /\ UNCHANGED <<version, faults, lone>>

AuthorityKey(p) ==
    /\ call[p] = "caKey"
    /\ Write("caKey", made[p]) /\ GoTo(p, "generate")
    /\ UNCHANGED <<version, made, pairs, faults, lone>>

\* Mutant: the pairs are not counted.
GenerateAgain(p) ==
    /\ call[p] = "generate" /\ pairs' = pairs + 1
    /\ made' = [made EXCEPT ![p] = pairs + 1]
    /\ Write("tmpCert", pairs + 1) /\ GoTo(p, "tmpKey")
    /\ UNCHANGED <<version, faults, lone>>

Generate(p) ==
    /\ call[p] = "generate" /\ pairs < MaxPairs /\ pairs' = pairs + 1
    /\ made' = [made EXCEPT ![p] = pairs + 1]
    /\ Write("tmpCert", pairs + 1) /\ GoTo(p, "tmpKey")
    /\ UNCHANGED <<version, faults, lone>>

WriteKey(p) ==
    /\ call[p] = "tmpKey"
    /\ Write("tmpKey", made[p]) /\ GoTo(p, "cert")
    /\ UNCHANGED <<version, made, pairs, faults, lone>>

\* fs::rename, an error when another call has renamed the file before.
Rename(p, from, to, next) ==
    /\ IF file[from] = Missing
       THEN GoTo(p, "error") /\ UNCHANGED file
       ELSE /\ file' = [file EXCEPT ![to] = file[from], ![from] = Missing]
            /\ GoTo(p, next)
    /\ UNCHANGED <<version, made, pairs, faults, lone>>

RenameCert(p) == call[p] = "cert" /\ Rename(p, "tmpCert", "cert", "key")
RenameKey(p) == call[p] = "key" /\ Rename(p, "tmpKey", "key", "validate")

\* What does not load is removed, and the call starts again.
Validate(p) ==
    /\ call[p] = "validate"
    /\ IF Loads THEN GoTo(p, "version") /\ UNCHANGED <<file, version>>
       ELSE /\ file' = [file EXCEPT !["cert"] = Missing, !["key"] = Missing]
            /\ version' = FALSE /\ GoTo(p, "check")
    /\ UNCHANGED <<made, pairs, faults, lone>>

WriteVersion(p) ==
    /\ call[p] = "version" /\ version' = TRUE /\ GoTo(p, "ok")
    /\ UNCHANGED <<file, made, pairs, faults, lone>>

\* The program ends anywhere.
Crash(p) ==
    /\ InCall(p) /\ faults < MaxFaults /\ faults' = faults + 1
    /\ GoTo(p, "idle")
    /\ UNCHANGED <<file, version, made, pairs, lone>>

\* Between calls a file of the pair is deleted, damaged, or of another version.
Damage ==
    /\ \A p \in Programs : ~InCall(p)
    /\ faults < MaxFaults /\ faults' = faults + 1
    /\ \/ \E f \in {"cert", "key"} : Write(f, Missing) /\ UNCHANGED version
       \/ version' = FALSE /\ UNCHANGED file
    /\ call' = [p \in Programs |-> "idle"]
    /\ UNCHANGED <<made, pairs, lone>>

Next ==
    \/ \E p \in Programs :
        \/ Call(p) \/ Check(p) \/ Authority(p) \/ AuthorityKey(p) \/ Generate(p) \/ WriteKey(p)
        \/ RenameCert(p) \/ RenameKey(p) \/ Validate(p) \/ WriteVersion(p) \/ Crash(p)
    \/ Damage

Spec == Init /\ [][Next]_vars

-----------------------------------------------------------------------------
(***************************************************************************)
(* Properties.                                                             *)
(***************************************************************************)

\* The certificate and the key a call returns are there and belong together,
\* whatever calls before it left behind, wherever they ended, as long as the call
\* met no other.
PairIsWhole ==
    \A p \in Programs :
        call[p] = "ok" /\ (\A q \in Programs : ~InCall(q)) /\ p \in lone => Loads

\* Certificates that are damaged or of another version are made again: a call that
\* met no other does not fail.
Regenerates == \A p \in lone : call[p] # "error"
=============================================================================
