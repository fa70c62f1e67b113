------------------------- MODULE BackendInstallProofs -------------------------
(***************************************************************************)
(* What is moved into place was verified, what is reported as installed is *)
(* whole, no extraction outlives its task, and the app waits for nobody    *)
(* who could not answer, for any number of tasks, releases, libraries and  *)
(* crashes. Of the first two a release is left out as soon as two tasks    *)
(* have worked on it at one time.                                          *)
(***************************************************************************)
EXTENDS BackendInstall, WellFoundedInduction, TLAPS

\* The types the argument needs.
Typed ==
    /\ tmp \in [Tags -> Content] /\ extract \in [Tags -> Content]
    /\ pc \in [Tasks -> Places]
    /\ tag \in [Tasks -> Tags \cup {NoTag}]
    /\ local \in [Tasks -> Releases \cup {NoTag}]
    /\ result \in [Tasks -> {"ok", "error"}]
    /\ \A r \in Tasks : tag[r] = NoTag => pc[r] \in {"idle", "local", "choose"}

\* Two tasks that work on one release were seen together by the one that met the
\* other: it is in shared for ever.
Exclusive ==
    \A r, s \in Tasks :
        r # s /\ Working(r) /\ Working(s) /\ tag[r] = tag[s] /\ tag[r] # NoTag => tag[r] \in shared

\* Of a task that received a digest: after the verification its archive is the one
\* GitHub announced, until the task has extracted it.
Verified ==
    \A r \in Tasks :
        pc[r] \in {"extract", "extracting"} /\ r \in digest /\ tag[r] \notin shared
            => tmp[tag[r]] \in {"good", "none"}

\* Both of what was verified and of what is moved, for one task.
Safe(r) ==
    r \in digest /\ tag[r] \notin shared =>
        /\ pc[r] \in {"extract", "extracting"} => tmp[tag[r]] \in {"good", "none"}
        /\ pc[r] \in {"move", "libs", "check", "chmod"} => extract[tag[r]] \in {"good", "none"}

\* The inductive invariant of the first two theorems.
IInv == Typed /\ Exclusive /\ Verified /\ OnlyVerifiedMoves

-----------------------------------------------------------------------------
\* No task works at first.
LEMMA InitEstablishes == Init => IInv
<1> SUFFICES ASSUME Init PROVE IInv
  OBVIOUS
<1>1. Typed
  BY DEF Init, Typed, Content, Places
<1>2. Exclusive /\ Verified /\ OnlyVerifiedMoves
  BY DEF Init, Exclusive, Verified, OnlyVerifiedMoves, Working
<1> QED
  BY <1>1, <1>2 DEF IInv

\* A working task has a release once it has chosen.
LEMMA HasTag ==
    ASSUME Typed, NEW r \in Tasks, pc[r] \notin {"idle", "local", "choose"}
    PROVE  tag[r] \in Tags
  BY DEF Typed

\* A set of numbers has a least one.
LEMMA LeastNumber ==
    ASSUME NEW T, T \subseteq Nat, T # {} PROVE \E x \in T : \A y \in T : x <= y
<1>1. \E x \in T : \A y \in T : ~ (<<y, x>> \in OpToRel(<, Nat))
  BY NatLessThanWellFounded, WFMin
<1>2. \A x, y \in Nat : <<y, x>> \in OpToRel(<, Nat) <=> y < x
  BY DEF OpToRel
<1>3. PICK x \in T : \A y \in T : ~ (<<y, x>> \in OpToRel(<, Nat))
  BY <1>1
<1>4. \A y \in T : ~(y < x)
  BY <1>2, <1>3
<1>5. x \in Nat /\ \A y \in T : y \in Nat
  OBVIOUS
<1> QED
  BY <1>4, <1>5

\* The order of the tags is one: the installed releases have a first, so LatestLocal
\* is one of them.
LEMMA LatestLocalType == LatestLocal \in Releases \cup {NoTag}
<1> DEFINE Rank(n) == 4 * (999 - Aligned(n)) + (3 - Digits(n))
<1>1. \A n \in Releases : Rank(n) \in Nat /\ Aligned(n) \in 0 .. 999 /\ Digits(n) \in 1 .. 3
  BY ReleasesAssumption DEF Aligned, Digits
<1>2. \A a, b \in Releases : Rank(a) <= Rank(b) => a = b \/ TextBefore(a, b)
  BY ReleasesAssumption DEF Aligned, Digits, TextBefore
<1> HIDE DEF Rank
<1>3. CASE Installed # {}
  <2>1. PICK t \in Installed : \A u \in Installed : Rank(t) <= Rank(u)
    <3> DEFINE ranks == {Rank(t) : t \in Installed}
    <3>1. ranks \subseteq Nat /\ ranks # {}
      BY <1>1, <1>3 DEF Installed
    <3>2. PICK x \in ranks : \A y \in ranks : x <= y
      <4> HIDE DEF ranks
      <4> QED
        BY <3>1, LeastNumber
    <3> QED
      BY <3>2
  <2>2. \A u \in Installed : u = t \/ TextBefore(t, u)
    BY <1>2, <2>1 DEF Installed
  <2> QED
    BY <1>3, <2>2 DEF LatestLocal, Installed
<1> QED
  BY <1>3 DEF LatestLocal

-----------------------------------------------------------------------------
(* One step of one task.                                                   *)

\* A task that works touches the directory of its release only.  Another task in the
\* same one has met it, so the release is shared and nothing is said of either.
LEMMA WorkKeeps ==
    ASSUME IInv, NEW r \in Tasks, Working(r), tag[r] \in Tags, tag' = tag, shared' = shared,
           Typed', Safe(r)',
           \A s \in Tasks \ {r} : pc'[s] = pc[s] /\ (s \in digest' => s \in digest),
           \A t \in Tags \ {tag[r]} : tmp'[t] = tmp[t] /\ extract'[t] = extract[t]
    PROVE  IInv'
<1>1. Exclusive'
  <2>1. SUFFICES ASSUME NEW a \in Tasks, NEW b \in Tasks, a # b, Working(a)', Working(b)',
                        tag[a] = tag[b], tag[a] # NoTag
                 PROVE  tag[a] \in shared
    BY DEF Exclusive
  <2>2. Working(a) /\ Working(b)
    BY <2>1 DEF Working
  <2> QED
    BY <2>1, <2>2 DEF IInv, Exclusive
<1>2. ASSUME NEW s \in Tasks \ {r} PROVE Safe(s)'
  <2>1. SUFFICES ASSUME s \in digest, tag[s] \notin shared,
                        pc[s] \in {"extract", "extracting", "move", "libs", "check", "chmod"}
                 PROVE  tmp'[tag[s]] = tmp[tag[s]] /\ extract'[tag[s]] = extract[tag[s]]
    BY DEF Safe, IInv, Verified, OnlyVerifiedMoves
  <2>2. Working(s) /\ tag[s] \in Tags
    BY <2>1, HasTag DEF Working, IInv
  <2>3. tag[s] # NoTag
    BY <2>1 DEF IInv, Typed
  <2>4. tag[s] # tag[r]
    BY <2>1, <2>2, <2>3 DEF IInv, Exclusive
  <2> QED
    BY <2>2, <2>4
<1>3. \A s \in Tasks : Safe(s)'
  BY <1>2
<1>4. Verified' /\ OnlyVerifiedMoves'
  BY <1>3 DEF Safe, Verified, OnlyVerifiedMoves
<1> QED
  BY <1>1, <1>4 DEF IInv

\* A task that changes its release, and looks who else works on it, is not yet at
\* the archive.
LEMMA MeetKeeps ==
    ASSUME IInv, NEW r \in Tasks, NEW t, Meets(r, t), Typed', UNCHANGED <<tmp, extract, digest>>,
           tag' = [tag EXCEPT ![r] = t], pc'[r] \in {"local", "ready"},
           \A s \in Tasks \ {r} : pc'[s] = pc[s]
    PROVE  IInv'
<1>1. tag'[r] = t /\ \A s \in Tasks \ {r} : tag'[s] = tag[s]
  BY DEF IInv, Typed
<1>2. shared \subseteq shared'
  BY DEF Meets
<1>3. \A s \in Tasks \ {r} : Working(s) /\ tag[s] = t => t \in shared'
  BY DEF Meets
<1>4. Exclusive'
  BY <1>1, <1>2, <1>3 DEF IInv, Exclusive, Working
<1>5. Verified' /\ OnlyVerifiedMoves'
  BY <1>1, <1>2 DEF IInv, Verified, OnlyVerifiedMoves
<1> QED
  BY <1>4, <1>5 DEF IInv

\* Looking for an installation.
LEMMA CheckReadyKeeps == ASSUME IInv, NEW r \in Tasks, CheckReady(r) PROVE IInv'
<1>1. Working(r) /\ tag[r] \in Tags
  BY HasTag DEF CheckReady, Working, IInv
<1>2. /\ tag' = tag /\ shared' = shared /\ local' = local
      /\ \A s \in Tasks \ {r} : pc'[s] = pc[s] /\ (s \in digest' => s \in digest)
  BY DEF CheckReady, GoTo, Fails, IInv, Typed
<1>3. \A t \in Tags \ {tag[r]} : tmp'[t] = tmp[t] /\ extract'[t] = extract[t]
  BY DEF CheckReady, files, IInv, Typed
<1>4. Typed'
  <2>1. pc' \in [Tasks -> Places] /\ result' \in [Tasks -> {"ok", "error"}]
    BY DEF CheckReady, GoTo, Fails, Places, IInv, Typed
  <2>2. tmp' \in [Tags -> Content] /\ extract' \in [Tags -> Content]
    BY DEF CheckReady, files, Content, IInv, Typed
  <2>3. tag[r] # NoTag
    BY DEF CheckReady, IInv, Typed
  <2> QED
    BY <1>1, <1>2, <2>1, <2>2, <2>3 DEF IInv, Typed
<1>5. Safe(r)'
  BY <1>1, <1>2 DEF CheckReady, GoTo, Fails, files, Safe, IInv, Typed, Verified, OnlyVerifiedMoves
<1> QED
  BY <1>1, <1>2, <1>3, <1>4, <1>5, WorkKeeps

\* The archive is created.
LEMMA CreateKeeps == ASSUME IInv, NEW r \in Tasks, Create(r) PROVE IInv'
<1>1. Working(r) /\ tag[r] \in Tags
  BY HasTag DEF Create, Working, IInv
<1>2. /\ tag' = tag /\ shared' = shared /\ local' = local
      /\ \A s \in Tasks \ {r} : pc'[s] = pc[s] /\ (s \in digest' => s \in digest)
  BY DEF Create, GoTo, Fails, IInv, Typed
<1>3. \A t \in Tags \ {tag[r]} : tmp'[t] = tmp[t] /\ extract'[t] = extract[t]
  BY DEF Create, files, IInv, Typed
<1>4. Typed'
  <2>1. pc' \in [Tasks -> Places] /\ result' \in [Tasks -> {"ok", "error"}]
    BY DEF Create, GoTo, Fails, Places, IInv, Typed
  <2>2. tmp' \in [Tags -> Content] /\ extract' \in [Tags -> Content]
    BY DEF Create, files, Content, IInv, Typed
  <2>3. tag[r] # NoTag
    BY DEF Create, IInv, Typed
  <2> QED
    BY <1>1, <1>2, <2>1, <2>2, <2>3 DEF IInv, Typed
<1>5. Safe(r)'
  BY <1>1, <1>2 DEF Create, GoTo, Fails, files, Safe, IInv, Typed, Verified, OnlyVerifiedMoves
<1> QED
  BY <1>1, <1>2, <1>3, <1>4, <1>5, WorkKeeps

\* It is received, or removed.
LEMMA ReceiveKeeps == ASSUME IInv, NEW r \in Tasks, Receive(r) PROVE IInv'
<1>1. Working(r) /\ tag[r] \in Tags
  BY HasTag DEF Receive, Working, IInv
<1>2. /\ tag' = tag /\ shared' = shared /\ local' = local
      /\ \A s \in Tasks \ {r} : pc'[s] = pc[s] /\ (s \in digest' => s \in digest)
  BY DEF Receive, GoTo, Fails, IInv, Typed
<1>3. \A t \in Tags \ {tag[r]} : tmp'[t] = tmp[t] /\ extract'[t] = extract[t]
  BY DEF Receive, files, IInv, Typed
<1>4. Typed'
  <2>1. pc' \in [Tasks -> Places] /\ result' \in [Tasks -> {"ok", "error"}]
    BY DEF Receive, GoTo, Fails, Places, IInv, Typed
  <2>2. tmp' \in [Tags -> Content] /\ extract' \in [Tags -> Content]
    BY DEF Receive, files, Content, IInv, Typed
  <2>3. tag[r] # NoTag
    BY DEF Receive, IInv, Typed
  <2> QED
    BY <1>1, <1>2, <2>1, <2>2, <2>3 DEF IInv, Typed
<1>5. Safe(r)'
  BY <1>1, <1>2 DEF Receive, GoTo, Fails, files, Safe, IInv, Typed, Verified, OnlyVerifiedMoves
<1> QED
  BY <1>1, <1>2, <1>3, <1>4, <1>5, WorkKeeps

\* Only the archive that has the digest passes.
LEMMA VerifyKeeps == ASSUME IInv, NEW r \in Tasks, Verify(r) PROVE IInv'
<1>1. Working(r) /\ tag[r] \in Tags
  BY HasTag DEF Verify, Working, IInv
<1>2. /\ tag' = tag /\ shared' = shared /\ local' = local
      /\ \A s \in Tasks \ {r} : pc'[s] = pc[s] /\ (s \in digest' => s \in digest)
  BY DEF Verify, GoTo, Fails, IInv, Typed
<1>3. \A t \in Tags \ {tag[r]} : tmp'[t] = tmp[t] /\ extract'[t] = extract[t]
  BY DEF Verify, files, IInv, Typed
<1>4. Typed'
  <2>1. pc' \in [Tasks -> Places] /\ result' \in [Tasks -> {"ok", "error"}]
    BY DEF Verify, GoTo, Fails, Places, IInv, Typed
  <2>2. tmp' \in [Tags -> Content] /\ extract' \in [Tags -> Content]
    BY DEF Verify, files, Content, IInv, Typed
  <2>3. tag[r] # NoTag
    BY DEF Verify, IInv, Typed
  <2> QED
    BY <1>1, <1>2, <2>1, <2>2, <2>3 DEF IInv, Typed
<1>5. Safe(r)'
  BY <1>1, <1>2 DEF Verify, GoTo, Fails, files, Safe, IInv, Typed, Verified, OnlyVerifiedMoves
<1> QED
  BY <1>1, <1>2, <1>3, <1>4, <1>5, WorkKeeps

\* The extraction begins.
LEMMA ExtractKeeps == ASSUME IInv, NEW r \in Tasks, Extract(r) PROVE IInv'
<1>1. Working(r) /\ tag[r] \in Tags
  BY HasTag DEF Extract, Working, IInv
<1>2. /\ tag' = tag /\ shared' = shared /\ local' = local
      /\ \A s \in Tasks \ {r} : pc'[s] = pc[s] /\ (s \in digest' => s \in digest)
  BY DEF Extract, GoTo, Fails, IInv, Typed
<1>3. \A t \in Tags \ {tag[r]} : tmp'[t] = tmp[t] /\ extract'[t] = extract[t]
  BY DEF Extract, files, IInv, Typed
<1>4. Typed'
  <2>1. pc' \in [Tasks -> Places] /\ result' \in [Tasks -> {"ok", "error"}]
    BY DEF Extract, GoTo, Fails, Places, IInv, Typed
  <2>2. tmp' \in [Tags -> Content] /\ extract' \in [Tags -> Content]
    BY DEF Extract, files, Content, IInv, Typed
  <2>3. tag[r] # NoTag
    BY DEF Extract, IInv, Typed
  <2> QED
    BY <1>1, <1>2, <2>1, <2>2, <2>3 DEF IInv, Typed
<1>5. Safe(r)'
  BY <1>1, <1>2 DEF Extract, GoTo, Fails, files, Safe, IInv, Typed, Verified, OnlyVerifiedMoves
<1> QED
  BY <1>1, <1>2, <1>3, <1>4, <1>5, WorkKeeps

\* What is extracted is what the archive has.
LEMMA ExtractedKeeps == ASSUME IInv, NEW r \in Tasks, Extracted(r) PROVE IInv'
<1>1. Working(r) /\ tag[r] \in Tags
  BY HasTag DEF Extracted, Working, IInv
<1>2. /\ tag' = tag /\ shared' = shared /\ local' = local
      /\ \A s \in Tasks \ {r} : pc'[s] = pc[s] /\ (s \in digest' => s \in digest)
  BY DEF Extracted, GoTo, Fails, IInv, Typed
<1>3. \A t \in Tags \ {tag[r]} : tmp'[t] = tmp[t] /\ extract'[t] = extract[t]
  BY DEF Extracted, files, IInv, Typed
<1>4. Typed'
  <2>1. pc' \in [Tasks -> Places] /\ result' \in [Tasks -> {"ok", "error"}]
    BY DEF Extracted, GoTo, Fails, Places, IInv, Typed
  <2>2. tmp' \in [Tags -> Content] /\ extract' \in [Tags -> Content]
    BY DEF Extracted, files, Content, IInv, Typed
  <2>3. tag[r] # NoTag
    BY DEF Extracted, IInv, Typed
  <2> QED
    BY <1>1, <1>2, <2>1, <2>2, <2>3 DEF IInv, Typed
<1>5. Safe(r)'
  BY <1>1, <1>2 DEF Extracted, GoTo, Fails, files, Safe, IInv, Typed, Verified, OnlyVerifiedMoves
<1> QED
  BY <1>1, <1>2, <1>3, <1>4, <1>5, WorkKeeps

\* The binary is moved.
LEMMA MoveKeeps == ASSUME IInv, NEW r \in Tasks, Move(r) PROVE IInv'
<1>1. Working(r) /\ tag[r] \in Tags
  BY HasTag DEF Move, Working, IInv
<1>2. /\ tag' = tag /\ shared' = shared /\ local' = local
      /\ \A s \in Tasks \ {r} : pc'[s] = pc[s] /\ (s \in digest' => s \in digest)
  BY DEF Move, GoTo, Fails, IInv, Typed
<1>3. \A t \in Tags \ {tag[r]} : tmp'[t] = tmp[t] /\ extract'[t] = extract[t]
  BY DEF Move, files, IInv, Typed
<1>4. Typed'
  <2>1. pc' \in [Tasks -> Places] /\ result' \in [Tasks -> {"ok", "error"}]
    BY DEF Move, GoTo, Fails, Places, IInv, Typed
  <2>2. tmp' \in [Tags -> Content] /\ extract' \in [Tags -> Content]
    BY DEF Move, files, Content, IInv, Typed
  <2>3. tag[r] # NoTag
    BY DEF Move, IInv, Typed
  <2> QED
    BY <1>1, <1>2, <2>1, <2>2, <2>3 DEF IInv, Typed
<1>5. Safe(r)'
  BY <1>1, <1>2 DEF Move, GoTo, Fails, files, Safe, IInv, Typed, Verified, OnlyVerifiedMoves
<1> QED
  BY <1>1, <1>2, <1>3, <1>4, <1>5, WorkKeeps

\* A library is copied.
LEMMA CopyLibKeeps == ASSUME IInv, NEW r \in Tasks, CopyLib(r) PROVE IInv'
<1>1. Working(r) /\ tag[r] \in Tags
  BY HasTag DEF CopyLib, Working, IInv
<1>2. /\ tag' = tag /\ shared' = shared /\ local' = local
      /\ \A s \in Tasks \ {r} : pc'[s] = pc[s] /\ (s \in digest' => s \in digest)
  BY DEF CopyLib, GoTo, Fails, IInv, Typed
<1>3. \A t \in Tags \ {tag[r]} : tmp'[t] = tmp[t] /\ extract'[t] = extract[t]
  BY DEF CopyLib, files, IInv, Typed
<1>4. Typed'
  <2>1. pc' \in [Tasks -> Places] /\ result' \in [Tasks -> {"ok", "error"}]
    BY DEF CopyLib, GoTo, Fails, Places, IInv, Typed
  <2>2. tmp' \in [Tags -> Content] /\ extract' \in [Tags -> Content]
    BY DEF CopyLib, files, Content, IInv, Typed
  <2>3. tag[r] # NoTag
    BY DEF CopyLib, IInv, Typed
  <2> QED
    BY <1>1, <1>2, <2>1, <2>2, <2>3 DEF IInv, Typed
<1>5. Safe(r)'
  BY <1>1, <1>2 DEF CopyLib, GoTo, Fails, files, Safe, IInv, Typed, Verified, OnlyVerifiedMoves
<1> QED
  BY <1>1, <1>2, <1>3, <1>4, <1>5, WorkKeeps

\* The copying ends.
LEMMA LibsCopiedKeeps == ASSUME IInv, NEW r \in Tasks, LibsCopied(r) PROVE IInv'
<1>1. Working(r) /\ tag[r] \in Tags
  BY HasTag DEF LibsCopied, Working, IInv
<1>2. /\ tag' = tag /\ shared' = shared /\ local' = local
      /\ \A s \in Tasks \ {r} : pc'[s] = pc[s] /\ (s \in digest' => s \in digest)
  BY DEF LibsCopied, GoTo, Fails, IInv, Typed
<1>3. \A t \in Tags \ {tag[r]} : tmp'[t] = tmp[t] /\ extract'[t] = extract[t]
  BY DEF LibsCopied, files, IInv, Typed
<1>4. Typed'
  <2>1. pc' \in [Tasks -> Places] /\ result' \in [Tasks -> {"ok", "error"}]
    BY DEF LibsCopied, GoTo, Fails, Places, IInv, Typed
  <2>2. tmp' \in [Tags -> Content] /\ extract' \in [Tags -> Content]
    BY DEF LibsCopied, files, Content, IInv, Typed
  <2>3. tag[r] # NoTag
    BY DEF LibsCopied, IInv, Typed
  <2> QED
    BY <1>1, <1>2, <2>1, <2>2, <2>3 DEF IInv, Typed
<1>5. Safe(r)'
  BY <1>1, <1>2 DEF LibsCopied, GoTo, Fails, files, Safe, IInv, Typed, Verified, OnlyVerifiedMoves
<1> QED
  BY <1>1, <1>2, <1>3, <1>4, <1>5, WorkKeeps

\* The library is looked for.
LEMMA CheckLibsKeeps == ASSUME IInv, NEW r \in Tasks, CheckLibs(r) PROVE IInv'
<1>1. Working(r) /\ tag[r] \in Tags
  BY HasTag DEF CheckLibs, Working, IInv
<1>2. /\ tag' = tag /\ shared' = shared /\ local' = local
      /\ \A s \in Tasks \ {r} : pc'[s] = pc[s] /\ (s \in digest' => s \in digest)
  BY DEF CheckLibs, GoTo, Fails, IInv, Typed
<1>3. \A t \in Tags \ {tag[r]} : tmp'[t] = tmp[t] /\ extract'[t] = extract[t]
  BY DEF CheckLibs, files, IInv, Typed
<1>4. Typed'
  <2>1. pc' \in [Tasks -> Places] /\ result' \in [Tasks -> {"ok", "error"}]
    BY DEF CheckLibs, GoTo, Fails, Places, IInv, Typed
  <2>2. tmp' \in [Tags -> Content] /\ extract' \in [Tags -> Content]
    BY DEF CheckLibs, files, Content, IInv, Typed
  <2>3. tag[r] # NoTag
    BY DEF CheckLibs, IInv, Typed
  <2> QED
    BY <1>1, <1>2, <2>1, <2>2, <2>3 DEF IInv, Typed
<1>5. Safe(r)'
  BY <1>1, <1>2 DEF CheckLibs, GoTo, Fails, files, Safe, IInv, Typed, Verified, OnlyVerifiedMoves
<1> QED
  BY <1>1, <1>2, <1>3, <1>4, <1>5, WorkKeeps

\* The binary is made executable.
LEMMA ChmodKeeps == ASSUME IInv, NEW r \in Tasks, Chmod(r) PROVE IInv'
<1>1. Working(r) /\ tag[r] \in Tags
  BY HasTag DEF Chmod, Working, IInv
<1>2. /\ tag' = tag /\ shared' = shared /\ local' = local
      /\ \A s \in Tasks \ {r} : pc'[s] = pc[s] /\ (s \in digest' => s \in digest)
  BY DEF Chmod, GoTo, Fails, IInv, Typed
<1>3. \A t \in Tags \ {tag[r]} : tmp'[t] = tmp[t] /\ extract'[t] = extract[t]
  BY DEF Chmod, files, IInv, Typed
<1>4. Typed'
  <2>1. pc' \in [Tasks -> Places] /\ result' \in [Tasks -> {"ok", "error"}]
    BY DEF Chmod, GoTo, Fails, Places, IInv, Typed
  <2>2. tmp' \in [Tags -> Content] /\ extract' \in [Tags -> Content]
    BY DEF Chmod, files, Content, IInv, Typed
  <2>3. tag[r] # NoTag
    BY DEF Chmod, IInv, Typed
  <2> QED
    BY <1>1, <1>2, <2>1, <2>2, <2>3 DEF IInv, Typed
<1>5. Safe(r)'
  BY <1>1, <1>2 DEF Chmod, GoTo, Fails, files, Safe, IInv, Typed, Verified, OnlyVerifiedMoves
<1> QED
  BY <1>1, <1>2, <1>3, <1>4, <1>5, WorkKeeps

\* The archive and the extraction go.
LEMMA CleanKeeps == ASSUME IInv, NEW r \in Tasks, Clean(r) PROVE IInv'
<1>1. Working(r) /\ tag[r] \in Tags
  BY HasTag DEF Clean, Working, IInv
<1>2. /\ tag' = tag /\ shared' = shared /\ local' = local
      /\ \A s \in Tasks \ {r} : pc'[s] = pc[s] /\ (s \in digest' => s \in digest)
  BY DEF Clean, GoTo, Fails, IInv, Typed
<1>3. \A t \in Tags \ {tag[r]} : tmp'[t] = tmp[t] /\ extract'[t] = extract[t]
  BY DEF Clean, files, IInv, Typed
<1>4. Typed'
  <2>1. pc' \in [Tasks -> Places] /\ result' \in [Tasks -> {"ok", "error"}]
    BY DEF Clean, GoTo, Fails, Places, IInv, Typed
  <2>2. tmp' \in [Tags -> Content] /\ extract' \in [Tags -> Content]
    BY DEF Clean, files, Content, IInv, Typed
  <2>3. tag[r] # NoTag
    BY DEF Clean, IInv, Typed
  <2> QED
    BY <1>1, <1>2, <2>1, <2>2, <2>3 DEF IInv, Typed
<1>5. Safe(r)'
  BY <1>1, <1>2 DEF Clean, GoTo, Fails, files, Safe, IInv, Typed, Verified, OnlyVerifiedMoves
<1> QED
  BY <1>1, <1>2, <1>3, <1>4, <1>5, WorkKeeps

\* The local releases are listed; the task has no release yet.
LEMMA ListedKeeps == ASSUME IInv, NEW r \in Tasks, Listed(r) PROVE IInv'
<1>1. UNCHANGED <<tmp, extract, tag, digest, result, shared>> /\ local' = [local EXCEPT ![r] = LatestLocal]
  BY DEF Listed, files
<1>2. pc[r] = "local" /\ pc' = [pc EXCEPT ![r] = "choose"]
  BY DEF Listed, GoTo
<1>3. Typed'
  BY <1>1, <1>2, LatestLocalType DEF IInv, Typed, Places
<1>4. Working(r) /\ \A s \in Tasks : Working(s)' => Working(s)
  BY <1>2 DEF Working, IInv, Typed
<1>5. Exclusive'
  BY <1>1, <1>4 DEF IInv, Exclusive
<1>6. Verified' /\ OnlyVerifiedMoves'
  BY <1>1, <1>2 DEF IInv, Typed, Verified, OnlyVerifiedMoves
<1> QED
  BY <1>3, <1>5, <1>6 DEF IInv

\* The task takes the newer of the two, and looks who works on it.
LEMMA ChosenKeeps == ASSUME IInv, NEW r \in Tasks, Chosen(r) PROVE IInv'
<1>1. PICK available \in Releases :
        /\ tag' = [tag EXCEPT ![r] = Newer(local[r], available)]
        /\ Meets(r, Newer(local[r], available))
  BY DEF Chosen
<1>2. Newer(local[r], available) \in Releases
  BY ReleasesAssumption DEF Newer, IInv, Typed, NoTag
<1>3. UNCHANGED <<tmp, extract, digest, local, result>> /\ pc' = [pc EXCEPT ![r] = "ready"]
  BY DEF Chosen, files, GoTo
<1>4. NoTag \notin Releases
  BY ReleasesAssumption DEF NoTag
<1>5. Typed'
  BY <1>1, <1>2, <1>3, <1>4 DEF IInv, Typed, Places, Tags
<1>6. pc'[r] \in {"local", "ready"} /\ \A s \in Tasks \ {r} : pc'[s] = pc[s]
  BY <1>3 DEF IInv, Typed
<1> QED
  BY <1>1, <1>3, <1>5, <1>6, MeetKeeps

\* A task begins: with a release it looks who works on it, without one it is alone.
LEMMA BeginKeeps ==
    ASSUME IInv, NEW r \in Tasks, NEW version \in Tags \cup {Latest}, NEW reports,
           Begin(r, version, reports)
    PROVE  IInv'
<1>1. UNCHANGED <<tmp, extract, digest, local, result>>
  BY DEF Begin, files
<1>2. NoTag \notin Tags /\ Latest \notin Tags
  BY ReleasesAssumption, NamesAssumption DEF Tags, NoTag, Latest
<1>3. CASE version = Latest
  <2>1. pc' = [pc EXCEPT ![r] = "local"] /\ tag' = [tag EXCEPT ![r] = NoTag] /\ shared \subseteq shared'
    BY <1>3 DEF Begin, GoTo, Meets
  <2>2. Typed'
    BY <1>1, <2>1 DEF IInv, Typed, Places
  <2>3. tag'[r] = NoTag /\ pc'[r] = "local" /\ \A s \in Tasks \ {r} : pc'[s] = pc[s] /\ tag'[s] = tag[s]
    BY <2>1 DEF IInv, Typed
  <2>4. Exclusive'
    BY <2>1, <2>3 DEF IInv, Exclusive, Working
  <2>5. Verified' /\ OnlyVerifiedMoves'
    BY <1>1, <2>1, <2>3 DEF IInv, Verified, OnlyVerifiedMoves
  <2> QED
    BY <2>2, <2>4, <2>5 DEF IInv
<1>4. CASE version # Latest
  <2>1. /\ pc' = [pc EXCEPT ![r] = "ready"] /\ tag' = [tag EXCEPT ![r] = version]
        /\ Meets(r, version) /\ version \in Tags
    BY <1>4 DEF Begin, GoTo
  <2>2. Typed'
    BY <1>1, <1>2, <2>1 DEF IInv, Typed, Places
  <2>3. pc'[r] \in {"local", "ready"} /\ \A s \in Tasks \ {r} : pc'[s] = pc[s]
    BY <2>1 DEF IInv, Typed
  <2> QED
    BY <1>1, <2>1, <2>2, <2>3, MeetKeeps
<1> QED
  BY <1>3, <1>4

\* What an ended task leaves is no task's.
LEMMA ForgetKeeps ==
    ASSUME IInv, NEW r, Forget(r), UNCHANGED <<tmp, extract, shared>>
    PROVE  IInv'
<1>1. Typed'
  BY DEF Forget, GoTo, IInv, Typed, Places
<1>2. \A s \in Tasks :
        \/ Working(s)' = FALSE /\ pc'[s] = "idle"
        \/ pc'[s] = pc[s] /\ tag'[s] = tag[s]
  BY DEF Forget, GoTo, IInv, Typed, Working
<1>3. digest' \subseteq digest
  BY DEF Forget
<1>4. Exclusive'
  BY <1>2 DEF IInv, Exclusive, Working
<1>5. Verified' /\ OnlyVerifiedMoves'
  BY <1>2, <1>3 DEF IInv, Verified, OnlyVerifiedMoves
<1> QED
  BY <1>1, <1>4, <1>5 DEF IInv

\* A deletion takes files away: there is less to verify.
LEMMA DeleteKeeps == ASSUME IInv, NEW t \in Tags, DeleteBackend(t) PROVE IInv'
<1>1. UNCHANGED <<pc, tag, local, digest, result, shared>>
  BY DEF DeleteBackend, task
<1>2. tmp' = [tmp EXCEPT ![t] = "none"] /\ extract' = [extract EXCEPT ![t] = "none"]
  BY DEF DeleteBackend
<1>3. Typed'
  BY <1>1, <1>2 DEF IInv, Typed, Content
<1>4. Exclusive'
  BY <1>1 DEF IInv, Exclusive, Working
<1>5. ASSUME NEW s \in Tags PROVE /\ tmp'[s] \in {tmp[s], "none"}
                                  /\ extract'[s] \in {extract[s], "none"}
  BY <1>2 DEF IInv, Typed
<1>6. \A s \in Tasks : pc[s] \in {"extract", "extracting", "move", "libs", "check", "chmod"} => tag[s] \in Tags
  BY HasTag DEF IInv
<1>7. Verified' /\ OnlyVerifiedMoves'
  BY <1>1, <1>5, <1>6 DEF IInv, Verified, OnlyVerifiedMoves
<1> QED
  BY <1>3, <1>4, <1>7 DEF IInv

\* After a crash no task works.
LEMMA CrashKeeps == ASSUME IInv, Crash PROVE IInv'
<1>1. Typed'
  BY DEF Crash, files, IInv, Typed, Places
<1>2. Exclusive' /\ Verified' /\ OnlyVerifiedMoves'
  BY DEF Crash, Exclusive, Verified, OnlyVerifiedMoves, Working
<1> QED
  BY <1>1, <1>2 DEF IInv

\* Every step keeps the invariant.
LEMMA NextKeeps == ASSUME IInv, [Next]_vars PROVE IInv'
<1>1. ASSUME NEW r \in Tasks, TaskStep(r) PROVE IInv'
  BY <1>1, ListedKeeps, ChosenKeeps, CheckReadyKeeps, CreateKeeps, ReceiveKeeps, VerifyKeeps,
     ExtractKeeps, ExtractedKeeps, MoveKeeps, CopyLibKeeps, LibsCopiedKeeps, CheckLibsKeeps,
     ChmodKeeps, CleanKeeps DEF TaskStep
<1>2. CASE UNCHANGED vars
  BY <1>2 DEF vars, files, task, IInv, Typed, Exclusive, Verified, OnlyVerifiedMoves, Working
<1>3. ASSUME NEW r \in Tasks, Answered(r) PROVE IInv'
  BY <1>3, ForgetKeeps DEF Answered, files
<1>4. CASE TickBackendResolution
  BY <1>4, ForgetKeeps DEF TickBackendResolution, files
<1>5. ASSUME NEW r \in Tasks, NEW version \in Tags \cup {Latest}, PickerEnter(r, version)
      PROVE  IInv'
  <2>1. CASE Begin(r, version, TRUE)
    BY <2>1, BeginKeeps
  <2>2. CASE UNCHANGED <<files, task, shared>>
    BY <2>2 DEF files, task, IInv, Typed, Exclusive, Verified, OnlyVerifiedMoves, Working
  <2> QED
    BY <1>5, <2>1, <2>2 DEF PickerEnter
<1>6. ASSUME NEW r \in Tasks, NEW version \in Tags \cup {Latest},
             Load(r, version) \/ Resolve(r, version)
      PROVE  IInv'
  BY <1>6, BeginKeeps DEF Load, Resolve
<1>7. CASE Key
  <2>1. PICK version \in Tags \cup {Latest} :
          \/ \E r \in Tasks : PickerEnter(r, version) \/ Load(r, version) \/ Resolve(r, version)
          \/ version \in Tags /\ DeleteBackend(version)
    BY <1>7 DEF Key
  <2> QED
    BY <2>1, <1>5, <1>6, DeleteKeeps
<1> QED
  BY <1>1, <1>2, <1>3, <1>4, <1>7, CrashKeeps DEF Next

\* What is moved into place was received whole and is what GitHub announced.  The
\* types and OnlyVerifiedMoves alone are not kept by a step: a task could extract what
\* it verified after another task has written the same archive again.  Exclusive says
\* that such a release is in shared, and Verified carries the digest from the
\* verification to the extraction.
THEOREM MovesAreVerified == Spec => []OnlyVerifiedMoves
<1>1. IInv => OnlyVerifiedMoves
  BY DEF IInv
<1> QED
  BY <1>1, InitEstablishes, NextKeeps, PTL DEF Spec

-----------------------------------------------------------------------------
(* What a task leaves behind.                                               *)

\* What survives a crash is of its kind.
StoreTyped ==
    /\ crashes \in Nat
    /\ server \in [Tags -> {"none", "plain", "exec"}]
    /\ libs \in [Tags -> SUBSET Libs]

\* Without a crash an extraction is that of a task on its way to the clean-up,
\* whoever else works on the release.
ExtractionIsUsed ==
    crashes = 0 =>
        \A t \in Tags :
            extract[t] # "none" =>
                \E r \in Tasks : /\ tag[r] = t
                                 /\ pc[r] \in {"extracting", "move", "libs", "check", "chmod",
                                               "clean"}

\* A task alone on its release has the library in place when it makes the binary
\* executable, and both until it has cleaned up, unless the directory was deleted.
Placed(r) ==
    tag[r] \notin shared =>
        /\ pc[r] = "chmod" => Sentinel \in libs[tag[r]] \/ server[tag[r]] = "none"
        /\ pc[r] = "clean" /\ result[r] = "ok" =>
               (server[tag[r]] = "exec" /\ Sentinel \in libs[tag[r]]) \/ ~Exists(tag[r])

\* With IInv, the inductive invariant of what is left behind and what is reported.
LeftInv == StoreTyped /\ ExtractionIsUsed /\ \A r \in Tasks : Placed(r)

\* Only the release of a working task changes; who is alone on another is as before.
LEMMA WorkLeaves ==
    ASSUME IInv, LeftInv, NEW r \in Tasks, Working(r), tag[r] \in Tags,
           UNCHANGED <<tag, shared>>, Placed(r)',
           \A s \in Tasks \ {r} : pc'[s] = pc[s] /\ result'[s] = result[s],
           \A t \in Tags \ {tag[r]} : /\ server'[t] = server[t] /\ libs'[t] = libs[t]
                                      /\ tmp'[t] = tmp[t] /\ extract'[t] = extract[t]
    PROVE  \A s \in Tasks : Placed(s)'
<1> SUFFICES ASSUME NEW s \in Tasks \ {r}, tag[s] \notin shared, pc[s] \in {"chmod", "clean"}
             PROVE  Placed(s)'
  BY DEF Placed
<1>1. Working(s) /\ tag[s] \in Tags
  BY HasTag DEF Working, IInv
<1>2. tag[s] # tag[r]
  BY <1>1 DEF IInv, Exclusive, Typed
<1>3. Placed(s)
  BY DEF LeftInv
<1> QED
  BY <1>1, <1>2, <1>3 DEF Placed, Exists

\* The steps of one task on its release.
LEMMA TaskLeaves ==
    ASSUME IInv, LeftInv, NEW r \in Tasks, TaskStep(r), ~Listed(r), ~Chosen(r)
    PROVE  LeftInv'
<1> USE DEF IInv, Typed, files, GoTo
<1> DEFINE Act == \/ CheckReady(r) \/ Create(r) \/ Receive(r) \/ Verify(r) \/ Extract(r)
                  \/ Extracted(r) \/ Move(r) \/ CopyLib(r) \/ LibsCopied(r)
                  \/ CheckLibs(r) \/ Chmod(r) \/ Clean(r)
<1>0. Act
  BY DEF TaskStep
<1>1. pc[r] \notin {"idle", "local", "choose", "ok", "error"}
  BY <1>0 DEF CheckReady, Create, Receive, Verify, Extract, Extracted, Move, CopyLib,
     LibsCopied, CheckLibs, Chmod, Clean
<1>2. Working(r) /\ tag[r] \in Tags
  BY <1>1, HasTag DEF Working
<1>3. UNCHANGED <<tag, shared, crashes>>
  BY <1>0 DEF CheckReady, Create, Receive, Verify, Extract, Extracted, Move, CopyLib,
     LibsCopied, CheckLibs, Chmod, Clean
<1>4. \A s \in Tasks \ {r} : pc'[s] = pc[s] /\ result'[s] = result[s]
  BY <1>0 DEF CheckReady, Create, Receive, Verify, Extract, Extracted, Move, CopyLib,
     LibsCopied, CheckLibs, Chmod, Clean, Fails
<1>5. \A t \in Tags \ {tag[r]} : server'[t] = server[t] /\ libs'[t] = libs[t]
  BY <1>0 DEF LeftInv, StoreTyped, CheckReady, Create, Receive, Verify, Extract, Extracted,
     Move, CopyLib, LibsCopied, CheckLibs, Chmod, Clean
<1>6. \A t \in Tags \ {tag[r]} : tmp'[t] = tmp[t] /\ extract'[t] = extract[t]
  BY <1>0 DEF CheckReady, Create, Receive, Verify, Extract, Extracted, Move, CopyLib,
     LibsCopied, CheckLibs, Chmod, Clean
<1>7. StoreTyped'
  BY <1>0, <1>2 DEF LeftInv, StoreTyped, CheckReady, Create, Receive, Verify, Extract,
     Extracted, Move, CopyLib, LibsCopied, CheckLibs, Chmod, Clean
<1>8. Placed(r)'
  <2> SUFFICES ASSUME tag[r] \notin shared,
                      pc'[r] = "chmod" \/ (pc'[r] = "clean" /\ result'[r] = "ok")
               PROVE  Placed(r)'
    BY <1>3 DEF Placed
  <2>1. CheckLibs(r) \/ Chmod(r)
    BY <1>0 DEF CheckReady, Create, Receive, Verify, Extract, Extracted, Move, CopyLib,
       LibsCopied, Clean, Fails
  <2>2. CASE CheckLibs(r)
    BY <1>3, <2>2 DEF CheckLibs, Fails, Placed
  <2>3. CASE Chmod(r)
    <3>1. server[tag[r]] # "none" /\ pc[r] = "chmod"
      BY <2>3 DEF Chmod, Fails
    <3>2. server'[tag[r]] = "exec" /\ libs' = libs /\ pc'[r] = "clean"
      BY <1>2, <2>3, <3>1 DEF Chmod, LeftInv, StoreTyped
    <3>3. Sentinel \in libs[tag[r]]
      BY <3>1 DEF LeftInv, Placed
    <3> QED
      BY <1>3, <3>2, <3>3 DEF Placed
  <2> QED
    BY <2>1, <2>2, <2>3
<1>9. ExtractionIsUsed'
  <2> DEFINE Busy == {"extracting", "move", "libs", "check", "chmod", "clean"}
  <2> SUFFICES ASSUME crashes = 0, NEW t \in Tags, extract'[t] # "none"
               PROVE  \E s \in Tasks : tag[s] = t /\ pc'[s] \in Busy
    BY <1>3 DEF ExtractionIsUsed
  <2>1. CASE Clean(r)
    <3>1. t # tag[r] /\ extract[t] # "none"
      BY <1>2, <1>6, <2>1 DEF Clean
    <3>2. PICK s \in Tasks : tag[s] = t /\ pc[s] \in Busy
      BY <3>1 DEF LeftInv, ExtractionIsUsed
    <3> QED
      BY <1>4, <3>1, <3>2
  <2>2. CASE extract[t] # "none" /\ ~Clean(r)
    <3>1. PICK s \in Tasks : tag[s] = t /\ pc[s] \in Busy
      BY <2>2 DEF LeftInv, ExtractionIsUsed
    <3>2. pc[r] \in Busy => pc'[r] \in Busy
      BY <1>0, <2>2 DEF CheckReady, Create, Receive, Verify, Extract, Extracted, Move,
         CopyLib, LibsCopied, CheckLibs, Chmod, Fails
    <3> QED
      BY <1>4, <3>1, <3>2
  <2>3. CASE extract[t] = "none" /\ ~Clean(r)
    <3>1. Extract(r) \/ Extracted(r)
      BY <1>0, <2>3 DEF CheckReady, Create, Receive, Verify, Move, CopyLib, LibsCopied,
         CheckLibs, Chmod
    <3>2. t = tag[r]
      BY <1>6, <2>3
    <3>3. pc'[r] \in Busy
      BY <3>1 DEF Extract, Extracted, Fails
    <3> QED
      BY <3>2, <3>3
  <2> QED
    BY <2>1, <2>2, <2>3
<1>10. \A s \in Tasks : Placed(s)'
  BY <1>2, <1>3, <1>4, <1>5, <1>6, <1>8, WorkLeaves
<1> QED
  BY <1>7, <1>9, <1>10 DEF LeftInv

\* A task that begins, or chooses its release, leaves the files alone.
LEMMA StartLeaves ==
    ASSUME IInv, LeftInv, NEW r \in Tasks, UNCHANGED <<files, result, crashes>>,
           pc[r] \in {"idle", "local", "choose"}, pc'[r] \in {"local", "choose", "ready"},
           \A s \in Tasks \ {r} : pc'[s] = pc[s] /\ tag'[s] = tag[s],
           shared \subseteq shared'
    PROVE  LeftInv'
<1> USE DEF files, LeftInv
<1>1. StoreTyped'
  BY DEF StoreTyped
<1>2. ExtractionIsUsed'
  BY DEF ExtractionIsUsed
<1>3. \A s \in Tasks : Placed(s)'
  BY DEF Placed, Exists
<1> QED
  BY <1>1, <1>2, <1>3

\* Neither does one that is forgotten.
LEMMA ForgetLeaves ==
    ASSUME IInv, LeftInv, NEW r, pc[r] \in {"ok", "error"}, Forget(r),
           UNCHANGED <<files, shared, crashes>>
    PROVE  LeftInv'
<1> USE DEF files, LeftInv, IInv, Typed
<1>1. \A s \in Tasks : s # r => pc'[s] = pc[s] /\ tag'[s] = tag[s] /\ result'[s] = result[s]
  BY DEF Forget, GoTo
<1>2. r \in Tasks => pc'[r] = "idle"
  BY DEF Forget, GoTo
<1>3. StoreTyped'
  BY DEF StoreTyped
<1>4. ExtractionIsUsed'
  BY <1>1 DEF ExtractionIsUsed
<1>5. \A s \in Tasks : Placed(s)'
  BY <1>1, <1>2 DEF Placed, Exists
<1> QED
  BY <1>3, <1>4, <1>5

\* A deletion takes everything of a release at once.
LEMMA DeleteLeaves ==
    ASSUME IInv, LeftInv, NEW t \in Tags, DeleteBackend(t)
    PROVE  LeftInv'
<1> USE DEF LeftInv, StoreTyped, IInv, Typed, task
<1>1. StoreTyped'
  BY DEF DeleteBackend
<1>2. UNCHANGED <<pc, tag, result, shared, crashes>>
  BY DEF DeleteBackend
<1>3. \A u \in Tags : u # t => /\ server'[u] = server[u] /\ libs'[u] = libs[u]
                               /\ tmp'[u] = tmp[u] /\ extract'[u] = extract[u]
  BY DEF DeleteBackend
<1>4. server'[t] = "none" /\ libs'[t] = {} /\ tmp'[t] = "none" /\ extract'[t] = "none"
  BY DEF DeleteBackend
<1>5. ExtractionIsUsed'
  BY <1>2, <1>3, <1>4 DEF ExtractionIsUsed
<1>6. ASSUME NEW s \in Tasks PROVE Placed(s)'
  <2> SUFFICES ASSUME pc[s] \in {"chmod", "clean"} PROVE Placed(s)'
    BY <1>2 DEF Placed
  <2>1. tag[s] \in Tags
    BY HasTag
  <2>2. Placed(s)
    BY DEF LeftInv
  <2> QED
    BY <1>2, <1>3, <1>4, <2>1, <2>2 DEF Placed, Exists
<1> QED
  BY <1>1, <1>5, <1>6

\* A task that begins leaves every release as it is.
LEMMA BeginLeaves ==
    ASSUME IInv, LeftInv, NEW r \in Tasks, NEW version, NEW reports,
           Begin(r, version, reports)
    PROVE  LeftInv'
<1>1. /\ pc[r] = "idle" /\ pc'[r] \in {"local", "ready"} /\ shared \subseteq shared'
      /\ \A s \in Tasks \ {r} : pc'[s] = pc[s] /\ tag'[s] = tag[s]
      /\ UNCHANGED <<files, result, crashes>>
  BY DEF Begin, GoTo, Meets, IInv, Typed
<1> QED
  BY <1>1, StartLeaves

\* One step for each action of Next.
LEMMA LeftKeeps ==
    ASSUME IInv, LeftInv, [Next]_vars
    PROVE  LeftInv'
<1>1. ASSUME NEW r \in Tasks, TaskStep(r) PROVE LeftInv'
  <2>1. CASE Listed(r) \/ Chosen(r)
    <3>1. /\ pc[r] \in {"local", "choose"} /\ pc'[r] \in {"choose", "ready"}
          /\ \A s \in Tasks \ {r} : pc'[s] = pc[s] /\ tag'[s] = tag[s]
          /\ shared \subseteq shared' /\ UNCHANGED <<files, result, crashes>>
      BY <2>1 DEF Listed, Chosen, GoTo, Meets, IInv, Typed
    <3> QED
      BY <3>1, StartLeaves
  <2> QED
    BY <1>1, <2>1, TaskLeaves
<1>2. CASE UNCHANGED vars
  BY <1>2 DEF vars, files, task, LeftInv, StoreTyped, ExtractionIsUsed, Placed, Exists
<1>3. ASSUME NEW r \in Tasks, Answered(r) PROVE LeftInv'
  BY <1>3, ForgetLeaves DEF Answered
<1>4. CASE TickBackendResolution
  BY <1>4, ForgetLeaves DEF TickBackendResolution
<1>5. ASSUME NEW r \in Tasks, NEW version \in Tags \cup {Latest},
             PickerEnter(r, version) \/ Load(r, version) \/ Resolve(r, version)
      PROVE  LeftInv'
  <2>1. CASE \E reports \in BOOLEAN : Begin(r, version, reports)
    BY <2>1, BeginLeaves
  <2>2. CASE UNCHANGED <<files, task, shared, crashes>>
    BY <2>2 DEF files, task, LeftInv, StoreTyped, ExtractionIsUsed, Placed, Exists
  <2> QED
    BY <1>5, <2>1, <2>2 DEF PickerEnter, Load, Resolve
<1>6. CASE Key
  BY <1>5, <1>6, DeleteLeaves DEF Key
<1>7. CASE Crash
  <2>1. crashes' # 0
    <3>1. crashes \in Nat
      BY DEF LeftInv, StoreTyped
    <3> QED
      BY <1>7, <3>1 DEF Crash
  <2> QED
    BY <1>7, <2>1 DEF Crash, files, LeftInv, StoreTyped, ExtractionIsUsed, Placed
<1> QED
  BY <1>1, <1>2, <1>3, <1>4, <1>6, <1>7 DEF Next

\* The two invariants hold together.
LEMMA LeftHolds == Spec => [](IInv /\ LeftInv)
<1>1. Init => LeftInv
  <2> SUFFICES ASSUME Init PROVE LeftInv
    OBVIOUS
  <2>1. StoreTyped
    BY DEF Init, StoreTyped
  <2>2. ExtractionIsUsed /\ \A r \in Tasks : Placed(r)
    BY DEF Init, ExtractionIsUsed, Placed
  <2> QED
    BY <2>1, <2>2 DEF LeftInv
<1> QED
  BY <1>1, InitEstablishes, NextKeeps, LeftKeeps, PTL DEF Spec

\* An extraction directory, whose links the next extraction would stumble over, only
\* outlives its task when the program ended in between.  Every way out of a resolution
\* that has begun to extract passes the clean-up.
THEOREM ExtractionsGo == Spec => []NoExtractionStays
<1>1. LeftInv => NoExtractionStays
  BY DEF LeftInv, ExtractionIsUsed, NoExtractionStays, Working, Tags
<1> QED
  BY <1>1, LeftHolds, PTL

\* What a task reports as installed has its binary, executable, and its library, and
\* no archive is left, whatever earlier crashes left: unless the user has deleted the
\* directory, or a second task worked on the release.
THEOREM InstalledIsWhole == Spec => InstallationIsWhole
<1> DEFINE Step(r) ==
      pc[r] = "clean" /\ pc'[r] = "ok" /\ tag[r] \notin shared
          => \/ server[tag[r]] = "exec" /\ Sentinel \in libs[tag[r]] /\ tmp'[tag[r]] = "none"
             \/ ~Exists(tag[r])
<1>1. ASSUME IInv, LeftInv, [Next]_vars, NEW r \in Tasks PROVE Step(r)
  <2> USE <1>1
  <2> SUFFICES ASSUME pc[r] = "clean", pc'[r] = "ok", tag[r] \notin shared
               PROVE  \/ /\ server[tag[r]] = "exec" /\ Sentinel \in libs[tag[r]]
                         /\ tmp'[tag[r]] = "none"
                      \/ ~Exists(tag[r])
    OBVIOUS
  <2> USE DEF IInv, Typed, GoTo
  <2>1. Clean(r)
    <3>1. ASSUME NEW s \in Tasks, TaskStep(s) PROVE Clean(r)
      BY <3>1 DEF TaskStep, Listed, Chosen, CheckReady, Create, Receive, Verify, Extract,
         Extracted, Move, CopyLib, LibsCopied, CheckLibs, Chmod, Clean, Fails
    <3>2. ASSUME NEW s, Forget(s) PROVE FALSE
      BY <3>2 DEF Forget
    <3>3. ASSUME NEW s, NEW version, NEW reports, Begin(s, version, reports) PROVE FALSE
      BY <3>3 DEF Begin
    <3>4. ASSUME UNCHANGED pc PROVE FALSE
      BY <3>4
    <3>5. ~Crash
      BY DEF Crash
    <3>6. ~Key
      BY <3>3, <3>4 DEF Key, PickerEnter, Load, Resolve, DeleteBackend, task
    <3> QED
      BY <3>1, <3>2, <3>4, <3>5, <3>6 DEF Next, Answered, TickBackendResolution, vars, task
  <2>2. result[r] = "ok" /\ tag[r] \in Tags
    BY <2>1, HasTag DEF Clean
  <2>3. tmp'[tag[r]] = "none"
    BY <2>1, <2>2 DEF Clean
  <2> QED
    BY <2>2, <2>3 DEF LeftInv, Placed
<1>2. IInv /\ LeftInv /\ [Next]_vars => [\A r \in Tasks : Step(r)]_vars
  BY <1>1
<1> QED
  BY <1>2, LeftHolds, PTL DEF Spec, InstallationIsWhole

-----------------------------------------------------------------------------
(* The waiting of the app.                                                  *)

\* The tasks the app waits for.
AppTyped == handle \in Tasks \cup {NoTask} /\ frozen \in Tasks \cup {NoTask}

\* What is to be shown is inductive with these types.
WaitInv == AppTyped /\ WaitsForATask

\* A task begins, for the picker, for a load or for a key that waits.
LEMMA KeyWaits ==
    ASSUME Typed, WaitInv, Key
    PROVE  WaitInv'
<1> USE DEF Typed, WaitInv, AppTyped, WaitsForATask
<1>1. PICK version \in Tags \cup {Latest} :
          \/ \E r \in Tasks : PickerEnter(r, version) \/ Load(r, version) \/ Resolve(r, version)
          \/ version \in Tags /\ DeleteBackend(version)
  BY DEF Key
<1>2. frozen = NoTask
  BY DEF Key
<1>3. ASSUME NEW r \in Tasks, NEW reports \in BOOLEAN, Begin(r, version, reports)
      PROVE  /\ pc[r] = "idle" /\ pc'[r] # "idle" /\ \A s \in Tasks \ {r} : pc'[s] = pc[s]
             /\ progress' = IF reports THEN progress \cup {r} ELSE progress \ {r}
  BY <1>3 DEF Begin, GoTo
<1>4. ASSUME NEW r \in Tasks, PickerEnter(r, version) PROVE WaitInv'
  <2>1. CASE version # Latest /\ Ready(version)
    BY <1>4, <2>1 DEF PickerEnter, task
  <2>2. CASE ~(version # Latest /\ Ready(version))
    <3>1. Begin(r, version, TRUE) /\ resolving' = TRUE /\ handle' = r /\ frozen' = frozen
      BY <1>4, <2>2 DEF PickerEnter
    <3>2. /\ handle' = r /\ frozen' = NoTask /\ r # NoTask
          /\ pc'[r] # "idle" /\ progress' = progress \cup {r}
      BY <1>2, <1>3, <3>1, NamesAssumption
    <3> QED
      BY <3>2
  <2> QED
    BY <2>1, <2>2
<1>5. ASSUME NEW r \in Tasks, Load(r, version) PROVE WaitInv'
  BY <1>2, <1>3, <1>5 DEF Load, app
<1>6. ASSUME NEW r \in Tasks, Resolve(r, version) PROVE WaitInv'
  BY <1>2, <1>3, <1>6 DEF Resolve
<1>7. CASE version \in Tags /\ DeleteBackend(version)
  BY <1>7 DEF DeleteBackend, task, app
<1> QED
  BY <1>1, <1>4, <1>5, <1>6, <1>7

\* A task at work stays one that has begun, and one that is forgotten has answered
\* the app that waited for it.
LEMMA TasksWait ==
    ASSUME Typed, WaitInv, [Next]_vars, ~Key
    PROVE  WaitInv'
<1> USE DEF Typed, WaitInv, AppTyped, WaitsForATask
<1>1. ASSUME NEW r \in Tasks, TaskStep(r) PROVE WaitInv'
  <2>1. /\ UNCHANGED <<app, progress>> /\ pc[r] # "idle"
        /\ \E place \in Places \ {"idle"} : GoTo(r, place)
    BY <1>1 DEF TaskStep, Listed, Chosen, CheckReady, Create, Receive, Verify, Extract,
       Extracted, Move, CopyLib, LibsCopied, CheckLibs, Chmod, Clean, Fails, GoTo, Places
  <2> QED
    BY <2>1 DEF app, GoTo
<1>2. ASSUME NEW r \in Tasks, Answered(r) PROVE WaitInv'
  <2>1. /\ pc' = [pc EXCEPT ![r] = "idle"] /\ progress' = progress \ {r} /\ r # handle
        /\ frozen' = (IF frozen = r THEN NoTask ELSE frozen) /\ UNCHANGED <<resolving, handle>>
    BY <1>2 DEF Answered, Forget, GoTo
  <2> QED
    BY <2>1
<1>3. CASE TickBackendResolution
  <2>1. /\ pc' = [pc EXCEPT ![handle] = "idle"] /\ frozen' = frozen /\ frozen = NoTask
        /\ handle' = NoTask /\ resolving' = FALSE
    BY <1>3 DEF TickBackendResolution, Forget, GoTo
  <2> QED
    BY <2>1
<1>4. CASE Crash
  BY <1>4 DEF Crash
<1>5. CASE UNCHANGED vars
  BY <1>5 DEF vars, task, app
<1> QED
  BY <1>1, <1>2, <1>3, <1>4, <1>5 DEF Next

\* Loads are refused only while a task is at work, or has its answer ready for the tick,
\* and the picker's task is one with timeouts; the loop stands only for a task that can
\* answer it.  Deletions, crashes and newer tasks of the picker do not change this:
\* what ResolvingEnds leaves to the fairness is that a task goes on.
\* (backend_picker.rs:60, async_ops.rs:285)
THEOREM WaitingIsAnswered == Spec => []WaitsForATask
<1>1. Init => WaitInv
  BY DEF Init, WaitInv, AppTyped, WaitsForATask
<1>2. IInv /\ WaitInv /\ [Next]_vars => WaitInv'
  BY KeyWaits, TasksWait DEF IInv
<1>3. WaitInv => WaitsForATask
  BY DEF WaitInv
<1> QED
  BY <1>1, <1>2, <1>3, InitEstablishes, NextKeeps, PTL DEF Spec
=============================================================================
