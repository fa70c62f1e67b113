------------------------------ MODULE Transfers ------------------------------
(***************************************************************************)
(* The file-transfer API: uploads choose a directory's name, stream an     *)
(* archive beside it and extract it there; the review agent reads a        *)
(* transfer in a loop with the model.  All uploads here carry one label in *)
(* one second.                                                             *)
(***************************************************************************)
EXTENDS Naturals, FiniteSets

CONSTANTS
    Uploads,    \* concurrent requests to /api/transfer/upload
    MaxRounds,  \* max_rounds of the agent
    Budget      \* tool outputs of the largest size the budget has room for

Ids == 0..(Cardinality(Uploads) - 1)  \* the counter appended to the name, 0 for none
None == Cardinality(Uploads)

VARIABLES
    upload,         \* upload |-> where its handler is
    id,         \* upload |-> the name it looks for, then the name it chose
    tmp,        \* id |-> the uploads that wrote the file .incoming-<id>; {} when there is none
    dirs,       \* id |-> the uploads whose files the directory holds; {} when there is none
    alone,      \* history: uploads that met no other under the name they chose
    agent,      \* where the agent's run is: its transfer, round and output so far
    messages    \* the number of messages to the model, modulo 2

vars == <<upload, id, tmp, dirs, alone, agent, messages>>

Idle == [at |-> "idle", of |-> None, round |-> 0, injected |-> 0]

TypeOK ==
    /\ upload \in [Uploads -> {"start", "between", "chosen", "streams", "streamed", "extracts",
                        "spoilt", "cleans", "ok", "error"}]
    /\ id \in [Uploads -> Ids]
    /\ tmp \in [Ids -> SUBSET Uploads] /\ dirs \in [Ids -> SUBSET Uploads]
    /\ alone \subseteq Uploads
    /\ agent \in [at : {"idle", "asks", "answered", "failed"}, of : Ids \cup {None},
                  round : 0..MaxRounds, injected : 0..Budget]
    /\ messages \in {0, 1}

Init ==
    /\ upload = [u \in Uploads |-> "start"] /\ id = [u \in Uploads |-> 0]
    /\ tmp = [i \in Ids |-> {}] /\ dirs = [i \in Ids |-> {}]
    /\ alone = Uploads /\ agent = Idle /\ messages = 0

GoTo(u, place) == upload' = [upload EXCEPT ![u] = place]

\* The handler of u looks for a name.
Looks(u) == upload[u] \in {"start", "between"}

\* It has a name and has not answered.
UnderWay(u) == ~Looks(u) /\ upload[u] \notin {"ok", "error"}

\* The uploads one meets under a name i that it takes: those whose file is not there
\* yet, those that have met another so and still go on, and those that made the
\* directory after it had looked for one, and removed the file before it looked for that.
Meets(i) ==
    {v \in Uploads :
        /\ ~Looks(v) /\ id[v] = i
        /\ \/ upload[v] = "chosen"
           \/ UnderWay(v) /\ v \notin alone
           \/ v \in dirs[i]}

-----------------------------------------------------------------------------
(* upload.  The loop over the names asks for the directory first, then for *)
(* the file of an upload on its way; others move between the two.          *)

\* The name is in use: the next one.
NextName(u) ==
    /\ id' = [id EXCEPT ![u] = @ + 1] /\ GoTo(u, "start")
    /\ UNCHANGED alone

LookForDirectory(u) ==
    /\ upload[u] = "start"
    /\ IF dirs[id[u]] # {} THEN NextName(u) ELSE GoTo(u, "between") /\ UNCHANGED <<id, alone>>
    /\ UNCHANGED <<tmp, dirs, agent, messages>>

\* Neither was there: the name is taken, and those met under it are noted.
Take(u) ==
    /\ GoTo(u, "chosen")
    /\ alone' = IF Meets(id[u]) = {} THEN alone ELSE alone \ (Meets(id[u]) \cup {u})
    /\ UNCHANGED id

\* Mutant: only received transfers are looked at, not those on their way.
LookForNoFile(u) ==
    /\ upload[u] = "between" /\ Take(u)
    /\ UNCHANGED <<tmp, dirs, agent, messages>>

LookForFile(u) ==
    /\ upload[u] = "between"
    /\ IF tmp[id[u]] # {} THEN NextName(u) ELSE Take(u)
    /\ UNCHANGED <<tmp, dirs, agent, messages>>

\* An await later the file is created, or emptied when it is there: those who still
\* write it go on.
CreateTmp(u) ==
    /\ upload[u] = "chosen" /\ GoTo(u, "streams")
    /\ tmp' = [tmp EXCEPT ![id[u]] = {u} \cup {w \in @ : upload[w] = "streams"}]
    /\ UNCHANGED <<id, dirs, alone, agent, messages>>

\* The directory of the transfers or the file cannot be made.
CreateFails(u) ==
    /\ upload[u] = "chosen" /\ GoTo(u, "error")
    /\ UNCHANGED <<id, tmp, dirs, alone, agent, messages>>

Streamed(u) ==
    /\ upload[u] = "streams" /\ GoTo(u, "streamed")
    /\ UNCHANGED <<id, tmp, dirs, alone, agent, messages>>

\* A bad body, one too large, or a write that fails.
StreamFails(u) ==
    /\ upload[u] = "streams" /\ GoTo(u, "error")
    /\ tmp' = [tmp EXCEPT ![id[u]] = {}]
    /\ UNCHANGED <<id, dirs, alone, agent, messages>>

\* The archive is opened by its name: it is one only when a single upload wrote it
\* and has finished.
Extract(u) ==
    LET i == id[u]
        whole == \E w \in tmp[i] : tmp[i] = {w} /\ upload[w] # "streams"
    IN /\ upload[u] = "streamed" /\ tmp[i] # {}
       /\ dirs' = [dirs EXCEPT ![i] = @ \cup tmp[i]]
       /\ GoTo(u, IF whole THEN "extracts" ELSE "spoilt")
       /\ UNCHANGED <<id, tmp, alone, agent, messages>>

\* The file is gone, or no good archive, which one whose last bytes are not written
\* yet is not either: first the file is removed,
Rejected(u) ==
    /\ upload[u] \in {"streamed", "extracts", "spoilt"} /\ GoTo(u, "cleans")
    /\ upload[u] = "streamed" => tmp[id[u]] = {}
    /\ tmp' = [tmp EXCEPT ![id[u]] = {}]
    /\ UNCHANGED <<id, dirs, alone, agent, messages>>

\* an await later the directory.
Cleaned(u) ==
    /\ upload[u] = "cleans" /\ GoTo(u, "error")
    /\ dirs' = [dirs EXCEPT ![id[u]] = {}]
    /\ UNCHANGED <<id, tmp, alone, agent, messages>>

Received(u) ==
    /\ upload[u] = "extracts" /\ GoTo(u, "ok")
    /\ tmp' = [tmp EXCEPT ![id[u]] = {}]
    /\ UNCHANGED <<id, dirs, alone, agent, messages>>

UploadStep(u) ==
    \/ LookForDirectory(u) \/ LookForFile(u) \/ CreateTmp(u) \/ CreateFails(u)
    \/ Streamed(u) \/ StreamFails(u) \/ Extract(u) \/ Rejected(u) \/ Cleaned(u) \/ Received(u)

-----------------------------------------------------------------------------
(* The agent's run: one question to the model in every round.              *)

\* resolve_transfer and the check for files; no rounds give an error at once.
AgentStarts ==
    /\ agent.at # "asks"
    /\ \E i \in Ids :
           /\ dirs[i] # {}
           /\ agent' = [at |-> IF MaxRounds = 0 THEN "failed" ELSE "asks", of |-> i,
                        round |-> 0, injected |-> 0]
    /\ messages' = 0
    /\ UNCHANGED <<upload, id, tmp, dirs, alone>>

\* The run returns, and what it kept is gone.
Ends(answer) == agent' = [Idle EXCEPT !.at = answer] /\ messages' = 0

\* The next round, or the error when the rounds are used up.
NextRound(output) ==
    IF agent.round + 1 = MaxRounds THEN Ends("failed")
    ELSE /\ agent' = [agent EXCEPT !.round = @ + 1, !.injected = @ + output]
         /\ messages' = 1 - messages

\* The model answers, or the request to it fails.
Final ==
    /\ agent.at = "asks" /\ Ends("answered")
    /\ UNCHANGED <<upload, id, tmp, dirs, alone>>

ModelFails ==
    /\ agent.at = "asks" /\ Ends("failed")
    /\ UNCHANGED <<upload, id, tmp, dirs, alone>>

\* LIST, READ or GREP: the output, or the error of a transfer that has gone, goes
\* to the model, within the budget.
Command ==
    /\ agent.at = "asks"
    /\ \E output \in {0, 1} :
           /\ dirs[agent.of] = {} => output = 0
           /\ IF agent.injected + output > Budget THEN Ends("failed") ELSE NextRound(output)
    /\ UNCHANGED <<upload, id, tmp, dirs, alone>>

\* Mutant: a reply that is no command does not count as a round.
NudgeFree ==
    /\ agent.at = "asks" /\ messages' = 1 - messages
    /\ UNCHANGED <<upload, id, tmp, dirs, alone, agent>>

\* A reply that is neither is answered with a reminder, and takes a round.
Nudge ==
    /\ agent.at = "asks" /\ NextRound(0)
    /\ UNCHANGED <<upload, id, tmp, dirs, alone>>

AgentStep == Final \/ ModelFails \/ Command \/ Nudge

Next == (\E u \in Uploads : UploadStep(u)) \/ AgentStarts \/ AgentStep

Spec == Init /\ [][Next]_vars

\* Fairness: the model comes to an end; who uploads may stall for ever.
Fairness == WF_vars(Command \/ Nudge)

FairSpec == Spec /\ Fairness

-----------------------------------------------------------------------------
(***************************************************************************)
(* Properties.                                                             *)
(***************************************************************************)

\* An upload that took its name unseen by no other, and saw all others: when it is
\* accepted, its directory holds its files and nothing else, for as long as others
\* upload; when it is rejected, nothing of it stays.
UploadIsWhole ==
    \A u \in alone :
        /\ upload[u] = "ok" => dirs[id[u]] = {u}
        /\ upload[u] = "error" => \A i \in Ids : u \notin dirs[i] \cup tmp[i]

\* The same for every upload: the counter makes the names unique.
UploadStays == \A u \in Uploads : upload[u] = "ok" => dirs[id[u]] = {u}

\* Every run of the agent ends, whatever the model replies.
AgentEnds == agent.at = "asks" ~> agent.at # "asks"
=============================================================================
