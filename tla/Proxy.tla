---------------------------------- MODULE Proxy ----------------------------------
(***************************************************************************)
(* The requests the API proxy passes on to llama-server: what the web adds *)
(* to a question on its way, and the tokens that are counted, over the     *)
(* chunks of all the streams that come back, to show a rate.               *)
(***************************************************************************)
EXTENDS Naturals, Sequences, SequencesExt

CONSTANTS
    Requests,
    Window,     \* a rate is taken over the samples of this time
    Active,     \* and shown for this long after the last one
    MinSpan,
    MaxSamples, \* samples a poll leaves untouched, and how many it leaves of more
    Kept,
    MaxTime     \* bound

Line(kind) == <<kind, "nl">>

\* What llama-server streams: lines with a token and others, a byte each and its end.
Streams == {Line("token"), Line("other") \o Line("token"), Line("token") \o Line("token")}

VARIABLES
    request,    \* request -> see TypeOK
    whole,      \* stream -> the bytes llama-server answers
    tracker,    \* StreamSpeedTracker
    now

proxyVars == <<request, whole, tracker, now>>

Phases == {"idle", "gather search", "gather fetch", "sent", "stream", "done"}

ProxyTypeOK ==
    /\ request \in [Requests ->
          [phase : Phases,
           search : BOOLEAN, fetch : BOOLEAN,       \* whether the tasks run
           left : 0 .. 4,           \* bytes to come
           buffer : Seq({"token", "other", "nl"}),
           counted : 0 .. 2]]
    /\ whole \in [Requests -> {<<>>} \cup Streams]
    /\ tracker \in [samples : Seq([at : 0 .. MaxTime, n : Nat]), count : Nat,
                    rate : {<<>>} \cup (Nat \X Nat)]
    /\ now \in 0 .. MaxTime

Fresh == [phase |-> "idle", search |-> FALSE, fetch |-> FALSE, left |-> 0,
          buffer |-> <<>>, counted |-> 0]
NewTracker == [samples |-> <<>>, count |-> 0, rate |-> <<>>]

Init ==
    /\ request = [r \in Requests |-> Fresh] /\ whole = [r \in Requests |-> <<>>]
    /\ tracker = NewTracker /\ now = 0

Becomes(r, new) == request' = [request EXCEPT ![r] = new]

-----------------------------------------------------------------------------
(* StreamSpeedTracker.                                                      *)

IsActive == tracker.samples # <<>> /\ now - Last(tracker.samples).at < Active

\* Mutant: the samples stay.
ResetCount == [tracker EXCEPT !.count = 0, !.rate = <<>>]

Reset == NewTracker

OnTokens(n) ==
    [tracker EXCEPT !.count = @ + n,
                    !.samples = @ \o [i \in 1 .. n |-> [at |-> now, n |-> tracker.count + i]]]

\* The samples of the window, but always one, and not more than MaxSamples.
InWindow(samples) ==
    LET gone == {i \in 1 .. Len(samples) - 1 : \A j \in 1 .. i : now - samples[j].at > Window}
        from == 1 + IF gone = {} THEN 0 ELSE CHOOSE i \in gone : \A j \in gone : j <= i
        recent == SubSeq(samples, from, Len(samples))
    IN IF Len(recent) <= MaxSamples THEN recent
       ELSE SubSeq(recent, Len(recent) - Kept + 1, Len(recent))

\* rate(), for the metrics of the terminal program and for /api/status.
Poll ==
    /\ IsActive
    /\ LET samples == InWindow(tracker.samples)
           span == now - Head(samples).at
           tokens == tracker.count - Head(samples).n
       IN tracker' = [tracker EXCEPT !.samples = samples,
                                     !.rate = IF span < MinSpan \/ tokens = 0 THEN @
                                              ELSE <<tokens, span>>]
    /\ UNCHANGED <<request, whole, now>>

-----------------------------------------------------------------------------
(* proxy_streaming.                                                         *)

\* What the last message calls for: a search, pages it names, both or neither.
Calls == [search : BOOLEAN, fetch : BOOLEAN]

\* A completion: the tracker is reset unless a stream feeds it, the question is read
\* and the tasks it calls for are spawned.  A body or a JSON that is bad is refused.
Complete(r) ==
    /\ request[r].phase = "idle"
    /\ tracker' = IF IsActive THEN tracker ELSE Reset
    /\ \E call \in Calls : Becomes(r, [request[r] EXCEPT !.phase = "gather search",
                                         !.search = call.search, !.fetch = call.fetch])
    /\ UNCHANGED <<whole, now>>

Refuse(r) ==
    /\ request[r].phase = "idle" /\ tracker' = IF IsActive THEN tracker ELSE Reset
    /\ Becomes(r, [request[r] EXCEPT !.phase = "done"])
    /\ UNCHANGED <<whole, now>>

\* Any other path: nothing is read or counted.
PassOn(r) ==
    /\ request[r].phase = "idle" /\ Becomes(r, [request[r] EXCEPT !.phase = "done"])
    /\ UNCHANGED <<whole, tracker, now>>

\* With what they found, or nothing: what was found in time is put before the question.
TaskEnds(r) ==
    /\ \/ request[r].search /\ Becomes(r, [request[r] EXCEPT !.search = FALSE])
       \/ request[r].fetch /\ Becomes(r, [request[r] EXCEPT !.fetch = FALSE])
    /\ UNCHANGED <<whole, tracker, now>>

\* The search is awaited first, then the pages, each until WEB_SEARCH_TIMEOUT: a task
\* that still runs is left behind.
WaitSearch(r) ==
    /\ request[r].phase = "gather search"
    /\ Becomes(r, [request[r] EXCEPT !.phase = "gather fetch", !.search = FALSE])
    /\ UNCHANGED <<whole, tracker, now>>

\* Mutant: the pages are awaited for as long as they take.
WaitForPages(r) ==
    /\ request[r].phase = "gather fetch" /\ ~request[r].fetch
    /\ Becomes(r, [request[r] EXCEPT !.phase = "sent"])
    /\ UNCHANGED <<whole, tracker, now>>

WaitFetch(r) ==
    /\ request[r].phase = "gather fetch"
    /\ Becomes(r, [request[r] EXCEPT !.phase = "sent", !.fetch = FALSE])
    /\ UNCHANGED <<whole, tracker, now>>

\* llama-server answers with a stream, or with a body that is sent on as it is, or is
\* not there.
Answered(r) ==
    /\ request[r].phase = "sent" /\ UNCHANGED <<tracker, now>>
    /\ \/ \E stream \in Streams :
            /\ Becomes(r, [request[r] EXCEPT !.phase = "stream", !.left = Len(stream)])
            /\ whole' = [whole EXCEPT ![r] = stream]
       \/ Becomes(r, [request[r] EXCEPT !.phase = "done"]) /\ UNCHANGED whole

Ends(bytes) == {i \in DOMAIN bytes : bytes[i] = "nl"}
Tokens(bytes) == {i \in Ends(bytes) : i > 1 /\ bytes[i - 1] = "token"}
Unended(bytes) ==
    IF Ends(bytes) = {} THEN bytes
    ELSE SubSeq(bytes, 1 + CHOOSE i \in Ends(bytes) : \A j \in Ends(bytes) : j <= i, Len(bytes))

Number(set) == IF set = {} THEN 0 ELSE IF \E i, j \in set : i # j THEN 2 ELSE 1

\* Mutant: a line that is cut by the end of a chunk is lost.
CountStreamChunk(r, chunk) == [tokens |-> Number(Tokens(chunk)), rest |-> <<>>]

CountStreamTokens(r, chunk) ==
    LET bytes == request[r].buffer \o chunk
    IN [tokens |-> Number(Tokens(bytes)), rest |-> Unended(bytes)]

Delivered(r) == Len(whole[r]) - request[r].left

\* Some of the bytes come, cut anywhere.
Chunk(r) ==
    /\ request[r].phase = "stream"
    /\ \E n \in 1 .. request[r].left :
        LET c == CountStreamTokens(r, SubSeq(whole[r], Delivered(r) + 1, Delivered(r) + n))
        IN /\ Becomes(r, [request[r] EXCEPT !.left = @ - n, !.buffer = c.rest,
                                            !.counted = @ + c.tokens])
           /\ tracker' = OnTokens(c.tokens)
    /\ UNCHANGED <<whole, now>>

\* The stream ends, or the client or llama-server leaves.
StreamEnds(r) ==
    /\ request[r].phase = "stream" /\ Becomes(r, [Fresh EXCEPT !.phase = "done"])
    /\ whole' = [whole EXCEPT ![r] = <<>>]
    /\ UNCHANGED <<tracker, now>>

Tick == now < MaxTime /\ now' = now + 1 /\ UNCHANGED <<request, whole, tracker>>

Next ==
    \/ Poll \/ Tick
    \/ \E r \in Requests :
        \/ Complete(r) \/ Refuse(r) \/ PassOn(r) \/ TaskEnds(r) \/ WaitSearch(r)
        \/ WaitFetch(r) \/ Answered(r) \/ Chunk(r) \/ StreamEnds(r)

\* A timeout comes; the engine, the pages and llama-server need not.
Spec ==
    /\ Init /\ [][Next]_proxyVars
    /\ \A r \in Requests : WF_proxyVars(WaitSearch(r)) /\ WF_proxyVars(WaitFetch(r))

-----------------------------------------------------------------------------
(***************************************************************************)
(* Properties.                                                             *)
(***************************************************************************)

\* Every line with a token that has come is counted once, wherever the chunks of its
\* stream were cut and whatever other streams did in between.
TokensAreCounted ==
    \A r \in Requests :
        request[r].counted = Number(Tokens(SubSeq(whole[r], 1, Delivered(r))))

\* The count never falls behind its oldest sample (the difference is unsigned), and
\* a rate is over a span that is not zero and over tokens that were counted.
RateIsSound ==
    /\ tracker.samples # <<>> =>
         /\ Head(tracker.samples).n <= tracker.count /\ Head(tracker.samples).at <= now
         /\ Last(tracker.samples).n = tracker.count
    /\ tracker.rate # <<>> => tracker.rate[2] >= MinSpan /\ tracker.rate[1] <= tracker.count

\* A question is not held back for ever by a search engine or a page that is silent.
GatheringEnds ==
    \A r \in Requests :
        request[r].phase = "gather search" ~> request[r].phase \in {"sent", "stream", "done"}
=============================================================================
