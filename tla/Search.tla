--------------------------------- MODULE Search ---------------------------------
(***************************************************************************)
(* Searching models on the hub: the query, the pages that are added to the *)
(* results as the cursor reaches their end, and the files of a result.     *)
(* The program handles one key, then what the key asked for, before it     *)
(* reads the next key.                                                     *)
(***************************************************************************)
EXTENDS Naturals, Sequences, FiniteSets, SequencesExt

CONSTANTS
    Limit,      \* config.search_limit
    Total,      \* models the hub finds for the query
    Unrelated,  \* those among them whose name does not have its words
    MaxFailures \* bound: requests that fail

Hub == 1 .. Total       \* in the order of the hub

VARIABLES
    view,       \* models_mode: "list", "search" or "files"
    typing,     \* GlobalMode::SearchInput
    query,      \* 0: empty, 1: a word
    results,
    page,
    more,       \* has_more
    loading,
    at,         \* search_results_idx, from 1; 0 when there is none
    files,      \* the files of the result that was opened, and the results before
    asked,      \* PendingEvent::Search: its query and offset
    first,      \* history: the first page of the query was asked for
    misses      \* requests that failed

vars == <<view, typing, query, results, page, more, loading, at, files, asked, first, misses>>

Nothing == {}

Init ==
    /\ view = "list" /\ typing = FALSE /\ query = 0 /\ results = <<>>
    /\ page = 0 /\ more = TRUE /\ loading = FALSE /\ at \in {0, 1}
    /\ files = <<>> /\ asked = Nothing /\ first = FALSE /\ misses = 0

TypeOK ==
    /\ view \in {"list", "search", "files"} /\ typing \in BOOLEAN /\ query \in 0 .. 1
    /\ Range(results) \subseteq Hub /\ page \in 0 .. Total + 1
    /\ {more, loading, first} \subseteq BOOLEAN /\ at \in Nat /\ Range(files) \subseteq Hub
    /\ asked \in {Nothing} \cup {{[query |-> q, offset |-> o]} : q \in 0 .. 1, o \in 0 .. Limit * (Total + 1)}
    /\ misses \in 0 .. MaxFailures

-----------------------------------------------------------------------------
(* The hub.                                                                 *)

\* What the hub sends for an offset, and what search_models keeps of it: names
\* without a word of the query are dropped, after the page was cut.
Raw(offset) == {m \in Hub : m > offset /\ m <= offset + Limit}
Related(q, models) == IF q = 0 THEN models ELSE models \ Unrelated

\* Both are in the order of the hub: the ith model is the one with i of them up to it.
InHubOrder(models) ==
    [i \in 1 .. Cardinality(models) |-> CHOOSE m \in models : Cardinality({k \in models : k <= m}) = i]

New(models) == models \ Range(results)

\* Mutant: a page that is loaded twice is shown twice.
AppendAll(found, raw) ==
    /\ results' = results \o InHubOrder(found)
    /\ more' = (Cardinality(raw) >= Limit)
    /\ UNCHANGED at

AppendPage(found, raw) ==
    /\ results' = results \o InHubOrder(New(found))
    /\ more' = (Cardinality(raw) >= Limit)
    /\ UNCHANGED at

ReplacePage(found, raw) ==
    /\ results' = InHubOrder(found)
    /\ at' = IF found = {} THEN 0 ELSE 1
    /\ more' = (Cardinality(raw) >= Limit)

-----------------------------------------------------------------------------
(* drain_pending_search: nothing but the search mode takes the answer.      *)

Answer ==
    /\ \E r \in asked :
        IF view # "search" THEN UNCHANGED <<results, at, more, loading>>
        ELSE /\ loading' = FALSE
             /\ LET raw == Raw(r.offset)
                    found == Related(r.query, raw)
                IN IF r.offset > 0 THEN AppendPage(found, raw) ELSE ReplacePage(found, raw)
    /\ asked' = Nothing
    /\ UNCHANGED <<view, typing, query, page, files, first, misses>>

\* The page that was counted is not counted back.
Fails ==
    /\ asked # Nothing /\ asked' = Nothing
    /\ misses < MaxFailures /\ misses' = misses + 1
    /\ loading' = (loading /\ view # "search")
    /\ UNCHANGED <<view, typing, query, results, page, more, at, files, first>>

Ask(q, offset) == asked' = {[query |-> q, offset |-> offset]}

-----------------------------------------------------------------------------
(* The keys.                                                                *)

Key == asked = Nothing
Searching == Key /\ view = "search" /\ ~typing

\* "/" anywhere, and the palette, start a search; Enter in the empty models panel
\* does it without asking for a query.
OpenSearch ==
    /\ Key /\ view = "list" /\ ~typing
    /\ view' = "search" /\ typing' \in BOOLEAN
    /\ query' = 0 /\ results' = <<>> /\ page' = 0 /\ more' = TRUE /\ loading' = FALSE
    /\ at' = (IF typing' THEN 1 ELSE at) /\ first' = FALSE
    /\ UNCHANGED <<files, asked, misses>>

\* "/" in the search keeps what was found until the query is entered.
OpenInput ==
    /\ Searching /\ typing' = TRUE
    /\ UNCHANGED <<view, query, results, page, more, loading, at, files, asked, first, misses>>

CloseInput ==
    /\ Key /\ typing /\ typing' = FALSE
    /\ UNCHANGED <<view, query, results, page, more, loading, at, files, asked, first, misses>>

EnterQuery ==
    /\ Key /\ typing /\ typing' = FALSE
    /\ query' \in 0 .. 1
    /\ results' = <<>> /\ page' = 0 /\ more' = TRUE
    /\ first' = (query' # 0)
    /\ IF query' = 0 THEN UNCHANGED <<asked, at>> ELSE Ask(query', 0) /\ at' = 0
    /\ UNCHANGED <<view, loading, files, misses>>

AtEnd == at # 0 /\ at >= Len(results)

\* Mutant: the page is counted when its models have come, and asked for before.
LoadThisPage ==
    /\ AtEnd /\ more /\ ~loading
    /\ page' = page + 1 /\ loading' = TRUE
    /\ Ask(query, (page + 2) * Limit)
    /\ UNCHANGED at

LoadNextPage ==
    /\ AtEnd /\ more /\ ~loading
    /\ page' = page + 1 /\ loading' = TRUE
    /\ Ask(query, (page + 1) * Limit)
    /\ UNCHANGED at

Down ==
    /\ Searching /\ page <= Total
    /\ \/ LoadNextPage
       \/ /\ ~(AtEnd /\ more /\ ~loading)
          /\ at' = IF at < Len(results) THEN at + 1
                   ELSE IF at = 0 THEN 0 ELSE IF results = <<>> THEN 1 ELSE Len(results)
          /\ UNCHANGED <<page, loading, asked>>
    /\ UNCHANGED <<view, typing, query, results, more, files, first, misses>>

Up ==
    /\ Searching
    /\ at' = IF at > 1 THEN at - 1 ELSE IF at = 0 /\ results # <<>> THEN 1 ELSE at
    /\ UNCHANGED <<view, typing, query, results, page, more, loading, files, asked, first, misses>>

\* Ctrl+B: the page before is asked for again.
PageBack ==
    /\ Searching /\ page > 0
    /\ page' = page - 1 /\ Ask(query, (page - 1) * Limit)
    /\ first' = (first \/ page = 1)
    /\ UNCHANGED <<view, typing, query, results, more, loading, at, files, misses>>

\* Ctrl+S: by downloads, likes, trend or date, or as they are.
Sort ==
    /\ Searching
    /\ results' \in {results, Reverse(InHubOrder(Range(results)))}
    /\ at' = IF results = <<>> THEN 0 ELSE 1
    /\ UNCHANGED <<view, typing, query, page, more, loading, files, asked, first, misses>>

\* list_gguf_files: main or master, page by page; what an answer that is no success
\* leaves out is not missed, and nothing at all is an error.
Listing == {"all", "some", "error"}

OpenFiles ==
    /\ Searching /\ at \in DOMAIN results
    /\ \E listed \in Listing :
        IF listed = "error" THEN UNCHANGED <<view, files>>
        ELSE view' = "files" /\ files' = results
    /\ UNCHANGED <<typing, query, results, page, more, loading, at, asked, first, misses>>

\* Esc in the files: the search is as it was, but for its page.
BackToSearch ==
    /\ Key /\ view = "files" /\ view' = "search"
    /\ results' = files /\ files' = <<>> /\ page' = 0 /\ more' = TRUE /\ loading' = FALSE
    /\ at' = IF at > Len(files) THEN 1 ELSE at
    /\ UNCHANGED <<typing, query, asked, first, misses>>

Leave ==
    /\ Searching /\ view' = "list"
    /\ results' = <<>> /\ page' = 0 /\ more' = TRUE /\ loading' = FALSE /\ first' = FALSE
    /\ UNCHANGED <<typing, query, at, files, asked, misses>>

Next ==
    \/ Answer \/ Fails
    \/ OpenSearch \/ OpenInput \/ CloseInput \/ EnterQuery \/ Down \/ Up \/ PageBack \/ Sort
    \/ OpenFiles \/ BackToSearch \/ Leave

Spec == Init /\ [][Next]_vars

-----------------------------------------------------------------------------
(***************************************************************************)
(* Properties.                                                             *)
(***************************************************************************)

\* The results are the models of the first pages, each once, whatever was loaded
\* again, sorted or left for the files in between; and the list never waits for a
\* page nobody asked for.  It is not said of a search in which a request failed,
\* nor of one that never asked for its first page.
ResultsAreThePages ==
    /\ Len(results) = Cardinality(Range(results))
    /\ loading => asked # Nothing
    /\ view = "search" /\ first /\ misses = 0 /\ asked = Nothing =>
           \A m \in Hub \ Unrelated : m <= (page + 1) * Limit => m \in Range(results)
=============================================================================
