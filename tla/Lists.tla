--------------------------------- MODULE Lists ---------------------------------
(***************************************************************************)
(* Two lists the user edits in place: the RPC workers of the configuration *)
(* and the tags of a model.  Both keep an index into a list that keys of   *)
(* the same dialog make shorter.  A worker is the number of shares its     *)
(* tensor_split names and whether its server is asked for; a tag is what   *)
(* was typed.                                                              *)
(***************************************************************************)
EXTENDS Naturals, Sequences, SequencesExt

CONSTANTS
    Names,       \* bound: what is typed for a tag
    MaxItems,    \* bound: entries of a list
    MaxListKeys  \* bound: keys of the user

Nowhere == 0    \* no index; an index counts from 1 here

Worker == [selected : BOOLEAN, shares : 0 .. 2]

VARIABLES
    workers,    \* config.rpc_workers
    workerAt,   \* rpc_workers_selected_idx
    changing,   \* editing_rpc_worker, with how many parts the buffer has, 0 when it is cleared
    splitting,  \* editing_rpc_worker_tensor_split, with the buffer's shares
    tags,       \* settings.tags
    tagAt,      \* tags_selected_idx
    adding,     \* tags_insert_mode
    tagText,    \* tags_edit_buffer, <<>> or the tag it holds
    listKeys

listVars == <<workers, workerAt, changing, splitting, tags, tagAt, adding, tagText, listKeys>>
workerVars == <<workers, workerAt, changing, splitting>>
tagVars == <<tags, tagAt, adding, tagText>>

NotChanging == [index |-> Nowhere, parts |-> 0, shares |-> 0]
NotSplitting == [index |-> Nowhere, shares |-> 0]

ListInit ==
    /\ workers \in {<<>>, <<[selected |-> TRUE, shares |-> 1], [selected |-> FALSE, shares |-> 0]>>}
    /\ workerAt = 1 /\ changing = NotChanging /\ splitting = NotSplitting
    /\ tags \in {<<>>, <<CHOOSE n \in Names : TRUE>>}
    /\ tagAt = Nowhere /\ adding = TRUE /\ tagText = <<>>
    /\ listKeys = 0

Key == listKeys < MaxListKeys /\ listKeys' = listKeys + 1
ViewingWorkers == Key /\ changing = NotChanging /\ splitting = NotSplitting /\ UNCHANGED tagVars
Lower(a, b) == IF a < b THEN a ELSE b
AtLeastOne(n) == IF n < 1 THEN 1 ELSE n

WorkerUp == ViewingWorkers /\ workerAt' = AtLeastOne(workerAt - 1) /\ UNCHANGED <<workers, changing, splitting>>
WorkerDown ==
    /\ ViewingWorkers /\ workers # <<>> /\ workerAt' = Lower(workerAt + 1, Len(workers))
    /\ UNCHANGED <<workers, changing, splitting>>

ToggleWorker ==
    /\ ViewingWorkers /\ workerAt \in DOMAIN workers
    /\ workers' = [workers EXCEPT ![workerAt].selected = ~@]
    /\ UNCHANGED <<workerAt, changing, splitting>>

\* 'n'
NewWorker ==
    /\ ViewingWorkers /\ changing' = [NotChanging EXCEPT !.index = Len(workers) + 1]
    /\ UNCHANGED <<workers, workerAt, splitting>>

\* 'e': name, address, port and tensor_split, separated by commas as the shares are.
EditWorker ==
    /\ ViewingWorkers /\ workerAt \in DOMAIN workers
    /\ changing' = [index |-> workerAt, parts |-> 3 + AtLeastOne(workers[workerAt].shares), shares |-> workers[workerAt].shares]
    /\ UNCHANGED <<workers, workerAt, splitting>>

\* What the user makes of the buffer.
TypeWorker(parts) ==
    /\ Key /\ changing # NotChanging
    /\ changing' = [changing EXCEPT !.parts = parts, !.shares = 1]
    /\ UNCHANGED <<workers, workerAt, splitting, tagVars>>

\* Enter: one to four parts make a worker that is selected; five have no address.  An
\* address or a port that is none keeps the list as it is.
EnterWorker(valid) ==
    /\ Key /\ changing # NotChanging
    /\ LET new == [selected |-> TRUE, shares |-> IF changing.parts = 4 THEN changing.shares ELSE 1]
           i == changing.index
       IN workers' = IF changing.parts \notin 1 .. 4 \/ ~valid THEN workers
                     ELSE IF i \in DOMAIN workers THEN [workers EXCEPT ![i] = new]
                     ELSE Append(workers, new)
    /\ Len(workers') <= MaxItems
    /\ changing' = NotChanging
    /\ UNCHANGED <<workerAt, splitting, tagVars>>

\* 't'
EditSplit ==
    /\ ViewingWorkers /\ workerAt \in DOMAIN workers
    /\ splitting' = [index |-> workerAt, shares |-> workers[workerAt].shares]
    /\ UNCHANGED <<workers, workerAt, changing>>

TypeSplit(shares) ==
    /\ Key /\ splitting # NotSplitting /\ splitting' = [splitting EXCEPT !.shares = shares]
    /\ UNCHANGED <<workers, workerAt, changing, tagVars>>

EnterSplit ==
    /\ Key /\ splitting # NotSplitting /\ splitting' = NotSplitting
    /\ workers' = [workers EXCEPT ![splitting.index].shares = splitting.shares]
    /\ UNCHANGED <<workerAt, changing, tagVars>>

EscapeWorker ==
    /\ Key /\ (changing # NotChanging \/ splitting # NotSplitting)
    /\ changing' = NotChanging /\ splitting' = NotSplitting
    /\ UNCHANGED <<workers, workerAt, tagVars>>

\* 'd'
DeleteWorker ==
    /\ ViewingWorkers /\ workers # <<>>
    /\ workers' = RemoveAt(workers, workerAt)
    /\ workerAt' = IF workerAt > Len(workers') /\ workers' # <<>> THEN Len(workers') ELSE workerAt
    /\ UNCHANGED <<changing, splitting>>
-----------------------------------------------------------------------------
TagKey == Key /\ UNCHANGED workerVars
LastTag == AtLeastOne(Len(tags))

\* Esc and Enter close the dialog; Enter in the settings opens it again.
CloseTags ==
    /\ TagKey /\ adding' = TRUE /\ tagAt' = Nowhere /\ tagText' = <<>>
    /\ UNCHANGED tags

TypeTag(n) ==
    /\ TagKey /\ tagText' = <<n>>
    /\ UNCHANGED <<tags, tagAt, adding>>

EnterTag ==
    /\ TagKey /\ (IF adding THEN tagText # <<>> ELSE tagAt # Nowhere)
    /\ tags' = IF adding THEN tags \o tagText
               ELSE IF tagText # <<>> /\ tagAt \in DOMAIN tags THEN [tags EXCEPT ![tagAt] = tagText[1]]
               ELSE tags
    /\ Len(tags') <= MaxItems
    /\ tagText' = <<>> /\ adding' = FALSE /\ tagAt' = Nowhere

\* Up, Down and their letters: from the input to the last tag, even when there is none.
MoveTag(d) ==
    /\ TagKey /\ tagText' = <<>> /\ UNCHANGED tags
    /\ IF adding THEN adding' = FALSE /\ tagAt' = LastTag
       ELSE IF tagAt # Nowhere
       THEN tagAt' = (IF d = "up" THEN AtLeastOne(tagAt - 1) ELSE Lower(tagAt + 1, LastTag)) /\ UNCHANGED adding
       ELSE IF d = "up" THEN tagAt' = LastTag /\ UNCHANGED adding
       ELSE IF tags # <<>> THEN tagAt' = 1 /\ UNCHANGED adding
       ELSE adding' = TRUE /\ UNCHANGED tagAt

\* 'e' and 'i': tags[idx] of a tag that is there.
EditTag ==
    /\ TagKey /\ ~adding /\ tagAt \in DOMAIN tags /\ tagText' = <<tags[tagAt]>>
    /\ UNCHANGED <<tags, tagAt, adding>>

\* Mutant: the index stays on a tag that is gone.
DeleteTagOnly ==
    /\ TagKey /\ ~adding /\ tagAt \in DOMAIN tags
    /\ tags' = RemoveAt(tags, tagAt) /\ tagText' = <<>>
    /\ UNCHANGED <<adding, tagAt>>

\* 'd', also while the tag is being typed
DeleteTag ==
    /\ TagKey /\ ~adding /\ tagAt \in DOMAIN tags
    /\ tags' = RemoveAt(tags, tagAt) /\ tagAt' = Nowhere /\ tagText' = <<>> /\ adding' = FALSE

\* 'a'
AddTag ==
    /\ TagKey /\ adding' = TRUE /\ tagAt' = Nowhere /\ tagText' = <<>>
    /\ UNCHANGED tags

TabTag ==
    /\ TagKey /\ adding' = ~adding /\ tagText' = <<>> /\ UNCHANGED tags
    /\ tagAt' = IF ~adding THEN Nowhere ELSE IF tags # <<>> THEN LastTag ELSE tagAt

ListNext ==
    \/ WorkerUp \/ WorkerDown \/ ToggleWorker \/ NewWorker \/ EditWorker \/ EditSplit
    \/ EnterSplit \/ EscapeWorker \/ DeleteWorker
    \/ \E parts \in 1 .. 5 : TypeWorker(parts)
    \/ \E valid \in BOOLEAN : EnterWorker(valid)
    \/ \E shares \in 0 .. 2 : TypeSplit(shares)
    \/ CloseTags \/ EnterTag \/ EditTag \/ DeleteTag \/ AddTag \/ TabTag
    \/ \E n \in Names : TypeTag(n)
    \/ \E d \in {"up", "down"} : MoveTag(d)

ListSpec == ListInit /\ [][ListNext]_listVars
-----------------------------------------------------------------------------
ListTypeOK ==
    /\ workers \in Seq(Worker) /\ Len(workers) <= MaxItems /\ workerAt \in Nat
    /\ tags \in Seq(Names) /\ Len(tags) <= MaxItems /\ tagAt \in Nat /\ adding \in BOOLEAN

\* An index is one of an entry: of the worker the next key removes or edits, whatever was
\* removed before, and of the tag, as long as the model has any.  A worker that is edited
\* is the one that is selected, or comes after the last.  (rpc_workers.rs:277, tags.rs:98)
IndexesAreOfEntries ==
    /\ workers # <<>> => workerAt \in DOMAIN workers
    /\ changing.index \in {Nowhere, workerAt, Len(workers) + 1} /\ splitting.index \in {Nowhere, workerAt}
    /\ tags # <<>> => tagAt \in {Nowhere} \cup DOMAIN tags

\* A tag is selected only when there is one.  Fails: Up leaves the input for the first of
\* no tags, where 'e' reads it.
TagIsThere == tagAt \in {Nowhere} \cup DOMAIN tags
=============================================================================
