-------------------------------- MODULE BenchSetup --------------------------------
(***************************************************************************)
(* The dialog that prepares a benchmark: the prompt is edited as text, the *)
(* ranges of the parameters one number after the other, and every          *)
(* combination of their values is a test.                                  *)
(***************************************************************************)
EXTENDS Integers, Sequences, FiniteSets, FiniteSetsExt, Functions

CONSTANTS
    Params,         \* params_to_test but for spec_type, in a set
    Flash,          \* "flash_attn", shown as on and off
    Draft,          \* "draft_tokens", for a speculative sweep only
    Signed,         \* "expert_count", in a set
    Unit,           \* numbers are counted in parts, as many as this to a whole one; parts
                    \* that f64 holds, so that its arithmetic is that of the parts
    Infinity,       \* what "1e999" parses to, and every number that makes more steps than
                    \* memory holds
    Largest,        \* bound: u32::MAX and i32::MAX
    Numbers,        \* that are typed, with a sign or without
    Variants,       \* spec types, numbered; 0 is "Off"
    MaxText,        \* bound: characters of the prompt
    MaxSetupEdits   \* bound: numbers that are committed

\* A character is written as the bytes it takes.
Character == {1, 2}
Text == UNION {[1 .. n -> Character] : n \in 0 .. MaxText}

VARIABLES
    params,     \* parameter -> its range
    spec,       \* the min of spec_type, which its arrows move
    row,        \* selected_idx
    editing,    \* the parameter whose range is open, and which number of it; or closed
    prompt,
    field,      \* the prompt is open
    text,       \* field_edit_buffer
    cursor,     \* field_edit_cursor
    fell,       \* the program ended with a panic
    commits

setupVars == <<params, spec, row, editing, prompt, field, text, cursor, fell, commits>>

Closed == [param |-> "", number |-> 0]

SetupTypeOK ==
    /\ params \in [Params -> [min : -Infinity .. Infinity, max : -Infinity .. Infinity,
                              step : -Infinity .. Infinity, on : BOOLEAN]]
    /\ spec \in 0 .. Variants - 1 /\ row \in Params
    /\ editing \in {Closed} \cup [param : Params, number : 0 .. 2]
    /\ {prompt, text} \subseteq Text /\ cursor \in Nat /\ {field, fell} \subseteq BOOLEAN
    /\ commits \in 0 .. MaxSetupEdits

\* BenchTuneConfig::new, with what a range holds cut to a small one.
Init ==
    /\ params = [p \in Params |->
                     IF p = Flash THEN [min |-> 0, max |-> Unit, step |-> Unit, on |-> FALSE]
                     ELSE [min |-> 0, max |-> 3 * Unit, step |-> 2 * Unit, on |-> FALSE]]
    /\ spec = 0 /\ row \in Params /\ editing = Closed
    /\ prompt = <<1>> /\ field = FALSE /\ text = <<>> /\ cursor = 0 /\ fell = FALSE
    /\ commits = 0

-----------------------------------------------------------------------------
(* The combinations.                                                        *)

\* Steps from min to max, the last one cut; a negative number of them is none, and so
\* is inf / inf.
StepCount(r) ==
    LET width == r.max - r.min
    IN IF width <= 0 \/ r.step = Infinity THEN 0 ELSE (width + r.step - 1) \div r.step

\* As many as usize has, and one more.
Endless(r) ==
    r.min < r.max /\ r.step # Infinity /\ (r.min = -Infinity \/ r.max = Infinity)

\* p.min + i * p.step, cut; 0 * inf is no number, and NaN.min(max) is the end.
Value(r, i) ==
    IF r.step # Infinity /\ r.min + i * r.step <= r.max THEN r.min + i * r.step ELSE r.max

\* v as u32: drops the fraction and takes what is out of its bounds to them.
Whole(v) ==
    CASE v <= 0 -> 0
      [] v >= Largest * Unit -> Largest
      [] 0 < v /\ v < Largest * Unit -> v \div Unit

\* v >= 0.5 for the switch, v as i32 for what has a sign.
Converted(p, v) ==
    IF p = Flash THEN IF 2 * v >= Unit THEN 1 ELSE 0
    ELSE IF p \in Signed /\ v < 0 THEN -Whole(-v)
    ELSE Whole(v)

\* What is tested of a range that ends.
RangeValues(p, r) == [i \in 1 .. StepCount(r) + 1 |-> Converted(p, Value(r, i - 1))]

Enabled == {p \in Params : params[p].on}

Product(set, Size(_)) ==
    MapThenFoldSet(LAMBDA a, b : a * b, 1, Size, LAMBDA s : CHOOSE q \in s : TRUE, set)

\* generate_combinations, how many: a parameter that is off has one value.
Tests == Product(Enabled, LAMBDA p : Len(RangeValues(p, params[p])))

\* Mutant: the steps are counted, not the values.
CombinationsOfSteps ==
    Product(Enabled, LAMBDA p : IF p = Flash THEN 2 ELSE StepCount(params[p]))

\* get_num_combinations: counted without them.
NumCombinations ==
    Product(Enabled, LAMBDA p : IF p = Flash THEN 2 ELSE StepCount(params[p]) + 1)

-----------------------------------------------------------------------------
(* The parameters.                                                          *)

Navigating == ~fell /\ ~field /\ editing = Closed

Select ==
    /\ Navigating /\ row' \in Params
    /\ UNCHANGED <<params, spec, editing, prompt, field, text, cursor, fell, commits>>

\* Space.
Toggle ==
    /\ Navigating /\ (row # Draft \/ spec # 0)
    /\ params' = [params EXCEPT ![row].on = ~@]
    /\ UNCHANGED <<spec, row, editing, prompt, field, text, cursor, fell, commits>>

\* Mutant: the draft tokens stay in the sweep.
CycleOnly ==
    /\ Navigating /\ spec' \in {(spec + 1) % Variants, (spec + Variants - 1) % Variants}
    /\ UNCHANGED <<params, row, editing, prompt, field, text, cursor, fell, commits>>

CycleSpec ==
    /\ Navigating /\ spec' \in {(spec + 1) % Variants, (spec + Variants - 1) % Variants}
    /\ params' = IF spec' = 0 THEN [params EXCEPT ![Draft].on = FALSE] ELSE params
    /\ UNCHANGED <<row, editing, prompt, field, text, cursor, fell, commits>>

OpenRange ==
    /\ Navigating /\ (row # Draft \/ spec # 0)
    /\ editing' = [param |-> row, number |-> 0]
    /\ UNCHANGED <<params, spec, row, prompt, field, text, cursor, fell, commits>>

\* Mutant: a step of zero is taken.
CommitAny(p, number, n) ==
    CASE number = 0 -> [p EXCEPT !.min = n]
      [] number = 1 -> [p EXCEPT !.max = n]
      [] number = 2 -> [p EXCEPT !.step = n]

CommitNumber(p, number, n) ==
    CASE number = 0 -> [p EXCEPT !.min = n]
      [] number = 1 -> [p EXCEPT !.max = n]
      [] number = 2 -> IF n > 0 THEN [p EXCEPT !.step = n] ELSE p

\* What does not parse commits nothing.
Committed(p, number) ==
    {p} \cup {CommitNumber(p, number, n) : n \in Numbers \cup {-k : k \in Numbers}}

Normalized(p) == [p EXCEPT !.min = IF @ > p.max THEN p.max ELSE @]

Commits == commits < MaxSetupEdits /\ commits' = commits + 1

\* Tab and Shift+Tab: the number is taken, the range is not looked at.
NextNumber ==
    /\ ~fell /\ editing # Closed /\ Commits
    /\ \E p \in Committed(params[editing.param], editing.number) :
           params' = [params EXCEPT ![editing.param] = p]
    /\ editing' \in {[editing EXCEPT !.number = IF @ = 2 THEN 2 ELSE @ + 1],
                     [editing EXCEPT !.number = IF @ = 0 THEN 2 ELSE @ - 1]}
    /\ UNCHANGED <<spec, row, prompt, field, text, cursor, fell>>

EnterRange ==
    /\ ~fell /\ editing # Closed /\ Commits
    /\ \E p \in Committed(params[editing.param], editing.number) :
           params' = [params EXCEPT ![editing.param] = Normalized(p)]
    /\ editing' = Closed
    /\ UNCHANGED <<spec, row, prompt, field, text, cursor, fell>>

\* The dialog counts its tests whenever it is drawn, by making them: no vector has those
\* of a range without an end.
Draw ==
    /\ ~fell /\ \E p \in Enabled : Endless(params[p])
    /\ fell' = TRUE
    /\ UNCHANGED <<params, spec, row, editing, prompt, field, text, cursor, commits>>

EscRange ==
    /\ ~fell /\ editing # Closed /\ editing' = Closed
    /\ UNCHANGED <<params, spec, row, prompt, field, text, cursor, fell, commits>>

-----------------------------------------------------------------------------
(* The prompt, with TextEditor.                                             *)

Bytes(t) == MapThenSumSet(LAMBDA i : t[i], DOMAIN t)

\* Alt+P: over the parameters, a range or the text that is already open.
OpenPrompt ==
    /\ ~fell /\ editing' = Closed /\ field' = TRUE /\ text' = prompt
    /\ cursor' = Bytes(prompt)
    /\ UNCHANGED <<params, spec, row, prompt, fell, commits>>

Before(n) == SubSeq(text, 1, IF n < Len(text) THEN n ELSE Len(text))
From(n) == SubSeq(text, n, Len(text))

InsertChar ==
    /\ ~fell /\ field /\ Len(text) < MaxText
    /\ \E c \in Character : text' = Before(cursor) \o <<c>> \o From(cursor + 1)
    /\ cursor' = cursor + 1
    /\ UNCHANGED <<params, spec, row, editing, prompt, field, fell, commits>>

\* The byte after the last one is drained when the cursor is past the end.
Backspace ==
    /\ ~fell /\ field /\ cursor > 0
    /\ IF cursor > Len(text) THEN fell' = TRUE /\ UNCHANGED <<text, cursor>>
       ELSE text' = Before(cursor - 1) \o From(cursor + 1) /\ cursor' = cursor - 1 /\ UNCHANGED fell
    /\ UNCHANGED <<params, spec, row, editing, prompt, field, commits>>

Delete ==
    /\ ~fell /\ field /\ cursor < Len(text)
    /\ text' = Before(cursor) \o From(cursor + 2)
    /\ UNCHANGED <<params, spec, row, editing, prompt, field, cursor, fell, commits>>

MoveCursor ==
    /\ ~fell /\ field
    /\ cursor' \in {IF cursor > 0 THEN cursor - 1 ELSE 0,
                    IF cursor < Len(text) THEN cursor + 1 ELSE cursor}
    /\ UNCHANGED <<params, spec, row, editing, prompt, field, text, fell, commits>>

ClosePrompt ==
    /\ ~fell /\ field /\ field' = FALSE /\ text' = <<>> /\ cursor' = 0
    /\ prompt' \in {prompt, text}
    /\ UNCHANGED <<params, spec, row, editing, fell, commits>>

Next ==
    \/ Select \/ Toggle \/ CycleSpec \/ OpenRange \/ NextNumber \/ EnterRange \/ EscRange
    \/ Draw \/ OpenPrompt \/ InsertChar \/ Backspace \/ Delete \/ MoveCursor \/ ClosePrompt

Spec == Init /\ [][Next]_setupVars

-----------------------------------------------------------------------------
(***************************************************************************)
(* Properties.                                                             *)
(***************************************************************************)

\* "The cursor position (char index into buffer)": it is one, and no key on it ends
\* the program.
CursorIsInText == cursor <= Len(text) /\ ~fell

\* Numbers whose conversion loses nothing: whole ones from 0 on, that the parameter has.
Exact(p, r) ==
    /\ \A n \in {r.min, r.max, r.step} : n % Unit = 0
    /\ r.min >= 0 /\ r.max <= (IF p = Flash THEN 1 ELSE Largest) * Unit

\* Whatever was typed, and whichever way a range was left, a sweep over it rises and its
\* last test is the end of the range; where whole numbers from 0 on were typed that the
\* parameter has, it tests none twice.  A range without an end is excepted (RangesEnd),
\* and so is the repetition of a test by fractions and numbers out of bounds
\* (TestsDiffer).  (models.rs:2605-2640)
SweepsTheRange ==
    \A p \in Params :
        LET r == params[p]
            values == RangeValues(p, r)
        IN /\ r.step > 0
           /\ ~Endless(r) =>
                /\ values[Len(values)] = Converted(p, r.max)
                /\ \A i, j \in DOMAIN values : i < j => values[i] <= values[j]
                /\ Exact(p, r) => \A i, j \in DOMAIN values : i < j => values[i] # values[j]

\* Whatever was typed, a sweep ends.
RangesEnd == \A p \in Enabled : ~Endless(params[p])

\* Whatever was typed, no value is tested twice.
TestsDiffer ==
    \A p \in Enabled :
        ~Endless(params[p]) => IsInjective(RangeValues(p, params[p]))

\* A sweep without speculation has no draft tokens to vary.
DraftsNeedSpec == spec = 0 => ~params[Draft].on

\* The dialog announces as many combinations as there are tests, while the switch
\* of the flash attention is the switch it was.
CountsItsTests ==
    /\ RangeValues(Flash, params[Flash]) = <<0, 1>> \/ ~params[Flash].on
    /\ \A p \in Enabled : ~Endless(params[p])
    => NumCombinations = Tests
=============================================================================
