--------------------------------- MODULE Names ---------------------------------
(***************************************************************************)
(* The names of files: the key a model's display name becomes, its way     *)
(* back, and the keys of the settings profiles of a model.  A name is a    *)
(* sequence of characters, the escapes of a key stand for one each.        *)
(***************************************************************************)
EXTENDS Naturals, Sequences

CONSTANTS
    Letters,        \* characters that are copied
    MaxLength,      \* bound: characters of a display name
    MaxProfile      \* bound: characters of a profile's name

Separator == "/"
Percent == "%25"        \* the escape of "%"
Underscores == "%5F%5F" \* the escape of "__"
Alphabet == Letters \cup {"_", "%", Separator}

VARIABLE name       \* a display name, typed character by character

\* key_from_display: each component is escaped, and they are joined by "__".
KeyFromDisplay(n) ==
    LET key[i \in 1 .. Len(n) + 2] ==
            IF i > Len(n) THEN <<>>
            ELSE IF n[i] = Separator THEN <<"_", "_">> \o key[i + 1]
            ELSE IF n[i] = "%" THEN <<Percent>> \o key[i + 1]
            ELSE IF n[i] = "_" /\ i < Len(n) /\ n[i + 1] = "_" THEN <<Underscores>> \o key[i + 2]
            ELSE <<n[i]>> \o key[i + 1]
    IN key[1]

\* Mutant: the escapes stay in the name.
DisplayUnsplit(k) ==
    LET display[i \in 1 .. Len(k) + 2] ==
            IF i > Len(k) THEN <<>>
            ELSE IF k[i] = "_" /\ i < Len(k) /\ k[i + 1] = "_" THEN <<Separator>> \o display[i + 2]
            ELSE <<k[i]>> \o display[i + 1]
    IN display[1]

\* display_from_key: the key is split at "__" from the left, the parts unescaped.
DisplayFromKey(k) ==
    LET display[i \in 1 .. Len(k) + 2] ==
            IF i > Len(k) THEN <<>>
            ELSE IF k[i] = "_" /\ i < Len(k) /\ k[i + 1] = "_" THEN <<Separator>> \o display[i + 2]
            ELSE IF k[i] = Percent THEN <<"%">> \o display[i + 1]
            ELSE IF k[i] = Underscores THEN <<"_", "_">> \o display[i + 1]
            ELSE <<k[i]>> \o display[i + 1]
    IN display[1]

\* profile_key
ProfileKey(n, profile) == KeyFromDisplay(n) \o <<"_", "_">> \o profile

\* parse_profile_key: the last "__" separates.
ParseProfileKey(k) ==
    LET At == {i \in 1 .. Len(k) - 1 : k[i] = "_" /\ k[i + 1] = "_"}
        last == CHOOSE i \in At : \A j \in At : j <= i
    IN [model |-> SubSeq(k, 1, last - 1), profile |-> SubSeq(k, last + 2, Len(k))]

-----------------------------------------------------------------------------
Init == name = <<>>

\* A display name is a relative path: no empty component.
Type ==
    /\ Len(name) < MaxLength
    /\ \E c \in Alphabet :
        /\ c = Separator => name # <<>> /\ name[Len(name)] # Separator
        /\ name' = Append(name, c)

Next == Type

Spec == Init /\ [][Next]_name

-----------------------------------------------------------------------------
Words(n) == UNION {[1 .. l -> Letters \cup {"_"}] : l \in 1 .. n}

Doubled(w) == \E i \in 1 .. Len(w) - 1 : w[i] = "_" /\ w[i + 1] = "_"

\* A component that ends with "_" is not told from the next one beginning with it.
Ambiguous(n) == \E i \in 1 .. Len(n) - 1 : n[i] = "_" /\ n[i + 1] = Separator

\* The key of a model gives its name back, so two models never share a file of
\* overrides, and the key of a profile gives the profile's name back, but for
\* components that end with "_" and profiles whose name starts with one or
\* contains two.
NamesComeBack ==
    /\ ~Ambiguous(name) => DisplayFromKey(KeyFromDisplay(name)) = name
    /\ \A p \in Words(MaxProfile) :
           p[1] # "_" /\ ~Doubled(p) =>
               ParseProfileKey(ProfileKey(name, p)) = [model |-> KeyFromDisplay(name), profile |-> p]
=============================================================================
