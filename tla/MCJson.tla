---- MODULE MCJson ----
(* A program that builds items, or prints a tree while it holds one: the   *)
(* printer only reads its tree, which is given apart from the items.       *)
EXTENDS CJson, CJsonPrint

MCTexts == {<<"^J", "a">>}
MCLiterals == {<<"^J", "A">>}
MCKinds == {"Object"}

(* Short texts, strings that end or escape wrongly, and whole texts with   *)
(* one symbol outside of the names left out or changed, or cut off.        *)
Name == Quoted(<<"^J", "a">>)
Documents == {
    <<"{">> \o Name \o <<":">> \o Name \o <<"}">>,
    <<"BOM", "[", "1", ",", "{", "}", ",", " ", "1", "]">>,
    <<"[", "{">> \o Name \o <<":", "[", "]", "}", "]">>}
Symbols == {"[", "]", "{", "}", ",", ":", "1", " "}
Outside(d) == {n \in DOMAIN d : d[n] \in Symbols}
MCInputs ==
    UNION {[1..n -> Symbols] : n \in 0..3}
    \cup {<<"quote", "backslash">>, <<"quote", "backslash", "1", "quote">>}
    \cup UNION {{SubSeq(d, 1, n) : n \in DOMAIN d} : d \in Documents}
    \cup UNION {{RemoveAt(d, n) : n \in Outside(d)} : d \in Documents}
    \cup UNION {{[d EXCEPT ![n] = s] : n \in Outside(d), s \in Symbols} : d \in Documents}

Leaves == {Leaf(<<"n", "u", "l", "l">>), Leaf(<<Number>>), Leaf(Quoted(<<>>))}
M(tree) == Member(<<"quote">>, tree)
Flat == {Array(<<>>), Object(<<>>)}
           \cup {Array(<<l>>) : l \in Leaves} \cup {Object(<<M(l)>>) : l \in Leaves}
Trees == Leaves \cup Flat
           \cup {Array(<<t, Leaf(<<"n", "u", "l", "l">>)>>) : t \in Flat}
           \cup {Object(<<M(t), M(Leaf(<<Number>>))>>) : t \in Flat}

MCJobs ==
    {Job("Print", 0, realloc, tree, format) :
        realloc \in BOOLEAN, tree \in Trees, format \in BOOLEAN}
    \cup {Job("Buffered", size, realloc, tree, format) :
        size \in {0, 1, 3, 9}, realloc \in BOOLEAN, tree \in Trees, format \in BOOLEAN}
    \cup {Job("Preallocated", size, TRUE, tree, format) :
        size \in 0..20, tree \in Trees, format \in BOOLEAN}

MCDocuments == {Document(tree, format, print) :
                   tree \in Trees, format \in BOOLEAN, print \in BOOLEAN}
MCPieces == [d \in MCDocuments |-> PiecesOfDocument(d)]

JsonInit == Init /\ PrintInit
JsonNext == \/ at = "idle" /\ Next /\ UNCHANGED printVars
            \/ /\ heap = Create(EmptyMemory(ItemCount, StringCount), "Object").m
               /\ PrintNext
               /\ UNCHANGED vars
JsonSpec == JsonInit /\ [][JsonNext]_<<vars, printVars>>
====
