---- MODULE JsonText ----
(***************************************************************************)
(* Trees of JSON values and their texts. A tree is a leaf with the text of *)
(* its value, an array of trees, or an object whose members have a name    *)
(* and a tree. A text is a sequence of characters; where its length does   *)
(* not matter a number, null, true or false is one.                        *)
(***************************************************************************)
EXTENDS Naturals, Sequences, SequencesExt

Number == "1"       \* how every number begins

(* What print_string_ptr puts after a backslash. Other control characters  *)
(* become UTF-16 escapes, which are left out.                              *)
EscapeOf ==
    ("quote" :> "quote") @@ ("backslash" :> "backslash") @@ ("^H" :> "b") @@
    ("^L" :> "f") @@ ("^J" :> "n") @@ ("^M" :> "r") @@ ("^I" :> "t")

Quoted(text) ==
    <<"quote">>
       \o FlattenSeq([i \in DOMAIN text |->
                         IF text[i] \in DOMAIN EscapeOf
                           THEN <<"backslash", EscapeOf[text[i]]>> ELSE <<text[i]>>])
       \o <<"quote">>

Leaf(text) == [kind |-> "leaf", text |-> text]
Array(items) == [kind |-> "array", items |-> items]
Object(members) == [kind |-> "object", items |-> members]
Member(name, tree) == [name |-> name, tree |-> tree]

LOCAL Joined(texts, separator) ==
    IF texts = <<>> THEN <<>>
    ELSE FoldLeft(LAMBDA text, next : text \o separator \o next,
                  Head(texts), Tail(texts))

(* The JSON text of a tree: names and values in their brackets, with       *)
(* commas between them.                                                    *)
RECURSIVE TextOf(_)
TextOf(tree) ==
    LET texts == [i \in DOMAIN tree.items |->
                     IF tree.kind = "array" THEN TextOf(tree.items[i])
                     ELSE Quoted(tree.items[i].name) \o <<":">>
                             \o TextOf(tree.items[i].tree)]
    IN IF tree.kind = "array" THEN <<"[">> \o Joined(texts, <<",">>) \o <<"]">>
       ELSE IF tree.kind = "object"
         THEN <<"{">> \o Joined(texts, <<",">>) \o <<"}">>
       ELSE tree.text

RECURSIVE DepthOf(_)
DepthOf(tree) ==
    LET below == IF tree.kind = "array" THEN ToSet(tree.items)
                 ELSE IF tree.kind = "object" THEN {m.tree : m \in ToSet(tree.items)}
                 ELSE {}
    IN IF tree.kind = "leaf" THEN 0
       ELSE 1 + Max({0} \cup {DepthOf(t) : t \in below})
====
