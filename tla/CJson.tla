---- MODULE CJson ----
(***************************************************************************)
(* The program of CJsonItems with what the calls do that make a tree of    *)
(* several items. It parses while it holds no item: what parsing does      *)
(* depends on the memory that is free alone.                               *)
(***************************************************************************)
EXTENDS CJsonItems, CJsonCopy, CJsonParse

CONSTANTS
    Inputs,         \* texts that it parses
    MaxArray        \* the longest array it creates in one call

CreateNumbers(count) == Gives(CreateArray(heap, count))

Copy(a, recurse) == Gives(Duplicate(heap, a, recurse))

ParseInput(text, strict) == Gives(Parse(heap, text, strict))

CreateSome == \/ \E kind \in Kinds : CreateItem(kind)
              \/ \E text \in Texts : CreateText(text)
              \/ \E count \in 0..MaxArray : CreateNumbers(count)
              \/ \E a \in Held, recurse \in BOOLEAN : Copy(a, recurse)
              \/ /\ roots = {}
                 /\ \E text \in Inputs, strict \in BOOLEAN : ParseInput(text, strict)

Next == CreateSome \/ OnTrees

Spec == Init /\ [][Next]_vars

-----------------------------------------------------------------------------
(* Properties.                                                             *)

(* Wherever memory runs out, these calls build a whole tree or none.       *)
BuildersKeepContract ==
    LET Builds(new) == NewTree(heap, new.m, new.p)
    IN Cardinality(roots) < MaxRoots =>
          /\ \A count \in 0..MaxArray : Builds(CreateArray(heap, count))
          /\ \A a \in Held, recurse \in BOOLEAN : Builds(Duplicate(heap, a, recurse))
          /\ roots = {} => \A text \in Inputs, strict \in BOOLEAN :
                                Builds(Parse(heap, text, strict))

(* No object below a has two members of one name, or one without a name.   *)
RECURSIVE NamesDiffer(_, _, _)
NamesDiffer(m, a, caseSensitive) ==
    LET items == Children(m, a)
    IN \A i \in DOMAIN items :
          /\ NamesDiffer(m, items[i], caseSensitive)
          /\ m.item[a].type = "Object" =>
                GetObjectItem(m, a, m.item[items[i]].string.text, caseSensitive)
                    = items[i]

RECURSIVE TreeOf(_, _)
TreeOf(m, a) ==
    LET item == m.item[a]
        items == Children(m, a)
    IN CASE item.type = "Number" -> Leaf(<<Number>>)
         [] item.type = "String" -> Leaf(Quoted(item.valuestring.text))
         [] item.type = "Array" ->
               Array([i \in DOMAIN items |-> TreeOf(m, items[i])])
         [] item.type = "Object" ->
               Object([i \in DOMAIN items |->
                          Member(m.item[items[i]].string.text, TreeOf(m, items[i]))])

(* "Duplicate will create a new, identical cJSON item" (cJSON.h 238): with  *)
(* memory enough the copy of every tree compares equal to it, both ways     *)
(* and with either case rule, if the members of all objects have names     *)
(* that differ. And the text of a tree parses into the same tree, exactly  *)
(* if it is not nested too deep: the printer knows no such limit.          *)
CopiesAreEqual ==
    /\ BuildersKeepContract
    /\ \A a \in roots :
          LET copy == Duplicate(Enlarged(Enlarged(heap)), a, TRUE)
          IN /\ ~copy.m.bad
             /\ \A caseSensitive \in BOOLEAN :
                   NamesDiffer(heap, a, caseSensitive) =>
                       /\ Compare(copy.m, a, copy.p, caseSensitive)
                       /\ Compare(copy.m, copy.p, a, caseSensitive)
    /\ \A a \in roots :
          LET tree == TreeOf(heap, a)
              copy == Parse(EmptyMemory(2 * ItemCount, 4 * ItemCount),
                            TextOf(tree), TRUE)
          IN /\ ~copy.m.bad
             /\ IF DepthOf(tree) <= NestingLimit
                  THEN copy.p # NULL /\ TreeOf(copy.m, copy.p) = tree
                  ELSE copy.p = NULL
====
