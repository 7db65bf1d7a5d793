---- MODULE CJsonItems ----
(***************************************************************************)
(* A program that uses cJSON as its header asks for: it adds and inserts   *)
(* only items that are in no other item, deletes only those, and leaves a  *)
(* tree alone while references share parts of it. It searches no object    *)
(* case-sensitively that has a member without a name: strcmp would read    *)
(* NULL there (line 1785). Here of the calls that make a tree of several   *)
(* items (Duplicate, CreateIntArray, Parse) only the contract is stated,   *)
(* BuildTree; CJson has what they do.                                      *)
(***************************************************************************)
EXTENDS CJsonHeap

CONSTANTS
    ItemCount,      \* how many items malloc has memory for
    StringCount,    \* how many strings
    Texts,          \* names and values of strings, which the library copies
    Literals,       \* names that are constants, which it does not copy
    Kinds,          \* types of the items it creates
    MaxRoots,       \* how many items it holds that are in no other
    MaxReferences   \* how many references there are at a time

ASSUME CountsAssumption == ItemCount \in Nat /\ StringCount \in Nat
ASSUME TextsAssumption == Texts \cup Literals \subseteq Seq(STRING) \ {<<>>}

VARIABLES
    heap,       \* the memory of the library
    roots,      \* the items the program has to add or delete
    lost        \* history: references that nobody points to any more

vars == <<heap, roots, lost>>

Init == /\ heap = EmptyMemory(ItemCount, StringCount)
        /\ roots = {}
        /\ lost = {}

-----------------------------------------------------------------------------
(* The memory as a forest.                                                 *)

Text == [id : 0..StringCount, text : Seq(STRING)]
Item == [live : BOOLEAN, isReference : BOOLEAN, stringIsConst : BOOLEAN,
         type : Kinds \cup {"Invalid", "Number", "String", "Array", "Object"},
         child : 0..ItemCount, next : 0..ItemCount, prev : 0..ItemCount,
         string : Text, valuestring : Text]
Memory == [item : [1..ItemCount -> Item], str : [1..StringCount -> BOOLEAN],
           bad : BOOLEAN]

ForestOf(m, held) ==
    [a \in held |-> IF m.item[a].isReference THEN <<>> ELSE Children(m, a)]

(* The items in its trees, which NothingElseLeaks says are these.          *)
Live == LiveItems(heap)
Held == Live \ lost

Forest == INSTANCE JsonForest WITH
    kids <- ForestOf(heap, Held), loose <- roots

Below(m, a) == IF m.item[a].isReference THEN {} ELSE ToSet(Children(m, a))

(* An item with all that is below it.                                      *)
Owned(m, a) == Reach([x \in DOMAIN m.item |-> Below(m, x)], a)

(* The links of m are those of f, whose loose items are R.                 *)
LinkedAs(m, f, R) ==
    /\ \A a \in DOMAIN f :
          IF m.item[a].isReference THEN f[a] = <<>>
          ELSE /\ m.item[a].child = Nth(f[a], 1)
               /\ \A i \in DOMAIN f[a] :
                     /\ m.item[f[a][i]].next = Nth(f[a], i + 1)
                     /\ m.item[f[a][i]].prev = Nth(f[a], i - 1)
    /\ \A r \in R : m.item[r].next = NULL /\ m.item[r].prev = NULL

(* What m is turned into when a tree is built in it, whose root is p: the  *)
(* tree is of new items and owns the new strings, and all else is as it    *)
(* was. It is as it was all over if there is no p.                         *)
NewTree(m, n, p) ==
    LET new == LiveItems(n) \ LiveItems(m)
        f == ForestOf(n, new)
    IN IF p = NULL THEN n = m
       ELSE /\ n \in Memory
            /\ n.bad = m.bad
            /\ LiveItems(m) \subseteq LiveItems(n)
            /\ \A a \in LiveItems(m) : n.item[a] = m.item[a]
            /\ Forest!IsForest(f, {p})
            /\ LinkedAs(n, f, {p})
            /\ OwnedOnce(n, new)
            /\ Blocks(m) \subseteq Blocks(n)
            /\ Blocks(n) \ Blocks(m) = OwnedBlocks(n, new)

-----------------------------------------------------------------------------
(* What the program may do.                                                *)

RootOf(a) == CHOOSE r \in roots : a \in Owned(heap, r)

(* Items of S share memory with the tree of r: a list or a string.         *)
SharedBy(S, r) ==
    \E x \in S, y \in Owned(heap, r) :
        /\ heap.item[x].isReference
        /\ ~heap.item[y].isReference
        /\ \/ heap.item[x].child = y
           \/ /\ heap.item[x].valuestring.id # 0
              /\ heap.item[x].valuestring = heap.item[y].valuestring

Containers(type) ==
    {p \in Held : /\ heap.item[p].type = type
                  /\ ~heap.item[p].isReference
                  /\ ~SharedBy(Held, RootOf(p))}

SearchModes(p) ==
    {caseSensitive \in BOOLEAN :
        caseSensitive => \A a \in ToSet(Children(heap, p)) :
                            heap.item[a].string # NoString}

(* What p has of some name, NULL for a name that is not found.             *)
Named(p) == {GetObjectItem(heap, p, name, caseSensitive) :
                name \in Texts \cup Literals, caseSensitive \in SearchModes(p)}

(* Items that p can have a reference to, if it may have one.               *)
Referable(p) ==
    IF Cardinality(lost \cup {a \in Held : heap.item[a].isReference}) >= MaxReferences
      THEN {} ELSE {a \in Held : p \notin Owned(heap, a)}

Addable(p) == {r \in roots : p \notin Owned(heap, r)}

-----------------------------------------------------------------------------
(* Items that are created.                                                 *)

Gives(new) == /\ Cardinality(roots) < MaxRoots
              /\ heap' = new.m
              /\ roots' = roots \cup ({new.p} \ {NULL})
              /\ UNCHANGED lost

CreateItem(kind) == Gives(Create(heap, kind))

CreateText(text) == \/ Gives(CreateString(heap, text))
                    \/ Gives(CreateStringReference(heap, text))

(* CreateNumbers, Copy and ParseInput of CJson.                            *)
BuildTree == \E p \in 0..ItemCount : /\ NewTree(heap, heap', p)
                                     /\ Gives([m |-> heap', p |-> p])

-----------------------------------------------------------------------------
(* Items that are added.                                                   *)

AddToArray(p, r) == /\ heap' = AddItemToArray(heap, p, r)
                    /\ roots' = roots \ {r}
                    /\ UNCHANGED lost

(* An item that could not be added stays with the program.                 *)
AddToObject(p, name, r, constantKey) ==
    LET added == AddItemToObject(heap, p, Constant(name), r, constantKey)
    IN /\ heap' = added.m
       /\ roots' = IF added.ok THEN roots \ {r} ELSE roots
       /\ UNCHANGED lost

(* Mutant: an item that could not be added is forgotten.                   *)
AddNew_forgets(p, name, new) ==
    LET added == AddItemToObject(new.m, p, Constant(name), new.p, FALSE)
    IN heap' = added.m

(* cJSON_Add*ToObject: create, add, and delete what could not be added.    *)
AddNew(p, name, new) ==
    LET added == AddItemToObject(new.m, p, Constant(name), new.p, FALSE)
    IN heap' = IF added.ok THEN added.m ELSE Delete(new.m, new.p)

AddKindToObject(p, name, kind) == /\ AddNew(p, name, Create(heap, kind))
                                  /\ UNCHANGED <<roots, lost>>

AddStringToObject(p, name, text) == /\ AddNew(p, name, CreateString(heap, text))
                                    /\ UNCHANGED <<roots, lost>>

AddReferenceToArray(p, a) ==
    LET new == CreateReference(heap, a)
    IN /\ heap' = IF new.p = NULL THEN heap ELSE AddItemToArray(new.m, p, new.p)
       /\ UNCHANGED <<roots, lost>>

(* A reference without memory for its name is not deleted.                 *)
AddReferenceToObject(p, name, a) ==
    LET new == CreateReference(heap, a)
        added == AddItemToObject(new.m, p, Constant(name), new.p, FALSE)
    IN /\ heap' = added.m
       /\ lost' = lost \cup (IF added.ok THEN {} ELSE {new.p} \ {NULL})
       /\ UNCHANGED roots

InsertInArray(p, which, r) == /\ heap' = Insert(heap, p, which, r)
                              /\ roots' = roots \ {r}
                              /\ UNCHANGED lost

-----------------------------------------------------------------------------
(* Items that are taken out, replaced and deleted.                         *)

DetachItem(p, a) ==
    /\ a # NULL
    /\ Cardinality(roots) < MaxRoots
    /\ heap' = Detach(heap, p, a)
    /\ roots' = roots \cup {a}
    /\ UNCHANGED lost

DeleteItem(p, a) ==
    /\ a # NULL
    /\ heap' = Delete(Detach(heap, p, a), a)
    /\ UNCHANGED <<roots, lost>>

ReplaceItemInArray(p, which, r) ==
    LET a == GetArrayItem(heap, p, which)
    IN /\ heap' = Replace(heap, p, a, r)
       /\ roots' = IF a = NULL THEN roots ELSE roots \ {r}
       /\ UNCHANGED lost

(* The result tells nothing: it is true although the name was not found.   *)
ReplaceItemInObject(p, name, r, caseSensitive) ==
    LET a == GetObjectItem(heap, p, name, caseSensitive)
    IN /\ heap' = ReplaceInObject(heap, p, Constant(name), r, caseSensitive)
       /\ roots' = IF a = NULL THEN roots ELSE roots \ {r}
       /\ UNCHANGED lost

DeleteTree(r) ==
    /\ ~SharedBy(Held \ Owned(heap, r), r)
    /\ heap' = Delete(heap, r)
    /\ roots' = roots \ {r}
    /\ UNCHANGED lost

-----------------------------------------------------------------------------
OnArrays ==
    \E p \in Containers("Array") :
        \/ \E r \in Addable(p) :
              \/ AddToArray(p, r)
              \/ \E which \in 1..(Len(Children(heap, p)) + 1) :
                    InsertInArray(p, which, r) \/ ReplaceItemInArray(p, which, r)
        \/ \E a \in Referable(p) : AddReferenceToArray(p, a)
        \/ \E which \in DOMAIN Children(heap, p) :
              LET a == GetArrayItem(heap, p, which)
              IN DetachItem(p, a) \/ DeleteItem(p, a)

OnObjects ==
    \E p \in Containers("Object") :
        \/ \E r \in Addable(p) :
              \/ \E name \in Texts : AddToObject(p, name, r, FALSE)
              \/ \E name \in Literals : AddToObject(p, name, r, TRUE)
              \/ \E name \in Texts \cup Literals, caseSensitive \in SearchModes(p) :
                    ReplaceItemInObject(p, name, r, caseSensitive)
        \/ \E name \in Texts, kind \in Kinds : AddKindToObject(p, name, kind)
        \/ \E name, text \in Texts : AddStringToObject(p, name, text)
        \/ \E name \in Texts, a \in Referable(p) : AddReferenceToObject(p, name, a)
        \/ \E a \in Named(p) : DetachItem(p, a) \/ DeleteItem(p, a)

OnTrees == OnArrays \/ OnObjects \/ \E r \in roots : DeleteTree(r)

ItemsNext == \/ \E kind \in Kinds : CreateItem(kind)
             \/ \E text \in Texts : CreateText(text)
             \/ BuildTree
             \/ OnTrees

ItemsSpec == Init /\ [][ItemsNext]_vars

-----------------------------------------------------------------------------
(* Properties.                                                             *)

(* Every variable keeps its type.                                          *)
TypeOK ==
    /\ heap \in Memory
    /\ roots \subseteq Live
    /\ lost \subseteq Live

(* No freed item or string is read or freed again, whatever the program    *)
(* does within the rules above and wherever memory runs out.               *)
MemoryIsSafe == TypeOK /\ ~heap.bad

(* The trees of the program are disjoint, and the prev of every child is   *)
(* the item whose next it is: lines 1816, 2071, 2141, 2170 and 2550 keep   *)
(* it up at the ends and in the middle of a list.                          *)
ListsAreLinked ==
    /\ \A r, s \in roots : r # s => Owned(heap, r) \cap Owned(heap, s) = {}
    /\ \A r \in roots : heap.item[r].prev = NULL /\ heap.item[r].next = NULL
    /\ \A a \in Held :
          ~heap.item[a].isReference =>
              LET items == Children(heap, a)
              IN \A i \in DOMAIN items :
                    heap.item[items[i]].prev = (IF i = 1 THEN NULL
                                                ELSE items[i - 1])

(* All memory in use belongs to a tree of the program, except for          *)
(* references that AddItemReferenceToObject lost: deleting its trees       *)
(* gives back everything else, also after calls that failed half-way.      *)
NothingElseLeaks ==
    /\ Held = UNION {Owned(heap, r) : r \in roots}
    /\ Blocks(heap) = OwnedBlocks(heap, Held)

(* The items implement the forest: each call places, takes out, exchanges  *)
(* or deletes exactly the item it is asked to, at its place, and leaves    *)
(* the order of all others alone. The step is Forest!ForestSpec's, written *)
(* with LET so that each forest is computed once.                          *)
ForestKept ==
    /\ Forest!ForestInit
    /\ [][LET f == ForestOf(heap, Held)
              g == ForestOf(heap', Held')
          IN \/ f = g /\ roots = roots'
             \/ Forest!Step(f, roots, g, roots')]_vars
====
