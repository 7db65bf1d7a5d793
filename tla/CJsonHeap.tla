---- MODULE CJsonHeap ----
(***************************************************************************)
(* lib/cjson/cJSON.c on its memory: items linked by child, next and prev,  *)
(* and the strings they own. A memory m is a value; malloc fails when its  *)
(* pool is used up, and m.bad tells that freed memory was used or freed.   *)
(* An operator that allocates returns the memory and the pointer p.        *)
(***************************************************************************)
EXTENDS Reachability

NULL == 0

(* A string is its text and its block, 0 for a constant of the program.    *)
NoString == [id |-> 0, text |-> <<>>]
Constant(text) == [id |-> 0, text |-> text]

(* cJSON_New_Item clears all of an item.                                   *)
Blank == [live |-> TRUE, type |-> "Invalid", isReference |-> FALSE,
          stringIsConst |-> FALSE, child |-> NULL, next |-> NULL,
          prev |-> NULL, string |-> NoString, valuestring |-> NoString]
Unused == [Blank EXCEPT !.live = FALSE]

EmptyMemory(items, strings) ==
    [item |-> [a \in 1..items |-> Unused],
     str  |-> [s \in 1..strings |-> FALSE],
     bad  |-> FALSE]

Bad(m) == [m EXCEPT !.bad = TRUE]
BadIf(condition, m) == IF condition THEN Bad(m) ELSE m
Dangles(m, string) == string.id # 0 /\ ~m.str[string.id]

NewItem(m) ==
    LET free == {a \in DOMAIN m.item : ~m.item[a].live}
    IN IF free = {} THEN [m |-> m, p |-> NULL]
       ELSE [m |-> [m EXCEPT !.item[Min(free)] = Blank], p |-> Min(free)]

(* cJSON_strdup                                                            *)
StrDup(m, string) ==
    LET free == {s \in DOMAIN m.str : ~m.str[s]}
    IN IF string = NoString \/ free = {} THEN [m |-> m, p |-> NoString]
       ELSE [m |-> BadIf(Dangles(m, string),
                         [m EXCEPT !.str[Min(free)] = TRUE]),
             p |-> [string EXCEPT !.id = Min(free)]]

FreeString(m, string) ==
    IF string = NoString THEN m
    ELSE IF string.id = 0 THEN Bad(m)
    ELSE BadIf(Dangles(m, string), [m EXCEPT !.str[string.id] = FALSE])

LiveItems(m) == {a \in DOMAIN m.item : m.item[a].live}

(* Mutant: the name is freed whether it is a constant or not.              *)
OwnName_any(m, a) == m.item[a].string

(* The strings that an item owns, NoString if it owns none.                *)
OwnName(m, a) == IF m.item[a].stringIsConst THEN NoString ELSE m.item[a].string
OwnValue(m, a) == IF m.item[a].isReference THEN NoString ELSE m.item[a].valuestring

Slots(S) == S \X {"name", "value"}
Own(m, slot) == IF slot[2] = "name" THEN OwnName(m, slot[1]) ELSE OwnValue(m, slot[1])

FreeName(m, a) == FreeString(m, OwnName(m, a))

(* The items that cJSON_Delete goes on to from an item.                    *)
After(m, a) ==
    LET item == m.item[a]
    IN ({item.next} \cup (IF item.isReference THEN {} ELSE {item.child})) \ {NULL}

Deleted(m, a) == Reach([x \in DOMAIN m.item |-> After(m, x)], a)

(* No item is deleted twice, and each is one that malloc gave.             *)
DeletedOnce(m, a, D) ==
    \A x \in D :
        /\ m.item[x].live
        /\ a \notin After(m, x)
        /\ m.item[x].next = m.item[x].child =>
              m.item[x].next = NULL \/ m.item[x].isReference
        /\ \A y \in D \ {x} : After(m, x) \cap After(m, y) = {}

Blocks(m) == {b \in DOMAIN m.str : m.str[b]}
OwnedBlocks(m, S) == {Own(m, s).id : s \in Slots(S)} \ {0}

(* No string is owned twice by the items of S, and none is a constant.     *)
OwnedOnce(m, S) ==
    LET slots == {s \in Slots(S) : Own(m, s) # NoString}
    IN \A s, t \in slots : /\ Own(m, s).id # 0
                           /\ Own(m, s).id = Own(m, t).id => s = t

(* cJSON_Delete: the item, what it owns, and the items after it.           *)
Delete(m, a) ==
    LET D == Deleted(m, a)
        freed == OwnedBlocks(m, D)
        sound == DeletedOnce(m, a, D) /\ OwnedOnce(m, D) /\ freed \subseteq Blocks(m)
    IN IF a = NULL THEN m
       ELSE BadIf(~sound,
                  [m EXCEPT !.item = [x \in DOMAIN m.item |->
                                         IF x \in D THEN Unused ELSE m.item[x]],
                            !.str = [b \in DOMAIN m.str |-> m.str[b] /\ b \notin freed]])

-----------------------------------------------------------------------------
(* Reading a list.                                                         *)

(* The items of a list, which is no longer than there are items.           *)
Children(m, a) ==
    LET count == Cardinality(LiveItems(m))
        first[n \in 1..count] ==
            IF n = 1 THEN <<m.item[a].child>>
            ELSE LET before == first[n - 1]
                     next == m.item[before[Len(before)]].next
                 IN IF next = NULL THEN before ELSE Append(before, next)
    IN IF m.item[a].child = NULL THEN <<>> ELSE first[count]

Nth(items, i) == IF i \in DOMAIN items THEN items[i] ELSE NULL

(* get_array_item; NULL past the end, index counting from 1.               *)
GetArrayItem(m, array, which) == Nth(Children(m, array), which)

(* tolower                                                                 *)
Lower(text) == [i \in DOMAIN text |-> IF text[i] = "A" THEN "a" ELSE text[i]]
SameName(s, t, caseSensitive) ==
    IF caseSensitive THEN s = t ELSE Lower(s) = Lower(t)

(* get_object_item finds the first of the name, which is never empty.      *)
GetObjectItem(m, object, name, caseSensitive) ==
    LET items == Children(m, object)
        found == {i \in DOMAIN items :
                     SameName(name, m.item[items[i]].string.text, caseSensitive)}
    IN IF name = <<>> \/ found = {} THEN NULL ELSE items[Min(found)]

-----------------------------------------------------------------------------
(* Linking.                                                                *)

(* Mutant: the new last item is not linked back.                           *)
SuffixObject_oneWay(m, before, a) == [m EXCEPT !.item[before].next = a]

SuffixObject(m, before, a) ==
    [m EXCEPT !.item[before].next = a, !.item[a].prev = before]

(* add_item_to_array, which keeps what a.next and a.prev were.             *)
AddItemToArray(m, array, a) ==
    LET items == Children(m, array)
    IN IF items = <<>> THEN [m EXCEPT !.item[array].child = a]
       ELSE SuffixObject(m, items[Len(items)], a)

(* add_item_to_object; ok is its result.                                   *)
AddItemToObject(m, object, name, a, constantKey) ==
    LET key == IF constantKey THEN [m |-> m, p |-> name] ELSE StrDup(m, name)
        renamed == [FreeName(key.m, a) EXCEPT
                        !.item[a].string = key.p,
                        !.item[a].stringIsConst = constantKey]
    IN IF a = NULL \/ key.p = NoString THEN [m |-> m, ok |-> FALSE]
       ELSE [m |-> AddItemToArray(renamed, object, a), ok |-> TRUE]

(* A link of an item, if it is not NULL.                                   *)
SetNext(m, a, next) == IF a = NULL THEN m ELSE [m EXCEPT !.item[a].next = next]
SetPrev(m, a, prev) == IF a = NULL THEN m ELSE [m EXCEPT !.item[a].prev = prev]

(* Mutant: the item before is not linked past the detached one.            *)
Detach_first(m, parent, a) ==
    LET item == m.item[a]
        after == SetPrev(m, item.next, item.prev)
        head == IF a = m.item[parent].child
                  THEN [after EXCEPT !.item[parent].child = item.next]
                  ELSE after
    IN [head EXCEPT !.item[a].prev = NULL, !.item[a].next = NULL]

(* cJSON_DetachItemViaPointer                                              *)
Detach(m, parent, a) ==
    LET item == m.item[a]
        after == SetPrev(SetNext(m, item.prev, item.next), item.next, item.prev)
        head == IF a = m.item[parent].child
                  THEN [after EXCEPT !.item[parent].child = item.next]
                  ELSE after
    IN [head EXCEPT !.item[a].prev = NULL, !.item[a].next = NULL]

(* cJSON_InsertItemInArray; past the end the item is appended.             *)
Insert(m, array, which, a) ==
    LET after == GetArrayItem(m, array, which)
        linked == [m EXCEPT !.item[a].next = after,
                            !.item[a].prev = m.item[after].prev,
                            !.item[after].prev = a]
    IN IF after = NULL THEN AddItemToArray(m, array, a)
       ELSE IF after = m.item[array].child
         THEN [linked EXCEPT !.item[array].child = a]
         ELSE [linked EXCEPT !.item[linked.item[a].prev].next = a]

(* The replacement is linked in the place of the item.                     *)
Exchanged(m, parent, a, replacement) ==
    LET item == m.item[a]
        linked == [m EXCEPT !.item[replacement].next = item.next,
                            !.item[replacement].prev = item.prev]
        around == SetNext(SetPrev(linked, item.next, replacement),
                          item.prev, replacement)
        head == IF m.item[parent].child = a
                  THEN [around EXCEPT !.item[parent].child = replacement]
                  ELSE around
    IN [head EXCEPT !.item[a].next = NULL, !.item[a].prev = NULL]

(* cJSON_ReplaceItemViaPointer                                             *)
Replace(m, parent, a, replacement) ==
    IF a = NULL THEN m ELSE Delete(Exchanged(m, parent, a, replacement), a)

(* replace_item_in_object renames the replacement before it looks for the  *)
(* item; a name that could not be copied is left NULL. The replacement is  *)
(* loose, so it is never the item it replaces.                             *)
ReplaceInObject(m, object, name, replacement, caseSensitive) ==
    LET copy == StrDup(FreeName(m, replacement), name)
        renamed == [copy.m EXCEPT !.item[replacement].string = copy.p,
                                  !.item[replacement].stringIsConst = FALSE]
    IN Replace(renamed, object,
               GetObjectItem(renamed, object, name.text, caseSensitive),
               replacement)

-----------------------------------------------------------------------------
(* Creating.                                                               *)

(* cJSON_CreateNull, CreateNumber, CreateArray, CreateObject, ...          *)
Create(m, type) ==
    LET new == NewItem(m)
    IN IF new.p = NULL THEN new
       ELSE [new EXCEPT !.m.item[new.p].type = type]

(* cJSON_CreateString, CreateRaw                                           *)
CreateString(m, text) ==
    LET new == Create(m, "String")
        copy == StrDup(new.m, Constant(text))
    IN IF new.p = NULL THEN new
       ELSE IF copy.p = NoString
         THEN [m |-> Delete(new.m, new.p), p |-> NULL]
         ELSE [m |-> [copy.m EXCEPT !.item[new.p].valuestring = copy.p],
               p |-> new.p]

(* cJSON_CreateStringReference                                             *)
CreateStringReference(m, text) ==
    LET new == Create(m, "String")
    IN IF new.p = NULL THEN new
       ELSE [new EXCEPT !.m.item[new.p].isReference = TRUE,
                        !.m.item[new.p].valuestring = Constant(text)]

(* create_reference shares child and valuestring with the item.            *)
CreateReference(m, a) ==
    LET new == NewItem(m)
    IN IF new.p = NULL THEN new
       ELSE [new EXCEPT !.m.item[new.p] =
                [m.item[a] EXCEPT !.string = NoString, !.isReference = TRUE,
                                  !.next = NULL, !.prev = NULL]]
====
