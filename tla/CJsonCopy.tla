---- MODULE CJsonCopy ----
(***************************************************************************)
(* The calls of lib/cjson/cJSON.c that walk whole trees of items, or make  *)
(* one that is longer than an item: cJSON_CreateIntArray, cJSON_Duplicate  *)
(* and cJSON_Compare.                                                      *)
(***************************************************************************)
EXTENDS CJsonHeap

(* Room for as many items and strings again.                               *)
Enlarged(m) ==
    LET n == Cardinality(DOMAIN m.item)
        k == Cardinality(DOMAIN m.str)
    IN [m EXCEPT !.item = [a \in 1..(2 * n) |-> IF a <= n THEN m.item[a]
                                                          ELSE Unused],
                 !.str = [s \in 1..(2 * k) |-> s <= k /\ m.str[s]]]

(* cJSON_CreateIntArray and its like, for count elements.                  *)
RECURSIVE Extend(_, _, _, _)
Extend(m, array, last, count) ==
    LET new == Create(m, "Number")
        linked == IF last = NULL
                    THEN [new.m EXCEPT !.item[array].child = new.p]
                    ELSE SuffixObject(new.m, last, new.p)
    IN IF count = 0 THEN [m |-> m, p |-> array]
       ELSE IF new.p = NULL THEN [m |-> Delete(m, array), p |-> NULL]
       ELSE Extend(linked, array, new.p, count - 1)

CreateArray(m, count) ==
    LET new == Create(m, "Array")
    IN IF new.p = NULL THEN new ELSE Extend(new.m, new.p, NULL, count)

-----------------------------------------------------------------------------
(* cJSON_Duplicate and cJSON_Compare.                                      *)

(* The values and the name of the item, or a failure.                      *)
CopyItem(m, a) ==
    LET item == m.item[a]
        new == NewItem(m)
        typed == [new.m EXCEPT !.item[new.p].type = item.type,
                               !.item[new.p].stringIsConst = item.stringIsConst]
        value == StrDup(typed, item.valuestring)
        valued == [value.m EXCEPT !.item[new.p].valuestring = value.p]
        name == IF item.stringIsConst THEN [m |-> valued, p |-> item.string]
                                      ELSE StrDup(valued, item.string)
        named == [name.m EXCEPT !.item[new.p].string = name.p]
    IN IF new.p = NULL THEN new
       ELSE IF item.valuestring # NoString /\ value.p = NoString
         THEN [m |-> Delete(typed, new.p), p |-> NULL]
       ELSE IF item.string # NoString /\ name.p = NoString
         THEN [m |-> Delete(valued, new.p), p |-> NULL]
         ELSE [m |-> named, p |-> new.p]

(* Mutant: the copy before is not linked to this one.                      *)
LinkCopy_noNext(m, parent, last, a) ==
    IF last = NULL THEN [m EXCEPT !.item[parent].child = a]
    ELSE [m EXCEPT !.item[a].prev = last]

LinkCopy(m, parent, last, a) ==
    IF last = NULL THEN [m EXCEPT !.item[parent].child = a]
    ELSE [m EXCEPT !.item[last].next = a, !.item[a].prev = last]

RECURSIVE Duplicate(_, _, _), CopyChildren(_, _, _, _)
Duplicate(m, a, recurse) ==
    LET new == CopyItem(m, a)
    IN IF ~m.item[a].live THEN [m |-> Bad(m), p |-> NULL]
       ELSE IF new.p = NULL \/ ~recurse THEN new
       ELSE CopyChildren(new.m, new.p, NULL, m.item[a].child)

CopyChildren(m, copy, last, child) ==
    LET new == Duplicate(m, child, TRUE)
    IN IF child = NULL THEN [m |-> m, p |-> copy]
       ELSE IF new.p = NULL THEN [m |-> Delete(new.m, copy), p |-> NULL]
       ELSE CopyChildren(LinkCopy(new.m, copy, last, new.p), copy, new.p,
                         m.item[child].next)

(* Two numbers, whose values are not modelled, are equal.                  *)
RECURSIVE Compare(_, _, _, _)
Compare(m, a, b, caseSensitive) ==
    LET x == m.item[a]
        y == m.item[b]
        xs == Children(m, a)
        ys == Children(m, b)
        Found(items, there) ==
            \A i \in DOMAIN items :
                LET other == GetObjectItem(m, there, m.item[items[i]].string.text,
                                           caseSensitive)
                IN other # NULL /\ Compare(m, items[i], other, caseSensitive)
    IN /\ a # NULL /\ b # NULL
       /\ x.type = y.type
       /\ x.type # "Invalid"
       /\ \/ a = b
          \/ x.type \in {"Null", "Number"}
          \/ x.type = "String" /\ x.valuestring.text = y.valuestring.text
          \/ /\ x.type = "Array"
             /\ Len(xs) = Len(ys)
             /\ \A i \in DOMAIN xs : Compare(m, xs[i], ys[i], caseSensitive)
          \/ x.type = "Object" /\ Found(xs, b) /\ Found(ys, a)
====
