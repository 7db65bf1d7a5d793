---- MODULE MCJsonLists ----
(* Arrays and numbers in arrays. Five items are the fewest where one that  *)
(* is loose takes the place of one with neighbours on both sides; putting  *)
(* one between two others, and taking it out again, needs four. There are  *)
(* no strings, so no names, no objects with members and no texts to parse. *)
EXTENDS CJson

MCKinds == {"Array"}

ListsNext == \/ \E kind \in Kinds : CreateItem(kind)
             \/ \E count \in 0..MaxArray : CreateNumbers(count)
             \/ \E a \in Held, recurse \in BOOLEAN : Copy(a, recurse)
             \/ OnArrays
             \/ \E r \in roots : DeleteTree(r)

ListsSpec == Init /\ [][ListsNext]_vars
====
