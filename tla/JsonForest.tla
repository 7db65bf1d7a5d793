---- MODULE JsonForest ----
(***************************************************************************)
(* What the item functions of cJSON promise: a forest, where every array   *)
(* or object has a sequence of children and every item has one place. A     *)
(* step takes a forest f with the loose items l to g with the loose items h. *)
(***************************************************************************)
EXTENDS Reachability

VARIABLES
    kids,       \* the children of each item there is, in their order
    loose       \* the items that are in no other item

forest == <<kids, loose>>

(* An item with all that is below it.                                      *)
Tree(f, i) == Reach([j \in DOMAIN f |-> ToSet(f[j])], i)

(* Every item of f is in the tree of one loose item, at one place.         *)
IsForest(f, l) ==
    /\ f \in [DOMAIN f -> Seq(DOMAIN f)]
    /\ l \subseteq DOMAIN f
    /\ \A i, j \in DOMAIN f : \A m \in DOMAIN f[i], n \in DOMAIN f[j] :
          f[i][m] = f[j][n] => i = j /\ m = n
    /\ \A i \in DOMAIN f : ToSet(f[i]) \cap l = {}
    /\ DOMAIN f = UNION {Tree(f, i) : i \in l}

Keep(f, S) == [i \in S |-> f[i]]
Without(f, i) == Keep(f, DOMAIN f \ Tree(f, i))

(* A tree of new items, rooted at r.                                       *)
Make(f, l, g, h) ==
    LET new == DOMAIN g \ DOMAIN f
    IN /\ DOMAIN f \subseteq DOMAIN g
       /\ Keep(g, DOMAIN f) = f
       /\ \E r \in new : Tree(g, r) = new /\ h = l \cup {r}

Discard(f, l, g, h, r) == h = l \ {r} /\ g = Without(f, r)

(* A loose item gets a place in p, which is not below it; which is past    *)
(* the end, or a child's.                                                  *)
Place(f, l, g, h, p, which, r) ==
    /\ h = l \ {r}
    /\ g = [f EXCEPT ![p] = InsertAt(f[p], which, r)]
    /\ p \notin Tree(f, r)

PlaceNew(f, l, g, h, p, r) ==
    /\ h = l
    /\ DOMAIN g = DOMAIN f \cup {r}
    /\ g[r] = <<>>
    /\ g[p] = Append(f[p], r)
    /\ \A i \in DOMAIN f \ {p} : g[i] = f[i]

TakeOut(f, l, g, h, p, which) ==
    /\ h = l \cup {f[p][which]}
    /\ g = [f EXCEPT ![p] = RemoveAt(f[p], which)]

Drop(f, l, g, h, p, which) ==
    /\ h = l
    /\ g = [Without(f, f[p][which]) EXCEPT ![p] = RemoveAt(f[p], which)]

Exchange(f, l, g, h, p, which, r) ==
    /\ h = l \ {r}
    /\ g = [Without(f, f[p][which]) EXCEPT ![p] = [f[p] EXCEPT ![which] = r]]
    /\ p \notin Tree(f, r)

Step(f, l, g, h) ==
    \/ Make(f, l, g, h)
    \/ \E r \in l \ h : Discard(f, l, g, h, r)
    \/ \E p \in {i \in DOMAIN f \cap DOMAIN g : f[i] # g[i]} :
          \/ \E r \in l \ h, which \in 1..(Len(f[p]) + 1) :
                Place(f, l, g, h, p, which, r)
          \/ \E r \in DOMAIN g \ DOMAIN f : PlaceNew(f, l, g, h, p, r)
          \/ \E which \in DOMAIN f[p] :
                \/ TakeOut(f, l, g, h, p, which)
                \/ Drop(f, l, g, h, p, which)
                \/ \E r \in l \ h : Exchange(f, l, g, h, p, which, r)

ForestInit == kids = Keep(<<>>, {}) /\ loose = {}
ForestSpec == ForestInit /\ [][Step(kids, loose, kids', loose')]_forest
====
