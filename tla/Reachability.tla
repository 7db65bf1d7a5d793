---- MODULE Reachability ----
(***************************************************************************)
(* What can be reached in a structure of linked nodes.                     *)
(***************************************************************************)
EXTENDS Naturals, Sequences, SequencesExt, FiniteSets

(* The nodes that the edges lead to from a, where edges[x] are the nodes   *)
(* next to x: as many steps as there are nodes lead to all of them.        *)
Reach(edges, a) ==
    LET count == Cardinality(DOMAIN edges)
        reached[n \in 0..count] ==
            IF n = 0 THEN [all |-> {a}, new |-> {a}]
            ELSE LET S == reached[n - 1]
                     next == (UNION {edges[x] : x \in S.new}) \ S.all
                 IN [all |-> S.all \cup next, new |-> next]
    IN reached[count].all
====
