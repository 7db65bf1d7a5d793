---- MODULE CJsonPrint ----
(***************************************************************************)
(* The pieces in which lib/cjson/cJSON.c prints a tree. The text of a leaf *)
(* is what sprintf or the escapes make of it.                              *)
(***************************************************************************)
EXTENDS PrintBuffer, JsonText

Put(need, text, nul, adds) ==
    [need |-> need, text |-> text, nul |-> nul, adds |-> adds, update |-> FALSE]

(* Mutant: what is printed next overwrites the pieces.                     *)
Updated_never(pieces) == pieces

(* update_offset after the last of some pieces.                            *)
Updated(pieces) == [pieces EXCEPT ![Len(pieces)].update = TRUE]

Tabs(n) == [i \in 1..n |-> "\t"]

(* print_value of null, false, true, a raw text or a string, and           *)
(* print_number, which moves the offset itself.                            *)
PiecesOfLeaf(tree) ==
    <<Put(Len(tree.text) + 1, tree.text, TRUE,
          IF tree.text[1] = Number THEN Len(tree.text) ELSE 0)>>

(* print_string_ptr of a name, quoted.                                     *)
PiecesOfName(name) == PiecesOfLeaf(Leaf(Quoted(name)))

RECURSIVE PiecesOf(_, _, _)

(* print_array                                                             *)
PiecesOfArray(items, format, depth) ==
    LET comma == IF format THEN <<",", " ">> ELSE <<",">>
        Element(i) ==
            Updated(PiecesOf(items[i], format, depth + 1))
                \o (IF i = Len(items) THEN <<>>
                    ELSE <<Put(Len(comma) + 1, comma, TRUE, Len(comma))>>)
    IN <<Put(1, <<"[">>, FALSE, 1)>>
          \o FlattenSeq([i \in DOMAIN items |-> Element(i)])
          \o <<Put(2, <<"]">>, TRUE, 0)>>

(* print_object                                                            *)
PiecesOfObject(members, format, depth) ==
    LET If(condition, text) == IF condition THEN text ELSE <<>>
        open == <<"{">> \o If(format, <<"\n">>)
        colon == <<":">> \o If(format, <<"\t">>)
        After(i) == If(i < Len(members), <<",">>) \o If(format, <<"\n">>)
        Line(i) ==
            (IF format THEN <<Put(depth + 1, Tabs(depth + 1), FALSE, depth + 1)>>
                       ELSE <<>>)
                \o Updated(PiecesOfName(members[i].name))
                \o <<Put(Len(colon), colon, FALSE, Len(colon))>>
                \o Updated(PiecesOf(members[i].tree, format, depth + 1))
                \o <<Put(Len(After(i)) + 1, After(i), TRUE, Len(After(i)))>>
        close == If(format, Tabs(depth)) \o <<"}">>
    IN <<Put(Len(open) + 1, open, FALSE, Len(open))>>
          \o FlattenSeq([i \in DOMAIN members |-> Line(i)])
          \o <<Put(IF format THEN depth + 2 ELSE 2, close, TRUE, 0)>>

PiecesOf(tree, format, depth) ==
    IF tree.kind = "array" THEN PiecesOfArray(tree.items, format, depth)
    ELSE IF tree.kind = "object" THEN PiecesOfObject(tree.items, format, depth)
    ELSE PiecesOfLeaf(tree)

(* A document is a tree, its layout, and whether print() writes it, which  *)
(* alone calls update_offset after the whole item.                         *)
Document(tree, format, print) ==
    [tree |-> tree, format |-> format, print |-> print]

PiecesOfDocument(d) == LET pieces == PiecesOf(d.tree, d.format, 0)
                       IN IF d.print THEN Updated(pieces) ELSE pieces

Job(call, size, realloc, tree, format) ==
    [call |-> call, size |-> size, realloc |-> realloc,
     document |-> Document(tree, format, call = "Print")]

-----------------------------------------------------------------------------
(* Properties.                                                             *)

Layout == {" ", "\t", "\n"}

(* What a reader of the buffer finds before the first NUL.                 *)
Printed ==
    LET nuls == {i \in DOMAIN buf.data : buf.data[i] = "NUL"}
    IN SubSeq(buf.data, 1, (CHOOSE i \in nuls : \A n \in nuls : i <= n) - 1)

(* Bytes of the text with its layout, if the call has room for them.       *)
Length == FoldLeft(LAMBDA n, p : n + (IF p.adds = 0 THEN Len(p.text) ELSE p.adds),
                   0, Pieces[job.document])

(* A call that succeeds leaves the text of its tree with a NUL after it,   *)
(* and no call fails without a reason: memory that was refused, a text     *)
(* near INT_MAX, or fewer than "5 bytes more than you actually need" in a   *)
(* buffer of the caller (cJSON.h 152).                                     *)
PrintedIsText ==
    at = "done" =>
        IF result = "text"
          THEN /\ "NUL" \in ToSet(buf.data)
               /\ SelectSeq(Printed, LAMBDA c : c \notin Layout) = TextOf(job.document.tree)
               /\ job.document.format \/ Printed = TextOf(job.document.tree)
          ELSE \/ denied
               \/ Length + 2 > IntMax
               \/ job.call = "Preallocated" /\ job.size < Length + 5
====
