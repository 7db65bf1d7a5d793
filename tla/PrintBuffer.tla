---- MODULE PrintBuffer ----
(***************************************************************************)
(* The print buffer of lib/cjson/cJSON.c: cJSON_Print, cJSON_PrintBuffered *)
(* and cJSON_PrintPreallocated write a text piece by piece. Before each    *)
(* piece ensure() asks for room, which it may have to allocate. What the   *)
(* pieces of an item are is the subject of CJsonPrint.                     *)
(***************************************************************************)
EXTENDS Integers, Sequences

CONSTANTS
    Jobs,           \* calls of the printer
    Pieces,         \* the pieces of each document
    DefaultSize,    \* default_buffer_size
    IntMax,         \* INT_MAX
    SizeMod         \* size_t counts modulo this

(* A piece asks for need bytes and writes its text and perhaps a NUL. Then *)
(* the offset is moved by adds, or to the NUL by update_offset.            *)
Piece == [need : Nat, text : Seq(STRING), nul : BOOLEAN,
          adds : Nat, update : BOOLEAN]

Bytes(piece) == Len(piece.text) + (IF piece.nul THEN 1 ELSE 0)

WellFormed(piece) ==
    /\ Bytes(piece) <= piece.need
    /\ piece.adds <= Len(piece.text)
    /\ piece.update => piece.nul

ASSUME JobsAssumption ==
    \A j \in Jobs : /\ j.call \in {"Print", "Buffered", "Preallocated"}
                    /\ j.size \in 0..IntMax
                    /\ j.realloc \in BOOLEAN
                    /\ j.document \in DOMAIN Pieces

ASSUME PiecesAssumption ==
    \A d \in DOMAIN Pieces :
        /\ Pieces[d] \in Seq(Piece)
        /\ \A i \in DOMAIN Pieces[d] : WellFormed(Pieces[d][i])

ASSUME SizesAssumption == /\ IntMax \in Nat
                          /\ DefaultSize \in 1..IntMax
                          /\ SizeMod = 2 * IntMax + 2

VARIABLES
    job,        \* the call
    at,         \* where it is
    k,          \* the piece it is at
    buf,        \* buffer->length, buffer->offset, and what was written
    blocks,     \* blocks the printer has allocated and not freed
    result,     \* what the call returned
    denied,     \* history: an allocation failed
    bad         \* history: a byte past the end was read or written

printVars == <<job, at, k, buf, blocks, result, denied, bad>>

NULL_Buffer == [null |-> TRUE, length |-> 0, offset |-> 0, data |-> <<>>]
NewBuffer(size) == [null |-> FALSE, length |-> size, offset |-> 0, data |-> <<>>]

NoJob == [call |-> "none"]

PrintInit == /\ job = NoJob
             /\ at = "idle"
             /\ k = 1
             /\ buf = NULL_Buffer
             /\ blocks = 0
             /\ result = "none"
             /\ denied = FALSE
             /\ bad = FALSE

Goto(place) == at' = place

-----------------------------------------------------------------------------
(* The buffer a call begins with: of the default size, of the size that    *)
(* its caller guesses, or its caller's own.                                *)
BeginPrint(j) ==
    /\ at = "idle"
    /\ job' = j
    /\ \/ /\ buf' = NewBuffer(IF j.call = "Print" THEN DefaultSize ELSE j.size)
          /\ blocks' = IF j.call = "Preallocated" THEN 0 ELSE 1
          /\ Goto("ensure")
          /\ UNCHANGED denied
       \/ /\ j.call # "Preallocated"
          /\ denied' = TRUE
          /\ Goto("failed")
          /\ UNCHANGED <<buf, blocks>>
    /\ UNCHANGED <<k, result, bad>>

-----------------------------------------------------------------------------
(* ensure(): the piece fits, or is refused, or the buffer grows.           *)

piece == Pieces[job.document][k]
Needed == (piece.need + buf.offset + 1) % SizeMod

Valid == /\ ~(buf.length > 0 /\ buf.offset >= buf.length)
         /\ piece.need <= IntMax
Fits == Valid /\ Needed <= buf.length
MayGrow == Valid /\ ~Fits /\ job.call # "Preallocated" /\ Needed <= IntMax
NewSize == IF Needed > IntMax \div 2 THEN IntMax ELSE 2 * Needed

Ensuring == at = "ensure" /\ k <= Len(Pieces[job.document])

EnsureFits == /\ Ensuring
              /\ Fits
              /\ Goto("write")
              /\ UNCHANGED <<job, k, buf, blocks, result, denied, bad>>

EnsureRefuses == /\ Ensuring
                 /\ ~Fits /\ ~MayGrow
                 /\ Goto("failed")
                 /\ UNCHANGED <<job, k, buf, blocks, result, denied, bad>>

(* By realloc, or by copying offset + 1 bytes to a block of the new size.  *)
EnsureGrows ==
    /\ Ensuring
    /\ MayGrow
    /\ buf' = [buf EXCEPT !.length = NewSize,
                          !.data = IF job.realloc \/ Len(@) <= buf.offset THEN @
                                   ELSE SubSeq(@, 1, buf.offset + 1)]
    /\ bad' = (bad \/ (~job.realloc /\ buf.offset + 1 > buf.length))
    /\ Goto("write")
    /\ UNCHANGED <<job, k, blocks, result, denied>>

(* Without memory the buffer is freed at once and is NULL from here on.    *)
EnsureFails == /\ Ensuring
               /\ MayGrow
               /\ buf' = NULL_Buffer
               /\ blocks' = blocks - 1
               /\ denied' = TRUE
               /\ Goto("failed")
               /\ UNCHANGED <<job, k, result, bad>>

-----------------------------------------------------------------------------
(* The piece is written. update_offset goes to its NUL; without one it     *)
(* would read bytes nobody wrote.                                          *)
WritePiece ==
    /\ at = "write"
    /\ buf' = [buf EXCEPT
                  !.data = SubSeq(@, 1, buf.offset) \o piece.text
                              \o (IF piece.nul THEN <<"NUL">> ELSE <<>>),
                  !.offset = @ + (IF piece.update THEN Len(piece.text)
                                                  ELSE piece.adds)]
    /\ bad' = (\/ bad
               \/ buf.offset + Bytes(piece) > buf.length
               \/ piece.update /\ ~piece.nul)
    /\ k' = k + 1
    /\ Goto("ensure")
    /\ UNCHANGED <<job, blocks, result, denied>>

-----------------------------------------------------------------------------
(* The end of a call.                                                      *)

Written == at = "ensure" /\ k > Len(Pieces[job.document])

Returns(value) == Goto("done") /\ result' = value

(* print() cuts the buffer down to the text, by realloc or by a copy.      *)
Shrink == /\ Written
          /\ job.call = "Print"
          /\ buf' = [buf EXCEPT !.length = buf.offset + 1,
                                !.data = SubSeq(@, 1, buf.offset) \o <<"NUL">>]
          /\ Returns("text")
          /\ UNCHANGED <<job, k, blocks, denied, bad>>

ShrinkFails == /\ Written
               /\ job.call = "Print"
               /\ denied' = TRUE
               /\ Goto("failed")
               /\ UNCHANGED <<job, k, buf, blocks, result, bad>>

ReturnBuffer == /\ Written
                /\ job.call # "Print"
                /\ Returns("text")
                /\ UNCHANGED <<job, k, buf, blocks, denied, bad>>

(* Mutant: a buffer that ensure() has freed is freed again.                *)
Fail_twice == /\ at = "failed"
              /\ blocks' = IF job.call = "Preallocated" THEN blocks ELSE blocks - 1
              /\ Returns("NULL")
              /\ UNCHANGED <<job, k, buf, denied, bad>>

(* A failed call frees the buffer if there is one and it is its own.       *)
Fail == /\ at = "failed"
        /\ blocks' = IF buf.null \/ job.call = "Preallocated" THEN blocks
                                                              ELSE blocks - 1
        /\ Returns("NULL")
        /\ UNCHANGED <<job, k, buf, denied, bad>>

PrintNext == \/ at = "idle" /\ \E j \in Jobs : BeginPrint(j)
             \/ EnsureFits \/ EnsureRefuses \/ EnsureGrows \/ EnsureFails
             \/ WritePiece
             \/ Shrink \/ ShrinkFails \/ ReturnBuffer \/ Fail

PrintSpec == PrintInit /\ [][PrintNext]_printVars

-----------------------------------------------------------------------------
(* Properties.                                                             *)

(* Whatever is printed and whenever memory runs out, no byte past the end  *)
(* of the buffer is written or read, except one when the caller's guess is *)
(* 0 and there is no realloc (line 450); and in the end the call leaves    *)
(* behind the block of its text, or none if it failed or was given one.    *)
PrintStaysInside ==
    /\ bad => job.call = "Buffered" /\ job.size = 0 /\ ~job.realloc
    /\ blocks \in {0, 1}
    /\ at = "done" =>
          (blocks = 1 <=> result = "text" /\ job.call # "Preallocated")
====
