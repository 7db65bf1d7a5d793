---- MODULE CJsonParse ----
(***************************************************************************)
(* The parser of lib/cjson/cJSON.c: it makes items from a text, which ends *)
(* with a NUL. Of its errors only that there is one is modelled, not the   *)
(* position; of the escapes not the UTF-16 ones. null, true, false and all *)
(* numbers are the same number.                                            *)
(***************************************************************************)
EXTENDS CJsonHeap, JsonText

CONSTANT NestingLimit       \* CJSON_NESTING_LIMIT

(* The symbol at a position; reading past the NUL is what must not happen. *)
At(c, pos) == IF pos \in DOMAIN c THEN c[pos] ELSE "beyond"
Read(m, c, pos) == BadIf(pos \notin DOMAIN c, m)

(* buffer_skip_whitespace, for which NUL is white, steps back to the NUL.   *)
Skip(c, pos) ==
    LET black == {i \in pos..Len(c) : c[i] \notin {" ", "NUL"}}
    IN IF black = {} THEN Len(c) ELSE Min(black)

Fails(m) == [m |-> m, ok |-> FALSE, pos |-> 0]
Parsed(m, pos) == [m |-> m, ok |-> TRUE, pos |-> pos]

-----------------------------------------------------------------------------
(* Strings.                                                                *)

(* The end of a string and how many escapes it has; 0 if it has no end.    *)
RECURSIVE Scan(_, _, _)
Scan(c, pos, escapes) ==
    IF pos > Len(c) THEN [end |-> 0, escapes |-> escapes]
    ELSE IF c[pos] = "quote" THEN [end |-> pos, escapes |-> escapes]
    ELSE IF c[pos] = "backslash" THEN Scan(c, pos + 2, escapes + 1)
    ELSE Scan(c, pos + 1, escapes)

Control == [b |-> "^H", f |-> "^L", n |-> "^J", r |-> "^M", t |-> "^I"]

(* The characters of a string up to its end, or an escape that is none.    *)
RECURSIVE Unescaped(_, _, _)
Unescaped(c, pos, end) ==
    LET next == Unescaped(c, pos + (IF c[pos] = "backslash" THEN 2 ELSE 1), end)
        With(char) == [next EXCEPT !.text = <<char>> \o @]
    IN IF pos >= end THEN [ok |-> TRUE, text |-> <<>>]
       ELSE IF c[pos] # "backslash" THEN With(c[pos])
       ELSE IF c[pos + 1] \in {"quote", "backslash", "/"} THEN With(c[pos + 1])
       ELSE IF c[pos + 1] \in DOMAIN Control THEN With(Control[c[pos + 1]])
       ELSE [ok |-> FALSE, text |-> <<>>]

(* parse_string                                                            *)
ParseString(m, c, pos, a) ==
    LET scan == Scan(c, pos + 1, 0)
        block == StrDup(m, Constant(<<"new">>))
        room == scan.end - pos - scan.escapes
        chars == Unescaped(c, pos + 1, scan.end)
        value == [block.p EXCEPT !.text = chars.text]
    IN IF At(c, pos) # "quote" THEN Fails(Read(m, c, pos))
       ELSE IF scan.end = 0 \/ block.p = NoString THEN Fails(m)
       ELSE IF ~chars.ok THEN Fails(FreeString(block.m, block.p))
       ELSE Parsed([BadIf(Len(chars.text) > room, block.m) EXCEPT
                        !.item[a].type = "String",
                        !.item[a].valuestring = value],
                    scan.end + 1)

(* What was parsed as a value is the name.                                 *)
NameIt(m, a) == [m EXCEPT !.item[a].string = m.item[a].valuestring,
                          !.item[a].valuestring = NoString]

-----------------------------------------------------------------------------
(* Values, arrays and objects.                                             *)

(* The end of parse_array and parse_object that fail.                      *)
GiveUp(m, head) == Fails(Delete(m, head))

RECURSIVE ParseValue(_, _, _, _, _), ParseItems(_, _, _, _, _, _, _),
          AfterItem(_, _, _, _, _, _)

Closed(c, a, named, items) ==
    IF ~items.ok THEN Fails(items.m)
    ELSE IF At(c, items.pos) # (IF named THEN "}" ELSE "]")
      THEN GiveUp(items.m, items.head)
    ELSE Parsed([items.m EXCEPT !.item[a].type = IF named THEN "Object" ELSE "Array",
                                !.item[a].child = items.head],
                items.pos + 1)

(* parse_array and parse_object, to the bracket that closes them.          *)
ParseContainer(m, c, pos, a, depth) ==
    LET named == c[pos] = "{"
        first == Skip(c, pos + 1)
    IN IF depth >= NestingLimit THEN Fails(m)
       ELSE Closed(c, a, named,
                   IF c[first] = (IF named THEN "}" ELSE "]")
                     THEN [m |-> m, ok |-> TRUE, pos |-> first, head |-> NULL]
                     ELSE ParseItems(m, c, first, NULL, NULL, depth + 1, named))

(* The value of a member whose name is parsed.                             *)
AfterName(name, c, a, depth) ==
    LET colon == Skip(c, name.pos)
    IN IF ~name.ok THEN name
       ELSE IF At(c, colon) # ":" THEN Fails(NameIt(name.m, a))
       ELSE ParseValue(NameIt(name.m, a), c, Skip(c, colon + 1), a, depth)

(* The items of a list from pos on; each is linked before it is parsed.    *)
ParseItems(m, c, pos, head, last, depth, named) ==
    LET new == NewItem(m)
        a == new.p
        linked == IF head = NULL THEN new.m ELSE SuffixObject(new.m, last, a)
    IN IF a = NULL THEN GiveUp(m, head)
       ELSE AfterItem(IF named THEN AfterName(ParseString(linked, c, pos, a), c, a, depth)
                               ELSE ParseValue(linked, c, pos, a, depth),
                      c, IF head = NULL THEN a ELSE head, a, depth, named)

AfterItem(value, c, head, a, depth, named) ==
    LET end == Skip(c, value.pos)
    IN IF ~value.ok THEN GiveUp(value.m, head)
       ELSE IF At(c, end) = ","
         THEN ParseItems(value.m, c, Skip(c, end + 1), head, a, depth, named)
       ELSE [m |-> value.m, ok |-> TRUE, pos |-> end, head |-> head]

(* parse_number                                                            *)
ParseNumber(m, pos, a) == Parsed([m EXCEPT !.item[a].type = "Number"], pos + 1)

(* parse_value                                                             *)
ParseValue(m, c, pos, a, depth) ==
    IF At(c, pos) = Number THEN ParseNumber(m, pos, a)
    ELSE IF At(c, pos) = "quote" THEN ParseString(m, c, pos, a)
    ELSE IF At(c, pos) \in {"[", "{"} THEN ParseContainer(m, c, pos, a, depth)
    ELSE Fails(m)

(* The end of cJSON_ParseWithOpts; strict is require_null_terminated.      *)
Finished(value, c, a, strict) ==
    IF ~value.ok \/ (strict /\ At(c, Skip(c, value.pos)) # "NUL")
      THEN [m |-> Delete(value.m, a), p |-> NULL]
      ELSE [m |-> value.m, p |-> a]

(* cJSON_ParseWithOpts                                                     *)
Parse(m, text, strict) ==
    LET c == text \o <<"NUL">>
        new == NewItem(m)
        start == IF Len(c) > 2 /\ c[1] = "BOM" THEN 2 ELSE 1
    IN IF new.p = NULL THEN new
       ELSE Finished(ParseValue(new.m, c, Skip(c, start), new.p, 0), c, new.p, strict)
====
