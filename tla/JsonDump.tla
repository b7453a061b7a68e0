------------------------------ MODULE JsonDump ------------------------------
(***************************************************************************)
(* dump.c of Jansson: values are those of JsonLoad, the dump is the bytes  *)
(* given to the callback, which always takes them.  Values have no cycles. *)
(***************************************************************************)
EXTENDS JsonLoad

CONSTANTS
    Indent    \* the spaces per level of JSON_INDENT

Newline == <<10>>
Space == 32
Hex(d) == IF d < 10 THEN Zero + d ELSE 97 + (d - 10)

\* printf's \u%04x.
Escape(u) == <<Backslash, 117, Hex(u \div 4096), Hex((u \div 256) % 16), Hex((u \div 16) % 16), Hex(u % 16)>>

Repeated(s, n) == FlattenSeq([i \in 1..n |-> s])

\* dump_indent.
Indentation(flags, depth, space) ==
    IF "indent" \in flags THEN Newline \o Repeated([i \in 1..Indent |-> Space], depth)
    ELSE IF space /\ "compact" \notin flags THEN <<Space>> ELSE <<>>

-----------------------------------------------------------------------------
\* Mutant of MustEscape: the characters of Latin 1 are copied.
MustEscapeAbove(c, flags) ==
    \/ c \in {Quote, Backslash} \/ c < 32
    \/ "escape_slash" \in flags /\ c = 47
    \/ "ensure_ascii" \in flags /\ c > 255

\* dump_string: which characters it does not copy ...
MustEscape(c, flags) ==
    \/ c \in {Quote, Backslash} \/ c < 32
    \/ "escape_slash" \in flags /\ c = 47
    \/ "ensure_ascii" \in flags /\ c > 127

\* Mutant of Escaped: no surrogate pair is made.
EscapedWhole(c) ==
    CASE c \in {Quote, Backslash, 47} -> <<Backslash, c>>
      [] c = 8 -> <<Backslash, 98>> [] c = 9 -> <<Backslash, 116>>
      [] c = 10 -> <<Backslash, 110>> [] c = 12 -> <<Backslash, 102>> [] c = 13 -> <<Backslash, 114>>
      [] OTHER -> Escape(c % 65536)

\* ... and what it writes for them.
Escaped(c) ==
    CASE c \in {Quote, Backslash, 47} -> <<Backslash, c>>
      [] c = 8 -> <<Backslash, 98>> [] c = 9 -> <<Backslash, 116>>
      [] c = 10 -> <<Backslash, 110>> [] c = 12 -> <<Backslash, 102>> [] c = 13 -> <<Backslash, 114>>
      [] c >= 65536 -> Escape(55296 + ((c - 65536) \div 1024)) \o Escape(56320 + ((c - 65536) % 1024))
      [] OTHER -> Escape(c)

\* Up to the closing quote, or to the first character that is not UTF-8.
RECURSIVE DumpCharacters(_, _)
DumpCharacters(str, flags) ==
    IF str = <<>> THEN [ok |-> TRUE, bytes |-> <<Quote>>]
    ELSE LET b == CharAt(str, 1)
             rest == DumpCharacters(SubSeq(str, Len(b) + 1, Len(str)), flags)
         IN IF b = <<>> THEN [ok |-> FALSE, bytes |-> <<>>]
            ELSE [rest EXCEPT !.bytes =
                    (IF MustEscape(CodePoint(b), flags) THEN Escaped(CodePoint(b)) ELSE b) \o @]

DumpString(str, flags) ==
    LET r == DumpCharacters(str, flags) IN [r EXCEPT !.bytes = <<Quote>> \o @]

-----------------------------------------------------------------------------
\* Mutant of Before: a key that begins another one is not before it.
BeforeInPart(a, b) ==
    \E i \in 1..Len(a) : i <= Len(b) /\ a[i] < b[i] /\ \A j \in 1..(i - 1) : a[j] = b[j]

\* strcmp.
Before(a, b) ==
    \/ Len(a) < Len(b) /\ a = SubSeq(b, 1, Len(a))
    \/ \E i \in 1..Len(a) : i <= Len(b) /\ a[i] < b[i] /\ \A j \in 1..(i - 1) : a[j] = b[j]

\* The order of the members: by key, by serial, or as the hash table has them, which
\* may be any order; here, that of two keys in one bucket.
Ordered(members, flags) ==
    CASE "sort_keys" \in flags -> SortSeq(members, LAMBDA m, n : Before(m[1], n[1]))
      [] "preserve_order" \in flags /\ "sort_keys" \notin flags -> members
      [] OTHER -> Reverse(members)

Good(bytes) == [ok |-> TRUE, bytes |-> bytes]
Then(r, q) == [ok |-> r.ok /\ q.ok, bytes |-> r.bytes \o q.bytes]

\* A comma and an indentation between the parts, an indentation around them.
Enclosed(open, parts, close, flags, depth) ==
    IF parts = <<>> THEN Good(<<open, close>>)
    ELSE LET behind(i) ==
                 IF i < Len(parts) THEN Good(<<Comma>> \o Indentation(flags, depth + 1, TRUE))
                 ELSE Good(Indentation(flags, depth, FALSE) \o <<close>>)
             all == [i \in DOMAIN parts |-> Then(parts[i], behind(i))]
         IN FoldLeft(Then, Good(<<open>> \o Indentation(flags, depth + 1, FALSE)), all)

RECURSIVE DoDump(_, _, _)

\* A member of an object: what dump_string returns for the key is not looked at.
DumpMember(member, flags, depth) ==
    Then(Good(DumpString(member[1], flags).bytes
              \o (IF "compact" \in flags THEN <<Colon>> ELSE <<Colon, Space>>)),
         DoDump(member[2], flags, depth + 1))

\* do_dump.
DoDump(json, flags, depth) ==
    CASE json[1] = "null" -> Good(<<110, 117, 108, 108>>)
      [] json[1] = "true" -> Good(<<116, 114, 117, 101>>)
      [] json[1] = "false" -> Good(<<102, 97, 108, 115, 101>>)
      [] json[1] = "integer" -> Good(FormatInteger(json[2]))
      [] json[1] = "real" -> Good(Dtostr(json[2]))
      [] json[1] = "string" -> DumpString(json[2], flags)
      [] json[1] = "array" ->
           Enclosed(OpenArray, [i \in DOMAIN json[2] |-> DoDump(json[2][i], flags, depth + 1)],
                    CloseArray, flags, depth)
      [] json[1] = "object" ->
           LET members == Ordered(json[2], flags) IN
           Enclosed(OpenObject, [i \in DOMAIN members |-> DumpMember(members[i], flags, depth)],
                    CloseObject, flags, depth)

\* json_dump_callback; the empty dump stands for its failure.
Dump(json, flags) ==
    IF "encode_any" \notin flags /\ json[1] \notin {"array", "object"} THEN <<>>
    ELSE LET r == DoDump(json, flags, 0) IN IF r.ok THEN r.bytes ELSE <<>>
=============================================================================
