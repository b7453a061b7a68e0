------------------------------ MODULE JsonPack ------------------------------
(***************************************************************************)
(* pack_unpack.c of Jansson: values built and taken apart by a format.     *)
(* A format is a sequence of one-character strings, the empty string its   *)
(* final zero; "," stands for the characters that are skipped.  Arguments  *)
(* are what the caller passes where the format asks for them: strings from *)
(* a list, numbers the number of the argument.  Values are those of        *)
(* JsonLoad.  Failures of malloc and the errors' wording are left out.     *)
(***************************************************************************)
EXTENDS JsonLoad, FiniteSetsExt

NullString == <<-1>>   \* a NULL where a string should be
NoRoot == <<>>         \* a NULL value: what it should be is skipped
Opened == {"{", "[", "s", "i", "I", "b", "f", "F", "O", "o", "n"}   \* unpack_value_starters

\* scanner_init, the caller's list of strings, and the arguments asked for so far.
Scanner(strings) ==
    [at |-> 1, prev |-> "", token |-> "", next |-> <<>>, asked |-> <<>>, strings |-> strings]

\* Mutant of PrevToken: the token is not kept.
ForgetToken(sc) == [sc EXCEPT !.token = sc.prev]

\* prev_token: the token is put back, one at most.
PrevToken(sc) == [sc EXCEPT !.next = <<sc.token>>, !.token = sc.prev]

\* next_token: the one put back, or the next character that is not skipped; behind
\* the final zero there is no format left to read.
NextToken(f, sc) ==
    IF sc.next # <<>> THEN [sc EXCEPT !.prev = sc.token, !.token = sc.next[1], !.next = <<>>]
    ELSE IF sc.at > Len(f) THEN [sc EXCEPT !.prev = sc.token, !.token = "overrun"]
    ELSE LET j == CHOOSE j \in sc.at..Len(f) : f[j] # "," /\ \A k \in sc.at..(j - 1) : f[k] = "," IN
         [sc EXCEPT !.prev = sc.token, !.token = f[j], !.at = j + 1]

\* va_arg.
Ask(sc, kind) == [sc EXCEPT !.asked = Append(@, kind)]
Argument(sc) == Len(sc.asked) + 1
StringArgument(sc) ==
    LET n == Len(SelectSeq(sc.asked, LAMBDA k : k = "string")) IN
    sc.strings[1 + (n % Len(sc.strings))]

Packed(value, sc) == [value |-> value, sc |-> sc]
NotPacked(sc) == Packed(Nothing, sc)

-----------------------------------------------------------------------------
(* read_string                                                             *)

Length == 1            \* the length the caller passes for #

\* The pieces that + joins, each the whole of its argument or as much as # says.
RECURSIVE Pieces(_, _, _)
NextPiece(f, next, result) ==
    IF next.token = "+" THEN Pieces(f, next, result) ELSE Packed(result, PrevToken(next))
Piece(f, str, asked, result) ==
    IF asked.token = "#" THEN NextPiece(f, NextToken(f, Ask(asked, "length")), result \o SubSeq(str, 1, Length))
    ELSE NextPiece(f, NextToken(f, PrevToken(asked)), result \o str)
Pieces(f, sc, result) ==
    IF StringArgument(sc) = NullString THEN Packed(NullString, Ask(sc, "string"))
    ELSE Piece(f, StringArgument(sc), NextToken(f, Ask(sc, "string")), result)

\* read_string; NullString stands for its failure.
Read(f, peeked) ==
    LET back == PrevToken(peeked)
    IN IF peeked.token \in {"#", "+"} THEN Pieces(f, back, <<>>)
       ELSE Packed(StringArgument(back), Ask(back, "string"))
InUtf8(r) == IF r.value # NullString /\ CheckString(r.value) THEN r ELSE Packed(NullString, r.sc)
ReadString(f, sc) == InUtf8(Read(f, NextToken(f, sc)))

-----------------------------------------------------------------------------
(* pack                                                                    *)

RECURSIVE Pack(_, _), PackMembers(_, _, _), PackElements(_, _, _)

\* pack_object, behind a member, behind its key, and at a key or the end.
PackMember(f, key, member, members) ==
    IF member.value = Nothing THEN NotPacked(member.sc)
    ELSE PackMembers(f, NextToken(f, member.sc), SetMember(members, key, member.value))
PackKey(f, key, members) ==
    IF key.value = NullString THEN NotPacked(key.sc)
    ELSE PackMember(f, key.value, Pack(f, NextToken(f, key.sc)), members)
PackMembers(f, sc, members) ==
    CASE sc.token = "}" -> Packed(<<"object", members>>, sc)
      [] sc.token = "s" -> PackKey(f, ReadString(f, sc), members)
      [] OTHER -> NotPacked(sc)

\* pack_array, behind an element, and at one or at the end.
PackElement(f, element, elements) ==
    IF element.value = Nothing THEN NotPacked(element.sc)
    ELSE PackElements(f, NextToken(f, element.sc), Append(elements, element.value))
PackElements(f, sc, elements) ==
    CASE sc.token = "]" -> Packed(<<"array", elements>>, sc)
      [] sc.token = "" -> NotPacked(sc)
      [] OTHER -> PackElement(f, Pack(f, sc), elements)

\* pack
PackString(str) ==
    IF str.value = NullString THEN NotPacked(str.sc) ELSE Packed(<<"string", str.value>>, str.sc)
Pack(f, sc) ==
    LET n == Argument(sc)
    IN CASE sc.token = "{" -> PackMembers(f, NextToken(f, sc), <<>>)
         [] sc.token = "[" -> PackElements(f, NextToken(f, sc), <<>>)
         [] sc.token = "s" -> PackString(ReadString(f, sc))
         [] sc.token = "n" -> Packed(<<"null">>, sc)
         [] sc.token = "b" -> Packed(IF n % 2 = 0 THEN <<"false">> ELSE <<"true">>, Ask(sc, "int"))
         [] sc.token \in {"i", "I"} -> Packed(<<"integer", n>>, Ask(sc, "int"))
         [] sc.token = "f" -> Packed(<<"real", <<n, 0>>>>, Ask(sc, "double"))
         [] sc.token \in {"O", "o"} -> Packed(<<"array", <<>>>>, Ask(sc, "json"))
         [] OTHER -> NotPacked(sc)

\* json_vpack_ex
PackBehind(r, behind) == Packed(IF behind.token # "" THEN Nothing ELSE r.value, behind)
PackEnd(f, r) == IF r.value = Nothing THEN r ELSE PackBehind(r, NextToken(f, r.sc))
PackFormat(f, strings) == PackEnd(f, Pack(f, NextToken(f, Scanner(strings))))
JsonPack(fmt, strings) ==
    IF fmt = <<>> THEN NotPacked(Scanner(strings)) ELSE PackFormat(Append(fmt, ""), strings)

-----------------------------------------------------------------------------
(* unpack: whether it succeeds, and what it stored through the arguments.  *)

Unpacked(ok, out, sc) == [ok |-> ok, out |-> out, sc |-> sc]

Type(root) == IF root[1] \in {"true", "false"} THEN "boolean" ELSE root[1]

TypesOf(token) ==
    CASE token = "s" -> {"string"} [] token \in {"i", "I"} -> {"integer"} [] token = "b" -> {"boolean"}
      [] token = "f" -> {"real"} [] token = "F" -> {"real", "integer"} [] token = "n" -> {"null"}
      [] token \in {"O", "o"} -> {"string", "integer", "boolean", "real", "null", "object", "array"}
      [] OTHER -> {}

KindOf(token) ==
    CASE token = "s" -> "string*" [] token \in {"i", "I", "b"} -> "int*" [] token \in {"f", "F"} -> "double*"
      [] token \in {"O", "o"} -> "json*" [] OTHER -> "none"

\* Mutant of UnpackLeaf: what is not there takes no argument.
UnpackLeafThere(token, sc, root, flags) ==
    IF TypesOf(token) = {} \/ (root # NoRoot /\ Type(root) \notin TypesOf(token)) THEN Unpacked(FALSE, <<>>, sc)
    ELSE IF token = "n" \/ "validate_only" \in flags \/ root = NoRoot THEN Unpacked(TRUE, <<>>, sc)
    ELSE Unpacked(TRUE, <<root>>, Ask(sc, KindOf(token)))

\* unpack of one value: its type is checked, and it is stored if it is there.
UnpackLeaf(token, sc, root, flags) ==
    IF TypesOf(token) = {} \/ (root # NoRoot /\ Type(root) \notin TypesOf(token)) THEN Unpacked(FALSE, <<>>, sc)
    ELSE IF token = "n" \/ "validate_only" \in flags THEN Unpacked(TRUE, <<>>, sc)
    ELSE Unpacked(TRUE, IF root = NoRoot THEN <<>> ELSE <<root>>, Ask(sc, KindOf(token)))

MemberOf(root, key) ==
    IF root # NoRoot /\ key \in KeysOf(root[2])
    THEN (CHOOSE m \in Range(root[2]) : m[1] = key)[2] ELSE NoRoot

\* Mutant of LeftUnpacked: the keys are counted, not gathered.
LeftUnpackedCounted(root, keys) == Len(keys) # Len(root[2])

\* The check at the end of unpack_object: as many different keys as the object has.
LeftUnpacked(root, keys) == Cardinality(Range(keys)) # Len(root[2])

RECURSIVE Unpack(_, _, _, _), UnpackMembers(_, _, _, _, _, _, _), UnpackElements(_, _, _, _, _, _, _)

\* Whether an object or an array must be unpacked to its end.
MustBeComplete(root, flags, strict) ==
    root # NoRoot /\ (strict = "!" \/ (strict = "" /\ "strict" \in flags))

\* unpack_object, behind a member, behind its key, and at a key, its ! or *, or the
\* end; keys are the ones unpacked.
UnpackNext(f, member, root, flags, keys, out) ==
    IF member.ok THEN UnpackMembers(f, NextToken(f, member.sc), root, flags, "", keys, out \o member.out)
    ELSE Unpacked(FALSE, out \o member.out, member.sc)
UnpackKey(f, key, behind, root, flags, keys, out) ==
    LET optional == behind.token = "?"
        value == MemberOf(root, key)
    IN IF root # NoRoot /\ value = NoRoot /\ ~ optional THEN Unpacked(FALSE, out, behind)
       ELSE UnpackNext(f, Unpack(f, IF optional THEN NextToken(f, behind) ELSE behind, value, flags),
                       root, flags, Append(keys, key), out)
UnpackMembers(f, sc, root, flags, strict, keys, out) ==
    CASE sc.token = "}" ->
           Unpacked(~ (MustBeComplete(root, flags, strict) /\ LeftUnpacked(root, keys)), out, sc)
      [] sc.token # "}" /\ (strict # "" \/ sc.token \notin {"!", "*", "s"}) -> Unpacked(FALSE, out, sc)
      [] sc.token \in {"!", "*"} /\ strict = "" ->
           UnpackMembers(f, NextToken(f, sc), root, flags, sc.token, keys, out)
      [] sc.token = "s" /\ strict = "" ->
           IF StringArgument(sc) = NullString THEN Unpacked(FALSE, out, Ask(sc, "string"))
           ELSE UnpackKey(f, StringArgument(sc), NextToken(f, Ask(sc, "string")), root, flags, keys, out)

\* unpack_array, behind an element, and before its element i.
UnpackElement(f, element, root, flags, i, out) ==
    IF element.ok THEN UnpackElements(f, NextToken(f, element.sc), root, flags, "", i + 1, out \o element.out)
    ELSE Unpacked(FALSE, out \o element.out, element.sc)
UnpackElements(f, sc, root, flags, strict, i, out) ==
    LET there == root # NoRoot /\ i <= Len(root[2])
    IN CASE sc.token = "]" ->
              Unpacked(~ (MustBeComplete(root, flags, strict) /\ i - 1 # Len(root[2])), out, sc)
         [] sc.token # "]" /\ (strict # "" \/ sc.token \notin {"!", "*"} \cup Opened) -> Unpacked(FALSE, out, sc)
         [] sc.token \in {"!", "*"} /\ strict = "" ->
              UnpackElements(f, NextToken(f, sc), root, flags, sc.token, i, out)
         [] sc.token \in Opened /\ strict = "" ->
              IF root # NoRoot /\ ~ there THEN Unpacked(FALSE, out, sc)
              ELSE UnpackElement(f, Unpack(f, sc, IF there THEN root[2][i] ELSE NoRoot, flags), root, flags, i, out)

\* unpack
Unpack(f, sc, root, flags) ==
    CASE sc.token = "{" ->
           IF root # NoRoot /\ root[1] # "object" THEN Unpacked(FALSE, <<>>, sc)
           ELSE UnpackMembers(f, NextToken(f, sc), root, flags, "", <<>>, <<>>)
      [] sc.token = "[" ->
           IF root # NoRoot /\ root[1] # "array" THEN Unpacked(FALSE, <<>>, sc)
           ELSE UnpackElements(f, NextToken(f, sc), root, flags, "", 1, <<>>)
      [] OTHER -> UnpackLeaf(sc.token, sc, root, flags)

\* json_vunpack_ex
UnpackEnd(f, r) ==
    IF r.ok THEN LET behind == NextToken(f, r.sc) IN Unpacked(behind.token = "", r.out, behind) ELSE r
UnpackFormat(root, f, flags, strings) == UnpackEnd(f, Unpack(f, NextToken(f, Scanner(strings)), root, flags))
JsonUnpack(root, fmt, flags, strings) ==
    IF root = NoRoot \/ fmt = <<>> THEN Unpacked(FALSE, <<>>, Scanner(strings))
    ELSE UnpackFormat(root, Append(fmt, ""), flags, strings)
=============================================================================
