------------------------------ MODULE JsonLoad ------------------------------
(***************************************************************************)
(* load.c of Jansson: texts are sequences of bytes.  An object is the      *)
(* sequence of its <<key, value>> pairs in the order of their serials.     *)
(* Errors' wording and failures of malloc are left out; the two passes of  *)
(* the C code over a string, which reads ahead to its end and then decodes *)
(* it, are one.                                                            *)
(***************************************************************************)
EXTENDS Strconv, Utf8

Eof == -1             \* STREAM_STATE_EOF
Error == -2           \* STREAM_STATE_ERROR

Quote == 34
Backslash == 92
Comma == 44
Colon == 58
OpenArray == 91
CloseArray == 93
OpenObject == 123
CloseObject == 125

\* Mutant of Blank: a zero byte is one too.
BlankOrZero == {32, 9, 10, 13, 0}
Blank == {32, 9, 10, 13}
Lower == 97..122
Alpha == Lower \cup (65..90)
HexDigit == Digit \cup (97..102) \cup (65..70)

\* The tokens that are not one character.
TokenInvalid == -1
TokenEof == 0
TokenString == 256
TokenInteger == 257
TokenReal == 258
TokenTrue == 259
TokenFalse == 260
TokenNull == 261

Nothing == <<>>       \* json_loads's NULL

-----------------------------------------------------------------------------
(* Where the bytes come from.                                              *)

\* string_get: a zero ends the string.
StringSource(text) ==
    LET zeros == {i \in DOMAIN text : text[i] = 0} IN
    IF zeros = {} THEN text
    ELSE SubSeq(text, 1, (CHOOSE i \in zeros : \A j \in zeros : i <= j) - 1)

\* callback_get: the callback's chunks, up to the first empty one.
RECURSIVE ChunkSource(_)
ChunkSource(chunks) ==
    IF chunks = <<>> \/ Head(chunks) = <<>> THEN <<>>
    ELSE Head(chunks) \o ChunkSource(Tail(chunks))

\* stream_get: what it returns, call by call, until it returns the same for ever.
\* A character of several bytes is taken whole, and refused whole.
RECURSIVE Stream(_)
Stream(text) ==
    IF text = <<>> THEN <<Eof>>
    ELSE LET b == IF text[1] < 128 THEN <<text[1]>> ELSE CharAt(text, 1) IN
         IF b = <<>> THEN <<Error>>
         ELSE b \o Stream(SubSeq(text, Len(b) + 1, Len(text)))

\* The first character at or after i that is not in S.
After(s, i, S) == CHOOSE j \in i..Len(s) : s[j] \notin S /\ \A k \in i..(j - 1) : s[k] \in S

\* Mutant of Unget: the character is not put back.
UngetNothing(s, i) == [at |-> IF s[i] < 0 THEN i ELSE i + 1, lost |-> 0]

\* lex_unget of the character at i, just read: where the lexer goes on.  stream_get
\* takes a zero byte in its buffer for the end of the buffer, so it is not read again,
\* though the position was taken back.
Unget(s, i) == IF s[i] = 0 THEN [at |-> i + 1, lost |-> 1] ELSE [at |-> i, lost |-> 0]

-----------------------------------------------------------------------------
(* The lexer: a token, its value, its text, and where the next one starts. *)

Token(type, value, text, at) == [type |-> type, value |-> value, text |-> text, at |-> at, lost |-> 0]
Bad(at) == Token(TokenInvalid, Nothing, <<>>, at)

\* Mutant of Until: the position is not taken back with the character.
UntilCounted(s, i, j, type, value) ==
    [type |-> type, value |-> value, text |-> SubSeq(s, i, j - 1), at |-> j, lost |-> IF s[j] < 0 THEN 0 ELSE -1]

\* What is before j, where the character read too much is put back.
Until(s, i, j, type, value) ==
    LET rest == Unget(s, j) IN
    [type |-> type, value |-> value, text |-> SubSeq(s, i, j - 1), at |-> rest.at, lost |-> rest.lost]

\* decode_unicode_escape, of four digits after the u at i.
HexValue(c) == IF c \in Digit THEN c - Zero ELSE IF c \in Lower THEN c - 97 + 10 ELSE c - 65 + 10
IsEscape(s, i) == i + 4 < Len(s) /\ s[i] = 117 /\ \A j \in (i + 1)..(i + 4) : s[j] \in HexDigit
DecodeEscape(s, i) ==
    FoldLeft(LAMBDA v, c : v * 16 + HexValue(c), 0, SubSeq(s, i + 1, i + 4))

HighSurrogate == 55296..56319
LowSurrogate == 56320..57343
Pair(high, low) == (high - 55296) * 1024 + (low - 56320) + 65536

Short(c) ==
    CASE c = 98 -> <<8>> [] c = 102 -> <<12>> [] c = 110 -> <<10>> [] c = 114 -> <<13>>
      [] c = 116 -> <<9>> [] c \in {Quote, Backslash, 47} -> <<c>> [] OTHER -> <<>>

\* Mutant of Unescaped: a high surrogate need not be followed by a low one.
UnescapedAlone(s, i) ==
    IF ~ IsEscape(s, i) THEN [bytes |-> Short(s[i]), at |-> i + 1]
    ELSE [bytes |-> IF DecodeEscape(s, i) \in LowSurrogate \cup {0} THEN <<>> ELSE Encode(DecodeEscape(s, i)),
          at |-> i + 5]

\* A code point's bytes, none if it is refused, and where the lexer goes on.
Decoded(code, i) ==
    [bytes |-> IF code \in LowSurrogate \cup HighSurrogate \cup {0} THEN <<>> ELSE Encode(code), at |-> i]

\* The unit of an escape that follows at i, if one does.
UnitAt(s, i) == IF i < Len(s) /\ s[i] = Backslash /\ IsEscape(s, i + 1) THEN DecodeEscape(s, i + 1) ELSE 0

\* A high surrogate is taken together with the low one behind it.
UnitBytes(i, unit, next) ==
    LET paired == unit \in HighSurrogate /\ next \in LowSurrogate
    IN Decoded(IF paired THEN Pair(unit, next) ELSE unit, IF paired THEN i + 6 ELSE i)

\* An escape after the backslash before i: the bytes it stands for, none if refused.
Unescaped(s, i) ==
    IF s[i] # 117 THEN [bytes |-> Short(s[i]), at |-> i + 1]
    ELSE IF IsEscape(s, i) THEN UnitBytes(i + 5, DecodeEscape(s, i), UnitAt(s, i + 5))
    ELSE [bytes |-> <<>>, at |-> i]

\* lex_scan_string, from the character i of the string that begins at `from`.
RECURSIVE ScanString(_, _, _, _), ScanBehind(_, _, _, _)
ScanString(s, from, i, value) ==
    IF s[i] = Quote THEN Token(TokenString, value, SubSeq(s, from, i), i + 1)
    ELSE IF s[i] < 32 THEN Bad(i)
    ELSE IF s[i] # Backslash THEN ScanString(s, from, i + 1, Append(value, s[i]))
    ELSE ScanBehind(s, from, Unescaped(s, i + 1), value)
ScanBehind(s, from, escape, value) ==
    IF escape.bytes = <<>> THEN Bad(escape.at)
    ELSE ScanString(s, from, escape.at, value \o escape.bytes)

\* Mutant of WholeEnd: a zero may be followed by digits.
WholeEndAny(s, i) == IF s[i] \in Digit THEN After(s, i, Digit) ELSE 0

\* lex_scan_number: where its parts end, 0 when one is not well formed.
WholeEnd(s, i) ==
    IF s[i] = Zero THEN (IF s[i + 1] \in Digit THEN 0 ELSE i + 1)
    ELSE IF s[i] \in Digit THEN After(s, i, Digit) ELSE 0
FractionEnd(s, i) ==
    IF s[i] # Dot THEN i ELSE IF s[i + 1] \in Digit THEN After(s, i + 1, Digit) ELSE 0
ExponentEnd(s, i) ==
    IF s[i] \notin {LowerE, UpperE} THEN i
    ELSE LET j == IF s[i + 1] \in {Plus, Minus} THEN i + 2 ELSE i + 1 IN
         IF s[j] \in Digit THEN After(s, j, Digit) ELSE 0

NumberEnd(s, whole) ==
    LET fraction == FractionEnd(s, whole)
    IN IF whole = 0 \/ fraction = 0 THEN 0 ELSE ExponentEnd(s, fraction)

Number(s, i, end, type, value) ==
    IF value = Refused THEN Bad(i)
    ELSE Until(s, i, end, type, IF type = TokenInteger THEN value[1] ELSE value)

ScanParts(s, i, whole, end) ==
    IF end = 0 THEN Bad(i)
    ELSE IF end = whole THEN Number(s, i, end, TokenInteger, Strtoll(SubSeq(s, i, end - 1)))
    ELSE Number(s, i, end, TokenReal, JsonpStrtod(SubSeq(s, i, end - 1)))
ScanWhole(s, i, whole) == ScanParts(s, i, whole, NumberEnd(s, whole))
ScanNumber(s, i) == ScanWhole(s, i, WholeEnd(s, IF s[i] = Minus THEN i + 1 ELSE i))

Word(text) ==
    CASE text = <<116, 114, 117, 101>> -> TokenTrue
      [] text = <<102, 97, 108, 115, 101>> -> TokenFalse
      [] text = <<110, 117, 108, 108>> -> TokenNull
      [] OTHER -> TokenInvalid

\* lex_scan, on the stream s from position i.
Scan(s, i) ==
    LET j == After(s, i, Blank)
        end == After(s, j, Alpha)
    IN CASE s[j] = Eof -> Token(TokenEof, Nothing, <<>>, j)
         [] s[j] \in {OpenObject, CloseObject, OpenArray, CloseArray, Colon, Comma} ->
              Token(s[j], Nothing, <<s[j]>>, j + 1)
         [] s[j] = Quote -> ScanString(s, j, j + 1, <<>>)
         [] s[j] \in Digit \cup {Minus} -> ScanNumber(s, j)
         [] s[j] \in Alpha -> Until(s, j, end, Word(SubSeq(s, j, end - 1)), Nothing)
         [] OTHER -> Bad(j)

-----------------------------------------------------------------------------
(* The parser: what each function returns, and the lexer behind it.  lost  *)
(* counts the zeros the lexer passed over without counting them.           *)

Return(value, lex, lost) == [value |-> value, lex |-> lex, lost |-> lost + lex.lost]
Failed == [value |-> Nothing]

KeysOf(members) == {members[i][1] : i \in DOMAIN members}

\* json_object_set_nocheck: a key that is there already keeps its serial.
SetMember(members, key, value) ==
    IF key \in KeysOf(members)
    THEN [i \in DOMAIN members |-> IF members[i][1] = key THEN <<key, value>> ELSE members[i]]
    ELSE Append(members, <<key, value>>)

\* Mutant of Duplicate: only the member before is compared.
DuplicateOfLast(members, key, flags) ==
    "reject_duplicates" \in flags /\ members # <<>> /\ key = Last(members)[1]

Duplicate(members, key, flags) == "reject_duplicates" \in flags /\ key \in KeysOf(members)

RECURSIVE ParseValue(_, _, _, _), ParseMembers(_, _, _, _, _), ParseElements(_, _, _, _, _)

\* parse_object, behind a member, and with lex where a key should be.
NextMember(s, lex, flags, lost, members) ==
    CASE lex.type = Comma -> ParseMembers(s, Scan(s, lex.at), flags, lost, members)
      [] lex.type = CloseObject -> Return(<<"object", members>>, lex, lost)
      [] OTHER -> Failed
AddMember(s, key, member, flags, lost, members) ==
    IF member.value = Nothing THEN Failed
    ELSE NextMember(s, Scan(s, member.lex.at), flags, lost + member.lost, SetMember(members, key, member.value))
ParseMember(s, key, colon, flags, lost, members) ==
    IF colon.type # Colon \/ Duplicate(members, key, flags) THEN Failed
    ELSE AddMember(s, key, ParseValue(s, Scan(s, colon.at), flags, 0), flags, lost, members)
ParseMembers(s, lex, flags, lost, members) ==
    IF lex.type # TokenString THEN Failed
    ELSE ParseMember(s, lex.value, Scan(s, lex.at), flags, lost, members)
ParseObject(s, lex, flags, lost) ==
    IF lex.type = CloseObject THEN Return(<<"object", <<>>>>, lex, lost)
    ELSE ParseMembers(s, lex, flags, lost, <<>>)

\* parse_array, behind an element, and with lex at the next one.
NextElement(s, lex, flags, lost, elements) ==
    CASE lex.type = Comma -> ParseElements(s, Scan(s, lex.at), flags, lost, elements)
      [] lex.type = CloseArray -> Return(<<"array", elements>>, lex, lost)
      [] OTHER -> Failed
AddElement(s, elem, flags, lost, elements) ==
    IF elem.value = Nothing THEN Failed
    ELSE NextElement(s, Scan(s, elem.lex.at), flags, lost + elem.lost, Append(elements, elem.value))
ParseElements(s, lex, flags, lost, elements) ==
    AddElement(s, ParseValue(s, lex, flags, 0), flags, lost, elements)
ParseArray(s, lex, flags, lost) ==
    IF lex.type = CloseArray THEN Return(<<"array", <<>>>>, lex, lost)
    ELSE ParseElements(s, lex, flags, lost, <<>>)

\* parse_value, with the lexer at the value's first token.
ParseValue(s, lex, flags, lost) ==
    LET real == JsonpStrtod(lex.text)
    IN CASE lex.type = TokenString -> Return(<<"string", lex.value>>, lex, lost)
         [] lex.type = TokenInteger ->
              IF "int_as_real" \notin flags THEN Return(<<"integer", lex.value>>, lex, lost)
              ELSE IF real = Refused THEN Failed ELSE Return(<<"real", real>>, lex, lost)
         [] lex.type = TokenReal -> Return(<<"real", lex.value>>, lex, lost)
         [] lex.type = TokenTrue -> Return(<<"true">>, lex, lost)
         [] lex.type = TokenFalse -> Return(<<"false">>, lex, lost)
         [] lex.type = TokenNull -> Return(<<"null">>, lex, lost)
         [] lex.type = OpenObject -> ParseObject(s, Scan(s, lex.at), flags, lost)
         [] lex.type = OpenArray -> ParseArray(s, Scan(s, lex.at), flags, lost)
         [] OTHER -> Failed

\* parse_json: the value and the position it reports, counted in bytes.
Result(value, at, lost) == [value |-> value, position |-> at - 1 - lost]
NoResult == Result(Nothing, 1, 0)
Ended(r, lex) == IF lex.type # TokenEof THEN NoResult ELSE Result(r.value, lex.at, r.lost)
ParseEnd(s, r, flags) ==
    IF r.value = Nothing THEN NoResult
    ELSE IF "no_eof_check" \in flags THEN Result(r.value, r.lex.at, r.lost)
    ELSE Ended(r, Scan(s, r.lex.at))
ParseJson(s, lex, flags) ==
    IF "decode_any" \notin flags /\ lex.type \notin {OpenArray, OpenObject} THEN NoResult
    ELSE ParseEnd(s, ParseValue(s, lex, flags, 0), flags)
ParseStream(s, flags) == ParseJson(s, Scan(s, 1), flags)
Load(text, flags) == ParseStream(Stream(text), flags)

Loads(text, flags) == Load(StringSource(text), flags)
LoadCallback(chunks, flags) == Load(ChunkSource(chunks), flags)
=============================================================================
