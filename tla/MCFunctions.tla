---------------------------- MODULE MCFunctions -----------------------------
(***************************************************************************)
(* The functions of the program that compute and keep nothing, on every    *)
(* input of a bounded size.  An input is put together part by part, so     *)
(* every part of an input is one too; each invariant is about the inputs   *)
(* of one kind.                                                            *)
(***************************************************************************)
EXTENDS JsonDump, JsonPack, JsonBytes, MinerWords

hashVars == <<shaVars, fips>>

Full == INSTANCE Keccak WITH Rate <- 136        \* the sponge with its own rate

Text == FlattenSeq(Parts)

MCDigests == [1..NumBytes -> {0, 1, 15, 16, 144, 159, 175, 255}]

-----------------------------------------------------------------------------
(* The inputs.                                                             *)

KeyA == <<34, 97, 34, 58>>
True == <<116, 114, 117, 101>>
StructureParts == {<<91>>, <<93>>, <<44>>, <<123>>, <<125>>, KeyA, <<49>>, <<32>>}
NumberParts == {<<48>>, <<49>>, <<45>>, <<43>>, <<46>>, <<101>>}
ZeroParts == {<<91>>, <<93>>, <<44>>, <<49>>, True, <<34>>, <<0>>}
MemberParts == {KeyA \o <<49>>, <<34, 98, 34, 58, 50>>, KeyA \o <<123>> \o KeyA \o <<51, 125>>}
UnitParts == {0, 65, 233, 8364, 55296, 56319, 56320, 57343}
ByteParts == {65, 128, 143, 144, 159, 160, 191, 192, 193, 194, 224, 237, 240, 244, 245}
Strings == {<<>>, <<97>>, <<97, 47, 92, 10, 1>>, <<195, 169>>, <<226, 130, 172, 97>>, <<240, 159, 152, 128>>}
LeafParts ==
    {<<"true">>, <<"null">>, <<"integer", -IntMax - 1>>, <<"array", <<>>>>, <<"real", <<5, 0>>>>,
     <<"real", <<-125, -8>>>>, <<"real", <<1, 12>>>>, <<"real", <<3, -10>>>>,
     <<"object", << <<<<98>>, <<"false">>>>, <<<<>>, <<"integer", 0>>>> >> >>}
    \cup {<<"string", s>> : s \in Strings}
Keys == << <<97, 98>>, <<97>>, <<195, 169>> >>
FlagSets ==
    {{}, {"indent", "preserve_order"}, {"compact", "ensure_ascii"}, {"sort_keys", "escape_slash"}}
PackParts == {"{", "}", "[", "]", "s", "i", "#", "+", ","}
UnpackParts ==
    {<<"{">>, <<"}">>, <<"[">>, <<"]">>, <<"i">>, <<"s", "i">>, <<"s", "?", "i">>, <<"s", "?", "{">>, <<"!">>}

PartsOf(kind) ==
    CASE kind = "structure" -> StructureParts [] kind = "number" -> NumberParts
      [] kind = "zeros" -> ZeroParts [] kind = "members" -> MemberParts [] kind = "units" -> UnitParts
      [] kind = "bytes" -> ByteParts [] kind = "array" -> LeafParts [] kind = "object" -> LeafParts
      [] kind = "message" -> { {}, {0, 7} } [] kind = "word" -> 0..63 [] kind = "filter" -> { {}, {0}, {31} }
      [] kind = "target" -> {48, 49, 57, 70, 97}
      [] kind = "sizes" -> 0..SizeMax [] kind = "pack" -> PackParts [] kind = "unpack" -> UnpackParts

Limit(kind) ==
    CASE kind = "structure" -> 5 [] kind = "number" -> 6 [] kind = "zeros" -> 5 [] kind = "members" -> 3
      [] kind = "units" -> 3 [] kind = "bytes" -> 4 [] kind = "array" -> 2 [] kind = "object" -> 3
      [] kind = "message" -> 2 * Rate + 1 [] kind = "word" -> 2 [] kind = "filter" -> 4
      [] kind = "target" -> 2 * NumBytes
      [] kind = "sizes" -> 3 [] kind = "pack" -> 5 [] kind = "unpack" -> 5 [] OTHER -> 0

KindsOfInput ==
    {"structure", "number", "zeros", "members", "units", "bytes", "array", "object", "sizes", "pack", "unpack",
     "message", "word", "filter", "target"}

NoHash ==
    /\ words = <<>> /\ hashes = 0 /\ block = 2 /\ in = <<>> /\ state = <<>> /\ reg = <<>> /\ step = 0 /\ fips = <<>>
NoLanes == lanes = <<>> /\ round = Sponge!Rounds

\* Ten bytes' worth of lanes of the header of a challenge, and four of a digest.
Lanes(n) == {<<>> \o [i \in 1..n |-> {}], <<>> \o [i \in 1..n |-> {i, 63 - i}]}
EmptyMessage == Full!LanesOf(Full!Absorbed(<<>>)[1])

\* The first block of Bitcoin, whose double hash has 43 zeros in front, and one like it.
Genesis == Table(<<
    <<256, 0>>, <<0, 0>>, <<0, 0>>, <<0, 0>>, <<0, 0>>, <<0, 0>>, <<0, 0>>,
    <<0, 0>>, <<0, 0>>, <<15267, 60925>>, <<31355, 4786>>, <<31431, 11326>>, <<26486, 36705>>, <<32712, 7107>>,
    <<34954, 20786>>, <<15007, 47274>>, <<19230, 24138>>, <<10667, 24393>>, <<65535, 29>>, <<7596, 11132>> >>)
Headers == {Genesis, [Genesis EXCEPT ![20] = Xor(@, {0})]}

\* What BytesAreSound, KeccakIsFips202 and WordsKeepTheirValue are about.
ASSUME InputAssumption ==
    /\ PartsOf("bytes") \subseteq Byte /\ PartsOf("sizes") = 0..SizeMax
    /\ PartsOf("word") = 0..63 /\ PartsOf("filter") \subseteq SUBSET (0..31)
    /\ \A m \in Lanes(10) : m \in [1..10 -> Sponge!Lane] /\ Sponge!PaddedMessage80(m) \in Sponge!State
    /\ PartsOf("target") \subseteq HexCharacters /\ Limit("target") = 2 * NumBytes

Input(kind, flags, parts) == input = [kind |-> kind, flags |-> flags, parts |-> parts]
FunctionsInit ==
    \/ /\ \E kind \in KindsOfInput : \E flags \in (IF kind \in {"array", "object"} THEN FlagSets ELSE {{}}) :
            Input(kind, flags, <<>>)
       /\ NoLanes /\ NoHash
    \/ \E m \in Lanes(10) : Input("header", {}, m) /\ round = 0 /\ lanes = Sponge!PaddedMessage80(m) /\ NoHash
    \/ \E m \in Lanes(4) : Input("digest", {}, m) /\ round = 0 /\ lanes = Sponge!PaddedMessage32(m) /\ NoHash
    \/ Input("empty", {}, <<>>) /\ round = 0 /\ lanes = EmptyMessage /\ NoHash
    \/ Input("block", {}, <<>>) /\ NoLanes /\ HeaderInit(Headers)

\* One more part; one more step of a hash.
FunctionsNext ==
    \/ /\ Len(Parts) < Limit(input.kind)
       /\ \E part \in PartsOf(input.kind) : input' = [input EXCEPT !.parts = Append(@, part)]
       /\ UNCHANGED <<keccakVars, hashVars>>
    \/ Sponge!NextRound /\ UNCHANGED <<input, hashVars>>
    \/ HeaderNext /\ UNCHANGED <<input, keccakVars>>

FunctionsSpec ==
    FunctionsInit
    /\ [][FunctionsNext]_<<input, keccakVars, hashVars>>

-----------------------------------------------------------------------------
(* What a JSON text is, by the grammar of RFC 4627.                        *)

Stripped(t) ==
    LET ink == {i \in DOMAIN t : t[i] \notin {32, 9, 10, 13}} IN
    IF ink = {} THEN <<>> ELSE SubSeq(t, Min(ink), Max(ink))

AllDigits(t) == t # <<>> /\ \A i \in DOMAIN t : t[i] \in 48..57
IsWhole(t) == AllDigits(t) /\ (t[1] = 48 => Len(t) = 1)
IsFraction(t) == t = <<>> \/ (t[1] = 46 /\ AllDigits(Tail(t)))
IsExponent(t) ==
    \/ t = <<>>
    \/ t[1] \in {69, 101} /\ (AllDigits(Tail(t)) \/ (Len(t) > 2 /\ t[2] \in {43, 45} /\ AllDigits(SubSeq(t, 3, Len(t)))))
IsUnsigned(t) ==
    \E i \in 0..Len(t) : \E j \in i..Len(t) :
        IsWhole(SubSeq(t, 1, i)) /\ IsFraction(SubSeq(t, i + 1, j)) /\ IsExponent(SubSeq(t, j + 1, Len(t)))
IsNumber(t) == t # <<>> /\ IsUnsigned(IF t[1] = 45 THEN Tail(t) ELSE t)
IsPlainString(t) ==
    Len(t) > 1 /\ t[1] = 34 /\ Last(t) = 34 /\ \A i \in 2..(Len(t) - 1) : t[i] >= 32 /\ t[i] \notin {34, 92}

RECURSIVE IsValue(_), IsElements(_), IsMembers(_)
IsMember(t) ==
    \E i \in DOMAIN t :
        t[i] = 58 /\ IsPlainString(Stripped(SubSeq(t, 1, i - 1))) /\ IsValue(Stripped(SubSeq(t, i + 1, Len(t))))
IsMembers(t) ==
    \/ IsMember(t)
    \/ \E i \in DOMAIN t : t[i] = 44 /\ IsMember(SubSeq(t, 1, i - 1)) /\ IsMembers(SubSeq(t, i + 1, Len(t)))
IsElements(t) ==
    \/ IsValue(Stripped(t))
    \/ \E i \in DOMAIN t :
         t[i] = 44 /\ IsValue(Stripped(SubSeq(t, 1, i - 1))) /\ IsElements(SubSeq(t, i + 1, Len(t)))
Within(t, open, close, Inside(_)) ==
    /\ Len(t) > 1 /\ t[1] = open /\ Last(t) = close
    /\ LET inner == SubSeq(t, 2, Len(t) - 1) IN Stripped(inner) = <<>> \/ Inside(inner)
IsValue(t) ==
    \/ t = True \/ IsNumber(t) \/ IsPlainString(t)
    \/ Within(t, 91, 93, IsElements) \/ Within(t, 123, 125, IsMembers)

-----------------------------------------------------------------------------
(* What load.c promises.                                                   *)

AnyValue == {"decode_any"}
Prefix == {"decode_any", "no_eof_check"}
Accepted(t, flags) == Load(t, flags).value # Nothing

\* json_loadb accepts the texts of the grammar and no other, arrays and objects only
\* unless it is told otherwise (load.c, parse_json and what it calls).
GrammarIsAccepted ==
    Kind("structure") =>
        /\ Accepted(Text, AnyValue) <=> IsValue(Stripped(Text))
        /\ Accepted(Text, {}) <=>
             (IsValue(Stripped(Text)) /\ Stripped(Text)[1] \in {OpenArray, OpenObject})

\* A number is read if it is one of the grammar that fits, to the end of the text; it is
\* an integer if it has neither a fraction nor an exponent (lex_scan_number).
IsTheNumber(v) ==
    LET whole == {46, 101} \cap Range(Text) = {}
        fits == IF whole THEN Strtoll(Text) # Refused ELSE JsonpStrtod(Text) # Refused
    IN (v # Nothing <=> IsNumber(Text) /\ fits) /\ (v # Nothing => (v[1] = "integer" <=> whole))
NumbersAreAccepted == Kind("number") => IsTheNumber(Load(Text, AnyValue).value)

\* The position that json_loadb reports with JSON_DISABLE_EOF_CHECK is where the value
\* ends: that much of the text, loaded alone, is the same value (parse_json).
EndsAtItsPosition(r) ==
    r.value # Nothing => Load(SubSeq(Text, 1, r.position), AnyValue).value = r.value
PositionEndsTheValue ==
    Kind("structure") \/ Kind("number") => EndsAtItsPosition(Load(Text, Prefix))

\* A zero byte does not get into a value, and gets by unseen only right behind a number
\* or a word, whose end the lexer sees by reading one byte more (stream_get, stream_unget).
ZerosDoNotCount(v) ==
    v # Nothing =>
        /\ \A i \in DOMAIN Text : Text[i] = 0 => i > 1 /\ Text[i - 1] \in Digit \cup Alpha
        /\ Load(SelectSeq(Text, LAMBDA c : c # 0), AnyValue).value = v
ZerosPassOnlyBehindWords ==
    Kind("zeros") => ZerosDoNotCount(Load(Text, AnyValue).value)

\* With JSON_REJECT_DUPLICATES no member is lost; without, the last one of a key is
\* kept, at the place of the first (parse_object, json_object_set_nocheck).
Members ==
    <<OpenObject>> \o FoldLeft(LAMBDA x, y : x \o <<Comma>> \o y, Parts[1], Tail(Parts)) \o <<CloseObject>>
Key(i) == Parts[i][2]
LastOnesAreKept(members) ==
    /\ members[1][1] = <<Key(1)>>
    /\ \A i \in DOMAIN Parts :
         (\A j \in (i + 1)..Len(Parts) : Key(j) # Key(i)) =>
             \E m \in Range(members) :
                 m = <<<<Key(i)>>, Load(SubSeq(Parts[i], 5, Len(Parts[i])), AnyValue).value>>
DuplicatesAreSeen ==
    Kind("members") /\ Parts # <<>> =>
        /\ Accepted(Members, {"reject_duplicates"}) <=> \A i, j \in DOMAIN Parts : i # j => Key(i) # Key(j)
        /\ LastOnesAreKept(Load(Members, {}).value[2])

\* A string of \u escapes is the UTF-8 of what its UTF-16 code units stand for, and is
\* refused if a surrogate is alone or a unit is zero (lex_scan_string).
EscapesAreUtf16 ==
    Kind("units") =>
        LET v == Load(<<Quote>> \o FlattenSeq([i \in DOMAIN Parts |-> Escape(Parts[i])]) \o <<Quote>>, AnyValue).value
            High(i) == i \in DOMAIN Parts /\ Parts[i] \in 55296..56319
            Low(i) == i \in DOMAIN Parts /\ Parts[i] \in 56320..57343
            Bytes(i) == IF Low(i) THEN <<>>
                        ELSE IF High(i) THEN Encode(65536 + 1024 * (Parts[i] % 1024) + (Parts[i + 1] % 1024))
                        ELSE Encode(Parts[i])
        IN v = IF \A i \in DOMAIN Parts : Parts[i] # 0 /\ (High(i) <=> Low(i + 1)) /\ (Low(i) <=> High(i - 1))
               THEN <<"string", FlattenSeq([i \in DOMAIN Parts |-> Bytes(i)])>>
               ELSE Nothing

-----------------------------------------------------------------------------
(* What dump.c promises.                                                   *)

\* The members of every object in the order of their keys: json_equal is equality here.
RECURSIVE Canonical(_)
Canonical(json) ==
    CASE json[1] = "array" -> <<"array", [i \in DOMAIN json[2] |-> Canonical(json[2][i])]>>
      [] json[1] = "object" ->
           LET members == SortSeq(json[2], LAMBDA m, n : Before(m[1], n[1])) IN
           <<"object", [i \in DOMAIN members |-> <<members[i][1], Canonical(members[i][2])>>]>>
      [] OTHER -> json

Json ==
    IF Kind("array") THEN <<"array", Parts>>
    ELSE <<"object", [i \in DOMAIN Parts |-> <<Keys[i], Parts[i]>>]>>
Dumped == Dump(Json, input.flags)

\* What json_dumps writes, json_loads reads as an equal value, reals as reals and in the
\* order of the original if that was asked for (do_dump, dump_string, jsonp_dtostr).
\* The exception are subnormal reals: jsonp_dtostr writes them like any other, and
\* jsonp_strtod, which takes any report of strtod for an overflow, refuses the text.
IsReadBack(v) ==
    /\ v # Nothing /\ Canonical(v) = Canonical(Json)
    /\ "preserve_order" \in input.flags => v = Json
IsSubnormal(x) == x[1] # 0 /\ Magnitude(x) \in (-SubExp)..(-MinExp - 1)
LoadsWhatItDumped ==
    Kind("array") \/ Kind("object") =>
        LET v == Loads(Dumped, {}).value IN
        IF \E leaf \in Range(Parts) : leaf[1] = "real" /\ IsSubnormal(leaf[2])
        THEN v = Nothing ELSE IsReadBack(v)

\* JSON_ENSURE_ASCII leaves nothing but ASCII (dump_string).
AsciiOnly ==
    Kind("array") \/ Kind("object") =>
        ("ensure_ascii" \in input.flags => \A i \in DOMAIN Dumped : Dumped[i] < 128)

\* With JSON_SORT_KEYS equal objects have equal dumps, in whatever order their members
\* were set (do_dump, object_key_compare_keys).
SortedDumpsAreCanonical ==
    Kind("object") /\ "sort_keys" \in input.flags =>
        Dump(<<"object", Reverse(Json[2])>>, input.flags) = Dumped

-----------------------------------------------------------------------------
(* What pack_unpack.c promises.                                            *)

TwoStrings == << <<97>>, <<98>>, <<99>>, <<100>>, <<101>> >>
FlatObjects ==
    {<<"object", <<>>>>, <<"object", << <<<<97>>, <<"integer", 1>>>> >> >>,
     <<"object", << <<<<97>>, <<"integer", 1>>>>, <<<<98>>, <<"integer", 2>>>> >> >>}
Roots == FlatObjects \cup
    {<<"object", << <<<<97>>, <<"object", << <<<<98>>, <<"integer", 1>>>> >> >>>> >> >>,
     <<"array", << <<"integer", 1>> >> >>}

\* The keys of a value and of what is in it, in order, and what is no array and no object.
RECURSIVE KeysIn(_), LeavesIn(_)
KeysIn(json) ==
    CASE json[1] = "array" -> FlattenSeq([i \in DOMAIN json[2] |-> KeysIn(json[2][i])])
      [] json[1] = "object" -> FlattenSeq([i \in DOMAIN json[2] |-> <<json[2][i][1]>> \o KeysIn(json[2][i][2])])
      [] OTHER -> <<>>
LeavesIn(json) ==
    CASE json[1] = "array" -> FlattenSeq([i \in DOMAIN json[2] |-> LeavesIn(json[2][i])])
      [] json[1] = "object" -> FlattenSeq([i \in DOMAIN json[2] |-> LeavesIn(json[2][i][2])])
      [] OTHER -> <<json>>

StringLists == {TwoStrings, << <<195, 169>>, <<97>> >>, << <<97>>, NullString >>}

\* Neither json_pack nor json_unpack reads the format behind its end, though read_string
\* looks ahead past it and puts the token back (next_token, prev_token).
FormatIsNotOverrun ==
    /\ Kind("pack") => \A strings \in StringLists : JsonPack(Parts, strings).sc.token # "overrun"
    /\ Kind("unpack") =>
         \A root \in {<<"object", <<>>>>, <<"integer", 1>>} :
             JsonUnpack(root, Text, {}, TwoStrings).sc.token # "overrun"

\* A value that json_pack built is taken apart by json_unpack with the same format, even
\* a strict one, into what it was built from, argument for argument (pack, unpack).
GivesAll(p, u) == u.ok /\ u.out = LeavesIn(p.value) /\ Len(u.sc.asked) = Len(p.sc.asked)
IsTakenApart(p) ==
    p.value # Nothing =>
        GivesAll(p, JsonUnpack(p.value, Parts, {"strict"}, KeysIn(p.value) \o <<NullString>>))
UnpacksWhatItPacked ==
    Kind("pack") /\ {"#", "+"} \cap Range(Parts) = {} =>
        IsTakenApart(JsonPack(Parts, TwoStrings))

\* Which arguments json_unpack takes depends on the format alone, not on what there is
\* in the value: a target never stands for another one (unpack_object, unpack).
ArgumentsDoNotDependOnTheValue ==
    Kind("unpack") =>
        LET done == {r \in {JsonUnpack(root, Text, {}, TwoStrings) : root \in Roots} : r.ok} IN
        Cardinality({r.sc.asked : r \in done}) < 2

\* When json_unpack is strict about an object, it succeeds only if it has taken every
\* member, but for one that each optional key the object lacks makes up for: unpack_object
\* counts the different keys it was given, there or not (unpack_object and its key_set).
StrictUnpacksEverything ==
    Kind("unpack") /\ Text # <<>> /\ Text[1] = "{" =>
        \A root \in FlatObjects : \A strings \in {TwoStrings, << <<97>> >>, << <<99>>, <<97>> >>} :
            LET r == JsonUnpack(root, Text, {"strict"}, strings)
                asked == Len(SelectSeq(r.sc.asked, LAMBDA k : k = "string"))
                named == {strings[1 + ((n - 1) % Len(strings))] : n \in 1..asked}
                left == {m \in Range(root[2]) : m[2] \notin Range(r.out)}
            IN r.ok => Cardinality(left) <= Cardinality(named \ KeysOf(root[2]))

-----------------------------------------------------------------------------
(* What the hashes promise.                                                *)

\* The constants of the rounds are those of the standard (RC).
ConstantsAreRight == round < Sponge!Rounds => Sponge!RC[round + 1] = Sha3!RoundConstant(round)

\* The blocks that the two sponges absorb are the message and its padding, whatever its
\* length, one byte short of a block included (hash, crypto_hash); and what the kernels
\* begin with is the one block of a message of 80 or 32 bytes.
PaddingIsThatOfTheSponge ==
    LET BytesOf(m) == [i \in 1..8 * Len(m) |-> Cuda!Bytes(m[((i - 1) \div 8) + 1], (i - 1) % 8)] IN
    /\ Kind("message") =>
         /\ Sponge!Absorbed(Parts) = Sha3!Blocks(Parts, Rate)
         /\ Sponge!CryptoAbsorbed(Parts) = Sha3!Blocks(Parts, Rate)
    /\ (Kind("header") \/ Kind("digest")) /\ round = 0 =>
         LET blocks == Sha3!Blocks(BytesOf(Parts), 136) IN Len(blocks) = 1 /\ lanes = Full!LanesOf(blocks[1])

\* The digest of nothing is the well-known one, and of the two headers the kernel of
\* sha256d reports the one that a miner has found (keccakf, sha256d_gpu_hash_shared).
KnownDigests ==
    /\ Kind("empty") /\ round = Sponge!Rounds =>
         Cuda!Bytes(lanes[1], 0) = {0, 2, 6, 7} /\ Cuda!Bytes(lanes[4], 7) = {4, 5, 6}
    /\ Kind("block") /\ block = hashes + 1 =>
         (Reports(state, <<WordOf(65535, 0), {}>>) <=> words = Genesis /\ hashes = 2)

-----------------------------------------------------------------------------
(* What is checked of each part, together.                                 *)

\* load.c reads the texts of the grammar, their numbers, strings and members, as what
\* they stand for, and nothing else; what dump.c writes it reads back as what it was, in
\* ASCII or in a canonical order if that was asked for; and json_pack and json_unpack
\* agree about a format, about its end and its arguments.
TextsAreJson ==
    /\ GrammarIsAccepted /\ NumbersAreAccepted /\ PositionEndsTheValue /\ ZerosPassOnlyBehindWords
    /\ DuplicatesAreSeen /\ EscapesAreUtf16
    /\ LoadsWhatItDumped /\ AsciiOnly /\ SortedDumpsAreCanonical
    /\ FormatIsNotOverrun /\ UnpacksWhatItPacked /\ ArgumentsDoNotDependOnTheValue /\ StrictUnpacksEverything

\* What is hashed, and with which constants, is what the standard says, and the digests
\* that Keccak and SHA-256 end with are the known ones.
DigestsAreTheStandards == ConstantsAreRight /\ PaddingIsThatOfTheSponge /\ KnownDigests
=============================================================================
