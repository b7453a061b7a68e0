----------------------------- MODULE JsonBytes ------------------------------
(***************************************************************************)
(* The bytes of Jansson: those of a string, next to the Unicode standard's *)
(* table, and those that its buffer has room for.                          *)
(***************************************************************************)
EXTENDS Utf8, Inputs

CONSTANTS SizeMax       \* of Strbuffer

ASSUME SizeAssumption == SizeMax \in Nat \ {0}

Buffer == INSTANCE Strbuffer

\* What an input of these kinds is.
Byte == 0..255
AreBytes ==
    /\ Kind("bytes") => Parts \in Seq(Byte)
    /\ Kind("sizes") => Parts \in Seq(0..SizeMax)

\* utf8_check_string accepts exactly the well-formed sequences of the Unicode standard,
\* and what utf8_iterate reads, utf8_encode writes (utf.c).
Utf8IsItsTable ==
    Kind("bytes") =>
        /\ CheckString(Parts) <=> IsUtf8(Parts)
        /\ Parts # <<>> /\ CharAt(Parts, 1) = Parts => Encode(CodePoint(Parts)) = Parts

\* Whatever is appended to a buffer of whatever size, the copy stays inside
\* (strbuffer_append_bytes).
AppendsStayInside ==
    Kind("sizes") /\ Len(Parts) = 3 =>
        Buffer!Fits([size |-> Parts[1], length |-> Parts[2]], Parts[3])

\* Jansson takes a string for UTF-8 if it is, and its buffer holds what it is given.
BytesAreSound == Utf8IsItsTable /\ AppendsStayInside
=============================================================================
