--------------------------------- MODULE Arrays ---------------------------------
(***************************************************************************)
(* The array types (array.go): what their Value writes, and what their     *)
(* Scan makes of the elements that parseArray finds.  Elements are byte    *)
(* strings, booleans <<1>> and <<0>>, and numbers whatever Numbers lists:  *)
(* strconv is not in src/.                                                 *)
(***************************************************************************)
EXTENDS ArrayText

CONSTANTS
    Numbers,        \* of records: val, its text, and the types it fits in
    FixedLength     \* of the Go array that GenericArray fills

LinearTypes == {"bool", "bytea", "int32", "int64", "float32", "float64", "string"}
GenericTypes == {"generic", "fixed", "nested"}
ArrayTypes == LinearTypes \cup GenericTypes

NilArray == << <<-3>> >>                \* a nil slice

\* strconv writes a number in one way, and reads as that number what it has written.
ASSUME NumbersAssumption ==
    /\ \A n \in Numbers :
           /\ n.text \in Seq(Byte \ {Comma, Quote, LBrace, RBrace}) \ {<<>>, NULL}
           /\ n.types \subseteq LinearTypes
    /\ \A m, n \in Numbers : m.val = n.val \/ m.text = n.text => m = n
ASSUME FixedLengthAssumption == FixedLength \in Nat

(* Mistakes the code could have made, as mutated forms for the properties.   *)
QuotesOnly == {Quote}                   \* a backslash in an element is not escaped

--------------------------------------------------------------------------------

Escaped == {Quote, Bslash}

AppendArrayQuotedBytes(v) ==
    LET Escape(c) == IF c \in Escaped THEN <<Bslash, c>> ELSE <<c>>
    IN  <<Quote>> \o Each(v, Escape) \o <<Quote>>

AppendArrayElement(v) == IF v = Nil THEN NULL ELSE AppendArrayQuotedBytes(v)

\* appendArray: the delimiter is that of the element before; an empty array has none,
\* and no text.
Brackets(parts, delimiter) ==
    LET Separator(k) == IF k > 1 /\ parts[k - 1] # <<>> THEN delimiter ELSE <<>>
    IN  <<LBrace>> \o FlattenSeq([k \in DOMAIN parts |-> Separator(k) \o parts[k]])
        \o <<RBrace>>

NumberText(v) == (CHOOSE n \in Numbers : n.val = v).text

ElementText(type, v) ==
    CASE type = "bool" -> IF v = <<1>> THEN <<116>> ELSE <<102>>
      [] type = "bytea" -> <<Quote, Bslash, Bslash, 120>> \o Each(v, Hex) \o <<Quote>>
      [] type = "string" -> AppendArrayQuotedBytes(v)
      [] OTHER -> NumberText(v)

\* Value: Nil for a nil slice; "nested" is an array of arrays, for any depth.
ArrayValue(type, v, delimiter) ==
    LET Inner(x) ==
            IF x = <<>> THEN <<>>
            ELSE Brackets([k \in DOMAIN x |-> AppendArrayElement(x[k])], delimiter)
        Part(x) == CASE type = "nested" -> Inner(x)
                     [] type \in {"generic", "fixed"} -> AppendArrayElement(x)
                     [] OTHER -> ElementText(type, x)
    IN  IF v = NilArray THEN Nil ELSE Brackets([k \in DOMAIN v |-> Part(v[k])], delimiter)

\* What one element is read as: at most one value, none for an error.  A nil slice
\* of bytes is a bytea that is NULL; the other types refuse NULL.
ScanElement(type, e) ==
    CASE type = "bool" -> IF e = <<116>> THEN {<<1>>} ELSE IF e = <<102>> THEN {<<0>>} ELSE {}
      [] type = "bytea" -> IF e = Nil THEN {Nil} ELSE {ParseBytea(e)} \ {Error}
      [] type = "string" -> {e} \ {Nil}
      [] type \in GenericTypes -> {e}
      [] OTHER -> {n.val : n \in {m \in Numbers : m.text = e /\ type \in m.types}}

\* Scan of what was parsed: the value, or none.
ScanArray(type, length, texts) ==
    LET read == [k \in DOMAIN texts |-> ScanElement(type, texts[k])]
        dim == IF length = <<>> THEN 0 ELSE length[1]
        value == [k \in DOMAIN texts |-> CHOOSE v \in read[k] : TRUE]
    IN  IF \/ Len(length) > 1
           \/ type = "fixed" /\ dim # FixedLength
           \/ \E k \in DOMAIN texts : read[k] = {}
        THEN {}
        ELSE IF type \in GenericTypes THEN {SubSeq(value, 1, dim)} ELSE {value}
================================================================================
