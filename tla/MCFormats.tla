-------------------------------- MODULE MCFormats --------------------------------
(* Small instances of Formats: every short text over the bytes that matter. *)
EXTENDS Formats

Strings(alphabet, n) == UNION {[1..k -> alphabet] : k \in 0..n}

LetterT == 116
Awkward == Strings({Quote, Bslash, LBrace, Comma, LetterT}, 2) \cup {<<RBrace, Bslash, Comma>>, NULL}

\* -1, 12, 3000000000, 1.5
MCNumbers ==
    LET N(v, text, types) == [val |-> <<v>>, text |-> text, types |-> types]
        Floats == {"float32", "float64"}
    IN  {N(1, <<45, 49>>, {"int32", "int64"} \cup Floats),
         N(2, <<49, 50>>, {"int32", "int64"} \cup Floats),
         N(3, <<51, 48, 48, 48, 48, 48, 48, 48, 48, 48>>, {"int64"} \cup Floats),
         N(4, <<49, 46, 53>>, Floats)}

Values(type) ==
    CASE type = "bool" -> {<<0>>, <<1>>}
      [] type = "bytea" -> {<<>>, <<0>>, <<Bslash, 255>>, <<Quote>>}
      [] type = "string" -> Awkward
      [] type \in {"generic", "fixed"} -> Awkward \cup {Nil}
      [] OTHER -> {n.val : n \in {m \in MCNumbers : type \in m.types}}

MCNestedArrays ==
    LET rows(n) == [1..n -> {Nil, <<>>, <<Quote>>, <<Comma, RBrace>>}]
    IN  {<<r, q>> : r \in rows(1), q \in rows(1)} \cup {<<r, q>> : r \in rows(2), q \in rows(2)}

MCGivenArrays ==
    {[type |-> type, val |-> NilArray] : type \in ArrayTypes \ {"nested"}}
    \cup UNION {{[type |-> type, val |-> v] : v \in Strings(Values(type), 2)}
                : type \in LinearTypes \cup {"generic", "fixed"}}

MCDelimiters == {<<Comma>>, <<LetterT, Comma>>}

\* Every text that opens a bracket, and some that do not.
MCSources ==
    {<<LBrace>> \o s : s \in Strings({LBrace, RBrace, Quote, Comma, LetterT}, 5)}
    \cup {<<LBrace>> \o s : s \in Strings({Bslash, Quote, RBrace}, 4)}
    \cup {<<>>, <<LetterT>>, <<LBrace>> \o NULL \o <<RBrace>>,
          <<LBrace, LBrace, LetterT, Comma, LetterT, RBrace, Comma, LBrace, LetterT, RBrace, RBrace>>}

MCReadAs == {"string", "bytea", "fixed", "int32"}

MCRows ==
    LET text == {[type |-> "text", val |-> s] :
                    s \in Strings({Bslash, Newline, Tab, Return, 78}, 2)}
        bytes == {[type |-> "bytes", val |-> s] : s \in {<<>>, <<Bslash>>, <<0, 65>>, <<255, 48>>}}
        value == text \cup bytes \cup {[type |-> "nil", val |-> <<>>]}
    IN  {<< <<x, y>>, <<y>> >> : x \in value, y \in value}

MCByteas == Strings({0, 7, 48, 65, Bslash, 200, 255}, 3)
MCNames == Strings({Quote, Apostrophe, Bslash, Space, 69}, 4) \cup Strings({0, Quote, 69}, 3)

MCSettings ==
    LET value == Strings({Apostrophe, Bslash, Space, Equals}, 3) \ {<<>>}
    IN  {{<< <<107>>, v>>} : v \in value}
        \cup {{<< <<107>>, v>>, << <<108>>, <<Equals, Apostrophe>> >>} : v \in value}

MCEntries ==
    LET part == Strings({Bslash, Colon, Hash, Space, LetterT}, 2)
    IN  {<<p, <<53>>, <<Star>>, <<LetterT>>, q>> : p \in part, q \in part}

\* A 29th of February is in leap years only.
MCTimestamps ==
    {t \in [year : {-4, -1, 0, 1, 2024, 12345}, month : {2, 12}, day : {1, 29},
            hour : {0, 23}, minute : {59}, second : {7}, nano : {0, 1, 120000000},
            off : {0, 30, -30, 3600, -3630, 20700}, ok : {TRUE}] :
         t.month = 2 /\ t.day = 29 => t.year \in {-4, 0, 2024}}
================================================================================
