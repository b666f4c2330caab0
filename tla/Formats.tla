--------------------------------- MODULE Formats ---------------------------------
(***************************************************************************)
(* Every format that the driver writes or reads, as one conversation: a    *)
(* value is given, its writer makes the text, and the reader at the other  *)
(* end takes it.  Arrays are read by the steps of ArrayText, the others    *)
(* are functions of the text.                                              *)
(***************************************************************************)
EXTENDS Arrays

CONSTANTS
    GivenArrays,    \* of records: type, val
    NestedArrays,   \* arrays of arrays
    ReadAs,         \* the array types that the texts of Sources are read as
    Rows,           \* for COPY: sequences of records [type, val]
    Byteas, Names, Settings, Entries, Timestamps

VARIABLES
    given,          \* kind, val and what the kind needs besides
    result,         \* what was read: of the type of val
    read            \* "no", "yes" or "failed"

fvars == <<vars, given, result, read>>

ArrayElement(type) ==
    CASE type = "bool" -> {<<0>>, <<1>>}
      [] type \in {"bytea", "string"} -> Seq(Byte)
      [] type \in GenericTypes -> Seq(Byte) \cup {Nil}
      [] OTHER -> {n.val : n \in {m \in Numbers : type \in m.types}}
CopyValue == [type : {"nil", "text", "bytes"}, val : Seq(Byte)]

\* Exec of a COPY without values ends it: no row is empty.
ASSUME RowsAssumption == Rows \subseteq Seq(Seq(CopyValue) \ {<<>>})
ASSUME ArraysAssumption ==
    /\ \A a \in GivenArrays :
           a.type \in ArrayTypes \ {"nested"} /\ a.val \in Seq(ArrayElement(a.type)) \cup {NilArray}
    /\ NestedArrays \subseteq Seq(Seq(Seq(Byte) \cup {Nil}))
ASSUME BytesAssumption == Byteas \subseteq Seq(Byte) /\ Names \subseteq Seq(Byte)

Written(g, delimiter) ==
    CASE g.kind = "array" -> ArrayValue(g.type, g.val, delimiter)
      [] g.kind = "text" -> g.val
      [] g.kind = "copy" -> FlattenSeq([k \in DOMAIN g.val |-> CopyRow(g.val[k])])
      [] g.kind = "bytea" -> EncodeBytea(g.hex, g.val)
      [] g.kind = "identifier" -> QuoteIdentifier(g.val)
      [] g.kind = "literal" -> QuoteLiteral(g.val)
      [] g.kind = "settings" -> Accrue(g.val)
      [] g.kind = "entry" -> WriteLine(g.val)
      [] g.kind = "written_time" -> FormatTimestamp(g.val)
      [] g.kind = "server_time" -> ServerTimestamp(g.val)

IsArray == given.kind \in {"array", "text"}

\* Element types with a delimiter of their own are generic.
FInit ==
    /\ \/ \E a \in GivenArrays : given = [kind |-> "array", type |-> a.type, val |-> a.val]
       \/ \E a \in NestedArrays : given = [kind |-> "array", type |-> "nested", val |-> a]
       \/ \E t \in ReadAs, s \in Sources : given = [kind |-> "text", type |-> t, val |-> s]
       \/ \E r \in Rows : given = [kind |-> "copy", val |-> r]
       \/ \E h \in BOOLEAN, b \in Byteas : given = [kind |-> "bytea", hex |-> h, val |-> b]
       \/ \E k \in {"identifier", "literal"}, n \in Names : given = [kind |-> k, val |-> n]
       \/ \E s \in Settings : given = [kind |-> "settings", val |-> s]
       \/ \E e \in Entries : given = [kind |-> "entry", val |-> e]
       \/ \E k \in {"written_time", "server_time"}, t \in Timestamps :
              given = [kind |-> k, val |-> t]
    /\ del \in IF IsArray /\ given.type \in GenericTypes THEN Delimiters ELSE {<<Comma>>}
    /\ src = Written(given, del)
    /\ Begins /\ result = <<>> /\ read = "no"

Reads(value) == result' = value /\ read' = "yes" /\ UNCHANGED <<vars, given>>
Refuses == read' = "failed" /\ UNCHANGED <<vars, given, result>>

Parses == IsArray /\ src # Nil /\ Next /\ UNCHANGED <<given, result, read>>

\* NULL is a nil slice; into a Go array it does not go.
ScanNull ==
    /\ read = "no" /\ IsArray /\ src = Nil
    /\ IF given.type = "fixed" THEN Refuses ELSE Reads(NilArray)

\* Scan, once parseArray is done; an array of arrays is parsed only.
Scan ==
    /\ read = "no" /\ IsArray
    /\ \/ pc = "error" /\ Refuses
       \/ /\ pc = "done" /\ given.type = "nested"
          /\ Reads([dims |-> dims, elems |-> elems])
       \/ /\ pc = "done" /\ given.type # "nested"
          /\ LET values == ScanArray(given.type, dims, elems)
             IN  IF values = {} THEN Refuses ELSE \E v \in values : Reads(v)

ReadCopy == given.kind = "copy" /\ read = "no" /\ Reads(ReadRows(src))
ReadBytea ==
    /\ given.kind = "bytea" /\ read = "no"
    /\ LET v == ParseBytea(src) IN IF v = Error THEN Refuses ELSE Reads(v)
\* The query string ends at a zero byte: a literal that holds one has no closing quote.
ReadName ==
    \/ given.kind = "identifier" /\ read = "no" /\ Reads(ReadQuoted(src, Quote, FALSE))
    \/ /\ given.kind = "literal" /\ read = "no"
       /\ IF Contains(src, 0) THEN Refuses ELSE Reads(ReadLiteral(src))
ReadSettings == given.kind = "settings" /\ read = "no" /\ Reads(ParseDSN(src))
ReadEntry ==
    /\ given.kind = "entry" /\ read = "no"
    /\ Reads([entry |-> ParseLine(src),
              found |-> FindPassword(<<ParseLine(src)>>, SubSeq(given.val, 1, 4))])
ReadTime ==
    /\ given.kind \in {"written_time", "server_time"} /\ read = "no"
    /\ Reads(ParseTimestamp(src))

FNext ==
    \/ Parses \/ ScanNull \/ Scan
    \/ ReadCopy \/ ReadBytea \/ ReadName \/ ReadSettings \/ ReadEntry \/ ReadTime

FSpec == FInit /\ [][FNext]_fvars

--------------------------------------------------------------------------------
(* Properties *)

Flat(arrays) == [dims |-> <<Len(arrays), Len(arrays[1])>>, elems |-> FlattenSeq(arrays)]

\* An array that Value has written is read back as it was, whatever quotes,
\* backslashes, braces and delimiters its elements hold and whatever delimiter its
\* elements' type has: the writer of each array type and parseArray are apart, and
\* only this makes them one format.  A nil element of a ByteaArray is written as
\* empty.  A Go array refuses an array of another length and NULL, which is what a nil
\* slice is written as.
ArrayRoundTrip ==
    given.kind = "array" /\ read # "no" =>
        IF given.type = "fixed" /\ (given.val = NilArray \/ Len(given.val) # FixedLength)
        THEN read = "failed"
        ELSE read = "yes" /\ result = IF given.type = "nested" THEN Flat(given.val)
                                      ELSE given.val

\* Text and bytes that go into a query or into COPY data are for the server what they
\* were for the caller: fields of COPY, where NULL and the text \N are two things and
\* bytea is escaped twice; bytea in either format; and what QuoteIdentifier and
\* QuoteLiteral make, which is one token whatever quotes and backslashes it holds.  A
\* name ends before a zero byte; a literal with a zero byte, where the query string
\* ends, is an error and never another value.
CopyArrives ==
    LET Arrived(x, field) ==
            CASE x.type = "nil" -> field = Nil
              [] x.type = "text" -> field = x.val
              [] x.type = "bytes" -> field # Nil /\ ParseBytea(field) = x.val
    IN  /\ Len(result) = Len(given.val)
        /\ \A r \in DOMAIN result :
               /\ Len(result[r]) = Len(given.val[r])
               /\ \A k \in DOMAIN result[r] : Arrived(given.val[r][k], result[r][k])
TextRoundTrip ==
    read # "no" =>
        CASE given.kind = "copy" -> CopyArrives
          [] given.kind = "bytea" -> read = "yes" /\ result = given.val
          [] given.kind = "identifier" -> result = BeforeZero(given.val)
          [] given.kind = "literal" ->
                 IF Contains(given.val, 0) THEN read = "failed" ELSE result = given.val
          [] OTHER -> TRUE

\* What ParseURL makes of the parts of a URL is read by parseDSNSettings as the same
\* settings: two passes of unescaping undo the one pass of escaping.  An entry of the
\* password file is read as it was written and its password is found for its own host,
\* port, database and user, unless the line begins with a # or has spaces at its ends.
ConfigRoundTrip ==
    /\ given.kind = "settings" /\ read # "no" => result = given.val
    /\ LET line == WriteLine(given.val)
       IN  given.kind = "entry" /\ read # "no" =>
               \/ line[1] \in Spaces \cup {Hash} \/ line[Len(line)] \in Spaces
               \/ result = [entry |-> given.val, found |-> given.val[5]]

\* A time is read back as the same time, from the driver's text and from the server's:
\* before Christ, in years of five digits, with fractions, and with seconds in its
\* zone.  The driver's text is wrong for a 29th of February before Christ, and for a
\* zone less than a minute west.
TimeRoundTrip ==
    given.kind \in {"written_time", "server_time"} /\ read # "no" =>
        \/ result = given.val
        \/ /\ given.kind = "written_time"
           /\ \/ given.val.year <= 0 /\ given.val.month = 2 /\ given.val.day = 29
              \/ given.val.off < 0 /\ given.val.off > -60
================================================================================
