---------------------------------- MODULE Text ----------------------------------
(***************************************************************************)
(* Texts that the driver writes for the server, or reads from it or from   *)
(* its user's files, and that carry other texts inside: rows of COPY,      *)
(* bytea, quoted SQL, connection strings, password files, timestamps.  For *)
(* what the driver writes there is the reader at the other end, for what   *)
(* it reads the writer; these are not in src/.  Bytes are their codes.     *)
(***************************************************************************)
EXTENDS Integers, Sequences, FiniteSets, SequencesExt

Byte == 0..255
Tab == 9
Newline == 10
Return == 13
Space == 32
Quote == 34
Hash == 35
Apostrophe == 39
Star == 42
Plus == 43
Comma == 44
Minus == 45
Dot == 46
Colon == 58
Equals == 61
Bslash == 92
LBrace == 123
RBrace == 125
Digit(d) == IF d < 10 THEN 48 + d ELSE 87 + d
Spaces == 9..13 \cup {Space}

Nil == <<-1>>                           \* NULL, or nil
Error == <<-2>>                         \* an error, or a panic, instead of a value

(* Mistakes the code could have made, as mutated forms for the properties.   *)
BackslashAsIs == <<Bslash>>             \* a backslash is not escaped
ColonFirst == <<Colon, Bslash>>         \* \: is looked for before \\
QuoteAsIs(c) == IF c = Bslash THEN <<c, c>> ELSE <<c>>  \* ' in a value is not escaped
OneDigit(b) == IF b < 16 THEN <<Digit(b)>> ELSE <<Digit(b \div 16), Digit(b % 16)>>
                                        \* %x instead of %02x
ApostropheOnly(s) == s                  \* QuoteLiteral looks at quotes only
YearZero(year) == -year                 \* 1 BC is the year -1

\* An automaton that reads s: Step is one transition.
Run(Step(_, _), start, s) ==
    LET state[k \in 0..Len(s)] == IF k = 0 THEN start ELSE Step(state[k - 1], s[k])
    IN  state[Len(s)]

\* strings.Replace of the two bytes p, q by r.
Replace(s, p, q, r) ==
    LET Step(st, c) ==
            IF st.held /\ c = q THEN [out |-> Append(st.out, r), held |-> FALSE]
            ELSE LET out == IF st.held THEN Append(st.out, p) ELSE st.out
                 IN  IF c = p THEN [out |-> out, held |-> TRUE]
                     ELSE [out |-> Append(out, c), held |-> FALSE]
        end == Run(Step, [out |-> <<>>, held |-> FALSE], s)
    IN  IF end.held THEN Append(end.out, p) ELSE end.out

\* strings.Split at one byte.
SplitAt(s, sep) ==
    LET Step(parts, c) ==
            IF c = sep THEN Append(parts, <<>>)
            ELSE [parts EXCEPT ![Len(parts)] = Append(@, c)]
    IN  Run(Step, << <<>> >>, s)

\* strings.Trim of spaces.
Trim(s) ==
    LET keep == {k \in DOMAIN s : s[k] \notin Spaces}
    IN  IF keep = {} THEN <<>>
        ELSE SubSeq(s, CHOOSE k \in keep : \A l \in keep : k <= l,
                       CHOOSE k \in keep : \A l \in keep : k >= l)

Each(s, Becomes(_)) == FlattenSeq([k \in DOMAIN s |-> Becomes(s[k])])
Join(parts, sep) ==
    FlattenSeq([k \in DOMAIN parts |-> IF k = 1 THEN parts[k] ELSE sep \o parts[k]])

--------------------------------------------------------------------------------
(* bytea *)

Octal(b) == <<Digit(b \div 64), Digit(b \div 8 % 8), Digit(b % 8)>>
Hex(b) == <<Digit(b \div 16), Digit(b % 16)>>

\* serverVersion is never set, since processParameterStatus scans it in vain.
EncodeBytea(hexFormat, v) ==
    LET Escape(b) ==
            CASE b = Bslash -> <<Bslash, Bslash>>
              [] b < 32 \/ b > 126 -> <<Bslash>> \o Octal(b)
              [] OTHER -> <<b>>
    IN  IF hexFormat THEN <<Bslash, 120>> \o Each(v, Hex) ELSE Each(v, Escape)

DigitValue(c) == IF c < 58 THEN c - 48 ELSE c - 87
IsDigit(c) == c \in 48..57
IsHex(c) == IsDigit(c) \/ c \in 97..102
IsOctal(c) == c \in 48..55

\* Hex or escape; after a backslash another one, or three digits.
ParseBytea(s) ==
    LET hex == Len(s) >= 2 /\ SubSeq(s, 1, 2) = <<Bslash, 120>>
        HexStep(st, c) ==
            IF st.out = Error \/ ~IsHex(c) THEN [st EXCEPT !.out = Error]
            ELSE IF st.held = <<>> THEN [st EXCEPT !.held = <<DigitValue(c)>>]
            ELSE [out |-> Append(st.out, st.held[1] * 16 + DigitValue(c)), held |-> <<>>]
        Step(st, c) ==
            LET h == Append(st.held, c)
            IN  IF st.out = Error THEN st ELSE
                CASE Len(h) = 1 -> IF c = Bslash THEN [st EXCEPT !.held = h]
                                   ELSE [st EXCEPT !.out = Append(@, c)]
                  [] Len(h) = 2 /\ c = Bslash -> [out |-> Append(st.out, c), held |-> <<>>]
                  [] Len(h) > 1 /\ ~IsOctal(c) /\ (Len(h) = 2 => c # Bslash) ->
                        [st EXCEPT !.out = Error]
                  [] Len(h) \in 2..3 /\ IsOctal(c) -> [st EXCEPT !.held = h]
                  [] Len(h) = 4 /\ IsOctal(c) /\ h[2] > 51 -> [st EXCEPT !.out = Error]
                  [] OTHER -> [out |-> Append(st.out, (h[2] - 48) * 64 + (h[3] - 48) * 8
                                                      + h[4] - 48),
                               held |-> <<>>]
        start == [out |-> <<>>, held |-> <<>>]
        end == IF hex THEN Run(HexStep, start, SubSeq(s, 3, Len(s))) ELSE Run(Step, start, s)
    IN  IF end.held = <<>> THEN end.out ELSE Error

--------------------------------------------------------------------------------
(* COPY *)

EscapedBackslash == <<Bslash, Bslash>>

AppendEscapedText(text) ==
    LET Escape(c) ==
            CASE c = Bslash -> EscapedBackslash
              [] c = Newline -> <<Bslash, 110>>
              [] c = Return -> <<Bslash, 114>>
              [] c = Tab -> <<Bslash, 116>>
              [] OTHER -> <<c>>
    IN  Each(text, Escape)

\* A value: nil, a text, or bytes, which are a bytea first.
AppendEncodedText(x) ==
    CASE x.type = "nil" -> <<Bslash, 78>>
      [] x.type = "text" -> AppendEscapedText(x.val)
      [] x.type = "bytes" -> AppendEscapedText(EncodeBytea(FALSE, x.val))

\* Exec of a COPY.
CopyRow(values) ==
    Append(Join([k \in DOMAIN values |-> AppendEncodedText(values[k])], <<Tab>>), Newline)

\* The server reads rows of fields; \N alone is NULL.
ReadRows(data) ==
    LET Unescaped(c) ==
            CASE c = 110 -> Newline [] c = 114 -> Return [] c = 116 -> Tab [] OTHER -> c
        Field(st) == IF st.raw = <<Bslash, 78>> THEN Nil ELSE st.cur
        Step(st, c) ==
            CASE st.at = "escape" -> [st EXCEPT !.cur = Append(@, Unescaped(c)),
                                                !.raw = Append(@, c), !.at = "in"]
              [] st.at = "in" /\ c = Bslash -> [st EXCEPT !.raw = Append(@, c), !.at = "escape"]
              [] st.at = "in" /\ c \in {Tab, Newline} ->
                    [rows |-> IF c = Tab THEN st.rows ELSE Append(st.rows, Append(st.row, Field(st))),
                     row |-> IF c = Tab THEN Append(st.row, Field(st)) ELSE <<>>,
                     cur |-> <<>>, raw |-> <<>>, at |-> "in"]
              [] OTHER -> [st EXCEPT !.cur = Append(@, c), !.raw = Append(@, c)]
    IN  Run(Step, [rows |-> <<>>, row |-> <<>>, cur |-> <<>>, raw |-> <<>>, at |-> "in"],
            data).rows

--------------------------------------------------------------------------------
(* Quoted SQL *)

\* A zero byte and what comes after it are left out.
BeforeZero(name) == IF Contains(name, 0) THEN SplitAt(name, 0)[1] ELSE name

QuoteIdentifier(name) ==
    LET Twice(c) == IF c = Quote THEN <<c, c>> ELSE <<c>>
    IN  <<Quote>> \o Each(BeforeZero(name), Twice) \o <<Quote>>

DoubleBackslashes(s) ==
    LET Twice(c) == IF c = Bslash THEN <<c, c>> ELSE <<c>> IN Each(s, Twice)

QuoteLiteral(literal) ==
    LET Twice(c) == IF c = Apostrophe THEN <<c, c>> ELSE <<c>>
        quoted == Each(literal, Twice)
    IN  IF Contains(quoted, Bslash)
        THEN <<Space, 69, Apostrophe>> \o DoubleBackslashes(quoted) \o <<Apostrophe>>
        ELSE <<Apostrophe>> \o quoted \o <<Apostrophe>>

\* The server's lexer: what is between the quotes q; Error if there is more.
ReadQuoted(s, q, backslashes) ==
    LET Step(st, c) ==
            CASE st.at = "start" -> [st EXCEPT !.at = IF c = q THEN "in" ELSE "bad"]
              [] st.at = "in" /\ c = q -> [st EXCEPT !.at = "quote"]
              [] st.at = "in" /\ c = Bslash /\ backslashes -> [st EXCEPT !.at = "escape"]
              [] st.at = "in" /\ c # q /\ ~(c = Bslash /\ backslashes) ->
                    [st EXCEPT !.out = Append(@, c)]
              [] st.at = "quote" /\ c = q -> [at |-> "in", out |-> Append(st.out, c)]
              [] st.at = "escape" -> [at |-> "in", out |-> Append(st.out, c)]
              [] OTHER -> [st EXCEPT !.at = "bad"]
        end == Run(Step, [at |-> "start", out |-> <<>>], s)
    IN  IF end.at = "quote" THEN end.out ELSE Error

ReadLiteral(s) ==
    IF Len(s) > 2 /\ SubSeq(s, 1, 2) = <<Space, 69>>
    THEN ReadQuoted(SubSeq(s, 3, Len(s)), Apostrophe, TRUE)
    ELSE ReadQuoted(s, Apostrophe, FALSE)

--------------------------------------------------------------------------------
(* Connection strings: settings are pairs of a name and a value. *)

\* The escaper of ParseURL, which goes over the text once.
EscapeValue(c) == IF c \in {Apostrophe, Bslash} THEN <<Bslash, c>> ELSE <<c>>

\* ParseURL, from the parts of the URL on: empty ones are left out.
Accrue(settings) ==
    LET Accrued(kv) == kv[1] \o <<Equals, Apostrophe>> \o Each(kv[2], EscapeValue)
                             \o <<Apostrophe>>
    IN  Join(SetToSeq({Accrued(kv) : kv \in {x \in settings : x[2] # <<>>}}), <<Space>>)

SkipSpaces(s, p) ==
    LET rest == {k \in p..Len(s) : s[k] \notin Spaces}
    IN  IF rest = {} THEN Len(s) + 1 ELSE CHOOSE k \in rest : \A l \in rest : k <= l

\* What \ makes of the two characters, in two passes.
Unescape(raw) == Replace(Replace(raw, Bslash, Bslash, Bslash), Bslash, Apostrophe, Apostrophe)

\* Where the value that begins at p ends: at a space, or at its closing quote; a
\* backslash takes the next character along, which may not be there.
ValueEnds(s, p, quoted) ==
    LET end[k \in p..(Len(s) + 2)] ==
            CASE k > Len(s) -> k
              [] k <= Len(s) /\ (IF quoted THEN s[k] = Apostrophe ELSE s[k] \in Spaces) -> k
              [] k <= Len(s) /\ s[k] = Bslash -> end[k + 2]
              [] OTHER -> end[k + 1]
    IN  end[p]

\* parseDSNSettings, from position p on: the settings, or {Error}.
ParseDSN(s) ==
    LET from[p \in 1..(Len(s) + 2)] ==
        IF p > Len(s) THEN {}
        ELSE LET eqs == {k \in p..Len(s) : s[k] = Equals}
                 eq == CHOOSE k \in eqs : \A l \in eqs : k <= l
                 key == Trim(SubSeq(s, p, eq - 1))
                 v == SkipSpaces(s, eq + 1)
                 quoted == v <= Len(s) /\ s[v] = Apostrophe
                 b == IF quoted THEN v + 1 ELSE v
                 e == ValueEnds(s, b, quoted)
                 rest == from[e + 1]
             IN  IF eqs = {} \/ e > Len(s) + 1 \/ (quoted /\ e > Len(s)) \/ key = <<>>
                 THEN {Error}
                 ELSE IF rest = {Error} THEN rest
                 ELSE {kv \in {<<key, Unescape(SubSeq(s, b, e - 1))>>} :
                          \A x \in rest : x[1] # key} \cup rest
    IN  from[1]

--------------------------------------------------------------------------------
(* The password file: an entry is the sequence host, port, database, user, password. *)

LineEscapes == <<Bslash, Colon>>

\* The escapes are put away under bytes that no line has, \\ before \:.
ParseLine(line) ==
    LET trimmed == Trim(line)
        PutAway(s, c) == Replace(s, Bslash, c, IF c = Bslash THEN Return ELSE Newline)
        kept == PutAway(PutAway(trimmed, LineEscapes[1]), LineEscapes[2])
        Back(c) == CASE c = Return -> <<Bslash>> [] c = Newline -> <<Colon>> [] OTHER -> <<c>>
        parts == SplitAt(kept, Colon)
    IN  IF (trimmed # <<>> /\ trimmed[1] = Hash) \/ Len(parts) # 5 THEN Nil
        ELSE [k \in 1..5 |-> Each(parts[k], Back)]

\* The password of the first entry that fits, a * fitting everything.
FindPassword(entries, for) ==
    LET Fits(e) == e # Nil /\ \A k \in 1..4 : e[k] \in {for[k], <<Star>>}
        fitting == SelectSeq(entries, Fits)
    IN  IF fitting = <<>> THEN <<>> ELSE fitting[1][5]

\* libpq's rules for writing one.
WriteLine(entry) ==
    LET Escape(c) == IF c \in {Colon, Bslash} THEN <<Bslash, c>> ELSE <<c>>
    IN  Join([k \in 1..5 |-> Each(entry[k], Escape)], <<Colon>>)

--------------------------------------------------------------------------------
(* Timestamps: records of year, month, ..., second, nano and off, the zone's     *)
(* offset in seconds.  Years before 1 count down from 0, the year 1 BC.          *)

BC == <<Space, 66, 67>>
Pad(n, w) ==
    LET width == w + Cardinality({k \in w..8 : n >= 10^k})
    IN  [k \in 1..width |-> Digit((n \div 10^(width - k)) % 10)]
Abs(n) == IF n < 0 THEN -n ELSE n

\* The years that make a year before 1 a year BC.
ToBC(year) == -2 * year + 1

\* AddDate of years; a 29th of February becomes a 1st of March, as ToBC leads from a
\* leap year to another year.
AddYears(t, n) ==
    LET u == [t EXCEPT !.year = @ + n]
    IN  IF t.month = 2 /\ t.day = 29 THEN [u EXCEPT !.month = 3, !.day = 1] ELSE u

\* The zone of Go's layout Z07:00 has no seconds, and no sign if it is less than a
\* minute; they are added.
FormatZone(off) ==
    LET minutes == Abs(off) \div 60
        seconds == Abs(off) % 60
    IN  (IF off = 0 THEN <<90>>
         ELSE <<IF off <= -60 THEN Minus ELSE Plus>> \o Pad(minutes \div 60, 2) \o <<Colon>>
              \o Pad(minutes % 60, 2))
        \o (IF seconds # 0 THEN <<Colon>> \o Pad(seconds, 2) ELSE <<>>)

\* The server leaves zero minutes and seconds of the zone out.
ServerZone(off) ==
    LET part(n) == <<Colon>> \o Pad(n, 2)
        hours == Pad(Abs(off) \div 3600, 2)
        minutes == Abs(off) \div 60 % 60
        seconds == Abs(off) % 60
    IN  <<IF off < 0 THEN Minus ELSE Plus>> \o hours
        \o (IF minutes # 0 \/ seconds # 0 THEN part(minutes) ELSE <<>>)
        \o (IF seconds # 0 THEN part(seconds) ELSE <<>>)

FormatAs(t, zone) ==
    LET nano == Pad(t.nano, 9)
        last == {k \in 1..9 : nano[k] # 48 /\ \A l \in k + 1..9 : nano[l] = 48}
    IN  Pad(t.year, 4) \o <<Minus>> \o Pad(t.month, 2) \o <<Minus>> \o Pad(t.day, 2)
        \o <<Space>> \o Pad(t.hour, 2) \o <<Colon>> \o Pad(t.minute, 2) \o <<Colon>>
        \o Pad(t.second, 2)
        \o (IF last = {} THEN <<>> ELSE <<Dot>> \o SubSeq(nano, 1, CHOOSE k \in last : TRUE))
        \o zone

FormatTimestamp(t) ==
    IF t.year <= 0
    THEN FormatAs(AddYears(t, ToBC(t.year)), FormatZone(t.off)) \o BC
    ELSE FormatAs(t, FormatZone(t.off))

ServerTimestamp(t) ==
    IF t.year <= 0
    THEN FormatAs([t EXCEPT !.year = 1 - @], ServerZone(t.off)) \o BC
    ELSE FormatAs(t, ServerZone(t.off))

FromBC(year) == 1 - year

CharAt(s, p) == IF p \in DOMAIN s THEN s[p] ELSE -1
FirstOf(s, p, set) ==
    LET found == {k \in p..Len(s) : s[k] \in set}
    IN  IF found = {} THEN Len(s) + 1 ELSE CHOOSE k \in found : \A l \in found : k <= l

\* The number that is written from p to before q, or -1.
Atoi(s, p, q) ==
    IF p < q /\ q <= Len(s) + 1 /\ \A k \in p..q - 1 : IsDigit(s[k])
    THEN FoldLeft(LAMBDA n, c : 10 * n + c - 48, 0, SubSeq(s, p, q - 1))
    ELSE -1
TwoDigits(s, at) == [k \in DOMAIN at |-> Atoi(s, at[k], at[k] + 2)]

\* The zone at p: its parts, the sign and how much of the text it is.
ParseZone(s, p) ==
    LET zoned == CharAt(s, p) \in {Minus, Plus}
        zoneMin == zoned /\ CharAt(s, p + 3) = Colon
        zoneSec == zoneMin /\ CharAt(s, p + 6) = Colon
    IN  [parts |-> <<IF zoned THEN Atoi(s, p + 1, p + 3) ELSE 0,
                     IF zoneMin THEN Atoi(s, p + 4, p + 6) ELSE 0,
                     IF zoneSec THEN Atoi(s, p + 7, p + 9) ELSE 0>>,
         sign |-> IF CharAt(s, p) = Minus THEN -1 ELSE 1,
         len |-> CASE zoneSec -> 9 [] zoneMin /\ ~zoneSec -> 6 [] zoned /\ ~zoneMin -> 3
                   [] OTHER -> IF CharAt(s, p) = 90 THEN 1 ELSE 0]

\* The fraction at p, and where it ends.
ParseFraction(s, p) ==
    LET end == FirstOf(s, p + 1, {Minus, Plus, 90, Space})
    IN  IF CharAt(s, p) = Dot
        THEN [nano |-> Atoi(s, p + 1, end) * (10^9 \div 10^(end - p - 1)), end |-> end]
        ELSE [nano |-> 0, end |-> p]

\* All positions follow from that of the first "-"; ok says whether there is an error.
ParseTimestamp(s) ==
    LET monSep == FirstOf(s, 1, {Minus})
        isBC == Len(s) >= 3 /\ SubSeq(s, Len(s) - 2, Len(s)) = BC
        ending == IF isBC THEN 3 ELSE 0
        timed == Len(s) > monSep - 1 + 6 + ending
        year == Atoi(s, 1, monSep)
        date == TwoDigits(s, <<monSep + 1, monSep + 4>>)
        time == IF timed THEN TwoDigits(s, <<monSep + 7, monSep + 10, monSep + 13>>)
                ELSE <<0, 0, 0>>
        fraction == ParseFraction(s, monSep + 15)
        zone == ParseZone(s, fraction.end)
    IN  [year |-> IF isBC THEN FromBC(year) ELSE year, month |-> date[1], day |-> date[2],
         hour |-> time[1], minute |-> time[2], second |-> time[3], nano |-> fraction.nano,
         off |-> zone.sign * (zone.parts[1] * 3600 + zone.parts[2] * 60 + zone.parts[3]),
         ok |-> /\ -1 \notin {year, fraction.nano} \cup Range(date) \cup Range(time)
                             \cup Range(zone.parts)
                /\ CharAt(s, monSep + 3) = Minus
                /\ timed => /\ CharAt(s, monSep + 6) = Space
                            /\ CharAt(s, monSep + 9) = Colon /\ CharAt(s, monSep + 12) = Colon
                /\ fraction.end + zone.len + ending > Len(s)]
================================================================================
