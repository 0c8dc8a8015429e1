----------------------------- MODULE JsonReader -----------------------------
(***************************************************************************)
(* lib/impl/jsonreader.cpp: a recursive descent over a text.                *)
(*                                                                          *)
(* cc is the position of the next character.  A keyword is one character.   *)
(* What the code reads outside of its tables and of its strings can be      *)
(* anything: a character that is not ASCII is looked up before the tables,  *)
(* and replaceEscapes looks behind the '\0' of an empty string.  stray is   *)
(* what is found there.                                                     *)
(***************************************************************************)
EXTENDS Json, TLC

CONSTANTS MaxDigits,    \* 17: digits from this one on only count
          IntLimit,     \* 2^31: an int is in -IntLimit .. IntLimit - 1
          Ascii         \* the characters that are ASCII, by their code

ASSUME JsonReaderAssumption == {MaxDigits, IntLimit} \subseteq Nat \ {0}

VARIABLES text,    \* buf, without the '\0' at its end
          stray

Nul == ""
NotAscii == "ae"
Blank == {" ", "\t", "\r", "\n"}
Keywords == [true |-> Boolean(TRUE), false |-> Boolean(FALSE), null |-> Null]
Escapes == ("/" :> "/") @@ ("\\" :> "\\") @@ ("\"" :> "\"") @@ ("n" :> "\n") @@ ("t" :> "\t")
HexDigits == Digits \o <<"a", "b", "c", "d", "e", "f">>

Char(i) == IF i \in DOMAIN text THEN text[i] ELSE Nul

\* What a function of the reader returns, with the position then; or it throws.
Thrown == [ok |-> FALSE]
Got(v, i) == [ok |-> TRUE, value |-> v, cc |-> i]

\* The first position from i on with a character that is not in S.
Past(i, S) == CHOOSE j \in i .. Len(text) + 1 : Char(j) \notin S /\ \A k \in i .. j - 1 : Char(k) \in S

SkipSpace(i) == Past(i, IF stray = Nul THEN Blank ELSE Blank \cup {NotAscii})

\* skip(c), when v has been read
Close(v, i, c) == IF Char(i) = c THEN Got(v, SkipSpace(i + 1)) ELSE Thrown

-----------------------------------------------------------------------------
Digit(c) == (CHOOSE k \in 0 .. 9 : Digits[k + 1] = c)
NumberValue(d) == FoldLeft(LAMBDA n, c : 10 * n + Digit(c), 0, d)

\* What is left of a number in an int.  (That an int is too small is undefined; the
\* builds take what is left.)
InInt(n) == ((n + IntLimit) % (2 * IntLimit)) - IntLimit

\* A reader that takes the point for no more than a separator.
ReadNumberUnscaled(cc) ==
    LET j == Past(IF Char(cc) = "-" THEN cc + 1 ELSE cc, ToSet(Digits) \cup {"."})
    IN  Got(Number(FromDecimal(Char(cc) = "-", NumberValue(SelectSeq(SubSeq(text, cc, j - 1), IsDigit)), 0)), SkipSpace(j))

\* Digits may be missing before the point, and in front of any there may be zeros;
\* only the first MaxDigits - 1 are read, zeros among them.
ReadNumber(cc) ==
    LET neg == Char(cc) = "-"
        first == IF neg THEN cc + 1 ELSE cc
        point == Past(first, ToSet(Digits))
        fraction == Char(point) = "."
        mantissaEnd == IF fraction THEN Past(point + 1, ToSet(Digits)) ELSE point
        exponent == Char(mantissaEnd) \in {"E", "e"}
        signed == exponent /\ Char(mantissaEnd + 1) \in {"+", "-"}
        power == mantissaEnd + (IF signed THEN 2 ELSE 1)
        end == IF exponent THEN Past(power, ToSet(Digits)) ELSE mantissaEnd
        digits == SubSeq(text, first, point - 1) \o SubSeq(text, point + 1, mantissaEnd - 1)
        kept == SubSeq(digits, 1, Min({Len(digits), MaxDigits - 1}))
        tmp == Nearest(FALSE, NumberValue(kept), 1, 0)
        tempExp == IF exponent THEN FoldLeft(LAMBDA n, c : InInt(10 * n + Digit(c)), 0, SubSeq(text, power, end - 1)) ELSE 0
        exp == InInt(point - first - Len(kept) + (IF Char(mantissaEnd + 1) = "-" THEN -tempExp ELSE tempExp))
    IN  IF (fraction /\ mantissaEnd = point + 1) \/ (exponent /\ end = power) THEN Thrown
        ELSE Got(Number(Signed(neg, Times(tmp, Pow10(exp)))), SkipSpace(end))

-----------------------------------------------------------------------------
\* hexValue: 16 stands for no hex digit, in the first entry of the table only, the
\* others are 0.
HexValue(c) == IF c \in ToSet(HexDigits) THEN (CHOOSE k \in 0 .. 15 : HexDigits[k + 1] = c) ELSE 0
HexRefused(c) == c = Nul \/ (c = NotAscii /\ stray # Nul)

\* The UTF-8 of a code point; one character, also if it is more bytes.
Character(hex) ==
    LET code == FoldLeft(LAMBDA n, c : 16 * n + HexValue(c), 0, hex)
    IN  IF code \in DOMAIN Ascii THEN Ascii[code] ELSE NotAscii

RECURSIVE ReplaceEscapes(_), ReadValue(_), ReadMembers(_, _), ReadElements(_, _)

\* The characters of a string, or Thrown.  readUnicodeEscape leaves the last digit
\* to be read once more.
ReplaceEscapes(s) ==
    LET At(i) == IF i \in DOMAIN s THEN s[i] ELSE Nul
        Before(c, i) == LET rest == ReplaceEscapes(SubSeq(s, i, Len(s)))
                        IN  IF rest.ok THEN Got(<<c>> \o rest.value, 0) ELSE Thrown
    IN  IF s = <<>> THEN Got(<<>>, 0)
        ELSE IF s[1] # "\\" THEN Before(s[1], 2)
        ELSE IF s[2] = "u"
             THEN IF \E i \in 3 .. 6 : HexRefused(At(i)) THEN Thrown
                  ELSE Before(Character(SubSeq(s, 3, 6)), 6)
        ELSE IF s[2] \in DOMAIN Escapes THEN Before(Escapes[s[2]], 3)
        ELSE IF s[2] = NotAscii /\ stray # Nul THEN Before(stray, 3)
        ELSE Thrown

\* A C string ends at its first '\0'.
CString(s) == SubSeq(s, 1, Min({i \in DOMAIN s : s[i] = Nul} \cup {Len(s) + 1}) - 1)

\* The closing quote of a string whose characters start at i; 0: it runs away.
ClosingQuote(i) ==
    LET c[j \in i .. Len(text) + 2] ==
            IF Char(j) = Nul THEN 0 ELSE IF Char(j) = "\"" THEN j
            ELSE IF Char(j) # "\\" THEN c[j + 1] ELSE IF Char(j + 1) = Nul THEN 0 ELSE c[j + 2]
    IN  c[i]

ReadString(cc) ==
    LET end == ClosingQuote(cc + 1)
        raw == SubSeq(text, cc + 1, end - 1)
        string == IF raw = <<>> /\ stray = "\\" THEN Thrown ELSE ReplaceEscapes(raw)
    IN  IF Char(cc) # "\"" \/ end = 0 THEN Thrown
        ELSE IF ~string.ok THEN Thrown
        ELSE Got(CString(string.value), SkipSpace(end + 1))

\* The loop over the members of an object; append keeps the last of equal keys.
ReadMembers(cc, entries) ==
    LET key == ReadString(cc)
        value == IF key.ok /\ Char(key.cc) = ":" THEN ReadValue(SkipSpace(key.cc + 1)) ELSE Thrown
        all == (key.value :> value.value) @@ entries
        next == SkipSpace(value.cc + 1)
    IN  IF ~value.ok THEN Thrown
        ELSE IF Char(value.cc) # "," THEN Close(Object(all), value.cc, "}")
        ELSE IF Char(next) = "}" THEN Close(Object(all), next, "}")
        ELSE ReadMembers(next, all)

ReadElements(cc, elements) ==
    LET value == ReadValue(cc)
        all == Append(elements, value.value)
        next == SkipSpace(value.cc + 1)
    IN  IF ~value.ok THEN Thrown
        ELSE IF Char(value.cc) # "," THEN Close(Array(all), value.cc, "]")
        ELSE IF Char(next) = "]" THEN Close(Array(all), next, "]")
        ELSE ReadElements(next, all)

\* readNext
ReadValue(cc) ==
    LET c == Char(cc)
        inner == SkipSpace(cc + 1)
        string == ReadString(cc)
    IN  CASE c = "{"  -> IF Char(inner) = "}" THEN Close(Object(<<>>), inner, "}") ELSE ReadMembers(inner, <<>>)
          [] c = "["  -> IF Char(inner) = "]" THEN Close(Array(<<>>), inner, "]") ELSE ReadElements(inner, <<>>)
          [] c = "\"" -> IF string.ok THEN Got(String(string.value), string.cc) ELSE Thrown
          [] c \in DOMAIN Keywords -> Got(Keywords[c], inner)
          [] c = "-" \/ IsDigit(c) -> ReadNumber(cc)
          [] OTHER    -> Thrown

\* read
Read ==
    LET v == ReadValue(SkipSpace(1))
    IN  IF ~v.ok THEN Thrown ELSE IF Char(v.cc) # Nul THEN Thrown ELSE v

=============================================================================
