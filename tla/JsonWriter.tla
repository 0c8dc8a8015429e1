----------------------------- MODULE JsonWriter -----------------------------
(***************************************************************************)
(* lib/impl/jsonwriter.cpp and localizingjsonwriter.cpp: a JSON value as    *)
(* text, for a client that accepts some languages, in a buffer that grows   *)
(* (lib/impl/buffer.cpp).                                                   *)
(*                                                                          *)
(* A key that is localized starts with the character Localized, which       *)
(* stands for "_ripc:localized:"; its value has an entry for each language. *)
(***************************************************************************)
EXTENDS Json

CONSTANTS Precision,      \* 16, the significant digits of a number: "%.16g"
          NumberRoom,     \* 25, the room made for a number
          FirstCapacity   \* 128, what a buffer starts with

ASSUME JsonWriterAssumption == {Precision, NumberRoom, FirstCapacity} \subseteq Nat \ {0}

-----------------------------------------------------------------------------
EmptyBuffer == [data |-> <<>>, capacity |-> 0]

\* Room for n characters and the final '\0', or one doubling.
EnsureCapacityOnce(b, n) ==
    [b EXCEPT !.capacity = IF @ = 0 THEN FirstCapacity
                           ELSE IF Len(b.data) + n + 1 > @ THEN 2 * @ ELSE @]

EnsureCapacity(b, n) ==
    LET start == IF b.capacity = 0 THEN FirstCapacity ELSE b.capacity
        enough == {c \in {start * 2 ^ k : k \in 0 .. 10} : Len(b.data) + n + 1 <= c}
    IN  [b EXCEPT !.capacity = Min(enough)]

\* What is written at once, after ensureCapacity(room).
Piece(string) == <<[room |-> Len(string), string |-> string]>>

\* write.  What does not fit would be behind the buffer: it is not in the text.
WritePiece(b, piece) ==
    LET c == EnsureCapacity(b, piece.room)
        all == b.data \o piece.string
    IN  [c EXCEPT !.data = SubSeq(all, 1, Min({Len(all), c.capacity - 1}))]

-----------------------------------------------------------------------------
\* A control character has its own character as "escape".
WriteChar(c) == IF c \in {"\"", "\\"} THEN Piece(<<"\\", c>>) ELSE Piece(<<c>>)

Quote == Piece(<<"\"">>)
Colon == Piece(<<":", " ">>)

WriteString(s) == Quote \o FlattenSeq([i \in DOMAIN s |-> WriteChar(s[i])]) \o Quote

Zeros(n) == [i \in 1 .. n |-> "0"]

\* The digits of n, at least so many.
DigitsOf(n, least) ==
    LET Length[k \in Nat] == IF k < 10 THEN 1 ELSE 1 + Length[k \div 10]
        size == Max({least, Length[n]})
    IN  [i \in 1 .. size |-> Digits[((n \div 10 ^ (size - i)) % 10) + 1]]

\* A double that is not zero, to Precision digits: n * 10^exp, with the last zeros of
\* n in exp.  10^guess is a power of ten next below or one less: log2(10) = 100000 / 30103.
Decimal(x) ==
    LET Over(k) == x.m * 5 ^ Max({-k, 0}) * 2 ^ Max({x.e - k, 0})
        Under(k) == 5 ^ Max({k, 0}) * 2 ^ Max({k - x.e, 0})
        guess == (((Log2(x.m) + x.e) * 30103) \div 100000) - Precision + 2
        Fit(k) == IF Over(k) \div Under(k) >= 10 ^ (Precision - 1) THEN k ELSE k - 1
        Cut(d, last, exp) == [digits |-> SubSeq(d, 1, last), exp |-> exp + Len(d) - last]
        Trimmed(d, exp) == Cut(d, Max({i \in DOMAIN d : d[i] # "0"}), exp)
        At(exp) == Trimmed(DigitsOf(Rounded(Over(exp), Under(exp)), 1), exp)
    IN  At(Fit(guess))

Shown(x) == IF IsZero(x) THEN [digits |-> <<"0">>, exp |-> 0] ELSE Decimal(x)

\* These digits, of which the first stands for 10^p, with and without an exponent.
Fixed(d, p) ==
    IF p >= Len(d) - 1 THEN d \o Zeros(p + 1 - Len(d))
    ELSE IF p >= 0 THEN SubSeq(d, 1, p + 1) \o <<".">> \o SubSeq(d, p + 2, Len(d))
    ELSE <<"0", ".">> \o Zeros(-p - 1) \o d

Scientific(d, p) ==
    <<d[1]>> \o (IF Len(d) > 1 THEN <<".">> ELSE <<>>) \o Tail(d)
        \o <<"e", IF p < 0 THEN "-" ELSE "+">> \o DigitsOf(IF p < 0 THEN -p ELSE p, 2)

Printed(d, p) == IF p \in -4 .. Precision - 1 THEN Fixed(d, p) ELSE Scientific(d, p)
Placed(n) == Printed(n.digits, Len(n.digits) - 1 + n.exp)

\* "%.*g" of Precision digits.
NumberText(x) ==
    (IF x.neg THEN <<"-">> ELSE <<>>)
    \o (IF ~IsFinite(x) THEN <<IF x = NaN THEN "nan" ELSE "inf">> ELSE Placed(Shown(x)))

Separated(texts) ==
    FlattenSeq([i \in DOMAIN texts |-> IF i = 1 THEN texts[i] ELSE Piece(<<",", " ">>) \o texts[i]])

\* What is written of a localized value: its entry for the first of the accepted
\* languages it has, or for no language; <<>>: nothing.
Translation(value, languages) ==
    LET has == SelectSeq(Append(languages, <<>>), LAMBDA l : l \in DOMAIN value.entries)
    IN  IF has = <<>> THEN <<>> ELSE <<value.entries[has[1]]>>

RECURSIVE Write(_, _)

\* writeKeyValue: a member that is undefined is left out, a translation is not.
WriteKeyValue(key, value, languages) ==
    IF key # <<>> /\ key[1] = Localized
    THEN LET t == Translation(value, languages)
         IN  IF t = <<>> THEN <<>>
             ELSE WriteString(Tail(key)) \o Colon \o Write(t[1], languages)
    ELSE IF value.type = "Undefined" THEN <<>>
    ELSE WriteString(key) \o Colon \o Write(value, languages)

\* One of the characters stands for a keyword.
Write(v, languages) ==
    CASE v.type = "Object" ->
           LET keys == SetToSeq(DOMAIN v.entries)      \* the order of the Map
               members == [i \in DOMAIN keys |-> WriteKeyValue(keys[i], v.entries[keys[i]], languages)]
           IN  Piece(<<"{">>) \o Separated(SelectSeq(members, LAMBDA m : m # <<>>)) \o Piece(<<"}">>)
      [] v.type = "Array" ->
           Piece(<<"[">>) \o Separated([i \in DOMAIN v.elements |-> Write(v.elements[i], languages)]) \o Piece(<<"]">>)
      [] v.type = "String"    -> WriteString(v.str)
      [] v.type = "Number"    -> <<[room |-> NumberRoom, string |-> NumberText(v.number)]>>
      [] v.type = "Boolean"   -> Piece(<<IF v.boolean THEN "true" ELSE "false">>)
      [] v.type = "Null"      -> Piece(<<"null">>)
      [] v.type = "Undefined" -> Piece(<<"undefined">>)

\* The writer's buffer, in the end.
Written(v, languages) == FoldLeft(WritePiece, EmptyBuffer, Write(v, languages)).data

=============================================================================
