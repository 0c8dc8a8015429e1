------------------------------ MODULE JsonText ------------------------------
(***************************************************************************)
(* What the JSON reader and writer promise, of the texts the services read  *)
(* (the body of a PATCH, their own templates) and write (every answer).     *)
(* A scenario takes one or two steps: a value is written and read back, a   *)
(* text is read, or a request with an Accept-Language is answered.          *)
(***************************************************************************)
EXTENDS JsonWriter, JsonReader, AcceptLanguage

CONSTANTS Values,         \* values the services build, in pairs to compare
          Bodies,         \* texts that are read
          TenPowers,      \* -307 .. 308, the powers of ten that are exact to the last bits
          AcceptHeaders,  \* Accept-Language
          Translations    \* sets of languages something is translated into

VARIABLES task, result

textVars == <<text, stray, task, result>>

None == [kind |-> "none"]

Tasks == [kind : {"write"}, value : Values, other : Values]
         \cup [kind : {"read"}, body : Bodies]
         \cup [kind : {"answer"}, header : AcceptHeaders, has : Translations]

Begin(t) ==
    /\ task = t
    /\ text = IF t.kind = "read" THEN t.body ELSE <<>>
    /\ result = None

TextInit == stray \in {Nul, "x", "\\"} /\ \E t \in Tasks : Begin(t)

WriteJson ==
    /\ task.kind = "write" /\ text = <<>>
    /\ text' = Written(task.value, <<>>)
    /\ UNCHANGED <<stray, task, result>>

ReadJson ==
    /\ task.kind \in {"read", "write"} /\ text # <<>> /\ result = None
    /\ result' = [kind |-> "value", read |-> Read]
    /\ UNCHANGED <<text, stray, task>>

\* A member that is translated; its translations name their language.
Translated(languages) == Object(<<Localized, "name">> :> Object([l \in languages |-> String(l)]))

\* JsonResource::doGET
Answer ==
    /\ task.kind = "answer" /\ result = None
    /\ LET accepted == GetAcceptedLocales(task.header)
       IN  IF accepted.outcome = "locales"
           THEN /\ text' = Written(Translated(task.has), accepted.list)
                /\ result' = [kind |-> "answer"]
           ELSE result' = [kind |-> accepted.outcome] /\ UNCHANGED text
    /\ UNCHANGED <<stray, task>>

TextNext == WriteJson \/ ReadJson \/ Answer

-----------------------------------------------------------------------------
\* What a text says, of the whole of it.

Stripped(s) ==
    LET ink == {i \in DOMAIN s : s[i] \notin Blank}
    IN  IF ink = {} THEN <<>> ELSE SubSeq(s, Min(ink), Max(ink))

\* s cut at some of the characters c.
Cuts(s, c) ==
    {LET e == SetToSortSeq(at \cup {0, Len(s) + 1}, <)
     IN  [i \in 1 .. Len(e) - 1 |-> SubSeq(s, e[i] + 1, e[i + 1] - 1)] :
        at \in SUBSET {i \in DOMAIN s : s[i] = c}}

\* Without a last item that is empty: a comma may end a list.
Items(p) == IF Stripped(Last(p)) = <<>> THEN Front(p) ELSE p

\* The number with these digits, of which the reader keeps the first ones; it computes
\* with a power of ten that no double is, if that is not in TenPowers.
Unsaid == [unsaid |-> TRUE]
Written10(neg, digits, power) ==
    LET kept == SubSeq(digits, 1, Min({Len(digits), MaxDigits - 1}))
        exp == power + Len(digits) - Len(kept)
    IN  IF exp \in TenPowers THEN FromDecimal(neg, NumberValue(kept), exp) ELSE Unsaid

NumberOf(s) ==
    LET m == Cuts(SubSeq(s, IF s[1] = "-" THEN 2 ELSE 1, Len(s)), "e")
        Shapes == {<<p, x>> \in UNION {Cuts(t[1], ".") \X {IF Len(t) = 1 THEN <<"0">> ELSE t[2]} :
                                          t \in {u \in m : Len(u) <= 2}} :
                     /\ Len(p) <= 2
                     /\ \A i \in DOMAIN p : \A j \in DOMAIN p[i] : IsDigit(p[i][j])
                     /\ Len(p) = 2 => p[2] # <<>>
                     /\ \E y \in {x} \cup {SubSeq(x, 2, Len(x)) : b \in {c \in {"+", "-"} : x # <<>> /\ x[1] = c}} :
                           y # <<>> /\ \A j \in DOMAIN y : IsDigit(y[j])}
        Power(x) == IF x[1] = "-" THEN -NumberValue(Tail(x)) ELSE IF x[1] = "+" THEN NumberValue(Tail(x)) ELSE NumberValue(x)
    IN  {LET d == FlattenSeq(sh[1])
         IN  Number(Written10(s[1] = "-", d, Power(sh[2]) - (IF Len(sh[1]) = 2 THEN Len(sh[1][2]) ELSE 0))) :
            sh \in Shapes}

RECURSIVE Unescaped(_), Denotes(_)

\* The string these characters between quotes stand for, in a set; {}: none.
Unescaped(s) ==
    IF s = <<>> THEN {<<>>}
    ELSE IF s[1] \notin {"\\", "\""} THEN {<<s[1]>> \o t : t \in Unescaped(Tail(s))}
    ELSE IF s[1] = "\\" /\ Len(s) > 1 /\ s[Min({2, Len(s)})] \in DOMAIN Escapes
         THEN {<<Escapes[s[2]]>> \o t : t \in Unescaped(SubSeq(s, 3, Len(s)))}
    ELSE {}

StringOf(s) == IF Len(s) > 1 /\ s[1] = "\"" /\ Last(s) = "\"" THEN Unescaped(SubSeq(s, 2, Len(s) - 1)) ELSE {}

\* The value that s is the text of, in a set; {}: none.
Denotes(t) ==
    LET s == Stripped(t)
        inside == SubSeq(s, 2, Len(s) - 1)
        lists == {Items(c) : c \in Cuts(inside, ",")}
        Member(m) == UNION {StringOf(Stripped(c[1])) \X Denotes(c[2]) : c \in {d \in Cuts(m, ":") : Len(d) = 2}}
    IN  IF s = <<>> THEN {}
        ELSE IF Len(s) = 1 /\ s[1] \in DOMAIN Keywords THEN {Keywords[s[1]]}
        ELSE IF s[1] = "\"" THEN {String(v) : v \in StringOf(s)}
        ELSE IF s[1] = "-" \/ IsDigit(s[1]) THEN NumberOf(s)
        ELSE IF s[1] = "[" /\ Last(s) = "]" /\ Len(s) > 1
             THEN {Array([i \in DOMAIN l |-> CHOOSE v \in Denotes(l[i]) : TRUE]) :
                     l \in {k \in lists : \A i \in DOMAIN k : Denotes(k[i]) # {}}}
        ELSE IF s[1] = "{" /\ Last(s) = "}" /\ Len(s) > 1
             THEN {LET m == [i \in DOMAIN l |-> CHOOSE v \in Member(l[i]) : TRUE]
                       Latest(k) == Max({i \in DOMAIN m : m[i][1] = k})
                   IN  Object([k \in {m[i][1] : i \in DOMAIN m} |-> m[Latest(k)][2]]) :
                     l \in {k \in lists : \A i \in DOMAIN k : Member(k[i]) # {}}}
        ELSE {}

Follows(s, a, b) == \E i \in 1 .. Len(s) - 1 : s[i] = a /\ s[i + 1] = b

\* The code reads nothing it should not read.
WithinTables(s) == stray = Nul \/ (NotAscii \notin ToSet(s) /\ ~Follows(s, "\"", "\""))

\* x is within two units of the last of Precision digits of y.
CloseTo(x, y) ==
    \/ SameNumber(x, y)
    \/ /\ IsFinite(x) /\ IsFinite(y) /\ x.neg = y.neg
       /\ LET low == Min({x.e, y.e})
              a == x.m * 2 ^ Min({x.e - low, 2 * Bits})
              b == y.m * 2 ^ Min({y.e - low, 2 * Bits})
          IN  Max({a - b, b - a}) \div 2 <= b \div 10 ^ (Precision - 1)

\* v is w, but for how the arithmetic of the reader rounds its numbers.
RECURSIVE Near(_, _)
Near(v, w) ==
    /\ v.type = w.type
    /\ CASE v.type = "Number" -> w.number = Unsaid \/ CloseTo(v.number, w.number)
         [] v.type = "Array"  -> /\ Len(v.elements) = Len(w.elements)
                                 /\ \A i \in DOMAIN v.elements : Near(v.elements[i], w.elements[i])
         [] v.type = "Object" -> /\ DOMAIN v.entries = DOMAIN w.entries
                                 /\ \A k \in DOMAIN v.entries : Near(v.entries[k], w.entries[k])
         [] OTHER             -> v = w

\* read gives the value the text denotes, and throws for a text that is none: no
\* matter how values nest, where blanks are, which key is repeated, and where it ends.
\* A number is computed as a product of two doubles that are rounded themselves; it is
\* near to the one the text denotes, unless the power of ten is too large or too small.
\* The escape \u is left out: most of what is no hex digit passes for one (HexRefused).
ReadsWhatIsWritten ==
    task.kind = "read" /\ result # None /\ WithinTables(text) /\ ~Follows(text, "\\", "u") =>
        IF result.read.ok THEN \E w \in Denotes(text) : Near(result.read.value, w) ELSE Denotes(text) = {}

RECURSIVE Parts(_), Published(_)
Parts(v) ==
    {v} \cup IF v.type = "Array" THEN UNION {Parts(v.elements[i]) : i \in DOMAIN v.elements}
             ELSE IF v.type = "Object" THEN UNION {Parts(v.entries[k]) : k \in DOMAIN v.entries}
             ELSE {}
Has(type, v) == \E p \in Parts(v) : p.type = type

\* The reader takes as many digits as the writer writes, zeros in front among them,
\* and knows the power of ten.
DigitsSuffice(v) ==
    \A p \in Parts(v) : p.type = "Number" =>
        LET s == NumberText(p.number)
        IN  /\ Cardinality({i \in DOMAIN s : IsDigit(s[i]) /\ \A j \in 1 .. i : s[j] # "e"}) < MaxDigits
            /\ Shown(p.number).exp \in TenPowers

\* Without the members that are undefined.
Published(v) ==
    IF v.type # "Object" THEN v
    ELSE Object([k \in {l \in DOMAIN v.entries : v.entries[l].type # "Undefined"} |-> Published(v.entries[k])])

\* With the digits of its numbers that are written.
RECURSIVE Displayed(_)
Displayed(v) ==
    CASE v.type = "Number" -> Number([neg |-> v.number.neg] @@ Shown(v.number))
      [] v.type = "Array"  -> Array([i \in DOMAIN v.elements |-> Displayed(v.elements[i])])
      [] v.type = "Object" -> Object([k \in DOMAIN v.entries |-> Displayed(v.entries[k])])
      [] OTHER             -> v

\* What is published is the value: reading the text gives back all of it that is
\* defined, numbers to the digits that are written (one below one can be written with
\* more digits than are read again).  Values that operator== takes for equal, which is
\* how the updater tells changes, have one text, but for the sign of a zero; other
\* values have another text, if they differ in more than the digits of a number that
\* are not written.  Something undefined equals nothing and is published again in each
\* round.  And a copy has the text of what was copied unless there is a Boolean in it.
TextIsTheValue ==
    task.kind = "write" /\ result # None =>
        LET v == task.value
            w == task.other
            same == Written(w, <<>>) = text
        IN  /\ WithinTables(text) /\ DigitsSuffice(v) =>
                  result.read.ok /\ Near(result.read.value, Published(v))
            /\ Equal(v, w) => /\ same \/ \E p \in Parts(v) : p.type = "Number" /\ IsZero(p.number)
                              /\ ~Has("Undefined", v) /\ ~Has("Undefined", w)
            /\ same /\ ~Has("Undefined", v) /\ ~Has("Undefined", w) => Displayed(v) = Displayed(w)
            /\ ~Has("Boolean", v) => Written(Copy(v), <<>>) = text

\* The languages of a header with their weights: what is between commas.
Wanted(header) ==
    LET ink == SelectSeq(header, LAMBDA c : c # " ")
        all == IF ink = <<>> THEN <<>> ELSE Items(CHOOSE c \in Cuts(ink, ",") : \A d \in Cuts(ink, ",") : Len(d) <= Len(c))
        Fields(p) == CHOOSE c \in Cuts(p, ";") : \A d \in Cuts(p, ";") : Len(d) <= Len(c)
    IN  {<<Fields(all[i])[1], IF Len(Fields(all[i])) = 1 THEN 10 ELSE Weights[Last(Fields(all[i]))[3]]>> : i \in DOMAIN all}

\* A client gets each translation in the language that has most weight in its
\* Accept-Language of those there are; if there is none of them it gets the one for no
\* language, or none.
BestLanguageIsWritten ==
    task.kind = "answer" /\ result.kind = "answer" =>
        LET usable == {w \in Wanted(task.header) : w[1] \in task.has}
            best == {w[1] : w \in {u \in usable : \A v \in usable : v[2] <= u[2]}}
            choice == IF best # {} THEN best ELSE task.has \cap {<<>>}
        IN  text \in IF choice = {} THEN {<<"{", "}">>}
                     ELSE {<<"{", "\"", "name", "\"", ":", " ", "\"">> \o l \o <<"\"", "}">> : l \in choice}

=============================================================================
