--------------------------- MODULE AcceptLanguage ---------------------------
(***************************************************************************)
(* AbstractResource::getAcceptedLocales: the languages of the header        *)
(* Accept-Language, the one with most weight first.  A part of the name of  *)
(* a language, or a weight, is one character.  The function ends without a  *)
(* return; in a debug build, the default, the caller has its list all the   *)
(* same, for the list is made where the caller expects it.                  *)
(***************************************************************************)
EXTENDS Integers, Sequences, SequencesExt

CONSTANTS Weights,       \* the characters stof takes, and ten times their weight
          Rank,          \* the order of the characters in the names of languages
          MaxHeader      \* 1023

Locales(s) == [outcome |-> "locales", list |-> s]
BadRequest == [outcome |-> "400"]
Uncaught == [outcome |-> "terminate"]     \* std::invalid_argument; nobody catches it

IsBlank(c) == c = " "

\* The copy without blanks that ends with a comma.
Prepared(header) ==
    LET ink == SelectSeq(header, LAMBDA c : ~IsBlank(c))
    IN  IF ink = <<>> THEN <<>> ELSE IF Last(ink) = "," THEN ink ELSE Append(ink, ",")

\* The C string that starts at i, when what is behind it has been cut off.
Until(h, i) == SubSeq(h, i, Min({j \in i .. Len(h) : h[j] \in {",", ";"}}) - 1)

RECURSIVE Less(_, _)
Less(a, b) ==      \* of names
    /\ b # <<>>
    /\ \/ a = <<>>
       \/ Rank[a[1]] < Rank[b[1]]
       \/ a[1] = b[1] /\ Less(Tail(a), Tail(b))

RECURSIVE Weighted(_, _, _, _)

\* The loop: the list of <<weight, name>>, or why there is none.
Weighted(h, current, locale, weight) ==
    LET At(i) == IF i \in DOMAIN h THEN h[i] ELSE ""
        w == Until(h, weight)
        rest == Weighted(h, current + 1, current + 1, 0)
    IN  IF current > Len(h) THEN Locales(<<>>)
        ELSE IF h[current] = ";"
             THEN IF At(current + 1) = "q" /\ At(current + 2) = "="
                  THEN Weighted(h, current + 3, locale, current + 3) ELSE BadRequest
        ELSE IF h[current] # "," THEN Weighted(h, current + 1, locale, weight)
        ELSE IF weight = 0
             THEN IF rest.outcome # "locales" THEN rest
                  ELSE Locales(<< <<10, Until(h, locale)>> >> \o rest.list)
        ELSE IF w = <<>> THEN Uncaught
        ELSE IF w[1] \notin DOMAIN Weights THEN Uncaught
        ELSE IF rest.outcome # "locales" THEN rest
        ELSE Locales(<< <<Weights[w[1]], Until(h, locale)>> >> \o rest.list)

AscendingWeights(p, q) == p[1] < q[1] \/ (p[1] = q[1] /\ Less(p[2], q[2]))

\* sort(rbegin, rend): a pair that is larger comes first.
Precedes(p, q) == q[1] < p[1] \/ (q[1] = p[1] /\ Less(q[2], p[2]))

GetAcceptedLocales(header) ==
    LET h == Prepared(header)
        weighted == Weighted(h, 1, 1, 0)
        sorted == SortSeq(weighted.list, Precedes)
    IN  IF Len(header) > MaxHeader THEN BadRequest
        ELSE IF weighted.outcome # "locales" THEN weighted
        ELSE Locales([i \in DOMAIN sorted |-> sorted[i][2]])

=============================================================================
