------------------------------- MODULE Double -------------------------------
(***************************************************************************)
(* External: the arithmetic of the type double, IEEE 754 with rounding to   *)
(* the nearest, half to even.  A double is m * 2^e with m odd and fewer     *)
(* than Bits bits; pow is taken to be rounded like a product, while the C   *)
(* library's may be off by one in the last place.                           *)
(***************************************************************************)
EXTENDS Integers, Sequences, SequencesExt

CONSTANTS Bits,      \* 53
          Lowest,    \* -1074: the smallest double is 2^Lowest,
          Highest        \* 1024: and all are below 2^Highest

ASSUME DoubleAssumption == Bits \in Nat \ {0} /\ Lowest \in Int /\ Highest \in Int /\ Lowest + Bits < Highest

Nought(neg) == [neg |-> neg, m |-> 0, e |-> 0]
Infinity(neg) == [neg |-> neg, m |-> 1, e |-> Highest]
NaN == [neg |-> FALSE, m |-> 0, e |-> 1]

IsZero(x) == x.m = 0 /\ x # NaN
IsFinite(x) == x # NaN /\ x.e # Highest

\* The number of bits of n behind the first, and of the zeros at its end.
Log2(n) == LET l[k \in Nat] == IF k < 2 THEN 0 ELSE 1 + l[k \div 2] IN l[n]
Twos(n) == LET z[k \in Nat \ {0}] == IF k % 2 = 1 THEN 0 ELSE 1 + z[k \div 2] IN z[n]

\* n / d, half to even
Rounded(n, d) ==
    LET q == n \div d
        r == n % d
    IN  IF 2 * r > d \/ (2 * r = d /\ q % 2 = 1) THEN q + 1 ELSE q

\* m * 2^e, which needs no rounding.
Exactly(neg, m, e) ==
    IF m = 0 THEN Nought(neg)
    ELSE IF Log2(m) + e >= Highest THEN Infinity(neg)
    ELSE [neg |-> neg, m |-> m \div 2 ^ Twos(m), e |-> e + Twos(m)]

\* The double nearest to (n / d) * 2^s.
Nearest(neg, n, d, s) ==
    LET Over(k) == n * 2 ^ Max({k, 0})
        Under(k) == d * 2 ^ Max({-k, 0})
        Fit(k) == IF Over(k) \div Under(k) < 2 ^ Bits THEN k ELSE k - 1
        At(k) == Exactly(neg, Rounded(Over(k), Under(k)), s - k)    \* 2^(s - k) is the last place
    IN  IF n = 0 THEN Nought(neg) ELSE At(Fit(Min({Bits + Log2(d) - Log2(n), s - Lowest})))

Times(x, y) ==
    LET neg == x.neg # y.neg
    IN  IF IsFinite(x) /\ IsFinite(y) THEN Nearest(neg, x.m * y.m, 1, x.e + y.e)
        ELSE IF NaN \in {x, y} \/ IsZero(x) \/ IsZero(y) THEN NaN ELSE Infinity(neg)

Signed(neg, x) == IF neg /\ x # NaN THEN [x EXCEPT !.neg = ~@] ELSE x

\* n * 10^exp, rounded once; 10^exp is at least 8^exp, or at most.
FromDecimal(neg, n, exp) ==
    IF 3 * exp >= Highest /\ n # 0 THEN Infinity(neg)
    ELSE IF n = 0 \/ 3 * exp < Lowest - Log2(n) - 2 THEN Nought(neg)
    ELSE Nearest(neg, n * 5 ^ Max({exp, 0}), 5 ^ Max({-exp, 0}), exp)

\* pow(10.0, exp)
Pow10(exp) == FromDecimal(FALSE, 1, exp)

\* operator==
SameNumber(x, y) == x # NaN /\ (x = y \/ (IsZero(x) /\ IsZero(y)))

=============================================================================
