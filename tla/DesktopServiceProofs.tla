------------------------ MODULE DesktopServiceProofs ------------------------
(***************************************************************************)
(* Theorems about DesktopService, for any applications, mime types and      *)
(* sources, and any number of workers and changes.                          *)
(***************************************************************************)
EXTENDS DesktopService, SequenceTheorems, FiniteSetTheorems, TLAPS

-----------------------------------------------------------------------------
\* The list that a worker changes.
LEMMA PatchedType ==
    ASSUME NEW l \in List, NEW p \in Seq(Apps)
    PROVE  Patched(l, p) \in List
<1> DEFINE d == [l.defaults EXCEPT ![Exact] = p]
           m == [l EXCEPT !.defaults = d]
<1>1. l.defaults \in [Types -> Seq(Apps)]
    BY DEF List
<1>2. d \in [Types -> Seq(Apps)]
    BY <1>1
<1> HIDE DEF d
<1>3. m \in List
    BY <1>2 DEF List
<1>4. m = Patched(l, p)
    BY DEF m, d, Patched
<1> HIDE DEF m
<1> QED
    BY <1>3, <1>4

LEMMA NoListType == NoList \in List /\ Malformed \in List
<1>1. NoList \in List
    BY EmptySeq DEF NoList, List
<1>2. Malformed \in List
    BY <1>1 DEF Malformed, List
<1> QED
    BY <1>1, <1>2

\* One event more.
LEMMA OneMore ==
    ASSUME events \in Seq(Events), NEW e \in Events, Notify(e)
    PROVE  /\ events' \in Seq(Events)
           /\ \A i \in DOMAIN events : i \in DOMAIN events' /\ events'[i] = events[i]
           /\ \E i \in DOMAIN events' : events'[i] = e
<1>1. events' = Append(events, e)
    BY DEF Notify
<1>2. /\ events' \in Seq(Events) /\ Len(events') = Len(events) + 1
      /\ \A i \in 1 .. Len(events) : events'[i] = events[i]
      /\ events'[Len(events) + 1] = e
    BY <1>1, AppendProperties
<1>3. Len(events) \in Nat /\ DOMAIN events = 1 .. Len(events) /\ DOMAIN events' = 1 .. Len(events')
    BY <1>2, LenProperties
<1> QED
    BY <1>2, <1>3

-----------------------------------------------------------------------------
\* Without: the place of an element that stays is the number of those before it, so
\* the order is kept and each place is taken.
LEMMA RankGrows ==
    ASSUME NEW R \in SUBSET Nat, IsFiniteSet(R)
    PROVE  LET rank(i) == Cardinality({j \in R : j < i}) IN
           /\ Cardinality(R) \in Nat
           /\ \A i \in R : rank(i) \in 0 .. Cardinality(R) - 1
           /\ \A i, j \in R : i < j => rank(i) < rank(j)
<1> DEFINE before(i) == {j \in R : j < i}
           C == Cardinality(R)
<1>1. C \in Nat
    BY FS_CardinalityType
<1>2. \A i \in R : IsFiniteSet(before(i)) /\ Cardinality(before(i)) \in Nat
  <2> SUFFICES ASSUME NEW i \in R
               PROVE  IsFiniteSet(before(i)) /\ Cardinality(before(i)) \in Nat
      OBVIOUS
  <2>1. before(i) \in SUBSET R
      OBVIOUS
  <2>2. IsFiniteSet(before(i))
      BY <2>1, FS_Subset
  <2> QED
      BY <2>2, FS_CardinalityType
<1>3. ASSUME NEW i \in R
      PROVE  Cardinality(before(i)) \in 0 .. C - 1
  <2>1. before(i) \in SUBSET R /\ i \notin before(i)
    <3>1. ~ i < i
        OBVIOUS
    <3> QED
        BY <3>1
  <2>2. Cardinality(before(i)) <= C /\ (C = Cardinality(before(i)) => R = before(i))
      BY <2>1, FS_Subset
  <2> QED
      BY <2>1, <2>2, <1>1, <1>2
<1>4. ASSUME NEW i \in R, NEW j \in R, i < j
      PROVE  Cardinality(before(i)) < Cardinality(before(j))
  <2>1. before(i) \in SUBSET before(j) /\ i \in before(j) /\ i \notin before(i)
    <3>1. \A x \in Nat : x < i => x < j
        BY <1>4
    <3>2. ~ i < i
        OBVIOUS
    <3> QED
        BY <3>1, <3>2, <1>4
  <2>2. /\ Cardinality(before(i)) <= Cardinality(before(j))
        /\ Cardinality(before(j)) = Cardinality(before(i)) => before(j) = before(i)
      BY <2>1, <1>2, FS_Subset
  <2> QED
      BY <2>1, <2>2, <1>2
<1> QED
    BY <1>1, <1>3, <1>4

LEMMA EachPlaceIsTaken ==
    ASSUME NEW R \in SUBSET Nat, IsFiniteSet(R), NEW k \in 1 .. Cardinality(R)
    PROVE  \E i \in R : Cardinality({j \in R : j < i}) = k - 1
<1> DEFINE rank(i) == Cardinality({j \in R : j < i})
           C == Cardinality(R)
           f == [i \in R |-> rank(i)]
<1>1. C \in Nat /\ (\A i \in R : rank(i) \in 0 .. C - 1) /\ (\A i, j \in R : i < j => rank(i) < rank(j))
    BY RankGrows
<1>2. f \in Injection(R, 0 .. C - 1)
  <2> HIDE DEF rank
  <2>1. f \in [R -> 0 .. C - 1]
      BY <1>1
  <2>2. ASSUME NEW i \in R, NEW j \in R, f[i] = f[j]
        PROVE  i = j
    <3>1. rank(i) = rank(j) /\ rank(i) \in Int
        BY <1>1, <2>2
    <3>2. ~ i < j /\ ~ j < i
        BY <3>1, <1>1
    <3> QED
        BY <3>2
  <2> QED
      BY <2>1, <2>2 DEF Injection, IsInjective
<1>3. IsFiniteSet(0 .. C - 1) /\ Cardinality(0 .. C - 1) = C
  <2>1. 0 \in Int /\ C - 1 \in Int
      BY <1>1
  <2> QED
      BY <2>1, <1>1, FS_Interval
<1>4. f \in Surjection(R, 0 .. C - 1)
    BY <1>2, <1>3, FS_Injection
<1>5. k - 1 \in 0 .. C - 1
    BY <1>1
<1>6. PICK i \in R : f[i] = k - 1
    BY <1>4, <1>5 DEF Surjection
<1> QED
    BY <1>6

\* What stays of a sequence is what is not left out, in its order: f says where.
Picks(f, w, s, S) ==
    /\ f \in [1 .. Len(w) -> 1 .. Len(s)]
    /\ \A k \in 1 .. Len(w) : w[k] = s[f[k]] /\ s[f[k]] \notin S
    /\ \A k, h \in 1 .. Len(w) : k < h => f[k] < f[h]
    /\ \A i \in 1 .. Len(s) : s[i] \notin S => \E k \in 1 .. Len(w) : f[k] = i

LEMMA WithoutIs ==
    ASSUME NEW s \in Seq(Apps), NEW S
    PROVE  /\ Without(s, S) \in Seq(Apps)
           /\ \E f : Picks(f, Without(s, S), s, S)
<1> DEFINE R == {i \in DOMAIN s : s[i] \notin S}
           C == Cardinality(R)
           rank(i) == Cardinality({j \in R : j < i})
           nth(k) == CHOOSE i \in R : rank(i) = k - 1
           f == [k \in 1 .. C |-> nth(k)]
           w == Without(s, S)
<1>1. Len(s) \in Nat /\ DOMAIN s = 1 .. Len(s) /\ \A i \in 1 .. Len(s) : s[i] \in Apps
    BY LenProperties
<1>2. R \in SUBSET Nat /\ R \in SUBSET (1 .. Len(s)) /\ IsFiniteSet(R)
  <2>1. R \in SUBSET (1 .. Len(s)) /\ 1 \in Int /\ Len(s) \in Int
      BY <1>1
  <2>2. IsFiniteSet(1 .. Len(s))
      BY <2>1, FS_Interval
  <2> QED
      BY <2>1, <2>2, FS_Subset
<1>3. C \in Nat /\ (\A i \in R : rank(i) \in 0 .. C - 1) /\ (\A i, j \in R : i < j => rank(i) < rank(j))
    BY <1>2, RankGrows
<1>4. \A k \in 1 .. C : \E i \in R : rank(i) = k - 1
    BY <1>2, EachPlaceIsTaken
<1>5. w = [k \in 1 .. C |-> s[nth(k)]]
    BY DEF Without
<1>6. R = {i \in 1 .. Len(s) : s[i] \notin S}
    BY <1>1
<1> HIDE DEF R, rank, w, C
<1>7. \A k \in 1 .. C : nth(k) \in R /\ rank(nth(k)) = k - 1
    BY <1>4
<1>8. w \in Seq(Apps) /\ Len(w) = C /\ \A k \in 1 .. C : w[k] = s[nth(k)]
  <2>1. \A k \in 1 .. C : s[nth(k)] \in Apps
      BY <1>1, <1>2, <1>7
  <2> HIDE DEF nth
  <2> QED
      BY <1>3, <1>5, <2>1
<1>9. \A k, l \in 1 .. C : k < l => nth(k) < nth(l)
  <2> SUFFICES ASSUME NEW k \in 1 .. C, NEW l \in 1 .. C, k < l
               PROVE  nth(k) < nth(l)
      OBVIOUS
  <2>1. nth(k) \in R /\ nth(l) \in R /\ rank(nth(k)) = k - 1 /\ rank(nth(l)) = l - 1
      BY <1>7
  <2> HIDE DEF nth
  <2>2. /\ nth(k) \in Nat /\ nth(l) \in Nat
        /\ k \in Nat /\ l \in Nat
    <3>1. nth(k) \in Nat /\ nth(l) \in Nat
        BY <1>2, <2>1
    <3>2. k \in Nat /\ l \in Nat
        BY <1>3
    <3> QED
        BY <3>1, <3>2
  <2>3. nth(k) # nth(l) /\ ~ nth(l) < nth(k)
      BY <1>3, <2>1, <2>2
  <2> QED
      BY <2>2, <2>3
<1>10. \A i \in R : \E k \in 1 .. C : nth(k) = i
  <2> SUFFICES ASSUME NEW i \in R
               PROVE  \E k \in 1 .. C : nth(k) = i
      OBVIOUS
  <2> DEFINE k == rank(i) + 1
  <2>1. rank(i) \in 0 .. C - 1 /\ k \in 1 .. C /\ k - 1 = rank(i)
      BY <1>3
  <2>2. nth(k) \in R /\ rank(nth(k)) = rank(i)
      BY <2>1, <1>7
  <2> HIDE DEF nth, k
  <2>3. ~ i < nth(k) /\ ~ nth(k) < i
      BY <1>3, <2>1, <2>2
  <2>4. nth(k) \in Nat /\ i \in Nat
      BY <1>2, <2>2
  <2>5. nth(k) = i
      BY <2>3, <2>4
  <2> QED
      BY <2>1, <2>5
<1>11. f \in [1 .. C -> 1 .. Len(s)] /\ \A k \in 1 .. C : f[k] = nth(k)
    BY <1>2, <1>7
<1> HIDE DEF nth, f
<1>12. /\ \A k \in 1 .. C : w[k] = s[f[k]] /\ s[f[k]] \notin S
       /\ \A k, l \in 1 .. C : k < l => f[k] < f[l]
       /\ \A i \in 1 .. Len(s) : s[i] \notin S => \E k \in 1 .. C : f[k] = i
    BY <1>6, <1>7, <1>8, <1>9, <1>10, <1>11
<1>13. Picks(f, w, s, S)
    BY <1>8, <1>11, <1>12 DEF Picks
<1> QED
    BY <1>8, <1>13 DEF w

-----------------------------------------------------------------------------
\* What the collector has read of files that stay as they are: the sources before n.

LEMMA SourceNumbers ==
    /\ Len(Sources) \in Nat
    /\ AppDirs \cup ListFiles = 1 .. Len(Sources) /\ AppDirs \cap ListFiles = {}
    BY DesktopServiceAssumption, LenProperties DEF AppDirs, ListFiles

\* Before, for the lists L of one type in the sources before n.
FirstIn(L, n, a, b) ==
    \E f \in ListFiles :
       /\ f < n
       /\ \E i \in DOMAIN L[f] : L[f][i] = a /\ \A j \in 1 .. i : L[f][j] # b
       /\ \A g \in ListFiles : f < g /\ g < n => {a, b} \cap Elements(L[g]) = {}

\* And InOrder.
InOrderTo(L, n, s) ==
    /\ Elements(s) = UNION {Elements(L[f]) : f \in {g \in ListFiles : g < n}}
    /\ \A i, j \in DOMAIN s : i < j /\ (\A k \in 1 .. j - 1 : s[k] # s[j]) => FirstIn(L, n, s[i], s[j])
    /\ (\A f \in ListFiles : f < n => Once(L[f])) => Once(s)

\* A list is put in front of what was collected, without what it names.
LEMMA FirstInNext ==
    ASSUME NEW L \in [ListFiles -> Seq(Apps)], NEW n \in ListFiles, NEW a, NEW b
    PROVE  /\ FirstIn(L, n, a, b) /\ a \notin Elements(L[n]) /\ b \notin Elements(L[n]) => FirstIn(L, n + 1, a, b)
           /\ (\E i \in DOMAIN L[n] : L[n][i] = a /\ \A j \in 1 .. i : L[n][j] # b) => FirstIn(L, n + 1, a, b)
<1>1. ListFiles \subseteq Nat
    BY SourceNumbers
<1>2. \A g \in ListFiles : (g < n + 1 <=> g < n \/ g = n) /\ ~ (n < g /\ g < n + 1)
    BY <1>1
<1>3. ASSUME FirstIn(L, n, a, b), a \notin Elements(L[n]), b \notin Elements(L[n])
      PROVE  FirstIn(L, n + 1, a, b)
  <2>1. PICK f \in ListFiles :
           /\ f < n
           /\ \E i \in DOMAIN L[f] : L[f][i] = a /\ \A j \in 1 .. i : L[f][j] # b
           /\ \A g \in ListFiles : f < g /\ g < n => {a, b} \cap Elements(L[g]) = {}
      BY <1>3 DEF FirstIn
  <2>2. \A g \in ListFiles : f < g /\ g < n + 1 => {a, b} \cap Elements(L[g]) = {}
    <3> SUFFICES ASSUME NEW g \in ListFiles, f < g, g < n + 1
                 PROVE  {a, b} \cap Elements(L[g]) = {}
        OBVIOUS
    <3>1. CASE g < n
        BY <2>1, <3>1
    <3>2. CASE g = n
        BY <1>3, <3>2
    <3> QED
        BY <1>2, <3>1, <3>2
  <2>3. f < n + 1
      BY <1>2, <2>1
  <2> QED
      BY <2>1, <2>2, <2>3 DEF FirstIn
<1>4. ASSUME NEW i \in DOMAIN L[n], L[n][i] = a, \A j \in 1 .. i : L[n][j] # b
      PROVE  FirstIn(L, n + 1, a, b)
    BY <1>2, <1>4 DEF FirstIn
<1> QED
    BY <1>3, <1>4

LEMMA InOrderNext ==
    ASSUME NEW L \in [ListFiles -> Seq(Apps)], NEW n \in ListFiles, NEW s \in Seq(Apps), InOrderTo(L, n, s)
    PROVE  /\ L[n] \o Without(s, Elements(L[n])) \in Seq(Apps)
           /\ InOrderTo(L, n + 1, L[n] \o Without(s, Elements(L[n])))
<1> DEFINE l == L[n]
           w == Without(s, Elements(l))
           r == l \o w
           p == Len(l)
           q == Len(w)
           m == Len(s)
<1>0. w \in Seq(Apps) /\ l \in Seq(Apps) /\ \E f : Picks(f, w, s, Elements(l))
    BY WithoutIs
<1>1. PICK f \in [1 .. q -> 1 .. m] :
         /\ \A k \in 1 .. q : w[k] = s[f[k]] /\ s[f[k]] \notin Elements(l)
         /\ \A k, j \in 1 .. q : k < j => f[k] < f[j]
         /\ \A i \in 1 .. m : s[i] \notin Elements(l) => \E k \in 1 .. q : f[k] = i
    BY <1>0 DEF Picks
<1>2. w \in Seq(Apps) /\ l \in Seq(Apps)
    BY <1>0
<1> HIDE DEF w, l
<1>3. p \in Nat /\ q \in Nat /\ m \in Nat /\ DOMAIN l = 1 .. p /\ DOMAIN w = 1 .. q /\ DOMAIN s = 1 .. m
    BY <1>2, LenProperties
<1>4. /\ r \in Seq(Apps) /\ DOMAIN r = 1 .. p + q
      /\ \A i \in 1 .. p : r[i] = l[i]
      /\ \A k \in 1 .. q : r[p + k] = w[k]
  <2>1. r \in Seq(Apps) /\ Len(r) = p + q /\ \A i \in 1 .. p + q : r[i] = IF i <= p THEN l[i] ELSE w[i - p]
      BY <1>2, ConcatProperties
  <2>2. DOMAIN r = 1 .. p + q
      BY <2>1, LenProperties
  <2>3. \A k \in 1 .. q : p + k \in 1 .. p + q /\ ~ (p + k <= p) /\ p + k - p = k
      BY <1>3
  <2>4. \A i \in 1 .. p : i \in 1 .. p + q /\ i <= p
      BY <1>3
  <2> HIDE DEF r, p, q
  <2>5. ASSUME NEW k \in 1 .. q
        PROVE  r[p + k] = w[k]
    <3> DEFINE i == p + k
    <3>1. i \in 1 .. p + q /\ ~ (i <= p) /\ i - p = k
        BY <1>3
    <3> HIDE DEF i
    <3>2. r[i] = w[k]
        BY <2>1, <3>1
    <3> QED
        BY <3>2 DEF i
  <2>6. \A i \in 1 .. p : r[i] = l[i]
      BY <2>1, <2>4
  <2> QED
      BY <2>1, <2>2, <2>5, <2>6
<1> HIDE DEF r, p, q, m
<1>5. \A i \in DOMAIN r : i \in 1 .. p \/ \E k \in 1 .. q : i = p + k
  <2> SUFFICES ASSUME NEW i \in 1 .. p + q, i \notin 1 .. p
               PROVE  \E k \in 1 .. q : i = p + k
      BY <1>4
  <2>1. i - p \in 1 .. q /\ i = p + (i - p)
      BY <1>3
  <2> QED
      BY <2>1
<1>6. Elements(l) = {l[i] : i \in 1 .. p} /\ Elements(s) = {s[i] : i \in 1 .. m} /\ Elements(r) = {r[i] : i \in DOMAIN r}
    BY <1>3 DEF Elements
<1>7. Elements(r) = Elements(l) \cup Elements(s)
  <2>1. ASSUME NEW a \in Elements(r)
        PROVE  a \in Elements(l) \cup Elements(s)
    <3>1. PICK i \in DOMAIN r : a = r[i]
        BY <1>6, <2>1
    <3>2. CASE i \in 1 .. p
        BY <1>4, <1>6, <3>1, <3>2
    <3>3. CASE \E k \in 1 .. q : i = p + k
      <4>1. PICK k \in 1 .. q : i = p + k
          BY <3>3
      <4>2. a = s[f[k]] /\ f[k] \in 1 .. m
          BY <1>1, <1>4, <3>1, <4>1
      <4> QED
          BY <1>6, <4>2
    <3> QED
        BY <1>5, <3>2, <3>3
  <2>2. ASSUME NEW a \in Elements(l)
        PROVE  a \in Elements(r)
    <3>1. PICK i \in 1 .. p : a = l[i]
        BY <1>6, <2>2
    <3>2. i \in 1 .. p + q
        BY <1>3
    <3>3. i \in DOMAIN r /\ r[i] = a
        BY <1>4, <3>1, <3>2
    <3> QED
        BY <1>6, <3>3
  <2>3. ASSUME NEW a \in Elements(s), a \notin Elements(l)
        PROVE  a \in Elements(r)
    <3>1. PICK i \in 1 .. m : a = s[i]
        BY <1>6, <2>3
    <3>2. PICK k \in 1 .. q : f[k] = i
        BY <1>1, <2>3, <3>1
    <3>3. p + k \in DOMAIN r /\ r[p + k] = a
        BY <1>1, <1>3, <1>4, <3>1, <3>2
    <3> QED
        BY <1>6, <3>3
  <2> QED
      BY <2>1, <2>2, <2>3
<1>8. Elements(r) = UNION {Elements(L[g]) : g \in {h \in ListFiles : h < n + 1}}
  <2>1. \A g \in ListFiles : g < n + 1 <=> g < n \/ g = n
      BY SourceNumbers
  <2>2. Elements(s) = UNION {Elements(L[g]) : g \in {h \in ListFiles : h < n}}
      BY DEF InOrderTo
  <2> QED
      BY <1>7, <2>1, <2>2 DEF l
<1>9. ASSUME NEW i \in DOMAIN r, NEW j \in DOMAIN r, i < j, \A k \in 1 .. j - 1 : r[k] # r[j]
      PROVE  FirstIn(L, n + 1, r[i], r[j])
  <2>1. CASE i \in 1 .. p
    <3>1. \A k \in 1 .. i : k \in 1 .. j - 1 /\ k \in 1 .. p
        BY <1>3, <1>4, <1>9, <2>1
    <3>2. r[i] = l[i] /\ \A k \in 1 .. i : l[k] # r[j]
        BY <1>4, <1>9, <2>1, <3>1
    <3> QED
        BY <1>3, <2>1, <3>2, FirstInNext DEF l
  <2>2. CASE i \notin 1 .. p
    <3>1. PICK k \in 1 .. q : i = p + k
        BY <1>5, <2>2
    <3>2. j \notin 1 .. p
        BY <1>3, <1>9, <3>1
    <3>3. PICK h \in 1 .. q : j = p + h
        BY <1>5, <3>2
    <3>4. k < h
        BY <1>3, <1>9, <3>1, <3>3
    <3>5. r[i] = s[f[k]] /\ r[j] = s[f[h]] /\ r[i] \notin Elements(l) /\ r[j] \notin Elements(l)
        BY <1>1, <1>4, <3>1, <3>3
    <3>6. f[k] \in 1 .. m /\ f[h] \in 1 .. m /\ f[k] < f[h]
        BY <1>1, <3>4
    <3>7. \A x \in 1 .. f[h] - 1 : s[x] # s[f[h]]
      <4> SUFFICES ASSUME NEW x \in 1 .. f[h] - 1, s[x] = s[f[h]]
                   PROVE  FALSE
          OBVIOUS
      <4>1. x \in 1 .. m /\ x < f[h]
          BY <1>3, <3>6
      <4>2. PICK y \in 1 .. q : f[y] = x
          BY <1>1, <3>5, <4>1
      <4>3. f[y] < f[h] /\ f[y] \in Nat /\ f[h] \in Nat
          BY <1>1, <1>3, <3>6, <4>1, <4>2
      <4>4. ~ (h < y) /\ y # h
          BY <1>1, <4>3
      <4>5. p + y \in 1 .. j - 1
          BY <1>3, <3>3, <4>4
      <4>6. r[p + y] = s[x]
          BY <1>1, <1>4, <4>2
      <4> QED
          BY <1>9, <3>5, <4>5, <4>6
    <3>8. FirstIn(L, n, r[i], r[j])
        BY <1>3, <3>5, <3>6, <3>7 DEF InOrderTo
    <3> QED
        BY <3>5, <3>8, FirstInNext DEF l
  <2> QED
      BY <2>1, <2>2
<1>10. ASSUME \A g \in ListFiles : g < n + 1 => Once(L[g])
       PROVE  Once(r)
  <2>1. Once(s) /\ Once(l)
    <3>1. \A g \in ListFiles : (g < n => g < n + 1) /\ n < n + 1
        BY SourceNumbers
    <3> QED
        BY <1>10, <3>1 DEF InOrderTo, l
  <2> SUFFICES ASSUME NEW i \in DOMAIN r, NEW j \in DOMAIN r, r[i] = r[j]
               PROVE  i = j
      BY DEF Once
  <2>2. CASE i \in 1 .. p /\ j \in 1 .. p
      BY <1>3, <1>4, <2>1, <2>2 DEF Once
  <2>3. ASSUME NEW k \in 1 .. q, NEW x \in 1 .. p
        PROVE  r[p + k] # r[x]
    <3>1. r[p + k] \notin Elements(l)
        BY <1>1, <1>4
    <3> QED
        BY <1>4, <1>6, <3>1
  <2>4. ASSUME NEW k \in 1 .. q, NEW h \in 1 .. q, i = p + k, j = p + h
        PROVE  i = j
    <3>1. s[f[k]] = s[f[h]] /\ f[k] \in 1 .. m /\ f[h] \in 1 .. m
        BY <1>1, <1>4, <2>4
    <3>2. f[k] = f[h]
        BY <1>3, <2>1, <3>1 DEF Once
    <3>3. ~ k < h /\ ~ h < k
      <4>1. f[k] \in Nat /\ ~ f[k] < f[h] /\ ~ f[h] < f[k]
          BY <1>3, <3>1, <3>2
      <4> QED
          BY <1>1, <4>1
    <3> QED
        BY <1>3, <2>4, <3>3
  <2> QED
      BY <1>5, <2>2, <2>3, <2>4
<1>11. InOrderTo(L, n + 1, r)
    BY <1>8, <1>9, <1>10 DEF InOrderTo
<1> QED
    BY <1>4, <1>11 DEF r, w, l

-----------------------------------------------------------------------------
\* LastDir and MimetypesOf, for the directories ap and the lists ls before source n.
Has(ap, n, a) == {d \in AppDirs : d < n /\ ap[d][a] # NoFile}
LastOf(H) == IF H = {} THEN 0 ELSE CHOOSE d \in H : \A e \in H : e <= d
LastIn(ap, n, a) == LastOf(Has(ap, n, a))
TypesIn(ap, ls, n, a) ==
    LET d == LastIn(ap, n, a) IN
    IF d = 0 THEN NoFile
    ELSE ap[d][a] \cup {t \in Types : \E f \in ListFiles : d < f /\ f < n /\ a \in ls[f].added[t]}
LastKnown(ap, n, a) == LastIn(ap, n, a) = 0 \/ LastIn(ap, n, a) \in Has(ap, n, a)

LEMMA LastInNext ==
    ASSUME NEW ap, NEW n \in 1 .. Len(Sources), NEW a
    PROVE  /\ n \in AppDirs /\ ap[n][a] # NoFile => LastIn(ap, n + 1, a) = n /\ n \in Has(ap, n + 1, a)
           /\ n \notin AppDirs \/ ap[n][a] = NoFile => /\ Has(ap, n + 1, a) = Has(ap, n, a)
                                                     /\ LastIn(ap, n + 1, a) = LastIn(ap, n, a)
<1>1. AppDirs \subseteq Nat /\ n \in Nat /\ \A d \in AppDirs : d < n + 1 <=> d < n \/ d = n
    BY SourceNumbers
<1>2. ASSUME n \in AppDirs, ap[n][a] # NoFile
      PROVE  LastIn(ap, n + 1, a) = n /\ n \in Has(ap, n + 1, a)
  <2>1. n \in Has(ap, n + 1, a) /\ Has(ap, n + 1, a) \subseteq Nat /\ \A e \in Has(ap, n + 1, a) : e <= n
    <3>1. n < n + 1 /\ \A e \in Nat : e < n \/ e = n => e <= n
        BY <1>1
    <3>2. n \in Has(ap, n + 1, a)
        BY <1>1, <1>2, <3>1 DEF Has
    <3>3. \A e \in Has(ap, n + 1, a) : e \in AppDirs /\ e < n + 1
        BY DEF Has
    <3> QED
        BY <1>1, <3>1, <3>2, <3>3
  <2> DEFINE H == Has(ap, n + 1, a)
             d == CHOOSE x \in H : \A e \in H : e <= x
  <2>2. d \in H /\ \A e \in H : e <= d
      BY <2>1
  <2>3. d = n
    <3> HIDE DEF d, H
    <3>1. d \in Nat /\ d <= n /\ n <= d
        BY <1>1, <2>1, <2>2 DEF H
    <3> QED
        BY <1>1, <3>1
  <2> QED
      BY <2>1, <2>3 DEF LastIn, LastOf
<1>3. ASSUME n \notin AppDirs \/ ap[n][a] = NoFile
      PROVE  Has(ap, n + 1, a) = Has(ap, n, a)
    BY <1>1, <1>3 DEF Has
<1>4. ASSUME n \notin AppDirs \/ ap[n][a] = NoFile
      PROVE  LastIn(ap, n + 1, a) = LastIn(ap, n, a)
    BY <1>3, <1>4 DEF LastIn
<1> QED
    BY <1>2, <1>3, <1>4

\* A directory replaces what was known of the applications it has.
LEMMA TypesOfDir ==
    ASSUME NEW ap, NEW ls, NEW n \in AppDirs, NEW a, LastKnown(ap, n, a)
    PROVE  /\ LastKnown(ap, n + 1, a)
           /\ TypesIn(ap, ls, n + 1, a) = IF ap[n][a] = NoFile THEN TypesIn(ap, ls, n, a) ELSE ap[n][a]
<1>1. /\ n \in 1 .. Len(Sources) /\ n # 0
      /\ \A f \in ListFiles : (f < n + 1 <=> f < n) /\ ~ (n < f /\ f < n + 1)
  <2>1. n \in Nat \ {0} /\ ListFiles \subseteq Nat /\ n \notin ListFiles /\ n \in 1 .. Len(Sources)
      BY SourceNumbers
  <2> QED
      BY <2>1
<1>2. CASE ap[n][a] = NoFile
  <2>1. Has(ap, n + 1, a) = Has(ap, n, a) /\ LastIn(ap, n + 1, a) = LastIn(ap, n, a)
      BY <1>1, <1>2, LastInNext
  <2>2. TypesIn(ap, ls, n + 1, a) = TypesIn(ap, ls, n, a)
    <3> DEFINE d == LastIn(ap, n, a)
               S(m) == {t \in Types : \E f \in ListFiles : d < f /\ f < m /\ a \in ls[f].added[t]}
    <3>1. S(n + 1) = S(n)
        BY <1>1
    <3>2. /\ TypesIn(ap, ls, n, a) = IF d = 0 THEN NoFile ELSE ap[d][a] \cup S(n)
          /\ TypesIn(ap, ls, n + 1, a) = IF d = 0 THEN NoFile ELSE ap[d][a] \cup S(n + 1)
        BY <2>1 DEF TypesIn
    <3> HIDE DEF S
    <3> QED
        BY <3>1, <3>2
  <2> QED
      BY <1>2, <2>1, <2>2 DEF LastKnown
<1>3. CASE ap[n][a] # NoFile
  <2>1. LastIn(ap, n + 1, a) = n /\ n \in Has(ap, n + 1, a)
      BY <1>1, <1>3, LastInNext
  <2>2. {t \in Types : \E f \in ListFiles : n < f /\ f < n + 1 /\ a \in ls[f].added[t]} = {}
      BY <1>1
  <2>3. TypesIn(ap, ls, n + 1, a) = ap[n][a] \cup {}
      BY <1>1, <2>1, <2>2 DEF TypesIn
  <2> QED
      BY <1>3, <2>1, <2>3 DEF LastKnown
<1> QED
    BY <1>2, <1>3

\* A list adds to them.
AddedIn(ls, n, a) == {t \in Types : a \in ls[n].added[t]}
TypesWith(ap, ls, n, a) == TypesIn(ap, ls, n, a) \cup AddedIn(ls, n, a)

LEMMA TypesOfList ==
    ASSUME NEW ap, NEW ls, NEW n \in ListFiles, NEW a, LastKnown(ap, n, a), \A d \in AppDirs : ap[d][a] \in Contents
    PROVE  /\ LastKnown(ap, n + 1, a)
           /\ TypesIn(ap, ls, n, a) = NoFile => TypesIn(ap, ls, n + 1, a) = NoFile
           /\ TypesIn(ap, ls, n, a) # NoFile =>
                 TypesIn(ap, ls, n + 1, a) = TypesWith(ap, ls, n, a)
<1> DEFINE d == LastIn(ap, n, a)
           S(m) == {t \in Types : \E f \in ListFiles : d < f /\ f < m /\ a \in ls[f].added[t]}
           T == AddedIn(ls, n, a)
<1>1. /\ n \in 1 .. Len(Sources) /\ n \notin AppDirs /\ AppDirs \subseteq Nat \ {0}
      /\ \A f \in ListFiles : f < n + 1 <=> f < n \/ f = n
  <2>1. n \in Nat /\ ListFiles \subseteq Nat /\ n \notin AppDirs /\ n \in 1 .. Len(Sources)
      BY SourceNumbers
  <2>2. AppDirs \subseteq Nat \ {0}
      BY SourceNumbers
  <2> QED
      BY <2>1, <2>2
<1>2. Has(ap, n + 1, a) = Has(ap, n, a) /\ LastIn(ap, n + 1, a) = d
  <2>1. n \in 1 .. Len(Sources) /\ n \notin AppDirs
      BY <1>1
  <2> QED
      BY <2>1, LastInNext
<1>3. /\ TypesIn(ap, ls, n, a) = IF d = 0 THEN NoFile ELSE ap[d][a] \cup S(n)
      /\ TypesIn(ap, ls, n + 1, a) = IF d = 0 THEN NoFile ELSE ap[d][a] \cup S(n + 1)
    BY <1>2 DEF TypesIn
<1>4. CASE d = 0
    BY <1>2, <1>3, <1>4 DEF LastKnown
<1>5. CASE d # 0
  <2>1. d \in Has(ap, n, a)
      BY <1>5 DEF LastKnown
  <2>2. d < n /\ ap[d][a] # NoFile /\ ap[d][a] \in Contents
      BY <2>1 DEF Has
  <2>3. S(n + 1) = S(n) \cup T
      BY <1>1, <2>2 DEF AddedIn
  <2>4. ap[d][a] \cup S(n) # NoFile
    <3>1. S(n) \subseteq Types /\ "no file" \notin Types
        BY DesktopServiceAssumption
    <3> HIDE DEF S
    <3>2. CASE ap[d][a] \subseteq Types
        BY <3>1, <3>2 DEF NoFile
    <3>3. CASE ap[d][a] = Partial
        BY <3>3 DEF NoFile, Partial
    <3>4. ap[d][a] \subseteq Types \/ ap[d][a] = NoFile \/ ap[d][a] = Partial
        BY <2>2 DEF Contents
    <3> QED
        BY <2>2, <3>2, <3>3, <3>4
  <2> HIDE DEF S, T, d
  <2>5. TypesIn(ap, ls, n + 1, a) = (ap[d][a] \cup S(n)) \cup T
      BY <1>3, <1>5, <2>3
  <2> QED
      BY <1>2, <1>3, <1>5, <2>1, <2>4, <2>5 DEF LastKnown, TypesWith, T, d
<1> QED
    BY <1>4, <1>5

-----------------------------------------------------------------------------
\* What is collected before source n is what the files say now.
DefaultsOfType(ls, t) == [f \in ListFiles |-> ls[f].defaults[t]]

Fresh(ap, ls, col, def, n) ==
    /\ \A a \in Apps : LastKnown(ap, n, a) /\ col[a] = TypesIn(ap, ls, n, a)
    /\ \A t \in Types : InOrderTo(DefaultsOfType(ls, t), n, def[t])

\* Nothing has been collected.
LEMMA FreshStart ==
    ASSUME NEW ap, NEW ls
    PROVE  Fresh(ap, ls, NoApps, NoDefaults, 1)
<1>1. \A d \in AppDirs \cup ListFiles : ~ d < 1
    BY SourceNumbers
<1>2. \A a \in Apps : Has(ap, 1, a) = {}
    BY <1>1 DEF Has
<1>3. \A a \in Apps : LastIn(ap, 1, a) = 0
    BY <1>2 DEF LastIn, LastOf
<1>4. \A a \in Apps : LastKnown(ap, 1, a) /\ NoApps[a] = TypesIn(ap, ls, 1, a)
    BY <1>3 DEF LastKnown, TypesIn, NoApps
<1>5. \A t \in Types : InOrderTo(DefaultsOfType(ls, t), 1, NoDefaults[t])
  <2> SUFFICES ASSUME NEW t \in Types
               PROVE  InOrderTo(DefaultsOfType(ls, t), 1, <<>>)
      BY DEF NoDefaults
  <2>1. DOMAIN <<>> = {}
      OBVIOUS
  <2>2. Elements(<<>>) = {} /\ Once(<<>>)
      BY <2>1 DEF Elements, Once
  <2>3. {g \in ListFiles : g < 1} = {}
      BY <1>1
  <2> QED
      BY <2>1, <2>2, <2>3 DEF InOrderTo
<1> QED
    BY <1>4, <1>5 DEF Fresh

\* When all of the sources have been read.
LEMMA FreshEnd ==
    ASSUME NEW a, NEW t, NEW s
    PROVE  /\ TypesIn(apps, lists, Len(Sources) + 1, a) = MimetypesOf(a)
           /\ InOrderTo(DefaultsOfType(lists, t), Len(Sources) + 1, s) => InOrder(s, t)
<1> DEFINE n == Len(Sources) + 1
           L == DefaultsOfType(lists, t)
<1>1. \A d \in AppDirs \cup ListFiles : d < n
    BY SourceNumbers
<1> HIDE DEF n
<1>2. Has(apps, n, a) = {d \in AppDirs : apps[d][a] # NoFile}
    BY <1>1 DEF Has
<1>3. LastIn(apps, n, a) = LastDir(a)
    BY <1>2 DEF LastIn, LastOf, LastDir
<1>4. TypesIn(apps, lists, n, a) = MimetypesOf(a)
  <2> DEFINE d == LastDir(a)
  <2>1. {u \in Types : \E f \in ListFiles : d < f /\ f < n /\ a \in lists[f].added[u]}
            = {u \in Types : \E f \in ListFiles : f > d /\ a \in lists[f].added[u]}
      BY <1>1
  <2> HIDE DEF d
  <2> QED
      BY <1>3, <2>1 DEF TypesIn, MimetypesOf, d
<1>5. \A f \in ListFiles : L[f] = lists[f].defaults[t]
    BY DEF DefaultsOfType
<1>6. ASSUME InOrderTo(L, n, s)
      PROVE  InOrder(s, t)
  <2> HIDE DEF L
  <2>1. {g \in ListFiles : g < n} = ListFiles
      BY <1>1
  <2>2. Elements(s) = UNION {Elements(lists[f].defaults[t]) : f \in ListFiles}
      BY <1>5, <1>6, <2>1 DEF InOrderTo
  <2>3. \A x, y : FirstIn(L, n, x, y) => Before(t, x, y)
    <3> SUFFICES ASSUME NEW x, NEW y, FirstIn(L, n, x, y)
                 PROVE  Before(t, x, y)
        OBVIOUS
    <3>1. PICK f \in ListFiles :
             /\ \E i \in DOMAIN L[f] : L[f][i] = x /\ \A j \in 1 .. i : L[f][j] # y
             /\ \A g \in ListFiles : f < g /\ g < n => {x, y} \cap Elements(L[g]) = {}
        BY DEF FirstIn
    <3>2. \A g \in ListFiles : g > f => {x, y} \cap Elements(lists[g].defaults[t]) = {}
        BY <1>1, <1>5, <3>1
    <3>3. PICK i \in DOMAIN lists[f].defaults[t] :
             lists[f].defaults[t][i] = x /\ \A j \in 1 .. i : lists[f].defaults[t][j] # y
        BY <1>5, <3>1
    <3> QED
        BY <3>2, <3>3 DEF Before
  <2>4. (\A f \in ListFiles : Once(lists[f].defaults[t])) => Once(s)
      BY <1>5, <1>6 DEF InOrderTo
  <2>5. \A i, j \in DOMAIN s : i < j /\ (\A k \in 1 .. j - 1 : s[k] # s[j]) => Before(t, s[i], s[j])
      BY <1>6, <2>3 DEF InOrderTo
  <2> QED
      BY <2>2, <2>4, <2>5 DEF InOrder
<1> QED
    BY <1>4, <1>6 DEF n

-----------------------------------------------------------------------------
\* TypeOK, in the parts that an action touches together.
FilesTyped == apps \in [AppDirs -> [Apps -> Contents]] /\ lists \in [ListFiles -> List] /\ dirs \subseteq AppDirs
ChangesTyped == changes \in 0 .. MaxChanges
EventsTyped == events \in Seq(Events)
LoopTyped == pc \in {"collect", "poll", "read", "settle", "dead"} /\ somethingChanged \in BOOLEAN /\ missed \in BOOLEAN
CollectorTyped ==
    /\ next \in 1 .. Len(Sources) + 1
    /\ collected \in [Apps -> (SUBSET Types) \cup {NoFile}]
    /\ defaults \in [Types -> Seq(Apps)]
PublishedTyped ==
    /\ published.apps \in [Apps -> (SUBSET Types) \cup {NoFile}]
    /\ published.types \in [Known -> [associated : SUBSET Apps, defaults : Seq(Apps)]]
WorkersTyped ==
    /\ wpc \in [Workers -> {"idle", "read", "truncate", "write"}]
    /\ patch \in [Workers -> Seq(Apps)]
    /\ list \in [Workers -> List]
    /\ serial \in List
    /\ alone \in [Workers -> BOOLEAN]

LEMMA Bounds == MaxChanges \in Nat /\ MaxBatch \in Nat \ {0}
    BY DesktopServiceAssumption

LEMMA TypeParts ==
    TypeOK <=> FilesTyped /\ ChangesTyped /\ EventsTyped /\ LoopTyped /\ CollectorTyped /\ PublishedTyped /\ WorkersTyped
    BY Zenon DEF TypeOK, FilesTyped, ChangesTyped, EventsTyped, LoopTyped, CollectorTyped, PublishedTyped, WorkersTyped

LEMMA PartsUnchanged ==
    /\ FilesTyped /\ UNCHANGED files => FilesTyped'
    /\ ChangesTyped /\ UNCHANGED changes => ChangesTyped'
    /\ EventsTyped /\ UNCHANGED events => EventsTyped'
    /\ LoopTyped /\ UNCHANGED <<pc, somethingChanged, missed>> => LoopTyped'
    /\ CollectorTyped /\ UNCHANGED collector => CollectorTyped'
    /\ PublishedTyped /\ UNCHANGED published => PublishedTyped'
    /\ WorkersTyped /\ UNCHANGED workers => WorkersTyped'
<1>1. FilesTyped /\ UNCHANGED files => FilesTyped'
    BY DEF FilesTyped, files
<1>2. ChangesTyped /\ UNCHANGED changes => ChangesTyped'
    BY DEF ChangesTyped
<1>3. EventsTyped /\ UNCHANGED events => EventsTyped'
    BY DEF EventsTyped
<1>4. LoopTyped /\ UNCHANGED <<pc, somethingChanged, missed>> => LoopTyped'
    BY DEF LoopTyped
<1>5. CollectorTyped /\ UNCHANGED collector => CollectorTyped'
    BY DEF CollectorTyped, collector
<1>6. PublishedTyped /\ UNCHANGED published => PublishedTyped'
    BY DEF PublishedTyped
<1>7. WorkersTyped /\ UNCHANGED workers => WorkersTyped'
    BY DEF WorkersTyped, workers
<1> QED
    BY <1>1, <1>2, <1>3, <1>4, <1>5, <1>6, <1>7

\* What a directory and a list make of what was collected.
LEMMA CollectedTyped ==
    ASSUME FilesTyped, CollectorTyped
    PROVE  /\ next \in AppDirs /\ (\A a \in Apps : apps[next][a] # Partial) =>
                 [a \in Apps |-> IF apps[next][a] = NoFile THEN collected[a] ELSE apps[next][a]]
                     \in [Apps -> (SUBSET Types) \cup {NoFile}]
           /\ next \in ListFiles =>
                 /\ [a \in Apps |-> IF collected[a] = NoFile THEN NoFile
                                    ELSE collected[a] \cup {t \in Types : a \in lists[next].added[t]}]
                        \in [Apps -> (SUBSET Types) \cup {NoFile}]
                 /\ DefaultsOf(lists[next]) \in [Types -> Seq(Apps)]
           /\ next \in AppDirs \cup ListFiles => next + 1 \in 1 .. Len(Sources) + 1
<1>1. ASSUME next \in AppDirs, \A a \in Apps : apps[next][a] # Partial
      PROVE  [a \in Apps |-> IF apps[next][a] = NoFile THEN collected[a] ELSE apps[next][a]]
                 \in [Apps -> (SUBSET Types) \cup {NoFile}]
  <2>1. \A a \in Apps : apps[next][a] \in Contents
      BY <1>1 DEF FilesTyped
  <2> QED
      BY <1>1, <2>1 DEF Contents, CollectorTyped
<1>2. ASSUME next \in ListFiles
      PROVE  [a \in Apps |-> IF collected[a] = NoFile THEN NoFile
                             ELSE collected[a] \cup {t \in Types : a \in lists[next].added[t]}]
                 \in [Apps -> (SUBSET Types) \cup {NoFile}]
    BY <1>2 DEF CollectorTyped
<1>3. ASSUME next \in ListFiles
      PROVE  DefaultsOf(lists[next]) \in [Types -> Seq(Apps)]
  <2>1. lists[next].defaults \in [Types -> Seq(Apps)]
      BY <1>3 DEF FilesTyped, List
  <2>2. \A t \in Types : lists[next].defaults[t] \in Seq(Apps) /\ Without(defaults[t], Elements(lists[next].defaults[t])) \in Seq(Apps)
      BY <2>1, WithoutIs DEF CollectorTyped
  <2>3. \A t \in Types : lists[next].defaults[t] \o Without(defaults[t], Elements(lists[next].defaults[t])) \in Seq(Apps)
      BY <2>2, ConcatProperties
  <2> QED
      BY <2>3 DEF DefaultsOf
<1>4. ASSUME next \in AppDirs \cup ListFiles
      PROVE  next + 1 \in 1 .. Len(Sources) + 1
    BY <1>4, SourceNumbers
<1> QED
    BY <1>1, <1>2, <1>3, <1>4

LEMMA TypeStart == Init => TypeOK
<1> SUFFICES ASSUME Init
             PROVE  TypeOK
    OBVIOUS
<1>1. <<>> \in Seq(Apps) /\ <<>> \in Seq(Events)
    BY EmptySeq
<1>2. FilesTyped
    BY NoListType DEF Init, FilesTyped, NoApps, Contents, Watched
<1>3. ChangesTyped /\ EventsTyped /\ LoopTyped
  <2>1. ChangesTyped
      BY Bounds DEF Init, ChangesTyped
  <2>2. EventsTyped
      BY <1>1 DEF Init, EventsTyped
  <2>3. LoopTyped
      BY DEF Init, LoopTyped
  <2> QED
      BY <2>1, <2>2, <2>3
<1>4. CollectorTyped
    BY <1>1, SourceNumbers DEF Init, CollectorTyped, NoApps, NoDefaults
<1>5. PublishedTyped
    BY <1>1 DEF Init, PublishedTyped, Nothing, NoApps
<1>6. WorkersTyped
    BY <1>1, NoListType DEF Init, WorkersTyped
<1> QED
    BY <1>2, <1>3, <1>4, <1>5, <1>6, TypeParts

LEMMA TypeStep == TypeOK /\ [Next]_vars => TypeOK'
<1> SUFFICES ASSUME FilesTyped, ChangesTyped, EventsTyped, LoopTyped, CollectorTyped, PublishedTyped, WorkersTyped, [Next]_vars
             PROVE  /\ FilesTyped' /\ ChangesTyped' /\ EventsTyped' /\ LoopTyped'
                    /\ CollectorTyped' /\ PublishedTyped' /\ WorkersTyped'
  <2>1. TypeOK' <=> FilesTyped' /\ ChangesTyped' /\ EventsTyped' /\ LoopTyped' /\ CollectorTyped' /\ PublishedTyped' /\ WorkersTyped'
      BY Zenon DEF TypeOK, FilesTyped, ChangesTyped, EventsTyped, LoopTyped, CollectorTyped, PublishedTyped, WorkersTyped
  <2> QED
      BY <2>1, TypeParts
<1> USE PartsUnchanged
<1>1. ASSUME NEW e \in Events, Notify(e)
      PROVE  EventsTyped'
    BY <1>1, OneMore DEF EventsTyped
<1>2. Change => ChangesTyped'
    BY Bounds DEF Change, ChangesTyped
<1>3. UNCHANGED loop => LoopTyped' /\ CollectorTyped' /\ PublishedTyped'
    BY DEF loop
<1>4. User \in ListFiles /\ "matters" \in Events /\ "other" \in Events
    BY DesktopServiceAssumption DEF Events
<1>5. ASSUME NEW c \in AppChanges, ChangeApp(c)
      PROVE  /\ FilesTyped' /\ ChangesTyped' /\ EventsTyped' /\ LoopTyped'
             /\ CollectorTyped' /\ PublishedTyped' /\ WorkersTyped'
  <2>1. c.dir \in AppDirs /\ c.app \in Apps /\ c.content \in Contents
      BY DesktopServiceAssumption
  <2>2. FilesTyped'
      BY <1>5, <2>1 DEF ChangeApp, FilesTyped
  <2>3. EventsTyped'
    <3>1. Notify("matters") \/ UNCHANGED events
        BY <1>5 DEF ChangeApp
    <3> QED
        BY <1>1, <1>4, <3>1
  <2>4. LoopTyped'
      BY <1>5 DEF ChangeApp, LoopTyped
  <2> QED
      BY <1>2, <1>5, <2>2, <2>3, <2>4 DEF ChangeApp
<1>22. ASSUME NEW c \in AppChanges, FileVanishes(c)
      PROVE  /\ FilesTyped' /\ ChangesTyped' /\ EventsTyped' /\ LoopTyped'
             /\ CollectorTyped' /\ PublishedTyped' /\ WorkersTyped'
  <2>1. c.dir \in AppDirs /\ c.app \in Apps /\ NoFile \in Contents
      BY DesktopServiceAssumption DEF Contents
  <2>2. FilesTyped'
      BY <1>22, <2>1 DEF FileVanishes, FilesTyped
  <2>3. LoopTyped'
      BY <1>22 DEF FileVanishes, LoopTyped
  <2> QED
      BY <1>2, <1>22, <2>2, <2>3 DEF FileVanishes
<1>23. ASSUME NEW d \in Late, CreateDirectory(d)
      PROVE  /\ FilesTyped' /\ ChangesTyped' /\ EventsTyped' /\ LoopTyped'
             /\ CollectorTyped' /\ PublishedTyped' /\ WorkersTyped'
  <2>1. FilesTyped'
      BY <1>23, DesktopServiceAssumption DEF CreateDirectory, FilesTyped
  <2> QED
      BY <1>1, <1>2, <1>3, <1>4, <1>23, <2>1 DEF CreateDirectory
<1>6. ASSUME NEW c \in ListChanges, ChangeList(c)
      PROVE  /\ FilesTyped' /\ ChangesTyped' /\ EventsTyped' /\ LoopTyped'
             /\ CollectorTyped' /\ PublishedTyped' /\ WorkersTyped'
  <2>1. c.file \in ListFiles /\ c.content \in List
      BY DesktopServiceAssumption
  <2>2. FilesTyped'
      BY <1>6, <2>1 DEF ChangeList, FilesTyped
  <2>3. WorkersTyped'
      BY <1>6, <2>1 DEF ChangeList, WorkersTyped
  <2> QED
      BY <1>1, <1>2, <1>3, <1>4, <1>6, <2>2, <2>3 DEF ChangeList
<1>7. ASSUME ChangeOther
      PROVE  /\ FilesTyped' /\ ChangesTyped' /\ EventsTyped' /\ LoopTyped'
             /\ CollectorTyped' /\ PublishedTyped' /\ WorkersTyped'
    BY <1>1, <1>2, <1>3, <1>4, <1>7 DEF ChangeOther
<1>8. ASSUME NEW w \in Workers, NEW p \in Patches, Begin(w, p)
      PROVE  /\ FilesTyped' /\ ChangesTyped' /\ EventsTyped' /\ LoopTyped'
             /\ CollectorTyped' /\ PublishedTyped' /\ WorkersTyped'
  <2>1. WorkersTyped'
      BY <1>8, DesktopServiceAssumption DEF Begin, WorkersTyped
  <2> QED
      BY <1>2, <1>3, <1>8, <2>1 DEF Begin
<1>9. ASSUME NEW w \in Workers, ReadList(w)
      PROVE  /\ FilesTyped' /\ ChangesTyped' /\ EventsTyped' /\ LoopTyped'
             /\ CollectorTyped' /\ PublishedTyped' /\ WorkersTyped'
  <2>1. lists[User] \in List /\ patch[w] \in Seq(Apps)
      BY <1>4 DEF FilesTyped, WorkersTyped
  <2>2. Patched(lists[User], patch[w]) \in List
      BY <2>1, PatchedType
  <2>3. WorkersTyped'
    <3>1. CASE /\ list' = [list EXCEPT ![w] = Patched(lists[User], patch[w])]
               /\ alone' = [v \in Workers |-> IF v = w THEN \A u \in Workers \ {w} : ~Writing(u) ELSE alone[v] /\ ~Writing(v)]
               /\ wpc' = [wpc EXCEPT ![w] = "truncate"]
      <4>1. list' \in [Workers -> List]
          BY <2>2, <3>1 DEF WorkersTyped
      <4>2. alone' \in [Workers -> BOOLEAN]
          BY <3>1 DEF WorkersTyped
      <4> QED
          BY <1>9, <3>1, <4>1, <4>2 DEF ReadList, WorkersTyped
    <3>2. CASE wpc' = [wpc EXCEPT ![w] = "idle"] /\ UNCHANGED <<list, alone>>
        BY <1>9, <3>2 DEF ReadList, WorkersTyped
    <3> QED
        BY <1>9, <3>1, <3>2 DEF ReadList
  <2> QED
      BY <1>3, <1>9, <2>3 DEF ReadList
<1>10. ASSUME NEW w \in Workers, Truncate(w)
       PROVE  /\ FilesTyped' /\ ChangesTyped' /\ EventsTyped' /\ LoopTyped'
              /\ CollectorTyped' /\ PublishedTyped' /\ WorkersTyped'
  <2>1. FilesTyped'
      BY <1>4, <1>10, NoListType DEF Truncate, FilesTyped
  <2>2. WorkersTyped'
      BY <1>10 DEF Truncate, WorkersTyped
  <2> QED
      BY <1>1, <1>3, <1>4, <1>10, <2>1, <2>2 DEF Truncate
<1>11. ASSUME NEW w \in Workers, NEW l \in List, EndWrite(w, l)
       PROVE  /\ FilesTyped' /\ ChangesTyped' /\ EventsTyped' /\ LoopTyped'
              /\ CollectorTyped' /\ PublishedTyped' /\ WorkersTyped'
  <2>1. FilesTyped'
      BY <1>4, <1>11 DEF EndWrite, FilesTyped
  <2>2. serial' \in List
    <3>1. Patched(serial, patch[w]) \in List
        BY PatchedType DEF WorkersTyped
    <3> QED
        BY <1>11, <3>1 DEF EndWrite
  <2>3. WorkersTyped'
      BY <1>11, <2>2 DEF EndWrite, WorkersTyped
  <2> QED
      BY <1>1, <1>3, <1>4, <1>11, <2>1, <2>3 DEF EndWrite
<1>24. ASSUME NEW w \in Workers, Write(w)
       PROVE  /\ FilesTyped' /\ ChangesTyped' /\ EventsTyped' /\ LoopTyped'
              /\ CollectorTyped' /\ PublishedTyped' /\ WorkersTyped'
  <2>1. list[w] \in List /\ Malformed \in List
      BY NoListType DEF WorkersTyped
  <2> QED
      BY <1>11, <1>24, <2>1 DEF Write
<1>25. ASSUME NEW w \in Workers, WritePart(w)
       PROVE  /\ FilesTyped' /\ ChangesTyped' /\ EventsTyped' /\ LoopTyped'
              /\ CollectorTyped' /\ PublishedTyped' /\ WorkersTyped'
  <2>1. FilesTyped'
      BY <1>4, <1>25, NoListType DEF WritePart, FilesTyped
  <2> QED
      BY <1>1, <1>3, <1>4, <1>25, <2>1 DEF WritePart
<1>12. ASSUME ReadDesktopFiles
       PROVE  /\ FilesTyped' /\ ChangesTyped' /\ EventsTyped' /\ LoopTyped'
              /\ CollectorTyped' /\ PublishedTyped' /\ WorkersTyped'
  <2>1. LoopTyped'
      BY <1>12 DEF ReadDesktopFiles, LoopTyped
  <2>2. CollectorTyped'
    <3>1. UNCHANGED defaults /\ next \in AppDirs
        BY <1>12 DEF ReadDesktopFiles
    <3>2. CASE UNCHANGED <<next, collected>>
        BY <3>1, <3>2 DEF CollectorTyped
    <3>3. CASE /\ \A a \in Apps : apps[next][a] # Partial
               /\ collected' = [a \in Apps |-> IF apps[next][a] = NoFile THEN collected[a] ELSE apps[next][a]]
               /\ next' = next + 1
        BY <3>1, <3>3, CollectedTyped DEF CollectorTyped
    <3> QED
        BY <1>12, <3>2, <3>3 DEF ReadDesktopFiles
  <2> QED
      BY <1>12, <2>1, <2>2 DEF ReadDesktopFiles
<1>13. ASSUME ReadMimeappsListFile
       PROVE  /\ FilesTyped' /\ ChangesTyped' /\ EventsTyped' /\ LoopTyped'
              /\ CollectorTyped' /\ PublishedTyped' /\ WorkersTyped'
  <2>1. CollectorTyped'
    <3>1. CASE UNCHANGED collector
        BY <3>1
    <3>2. CASE ~UNCHANGED collector
        BY <1>13, <3>2, CollectedTyped DEF ReadMimeappsListFile, CollectorTyped
    <3> QED
        BY <3>1, <3>2
  <2>2. LoopTyped'
      BY <1>13 DEF ReadMimeappsListFile, LoopTyped
  <2> QED
      BY <1>13, <2>1, <2>2 DEF ReadMimeappsListFile
<1>14. ASSUME Publish
       PROVE  /\ FilesTyped' /\ ChangesTyped' /\ EventsTyped' /\ LoopTyped'
              /\ CollectorTyped' /\ PublishedTyped' /\ WorkersTyped'
  <2>1. LoopTyped'
      BY <1>14 DEF Publish, LoopTyped
  <2>2. published'.apps = collected
      BY <1>14 DEF Publish
  <2>3. published'.types = [t \in Known |-> [associated |-> AddAssociations(collected)[t],
                                             defaults |-> AddDefaultApplications(defaults)[t]]]
      BY <1>14 DEF Publish
  <2>4. \A t \in Known : AddAssociations(collected)[t] \in SUBSET Apps /\ AddDefaultApplications(defaults)[t] \in Seq(Apps)
      BY DesktopServiceAssumption DEF AddAssociations, AddDefaultApplications, CollectorTyped
  <2>5. PublishedTyped'
    <3> DEFINE A == AddAssociations(collected)
               D == AddDefaultApplications(defaults)
    <3> HIDE DEF A, D
    <3>1. [t \in Known |-> [associated |-> A[t], defaults |-> D[t]]] \in [Known -> [associated : SUBSET Apps, defaults : Seq(Apps)]]
        BY <2>4 DEF A, D
    <3> QED
        BY <2>2, <2>3, <3>1 DEF PublishedTyped, CollectorTyped, A, D
  <2> QED
      BY <1>14, <2>1, <2>5 DEF Publish
<1>26. ASSUME NotifyDies
       PROVE  /\ FilesTyped' /\ ChangesTyped' /\ EventsTyped' /\ LoopTyped'
              /\ CollectorTyped' /\ PublishedTyped' /\ WorkersTyped'
  <2>1. LoopTyped'
      BY <1>26 DEF NotifyDies, LoopTyped
  <2> QED
      BY <1>26, <2>1 DEF NotifyDies
<1>15. ASSUME Poll \/ Settle
       PROVE  /\ FilesTyped' /\ ChangesTyped' /\ EventsTyped' /\ LoopTyped'
              /\ CollectorTyped' /\ PublishedTyped' /\ WorkersTyped'
  <2>1. LoopTyped'
      BY <1>15 DEF Poll, Settle, LoopTyped
  <2> QED
      BY <1>15, <2>1 DEF Poll, Settle
<1>16. ASSUME Read
       PROVE  /\ FilesTyped' /\ ChangesTyped' /\ EventsTyped' /\ LoopTyped'
              /\ CollectorTyped' /\ PublishedTyped' /\ WorkersTyped'
  <2>1. PICK n \in 1 .. MaxBatch :
           /\ n <= Len(events)
           /\ events' = SubSeq(events, n + 1, Len(events))
           /\ missed' = (missed \/ \E i \in 2 .. n : events[i] = "matters")
      BY <1>16 DEF Read
  <2>2. EventsTyped'
    <3>1. n + 1 \in 1 .. Len(events) + 1 /\ Len(events) \in Nat
      <4>1. Len(events) \in Nat
          BY LenProperties DEF EventsTyped
      <4> QED
          BY <2>1, <4>1, Bounds
    <3>2. \A i \in n + 1 .. Len(events) : events[i] \in Events
        BY <3>1, ElementOfSeq DEF EventsTyped
    <3> QED
        BY <2>1, <3>1, <3>2, SubSeqProperties DEF EventsTyped
  <2>3. LoopTyped'
      BY <1>16, <2>1 DEF Read, LoopTyped
  <2> QED
      BY <1>16, <2>2, <2>3 DEF Read
<1>17. ASSUME Settled
       PROVE  /\ FilesTyped' /\ ChangesTyped' /\ EventsTyped' /\ LoopTyped'
              /\ CollectorTyped' /\ PublishedTyped' /\ WorkersTyped'
  <2>1. LoopTyped'
      BY <1>17 DEF Settled, LoopTyped
  <2>2. CollectorTyped'
    <3>1. NoApps \in [Apps -> (SUBSET Types) \cup {NoFile}] /\ NoDefaults \in [Types -> Seq(Apps)] /\ 1 \in 1 .. Len(Sources) + 1
        BY EmptySeq, SourceNumbers DEF NoApps, NoDefaults
    <3>2. \/ UNCHANGED collector
          \/ next' = 1 /\ collected' = NoApps /\ defaults' = NoDefaults
        BY <1>17 DEF Settled
    <3> QED
        BY <3>1, <3>2 DEF CollectorTyped
  <2> QED
      BY <1>17, <2>1, <2>2 DEF Settled
<1>18. CASE UNCHANGED vars
    BY <1>3, <1>18 DEF vars
<1> QED
    BY <1>5, <1>6, <1>7, <1>8, <1>9, <1>10, <1>12, <1>13, <1>14, <1>15, <1>16, <1>17, <1>18, <1>22, <1>23, <1>24, <1>25, <1>26
    DEF Next, Work, Loop

\* The files, the events, the loop and the workers of the desktop service have the
\* contents the code gives them: what is collected and published names known
\* applications and types, and every list, a worker's too, has a default for each.
THEOREM TypeCorrect == Spec => []TypeOK
<1>1. Init => TypeOK
    BY TypeStart
<1>2. TypeOK /\ [Next]_vars => TypeOK'
    BY TypeStep
<1> QED
    BY <1>1, <1>2, PTL DEF Spec

-----------------------------------------------------------------------------
\* Why the list is the one of PATCHes one after the other: two workers that have both
\* read it and not yet written it are not alone; the list of one that is alone is what
\* there was with its PATCH; and what that one has open nobody else has written to.
OneIsAlone == \A v, w \in Workers : v # w /\ Writing(v) /\ Writing(w) => ~alone[v] /\ ~alone[w]
ListIsSerial == \A w \in Workers : Writing(w) /\ alone[w] => list[w] = Patched(serial, patch[w])
FileIsOpen == \A w \in Workers : wpc[w] = "write" /\ alone[w] => lists[User] \in {NoList, Malformed}
PatchInv == OneIsAlone /\ ListIsSerial /\ FileIsOpen /\ PatchesAreSerial

\* What does not touch a worker's list, nor the user's, disturbs nothing.
LEMMA PatchInvUnchanged ==
    ASSUME PatchInv, UNCHANGED workers, lists'[User] = lists[User]
    PROVE  PatchInv'
<1>1. \A w \in Workers : Writing(w)' <=> Writing(w)
    BY DEF Writing, workers
<1>2. OneIsAlone'
    BY <1>1 DEF PatchInv, OneIsAlone, workers
<1>3. ListIsSerial'
    BY <1>1 DEF PatchInv, ListIsSerial, workers
<1>4. FileIsOpen' /\ PatchesAreSerial'
    BY DEF PatchInv, FileIsOpen, PatchesAreSerial, workers
<1> QED
    BY <1>2, <1>3, <1>4 DEF PatchInv

\* The new list of a worker that reads the user's; a malformed one is answered with 500.
LEMMA PatchInvRead ==
    ASSUME TypeOK, PatchInv, NEW w \in Workers, ReadList(w)
    PROVE  PatchInv'
<1>1. wpc \in [Workers -> {"idle", "read", "truncate", "write"}] /\ list \in [Workers -> List]
    BY DEF TypeOK
<1>2. wpc[w] = "read" /\ UNCHANGED <<patch, serial, lists>>
    BY DEF ReadList, files
<1>3. CASE /\ list' = [list EXCEPT ![w] = Patched(lists[User], patch[w])]
           /\ alone' = [v \in Workers |-> IF v = w THEN \A u \in Workers \ {w} : ~Writing(u) ELSE alone[v] /\ ~Writing(v)]
           /\ wpc' = [wpc EXCEPT ![w] = "truncate"]
  <2>1. ~Writing(w) /\ Writing(w)' /\ \A v \in Workers : v # w => (Writing(v)' <=> Writing(v))
      BY <1>1, <1>2, <1>3 DEF Writing
  <2>2. OneIsAlone'
    <3> SUFFICES ASSUME NEW u \in Workers, NEW v \in Workers, u # v, Writing(u)', Writing(v)'
                 PROVE  ~alone'[u]
        BY DEF OneIsAlone
    <3>1. CASE u = w
        BY <1>3, <2>1, <3>1
    <3>2. CASE u # w
        BY <1>3, <2>1, <3>2
    <3> QED
        BY <3>1, <3>2
  <2>3. ListIsSerial'
    <3> SUFFICES ASSUME NEW v \in Workers, Writing(v)', alone'[v]
                 PROVE  list'[v] = Patched(serial', patch'[v])
        BY DEF ListIsSerial
    <3>1. CASE v = w
      <4>1. \A u \in Workers : ~Writing(u)
          BY <1>3, <2>1, <3>1
      <4>2. lists[User] = serial
          BY <4>1 DEF PatchInv, PatchesAreSerial, Writing
      <4>3. list'[w] = Patched(lists[User], patch[w])
          BY <1>1, <1>3
      <4> QED
          BY <1>2, <3>1, <4>2, <4>3
    <3>2. CASE v # w
        BY <1>3, <2>1, <3>2
    <3> QED
        BY <3>1, <3>2
  <2>4. FileIsOpen'
    <3>1. \A v \in Workers : wpc'[v] = "write" => v # w /\ wpc[v] = "write"
        BY <1>1, <1>3
    <3>2. \A v \in Workers : wpc'[v] = "write" => ~alone'[v]
        BY <1>3, <3>1 DEF Writing
    <3> QED
        BY <3>2 DEF FileIsOpen
  <2>5. PatchesAreSerial'
    <3>1. (\A v \in Workers : wpc'[v] # "write") => \A v \in Workers : wpc[v] # "write"
        BY <1>1, <1>2, <1>3
    <3> QED
        BY <1>2, <3>1 DEF PatchInv, PatchesAreSerial
  <2> QED
      BY <2>2, <2>3, <2>4, <2>5 DEF PatchInv
<1>4. CASE wpc' = [wpc EXCEPT ![w] = "idle"] /\ UNCHANGED <<list, alone>>
  <2>1. \A v \in Workers : (wpc'[v] = "write" <=> wpc[v] = "write") /\ (Writing(v)' <=> Writing(v))
      BY <1>1, <1>2, <1>4 DEF Writing
  <2>2. OneIsAlone'
      BY <1>4, <2>1 DEF PatchInv, OneIsAlone
  <2>3. ListIsSerial'
      BY <1>2, <1>4, <2>1 DEF PatchInv, ListIsSerial
  <2>4. FileIsOpen' /\ PatchesAreSerial'
      BY <1>2, <1>4, <2>1 DEF PatchInv, FileIsOpen, PatchesAreSerial
  <2> QED
      BY <2>2, <2>3, <2>4 DEF PatchInv
<1> QED
    BY <1>3, <1>4 DEF ReadList

\* The file that a worker has opened is empty until it has written.
LEMMA PatchInvTruncate ==
    ASSUME TypeOK, PatchInv, NEW w \in Workers, Truncate(w)
    PROVE  PatchInv'
<1>1. /\ wpc \in [Workers -> {"idle", "read", "truncate", "write"}]
      /\ lists \in [ListFiles -> List] /\ User \in ListFiles
    BY DesktopServiceAssumption DEF TypeOK
<1>2. /\ wpc[w] = "truncate" /\ wpc' = [wpc EXCEPT ![w] = "write"] /\ UNCHANGED <<patch, list, serial, alone>>
      /\ lists' = [lists EXCEPT ![User] = NoList]
    BY DEF Truncate
<1>3. \A v \in Workers : Writing(v)' <=> Writing(v)
    BY <1>1, <1>2 DEF Writing
<1>4. OneIsAlone'
    BY <1>2, <1>3 DEF PatchInv, OneIsAlone
<1>5. ListIsSerial'
    BY <1>2, <1>3 DEF PatchInv, ListIsSerial
<1>6. FileIsOpen' /\ PatchesAreSerial'
    BY <1>1, <1>2 DEF FileIsOpen, PatchesAreSerial
<1> QED
    BY <1>4, <1>5, <1>6 DEF PatchInv

\* And half of it while it writes.
LEMMA PatchInvWritePart ==
    ASSUME TypeOK, PatchInv, NEW w \in Workers, WritePart(w)
    PROVE  PatchInv'
<1>1. lists \in [ListFiles -> List] /\ User \in ListFiles
    BY DesktopServiceAssumption DEF TypeOK
<1>2. wpc[w] = "write" /\ UNCHANGED <<wpc, patch, list, serial, alone>> /\ lists' = [lists EXCEPT ![User] = Malformed]
    BY DEF WritePart, workers
<1>3. \A v \in Workers : Writing(v)' <=> Writing(v)
    BY <1>2 DEF Writing
<1>4. OneIsAlone'
    BY <1>2, <1>3 DEF PatchInv, OneIsAlone
<1>5. ListIsSerial'
    BY <1>2, <1>3 DEF PatchInv, ListIsSerial
<1>6. FileIsOpen' /\ PatchesAreSerial'
    BY <1>1, <1>2 DEF FileIsOpen, PatchesAreSerial
<1> QED
    BY <1>4, <1>5, <1>6 DEF PatchInv

\* A worker that was alone writes what there was and its own defaults.
LEMMA PatchInvWrite ==
    ASSUME TypeOK, PatchInv, NEW w \in Workers, Write(w)
    PROVE  PatchInv'
<1>1. /\ wpc \in [Workers -> {"idle", "read", "truncate", "write"}]
      /\ lists \in [ListFiles -> List] /\ User \in ListFiles
    BY DesktopServiceAssumption DEF TypeOK
<1>2. PICK l : EndWrite(w, l) /\ (l = list[w] \/ lists[User] \notin {NoList, Malformed})
    BY DEF Write
<1>3. /\ wpc[w] = "write" /\ wpc' = [wpc EXCEPT ![w] = "idle"] /\ UNCHANGED <<patch, list, alone>>
      /\ lists' = [lists EXCEPT ![User] = l]
      /\ serial' = IF alone[w] THEN Patched(serial, patch[w]) ELSE l
    BY <1>2 DEF EndWrite
<1>4. Writing(w) /\ ~Writing(w)' /\ \A v \in Workers : v # w => (Writing(v)' <=> Writing(v))
    BY <1>1, <1>3 DEF Writing
<1>5. OneIsAlone'
    BY <1>3, <1>4 DEF PatchInv, OneIsAlone
<1>6. \A v \in Workers : Writing(v)' => ~alone'[v]
    BY <1>3, <1>4 DEF PatchInv, OneIsAlone
<1>7. ListIsSerial' /\ FileIsOpen'
    BY <1>6 DEF ListIsSerial, FileIsOpen, Writing
<1>8. PatchesAreSerial'
  <2>1. lists'[User] = l
      BY <1>1, <1>3
  <2>2. alone[w] => l = Patched(serial, patch[w])
    <3>1. alone[w] => lists[User] \in {NoList, Malformed}
        BY <1>3 DEF PatchInv, FileIsOpen
    <3>2. alone[w] => list[w] = Patched(serial, patch[w])
        BY <1>4 DEF PatchInv, ListIsSerial
    <3> QED
        BY <1>2, <3>1, <3>2
  <2> QED
      BY <1>3, <2>1, <2>2 DEF PatchesAreSerial
<1> QED
    BY <1>5, <1>7, <1>8 DEF PatchInv

\* Another writer of the user's list ends what was alone.
LEMMA PatchInvChange ==
    ASSUME TypeOK, PatchInv, NEW c \in ListChanges, ChangeList(c)
    PROVE  PatchInv'
<1>1. lists \in [ListFiles -> List] /\ User \in ListFiles /\ c.file \in ListFiles
    BY DesktopServiceAssumption DEF TypeOK
<1>2. CASE c.file = User
  <2>1. alone' = [v \in Workers |-> FALSE] /\ serial' = c.content /\ lists'[User] = c.content
      BY <1>1, <1>2 DEF ChangeList
  <2>2. OneIsAlone' /\ ListIsSerial' /\ FileIsOpen' /\ PatchesAreSerial'
      BY <2>1 DEF OneIsAlone, ListIsSerial, FileIsOpen, PatchesAreSerial
  <2> QED
      BY <2>2 DEF PatchInv
<1>3. CASE c.file # User
  <2>1. UNCHANGED workers /\ lists'[User] = lists[User]
      BY <1>1, <1>3 DEF ChangeList, workers
  <2> QED
      BY <2>1, PatchInvUnchanged
<1> QED
    BY <1>2, <1>3

LEMMA PatchInvBegin ==
    ASSUME TypeOK, PatchInv, NEW w \in Workers, NEW p \in Patches, Begin(w, p)
    PROVE  PatchInv'
<1>1. wpc \in [Workers -> {"idle", "read", "truncate", "write"}] /\ patch \in [Workers -> Seq(Apps)]
    BY DEF TypeOK
<1>2. /\ wpc[w] = "idle" /\ wpc' = [wpc EXCEPT ![w] = "read"] /\ patch' = [patch EXCEPT ![w] = p]
      /\ UNCHANGED <<lists, list, serial, alone>>
    BY DEF Begin, files
<1>3. \A v \in Workers : /\ Writing(v)' <=> Writing(v)
                         /\ Writing(v) => patch'[v] = patch[v]
                         /\ wpc'[v] = "write" <=> wpc[v] = "write"
    BY <1>1, <1>2 DEF Writing
<1>4. OneIsAlone'
    BY <1>2, <1>3 DEF PatchInv, OneIsAlone
<1>5. ListIsSerial'
    BY <1>2, <1>3 DEF PatchInv, ListIsSerial
<1>6. FileIsOpen' /\ PatchesAreSerial'
    BY <1>2, <1>3 DEF PatchInv, FileIsOpen, PatchesAreSerial
<1> QED
    BY <1>4, <1>5, <1>6 DEF PatchInv

LEMMA PatchInvStart == Init => PatchInv
<1> SUFFICES ASSUME Init
             PROVE  PatchInv
    OBVIOUS
<1>1. \A w \in Workers : wpc[w] = "idle"
    BY DEF Init
<1>2. lists[User] = serial
    BY DesktopServiceAssumption DEF Init
<1> QED
    BY <1>1, <1>2 DEF PatchInv, OneIsAlone, ListIsSerial, FileIsOpen, PatchesAreSerial, Writing

LEMMA PatchInvStep == TypeOK /\ PatchInv /\ [Next]_vars => PatchInv'
<1> SUFFICES ASSUME TypeOK, PatchInv, [Next]_vars
             PROVE  PatchInv'
    OBVIOUS
<1>1. ASSUME UNCHANGED lists, UNCHANGED workers
      PROVE  PatchInv'
    BY <1>1, PatchInvUnchanged
<1>2. \A c : ChangeApp(c) \/ FileVanishes(c) \/ CreateDirectory(c) => UNCHANGED lists /\ UNCHANGED workers
    BY DEF ChangeApp, FileVanishes, CreateDirectory
<1>3. Loop \/ Publish \/ NotifyDies => UNCHANGED lists /\ UNCHANGED workers
    BY DEF Loop, ReadDesktopFiles, ReadMimeappsListFile, Publish, NotifyDies, Poll, Read, Settle, Settled, files
<1>4. ChangeOther \/ UNCHANGED vars => UNCHANGED lists /\ UNCHANGED workers
    BY DEF ChangeOther, vars, files
<1> QED
    BY <1>1, <1>2, <1>3, <1>4, PatchInvChange, PatchInvBegin, PatchInvRead, PatchInvTruncate, PatchInvWritePart, PatchInvWrite
    DEF Next, Work

\* doPATCH: when no worker has the user's mimeapps.list open, it is what the PATCHes and
\* the other writers would leave one after the other, for as far as they have not met; so
\* a PATCH takes away nothing that stood there but the defaults of the type "" it sets.
THEOREM PatchesCorrect == Spec => []PatchesAreSerial
<1>1. Init => TypeOK /\ PatchInv
    BY TypeStart, PatchInvStart
<1>2. TypeOK /\ PatchInv /\ [Next]_vars => (TypeOK /\ PatchInv)'
    BY TypeStep, PatchInvStep
<1>3. PatchInv => PatchesAreSerial
    BY DEF PatchInv
<1> QED
    BY <1>1, <1>2, <1>3, PTL DEF Spec

-----------------------------------------------------------------------------
\* A collection that no event makes stale: what it has read is what the files say.
LEMMA FreshDir ==
    ASSUME NEW ap, NEW ls, NEW col, NEW def, NEW n \in AppDirs, Fresh(ap, ls, col, def, n)
    PROVE  Fresh(ap, ls, [a \in Apps |-> IF ap[n][a] = NoFile THEN col[a] ELSE ap[n][a]], def, n + 1)
<1>1. \A a \in Apps : /\ LastKnown(ap, n + 1, a)
                      /\ TypesIn(ap, ls, n + 1, a) = IF ap[n][a] = NoFile THEN col[a] ELSE ap[n][a]
    BY TypesOfDir DEF Fresh
<1>2. \A f \in ListFiles : f < n + 1 <=> f < n
  <2>1. n \in Nat /\ ListFiles \subseteq Nat /\ n \notin ListFiles
      BY SourceNumbers
  <2> QED
      BY <2>1
<1>3. ASSUME NEW t \in Types
      PROVE  InOrderTo(DefaultsOfType(ls, t), n + 1, def[t])
  <2> DEFINE L == DefaultsOfType(ls, t)
             s == def[t]
  <2>1. InOrderTo(L, n, s)
      BY DEF Fresh
  <2> HIDE DEF L, s
  <2>2. {g \in ListFiles : g < n + 1} = {g \in ListFiles : g < n}
      BY <1>2
  <2>3. \A x, y : FirstIn(L, n, x, y) => FirstIn(L, n + 1, x, y)
      BY <1>2 DEF FirstIn
  <2>4. (\A f \in ListFiles : f < n + 1 => Once(L[f])) => Once(s)
      BY <1>2, <2>1 DEF InOrderTo
  <2>5. Elements(s) = UNION {Elements(L[f]) : f \in {g \in ListFiles : g < n + 1}}
      BY <2>1, <2>2 DEF InOrderTo
  <2>6. \A i, j \in DOMAIN s : i < j /\ (\A k \in 1 .. j - 1 : s[k] # s[j]) => FirstIn(L, n + 1, s[i], s[j])
      BY <2>1, <2>3 DEF InOrderTo
  <2>7. InOrderTo(L, n + 1, s)
      BY <2>4, <2>5, <2>6 DEF InOrderTo
  <2> QED
      BY <2>7 DEF L, s
<1> QED
    BY <1>1, <1>3 DEF Fresh

LEMMA FreshList ==
    ASSUME NEW ap \in [AppDirs -> [Apps -> Contents]], NEW ls \in [ListFiles -> List], NEW col,
           NEW def \in [Types -> Seq(Apps)], NEW n \in ListFiles, Fresh(ap, ls, col, def, n)
    PROVE  Fresh(ap, ls,
                 [a \in Apps |-> IF col[a] = NoFile THEN NoFile ELSE col[a] \cup {t \in Types : a \in ls[n].added[t]}],
                 [t \in Types |-> ls[n].defaults[t] \o Without(def[t], Elements(ls[n].defaults[t]))],
                 n + 1)
<1>1. \A a \in Apps : /\ LastKnown(ap, n + 1, a)
                      /\ TypesIn(ap, ls, n + 1, a) = IF col[a] = NoFile THEN NoFile
                                                     ELSE col[a] \cup {t \in Types : a \in ls[n].added[t]}
  <2> SUFFICES ASSUME NEW a \in Apps
               PROVE  /\ LastKnown(ap, n + 1, a)
                      /\ TypesIn(ap, ls, n + 1, a) = IF col[a] = NoFile THEN NoFile
                                                     ELSE col[a] \cup {t \in Types : a \in ls[n].added[t]}
      OBVIOUS
  <2>1. LastKnown(ap, n, a) /\ col[a] = TypesIn(ap, ls, n, a) /\ \A d \in AppDirs : ap[d][a] \in Contents
      BY DEF Fresh
  <2>2. /\ LastKnown(ap, n + 1, a)
        /\ TypesIn(ap, ls, n + 1, a) = IF TypesIn(ap, ls, n, a) = NoFile THEN NoFile
                                       ELSE TypesIn(ap, ls, n, a) \cup AddedIn(ls, n, a)
    <3>1. LastKnown(ap, n + 1, a)
        BY <2>1, TypesOfList
    <3>2. TypesIn(ap, ls, n, a) = NoFile => TypesIn(ap, ls, n + 1, a) = NoFile
        BY <2>1, TypesOfList
    <3>3. TypesIn(ap, ls, n, a) # NoFile => TypesIn(ap, ls, n + 1, a) = TypesIn(ap, ls, n, a) \cup AddedIn(ls, n, a)
      <4>1. TypesIn(ap, ls, n, a) # NoFile => TypesIn(ap, ls, n + 1, a) = TypesWith(ap, ls, n, a)
          BY <2>1, TypesOfList
      <4> QED
          BY <4>1 DEF TypesWith
    <3> QED
        BY <3>1, <3>2, <3>3
  <2>3. TypesIn(ap, ls, n + 1, a) = IF col[a] = NoFile THEN NoFile ELSE col[a] \cup AddedIn(ls, n, a)
      BY <2>1, <2>2
  <2> QED
      BY <2>2, <2>3 DEF AddedIn
<1>2. ASSUME NEW t \in Types
      PROVE  InOrderTo(DefaultsOfType(ls, t), n + 1, ls[n].defaults[t] \o Without(def[t], Elements(ls[n].defaults[t])))
  <2> DEFINE L == DefaultsOfType(ls, t)
             s == def[t]
  <2>1. InOrderTo(L, n, s) /\ s \in Seq(Apps)
      BY DEF Fresh
  <2>2. \A f \in ListFiles : ls[f].defaults \in [Types -> Seq(Apps)]
      BY DEF List
  <2>3. L \in [ListFiles -> Seq(Apps)] /\ L[n] = ls[n].defaults[t]
      BY <2>2 DEF DefaultsOfType
  <2> HIDE DEF L, s
  <2>4. InOrderTo(L, n + 1, L[n] \o Without(s, Elements(L[n])))
      BY <2>1, <2>3, InOrderNext
  <2> QED
      BY <2>3, <2>4 DEF L, s
<1> QED
    BY <1>1, <1>2 DEF Fresh

-----------------------------------------------------------------------------
\* UpToDate, for the directories ap, the lists ls and what pub has published.
AllSources == Len(Sources) + 1
PublishedIs(ap, ls, pub) ==
    /\ \A a \in Apps : pub.apps[a] = TypesIn(ap, ls, AllSources, a)
    /\ \A t \in Known :
          /\ InOrderTo(DefaultsOfType(ls, t), AllSources, pub.types[t].defaults)
          /\ pub.types[t].associated =
                {a \in Apps : TypesIn(ap, ls, AllSources, a) # NoFile /\ t \in TypesIn(ap, ls, AllSources, a)}

LEMMA PublishedIsUpToDate == PublishedIs(apps, lists, published) => UpToDate
<1> SUFFICES ASSUME PublishedIs(apps, lists, published)
             PROVE  UpToDate
    OBVIOUS
<1>1. \A a : TypesIn(apps, lists, AllSources, a) = MimetypesOf(a)
    BY FreshEnd DEF AllSources
<1>2. \A t \in Known : InOrder(published.types[t].defaults, t)
    BY FreshEnd DEF PublishedIs, AllSources
<1>3. \A a \in Apps : published.apps[a] = MimetypesOf(a)
    BY <1>1 DEF PublishedIs
<1>4. ASSUME NEW t \in Known
      PROVE  published.types[t].associated = {a \in Apps : MimetypesOf(a) # NoFile /\ t \in MimetypesOf(a)}
    BY <1>1 DEF PublishedIs
<1> QED
    BY <1>2, <1>3, <1>4 DEF UpToDate

\* An event that the loop has still to read and to act on.
Dirty == \E i \in DOMAIN events : events[i] = "matters"

\* Why the loop is up to date when it is idle: while it collects, what it has read is
\* right or an event will make it collect again, unless one is missed; later, what it
\* has published is.
Current == PublishedIs(apps, lists, published) \/ missed \/ Dirty
LoopInv ==
    /\ pc = "collect" => Dirty \/ missed \/ Fresh(apps, lists, collected, defaults, next)
    /\ pc = "poll" => Current
    /\ pc \in {"read", "settle"} => Current \/ somethingChanged

\* Whoever changes a file makes an event.
LEMMA LoopInvDirty ==
    ASSUME TypeOK, Notify("matters")
    PROVE  LoopInv'
<1>1. Dirty'
    BY OneMore DEF TypeOK, Events, Dirty
<1> QED
    BY <1>1 DEF LoopInv, Current

\* What touches neither the files nor the loop takes no event away.
LEMMA LoopInvUnchanged ==
    ASSUME LoopInv, UNCHANGED files, UNCHANGED loop, Dirty => Dirty'
    PROVE  LoopInv'
    BY DEF LoopInv, Current, files, loop, collector

LEMMA LoopInvCollect ==
    ASSUME TypeOK, LoopInv, ReadDesktopFiles \/ ReadMimeappsListFile
    PROVE  LoopInv'
<1>1. pc = "collect" /\ UNCHANGED <<apps, lists, events, missed>>
    BY DEF ReadDesktopFiles, ReadMimeappsListFile, files
<1>2. CASE Dirty \/ missed
  <2>1. Dirty' \/ missed'
      BY <1>1, <1>2 DEF Dirty
  <2> QED
      BY <2>1 DEF LoopInv, Current
<1>3. CASE ~Dirty /\ ~missed
  <2>1. Fresh(apps, lists, collected, defaults, next)
      BY <1>1, <1>3 DEF LoopInv
  <2>2. CASE pc' = "dead"
      BY <2>2 DEF LoopInv
  <2>3. CASE ReadDesktopFiles /\ pc' # "dead"
    <3>1. /\ next \in AppDirs /\ next' = next + 1 /\ UNCHANGED <<pc, defaults>>
          /\ collected' = [a \in Apps |-> IF apps[next][a] = NoFile THEN collected[a] ELSE apps[next][a]]
        BY <2>3 DEF ReadDesktopFiles
    <3>2. Fresh(apps', lists', collected', defaults', next')
        BY <1>1, <2>1, <3>1, FreshDir
    <3> QED
        BY <1>1, <3>1, <3>2 DEF LoopInv
  <2>4. CASE ReadMimeappsListFile /\ pc' # "dead"
    <3>1. /\ next \in ListFiles /\ next' = next + 1 /\ UNCHANGED pc
          /\ collected' = [a \in Apps |-> IF collected[a] = NoFile THEN NoFile
                                          ELSE collected[a] \cup {t \in Types : a \in lists[next].added[t]}]
          /\ defaults' = [t \in Types |-> lists[next].defaults[t] \o Without(defaults[t], Elements(lists[next].defaults[t]))]
        BY <2>4 DEF ReadMimeappsListFile, DefaultsOf
    <3>2. apps \in [AppDirs -> [Apps -> Contents]] /\ lists \in [ListFiles -> List] /\ defaults \in [Types -> Seq(Apps)]
        BY DEF TypeOK
    <3>3. Fresh(apps', lists', collected', defaults', next')
        BY <1>1, <2>1, <3>1, <3>2, FreshList
    <3> QED
        BY <1>1, <3>1, <3>3 DEF LoopInv
  <2> QED
      BY <2>2, <2>3, <2>4
<1> QED
    BY <1>2, <1>3

LEMMA LoopInvPublish ==
    ASSUME LoopInv, Publish
    PROVE  LoopInv'
<1>1. /\ pc = "collect" /\ next = AllSources /\ pc' = "poll" /\ UNCHANGED <<apps, lists, events, missed>>
      /\ published'.apps = collected
      /\ published'.types = [t \in Known |-> [associated |-> AddAssociations(collected)[t],
                                              defaults |-> AddDefaultApplications(defaults)[t]]]
    BY DEF Publish, Collected, files, AllSources
<1>2. ASSUME Fresh(apps, lists, collected, defaults, AllSources)
      PROVE  PublishedIs(apps', lists', published')
  <2>1. \A a \in Apps : published'.apps[a] = TypesIn(apps, lists, AllSources, a)
      BY <1>1, <1>2 DEF Fresh
  <2>2. ASSUME NEW t \in Known
        PROVE  /\ InOrderTo(DefaultsOfType(lists, t), AllSources, published'.types[t].defaults)
               /\ published'.types[t].associated =
                     {a \in Apps : TypesIn(apps, lists, AllSources, a) # NoFile /\ t \in TypesIn(apps, lists, AllSources, a)}
    <3>1. /\ published'.types[t].defaults = AddDefaultApplications(defaults)[t]
          /\ published'.types[t].associated = AddAssociations(collected)[t]
        BY <1>1
    <3>2. AddDefaultApplications(defaults)[t] = defaults[t]
        BY DEF AddDefaultApplications
    <3>3. AddAssociations(collected)[t] = {a \in Apps : collected[a] # NoFile /\ t \in collected[a]}
        BY DEF AddAssociations
    <3>4. t \in Types
        BY DesktopServiceAssumption
    <3> QED
        BY <1>2, <3>1, <3>2, <3>3, <3>4 DEF Fresh
  <2> QED
      BY <1>1, <2>1, <2>2 DEF PublishedIs
<1>3. Dirty => Dirty'
    BY <1>1 DEF Dirty
<1>4. Current'
    BY <1>1, <1>2, <1>3 DEF LoopInv, Current
<1> QED
    BY <1>1, <1>4 DEF LoopInv

\* The events of a read: the first counts, the others that matter are missed.
LEMMA LoopInvRead ==
    ASSUME TypeOK, LoopInv, Read
    PROVE  LoopInv'
<1>1. PICK n \in 1 .. MaxBatch :
         /\ n <= Len(events)
         /\ events' = SubSeq(events, n + 1, Len(events))
         /\ missed' = (missed \/ \E i \in 2 .. n : events[i] = "matters")
    BY DEF Read
<1>2. /\ pc = "read" /\ pc' = "settle" /\ UNCHANGED <<apps, lists, published>>
      /\ somethingChanged' = (somethingChanged \/ Head(events) = "matters")
    BY DEF Read, files
<1>3. events \in Seq(Events) /\ Len(events) \in Nat /\ n \in Nat /\ n >= 1 /\ DOMAIN events = 1 .. Len(events)
    BY Bounds, LenProperties DEF TypeOK
<1>4. ASSUME NEW i \in DOMAIN events, events[i] = "matters"
      PROVE  somethingChanged' \/ missed' \/ Dirty'
  <2>1. CASE i = 1
    <3>1. Head(events) = events[1]
        BY <1>3
    <3> QED
        BY <1>2, <1>4, <2>1, <3>1
  <2>2. CASE i \in 2 .. n
      BY <1>1, <1>4, <2>2
  <2>3. CASE i > n
    <3>1. n + 1 \in 1 .. Len(events) + 1 /\ \A j \in n + 1 .. Len(events) : events[j] \in Events
        BY <1>1, <1>3, ElementOfSeq
    <3>2. /\ events' \in Seq(Events) /\ Len(events') = Len(events) - n
          /\ \A k \in 1 .. Len(events) - n : events'[k] = events[n + k]
      <4>1. /\ Len(events') = IF n + 1 <= Len(events) THEN Len(events) - (n + 1) + 1 ELSE 0
            /\ \A k \in 1 .. Len(events) - (n + 1) + 1 : events'[k] = events[(n + 1) + k - 1]
            /\ events' \in Seq(Events)
          BY <1>1, <1>3, <3>1, SubSeqProperties
      <4>2. /\ Len(events) - (n + 1) + 1 = Len(events) - n
            /\ n + 1 <= Len(events) \/ Len(events) - n = 0
        <5> DEFINE m == Len(events)
        <5>1. m \in Nat /\ n \in Nat /\ n <= m
            BY <1>1, <1>3
        <5> HIDE DEF m
        <5>2. m - (n + 1) + 1 = m - n /\ (n + 1 <= m \/ m - n = 0)
            BY <5>1
        <5> QED
            BY <5>2 DEF m
      <4>3. Len(events') = Len(events) - n
          BY <4>1, <4>2
      <4>4. \A k \in 1 .. Len(events) - n : (n + 1) + k - 1 = n + k
          BY <1>3
      <4> QED
          BY <4>1, <4>2, <4>3, <4>4
    <3>3. i - n \in 1 .. Len(events) - n /\ events'[i - n] = events[i]
        BY <1>3, <2>3, <3>2
    <3>4. DOMAIN events' = 1 .. Len(events) - n
        BY <3>2, LenProperties
    <3>5. Dirty'
        BY <1>4, <3>3, <3>4 DEF Dirty
    <3> QED
        BY <3>5
  <2> QED
      BY <1>3, <2>1, <2>2, <2>3
<1>5. Current' \/ somethingChanged'
    BY <1>1, <1>2, <1>4 DEF LoopInv, Current, Dirty
<1> QED
    BY <1>2, <1>5 DEF LoopInv

LEMMA LoopInvWait ==
    ASSUME LoopInv, Poll \/ Settle \/ Settled
    PROVE  LoopInv'
<1>1. UNCHANGED <<apps, lists, events, published>>
    BY DEF Poll, Settle, Settled, files
<1>2. Dirty' <=> Dirty
    BY <1>1 DEF Dirty
<1>3. CASE Poll
  <2>1. pc = "poll" /\ pc' = "read" /\ UNCHANGED missed
      BY <1>3 DEF Poll
  <2> QED
      BY <1>1, <1>2, <2>1 DEF LoopInv, Current
<1>4. CASE Settle
  <2>1. pc = "settle" /\ pc' = "read" /\ UNCHANGED <<missed, somethingChanged>>
      BY <1>4 DEF Settle
  <2> QED
      BY <1>1, <1>2, <2>1 DEF LoopInv, Current
<1>5. CASE Settled /\ somethingChanged
  <2>1. pc' = "collect" /\ next' = 1 /\ collected' = NoApps /\ defaults' = NoDefaults
      BY <1>5 DEF Settled
  <2>2. Fresh(apps', lists', collected', defaults', next')
      BY <2>1, FreshStart
  <2> QED
      BY <2>1, <2>2 DEF LoopInv
<1>6. CASE Settled /\ ~somethingChanged
  <2>1. pc = "settle" /\ pc' = "poll" /\ UNCHANGED missed
      BY <1>6 DEF Settled
  <2>2. Current
      BY <1>6, <2>1 DEF LoopInv
  <2> QED
      BY <1>1, <1>2, <2>1, <2>2 DEF LoopInv, Current
<1> QED
    BY <1>3, <1>4, <1>5, <1>6

LEMMA LoopInvStart == Init => LoopInv
<1> SUFFICES ASSUME Init
             PROVE  LoopInv
    OBVIOUS
<1>1. pc = "collect" /\ next = 1 /\ collected = NoApps /\ defaults = NoDefaults
    BY DEF Init
<1>2. Fresh(apps, lists, collected, defaults, next)
    BY <1>1, FreshStart
<1> QED
    BY <1>1, <1>2 DEF LoopInv

LEMMA LoopInvStep == TypeOK /\ LoopInv /\ [Next]_vars => LoopInv'
<1> SUFFICES ASSUME TypeOK, LoopInv, [Next]_vars
             PROVE  LoopInv'
    OBVIOUS
<1>1. ASSUME NEW c, ChangeList(c) \/ CreateDirectory(c)
      PROVE  LoopInv'
    BY <1>1, LoopInvDirty DEF ChangeList, CreateDirectory
<1>8. ASSUME NEW c, ChangeApp(c)
      PROVE  LoopInv'
  <2>1. CASE Notify("matters")
      BY <2>1, LoopInvDirty
  <2>2. CASE missed'
      BY <2>2 DEF LoopInv, Current
  <2> QED
      BY <1>8, <2>1, <2>2 DEF ChangeApp
<1>9. ASSUME NEW c, FileVanishes(c) \/ NotifyDies
      PROVE  LoopInv'
  <2>1. pc' = "dead"
      BY <1>9 DEF FileVanishes, NotifyDies
  <2> QED
      BY <2>1 DEF LoopInv
<1>2. ASSUME NEW w, Truncate(w) \/ WritePart(w) \/ Write(w)
      PROVE  LoopInv'
  <2>1. Notify("matters")
      BY <1>2 DEF Truncate, WritePart, Write, EndWrite
  <2> QED
      BY <2>1, LoopInvDirty
<1>3. ASSUME ChangeOther
      PROVE  LoopInv'
  <2>1. Notify("other") /\ "other" \in Events /\ UNCHANGED files /\ UNCHANGED loop
      BY <1>3 DEF ChangeOther, Events
  <2>2. Dirty => Dirty'
      BY <2>1, OneMore DEF TypeOK, Dirty
  <2> QED
      BY <2>1, <2>2, LoopInvUnchanged
<1>4. ASSUME UNCHANGED files, UNCHANGED events, UNCHANGED loop
      PROVE  LoopInv'
  <2>1. Dirty => Dirty'
      BY <1>4 DEF Dirty
  <2> QED
      BY <1>4, <2>1, LoopInvUnchanged
<1>5. ASSUME NEW w, ReadList(w) \/ (\E p \in Patches : Begin(w, p))
      PROVE  LoopInv'
  <2>1. UNCHANGED files /\ UNCHANGED events /\ UNCHANGED loop
      BY <1>5 DEF ReadList, Begin
  <2> QED
      BY <1>4, <2>1
<1>6. CASE UNCHANGED vars
  <2>1. UNCHANGED files /\ UNCHANGED events /\ UNCHANGED loop
      BY <1>6 DEF vars
  <2> QED
      BY <1>4, <2>1
<1>7. CASE Loop
    BY <1>7, LoopInvCollect, LoopInvRead, LoopInvWait DEF Loop
<1> QED
    BY <1>1, <1>2, <1>3, <1>5, <1>6, <1>7, <1>8, <1>9, LoopInvPublish DEF Next, Work

\* watchDesktopFiles: whenever the loop waits with nothing to report, what is
\* published is what the files say, for any directories and lists and however their
\* changes fall between the steps of a collection, unless a read has passed over an
\* event behind another one, or a file has changed in a directory created after the start.
THEOREM IdleCorrect == Spec => []IdleMeansUpToDate
<1>1. Init => TypeOK /\ LoopInv
    BY TypeStart, LoopInvStart
<1>2. TypeOK /\ LoopInv /\ [Next]_vars => (TypeOK /\ LoopInv)'
    BY TypeStep, LoopInvStep
<1>3. LoopInv => IdleMeansUpToDate
  <2> SUFFICES ASSUME LoopInv, pc = "poll", events = <<>>
               PROVE  UpToDate \/ missed
      BY DEF IdleMeansUpToDate
  <2>1. ~Dirty
      BY DEF Dirty
  <2>2. PublishedIs(apps, lists, published) \/ missed
      BY <2>1 DEF LoopInv, Current
  <2> QED
      BY <2>2, PublishedIsUpToDate
<1> QED
    BY <1>1, <1>2, <1>3, PTL DEF Spec

=============================================================================
