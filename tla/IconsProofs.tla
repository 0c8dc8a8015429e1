---------------------------- MODULE IconsProofs ----------------------------
(***************************************************************************)
(* Theorems about the two services that answer with icons: IconService, for *)
(* any finite set of themes, any icons and sizes, any requests and any      *)
(* number of workers; and WindowManager, for any windows, icons and images, *)
(* any changes in the X server and any number of starts.                    *)
(***************************************************************************)
EXTENDS IconService, WindowManager, SequenceTheorems, FiniteSetTheorems, WellFoundedInduction, TLAPS

-----------------------------------------------------------------------------
\* A non-empty set of naturals has a least element.
LEMMA LeastElement ==
    ASSUME NEW T \in SUBSET Nat, T # {}
    PROVE  \E m \in T : \A k \in T : m <= k
<1> DEFINE C == {0 .. m : m \in T}
<1>1. C \subseteq FiniteSubsetsOf(Nat)
  <2>1. \A m \in T : IsFiniteSet(0 .. m)
      BY FS_Interval
  <2> QED
      BY <2>1 DEF FiniteSubsetsOf
<1>2. C # {}
    OBVIOUS
<1>3. PICK x \in C : \A y \in C : ~ (<<y, x>> \in StrictSubsetOrdering(Nat))
    BY <1>1, <1>2, FS_StrictSubsetOrderingWellFounded, WFMin, Zenon
<1>4. PICK m \in T : x = 0 .. m
    OBVIOUS
<1>5. ASSUME NEW k \in T, k < m
      PROVE  FALSE
  <2>1. 0 .. k \subseteq 0 .. m /\ m \in 0 .. m /\ m \notin 0 .. k
      BY <1>5
  <2>2. <<0 .. k, 0 .. m>> \in StrictSubsetOrdering(Nat)
      BY <2>1 DEF StrictSubsetOrdering
  <2> QED
      BY <1>3, <1>4, <2>2
<1> QED
    BY <1>5

\* The longest walk that meets no theme twice.
N == Cardinality(Names)

LEMMA NamesFinite == IsFiniteSet(Names) /\ N \in Nat /\ None \notin Names
BY IconServiceAssumption, FS_CardinalityType DEF Names, None, N

-----------------------------------------------------------------------------
\* The walk from t by the map m, without recursion: where it starts, and one step.
StepUp(m, x) == IF x = None THEN None ELSE At(m, x, None)

IsWalk(up, m, t) ==
    /\ up \in [0 .. N -> Names \cup {None}]
    /\ up[0] = t
    /\ \A n \in 1 .. N : up[n] = StepUp(m, up[n - 1])

\* What a map from names to parents holds.
IsParents(m) == \A x \in DOMAIN m : m[x] \in Names \cup {None}

\* Initial segments of the walk, to show that the recursive function exists.
IsPrefix(f, k, m, t) ==
    /\ f \in [0 .. k -> Names \cup {None}]
    /\ f[0] = t
    /\ \A n \in 1 .. k : f[n] = StepUp(m, f[n - 1])

LEMMA StepUpType ==
    ASSUME NEW m, IsParents(m), NEW x \in Names \cup {None}
    PROVE  StepUp(m, x) \in Names \cup {None}
BY DEF StepUp, IsParents, At

LEMMA PrefixesExist ==
    ASSUME NEW m, IsParents(m), NEW t \in Names
    PROVE  \A k \in Nat : \E f : IsPrefix(f, k, m, t)
<1> DEFINE Lacking == {k \in Nat : ~ \E f : IsPrefix(f, k, m, t)}
<1> SUFFICES ASSUME Lacking # {} PROVE FALSE
    OBVIOUS
<1>1. PICK k \in Lacking : \A j \in Lacking : k <= j
    BY LeastElement
<1>2. IsPrefix([n \in 0 .. 0 |-> t], 0, m, t)
    BY DEF IsPrefix
<1>3. k # 0
    BY <1>1, <1>2
<1>4. k - 1 \in Nat /\ k - 1 \notin Lacking
    BY <1>1, <1>3
<1>5. PICK f : IsPrefix(f, k - 1, m, t)
    BY <1>4
<1> DEFINE g == [n \in 0 .. k |-> IF n = k THEN StepUp(m, f[k - 1]) ELSE f[n]]
<1>6. f[k - 1] \in Names \cup {None}
    BY <1>4, <1>5 DEF IsPrefix
<1>7. StepUp(m, f[k - 1]) \in Names \cup {None}
    BY <1>6, StepUpType
<1>8. g \in [0 .. k -> Names \cup {None}]
    BY <1>4, <1>5, <1>7 DEF IsPrefix
<1>9. g[0] = t
    BY <1>3, <1>4, <1>5 DEF IsPrefix
<1>10. ASSUME NEW n \in 1 .. k
       PROVE  g[n] = StepUp(m, g[n - 1])
  <2>1. CASE n = k
      BY <2>1, <1>4
  <2>2. CASE n # k
    <3>1. n \in 1 .. k - 1 /\ n - 1 \in 0 .. k /\ n \in 0 .. k /\ n - 1 # k
        BY <2>2, <1>4
    <3>2. f[n] = StepUp(m, f[n - 1])
        BY <3>1, <1>5 DEF IsPrefix
    <3> QED
        BY <3>1, <3>2, <2>2
  <2> QED
      BY <2>1, <2>2
<1>11. IsPrefix(g, k, m, t)
    BY <1>8, <1>9, <1>10 DEF IsPrefix
<1> QED
    BY <1>1, <1>11

\* The recursive function of the specification is that walk.
LEMMA WalkIsWalk ==
    ASSUME NEW m, IsParents(m), NEW t \in Names
    PROVE  IsWalk(Walk(m, t), m, t) /\ DOMAIN Walk(m, t) = 0 .. N
<1> DEFINE Def(up) == up = [n \in 0 .. Cardinality(Names) |->
              IF n = 0 THEN t ELSE IF up[n - 1] = None THEN None ELSE At(m, up[n - 1], None)]
<1>1. PICK f : IsPrefix(f, N, m, t)
    BY PrefixesExist, NamesFinite
<1>2. Def(f)
  <2>1. ASSUME NEW n \in 0 .. N
        PROVE  f[n] = IF n = 0 THEN t ELSE IF f[n - 1] = None THEN None ELSE At(m, f[n - 1], None)
    <3>1. CASE n = 0
        BY <3>1, <1>1 DEF IsPrefix
    <3>2. CASE n # 0
      <4>1. n \in 1 .. N
          BY <3>2, NamesFinite
      <4> QED
          BY <4>1, <3>2, <1>1 DEF IsPrefix, StepUp
    <3> QED
        BY <3>1, <3>2
  <2> QED
      BY <2>1, <1>1 DEF IsPrefix, N
<1>3. Walk(m, t) = CHOOSE up : Def(up)
    BY DEF Walk
<1>4. PICK up : up = Walk(m, t) /\ Def(up)
    BY <1>2, <1>3
<1> DEFINE there(n) == IF n = 0 THEN t ELSE IF up[n - 1] = None THEN None ELSE At(m, up[n - 1], None)
<1>5. up = [n \in 0 .. N |-> there(n)]
    BY <1>4, Zenon DEF N
<1>6. (up = [n \in 0 .. N |-> up[n]]) /\ \A n \in 0 .. N : up[n] = there(n)
  <2> HIDE DEF there
  <2> QED
      BY <1>5
<1>7. \A n \in 0 .. N : up[n] = there(n)
    BY <1>6
<1>8. up[0] = t
    BY <1>7, NamesFinite
<1>9. \A n \in 1 .. N : up[n] = StepUp(m, up[n - 1])
  <2> SUFFICES ASSUME NEW n \in 1 .. N PROVE up[n] = StepUp(m, up[n - 1])
      OBVIOUS
  <2>1. n \in 0 .. N /\ n # 0
      BY NamesFinite
  <2> QED
      BY <2>1, <1>7 DEF StepUp
<1>10. \A n \in 0 .. N : up[n] \in Names \cup {None}
  <2> DEFINE Bad == {n \in 0 .. N : up[n] \notin Names \cup {None}}
  <2> SUFFICES ASSUME Bad # {} PROVE FALSE
      OBVIOUS
  <2>0. Bad \in SUBSET Nat
      BY NamesFinite
  <2>1. PICK n \in Bad : \A j \in Bad : n <= j
      BY <2>0, LeastElement
  <2>2. n # 0 /\ n \in 0 .. N
      BY <2>1, <1>8
  <2>3. n \in 1 .. N /\ n - 1 \in 0 .. N /\ n - 1 < n
      BY <2>2, NamesFinite
  <2>4. up[n - 1] \in Names \cup {None}
      BY <2>1, <2>3
  <2> QED
      BY <2>1, <2>3, <2>4, <1>9, StepUpType
<1>11. up \in [0 .. N -> Names \cup {None}]
  <2> HIDE DEF there
  <2> QED
      BY <1>5, <1>6, <1>10
<1> QED
  <2> HIDE DEF there
  <2> QED
      BY <1>4, <1>5, <1>8, <1>9, <1>11 DEF IsWalk

-----------------------------------------------------------------------------
\* Past the last theme a walk stays at None.
LEMMA NoneStays ==
    ASSUME NEW m, NEW t, NEW up, IsWalk(up, m, t),
           NEW k \in 0 .. N, up[k] = None, NEW n \in 0 .. N, k <= n
    PROVE  up[n] = None
<1> DEFINE Bad == {j \in 0 .. N : k <= j /\ up[j] # None}
<1> SUFFICES ASSUME Bad # {} PROVE FALSE
    OBVIOUS
<1>0. Bad \in SUBSET Nat
    BY NamesFinite
<1>1. PICK j \in Bad : \A i \in Bad : j <= i
    BY <1>0, LeastElement
<1>2. j # k /\ j \in 1 .. N /\ j - 1 \in 0 .. N /\ k <= j - 1
    BY <1>1, NamesFinite
<1>3. up[j - 1] = None
    BY <1>1, <1>2
<1>4. up[j] = StepUp(m, up[j - 1])
    BY <1>2 DEF IsWalk
<1> QED
    BY <1>1, <1>3, <1>4 DEF StepUp

\* A walk that comes to a theme again goes on as it did.
LEMMA Repeats ==
    ASSUME NEW m, NEW t, NEW up, IsWalk(up, m, t),
           NEW i \in 0 .. N, NEW j \in 0 .. N, i < j, up[i] = up[j]
    PROVE  \A k \in 0 .. N - j : up[i + k] = up[j + k]
<1> DEFINE Bad == {k \in 0 .. N - j : up[i + k] # up[j + k]}
<1> SUFFICES ASSUME Bad # {} PROVE FALSE
    OBVIOUS
<1>0. Bad \in SUBSET Nat
    BY NamesFinite
<1>1. PICK k \in Bad : \A l \in Bad : k <= l
    BY <1>0, LeastElement
<1>2. k \in Nat /\ i \in Nat /\ j \in Nat /\ k # 0 /\ k <= N - j /\ N \in Nat
    BY <1>1, NamesFinite
<1>3. k - 1 \in 0 .. N - j /\ k - 1 < k
    BY <1>2
<1>4. up[i + (k - 1)] = up[j + (k - 1)]
    BY <1>1, <1>3
<1>5. /\ i + k \in 1 .. N /\ j + k \in 1 .. N
      /\ (i + k) - 1 = i + (k - 1) /\ (j + k) - 1 = j + (k - 1)
    BY <1>2
<1>6. up[i + k] = StepUp(m, up[i + (k - 1)]) /\ up[j + k] = StepUp(m, up[j + (k - 1)])
    BY <1>5 DEF IsWalk
<1> QED
    BY <1>1, <1>4, <1>6

\* What a walk comes to from a theme it has met is part of the walk: if it is at
\* its last place, there is a theme it has met twice.
LEMMA NextOnWalk ==
    ASSUME NEW m, IsParents(m), NEW t, NEW up, IsWalk(up, m, t),
           NEW n \in 0 .. N, up[n] \in Names
    PROVE  \E k \in 0 .. N : k <= n + 1 /\ up[k] = At(m, up[n], None)
<1>1. StepUp(m, up[n]) = At(m, up[n], None)
    BY NamesFinite DEF StepUp
<1>2. CASE n < N
  <2>1. n + 1 \in 1 .. N /\ n + 1 \in 0 .. N /\ (n + 1) - 1 = n
      BY <1>2, NamesFinite
  <2>2. up[n + 1] = StepUp(m, up[n])
      BY <2>1 DEF IsWalk
  <2> QED
      BY <2>1, <2>2, <1>1, NamesFinite
<1>3. CASE n = N
  <2>1. \A k \in 0 .. N : up[k] \in Names
    <3> SUFFICES ASSUME NEW k \in 0 .. N, up[k] \notin Names PROVE FALSE
        OBVIOUS
    <3>1. up[k] = None
        BY DEF IsWalk
    <3>2. k <= N /\ N \in 0 .. N
        BY NamesFinite
    <3>3. up[N] = None
        BY <3>1, <3>2, NoneStays
    <3> QED
        BY <3>3, <1>3, NamesFinite
  <2>2. up \in [0 .. N -> Names]
      BY <2>1 DEF IsWalk
  <2>3. IsFiniteSet(0 .. N) /\ Cardinality(0 .. N) = N + 1
      BY FS_Interval, NamesFinite
  <2>4. PICK x \in 0 .. N, y \in 0 .. N : x # y /\ up[x] = up[y]
    <3>1. Cardinality(Names) < Cardinality(0 .. N)
        BY <2>3, NamesFinite DEF N
    <3> QED
        BY <2>2, <2>3, <3>1, NamesFinite, FS_PigeonHole
  <2>5. PICK i \in 0 .. N, j \in 0 .. N : i < j /\ up[i] = up[j]
    <3>1. x < y \/ y < x
        BY <2>4, NamesFinite
    <3> QED
        BY <2>4, <3>1
  <2> DEFINE l == i + (N - j)
  <2>6. up[l] = up[N]
    <3>1. N - j \in 0 .. N - j /\ j + (N - j) = N
        BY NamesFinite
    <3>2. up[i + (N - j)] = up[j + (N - j)]
        BY <2>5, <3>1, Repeats
    <3> QED
        BY <3>1, <3>2
  <2>7. l + 1 \in 1 .. N /\ l + 1 \in 0 .. N /\ (l + 1) - 1 = l
      BY <2>5, NamesFinite
  <2>8. up[l + 1] = StepUp(m, up[l])
      BY <2>7 DEF IsWalk
  <2>9. l + 1 <= n + 1
      BY <2>7, <1>3, NamesFinite
  <2> QED
      BY <2>6, <2>7, <2>8, <2>9, <1>1, <1>3
<1> QED
    BY <1>2, <1>3, NamesFinite

-----------------------------------------------------------------------------
\* What IconCollector collects: the place of a directory among those that have
\* the icon is the number of those before it, so each place is taken.
LEMMA EachPlaceIsTaken ==
    ASSUME NEW here \in SUBSET Nat, IsFiniteSet(here), NEW k \in 1 .. Cardinality(here)
    PROVE  \E d \in here : Cardinality({e \in here : e < d}) = k - 1
<1> DEFINE before(d) == {e \in here : e < d}
           C == Cardinality(here)
           f == [d \in here |-> Cardinality(before(d))]
<1>1. C \in Nat
    BY FS_CardinalityType
<1>2. \A d \in here : IsFiniteSet(before(d)) /\ Cardinality(before(d)) \in Nat
  <2> SUFFICES ASSUME NEW d \in here
               PROVE  IsFiniteSet(before(d)) /\ Cardinality(before(d)) \in Nat
      OBVIOUS
  <2>1. before(d) \in SUBSET here
      OBVIOUS
  <2>2. IsFiniteSet(before(d))
      BY <2>1, FS_Subset
  <2> QED
      BY <2>2, FS_CardinalityType
<1>3. ASSUME NEW d \in here
      PROVE  Cardinality(before(d)) < C
  <2>1. before(d) \in SUBSET here /\ d \notin before(d)
    <3>1. ~ d < d
        OBVIOUS
    <3> QED
        BY <3>1
  <2>2. Cardinality(before(d)) <= C /\ (C = Cardinality(before(d)) => here = before(d))
      BY <2>1, FS_Subset
  <2> QED
      BY <2>1, <2>2, <1>1, <1>2
<1>4. ASSUME NEW d \in here, NEW e \in here, d < e
      PROVE  Cardinality(before(d)) < Cardinality(before(e))
  <2>1. before(d) \in SUBSET before(e) /\ d \in before(e) /\ d \notin before(d)
    <3>1. \A x \in Nat : x < d => x < e
        BY <1>4
    <3>2. ~ d < d
        OBVIOUS
    <3> QED
        BY <3>1, <3>2, <1>4
  <2>2. /\ Cardinality(before(d)) <= Cardinality(before(e))
        /\ Cardinality(before(e)) = Cardinality(before(d)) => before(e) = before(d)
      BY <2>1, <1>2, FS_Subset
  <2> QED
      BY <2>1, <2>2, <1>2
<1>5. f \in Injection(here, 0 .. C - 1)
  <2>1. f \in [here -> 0 .. C - 1]
      BY <1>1, <1>2, <1>3
  <2>2. ASSUME NEW d \in here, NEW e \in here, f[d] = f[e]
        PROVE  d = e
    <3>1. Cardinality(before(d)) = Cardinality(before(e))
        BY <2>2
    <3>2. ~ d < e /\ ~ e < d
        BY <3>1, <1>2, <1>4
    <3> QED
        BY <3>2
  <2> QED
      BY <2>1, <2>2 DEF Injection, IsInjective
<1>6. IsFiniteSet(0 .. C - 1) /\ Cardinality(0 .. C - 1) = C
  <2>1. 0 \in Int /\ C - 1 \in Int
      BY <1>1
  <2> QED
      BY <2>1, <1>1, FS_Interval
<1>7. f \in Surjection(here, 0 .. C - 1)
    BY <1>5, <1>6, FS_Injection
<1>8. k - 1 \in 0 .. C - 1
    BY <1>1
<1>9. PICK d \in here : f[d] = k - 1
    BY <1>7, <1>8 DEF Surjection
<1> QED
    BY <1>9

LEMMA CollectedType ==
    ASSUME NEW i, NEW named, NEW dirs, DOMAIN dirs \subseteq Dirs,
           \A d \in DOMAIN dirs : dirs[d] \in Instance
    PROVE  Collected(i, dirs, named) \in Seq(Instance)
<1> DEFINE here == {d \in DOMAIN dirs : i \in named[d]}
           nth(k) == CHOOSE d \in here : Cardinality({e \in here : e < d}) = k - 1
<1>1. here \in SUBSET Dirs /\ here \in SUBSET Nat
    BY DEF Dirs
<1>2. IsFiniteSet(here)
  <2>1. IsFiniteSet(Dirs)
      BY FS_Interval, IconServiceAssumption DEF Dirs
  <2> QED
      BY <1>1, <2>1, FS_Subset
<1>3. Cardinality(here) \in Nat
    BY <1>2, FS_CardinalityType
<1>4. \A k \in 1 .. Cardinality(here) : nth(k) \in here
    BY <1>1, <1>2, EachPlaceIsTaken
<1>5. \A k \in 1 .. Cardinality(here) : dirs[nth(k)] \in Instance
    BY <1>4
<1>6. Collected(i, dirs, named) = [k \in 1 .. Cardinality(here) |-> dirs[nth(k)]]
    BY DEF Collected
<1> QED
  <2> HIDE DEF nth, here
  <2> QED
      BY <1>3, <1>5, <1>6

-----------------------------------------------------------------------------
\* findPathOfClosest: a list with an instance has a first one among the nearest.
LEMMA DistanceType ==
    ASSUME NEW i \in Instance, NEW size \in Int
    PROVE  Distance(i, size) \in Nat
BY DEF Distance, Instance

LEMMA ClosestIsNearest ==
    ASSUME NEW s \in Seq(Instance), s # <<>>, NEW size \in Int
    PROVE  \E k \in DOMAIN s : /\ FindPathOfClosest(s, size) = s[k]
                               /\ \A j \in DOMAIN s : Distance(s[k], size) <= Distance(s[j], size)
<1> DEFINE dist(k) == Distance(s[k], size)
           Good(k) == \A j \in DOMAIN s : dist(k) <= dist(j) /\ (j < k => dist(k) < dist(j))
<1>1. DOMAIN s \in SUBSET Nat /\ DOMAIN s # {} /\ \A k \in DOMAIN s : s[k] \in Instance
    OBVIOUS
<1>2. \A k \in DOMAIN s : dist(k) \in Nat
    BY <1>1, DistanceType
<1> DEFINE Dists == {dist(k) : k \in DOMAIN s}
<1>3. Dists \in SUBSET Nat /\ Dists # {}
    BY <1>1, <1>2
<1>4. PICK d \in Dists : \A e \in Dists : d <= e
    BY <1>3, LeastElement
<1> DEFINE Ks == {k \in DOMAIN s : dist(k) = d}
<1>5. Ks \in SUBSET Nat /\ Ks # {}
    BY <1>1, <1>4
<1>6. PICK k \in Ks : \A j \in Ks : k <= j
    BY <1>5, LeastElement
<1>7. \A j \in DOMAIN s : dist(j) \in Nat /\ d <= dist(j) /\ (dist(j) = d => k <= j)
    BY <1>2, <1>4, <1>6
<1>8. k \in DOMAIN s /\ dist(k) = d /\ d \in Nat /\ k \in Nat
    BY <1>1, <1>2, <1>6
<1>9. Good(k)
  <2> SUFFICES ASSUME NEW j \in DOMAIN s
               PROVE  dist(k) <= dist(j) /\ (j < k => dist(k) < dist(j))
      OBVIOUS
  <2> HIDE DEF dist
  <2>1. j \in Nat
      BY <1>1
  <2> QED
      BY <2>1, <1>7, <1>8
<1>10. FindPathOfClosest(s, size) = s[CHOOSE l \in DOMAIN s : Good(l)]
    BY DEF FindPathOfClosest
<1> DEFINE l == CHOOSE x \in DOMAIN s : Good(x)
<1>11. l \in DOMAIN s /\ Good(l)
    BY <1>8, <1>9
<1> QED
    BY <1>10, <1>11

-----------------------------------------------------------------------------
\* Types.

Walking == {"open", "addTheme", "names", "next", "addParent"}

\* What a worker holds, whatever has disturbed it.
Holding(w) ==
    /\ pc[w] # "idle" => request[w] \in Requests
    /\ pc[w] \in Walking \cup {"pixmaps"} => request[w].names # <<>>
    /\ pc[w] = "names" => \/ iconMap[w] = name[w] /\ name[w] \in DOMAIN icons
                          \/ iconMap[w] = "wild"

\* Nobody asks before the maps are built.
Quiet == phase = "build" => \A w \in Workers : pc[w] = "idle"

TypeInv == TypeOK /\ Quiet /\ \A w \in Workers : Holding(w)

LEMMA RequestType ==
    ASSUME NEW r \in Requests
    PROVE  r.theme \in Names /\ r.size \in Int /\ r.names \in Seq([icon : Icons, ending : BOOLEAN])
BY IconServiceAssumption DEF Names

LEMMA NoIconsType == NoIcons \in [Icons -> Seq(Instance)]
BY DEF NoIcons

LEMMA TypeInit == Init => TypeInv
<1> SUFFICES ASSUME Init PROVE TypeInv
    OBVIOUS
<1>1. visits \in 0 .. MaxVisits
    BY IconServiceAssumption DEF Init
<1>2. DOMAIN inherits = {} /\ DOMAIN directories = {} /\ DOMAIN icons = {} /\ DOMAIN parent = {}
    BY DEF Init
<1>3. pixmaps \in [Icons -> Seq(Instance)]
    BY NoIconsType DEF Init
<1>4. /\ request \in [Workers -> Requests \cup {NoRequest}]
      /\ answer \in [Workers -> Answers]
    BY DEF Init, Answers
<1>5. /\ pc \in [Workers -> {"idle", "open", "addTheme", "names", "next", "addParent", "pixmaps", "reply"}]
      /\ name \in [Workers -> Names \cup {None}]
      /\ iconMap \in [Workers -> Names \cup {None, "wild"}]
      /\ raced \in [Workers -> BOOLEAN] /\ corrupt \in BOOLEAN
      /\ phase = "build" /\ cutOff \subseteq Themes /\ \A w \in Workers : pc[w] = "idle"
    BY DEF Init
<1>6. \A w \in Workers : Holding(w)
    BY <1>5 DEF Holding, Walking
<1> QED
    BY <1>1, <1>2, <1>3, <1>4, <1>5, <1>6 DEF TypeInv, TypeOK, Quiet

\* What the files of theme directory d leave in the maps.
LEMMA VisitTypes ==
    ASSUME TypeOK, NEW d \in ThemeDirs
    PROVE  /\ d.theme \in Themes /\ d.theme \in Names
           /\ InheritsOf(d) \in Names \cup {None}
           /\ DOMAIN DirectoriesOf(d) \subseteq Dirs
           /\ \A k \in DOMAIN DirectoriesOf(d) : DirectoriesOf(d)[k] \in Instance
           /\ At(icons, d.theme, NoIcons) \in [Icons -> Seq(Instance)]
<1>1. d.theme \in Themes /\ d.theme \in Names
    BY IconServiceAssumption DEF Names
<1>2. InheritsOf(d) \in Names \cup {None}
  <2>1. d.inherits \in Names \cup {None, NotSet} /\ Hicolor \in Names
      BY IconServiceAssumption DEF Names, None, NotSet
  <2>2. At(inherits, d.theme, Hicolor) \in Names \cup {None}
      BY <2>1 DEF TypeOK, At
  <2> QED
      BY <2>1, <2>2 DEF InheritsOf
<1>3. At(icons, d.theme, NoIcons) \in [Icons -> Seq(Instance)]
    BY NoIconsType DEF TypeOK, At
<1> DEFINE old == At(directories, d.theme, <<>>)
<1>4. DOMAIN old \subseteq Dirs /\ \A k \in DOMAIN old : old[k] \in Instance
    BY DEF TypeOK, At
<1>5. DOMAIN d.declared \subseteq Dirs /\ \A k \in DOMAIN d.declared : d.declared[k] \in Instance
    BY IconServiceAssumption DEF Dirs, Instance
<1>6. DirectoriesOf(d) = Over(d.declared, old)
    BY DEF DirectoriesOf
<1> HIDE DEF old
<1>7. /\ DOMAIN DirectoriesOf(d) \subseteq Dirs
      /\ \A k \in DOMAIN DirectoriesOf(d) : DirectoriesOf(d)[k] \in Instance
    BY <1>4, <1>5, <1>6 DEF Over
<1> QED
    BY <1>1, <1>2, <1>3, <1>7

LEMMA VisitStep ==
    ASSUME TypeInv, NEW d \in ThemeDirs, Visit(d)
    PROVE  TypeInv'
<1> USE DEF TypeInv
<1> DEFINE t == d.theme
           dirs == DirectoriesOf(d)
           old == At(icons, t, NoIcons)
           new == [i \in Icons |-> old[i] \o Collected(i, dirs, d.files)]
           in == IF t = Hicolor THEN None ELSE InheritsOf(d)
<1>1. /\ t \in Themes /\ t \in Names
      /\ InheritsOf(d) \in Names \cup {None}
      /\ DOMAIN dirs \subseteq Dirs
      /\ \A k \in DOMAIN dirs : dirs[k] \in Instance
      /\ old \in [Icons -> Seq(Instance)]
    BY VisitTypes
<1>2. /\ inherits' = Over(Entry(t, in), inherits)
      /\ directories' = Over(Entry(t, dirs), directories)
      /\ icons' = Over(Entry(t, new), icons)
      /\ parent' = IF t = Hicolor THEN parent ELSE Over(Entry(t, InheritsOf(d)), parent)
    BY DEF Visit
<1>3. new \in [Icons -> Seq(Instance)]
  <2>1. \A i \in Icons : Collected(i, dirs, d.files) \in Seq(Instance)
      BY <1>1, CollectedType
  <2> HIDE DEF dirs, old
  <2>2. \A i \in Icons : old[i] \o Collected(i, dirs, d.files) \in Seq(Instance)
      BY <2>1, <1>1
  <2> QED
      BY <2>2
<1>4. in \in Names \cup {None}
    BY <1>1
<1> HIDE DEF t, dirs, old, new, in
<1>5. /\ DOMAIN inherits' = DOMAIN inherits \cup {t}
      /\ DOMAIN directories' = DOMAIN directories \cup {t}
      /\ DOMAIN icons' = DOMAIN icons \cup {t}
      /\ DOMAIN parent' \subseteq DOMAIN parent \cup {t}
    BY <1>2 DEF Over, Entry
<1>6. \A x \in DOMAIN inherits' : inherits'[x] \in Names \cup {None}
  <2>1. inherits'[t] = in /\ \A x \in DOMAIN inherits : x # t => inherits'[x] = inherits[x]
      BY <1>2 DEF Over, Entry
  <2> QED
      BY <2>1, <1>4, <1>5 DEF TypeOK
<1>7. \A x \in DOMAIN directories' :
         /\ DOMAIN (directories'[x]) \subseteq Dirs
         /\ \A k \in DOMAIN (directories'[x]) : directories'[x][k] \in Instance
  <2>1. directories'[t] = dirs /\ \A x \in DOMAIN directories : x # t => directories'[x] = directories[x]
      BY <1>2 DEF Over, Entry
  <2> QED
      BY <2>1, <1>1, <1>5 DEF TypeOK
<1>8. \A x \in DOMAIN icons' : icons'[x] \in [Icons -> Seq(Instance)]
  <2>1. icons'[t] = new /\ \A x \in DOMAIN icons : x # t => icons'[x] = icons[x]
      BY <1>2 DEF Over, Entry
  <2> QED
      BY <2>1, <1>3, <1>5 DEF TypeOK
<1>9. \A x \in DOMAIN parent' : parent'[x] \in Names \cup {None}
  <2>1. CASE t = Hicolor
      BY <2>1, <1>2 DEF TypeOK
  <2>2. CASE t # Hicolor
    <3>1. parent'[t] = InheritsOf(d) /\ \A x \in DOMAIN parent : x # t => parent'[x] = parent[x]
        BY <2>2, <1>2 DEF Over, Entry
    <3> QED
        BY <3>1, <1>1, <1>5 DEF TypeOK
  <2> QED
      BY <2>1, <2>2
<1>10. visits' \in 0 .. MaxVisits /\ phase' = phase /\ phase = "build" /\ UNCHANGED <<pixmaps, workers>>
    BY IconServiceAssumption DEF Visit, TypeOK
<1>11. cutOff' \subseteq Themes
    BY <1>1 DEF Visit, TypeOK, t
<1>12. TypeOK'
    BY <1>1, <1>5, <1>6, <1>7, <1>8, <1>9, <1>10, <1>11 DEF TypeOK, workers, Names
<1>13. Quiet'
    BY <1>10 DEF Quiet, workers
<1>14. \A w \in Workers : Holding(w)'
    BY <1>10, <1>5 DEF Holding, Quiet, workers, Walking
<1> QED
    BY <1>12, <1>13, <1>14

LEMMA MapResourcesStep ==
    ASSUME TypeInv, NEW found \in PixmapSets, MapResources(found)
    PROVE  TypeInv'
<1> USE DEF TypeInv
<1>1. PixmapRange \in Instance
    BY DEF PixmapRange, Instance
<1>2. pixmaps' \in [Icons -> Seq(Instance)]
    BY <1>1 DEF MapResources
<1>3. visits' \in 0 .. MaxVisits /\ phase' \in {"build", "serve", "failed"} /\ phase = "build"
    BY IconServiceAssumption DEF MapResources
<1>4. UNCHANGED <<inherits, directories, cutOff, maps, workers>>
    BY DEF MapResources
<1>5. TypeOK'
    BY <1>2, <1>3, <1>4 DEF TypeOK, maps, workers
<1> QED
    BY <1>3, <1>4, <1>5 DEF Quiet, Holding, maps, workers

-----------------------------------------------------------------------------
\* The names of request r that theme t of the icons ic has, and those the pixmaps
\* px have.
In(r, ic, t) ==
    {k \in DOMAIN r.names : ~r.names[k].ending /\ Len(At(ic, t, NoIcons)[r.names[k].icon]) > 0}
InPix(r, px) == {k \in DOMAIN r.names : Len(px[r.names[k].icon]) > 0}

\* Whatever is looked for, First finds the least of the set T of the places it is at.
LEMMA LeastPlace ==
    ASSUME NEW r \in Requests, NEW T \in SUBSET DOMAIN r.names, T # {}
    PROVE  \E k \in T : (\A j \in T : k <= j) /\ \A j \in 1 .. k - 1 : j \in DOMAIN r.names \ T
<1>1. r.names \in Seq([icon : Icons, ending : BOOLEAN])
    BY RequestType
<1>2. DOMAIN r.names = 1 .. Len(r.names) /\ Len(r.names) \in Nat
    BY <1>1
<1>3. T \in SUBSET Nat
    BY <1>2
<1>4. PICK k \in T : \A j \in T : k <= j
    BY <1>3, LeastElement
<1> QED
    BY <1>2, <1>4

LEMMA FirstHere ==
    ASSUME NEW r \in Requests, NEW t
    PROVE  LET here(n) == InTheme(n, t)
               T == In(r, icons, t)
           IN  /\ Some(r.names, here) <=> T # {}
               /\ T # {} => First(r.names, here) \in T /\ \A j \in T : First(r.names, here) <= j
<1> DEFINE here(n) == InTheme(n, t)
           T == In(r, icons, t)
<1>1. T \in SUBSET DOMAIN r.names /\ \A k \in DOMAIN r.names : here(r.names[k]) <=> k \in T
    BY DEF In, InTheme
<1>2. Some(r.names, here) <=> T # {}
    BY <1>1 DEF Some
<1>3. ASSUME T # {}
      PROVE  First(r.names, here) \in T /\ \A j \in T : First(r.names, here) <= j
  <2> DEFINE Good(k) == here(r.names[k]) /\ \A j \in 1 .. k - 1 : ~here(r.names[j])
             f == CHOOSE k \in DOMAIN r.names : Good(k)
  <2>1. First(r.names, here) = f
      BY DEF First
  <2>2. PICK k \in T : (\A j \in T : k <= j) /\ \A j \in 1 .. k - 1 : j \in DOMAIN r.names \ T
      BY <1>1, <1>3, LeastPlace
  <2>3. k \in DOMAIN r.names /\ Good(k)
      BY <1>1, <2>2
  <2>4. f \in DOMAIN r.names /\ Good(f)
      BY <2>3
  <2>5. DOMAIN r.names \in SUBSET (Nat \ {0})
      BY RequestType
  <2>6. f \in T /\ \A j \in 1 .. f - 1 : j \notin T
    <3> HIDE DEF here, f
    <3>1. \A j \in 1 .. f - 1 : j \in DOMAIN r.names
        BY <2>4, RequestType
    <3> QED
        BY <1>1, <2>4, <3>1
  <2>7. \A j \in T : f <= j
    <3> HIDE DEF f
    <3> QED
        BY <1>1, <2>5, <2>6
  <2> QED
      BY <2>1, <2>6, <2>7
<1> QED
    BY <1>2, <1>3

LEMMA FirstInPixmaps ==
    ASSUME NEW r \in Requests
    PROVE  LET T == InPix(r, pixmaps)
           IN  /\ Some(r.names, InPixmaps) <=> T # {}
               /\ T # {} => First(r.names, InPixmaps) \in T /\ \A j \in T : First(r.names, InPixmaps) <= j
<1> DEFINE here(n) == InPixmaps(n)
           T == InPix(r, pixmaps)
<1>1. T \in SUBSET DOMAIN r.names /\ \A k \in DOMAIN r.names : here(r.names[k]) <=> k \in T
    BY DEF InPix, InPixmaps
<1>2. Some(r.names, InPixmaps) <=> T # {}
    BY <1>1 DEF Some
<1>3. ASSUME T # {}
      PROVE  First(r.names, InPixmaps) \in T /\ \A j \in T : First(r.names, InPixmaps) <= j
  <2> DEFINE Good(k) == here(r.names[k]) /\ \A j \in 1 .. k - 1 : ~here(r.names[j])
             f == CHOOSE k \in DOMAIN r.names : Good(k)
  <2>1. First(r.names, InPixmaps) = f
      BY DEF First
  <2>2. PICK k \in T : (\A j \in T : k <= j) /\ \A j \in 1 .. k - 1 : j \in DOMAIN r.names \ T
      BY <1>1, <1>3, LeastPlace
  <2>3. k \in DOMAIN r.names /\ Good(k)
      BY <1>1, <2>2
  <2>4. f \in DOMAIN r.names /\ Good(f)
      BY <2>3
  <2>5. DOMAIN r.names \in SUBSET (Nat \ {0})
      BY RequestType
  <2>6. f \in T /\ \A j \in 1 .. f - 1 : j \notin T
    <3> HIDE DEF here, f
    <3>1. \A j \in 1 .. f - 1 : j \in DOMAIN r.names
        BY <2>4, RequestType
    <3> QED
        BY <1>1, <2>4, <3>1
  <2>7. \A j \in T : f <= j
    <3> HIDE DEF f
    <3> QED
        BY <1>1, <2>5, <2>6
  <2> QED
      BY <2>1, <2>6, <2>7
<1> QED
    BY <1>2, <1>3

\* What is sent is the nearest of the instances there are.
LEMMA SendsNearest ==
    ASSUME NEW s \in Seq(Instance), Len(s) > 0, NEW size \in Int
    PROVE  SendFile(s, size) \in Answers /\ Nearest(SendFile(s, size), s, size)
<1>1. PICK k \in DOMAIN s : /\ FindPathOfClosest(s, size) = s[k]
                            /\ \A j \in DOMAIN s : Distance(s[k], size) <= Distance(s[j], size)
    BY ClosestIsNearest
<1>2. s[k] \in Instance /\ SendFile(s, size) = [status |-> "200", icon |-> s[k]]
    BY <1>1 DEF SendFile
<1>3. SendFile(s, size) \in [status : {"200"}, icon : Instance]
    BY <1>2
<1>4. Nearest(SendFile(s, size), s, size)
    BY <1>1, <1>2, Zenon DEF Nearest
<1> QED
    BY <1>3, <1>4 DEF Answers

-----------------------------------------------------------------------------
\* The steps of a worker.

\* Another worker holds what it held, or an outdated reference.
LEMMA OthersHold ==
    ASSUME NEW v, Holding(v), pc'[v] = pc[v], request'[v] = request[v], name'[v] = name[v],
           iconMap'[v] \in {iconMap[v], "wild"}, DOMAIN icons \subseteq DOMAIN icons'
    PROVE  Holding(v)'
BY DEF Holding

\* A worker that is not idle is asked something, and the maps are built.
LEMMA Serving ==
    ASSUME TypeInv, NEW w \in Workers, pc[w] # "idle"
    PROVE  phase # "build" /\ request[w] \in Requests
BY DEF TypeInv, Quiet, Holding

LookupPlaces == {"idle", "open", "addTheme", "names", "next", "addParent", "pixmaps", "reply"}

LEMMA BeginStep ==
    ASSUME TypeInv, NEW w \in Workers, NEW r \in Requests, Begin(w, r)
    PROVE  TypeInv'
<1> USE DEF TypeInv
<1>1. r.theme \in Names /\ (Len(r.names) > 0 => r.names # <<>>) /\ None \notin Names
    BY RequestType, NamesFinite
<1>2. Disturbed(w) \in BOOLEAN
    BY DEF Disturbed, TypeOK
<1>3. PICK p \in {"reply", "open"}, a \in Answers :
          /\ pc' = [pc EXCEPT ![w] = p] /\ answer' = [answer EXCEPT ![w] = a]
          /\ p = "open" => r.names # <<>>
  <2>1. answer[w] \in Answers /\ answer = [answer EXCEPT ![w] = answer[w]]
      BY DEF TypeOK
  <2>2. Status("422") \in Answers /\ Status("no theme") \in Answers
      BY DEF Answers
  <2> QED
      BY <1>1, <2>1, <2>2 DEF Begin, Answer
<1>4. /\ request' = [request EXCEPT ![w] = r] /\ name' = [name EXCEPT ![w] = r.theme]
      /\ raced' = [raced EXCEPT ![w] = Disturbed(w)]
      /\ UNCHANGED <<built, maps, iconMap, corrupt>> /\ phase = "serve"
    BY DEF Begin
<1>5. TypeOK'
    BY <1>1, <1>2, <1>3, <1>4 DEF TypeOK, built, maps
<1>6. Quiet'
    BY <1>4 DEF Quiet, built
<1>7. Holding(w)'
    BY <1>3, <1>4 DEF Holding, Walking, TypeOK
<1>8. ASSUME NEW v \in Workers, v # w
      PROVE  Holding(v)'
  <2>1. /\ pc'[v] = pc[v] /\ request'[v] = request[v] /\ name'[v] = name[v]
        /\ iconMap'[v] \in {iconMap[v], "wild"} /\ DOMAIN icons \subseteq DOMAIN icons'
      BY <1>3, <1>4, <1>8 DEF TypeOK, maps
  <2> QED
      BY <2>1, OthersHold
<1> QED
    BY <1>5, <1>6, <1>7, <1>8

LEMMA OpenStep ==
    ASSUME TypeInv, NEW w \in Workers, Open(w)
    PROVE  TypeInv'
<1> USE DEF TypeInv
<1>1. phase # "build" /\ request[w] \in Requests /\ request[w].names # <<>> /\ name[w] \in Names
    BY Serving, NamesFinite DEF Open, Holding, TypeOK, Walking
<1>2. PICK p \in {"names", "addTheme"} :
          /\ pc' = [pc EXCEPT ![w] = p]
          /\ p = "names" => iconMap' = [iconMap EXCEPT ![w] = name[w]] /\ name[w] \in DOMAIN icons
          /\ p = "addTheme" => iconMap' = iconMap
    BY DEF Open
<1>3. UNCHANGED <<built, maps, request, name, answer, raced, corrupt>>
    BY DEF Open
<1>4. TypeOK'
    BY <1>1, <1>2, <1>3, NamesFinite DEF TypeOK, built, maps
<1>5. Quiet'
    BY <1>1, <1>3 DEF Quiet, built
<1>6. Holding(w)'
    BY <1>1, <1>2, <1>3 DEF Holding, Walking, TypeOK, maps
<1>7. ASSUME NEW v \in Workers, v # w
      PROVE  Holding(v)'
  <2>1. /\ pc'[v] = pc[v] /\ request'[v] = request[v] /\ name'[v] = name[v]
        /\ iconMap'[v] \in {iconMap[v], "wild"} /\ DOMAIN icons \subseteq DOMAIN icons'
      BY <1>2, <1>3, <1>7 DEF TypeOK, maps
  <2> QED
      BY <2>1, OthersHold
<1> QED
    BY <1>4, <1>5, <1>6, <1>7

LEMMA AddThemeStep ==
    ASSUME TypeInv, NEW w \in Workers, AddTheme(w)
    PROVE  TypeInv'
<1> USE DEF TypeInv
<1>1. phase # "build" /\ request[w] \in Requests /\ request[w].names # <<>> /\ name[w] \in Names
    BY Serving, NamesFinite DEF AddTheme, Holding, TypeOK, Walking
<1>2. /\ icons' = Over(icons, Entry(name[w], NoIcons))
      /\ iconMap' = [v \in Workers |-> IF v = w THEN name[w]
                                       ELSE IF pc[v] = "names" THEN "wild" ELSE iconMap[v]]
      /\ pc' = [pc EXCEPT ![w] = "names"]
      /\ UNCHANGED <<built, parent, request, name, answer, raced>>
    BY DEF AddTheme
<1>3. corrupt' \in BOOLEAN
    BY DEF AddTheme, TypeOK
<1>4. /\ DOMAIN icons' = DOMAIN icons \cup {name[w]}
      /\ \A x \in DOMAIN icons' : icons'[x] \in [Icons -> Seq(Instance)]
    BY <1>2, NoIconsType DEF Over, Entry, TypeOK
<1>5. iconMap' \in [Workers -> Names \cup {None, "wild"}]
    BY <1>1, <1>2 DEF TypeOK
<1>6. TypeOK'
    BY <1>1, <1>2, <1>3, <1>4, <1>5, NamesFinite DEF TypeOK, built
<1>7. Quiet'
    BY <1>1, <1>2 DEF Quiet, built
<1>8. Holding(w)'
    BY <1>1, <1>2, <1>4 DEF Holding, Walking, TypeOK
<1>9. ASSUME NEW v \in Workers, v # w
      PROVE  Holding(v)'
  <2>1. /\ pc'[v] = pc[v] /\ request'[v] = request[v] /\ name'[v] = name[v]
        /\ iconMap'[v] \in {iconMap[v], "wild"} /\ DOMAIN icons \subseteq DOMAIN icons'
      BY <1>2, <1>4, <1>9 DEF TypeOK
  <2> QED
      BY <2>1, OthersHold
<1> QED
    BY <1>6, <1>7, <1>8, <1>9

\* What LookUp finds in theme t of the icons.
LEMMA FoundInTheme ==
    ASSUME TypeOK, NEW r \in Requests, NEW t, NEW k \in In(r, icons, t)
    PROVE  LET s == icons[t][r.names[k].icon]
           IN  t \in DOMAIN icons /\ SendFile(s, r.size) \in Answers /\ Nearest(SendFile(s, r.size), s, r.size)
<1> DEFINE i == r.names[k].icon
<1>1. k \in DOMAIN r.names /\ i \in Icons /\ r.size \in Int
  <2>1. k \in DOMAIN r.names
      BY DEF In
  <2> DEFINE R == [icon : Icons, ending : BOOLEAN]
  <2>2. r.names \in Seq(R) /\ r.size \in Int
      BY RequestType
  <2>3. r.names[k] \in R
    <3> HIDE DEF R
    <3> QED
        BY <2>1, <2>2
  <2> QED
      BY <2>1, <2>2, <2>3
<1>2. Len(At(icons, t, NoIcons)[i]) > 0
    BY DEF In
<1>3. t \in DOMAIN icons
  <2>1. Len(NoIcons[i]) = 0
      BY <1>1 DEF NoIcons
  <2> QED
      BY <1>2, <2>1 DEF At
<1>4. icons[t][i] \in Seq(Instance) /\ Len(icons[t][i]) > 0
    BY <1>1, <1>2, <1>3 DEF At, TypeOK
<1> HIDE DEF i
<1>5. SendFile(icons[t][i], r.size) \in Answers /\ Nearest(SendFile(icons[t][i], r.size), icons[t][i], r.size)
    BY <1>1, <1>4, SendsNearest
<1> QED
    BY <1>3, <1>5 DEF i

LEMMA FoundInPixmaps ==
    ASSUME TypeOK, NEW r \in Requests, NEW k \in InPix(r, pixmaps)
    PROVE  LET s == pixmaps[r.names[k].icon]
           IN  SendFile(s, r.size) \in Answers /\ Nearest(SendFile(s, r.size), s, r.size)
<1> DEFINE i == r.names[k].icon
<1>1. k \in DOMAIN r.names /\ i \in Icons /\ r.size \in Int
  <2>1. k \in DOMAIN r.names
      BY DEF InPix
  <2> DEFINE R == [icon : Icons, ending : BOOLEAN]
  <2>2. r.names \in Seq(R) /\ r.size \in Int
      BY RequestType
  <2>3. r.names[k] \in R
    <3> HIDE DEF R
    <3> QED
        BY <2>1, <2>2
  <2> QED
      BY <2>1, <2>2, <2>3
<1>2. pixmaps[i] \in Seq(Instance) /\ Len(pixmaps[i]) > 0
    BY <1>1 DEF InPix, TypeOK
<1> HIDE DEF i
<1>3. SendFile(pixmaps[i], r.size) \in Answers /\ Nearest(SendFile(pixmaps[i], r.size), pixmaps[i], r.size)
    BY <1>1, <1>2, SendsNearest
<1> QED
    BY <1>3 DEF i

\* What LookUp and Pixmaps answer: with the first of the names there are.
LEMMA LookUpAnswer ==
    ASSUME TypeInv, NEW w \in Workers, LookUp(w)
    PROVE  LET r == request[w]
               T == In(r, icons, name[w])
           IN  /\ iconMap[w] = name[w] /\ name[w] \in DOMAIN icons
               /\ \/ /\ T = {} /\ pc' = [pc EXCEPT ![w] = "next"] /\ UNCHANGED answer
                  \/ \E k \in T : /\ \A j \in T : k <= j
                                  /\ Answer(w, SendFile(icons[name[w]][r.names[k].icon], r.size))
<1> DEFINE r == request[w]
           t == name[w]
           here(n) == InTheme(n, t)
<1>1. iconMap[w] = t /\ t \in DOMAIN icons
    BY DEF TypeInv, Holding, LookUp, Disturbed
<1>2. r \in Requests
    BY Serving DEF LookUp
<1>3. \/ /\ ~Some(r.names, here) /\ pc' = [pc EXCEPT ![w] = "next"] /\ UNCHANGED answer
      \/ /\ Some(r.names, here)
         /\ Answer(w, SendFile(icons[t][r.names[First(r.names, here)].icon], r.size))
    BY <1>1 DEF LookUp
<1>4. /\ Some(r.names, here) <=> In(r, icons, t) # {}
      /\ In(r, icons, t) # {} => /\ First(r.names, here) \in In(r, icons, t)
                                 /\ \A j \in In(r, icons, t) : First(r.names, here) <= j
    BY <1>2, FirstHere
<1> QED
    BY <1>1, <1>3, <1>4

LEMMA PixmapsAnswer ==
    ASSUME TypeInv, NEW w \in Workers, Pixmaps(w)
    PROVE  LET r == request[w]
               T == InPix(r, pixmaps)
           IN  \/ T = {} /\ Answer(w, Status("404"))
               \/ \E k \in T : /\ \A j \in T : k <= j
                               /\ Answer(w, SendFile(pixmaps[r.names[k].icon], r.size))
<1> DEFINE r == request[w]
<1>1. r \in Requests
    BY Serving DEF Pixmaps
<1>2. \/ ~Some(r.names, InPixmaps) /\ Answer(w, Status("404"))
      \/ /\ Some(r.names, InPixmaps)
         /\ Answer(w, SendFile(pixmaps[r.names[First(r.names, InPixmaps)].icon], r.size))
    BY DEF Pixmaps
<1>3. /\ Some(r.names, InPixmaps) <=> InPix(r, pixmaps) # {}
      /\ InPix(r, pixmaps) # {} => /\ First(r.names, InPixmaps) \in InPix(r, pixmaps)
                                   /\ \A j \in InPix(r, pixmaps) : First(r.names, InPixmaps) <= j
    BY <1>1, FirstInPixmaps
<1> QED
    BY <1>2, <1>3

\* A step of w that leaves the maps and the references of the others alone.
LEMMA QuietStep ==
    ASSUME TypeInv, NEW w \in Workers, pc[w] # "idle",
           UNCHANGED <<built, maps, request, corrupt>>,
           NEW p \in LookupPlaces, pc' = [pc EXCEPT ![w] = p], p # "names",
           NEW t \in Names \cup {None}, name' = [name EXCEPT ![w] = t], p \in Walking => t # None,
           p \in Walking \cup {"pixmaps"} => request[w].names # <<>>,
           NEW a \in Answers, answer' = [answer EXCEPT ![w] = a],
           NEW i \in {iconMap[w], None}, iconMap' = [iconMap EXCEPT ![w] = i],
           NEW d \in BOOLEAN, raced' = [raced EXCEPT ![w] = d]
    PROVE  TypeInv'
<1> USE DEF TypeInv
<1>1. phase # "build" /\ request[w] \in Requests
    BY Serving
<1>2. TypeOK'
    BY DEF TypeOK, built, maps, Walking, LookupPlaces
<1>3. Quiet'
    BY <1>1 DEF Quiet, built
<1>4. Holding(w)'
    BY <1>1 DEF Holding, Walking, TypeOK
<1>5. ASSUME NEW v \in Workers, v # w
      PROVE  Holding(v)'
  <2>1. /\ pc'[v] = pc[v] /\ request'[v] = request[v] /\ name'[v] = name[v]
        /\ iconMap'[v] \in {iconMap[v], "wild"} /\ DOMAIN icons \subseteq DOMAIN icons'
      BY <1>5 DEF TypeOK, maps
  <2> QED
      BY <2>1, OthersHold
<1> QED
    BY <1>2, <1>3, <1>4, <1>5

LEMMA AddParentStep ==
    ASSUME TypeInv, NEW w \in Workers, AddParent(w)
    PROVE  TypeInv'
<1> USE DEF TypeInv
<1>1. phase # "build" /\ request[w] \in Requests /\ request[w].names # <<>> /\ name[w] \in Names
    BY Serving, NamesFinite DEF AddParent, Holding, TypeOK, Walking
<1>2. /\ parent' = Over(parent, Entry(name[w], None))
      /\ name' = [name EXCEPT ![w] = None] /\ pc' = [pc EXCEPT ![w] = "pixmaps"]
      /\ UNCHANGED <<built, icons, request, iconMap, answer, raced>>
    BY DEF AddParent, GoOn
<1>3. corrupt' \in BOOLEAN
    BY DEF AddParent, TypeOK
<1>4. /\ DOMAIN parent' = DOMAIN parent \cup {name[w]}
      /\ \A x \in DOMAIN parent' : parent'[x] \in Names \cup {None}
    BY <1>2 DEF Over, Entry, TypeOK
<1>5. TypeOK'
    BY <1>1, <1>2, <1>3, <1>4 DEF TypeOK, built
<1>6. Quiet'
    BY <1>1, <1>2 DEF Quiet, built
<1>7. Holding(w)'
    BY <1>1, <1>2 DEF Holding, Walking, TypeOK
<1>8. ASSUME NEW v \in Workers, v # w
      PROVE  Holding(v)'
  <2>1. /\ pc'[v] = pc[v] /\ request'[v] = request[v] /\ name'[v] = name[v]
        /\ iconMap'[v] \in {iconMap[v], "wild"} /\ DOMAIN icons \subseteq DOMAIN icons'
      BY <1>2, <1>8 DEF TypeOK
  <2> QED
      BY <2>1, OthersHold
<1> QED
    BY <1>5, <1>6, <1>7, <1>8

LEMMA StrayStep ==
    ASSUME TypeInv, NEW w \in Workers, Stray(w)
    PROVE  TypeInv'
<1> USE DEF TypeInv
<1>1. /\ phase # "build" /\ request[w] \in Requests /\ request[w].names # <<>> /\ name[w] # None
      /\ pc[w] \in {"open", "names", "next"}
    BY Serving DEF Stray, Holding, TypeOK, Walking
<1>2. PICK p \in StrayTo(pc[w]) :
          /\ pc' = [pc EXCEPT ![w] = p]
          /\ iconMap' = [iconMap EXCEPT ![w] = IF p = "names" THEN "wild" ELSE None]
    BY DEF Stray
<1>3. p \in {"names", "addTheme", "reply", "next", "open", "pixmaps", "addParent"}
    BY <1>1 DEF StrayTo
<1>4. raced' = [raced EXCEPT ![w] = TRUE] /\ UNCHANGED <<built, maps, request, name, answer, corrupt>>
    BY DEF Stray
<1>5. TypeOK'
    BY <1>1, <1>2, <1>3, <1>4 DEF TypeOK, built, maps
<1>6. Quiet'
    BY <1>1, <1>4 DEF Quiet, built
<1>7. Holding(w)'
    BY <1>1, <1>2, <1>4 DEF Holding, Walking, TypeOK
<1>8. ASSUME NEW v \in Workers, v # w
      PROVE  Holding(v)'
  <2>1. /\ pc'[v] = pc[v] /\ request'[v] = request[v] /\ name'[v] = name[v]
        /\ iconMap'[v] \in {iconMap[v], "wild"} /\ DOMAIN icons \subseteq DOMAIN icons'
      BY <1>2, <1>4, <1>8 DEF TypeOK, maps
  <2> QED
      BY <2>1, OthersHold
<1> QED
    BY <1>5, <1>6, <1>7, <1>8

LEMMA DoneStep ==
    ASSUME TypeInv, NEW w \in Workers, Done(w)
    PROVE  TypeInv'
<1> USE DEF TypeInv
<1>1. phase # "build"
    BY Serving DEF Done
<1>2. /\ pc' = [pc EXCEPT ![w] = "idle"] /\ request' = [request EXCEPT ![w] = NoRequest]
      /\ name' = [name EXCEPT ![w] = None] /\ iconMap' = [iconMap EXCEPT ![w] = None]
      /\ answer' = [answer EXCEPT ![w] = Status("none")] /\ raced' = [raced EXCEPT ![w] = FALSE]
      /\ UNCHANGED <<built, maps, corrupt>>
    BY DEF Done
<1>3. Status("none") \in Answers
    BY DEF Answers
<1>4. TypeOK'
    BY <1>2, <1>3 DEF TypeOK, built, maps
<1>5. Quiet'
    BY <1>1, <1>2 DEF Quiet, built
<1>6. Holding(w)'
    BY <1>2 DEF Holding, Walking, TypeOK
<1>7. ASSUME NEW v \in Workers, v # w
      PROVE  Holding(v)'
  <2>1. /\ pc'[v] = pc[v] /\ request'[v] = request[v] /\ name'[v] = name[v]
        /\ iconMap'[v] \in {iconMap[v], "wild"} /\ DOMAIN icons \subseteq DOMAIN icons'
      BY <1>2, <1>7 DEF TypeOK, maps
  <2> QED
      BY <2>1, OthersHold
<1> QED
    BY <1>4, <1>5, <1>6, <1>7

LEMMA LookUpStep ==
    ASSUME TypeInv, NEW w \in Workers, LookUp(w)
    PROVE  TypeInv'
<1> DEFINE r == request[w]
           T == In(r, icons, name[w])
<1>1. /\ UNCHANGED <<built, maps, request, name, raced, corrupt>>
      /\ iconMap' = [iconMap EXCEPT ![w] = None] /\ pc[w] = "names"
    BY DEF LookUp
<1>2. r \in Requests /\ r.names # <<>> /\ name[w] # None
    BY <1>1, Serving DEF TypeInv, Holding, TypeOK, Walking
<1>3. PICK p \in {"next", "reply"}, a \in Answers :
          pc' = [pc EXCEPT ![w] = p] /\ answer' = [answer EXCEPT ![w] = a]
  <2>1. CASE pc' = [pc EXCEPT ![w] = "next"] /\ UNCHANGED answer
    <3>1. answer[w] \in Answers /\ answer = [answer EXCEPT ![w] = answer[w]]
        BY DEF TypeInv, TypeOK
    <3> QED
        BY <2>1, <3>1
  <2>2. ASSUME NEW k \in T, Answer(w, SendFile(icons[name[w]][r.names[k].icon], r.size))
        PROVE  \E p \in {"next", "reply"}, a \in Answers :
                   pc' = [pc EXCEPT ![w] = p] /\ answer' = [answer EXCEPT ![w] = a]
    <3>1. SendFile(icons[name[w]][r.names[k].icon], r.size) \in Answers
        BY <1>2, FoundInTheme DEF TypeInv
    <3> QED
        BY <2>2, <3>1 DEF Answer
  <2> QED
      BY <2>1, <2>2, LookUpAnswer
<1>4. name[w] \in Names \cup {None} /\ raced[w] \in BOOLEAN
    BY DEF TypeInv, TypeOK
<1>5. name' = [name EXCEPT ![w] = name[w]] /\ raced' = [raced EXCEPT ![w] = raced[w]]
    BY <1>1 DEF TypeInv, TypeOK
<1> QED
    BY <1>1, <1>2, <1>3, <1>4, <1>5, QuietStep DEF LookupPlaces

LEMMA InheritStep ==
    ASSUME TypeInv, NEW w \in Workers, Inherit(w)
    PROVE  TypeInv'
<1>1. UNCHANGED <<built, maps, request, iconMap, answer, raced, corrupt>> /\ pc[w] = "next"
    BY DEF Inherit
<1>2. request[w].names # <<>> /\ name[w] \in Names \cup {None} /\ name[w] # None
    BY <1>1 DEF TypeInv, Holding, TypeOK, Walking
<1>3. PICK p \in {"open", "pixmaps", "addParent"}, t \in Names \cup {None} :
          /\ pc' = [pc EXCEPT ![w] = p] /\ name' = [name EXCEPT ![w] = t]
          /\ p # "pixmaps" => t # None
  <2>1. CASE name[w] \in DOMAIN parent /\ GoOn(w, parent[name[w]])
    <3>1. parent[name[w]] \in Names \cup {None}
        BY <2>1 DEF TypeInv, TypeOK
    <3> QED
        BY <2>1, <3>1 DEF GoOn
  <2>2. CASE pc' = [pc EXCEPT ![w] = "addParent"] /\ UNCHANGED name
    <3>1. name = [name EXCEPT ![w] = name[w]]
        BY DEF TypeInv, TypeOK
    <3> QED
        BY <1>2, <2>2, <3>1
  <2> QED
      BY <2>1, <2>2 DEF Inherit
<1>4. answer[w] \in Answers /\ raced[w] \in BOOLEAN
    BY DEF TypeInv, TypeOK
<1>5. /\ answer' = [answer EXCEPT ![w] = answer[w]] /\ raced' = [raced EXCEPT ![w] = raced[w]]
      /\ iconMap' = [iconMap EXCEPT ![w] = iconMap[w]]
    BY <1>1 DEF TypeInv, TypeOK
<1> QED
    BY <1>1, <1>2, <1>3, <1>4, <1>5, QuietStep DEF LookupPlaces, Walking

LEMMA PixmapsStep ==
    ASSUME TypeInv, NEW w \in Workers, Pixmaps(w)
    PROVE  TypeInv'
<1> DEFINE r == request[w]
           T == InPix(r, pixmaps)
<1>1. UNCHANGED <<built, maps, request, name, iconMap, raced, corrupt>> /\ pc[w] = "pixmaps"
    BY DEF Pixmaps
<1>2. r \in Requests
    BY <1>1, Serving
<1>3. PICK a \in Answers : pc' = [pc EXCEPT ![w] = "reply"] /\ answer' = [answer EXCEPT ![w] = a]
  <2>1. Status("404") \in Answers
      BY DEF Answers
  <2>2. \A k \in T : SendFile(pixmaps[r.names[k].icon], r.size) \in Answers
      BY <1>2, FoundInPixmaps DEF TypeInv
  <2> QED
      BY <2>1, <2>2, PixmapsAnswer DEF Answer
<1>4. name[w] \in Names \cup {None} /\ raced[w] \in BOOLEAN
    BY DEF TypeInv, TypeOK
<1>5. /\ name' = [name EXCEPT ![w] = name[w]] /\ raced' = [raced EXCEPT ![w] = raced[w]]
      /\ iconMap' = [iconMap EXCEPT ![w] = iconMap[w]]
    BY <1>1 DEF TypeInv, TypeOK
<1> QED
    BY <1>1, <1>3, <1>4, <1>5, QuietStep DEF LookupPlaces, Walking

\* The end of the process.
LEMMA FailedStep ==
    ASSUME TypeInv, phase' = "failed",
           UNCHANGED <<visits, inherits, directories, pixmaps, cutOff, maps, workers>>
    PROVE  TypeInv'
BY DEF TypeInv, TypeOK, Quiet, Holding, maps, workers

LEMMA TypeNext == TypeInv /\ [Next]_vars => TypeInv'
<1> SUFFICES ASSUME TypeInv, [Next]_vars PROVE TypeInv'
    OBVIOUS
<1>1. CASE BuildThrows
  <2>1. phase = "build" /\ phase' = "failed"
        /\ UNCHANGED <<visits, inherits, directories, pixmaps, cutOff, maps, workers>>
      BY <1>1 DEF BuildThrows
  <2> QED
      BY <2>1, FailedStep
<1>2. ASSUME NEW w \in Workers, Work(w)
      PROVE  TypeInv'
    BY <1>2, OpenStep, AddThemeStep, LookUpStep, InheritStep, AddParentStep, PixmapsStep, StrayStep
       DEF Work
<1>3. CASE UNCHANGED vars
    BY <1>3 DEF TypeInv, TypeOK, Quiet, Holding, vars, built, maps, workers
<1>4. ASSUME NEW w \in Workers, NEW r \in Requests, SizeThrows(w, r)
      PROVE  TypeInv'
  <2>1. phase' = "failed" /\ UNCHANGED <<visits, inherits, directories, pixmaps, cutOff, maps, workers>>
      BY <1>4 DEF SizeThrows
  <2> QED
      BY <2>1, FailedStep
<1> QED
    BY <1>1, <1>2, <1>3, <1>4, VisitStep, MapResourcesStep, BeginStep, DoneStep DEF Next

\* IconService: the maps hold themes and lists of instances, and every worker a
\* request, a theme of the walk and an answer, whatever it reads while another
\* worker inserts into a map.
THEOREM TypeCorrect == Spec => []TypeOK
<1>1. Init => TypeInv
    BY TypeInit
<1>2. TypeInv /\ [Next]_vars => TypeInv'
    BY TypeNext
<1>3. TypeInv => TypeOK
    BY DEF TypeInv
<1> QED
    BY <1>1, <1>2, <1>3, PTL DEF Spec

-----------------------------------------------------------------------------
\* Every installed theme but hicolor has a parent, and keeps it; the parent is a
\* theme, or the last Inherits that was set had no value.
HicolorInv ==
    \A t \in DOMAIN directories \ {Hicolor} :
        /\ t \in DOMAIN parent
        /\ parent[t] \in Names \/ t \in cutOff
        /\ inherits[t] \in Names \/ t \in cutOff

LEMMA HicolorInit == Init => HicolorInv
BY DEF Init, HicolorInv

LEMMA HicolorVisit ==
    ASSUME TypeInv, HicolorInv, NEW d \in ThemeDirs, Visit(d)
    PROVE  HicolorInv'
<1> DEFINE t == d.theme
           dirs == DirectoriesOf(d)
<1>1. /\ inherits' = Over(Entry(t, IF t = Hicolor THEN None ELSE InheritsOf(d)), inherits)
      /\ directories' = Over(Entry(t, dirs), directories)
      /\ parent' = IF t = Hicolor THEN parent ELSE Over(Entry(t, InheritsOf(d)), parent)
    BY DEF Visit
<1>2. t # Hicolor => InheritsOf(d) \in Names \/ t \in cutOff'
  <2>1. /\ d.inherits \in Names \cup {None, NotSet} /\ Hicolor \in Names
        /\ None # NotSet /\ NotSet \notin Names
      BY IconServiceAssumption DEF Names, None, NotSet
  <2>2. t \in DOMAIN inherits /\ t # Hicolor => inherits[t] \in Names \/ t \in cutOff
      BY DEF HicolorInv, TypeInv, TypeOK
  <2>3. cutOff' = CASE d.inherits = None -> cutOff \cup {t}
                    [] d.inherits = NotSet -> cutOff
                    [] OTHER -> cutOff \ {t}
      BY DEF Visit
  <2>4. CASE d.inherits = None
      BY <2>1, <2>3, <2>4
  <2>5. CASE d.inherits = NotSet
      BY <2>1, <2>2, <2>3, <2>5 DEF InheritsOf, At
  <2>6. CASE d.inherits \in Names
      BY <2>1, <2>6 DEF InheritsOf
  <2> QED
      BY <2>1, <2>4, <2>5, <2>6
<1>6. \A x \in cutOff : x # t => x \in cutOff'
    BY DEF Visit
<1> HIDE DEF t, dirs
<1>3. DOMAIN directories' = DOMAIN directories \cup {t} /\ DOMAIN inherits = DOMAIN directories
    BY <1>1 DEF Over, Entry, TypeInv, TypeOK
<1> SUFFICES ASSUME NEW x \in DOMAIN directories', x # Hicolor
             PROVE  /\ x \in DOMAIN parent'
                    /\ parent'[x] \in Names \/ x \in cutOff'
                    /\ inherits'[x] \in Names \/ x \in cutOff'
    BY DEF HicolorInv
<1>4. CASE x = t
    BY <1>1, <1>2, <1>4 DEF Over, Entry
<1>5. CASE x # t
  <2>1. /\ x \in DOMAIN parent /\ x \in DOMAIN inherits
        /\ parent[x] \in Names \/ x \in cutOff'
        /\ inherits[x] \in Names \/ x \in cutOff'
      BY <1>3, <1>5, <1>6 DEF HicolorInv
  <2>2. x \in DOMAIN parent' /\ parent'[x] = parent[x] /\ inherits'[x] = inherits[x]
      BY <2>1, <1>1, <1>5 DEF Over, Entry
  <2> QED
      BY <2>1, <2>2
<1> QED
    BY <1>4, <1>5

LEMMA HicolorNext == TypeInv /\ HicolorInv /\ [Next]_vars => HicolorInv'
<1> SUFFICES ASSUME TypeInv, HicolorInv, [Next]_vars PROVE HicolorInv'
    OBVIOUS
<1>1. CASE UNCHANGED <<inherits, directories, parent, cutOff>>
    BY <1>1 DEF HicolorInv
<1>2. ASSUME NEW found \in PixmapSets, MapResources(found)
      PROVE  HicolorInv'
    BY <1>1, <1>2 DEF MapResources, maps
<1>3. CASE BuildThrows
    BY <1>1, <1>3 DEF BuildThrows, maps
<1>4. ASSUME NEW w \in Workers, Work(w)
      PROVE  HicolorInv'
  <2>1. CASE AddParent(w)
    <3>1. UNCHANGED <<inherits, directories, cutOff>> /\ parent' = Over(parent, Entry(name[w], None))
        BY <2>1 DEF AddParent, built
    <3>2. \A x \in DOMAIN parent : x \in DOMAIN parent' /\ parent'[x] = parent[x]
        BY <3>1 DEF Over, Entry
    <3> QED
        BY <3>1, <3>2 DEF HicolorInv
  <2>2. CASE ~ AddParent(w)
    <3>1. UNCHANGED <<inherits, directories, parent, cutOff>>
        BY <1>4, <2>2 DEF Work, Open, AddTheme, LookUp, Inherit, Pixmaps, Stray, built, maps
    <3> QED
        BY <3>1, <1>1
  <2> QED
      BY <2>1, <2>2
<1>5. ASSUME NEW w \in Workers, NEW r \in Requests, Begin(w, r) \/ SizeThrows(w, r)
      PROVE  HicolorInv'
    BY <1>1, <1>5 DEF Begin, SizeThrows, built, maps
<1>6. ASSUME NEW w \in Workers, Done(w)
      PROVE  HicolorInv'
    BY <1>1, <1>6 DEF Done, built, maps
<1>7. CASE UNCHANGED vars
    BY <1>1, <1>7 DEF vars, built, maps
<1> QED
    BY <1>2, <1>3, <1>4, <1>5, <1>6, <1>7, HicolorVisit DEF Next

LEMMA HicolorEnough == TypeInv /\ HicolorInv => ParentsLeadToHicolor
<1> SUFFICES ASSUME TypeInv, HicolorInv, NEW t \in DOMAIN directories, Ends(t)
             PROVE  \E n \in DOMAIN Ancestors(t) :
                        /\ Ancestors(t)[n] \in {Hicolor} \cup (Names \ DOMAIN directories) \cup cutOff
                        /\ At(parent, Ancestors(t)[n], None) = None
    BY DEF ParentsLeadToHicolor
<1> DEFINE up == Ancestors(t)
<1>1. t \in Names /\ IsParents(parent)
    BY DEF TypeInv, TypeOK, IsParents, Names
<1>2. IsWalk(up, parent, t) /\ DOMAIN up = 0 .. N
    BY <1>1, WalkIsWalk DEF Ancestors
<1> HIDE DEF up
<1> DEFINE Ended == {n \in 0 .. N : up[n] = None}
<1>3. Ended \in SUBSET Nat /\ Ended # {}
  <2>1. Ended # {}
      BY <1>2 DEF Ends, up
  <2> QED
      BY <2>1, NamesFinite
<1>4. PICK n \in Ended : \A k \in Ended : n <= k
    BY <1>3, LeastElement
<1>5. n # 0
    BY <1>1, <1>2, <1>4, NamesFinite DEF IsWalk
<1>6. n \in 1 .. N /\ n - 1 \in 0 .. N /\ ~ n <= n - 1
    BY <1>4, <1>5, NamesFinite
<1>7. up[n - 1] # None /\ up[n - 1] \in Names
    BY <1>2, <1>4, <1>6 DEF IsWalk
<1>8. At(parent, up[n - 1], None) = None
    BY <1>2, <1>4, <1>6, <1>7 DEF IsWalk, StepUp
<1>9. up[n - 1] \in {Hicolor} \cup (Names \ DOMAIN directories) \cup cutOff
    BY <1>7, <1>8, NamesFinite DEF HicolorInv, At
<1> QED
    BY <1>2, <1>6, <1>8, <1>9 DEF up

\* IconService, buildResources: in whatever order the icon directories are read, the
\* parents of an installed theme lead to hicolor, to a name that is not installed, to
\* a theme whose last Inherits has no value, or around in a circle.
THEOREM HicolorReached == Spec => []ParentsLeadToHicolor
<1>1. Init => TypeInv /\ HicolorInv
    BY TypeInit, HicolorInit
<1>2. TypeInv /\ HicolorInv /\ [Next]_vars => TypeInv' /\ HicolorInv'
    BY TypeNext, HicolorNext
<1> QED
    BY <1>1, <1>2, HicolorEnough, PTL DEF Spec

-----------------------------------------------------------------------------
\* Answer a is an instance, the nearest in size, of the first of these names.
Best(a, r, s, which) ==
    \E k \in which : /\ \A j \in which : k <= j
                     /\ Nearest(a, s[r.names[k].icon], r.size)

\* What AnswerIsClosest says of answer a to request r, whose theme starts the walk up.
Answered(up, r, a, ic, px, dirs) ==
    \/ a.status = "no theme" /\ r.theme \notin DOMAIN dirs
    \/ \E n \in 0 .. N : /\ \A m \in 0 .. n - 1 : In(r, ic, up[m]) = {}
                         /\ Best(a, r, ic[up[n]], In(r, ic, up[n]))
    \/ /\ \A n \in 0 .. N : In(r, ic, up[n]) = {}
       /\ Best(a, r, px, InPix(r, px)) \/ (a.status = "404" /\ InPix(r, px) = {})

\* The walk up comes to theme t, and no theme before has any of the names.
Reached(up, r, ic, t) ==
    \E n \in 0 .. N : up[n] = t /\ \A m \in 0 .. n - 1 : In(r, ic, up[m]) = {}

\* What each place p in doGET implies for a lookup that has got to theme t.
WayOK(up, p, r, t, a, ic, pa, px, dirs) ==
    /\ p \in Walking => Reached(up, r, ic, t)
    /\ p \in {"next", "addParent"} => In(r, ic, t) = {}
    /\ p = "addParent" => At(pa, t, None) = None
    /\ p = "pixmaps" => \A n \in 0 .. N : In(r, ic, up[n]) = {}
    /\ p = "reply" /\ r.names # <<>> => Answered(up, r, a, ic, px, dirs)

\* A lookup that no insertion has disturbed is on the walk from its theme.
Way(w) ==
    ~raced[w] => \A up \in [0 .. N -> Names \cup {None}] : IsWalk(up, parent, request[w].theme) =>
        WayOK(up, pc[w], request[w], name[w], answer[w], icons, parent, pixmaps, directories)

WayInv == \A w \in Workers : Way(w)

\* Insertions of operator[]: whoever looks at the map finds what it would have found.
SameIcons(ic, ic2) ==
    /\ \A x : At(ic2, x, NoIcons) = At(ic, x, NoIcons)
    /\ \A x \in DOMAIN ic : x \in DOMAIN ic2 /\ ic2[x] = ic[x]
SameParents(pa, pa2) == \A x : At(pa2, x, None) = At(pa, x, None)

LEMMA InKept ==
    ASSUME NEW r, NEW ic, NEW ic2, SameIcons(ic, ic2), NEW t
    PROVE  In(r, ic2, t) = In(r, ic, t)
BY DEF SameIcons, In

LEMMA InInstalled ==
    ASSUME NEW r \in Requests, NEW ic, NEW t, t \notin DOMAIN ic
    PROVE  In(r, ic, t) = {}
<1> DEFINE R == [icon : Icons, ending : BOOLEAN]
<1> SUFFICES ASSUME NEW k \in DOMAIN r.names
             PROVE  ~ Len(At(ic, t, NoIcons)[r.names[k].icon]) > 0
    BY DEF In
<1>1. r.names \in Seq(R)
    BY RequestType
<1>2. r.names[k] \in R
  <2> HIDE DEF R
  <2> QED
      BY <1>1
<1>3. r.names[k].icon \in Icons
    BY <1>2
<1>4. NoIcons[r.names[k].icon] = <<>>
    BY <1>3 DEF NoIcons
<1> QED
    BY <1>4 DEF At

LEMMA WayKept ==
    ASSUME NEW up, NEW p, NEW r \in Requests, NEW t, NEW a, NEW px, NEW dirs,
           NEW ic, NEW ic2, SameIcons(ic, ic2), NEW pa, NEW pa2, SameParents(pa, pa2),
           WayOK(up, p, r, t, a, ic, pa, px, dirs)
    PROVE  WayOK(up, p, r, t, a, ic2, pa2, px, dirs)
<1>1. \A x : In(r, ic2, x) = In(r, ic, x)
    BY InKept
<1>2. At(pa2, t, None) = At(pa, t, None)
    BY DEF SameParents
<1>3. Reached(up, r, ic, t) => Reached(up, r, ic2, t)
    BY <1>1 DEF Reached
<1>4. ASSUME NEW n \in 0 .. N, Best(a, r, ic[up[n]], In(r, ic, up[n]))
      PROVE  Best(a, r, ic2[up[n]], In(r, ic2, up[n]))
  <2>1. In(r, ic, up[n]) # {}
      BY <1>4 DEF Best
  <2>2. up[n] \in DOMAIN ic
      BY <2>1, InInstalled
  <2>3. ic2[up[n]] = ic[up[n]]
      BY <2>2 DEF SameIcons
  <2> QED
      BY <1>1, <1>4, <2>3
<1>5. Answered(up, r, a, ic, px, dirs) => Answered(up, r, a, ic2, px, dirs)
    BY <1>1, <1>4 DEF Answered
<1> QED
    BY <1>1, <1>2, <1>3, <1>5 DEF WayOK

LEMMA WalkKept ==
    ASSUME NEW up, NEW t, NEW pa, NEW pa2, SameParents(pa, pa2), IsWalk(up, pa2, t)
    PROVE  IsWalk(up, pa, t)
BY DEF IsWalk, StepUp, SameParents

LEMMA InsertIcons ==
    ASSUME NEW m, NEW k
    PROVE  SameIcons(m, Over(m, Entry(k, NoIcons)))
<1>1. ASSUME NEW x PROVE At(Over(m, Entry(k, NoIcons)), x, NoIcons) = At(m, x, NoIcons)
    BY DEF At, Over, Entry
<1>2. ASSUME NEW x \in DOMAIN m
      PROVE  x \in DOMAIN Over(m, Entry(k, NoIcons)) /\ Over(m, Entry(k, NoIcons))[x] = m[x]
    BY DEF Over, Entry
<1> QED
    BY <1>1, <1>2 DEF SameIcons

LEMMA InsertNone ==
    ASSUME NEW m, NEW k
    PROVE  SameParents(m, Over(m, Entry(k, None)))
<1>1. ASSUME NEW x PROVE At(Over(m, Entry(k, None)), x, None) = At(m, x, None)
    BY DEF At, Over, Entry
<1> QED
    BY <1>1 DEF SameParents

LEMMA SameIsSame == \A m : SameIcons(m, m) /\ SameParents(m, m)
BY DEF SameIcons, SameParents

\* A step that inserts at most what operator[] finds leaves the others on their way.
LEMMA OthersOnTheirWay ==
    ASSUME TypeInv, NEW v \in Workers, Way(v), pc[v] # "idle",
           SameIcons(icons, icons'), SameParents(parent, parent'), UNCHANGED <<pixmaps, directories>>,
           pc'[v] = pc[v], request'[v] = request[v], name'[v] = name[v], answer'[v] = answer[v],
           raced'[v] = raced[v]
    PROVE  Way(v)'
<1>1. request[v] \in Requests
    BY Serving
<1> SUFFICES ASSUME ~raced'[v], NEW up \in [0 .. N -> Names \cup {None}],
                    IsWalk(up, parent', request'[v].theme)
             PROVE  WayOK(up, pc'[v], request'[v], name'[v], answer'[v], icons', parent', pixmaps', directories')
    BY DEF Way
<1>2. IsWalk(up, parent, request[v].theme)
    BY WalkKept
<1>3. WayOK(up, pc[v], request[v], name[v], answer[v], icons, parent, pixmaps, directories)
    BY <1>2 DEF Way
<1> QED
    BY <1>1, <1>3, WayKept

\* An idle worker is on no way.
LEMMA IdleOnItsWay ==
    ASSUME NEW v, pc'[v] = "idle"
    PROVE  Way(v)'
BY DEF Way, WayOK, Walking

LEMMA OneOnItsWay ==
    ASSUME TypeInv, WayInv, NEW w \in Workers, Way(w)',
           SameIcons(icons, icons'), SameParents(parent, parent'), UNCHANGED <<pixmaps, directories>>,
           \A v \in Workers \ {w} :
               /\ pc'[v] = pc[v] /\ request'[v] = request[v] /\ name'[v] = name[v]
               /\ answer'[v] = answer[v] /\ raced'[v] = raced[v]
    PROVE  WayInv'
<1> SUFFICES ASSUME NEW v \in Workers PROVE Way(v)'
    BY DEF WayInv
<1>1. CASE v = w
    BY <1>1
<1>2. CASE v # w /\ pc[v] = "idle"
    BY <1>2, IdleOnItsWay
<1>3. CASE v # w /\ pc[v] # "idle"
    BY <1>3, OthersOnTheirWay DEF WayInv
<1> QED
    BY <1>1, <1>2, <1>3

\* What the way of w is, for a walk from the theme it is asked about.
LEMMA WayOf ==
    ASSUME WayInv, NEW w \in Workers, ~raced[w],
           NEW up \in [0 .. N -> Names \cup {None}], IsWalk(up, parent, request[w].theme)
    PROVE  WayOK(up, pc[w], request[w], name[w], answer[w], icons, parent, pixmaps, directories)
BY DEF WayInv, Way

LEMMA BeginWay ==
    ASSUME TypeInv, WayInv, NEW w \in Workers, NEW r \in Requests, Begin(w, r)
    PROVE  WayInv'
<1>1. /\ request' = [request EXCEPT ![w] = r] /\ name' = [name EXCEPT ![w] = r.theme]
      /\ raced' = [raced EXCEPT ![w] = Disturbed(w)]
      /\ UNCHANGED <<icons, parent, pixmaps, directories>>
    BY DEF Begin, built, maps
<1>2. /\ request'[w] = r /\ name'[w] = r.theme /\ raced'[w] = Disturbed(w)
      /\ r.names \in Seq([icon : Icons, ending : BOOLEAN])
    BY <1>1, RequestType DEF TypeInv, TypeOK
<1>3. ~Disturbed(w) => \/ pc'[w] = "open"
                       \/ pc'[w] = "reply" /\ r.names = <<>>
                       \/ pc'[w] = "reply" /\ answer'[w].status = "no theme" /\ r.theme \notin DOMAIN icons
  <2>1. Len(r.names) = 0 => r.names = <<>>
    <3> DEFINE R == [icon : Icons, ending : BOOLEAN]
    <3>1. r.names \in Seq(R)
        BY <1>2
    <3> HIDE DEF R
    <3> QED
        BY <3>1
  <2>2. Status("no theme").status = "no theme"
      BY DEF Status
  <2>3. \A a : Answer(w, a) => pc'[w] = "reply" /\ answer'[w] = a
      BY DEF Answer, TypeInv, TypeOK
  <2>4. pc' = [pc EXCEPT ![w] = "open"] => pc'[w] = "open"
      BY DEF TypeInv, TypeOK
  <2> QED
      BY <2>1, <2>2, <2>3, <2>4 DEF Begin
<1>4. Way(w)'
  <2> SUFFICES ASSUME ~raced'[w], NEW up \in [0 .. N -> Names \cup {None}],
                      IsWalk(up, parent', request'[w].theme)
               PROVE  WayOK(up, pc'[w], request'[w], name'[w], answer'[w], icons', parent', pixmaps', directories')
      BY DEF Way
  <2>1. CASE pc'[w] = "open"
    <3>1. up[0] = r.theme /\ 0 \in 0 .. N /\ 0 .. 0 - 1 = {}
        BY <1>2, NamesFinite DEF IsWalk
    <3>2. Reached(up, r, icons', r.theme)
        BY <3>1 DEF Reached
    <3> QED
        BY <2>1, <3>2, <1>2 DEF WayOK
  <2>2. CASE pc'[w] = "reply" /\ r.names = <<>>
      BY <2>2, <1>2 DEF WayOK, Walking
  <2>3. CASE pc'[w] = "reply" /\ answer'[w].status = "no theme" /\ r.theme \notin DOMAIN icons
    <3>1. r.theme \notin DOMAIN directories'
        BY <2>3, <1>1 DEF TypeInv, TypeOK
    <3> QED
        BY <2>3, <3>1, <1>2 DEF WayOK, Walking, Answered
  <2> QED
      BY <1>2, <1>3, <2>1, <2>2, <2>3
<1>5. \A v \in Workers \ {w} : /\ pc'[v] = pc[v] /\ request'[v] = request[v] /\ name'[v] = name[v]
                               /\ answer'[v] = answer[v] /\ raced'[v] = raced[v]
    BY <1>1 DEF Begin, Answer, TypeInv, TypeOK
<1> QED
    BY <1>1, <1>4, <1>5, OneOnItsWay, SameIsSame

\* From open to names, or to addTheme and then names: the same theme is reached.
LEMMA OpenWay ==
    ASSUME TypeInv, WayInv, NEW w \in Workers, Open(w) \/ AddTheme(w)
    PROVE  WayInv'
<1>1. PICK p \in {"addTheme", "names"} : pc' = [pc EXCEPT ![w] = p] /\ pc[w] \in {"open", "addTheme"}
    BY DEF Open, AddTheme
<1>2. UNCHANGED <<pixmaps, directories, parent, request, name, answer, raced>>
    BY DEF Open, AddTheme, built, maps
<1>3. SameIcons(icons, icons')
  <2>1. CASE icons' = icons
      BY <2>1, SameIsSame
  <2>2. CASE icons' = Over(icons, Entry(name[w], NoIcons))
      BY <2>2, InsertIcons
  <2> QED
      BY <2>1, <2>2 DEF Open, AddTheme, maps
<1>4. pc'[w] = p
    BY <1>1 DEF TypeInv, TypeOK
<1>5. Way(w)'
  <2> SUFFICES ASSUME ~raced'[w], NEW up \in [0 .. N -> Names \cup {None}],
                      IsWalk(up, parent', request'[w].theme)
               PROVE  WayOK(up, pc'[w], request'[w], name'[w], answer'[w], icons', parent', pixmaps', directories')
      BY DEF Way
  <2>1. Reached(up, request[w], icons, name[w])
      BY <1>1, <1>2, WayOf DEF WayOK, Walking
  <2>2. Reached(up, request[w], icons', name[w])
    <3>1. \A x : In(request[w], icons', x) = In(request[w], icons, x)
        BY <1>3, InKept
    <3> QED
        BY <2>1, <3>1 DEF Reached
  <2> QED
      BY <2>2, <1>1, <1>2, <1>4 DEF WayOK
<1>6. \A v \in Workers \ {w} : /\ pc'[v] = pc[v] /\ request'[v] = request[v] /\ name'[v] = name[v]
                               /\ answer'[v] = answer[v] /\ raced'[v] = raced[v]
    BY <1>1, <1>2 DEF TypeInv, TypeOK
<1> QED
    BY <1>2, <1>3, <1>5, <1>6, OneOnItsWay, SameIsSame

LEMMA LookUpWay ==
    ASSUME TypeInv, WayInv, NEW w \in Workers, LookUp(w)
    PROVE  WayInv'
<1> DEFINE r == request[w]
           T == In(r, icons, name[w])
<1>1. UNCHANGED <<icons, parent, pixmaps, directories, request, name, raced>> /\ pc[w] = "names"
    BY DEF LookUp, built, maps
<1>2. r \in Requests /\ name[w] \in DOMAIN icons
    BY <1>1, Serving, LookUpAnswer
<1>3. \/ T = {} /\ pc' = [pc EXCEPT ![w] = "next"] /\ UNCHANGED answer
      \/ \E k \in T : /\ \A j \in T : k <= j
                      /\ Answer(w, SendFile(icons[name[w]][r.names[k].icon], r.size))
    BY LookUpAnswer
<1>4. Way(w)'
  <2> SUFFICES ASSUME ~raced'[w], NEW up \in [0 .. N -> Names \cup {None}],
                      IsWalk(up, parent', request'[w].theme)
               PROVE  WayOK(up, pc'[w], request'[w], name'[w], answer'[w], icons', parent', pixmaps', directories')
      BY DEF Way
  <2>1. Reached(up, r, icons, name[w])
      BY <1>1, WayOf DEF WayOK, Walking
  <2>2. CASE T = {} /\ pc' = [pc EXCEPT ![w] = "next"]
    <3>1. pc'[w] = "next"
        BY <2>2 DEF TypeInv, TypeOK
    <3> QED
        BY <2>1, <2>2, <3>1, <1>1 DEF WayOK, Walking
  <2>3. ASSUME NEW k \in T, \A j \in T : k <= j,
               Answer(w, SendFile(icons[name[w]][r.names[k].icon], r.size))
        PROVE  WayOK(up, pc'[w], request'[w], name'[w], answer'[w], icons', parent', pixmaps', directories')
    <3>1. pc'[w] = "reply" /\ answer'[w] = SendFile(icons[name[w]][r.names[k].icon], r.size)
        BY <2>3 DEF Answer, TypeInv, TypeOK
    <3>2. Nearest(answer'[w], icons[name[w]][r.names[k].icon], r.size)
        BY <1>2, <3>1, FoundInTheme DEF TypeInv
    <3>3. Best(answer'[w], r, icons[name[w]], T)
        BY <2>3, <3>2 DEF Best
    <3>4. Answered(up, r, answer'[w], icons, pixmaps, directories)
        BY <2>1, <3>3 DEF Reached, Answered
    <3> QED
        BY <3>1, <3>4, <1>1 DEF WayOK, Walking
  <2> QED
      BY <1>3, <2>2, <2>3
<1>5. \A v \in Workers \ {w} : /\ pc'[v] = pc[v] /\ request'[v] = request[v] /\ name'[v] = name[v]
                               /\ answer'[v] = answer[v] /\ raced'[v] = raced[v]
    BY <1>1, <1>3 DEF Answer, TypeInv, TypeOK
<1> QED
    BY <1>1, <1>4, <1>5, OneOnItsWay, SameIsSame

\* A theme that is reached and has none of the names: its parent is reached next,
\* or there is none and no theme of the walk has any of them.
LEMMA GoesOn ==
    ASSUME TypeInv, NEW r \in Requests, NEW up, IsWalk(up, parent, r.theme),
           NEW t \in Names, Reached(up, r, icons, t), In(r, icons, t) = {}
    PROVE  /\ At(parent, t, None) # None => Reached(up, r, icons, At(parent, t, None))
           /\ At(parent, t, None) = None => \A n \in 0 .. N : In(r, icons, up[n]) = {}
<1>1. PICK n \in 0 .. N : up[n] = t /\ \A m \in 0 .. n - 1 : In(r, icons, up[m]) = {}
    BY DEF Reached
<1>2. IsParents(parent)
    BY DEF TypeInv, TypeOK, IsParents
<1>3. PICK k \in 0 .. N : k <= n + 1 /\ up[k] = At(parent, t, None)
    BY <1>1, <1>2, NextOnWalk
<1>4. \A m \in 0 .. k - 1 : In(r, icons, up[m]) = {}
  <2> SUFFICES ASSUME NEW m \in 0 .. k - 1
               PROVE  In(r, icons, up[m]) = {}
      OBVIOUS
  <2>1. m \in 0 .. n - 1 \/ m = n
      BY <1>3, NamesFinite
  <2> QED
      BY <1>1, <2>1
<1>5. ASSUME At(parent, t, None) = None, NEW m \in 0 .. N
      PROVE  In(r, icons, up[m]) = {}
  <2>1. CASE m < k
      BY <2>1, <1>4, NamesFinite
  <2>2. CASE k <= m
    <3>1. up[m] = None
        BY <1>3, <1>5, <2>2, NoneStays
    <3>2. None \notin DOMAIN icons
        BY NamesFinite DEF TypeInv, TypeOK
    <3> QED
        BY <3>1, <3>2, InInstalled
  <2> QED
      BY <2>1, <2>2, NamesFinite
<1> QED
    BY <1>3, <1>4, <1>5 DEF Reached

LEMMA InheritWay ==
    ASSUME TypeInv, WayInv, NEW w \in Workers, Inherit(w)
    PROVE  WayInv'
<1> DEFINE r == request[w]
           t == name[w]
<1>1. UNCHANGED <<icons, parent, pixmaps, directories, request, answer, raced>> /\ pc[w] = "next"
    BY DEF Inherit, built, maps
<1>2. r \in Requests /\ t \in Names
    BY <1>1, Serving DEF TypeInv, TypeOK
<1>3. \/ t \in DOMAIN parent /\ GoOn(w, parent[t])
      \/ t \notin DOMAIN parent /\ pc' = [pc EXCEPT ![w] = "addParent"] /\ UNCHANGED name
    BY DEF Inherit
<1>4. Way(w)'
  <2> SUFFICES ASSUME ~raced'[w], NEW up \in [0 .. N -> Names \cup {None}],
                      IsWalk(up, parent', request'[w].theme)
               PROVE  WayOK(up, pc'[w], request'[w], name'[w], answer'[w], icons', parent', pixmaps', directories')
      BY DEF Way
  <2>1. Reached(up, r, icons, t) /\ In(r, icons, t) = {} /\ IsWalk(up, parent, r.theme)
      BY <1>1, WayOf DEF WayOK, Walking
  <2>2. CASE t \in DOMAIN parent /\ GoOn(w, parent[t])
    <3>1. At(parent, t, None) = parent[t]
        BY <2>2 DEF At
    <3>2. /\ name'[w] = parent[t]
          /\ pc'[w] = IF parent[t] = None THEN "pixmaps" ELSE "open"
        BY <2>2 DEF GoOn, TypeInv, TypeOK
    <3>3. /\ parent[t] # None => Reached(up, r, icons, parent[t])
          /\ parent[t] = None => \A n \in 0 .. N : In(r, icons, up[n]) = {}
        BY <1>2, <2>1, <3>1, GoesOn
    <3> QED
        BY <3>2, <3>3, <1>1 DEF WayOK, Walking
  <2>3. CASE t \notin DOMAIN parent /\ pc' = [pc EXCEPT ![w] = "addParent"] /\ UNCHANGED name
    <3>1. At(parent, t, None) = None /\ pc'[w] = "addParent"
        BY <2>3 DEF At, TypeInv, TypeOK
    <3> QED
        BY <2>1, <2>3, <3>1, <1>1 DEF WayOK, Walking
  <2> QED
      BY <1>3, <2>2, <2>3
<1>5. \A v \in Workers \ {w} : /\ pc'[v] = pc[v] /\ request'[v] = request[v] /\ name'[v] = name[v]
                               /\ answer'[v] = answer[v] /\ raced'[v] = raced[v]
    BY <1>1, <1>3 DEF GoOn, TypeInv, TypeOK
<1> QED
    BY <1>1, <1>4, <1>5, OneOnItsWay, SameIsSame

LEMMA AddParentWay ==
    ASSUME TypeInv, WayInv, NEW w \in Workers, AddParent(w)
    PROVE  WayInv'
<1> DEFINE r == request[w]
           t == name[w]
<1>1. /\ UNCHANGED <<icons, pixmaps, directories, request, answer, raced>> /\ pc[w] = "addParent"
      /\ parent' = Over(parent, Entry(t, None))
      /\ name' = [name EXCEPT ![w] = None] /\ pc' = [pc EXCEPT ![w] = "pixmaps"]
    BY DEF AddParent, GoOn, built
<1>2. r \in Requests /\ t \in Names
    BY <1>1, Serving DEF TypeInv, TypeOK
<1>3. SameParents(parent, parent')
    BY <1>1, InsertNone
<1>4. Way(w)'
  <2> SUFFICES ASSUME ~raced'[w], NEW up \in [0 .. N -> Names \cup {None}],
                      IsWalk(up, parent', request'[w].theme)
               PROVE  WayOK(up, pc'[w], request'[w], name'[w], answer'[w], icons', parent', pixmaps', directories')
      BY DEF Way
  <2>1. IsWalk(up, parent, r.theme)
      BY <1>1, <1>3, WalkKept
  <2>2. Reached(up, r, icons, t) /\ In(r, icons, t) = {} /\ At(parent, t, None) = None
      BY <1>1, <2>1, WayOf DEF WayOK, Walking
  <2>3. \A n \in 0 .. N : In(r, icons, up[n]) = {}
      BY <1>2, <2>1, <2>2, GoesOn
  <2>4. pc'[w] = "pixmaps"
      BY <1>1 DEF TypeInv, TypeOK
  <2> QED
      BY <2>3, <2>4, <1>1 DEF WayOK, Walking
<1>5. \A v \in Workers \ {w} : /\ pc'[v] = pc[v] /\ request'[v] = request[v] /\ name'[v] = name[v]
                               /\ answer'[v] = answer[v] /\ raced'[v] = raced[v]
    BY <1>1 DEF TypeInv, TypeOK
<1> QED
    BY <1>1, <1>3, <1>4, <1>5, OneOnItsWay, SameIsSame

LEMMA PixmapsWay ==
    ASSUME TypeInv, WayInv, NEW w \in Workers, Pixmaps(w)
    PROVE  WayInv'
<1> DEFINE r == request[w]
           T == InPix(r, pixmaps)
<1>1. UNCHANGED <<icons, parent, pixmaps, directories, request, name, raced>> /\ pc[w] = "pixmaps"
    BY DEF Pixmaps, built, maps
<1>2. r \in Requests
    BY <1>1, Serving
<1>3. PICK a \in Answers : /\ pc' = [pc EXCEPT ![w] = "reply"] /\ answer' = [answer EXCEPT ![w] = a]
                           /\ Best(a, r, pixmaps, T) \/ (a.status = "404" /\ T = {})
  <2>1. CASE T = {} /\ Answer(w, Status("404"))
    <3>1. Status("404") \in Answers /\ Status("404").status = "404"
        BY DEF Answers, Status
    <3> QED
        BY <2>1, <3>1 DEF Answer
  <2>2. ASSUME NEW k \in T, \A j \in T : k <= j, Answer(w, SendFile(pixmaps[r.names[k].icon], r.size))
        PROVE  \E a \in Answers : /\ pc' = [pc EXCEPT ![w] = "reply"] /\ answer' = [answer EXCEPT ![w] = a]
                                  /\ Best(a, r, pixmaps, T) \/ (a.status = "404" /\ T = {})
    <3> DEFINE a == SendFile(pixmaps[r.names[k].icon], r.size)
    <3>1. a \in Answers /\ Nearest(a, pixmaps[r.names[k].icon], r.size)
        BY <1>2, FoundInPixmaps DEF TypeInv
    <3>2. Best(a, r, pixmaps, T)
        BY <2>2, <3>1 DEF Best
    <3> HIDE DEF a
    <3> QED
        BY <2>2, <3>1, <3>2 DEF Answer, a
  <2> QED
      BY <2>1, <2>2, PixmapsAnswer
<1>4. pc'[w] = "reply" /\ answer'[w] = a
    BY <1>3 DEF TypeInv, TypeOK
<1>5. Way(w)'
  <2> SUFFICES ASSUME ~raced'[w], NEW up \in [0 .. N -> Names \cup {None}],
                      IsWalk(up, parent', request'[w].theme)
               PROVE  WayOK(up, pc'[w], request'[w], name'[w], answer'[w], icons', parent', pixmaps', directories')
      BY DEF Way
  <2>1. \A n \in 0 .. N : In(r, icons, up[n]) = {}
      BY <1>1, WayOf DEF WayOK, Walking
  <2>2. Answered(up, r, a, icons, pixmaps, directories)
      BY <2>1, <1>3 DEF Answered
  <2> QED
      BY <2>2, <1>1, <1>4 DEF WayOK, Walking
<1>6. \A v \in Workers \ {w} : /\ pc'[v] = pc[v] /\ request'[v] = request[v] /\ name'[v] = name[v]
                               /\ answer'[v] = answer[v] /\ raced'[v] = raced[v]
    BY <1>1, <1>3 DEF TypeInv, TypeOK
<1> QED
    BY <1>1, <1>5, <1>6, OneOnItsWay, SameIsSame

\* After a stray step nothing is claimed of the lookup, after Done nothing of the worker.
LEMMA StrayWay ==
    ASSUME TypeInv, WayInv, NEW w \in Workers, Stray(w) \/ Done(w)
    PROVE  WayInv'
<1>1. UNCHANGED <<icons, parent, pixmaps, directories>>
    BY DEF Stray, Done, built, maps
<1>2. raced'[w] = TRUE \/ pc'[w] = "idle"
    BY DEF Stray, Done, TypeInv, TypeOK
<1>3. Way(w)'
  <2>1. CASE raced'[w] = TRUE
      BY <2>1 DEF Way
  <2>2. CASE pc'[w] = "idle"
      BY <2>2, IdleOnItsWay
  <2> QED
      BY <1>2, <2>1, <2>2
<1>4. \A v \in Workers \ {w} : /\ pc'[v] = pc[v] /\ request'[v] = request[v] /\ name'[v] = name[v]
                               /\ answer'[v] = answer[v] /\ raced'[v] = raced[v]
    BY DEF Stray, Done, TypeInv, TypeOK
<1> QED
    BY <1>1, <1>3, <1>4, OneOnItsWay, SameIsSame

LEMMA WayNext == TypeInv /\ WayInv /\ [Next]_vars => WayInv'
<1> SUFFICES ASSUME TypeInv, WayInv, [Next]_vars PROVE WayInv'
    OBVIOUS
<1>1. ASSUME phase = "build", UNCHANGED workers
      PROVE  WayInv'
    BY <1>1, IdleOnItsWay DEF WayInv, TypeInv, Quiet, workers
<1>2. CASE \/ \E d \in ThemeDirs : Visit(d)
           \/ \E found \in PixmapSets : MapResources(found)
           \/ BuildThrows
    BY <1>1, <1>2 DEF Visit, MapResources, BuildThrows
<1>3. ASSUME NEW w \in Workers, Work(w) \/ Done(w)
      PROVE  WayInv'
    BY <1>3, OpenWay, LookUpWay, InheritWay, AddParentWay, PixmapsWay, StrayWay DEF Work
<1>4. CASE UNCHANGED vars
    BY <1>4 DEF WayInv, Way, vars, built, maps, workers
<1>5. ASSUME NEW w \in Workers, NEW r \in Requests, SizeThrows(w, r)
      PROVE  WayInv'
    BY <1>5 DEF SizeThrows, WayInv, Way, maps, workers
<1> QED
    BY <1>2, <1>3, <1>4, <1>5, BeginWay DEF Next

LEMMA WayEnough == TypeInv /\ WayInv => AnswerIsClosest
<1> SUFFICES ASSUME TypeInv, WayInv, NEW w \in Workers,
                    pc[w] = "reply", ~raced[w], request[w].names # <<>>
             PROVE  LET r == request[w]
                        up == Ancestors(r.theme)
                        in(n) == {k \in DOMAIN r.names : InTheme(r.names[k], up[n])}
                        inPixmaps == {k \in DOMAIN r.names : InPixmaps(r.names[k])}
                        best(s, which) ==
                            \E k \in which : /\ \A j \in which : k <= j
                                             /\ Nearest(answer[w], s[r.names[k].icon], r.size)
                    IN  \/ answer[w].status = "no theme" /\ r.theme \notin DOMAIN directories
                        \/ \E n \in DOMAIN up : /\ \A m \in 0 .. n - 1 : in(m) = {}
                                                /\ best(icons[up[n]], in(n))
                        \/ /\ \A n \in DOMAIN up : in(n) = {}
                           /\ best(pixmaps, inPixmaps) \/ (answer[w].status = "404" /\ inPixmaps = {})
    BY DEF AnswerIsClosest
<1> DEFINE r == request[w]
           up == Ancestors(r.theme)
<1>1. r.theme \in Names /\ IsParents(parent)
    BY Serving, RequestType DEF TypeInv, TypeOK, IsParents
<1>2. IsWalk(up, parent, r.theme) /\ DOMAIN up = 0 .. N
    BY <1>1, WalkIsWalk DEF Ancestors
<1> HIDE DEF up
<1>3. up \in [0 .. N -> Names \cup {None}]
    BY <1>2 DEF IsWalk
<1>4. Answered(up, r, answer[w], icons, pixmaps, directories)
    BY <1>2, <1>3, WayOf DEF WayOK
<1>5. \A n : {k \in DOMAIN r.names : InTheme(r.names[k], up[n])} = In(r, icons, up[n])
    BY DEF InTheme, In
<1>6. {k \in DOMAIN r.names : InPixmaps(r.names[k])} = InPix(r, pixmaps)
    BY DEF InPixmaps, InPix
<1>7. \/ answer[w].status = "no theme" /\ r.theme \notin DOMAIN directories
      \/ \E n \in DOMAIN up : /\ \A m \in 0 .. n - 1 : In(r, icons, up[m]) = {}
                              /\ Best(answer[w], r, icons[up[n]], In(r, icons, up[n]))
      \/ /\ \A n \in DOMAIN up : In(r, icons, up[n]) = {}
         /\ Best(answer[w], r, pixmaps, InPix(r, pixmaps)) \/ (answer[w].status = "404" /\ InPix(r, pixmaps) = {})
    BY <1>2, <1>4 DEF Answered
<1> QED
    BY <1>5, <1>6, <1>7, Zenon DEF Best, up

\* IconService, doGET: a lookup that met no insertion of another worker answers with
\* the first name there is, in the first theme of the walk that has one of the names,
\* in the size nearest to the one asked for; from the pixmaps only if no theme of the
\* walk has any; 404 only if the pixmaps have none either, or the theme is unknown.
THEOREM AnswerCorrect == Spec => []AnswerIsClosest
<1>1. Init => TypeInv /\ WayInv
  <2>1. Init => WayInv
      BY DEF Init, WayInv, Way, WayOK, Walking
  <2> QED
      BY <2>1, TypeInit
<1>2. TypeInv /\ WayInv /\ [Next]_vars => TypeInv' /\ WayInv'
    BY TypeNext, WayNext
<1> QED
    BY <1>1, <1>2, WayEnough, PTL DEF Spec

-----------------------------------------------------------------------------
\* WindowManager: what the variables hold.

\* The images of an icon, and those that are written.
LEMMA ImagesTyped ==
    /\ Sizes \subseteq Nat \ {0}
    /\ \A i \in WindowIcons : ImagesOf(i) \in Seq(IconNames \X (Sizes \cup {0}))
<1>1. Images \in [WindowIcons -> Seq(Nat)]
    BY WindowAssumption
<1>2. Sizes \subseteq Nat \ {0}
  <2> SUFFICES ASSUME NEW s \in Sizes
               PROVE  s \in Nat \ {0}
      OBVIOUS
  <2>1. PICK i \in WindowIcons : s \in Members(Images[i])
      BY DEF Sizes
  <2>2. PICK k \in DOMAIN Images[i] : s = Images[i][k]
      BY <2>1 DEF Members
  <2>3. Images[i] \in Seq(Nat) /\ DOMAIN Images[i] = 1 .. Len(Images[i])
      BY <1>1, LenProperties
  <2>4. s \in Nat
      BY <2>2, <2>3, ElementOfSeq
  <2> QED
      BY <2>4 DEF Sizes
<1>3. ASSUME NEW i \in WindowIcons
      PROVE  ImagesOf(i) \in Seq(IconNames \X (Sizes \cup {0}))
  <2>1. Images[i] \in Seq(Nat) /\ Len(Images[i]) \in Nat /\ DOMAIN Images[i] = 1 .. Len(Images[i])
      BY <1>1, LenProperties
  <2>2. \A k \in DOMAIN Images[i] : Images[i][k] \in Sizes \cup {0}
    <3>1. \A k \in DOMAIN Images[i] : Images[i][k] \in Members(Images[i])
        BY DEF Members
    <3> QED
        BY <3>1 DEF Sizes
  <2>3. Hash[i] \in IconNames
      BY DEF IconNames
  <2>4. \A k \in 1 .. Len(Images[i]) : <<Hash[i], Images[i][k]>> \in IconNames \X (Sizes \cup {0})
      BY <2>1, <2>2, <2>3
  <2>5. ImagesOf(i) = [k \in 1 .. Len(Images[i]) |-> <<Hash[i], Images[i][k]>>]
      BY <2>1 DEF ImagesOf, CalculateIconName
  <2> QED
      BY <2>1, <2>4, <2>5, IsASeq
<1> QED
    BY <1>2, <1>3

\* WindowTypeOK, in the parts that an action touches together.
XTyped == stacking \in Seq(Windows) /\ look \in [Windows -> Looks] /\ xChanges \in 0 .. MaxWindowChanges
ProcessTyped ==
    /\ place \in {"down", "icons", "list", "read", "add", "write", "push", "notify", "select", "next"}
    /\ starts \in 0 .. MaxStarts /\ selected \in BOOLEAN
ConfiguresTyped == configures \in Nat /\ (~selected => configures = 0)
RoundTyped ==
    /\ toRead \in Seq(Windows) /\ infos \in Seq(Infos) /\ windows \in Seq(Infos)
    /\ added \in 0 .. Len(infos) /\ (place \notin {"add", "write", "push"} => added = 0)
AddTyped == toAdd \in Seq(IconNames \X (Sizes \cup {0}))
FilesTyped ==
    /\ DOMAIN files \subseteq Files /\ files \in [DOMAIN files -> {"part", "whole"}] /\ torn \subseteq DOMAIN files
    /\ place \in {"write", "push"} => toAdd # <<>> /\ Head(toAdd) \in DOMAIN files
PathsTyped == iconPaths \in [IconNames -> Seq(Sizes)]
WorkerTyped ==
    /\ getPlace \in {"idle", "choose"} /\ disturbed \in BOOLEAN /\ stale \in BOOLEAN
    /\ asked \in [name : IconNames \cup {"none"}, size : Int]
    /\ sentIcon \in [name : IconNames \cup {"none", "any"}, size : Sizes \cup {0}]
AllTyped ==
    /\ XTyped /\ ProcessTyped /\ ConfiguresTyped /\ RoundTyped /\ AddTyped /\ FilesTyped /\ PathsTyped /\ WorkerTyped

\* Before the first request.
LEMMA NothingAsked ==
    /\ NoGet \in [name : IconNames \cup {"none"}, size : Int]
    /\ NoIcon \in [name : IconNames \cup {"none", "any"}, size : Sizes \cup {0}]
    BY DEF NoGet, NoIcon

LEMMA AllTypedIsTypeOK == AllTyped => WindowTypeOK
    BY Zenon
    DEF AllTyped, WindowTypeOK, XTyped, ProcessTyped, ConfiguresTyped, RoundTyped, AddTyped, FilesTyped, PathsTyped,
       WorkerTyped, Places

\* What an action leaves alone keeps its type.
LEMMA WindowPartsUnchanged ==
    /\ XTyped /\ UNCHANGED xServer => XTyped'
    /\ ProcessTyped /\ UNCHANGED <<place, starts, selected>> => ProcessTyped'
    /\ ConfiguresTyped /\ UNCHANGED <<configures, selected>> => ConfiguresTyped'
    /\ RoundTyped /\ UNCHANGED <<toRead, infos, windows, added, place>> => RoundTyped'
    /\ AddTyped /\ UNCHANGED toAdd => AddTyped'
    /\ FilesTyped /\ UNCHANGED <<files, torn, place, toAdd>> => FilesTyped'
    /\ PathsTyped /\ UNCHANGED iconPaths => PathsTyped'
    /\ WorkerTyped /\ UNCHANGED <<worker, disturbed, stale>> => WorkerTyped'
<1>1. XTyped /\ UNCHANGED xServer => XTyped'
    BY DEF XTyped, xServer
<1>2. ProcessTyped /\ UNCHANGED <<place, starts, selected>> => ProcessTyped'
    BY DEF ProcessTyped
<1>3. ConfiguresTyped /\ UNCHANGED <<configures, selected>> => ConfiguresTyped'
    BY DEF ConfiguresTyped
<1>4. RoundTyped /\ UNCHANGED <<toRead, infos, windows, added, place>> => RoundTyped'
    BY DEF RoundTyped
<1>5. AddTyped /\ UNCHANGED toAdd => AddTyped'
    BY DEF AddTyped
<1>6. FilesTyped /\ UNCHANGED <<files, torn, place, toAdd>> => FilesTyped'
    BY DEF FilesTyped
<1>7. PathsTyped /\ UNCHANGED iconPaths => PathsTyped'
    BY DEF PathsTyped
<1>8. WorkerTyped /\ UNCHANGED <<worker, disturbed, stale>> => WorkerTyped'
    BY DEF WorkerTyped, worker
<1> QED
    BY <1>1, <1>2, <1>3, <1>4, <1>5, <1>6, <1>7, <1>8

LEMMA WindowTypeStart == WindowInit => AllTyped
<1> SUFFICES ASSUME WindowInit
             PROVE  AllTyped
    OBVIOUS
<1>1. /\ <<>> \in Seq(Windows) /\ <<>> \in Seq(Infos) /\ <<>> \in Seq(Sizes)
      /\ <<>> \in Seq(IconNames \X (Sizes \cup {0})) /\ Len(<<>>) = 0 /\ DOMAIN <<>> = {}
    BY EmptySeq
<1>2. XTyped
  <2>1. PICK some \in SUBSET Windows : stacking \in [1 .. Cardinality(some) -> some]
      BY DEF WindowInit
  <2>2. Cardinality(some) \in Nat
      BY WindowAssumption, FS_Subset, FS_CardinalityType
  <2>3. stacking \in [1 .. Cardinality(some) -> Windows]
      BY <2>1
  <2>4. stacking \in Seq(Windows)
      BY <2>2, <2>3, SeqDef
  <2> QED
      BY <2>4, WindowAssumption DEF WindowInit, XTyped
<1>3. ProcessTyped
  <2>1. 0 \in 0 .. MaxStarts
      BY WindowAssumption
  <2> QED
      BY <2>1 DEF WindowInit, ProcessTyped
<1>4. ConfiguresTyped
    BY DEF WindowInit, ConfiguresTyped
<1>5. RoundTyped
    BY <1>1 DEF WindowInit, RoundTyped
<1>6. AddTyped
    BY <1>1 DEF WindowInit, AddTyped
<1>7. FilesTyped
    BY <1>1 DEF WindowInit, FilesTyped
<1>8. PathsTyped
    BY <1>1 DEF WindowInit, PathsTyped
<1>9. WorkerTyped
  <2>1. asked = NoGet /\ sentIcon = NoIcon /\ getPlace = "idle" /\ disturbed = FALSE /\ stale = FALSE
      BY DEF WindowInit
  <2> QED
      BY <2>1, NothingAsked DEF WorkerTyped
<1> QED
    BY <1>2, <1>3, <1>4, <1>5, <1>6, <1>7, <1>8, <1>9 DEF AllTyped

\* The windows of the X server but one, and in another order.
LEMMA StackingTyped ==
    ASSUME stacking \in Seq(Windows), NEW k \in DOMAIN stacking
    PROVE  /\ stacking[k] \in Windows
           /\ Without(k) \in Seq(Windows)
           /\ Append(Without(k), stacking[k]) \in Seq(Windows)
<1>1. Len(stacking) \in Nat /\ DOMAIN stacking = 1 .. Len(stacking)
    BY LenProperties
<1>2. \A i \in 1 .. Len(stacking) : stacking[i] \in Windows
    BY ElementOfSeq
<1>3. Len(stacking) - 1 \in Nat
    BY <1>1
<1>4. \A i \in 1 .. Len(stacking) - 1 : (IF i < k THEN i ELSE i + 1) \in 1 .. Len(stacking)
    BY <1>1
<1>5. \A i \in 1 .. Len(stacking) - 1 : stacking[IF i < k THEN i ELSE i + 1] \in Windows
    BY <1>2, <1>4
<1>6. Without(k) \in Seq(Windows)
    BY <1>3, <1>5, IsASeq DEF Without
<1>7. stacking[k] \in Windows
    BY <1>1, <1>2
<1> QED
    BY <1>6, <1>7, AppendProperties

\* The end of the process.
LEMMA ExitTyped ==
    ASSUME AllTyped, Exit
    PROVE  AllTyped'
<1> USE WindowPartsUnchanged DEF AllTyped
<1>1. /\ <<>> \in Seq(Windows) /\ <<>> \in Seq(Infos) /\ <<>> \in Seq(Sizes)
      /\ <<>> \in Seq(IconNames \X (Sizes \cup {0})) /\ Len(<<>>) = 0
    BY EmptySeq
<1>2. XTyped'
    BY DEF Exit
<1>3. ProcessTyped' /\ ConfiguresTyped'
    BY DEF Exit, ProcessTyped, ConfiguresTyped
<1>4. RoundTyped' /\ AddTyped' /\ PathsTyped'
    BY <1>1 DEF Exit, RoundTyped, AddTyped, PathsTyped
<1>5. FilesTyped'
    BY DEF Exit, FilesTyped
<1>6. WorkerTyped'
  <2>1. asked' = NoGet /\ sentIcon' = NoIcon /\ getPlace' = "idle" /\ disturbed' = FALSE /\ UNCHANGED stale
      BY DEF Exit
  <2> QED
      BY <2>1, NothingAsked DEF WorkerTyped
<1> QED
    BY <1>2, <1>3, <1>4, <1>5, <1>6

\* A change in the X server.
LEMMA ChangesTyped ==
    ASSUME AllTyped, NEW s \in Seq(Windows), NEW l \in [Windows -> Looks], Changes(s, l),
           configures' \in Nat, selected \/ configures' = 0, stale' \in BOOLEAN
    PROVE  AllTyped'
<1> USE WindowPartsUnchanged DEF AllTyped
<1>1. XTyped'
  <2>1. xChanges' \in 0 .. MaxWindowChanges
    <3>1. /\ xChanges \in 0 .. MaxWindowChanges /\ xChanges < MaxWindowChanges
          /\ xChanges' = xChanges + 1 /\ MaxWindowChanges \in Nat
        BY WindowAssumption DEF Changes, XTyped
    <3> QED
        BY <3>1
  <2> QED
      BY <2>1 DEF Changes, XTyped
<1>2. ConfiguresTyped'
    BY DEF Changes, ConfiguresTyped, process
<1>3. WorkerTyped'
    BY DEF Changes, WorkerTyped, worker
<1>4. ProcessTyped' /\ RoundTyped' /\ AddTyped' /\ FilesTyped' /\ PathsTyped'
    BY DEF Changes, process
<1> QED
    BY <1>1, <1>2, <1>3, <1>4

LEMMA ConfigureTyped ==
    ASSUME AllTyped, NEW w, Configure(w)
    PROVE  AllTyped'
<1>1. Changes(stacking, look) /\ stacking \in Seq(Windows) /\ look \in [Windows -> Looks]
    BY DEF Configure, AllTyped, XTyped
<1>2. configures' \in Nat /\ (selected \/ configures' = 0)
    BY DEF Configure, AllTyped, ConfiguresTyped, ProcessTyped
<1>3. stale' \in BOOLEAN
    BY DEF Configure, AllTyped, WorkerTyped
<1> QED
    BY <1>1, <1>2, <1>3, ChangesTyped

LEMMA XChangeTyped ==
    ASSUME AllTyped, XChange
    PROVE  AllTyped'
<1>1. stacking \in Seq(Windows) /\ look \in [Windows -> Looks] /\ NoLook \in Looks
    BY WindowAssumption DEF AllTyped, XTyped, NoLook
<1>2. configures' \in Nat /\ (selected \/ configures' = 0) /\ stale' \in BOOLEAN
    BY DEF XChange, AllTyped, ConfiguresTyped, ProcessTyped
<1>3. ASSUME NEW w \in Windows, NEW l \in Looks, Changes(Append(stacking, w), [look EXCEPT ![w] = l])
      PROVE  AllTyped'
  <2>1. Append(stacking, w) \in Seq(Windows) /\ [look EXCEPT ![w] = l] \in [Windows -> Looks]
      BY <1>1, AppendProperties
  <2> QED
      BY <1>2, <1>3, <2>1, ChangesTyped
<1>4. ASSUME NEW k \in DOMAIN stacking, Changes(Without(k), [look EXCEPT ![stacking[k]] = NoLook])
      PROVE  AllTyped'
  <2>1. Without(k) \in Seq(Windows) /\ [look EXCEPT ![stacking[k]] = NoLook] \in [Windows -> Looks]
      BY <1>1, StackingTyped
  <2> QED
      BY <1>2, <1>4, <2>1, ChangesTyped
<1>5. ASSUME NEW w \in Members(stacking), NEW l \in Looks, Changes(stacking, [look EXCEPT ![w] = l])
      PROVE  AllTyped'
  <2>1. [look EXCEPT ![w] = l] \in [Windows -> Looks]
      BY <1>1
  <2> QED
      BY <1>1, <1>2, <1>5, <2>1, ChangesTyped
<1>6. ASSUME NEW k \in DOMAIN stacking, Changes(Append(Without(k), stacking[k]), look)
      PROVE  AllTyped'
  <2>1. Append(Without(k), stacking[k]) \in Seq(Windows)
      BY <1>1, StackingTyped
  <2> QED
      BY <1>1, <1>2, <1>6, <2>1, ChangesTyped
<1> QED
    BY <1>3, <1>4, <1>5, <1>6 DEF XChange

\* The head and the tail of the images that are to be added.
LEMMA NextImage ==
    ASSUME AllTyped, toAdd # <<>>
    PROVE  /\ Head(toAdd) \in IconNames \X (Sizes \cup {0})
           /\ Head(toAdd)[2] # 0 => Head(toAdd) \in Files
           /\ Head(toAdd) = <<Head(toAdd)[1], Head(toAdd)[2]>>
           /\ Tail(toAdd) \in Seq(IconNames \X (Sizes \cup {0}))
           /\ Members(toAdd) = {Head(toAdd)} \cup Members(Tail(toAdd))
<1> DEFINE T == IconNames \X (Sizes \cup {0})
<1>1. toAdd \in Seq(T)
    BY DEF AllTyped, AddTyped
<1>2. /\ Head(toAdd) \in T /\ Tail(toAdd) \in Seq(T) /\ Len(Tail(toAdd)) = Len(toAdd) - 1
      /\ \A i \in 1 .. Len(Tail(toAdd)) : Tail(toAdd)[i] = toAdd[i + 1]
    BY <1>1, HeadTailProperties
<1>3. /\ Len(toAdd) \in Nat /\ DOMAIN toAdd = 1 .. Len(toAdd) /\ DOMAIN Tail(toAdd) = 1 .. Len(toAdd) - 1
      /\ Len(toAdd) # 0
    BY <1>1, <1>2, LenProperties, EmptySeq
<1>4. Head(toAdd) = toAdd[1]
    BY <1>1
<1>5. Members(toAdd) = {Head(toAdd)} \cup Members(Tail(toAdd))
  <2>1. ASSUME NEW x \in Members(toAdd)
        PROVE  x \in {Head(toAdd)} \cup Members(Tail(toAdd))
    <3>1. PICK i \in 1 .. Len(toAdd) : x = toAdd[i]
        BY <1>3, <2>1 DEF Members
    <3>2. CASE i = 1
        BY <1>4, <3>1, <3>2
    <3>3. CASE i # 1
      <4>1. i - 1 \in 1 .. Len(toAdd) - 1 /\ (i - 1) + 1 = i
          BY <1>3, <3>3
      <4>2. Tail(toAdd)[i - 1] = x
          BY <1>2, <3>1, <4>1
      <4> QED
          BY <1>3, <4>1, <4>2 DEF Members
    <3> QED
        BY <3>2, <3>3
  <2>2. Head(toAdd) \in Members(toAdd)
      BY <1>3, <1>4 DEF Members
  <2>3. ASSUME NEW x \in Members(Tail(toAdd))
        PROVE  x \in Members(toAdd)
    <3>1. PICK i \in 1 .. Len(toAdd) - 1 : x = Tail(toAdd)[i]
        BY <1>3, <2>3 DEF Members
    <3>2. i + 1 \in 1 .. Len(toAdd)
        BY <1>3
    <3>3. x = toAdd[i + 1]
        BY <1>2, <3>1
    <3> QED
        BY <1>3, <3>2, <3>3 DEF Members
  <2> QED
      BY <2>1, <2>2, <2>3
<1>6. Head(toAdd) = <<Head(toAdd)[1], Head(toAdd)[2]>> /\ (Head(toAdd)[2] # 0 => Head(toAdd) \in Files)
    BY <1>2 DEF Files
<1> QED
    BY <1>2, <1>5, <1>6

\* A step of the loop that only reads and goes on.
LEMMA ReadingTyped ==
    ASSUME AllTyped, ListWindows \/ ReadWindow \/ ReadAll \/ Notified \/ Select \/ NextEvent \/ Start
    PROVE  AllTyped'
<1> USE WindowPartsUnchanged DEF AllTyped
<1>1. XTyped' /\ AddTyped' /\ PathsTyped'
    BY DEF ListWindows, ReadWindow, ReadAll, Notified, Select, NextEvent, Start
<1>2. WorkerTyped'
    BY DEF ListWindows, ReadWindow, ReadAll, Notified, Select, NextEvent, Start, WorkerTyped, worker
<1>3. FilesTyped'
    BY DEF ListWindows, ReadWindow, ReadAll, Notified, Select, NextEvent, Start, Loop, FilesTyped
<1>4. ProcessTyped'
  <2>1. Start => starts' \in 0 .. MaxStarts
    <3>1. Start => starts \in 0 .. MaxStarts /\ starts < MaxStarts /\ starts' = starts + 1 /\ MaxStarts \in Nat
        BY WindowAssumption DEF Start, ProcessTyped
    <3> QED
        BY <3>1
  <2>2. ListWindows \/ ReadWindow \/ ReadAll \/ Notified \/ Select \/ NextEvent => UNCHANGED starts
      BY DEF ListWindows, ReadWindow, ReadAll, Notified, Select, NextEvent
  <2>3. starts' \in 0 .. MaxStarts
      BY <2>1, <2>2 DEF ProcessTyped
  <2> QED
      BY <2>3 DEF ListWindows, ReadWindow, ReadAll, Notified, Select, NextEvent, Start, Loop, ProcessTyped
<1>5. ConfiguresTyped'
    BY DEF ListWindows, ReadWindow, ReadAll, Notified, Select, NextEvent, Start, ConfiguresTyped
<1>6. CASE ListWindows
  <2>1. toRead' \in Seq(Windows)
    <3>1. stacking \in Seq(Windows) /\ Len(stacking) \in Nat /\ DOMAIN stacking = 1 .. Len(stacking)
        BY LenProperties DEF XTyped
    <3>2. \A i \in 1 .. Len(stacking) : Len(stacking) + 1 - i \in 1 .. Len(stacking)
        BY <3>1
    <3>3. \A i \in 1 .. Len(stacking) : stacking[Len(stacking) + 1 - i] \in Windows
        BY <3>1, <3>2, ElementOfSeq
    <3>4. toRead' = [i \in 1 .. Len(stacking) |-> stacking[Len(stacking) + 1 - i]]
        BY <1>6, <3>1 DEF ListWindows
    <3> QED
        BY <3>1, <3>3, <3>4, IsASeq
  <2>2. /\ infos' = <<>> /\ <<>> \in Seq(Infos) /\ Len(<<>>) = 0
        /\ UNCHANGED <<windows, added>> /\ place = "list" /\ place' = "read"
      BY <1>6, EmptySeq DEF ListWindows, Loop
  <2>3. RoundTyped'
      BY <2>1, <2>2 DEF RoundTyped
  <2> QED
      BY <1>1, <1>2, <1>3, <1>4, <1>5, <2>3
<1>7. CASE ReadWindow
  <2>1. /\ place = "read" /\ UNCHANGED <<place, windows, added>> /\ toRead # <<>> /\ toRead' = Tail(toRead)
        /\ infos' = IF Kept(look[Head(toRead)]) THEN Append(infos, Info(Head(toRead))) ELSE infos
      BY <1>7 DEF ReadWindow
  <2>2. toRead' \in Seq(Windows) /\ Head(toRead) \in Windows
      BY <2>1, HeadTailProperties DEF RoundTyped
  <2>3. Info(Head(toRead)) \in Infos
    <3>1. look[Head(toRead)] \in [title : Nat, normal : BOOLEAN, icon : WindowIcons]
        BY <2>2, WindowAssumption DEF XTyped
    <3>2. \A b \in Nat : GetProp(b) \in Nat
        BY DEF GetProp
    <3> QED
        BY <2>2, <3>1, <3>2 DEF Info, Infos
  <2>4. infos' \in Seq(Infos) /\ Len(infos') \in Nat /\ added = 0
    <3>1. infos' \in Seq(Infos)
        BY <2>1, <2>3, AppendProperties DEF RoundTyped
    <3>2. added = 0
        BY <2>1 DEF RoundTyped
    <3> QED
        BY <3>1, <3>2, LenProperties
  <2>5. RoundTyped'
      BY <2>1, <2>2, <2>4 DEF RoundTyped
  <2> QED
      BY <1>1, <1>2, <1>3, <1>4, <1>5, <2>5
<1>8. CASE ReadAll \/ Notified \/ Select \/ NextEvent \/ Start
  <2>1. RoundTyped'
      BY <1>8 DEF ReadAll, Notified, Select, NextEvent, Start, Loop, RoundTyped
  <2> QED
      BY <1>1, <1>2, <1>3, <1>4, <1>5, <2>1
<1> QED
    BY <1>6, <1>7, <1>8

LEMMA ReadIconsTyped ==
    ASSUME AllTyped, ReadIcons
    PROVE  AllTyped'
<1> USE WindowPartsUnchanged DEF AllTyped
<1>1. XTyped' /\ AddTyped' /\ WorkerTyped'
    BY DEF ReadIcons
<1>2. ProcessTyped' /\ ConfiguresTyped' /\ RoundTyped' /\ FilesTyped'
    BY DEF ReadIcons, Loop, ProcessTyped, ConfiguresTyped, RoundTyped, FilesTyped
<1>3. PathsTyped'
    BY DEF ReadIcons, PathsTyped
<1> QED
    BY <1>1, <1>2, <1>3

\* The images of a window's icon are added.
LEMMA AddingTyped ==
    ASSUME AllTyped, NextWindow \/ SkipImage \/ CreateFile \/ WriteFile \/ PushBack \/ Publish
    PROVE  AllTyped'
<1> USE WindowPartsUnchanged DEF AllTyped
<1>1. XTyped'
    BY DEF NextWindow, SkipImage, CreateFile, WriteFile, PushBack, Publish
<1>2. ProcessTyped'
    BY DEF NextWindow, SkipImage, CreateFile, WriteFile, PushBack, Publish, Loop, ProcessTyped
<1>3. ConfiguresTyped'
    BY DEF NextWindow, SkipImage, CreateFile, WriteFile, PushBack, Publish, ConfiguresTyped
<1>4. WorkerTyped'
    BY DEF NextWindow, SkipImage, CreateFile, WriteFile, PushBack, Publish, WorkerTyped, worker
<1>5. RoundTyped'
  <2>1. infos \in Seq(Infos) /\ Len(infos) \in Nat /\ <<>> \in Seq(Infos) /\ Len(<<>>) = 0 /\ added \in 0 .. Len(infos)
      BY LenProperties, EmptySeq DEF RoundTyped
  <2>2. CASE NextWindow
    <3>1. added' \in 0 .. Len(infos) /\ UNCHANGED <<toRead, infos, windows, place>> /\ place = "add"
        BY <2>1, <2>2 DEF NextWindow
    <3> QED
        BY <3>1 DEF RoundTyped
  <2>3. CASE SkipImage \/ CreateFile \/ WriteFile \/ PushBack
      BY <2>3 DEF SkipImage, CreateFile, WriteFile, PushBack, Loop, RoundTyped
  <2>4. CASE Publish
      BY <2>1, <2>4 DEF Publish, RoundTyped
  <2> QED
      BY <2>2, <2>3, <2>4
<1>6. AddTyped'
  <2>1. CASE NextWindow
    <3>1. added' \in 1 .. Len(infos) /\ infos \in Seq(Infos) /\ toAdd' = ImagesOf(infos[added'].icon)
      <4>1. Len(infos) \in Nat /\ infos \in Seq(Infos)
          BY LenProperties DEF RoundTyped
      <4> QED
          BY <2>1, <4>1 DEF NextWindow, RoundTyped
    <3>2. infos[added'].icon \in WindowIcons
      <4>1. infos[added'] \in Infos
          BY <3>1, ElementOfSeq
      <4> QED
          BY <4>1 DEF Infos
    <3> QED
        BY <3>1, <3>2, ImagesTyped DEF AddTyped
  <2>2. CASE SkipImage
      BY <2>2, NextImage DEF SkipImage, AddTyped
  <2>3. CASE PushBack
    <3>1. toAdd # <<>>
        BY <2>3 DEF PushBack, Loop, FilesTyped
    <3> QED
        BY <2>3, <3>1, NextImage DEF PushBack, AddTyped
  <2>4. CASE CreateFile \/ WriteFile \/ Publish
      BY <2>4 DEF CreateFile, WriteFile, Publish
  <2> QED
      BY <2>1, <2>2, <2>3, <2>4
<1>7. FilesTyped'
  <2>1. CASE CreateFile \/ WriteFile
    <3>1. toAdd # <<>> /\ Head(toAdd) \in Files /\ UNCHANGED <<toAdd, torn>>
      <4>1. CASE CreateFile
          BY <4>1, NextImage DEF CreateFile
      <4>2. CASE WriteFile
          BY <4>2 DEF WriteFile, Loop, FilesTyped
      <4> QED
          BY <2>1, <4>1, <4>2
    <3>2. PICK x \in {"part", "whole"} : files' = Put(Head(toAdd), x)
        BY <2>1 DEF CreateFile, WriteFile
    <3>3. /\ DOMAIN files' = DOMAIN files \cup {Head(toAdd)}
          /\ files' \in [DOMAIN files' -> {"part", "whole"}]
        BY <3>2 DEF Put, FilesTyped
    <3> QED
        BY <3>1, <3>3 DEF FilesTyped
  <2>2. CASE NextWindow \/ SkipImage \/ PushBack \/ Publish
    <3>1. UNCHANGED <<files, torn>> /\ place' \notin {"write", "push"}
        BY <2>2 DEF NextWindow, SkipImage, PushBack, Publish, Loop
    <3> QED
        BY <3>1 DEF FilesTyped
  <2> QED
      BY <2>1, <2>2
<1>8. PathsTyped'
  <2>1. CASE PushBack
    <3>1. /\ Head(toAdd) \in Files
          /\ iconPaths' = [iconPaths EXCEPT ![Head(toAdd)[1]] = Append(iconPaths[Head(toAdd)[1]], Head(toAdd)[2])]
        BY <2>1 DEF PushBack, Loop, FilesTyped
    <3>2. Head(toAdd)[1] \in IconNames /\ Head(toAdd)[2] \in Sizes
        BY <3>1 DEF Files
    <3>3. Append(iconPaths[Head(toAdd)[1]], Head(toAdd)[2]) \in Seq(Sizes)
        BY <3>2, AppendProperties DEF PathsTyped
    <3> QED
        BY <3>1, <3>3 DEF PathsTyped
  <2>2. CASE NextWindow \/ SkipImage \/ CreateFile \/ WriteFile \/ Publish
      BY <2>2 DEF NextWindow, SkipImage, CreateFile, WriteFile, Publish
  <2> QED
      BY <2>1, <2>2
<1> QED
    BY <1>1, <1>2, <1>3, <1>4, <1>5, <1>6, <1>7, <1>8

\* The conversions of the size that is asked for.
LEMMA IntIsUnsigned ==
    /\ \A n \in Int : ToInt(n) \in -Half .. Half - 1
    /\ \A n \in -Half .. Half - 1 : ToInt(n) = n
    /\ \A n \in -Half .. Half - 1 : ToUnsigned(n) \in Nat
    /\ \A n \in -Half .. -1 : Wrap - Half <= ToUnsigned(n)
<1>1. Half \in Nat /\ Half > 0 /\ Wrap \in Nat /\ 2 * Half <= Wrap
    BY WindowAssumption
<1>2. ASSUME NEW n \in Int
      PROVE  ToInt(n) \in -Half .. Half - 1
  <2>1. n + Half \in Int /\ 2 * Half \in Nat /\ 2 * Half > 0
      BY <1>1
  <2>2. (n + Half) % (2 * Half) \in 0 .. 2 * Half - 1
      BY <2>1
  <2> QED
      BY <1>1, <2>2 DEF ToInt
<1>3. ASSUME NEW n \in -Half .. Half - 1
      PROVE  ToInt(n) = n
  <2>1. n \in Int /\ n + Half \in 0 .. 2 * Half - 1 /\ 2 * Half \in Nat /\ 2 * Half > 0
      BY <1>1
  <2>2. (n + Half) % (2 * Half) = n + Half
      BY <2>1
  <2> QED
      BY <1>1, <2>1, <2>2 DEF ToInt
<1>4. ASSUME NEW n \in -Half .. Half - 1
      PROVE  ToUnsigned(n) \in Nat
    BY <1>1 DEF ToUnsigned
<1>5. ASSUME NEW n \in -Half .. -1
      PROVE  Wrap - Half <= ToUnsigned(n)
    BY <1>1 DEF ToUnsigned
<1> QED
    BY <1>2, <1>3, <1>4, <1>5

\* A request that comes, and its answer: of the sizes there are, the first of those
\* whose distance is the least.
LEMMA ClosestIs ==
    ASSUME NEW q \in Seq(Nat), q # <<>>, NEW wanted \in -Half .. Half - 1
    PROVE  /\ Closest(q, wanted) \in Members(q)
           /\ \A s \in Members(q) : SizeDistance(Closest(q, wanted), wanted) <= SizeDistance(s, wanted)
<1> DEFINE Gap(k) == SizeDistance(q[k], wanted)
           Ks == DOMAIN q
<1>1. Len(q) \in Nat /\ Ks = 1 .. Len(q) /\ Len(q) # 0 /\ \A k \in Ks : q[k] \in Nat
    BY LenProperties, EmptySeq, ElementOfSeq
<1>2. \A k \in Ks : Gap(k) \in Nat
  <2>1. ToUnsigned(wanted) \in Nat
      BY IntIsUnsigned
  <2>2. ASSUME NEW k \in Ks
        PROVE  Gap(k) \in Nat
    <3>1. q[k] \in Nat
        BY <1>1
    <3> QED
        BY <2>1, <3>1 DEF SizeDistance
  <2> HIDE DEF Gap
  <2> QED
      BY <2>2
<1> HIDE DEF Gap, Ks
<1>3. PICK d \in {Gap(k) : k \in Ks} : \A e \in {Gap(k) : k \in Ks} : d <= e
  <2>1. {Gap(k) : k \in Ks} \subseteq Nat /\ 1 \in Ks
      BY <1>1, <1>2
  <2> QED
      BY <2>1, LeastElement
<1>4. PICK k \in {j \in Ks : Gap(j) = d} : \A j \in {j \in Ks : Gap(j) = d} : k <= j
  <2>1. {j \in Ks : Gap(j) = d} \subseteq Nat /\ {j \in Ks : Gap(j) = d} # {}
      BY <1>1, <1>3
  <2> QED
      BY <2>1, LeastElement
<1>5. \A j \in Ks : Gap(k) <= Gap(j) /\ (j < k => Gap(k) < Gap(j))
  <2> SUFFICES ASSUME NEW j \in Ks
               PROVE  Gap(k) <= Gap(j) /\ (j < k => Gap(k) < Gap(j))
      OBVIOUS
  <2>1. Gap(k) = d /\ d <= Gap(j) /\ Gap(j) \in Nat /\ d \in Nat /\ j \in Nat /\ k \in Nat
      BY <1>1, <1>2, <1>3, <1>4
  <2>2. j < k => Gap(j) # d
    <3>1. Gap(j) = d => k <= j
        BY <1>4
    <3> QED
        BY <2>1, <3>1
  <2> QED
      BY <2>1, <2>2
<1> DEFINE Good(i) == \A j \in Ks : Gap(i) <= Gap(j) /\ (j < i => Gap(i) < Gap(j))
<1>6. k \in Ks /\ Good(k)
    BY <1>4, <1>5
<1>7. Closest(q, wanted) = q[CHOOSE i \in Ks : Good(i)]
    BY DEF Closest, Gap, Ks
<1>8. PICK i \in Ks : Good(i) /\ Closest(q, wanted) = q[i]
  <2> HIDE DEF Good
  <2> QED
      BY <1>6, <1>7
<1> QED
    BY <1>8 DEF Gap, Ks, Members

\* A worker that chooses has a request for an icon there is.
Asking ==
    getPlace = "choose" =>
        /\ place \notin {"down", "icons"}
        /\ asked.name \in IconNames /\ asked.size \in Int /\ iconPaths[asked.name] # <<>>

LEMMA PathsInNat ==
    ASSUME PathsTyped, NEW n \in IconNames
    PROVE  iconPaths[n] \in Seq(Nat)
<1> DEFINE q == iconPaths[n]
<1>1. q \in Seq(Sizes) /\ Sizes \subseteq Nat
    BY ImagesTyped DEF PathsTyped
<1> HIDE DEF q
<1>2. Len(q) \in Nat /\ q = [k \in 1 .. Len(q) |-> q[k]]
    BY <1>1, LenProperties
<1>3. \A k \in 1 .. Len(q) : q[k] \in Nat
    BY <1>1, ElementOfSeq
<1>4. q \in Seq(Nat)
    BY <1>2, <1>3, IsASeq
<1> QED
    BY <1>4 DEF q

LEMMA RequestTyped ==
    ASSUME AllTyped, Asking, (\E n \in IconNames, size \in Int : GetIcon(n, size)) \/ ChooseIcon
    PROVE  AllTyped'
<1> USE WindowPartsUnchanged DEF AllTyped
<1>1. UNCHANGED <<xServer, process, configures, files, iconPaths, stale, torn>>
    BY DEF GetIcon, ChooseIcon
<1>2. XTyped' /\ ProcessTyped' /\ ConfiguresTyped' /\ RoundTyped' /\ AddTyped' /\ FilesTyped' /\ PathsTyped'
    BY <1>1 DEF process
<1>3. ASSUME NEW n \in IconNames, NEW size \in Int, GetIcon(n, size)
      PROVE  WorkerTyped'
    BY <1>3 DEF GetIcon, WorkerTyped, NoIcon
<1>4. CASE ChooseIcon
  <2>1. sentIcon' \in [name : IconNames \cup {"none", "any"}, size : Sizes \cup {0}]
    <3>1. CASE disturbed \/ sentIcon' = NoIcon
        BY <1>4, <3>1 DEF ChooseIcon, NoIcon, AnyIcon
    <3>2. CASE ~disturbed /\ sentIcon' # NoIcon
      <4>1. asked.name \in IconNames /\ asked.size \in Int /\ iconPaths[asked.name] # <<>>
          BY <1>4 DEF ChooseIcon, Asking
      <4>2. sentIcon' = [name |-> asked.name, size |-> Closest(iconPaths[asked.name], ToInt(asked.size))]
          BY <1>4, <3>2 DEF ChooseIcon
      <4>3. iconPaths[asked.name] \in Seq(Sizes) /\ Sizes \subseteq Nat /\ ToInt(asked.size) \in -Half .. Half - 1
          BY <4>1, ImagesTyped, IntIsUnsigned DEF PathsTyped
      <4>4. iconPaths[asked.name] \in Seq(Nat)
          BY <4>1, PathsInNat
      <4>5. Closest(iconPaths[asked.name], ToInt(asked.size)) \in Members(iconPaths[asked.name])
          BY <4>1, <4>3, <4>4, ClosestIs
      <4>6. Members(iconPaths[asked.name]) \subseteq Sizes
        <5>1. DOMAIN iconPaths[asked.name] = 1 .. Len(iconPaths[asked.name])
            BY <4>3, LenProperties
        <5> QED
            BY <4>3, <5>1, ElementOfSeq DEF Members
      <4> QED
          BY <4>1, <4>2, <4>5, <4>6
    <3> QED
        BY <3>1, <3>2
  <2>2. WorkerTyped'
    <3>1. asked' = NoGet /\ getPlace' = "idle" /\ disturbed' = FALSE /\ UNCHANGED stale
        BY <1>4 DEF ChooseIcon
    <3> QED
        BY <2>1, <3>1, NothingAsked DEF WorkerTyped
  <2> QED
      BY <1>2, <2>2
<1> QED
    BY <1>2, <1>3, <1>4

LEMMA WantedInts == \A size \in Wanted \cup {32} : size \in Int
    BY WindowAssumption

LEMMA AskingStart == WindowInit => Asking
    BY DEF WindowInit, Asking

LEMMA AskingStep ==
    ASSUME AllTyped, Asking, [WindowNext]_wmVars
    PROVE  Asking'
<1>1. ASSUME Exit
      PROVE  Asking'
    BY <1>1 DEF Exit, Asking
<1>2. ASSUME NEW s, NEW l, Changes(s, l)
      PROVE  Asking'
    BY <1>2 DEF Changes, Asking, process, worker
<1>3. CASE Start \/ ReadIcons
    BY <1>3 DEF Start, ReadIcons, Loop, Asking, worker
<1>4. CASE \/ ListWindows \/ ReadWindow \/ ReadAll \/ NextWindow \/ SkipImage
           \/ CreateFile \/ WriteFile \/ Publish \/ Notified \/ Select \/ NextEvent
    BY <1>4
    DEF ListWindows, ReadWindow, ReadAll, NextWindow, SkipImage, CreateFile, WriteFile, Publish, Notified, Select,
       NextEvent, Loop, Asking, worker
<1>5. CASE PushBack
  <2>1. \A n \in IconNames : iconPaths[n] # <<>> => iconPaths'[n] # <<>>
    <3>1. /\ Head(toAdd) \in Files
          /\ iconPaths' = [iconPaths EXCEPT ![Head(toAdd)[1]] = Append(iconPaths[Head(toAdd)[1]], Head(toAdd)[2])]
        BY <1>5 DEF PushBack, Loop, AllTyped, FilesTyped
    <3>2. Head(toAdd)[1] \in IconNames /\ Head(toAdd)[2] \in Sizes
        BY <3>1 DEF Files
    <3>3. Append(iconPaths[Head(toAdd)[1]], Head(toAdd)[2]) # <<>>
        BY <3>2, AppendProperties DEF AllTyped, PathsTyped
    <3> QED
        BY <3>1, <3>3 DEF AllTyped, PathsTyped
  <2>2. place' = "add" /\ UNCHANGED worker
      BY <1>5 DEF PushBack, Loop
  <2> QED
      BY <1>5, <2>1, <2>2 DEF PushBack, Loop, Asking, worker
<1>6. ASSUME NEW n \in IconNames, NEW size \in Int, GetIcon(n, size)
      PROVE  Asking'
    BY <1>6 DEF GetIcon, Asking, Up, process
<1>7. CASE ChooseIcon
    BY <1>7 DEF ChooseIcon, Asking
<1>8. CASE UNCHANGED wmVars
    BY <1>8 DEF wmVars, Asking, worker, process
<1> QED
    BY <1>1, <1>2, <1>3, <1>4, <1>5, <1>6, <1>7, <1>8, WantedInts
    DEF WindowNext, EventLoop, XChange, Configure, Post, NoIconDirectory, WindowIsGone, NotifyDies, GetFaults

LEMMA WindowTypeStep ==
    ASSUME AllTyped, Asking, [WindowNext]_wmVars
    PROVE  AllTyped'
<1>1. CASE UNCHANGED wmVars
    BY <1>1, WindowPartsUnchanged DEF AllTyped, wmVars, process
<1> QED
    BY <1>1, XChangeTyped, ConfigureTyped, ExitTyped, ReadingTyped, ReadIconsTyped, AddingTyped, RequestTyped,
       WantedInts
    DEF WindowNext, EventLoop, Post, NoIconDirectory, WindowIsGone, NotifyDies, GetFaults

LEMMA WindowsTyped == WindowSpec => [](AllTyped /\ Asking)
<1>1. WindowInit => AllTyped /\ Asking
    BY WindowTypeStart, AskingStart
<1>2. AllTyped /\ Asking /\ [WindowNext]_wmVars => (AllTyped /\ Asking)'
    BY WindowTypeStep, AskingStep
<1> QED
    BY <1>1, <1>2, PTL DEF WindowSpec

\* WindowTypeOK holds: what the loop has read, still has to add and has published
\* are windows and images, a file that is being written is one of them, and the
\* worker that chooses was asked for an icon that has sizes.
THEOREM WindowTypes == WindowSpec => []WindowTypeOK
    BY WindowsTyped, AllTypedIsTypeOK, PTL

-----------------------------------------------------------------------------
\* WindowManager: the icons of the windows.

\* The files that iconPaths should name: all but one that the loop still writes or
\* has not pushed.
Known == {f \in DOMAIN files : place \in {"write", "push"} => f # Head(toAdd)}

\* The images of an icon that are written.
Square(i) == {f \in Members(ImagesOf(i)) : f[2] # 0}

\* iconPaths has every known file once.
PathsKnown ==
    place \notin {"down", "icons"} =>
        \A n \in IconNames : /\ Once(iconPaths[n])
                             /\ \A s \in Sizes : s \in Members(iconPaths[n]) <=> <<n, s>> \in Known

\* A file that is not whole is being written, or was when a process ended.
WholeOrTorn ==
    \A f \in DOMAIN files : files[f] = "whole" \/ f \in torn \/ (place = "write" /\ f = Head(toAdd))

\* The images of the windows that were given to addIcon have a file or get one.
AddedKnown ==
    \A k \in 1 .. added : \A f \in Square(infos[k].icon) : f \in DOMAIN files \/ f \in Members(toAdd)

\* Those of the windows that are published are known.
WindowsKnown ==
    /\ windows # <<>> => place \notin {"down", "icons"}
    /\ \A i \in DOMAIN windows : Square(windows[i].icon) \subseteq Known

IconInv == PathsKnown /\ WholeOrTorn /\ AddedKnown /\ WindowsKnown

LEMMA IconInvStart == WindowInit => IconInv
<1> SUFFICES ASSUME WindowInit
             PROVE  IconInv
    OBVIOUS
<1>1. place = "down" /\ windows = <<>> /\ files = <<>> /\ added = 0
    BY DEF WindowInit
<1>2. DOMAIN files = {} /\ DOMAIN windows = {}
    BY <1>1
<1> QED
    BY <1>1, <1>2 DEF IconInv, PathsKnown, WholeOrTorn, AddedKnown, WindowsKnown

\* A step that leaves the files, what is known of them, and the windows alone.
LEMMA IconsUnchanged ==
    ASSUME IconInv, UNCHANGED <<files, torn, iconPaths, windows, toAdd>>,
           {place, place'} \cap {"down", "icons", "write", "push"} = {},
           UNCHANGED <<infos, added>> \/ added' = 0
    PROVE  IconInv'
<1>1. Known' = Known
    BY DEF Known
<1>2. PathsKnown'
    BY <1>1 DEF IconInv, PathsKnown
<1>3. WholeOrTorn'
    BY DEF IconInv, WholeOrTorn
<1>4. AddedKnown'
    BY DEF IconInv, AddedKnown, Square, ImagesOf, CalculateIconName
<1>5. WindowsKnown'
    BY <1>1 DEF IconInv, WindowsKnown
<1> QED
    BY <1>2, <1>3, <1>4, <1>5 DEF IconInv

\* A step of the X server or of a worker.
LEMMA IconsElsewhere ==
    ASSUME IconInv, UNCHANGED <<files, torn, iconPaths, windows, toAdd, place, infos, added>>
    PROVE  IconInv'
<1>1. Known' = Known
    BY DEF Known
<1> QED
    BY <1>1 DEF IconInv, PathsKnown, WholeOrTorn, AddedKnown, WindowsKnown

\* The process ends, begins, and reads the files there are.
LEMMA IconsRestart ==
    ASSUME AllTyped, IconInv, Exit \/ Start \/ ReadIcons
    PROVE  IconInv'
<1>1. CASE Exit
  <2>1. /\ place' = "down" /\ windows' = <<>> /\ added' = 0 /\ files' = files
        /\ torn' = IF place = "write" THEN torn \cup {Head(toAdd)} ELSE torn
      BY <1>1 DEF Exit
  <2>2. WholeOrTorn'
      BY <2>1 DEF IconInv, WholeOrTorn
  <2>3. DOMAIN windows' = {}
      BY <2>1
  <2> QED
      BY <2>1, <2>2, <2>3 DEF IconInv, PathsKnown, AddedKnown, WindowsKnown
<1>2. CASE Start \/ ReadIcons
  <2>1. /\ place \in {"down", "icons"} /\ UNCHANGED <<windows, infos, added, files, torn, toAdd>>
        /\ place' \in {"icons", "list"}
      BY <1>2 DEF Start, ReadIcons, Loop
  <2>2. windows' = <<>> /\ DOMAIN windows' = {} /\ added' = 0
    <3>1. windows' = <<>>
        BY <2>1 DEF IconInv, WindowsKnown
    <3> QED
        BY <2>1, <3>1 DEF AllTyped, RoundTyped
  <2>3. WholeOrTorn'
      BY <2>1 DEF IconInv, WholeOrTorn
  <2>4. Known' = DOMAIN files
      BY <2>1 DEF Known
  <2>5. PathsKnown'
      BY <1>2, <2>4 DEF Start, ReadIcons, Loop, PathsKnown
  <2> QED
      BY <2>2, <2>3, <2>5 DEF IconInv, AddedKnown, WindowsKnown
<1> QED
    BY <1>1, <1>2

\* The next image, of the next window.
LEMMA IconsNextImage ==
    ASSUME AllTyped, IconInv, NextWindow \/ SkipImage
    PROVE  IconInv'
<1>1. /\ place = "add" /\ place' = "add" /\ UNCHANGED <<windows, infos, files, torn, iconPaths>>
    BY DEF NextWindow, SkipImage
<1>2. Known = DOMAIN files /\ Known' = DOMAIN files
    BY <1>1 DEF Known
<1>3. PathsKnown' /\ WindowsKnown'
    BY <1>1, <1>2 DEF IconInv, PathsKnown, WindowsKnown
<1>4. WholeOrTorn'
    BY <1>1 DEF IconInv, WholeOrTorn
<1>5. CASE NextWindow
  <2>1. toAdd = <<>> /\ added' = added + 1 /\ toAdd' = ImagesOf(infos[added'].icon) /\ added \in Nat
    <3>1. Len(infos) \in Nat /\ added \in 0 .. Len(infos)
        BY LenProperties DEF AllTyped, RoundTyped
    <3> QED
        BY <1>5, <3>1 DEF NextWindow
  <2>2. Members(toAdd) = {}
      BY <2>1 DEF Members
  <2>3. ASSUME NEW k \in 1 .. added', NEW f \in Square(infos[k].icon)
        PROVE  f \in DOMAIN files \/ f \in Members(toAdd')
    <3>1. CASE k = added'
        BY <2>1, <2>3, <3>1 DEF Square
    <3>2. CASE k # added'
      <4>1. k \in 1 .. added
          BY <2>1, <3>2
      <4> QED
          BY <2>2, <2>3, <4>1 DEF IconInv, AddedKnown
    <3> QED
        BY <3>1, <3>2
  <2> QED
      BY <1>1, <1>3, <1>4, <2>3 DEF IconInv, AddedKnown, Members
<1>6. CASE SkipImage
  <2>1. /\ toAdd # <<>> /\ (Head(toAdd)[2] = 0 \/ Head(toAdd) \in DOMAIN files) /\ toAdd' = Tail(toAdd) /\ added' = added
      BY <1>6 DEF SkipImage
  <2>2. Members(toAdd) = {Head(toAdd)} \cup Members(toAdd')
      BY <2>1, NextImage
  <2>3. ASSUME NEW k \in 1 .. added, NEW f \in Square(infos[k].icon)
        PROVE  f \in DOMAIN files \/ f \in Members(toAdd')
    <3>1. f[2] # 0 /\ (f \in DOMAIN files \/ f \in Members(toAdd))
        BY <2>3 DEF IconInv, AddedKnown, Square
    <3> QED
        BY <2>1, <2>2, <3>1
  <2> QED
      BY <1>1, <1>3, <1>4, <2>1, <2>3 DEF IconInv, AddedKnown, Members
<1> QED
    BY <1>5, <1>6

\* A file is made and written: it is not known yet.
LEMMA IconsWrite ==
    ASSUME AllTyped, IconInv, CreateFile \/ WriteFile
    PROVE  IconInv'
<1> DEFINE h == Head(toAdd)
<1>1. /\ UNCHANGED <<windows, infos, added, toAdd, torn, iconPaths>>
      /\ place \notin {"down", "icons"} /\ place' \notin {"down", "icons"}
    BY DEF CreateFile, WriteFile, Loop
<1>2. PICK x \in {"part", "whole"} : files' = Put(h, x) /\ (WriteFile => x = "whole")
    BY DEF CreateFile, WriteFile
<1>3. DOMAIN files' = DOMAIN files \cup {h}
    BY <1>2 DEF Put
<1>4. Known' = Known
  <2>1. CASE CreateFile
    <3>1. Known = DOMAIN files /\ h \notin DOMAIN files
        BY <2>1 DEF CreateFile, Loop, Known
    <3>2. place' = "write" /\ toAdd' = toAdd
        BY <2>1 DEF CreateFile, Loop
    <3> QED
        BY <1>3, <3>1, <3>2 DEF Known
  <2>2. CASE WriteFile
    <3>1. place = "write" /\ place' = "push" /\ toAdd' = toAdd
        BY <2>2 DEF WriteFile, Loop
    <3> QED
        BY <1>3, <3>1 DEF Known
  <2> QED
      BY <2>1, <2>2
<1>5. PathsKnown' /\ WindowsKnown'
    BY <1>1, <1>4 DEF IconInv, PathsKnown, WindowsKnown
<1>6. AddedKnown'
    BY <1>1, <1>3 DEF IconInv, AddedKnown
<1>7. WholeOrTorn'
  <2> SUFFICES ASSUME NEW f \in DOMAIN files'
               PROVE  files'[f] = "whole" \/ f \in torn \/ (place' = "write" /\ f = Head(toAdd'))
      BY <1>1 DEF WholeOrTorn
  <2>1. CASE f = h
    <3>1. files'[f] = x
        BY <1>2, <2>1 DEF Put
    <3>2. CreateFile => place' = "write" /\ toAdd' = toAdd
        BY DEF CreateFile, Loop
    <3> QED
        BY <1>2, <2>1, <3>1, <3>2
  <2>2. CASE f # h
    <3>1. f \in DOMAIN files /\ files'[f] = files[f]
        BY <1>2, <1>3, <2>2 DEF Put
    <3> QED
        BY <2>2, <3>1 DEF IconInv, WholeOrTorn
  <2> QED
      BY <2>1, <2>2
<1> QED
    BY <1>5, <1>6, <1>7 DEF IconInv

\* One more at the end of a sequence in which it was not.
LEMMA OnceMore ==
    ASSUME NEW S, NEW q \in Seq(S), NEW x \in S, Once(q), x \notin Members(q)
    PROVE  Once(Append(q, x)) /\ Members(Append(q, x)) = Members(q) \cup {x}
<1>1. /\ Append(q, x) \in Seq(S) /\ Len(Append(q, x)) = Len(q) + 1
      /\ \A i \in 1 .. Len(q) : Append(q, x)[i] = q[i]
      /\ Append(q, x)[Len(q) + 1] = x
    BY AppendProperties
<1>2. Len(q) \in Nat /\ DOMAIN q = 1 .. Len(q) /\ DOMAIN Append(q, x) = 1 .. Len(q) + 1
    BY <1>1, LenProperties
<1>3. \A i \in 1 .. Len(q) : q[i] \in Members(q)
    BY <1>2 DEF Members
<1>4. ASSUME NEW i \in 1 .. Len(q) + 1, NEW j \in 1 .. Len(q) + 1, Append(q, x)[i] = Append(q, x)[j]
      PROVE  i = j
  <2>1. CASE i \in 1 .. Len(q) /\ j \in 1 .. Len(q)
      BY <1>1, <1>2, <1>4, <2>1 DEF Once
  <2>2. CASE i = Len(q) + 1 /\ j \in 1 .. Len(q)
      BY <1>1, <1>3, <1>4, <2>2
  <2>3. CASE i \in 1 .. Len(q) /\ j = Len(q) + 1
      BY <1>1, <1>3, <1>4, <2>3
  <2>4. CASE i = Len(q) + 1 /\ j = Len(q) + 1
      BY <2>4
  <2>5. (i \in 1 .. Len(q) \/ i = Len(q) + 1) /\ (j \in 1 .. Len(q) \/ j = Len(q) + 1)
      BY <1>2
  <2> QED
      BY <2>1, <2>2, <2>3, <2>4, <2>5
<1>5. Once(Append(q, x))
    BY <1>2, <1>4 DEF Once
<1>6. \A y : y \in Members(Append(q, x)) <=> y \in Members(q) \/ y = x
  <2> SUFFICES ASSUME NEW y
               PROVE  y \in Members(Append(q, x)) <=> y \in Members(q) \/ y = x
      OBVIOUS
  <2>1. ASSUME NEW i \in 1 .. Len(q) + 1, y = Append(q, x)[i]
        PROVE  y \in Members(q) \/ y = x
    <3>1. CASE i \in 1 .. Len(q)
        BY <1>1, <1>3, <2>1, <3>1
    <3>2. CASE i = Len(q) + 1
        BY <1>1, <2>1, <3>2
    <3> QED
        BY <1>2, <3>1, <3>2
  <2>2. ASSUME NEW i \in 1 .. Len(q), y = q[i]
        PROVE  y \in Members(Append(q, x))
    <3>1. i \in 1 .. Len(q) + 1 /\ Append(q, x)[i] = y
        BY <1>1, <1>2, <2>2
    <3> QED
        BY <1>2, <3>1 DEF Members
  <2>3. Len(q) + 1 \in 1 .. Len(q) + 1
      BY <1>2
  <2>4. x \in Members(Append(q, x))
      BY <1>1, <1>2, <2>3 DEF Members
  <2> QED
      BY <1>2, <2>1, <2>2, <2>4 DEF Members
<1> QED
    BY <1>5, <1>6

\* It becomes known.
LEMMA IconsPush ==
    ASSUME AllTyped, IconInv, PushBack
    PROVE  IconInv'
<1> DEFINE h == Head(toAdd)
           n == h[1]
           s == h[2]
<1>1. /\ UNCHANGED <<windows, infos, added, torn, files>> /\ place = "push" /\ place' = "add"
      /\ toAdd' = Tail(toAdd) /\ toAdd # <<>> /\ h \in DOMAIN files
      /\ iconPaths' = [iconPaths EXCEPT ![n] = Append(iconPaths[n], s)]
    BY DEF PushBack, Loop, AllTyped, FilesTyped
<1>2. n \in IconNames /\ s \in Sizes /\ h = <<n, s>>
    BY <1>1 DEF AllTyped, FilesTyped, Files
<1>3. Known = DOMAIN files \ {h} /\ Known' = DOMAIN files
    BY <1>1 DEF Known
<1>4. PathsKnown'
  <2>1. iconPaths \in [IconNames -> Seq(Sizes)]
      BY DEF AllTyped, PathsTyped
  <2>2. \A m \in IconNames : /\ Once(iconPaths[m])
                             /\ \A t \in Sizes : t \in Members(iconPaths[m]) <=> <<m, t>> \in DOMAIN files \ {h}
      BY <1>1, <1>3 DEF IconInv, PathsKnown
  <2>3. s \notin Members(iconPaths[n])
      BY <1>2, <2>2
  <2>4. Once(iconPaths'[n]) /\ Members(iconPaths'[n]) = Members(iconPaths[n]) \cup {s}
    <3>1. iconPaths[n] \in Seq(Sizes) /\ Once(iconPaths[n]) /\ iconPaths'[n] = Append(iconPaths[n], s)
        BY <1>1, <1>2, <2>1, <2>2
    <3> QED
        BY <1>2, <2>3, <3>1, OnceMore
  <2>5. ASSUME NEW m \in IconNames
        PROVE  Once(iconPaths'[m]) /\ \A t \in Sizes : t \in Members(iconPaths'[m]) <=> <<m, t>> \in DOMAIN files
    <3>1. CASE m = n
      <4>1. \A t \in Sizes : t \in Members(iconPaths'[n]) <=> t \in Members(iconPaths[n]) \/ t = s
          BY <2>4
      <4>2. \A t \in Sizes : t \in Members(iconPaths[n]) <=> <<n, t>> \in DOMAIN files \ {h}
          BY <1>2, <2>2
      <4>3. \A t \in Sizes : t # s => <<n, t>> # h
          BY <1>2
      <4>4. \A t \in Sizes : t \in Members(iconPaths'[n]) <=> <<n, t>> \in DOMAIN files
        <5> TAKE t \in Sizes
        <5>1. CASE t = s
            BY <1>1, <1>2, <4>1, <5>1
        <5>2. CASE t # s
            BY <4>1, <4>2, <4>3, <5>2
        <5> QED
            BY <5>1, <5>2
      <4> QED
          BY <2>4, <3>1, <4>4
    <3>2. CASE m # n
      <4>1. iconPaths'[m] = iconPaths[m]
          BY <1>1, <2>1, <3>2
      <4>2. \A t \in Sizes : <<m, t>> # h
          BY <1>2, <3>2
      <4> QED
          BY <2>2, <4>1, <4>2
    <3> QED
        BY <3>1, <3>2
  <2> QED
      BY <1>3, <2>5 DEF PathsKnown
<1>5. WindowsKnown'
    BY <1>1, <1>3 DEF IconInv, WindowsKnown
<1>6. WholeOrTorn'
    BY <1>1 DEF IconInv, WholeOrTorn
<1>7. Members(toAdd) = {h} \cup Members(toAdd')
    BY <1>1, NextImage
<1>8. ASSUME NEW k \in 1 .. added, NEW f \in Square(infos[k].icon)
      PROVE  f \in DOMAIN files \/ f \in Members(toAdd')
  <2>1. f \in DOMAIN files \/ f \in Members(toAdd)
      BY <1>8 DEF IconInv, AddedKnown
  <2> QED
      BY <1>1, <1>7, <2>1
<1> QED
    BY <1>1, <1>4, <1>5, <1>6, <1>8 DEF IconInv, AddedKnown, Members

\* All images of all windows have been added.
LEMMA IconsPublish ==
    ASSUME AllTyped, IconInv, Publish
    PROVE  IconInv'
<1>1. /\ place = "add" /\ place' = "notify" /\ toAdd = <<>> /\ added = Len(infos)
      /\ windows' = infos /\ added' = 0 /\ UNCHANGED <<toAdd, files, torn, iconPaths>>
    BY DEF Publish
<1>2. Known = DOMAIN files /\ Known' = DOMAIN files
    BY <1>1 DEF Known
<1>3. DOMAIN infos = 1 .. added /\ Members(toAdd) = {}
  <2>1. DOMAIN infos = 1 .. added
      BY <1>1, LenProperties DEF AllTyped, RoundTyped
  <2> QED
      BY <1>1, <2>1 DEF Members
<1>4. WindowsKnown'
  <2>1. \A i \in DOMAIN infos : Square(infos[i].icon) \subseteq DOMAIN files
      BY <1>3 DEF IconInv, AddedKnown
  <2> QED
      BY <1>1, <1>2, <2>1 DEF WindowsKnown
<1>5. PathsKnown'
    BY <1>1, <1>2 DEF IconInv, PathsKnown
<1>6. WholeOrTorn'
    BY <1>1 DEF IconInv, WholeOrTorn
<1>7. AddedKnown'
    BY <1>1 DEF AddedKnown
<1> QED
    BY <1>4, <1>5, <1>6, <1>7 DEF IconInv

LEMMA IconInvStep ==
    ASSUME AllTyped, IconInv, [WindowNext]_wmVars
    PROVE  IconInv'
<1>1. ASSUME NEW s, NEW l, Changes(s, l)
      PROVE  IconInv'
    BY <1>1, IconsElsewhere DEF Changes, process
<1>2. ASSUME NEW n \in IconNames, NEW size, GetIcon(n, size)
      PROVE  IconInv'
    BY <1>2, IconsElsewhere DEF GetIcon, process
<1>3. CASE ChooseIcon \/ UNCHANGED wmVars
    BY <1>3, IconsElsewhere DEF ChooseIcon, wmVars, process
<1>4. CASE ListWindows \/ ReadWindow
  <2>1. /\ UNCHANGED <<files, torn, iconPaths, windows, toAdd, added>>
        /\ place \in {"list", "read"} /\ place' \in {"list", "read"}
      BY <1>4 DEF ListWindows, ReadWindow, Loop
  <2>2. added' = 0
      BY <2>1 DEF AllTyped, RoundTyped
  <2> QED
      BY <2>1, <2>2, IconsUnchanged
<1>5. CASE ReadAll \/ Notified \/ Select \/ NextEvent
  <2>1. /\ UNCHANGED <<files, torn, iconPaths, windows, toAdd, infos, added>>
        /\ place \in {"read", "notify", "select", "next"} /\ place' \in {"add", "select", "next", "list"}
      BY <1>5 DEF ReadAll, Notified, Select, NextEvent, Loop
  <2> QED
      BY <2>1, IconsUnchanged
<1>6. Exit \/ Start \/ ReadIcons \/ NextWindow \/ SkipImage \/ CreateFile \/ WriteFile \/ PushBack \/ Publish => IconInv'
    BY IconsRestart, IconsNextImage, IconsWrite, IconsPush, IconsPublish
<1> QED
    BY <1>1, <1>2, <1>3, <1>4, <1>5, <1>6
    DEF WindowNext, EventLoop, XChange, Configure, Post, NoIconDirectory, WindowIsGone, NotifyDies, GetFaults

\* IconsBeforeWindows: at every moment, also after a crash and a restart, iconPaths
\* names every square image of the windows that are published, once, and its file is
\* whole or was being written when a process ended.
THEOREM WindowIconsCorrect == WindowSpec => []IconsBeforeWindows
<1>1. AllTyped /\ IconInv => IconsBeforeWindows
  <2> SUFFICES ASSUME AllTyped, IconInv, NEW i \in DOMAIN windows, NEW s \in Members(Images[windows[i].icon]) \ {0}
               PROVE  LET n == Hash[windows[i].icon]
                      IN  /\ Cardinality({k \in DOMAIN iconPaths[n] : iconPaths[n][k] = s}) = 1
                          /\ files[<<n, s>>] = "whole" \/ <<n, s>> \in torn
      BY DEF IconsBeforeWindows, CalculateIconName
  <2> DEFINE a == windows[i].icon
             n == Hash[a]
             q == iconPaths[n]
  <2>1. a \in WindowIcons /\ n \in IconNames /\ s \in Sizes
    <3>1. windows[i] \in Infos
        BY LenProperties, ElementOfSeq DEF AllTyped, RoundTyped
    <3>2. a \in WindowIcons
        BY <3>1 DEF Infos
    <3> QED
        BY <3>2 DEF IconNames, Sizes
  <2>2. <<n, s>> \in Square(a)
    <3>1. PICK k \in DOMAIN Images[a] : s = Images[a][k]
        BY DEF Members
    <3>2. ImagesOf(a)[k] = <<n, s>> /\ k \in DOMAIN ImagesOf(a)
        BY <3>1 DEF ImagesOf, CalculateIconName
    <3> QED
        BY <3>2 DEF Square, Members
  <2>3. <<n, s>> \in Known /\ place \notin {"down", "icons"}
    <3>1. windows # <<>>
        OBVIOUS
    <3> QED
        BY <2>2, <3>1 DEF IconInv, WindowsKnown
  <2>4. Once(q) /\ s \in Members(q)
      BY <2>1, <2>3 DEF IconInv, PathsKnown
  <2>5. PICK k \in DOMAIN q : q[k] = s
      BY <2>4 DEF Members
  <2>6. {j \in DOMAIN q : q[j] = s} = {k}
      BY <2>4, <2>5 DEF Once
  <2>7. Cardinality({j \in DOMAIN q : q[j] = s}) = 1
      BY <2>6, FS_Singleton
  <2>8. files[<<n, s>>] = "whole" \/ <<n, s>> \in torn
      BY <2>3 DEF IconInv, WholeOrTorn, Known
  <2> QED
      BY <2>7, <2>8
<1>2. WindowInit => IconInv
    BY IconInvStart
<1>3. AllTyped /\ IconInv /\ [WindowNext]_wmVars => IconInv'
    BY IconInvStep
<1> QED
    BY <1>1, <1>2, <1>3, WindowsTyped, PTL DEF WindowSpec

-----------------------------------------------------------------------------
\* WindowManager: the answer to a request.

\* For sizes of images, the distance to an int is what it is to the size asked for,
\* and to a negative one it falls from the smallest to the largest.
LEMMA DistanceToInt ==
    ASSUME NEW wanted \in -Half .. Half - 1, NEW s \in Sizes
    PROVE  /\ wanted >= 0 => SizeDistance(s, wanted) = IF s < wanted THEN wanted - s ELSE s - wanted
           /\ wanted < 0 => SizeDistance(s, wanted) = ToUnsigned(wanted) - s
<1>1. Half \in Nat /\ s \in Nat
    BY WindowAssumption, ImagesTyped
<1>2. CASE wanted >= 0
  <2>1. ToUnsigned(wanted) = wanted
      BY <1>1, <1>2 DEF ToUnsigned
  <2>2. wanted \in Int /\ ~ wanted < 0
      BY <1>1, <1>2
  <2> QED
      BY <1>1, <2>1, <2>2 DEF SizeDistance
<1>3. CASE wanted < 0
  <2>1. wanted \in -Half .. -1
      BY <1>1, <1>3
  <2>2. Wrap - Half <= ToUnsigned(wanted) /\ ToUnsigned(wanted) \in Nat
      BY <2>1, IntIsUnsigned
  <2>3. s < Wrap - Half /\ Wrap \in Nat
    <3>1. PICK i \in WindowIcons : s \in Members(Images[i])
        BY DEF Sizes
    <3>2. PICK k \in DOMAIN Images[i] : s = Images[i][k]
        BY <3>1 DEF Members
    <3> QED
        BY <3>2, WindowAssumption
  <2>4. s < ToUnsigned(wanted)
      BY <1>1, <2>2, <2>3
  <2>5. SizeDistance(s, wanted) = ToUnsigned(wanted) - s
      BY <1>1, <2>2, <2>4 DEF SizeDistance
  <2>6. wanted \in Int /\ ~ wanted >= 0
      BY <1>1, <1>3
  <2> QED
      BY <2>5, <2>6
<1>4. wanted >= 0 \/ wanted < 0
    BY <1>1
<1> QED
    BY <1>2, <1>3, <1>4

\* ClosestIconIsSent: whatever int the size asked for is, the loop over the sizes in
\* doGET ends at one of them, and no other is closer; at the largest one if the size
\* is negative.
THEOREM ClosestSent == WindowSpec => ClosestIconIsSent
<1> DEFINE gap(s) == IF s < asked.size THEN asked.size - s ELSE s - asked.size
           Sent ==
        sentIcon' \notin {sentIcon, NoIcon, AnyIcon} =>
            /\ sentIcon'.size \in Members(iconPaths[asked.name])
            /\ asked.size \in 0 .. Half - 1 =>
                  \A s \in Members(iconPaths[asked.name]) : gap(sentIcon'.size) <= gap(s)
            /\ asked.size \in -Half .. -1 =>
                  \A s \in Members(iconPaths[asked.name]) : s <= sentIcon'.size
<1>1. ASSUME AllTyped, Asking, [WindowNext]_wmVars
      PROVE  [Sent]_wmVars
  <2>1. CASE ChooseIcon /\ ~disturbed /\ sentIcon' # NoIcon
    <3> DEFINE q == iconPaths[asked.name]
               wanted == ToInt(asked.size)
               c == Closest(q, wanted)
    <3>1. asked.name \in IconNames /\ asked.size \in Int /\ q # <<>>
        BY <1>1, <2>1 DEF ChooseIcon, Asking
    <3>2. sentIcon'.size = c
        BY <2>1 DEF ChooseIcon
    <3>3. wanted \in -Half .. Half - 1 /\ q \in Seq(Nat)
        BY <1>1, <3>1, PathsInNat, IntIsUnsigned DEF AllTyped
    <3>4. \A s \in Members(q) : s \in Sizes /\ s \in Nat
      <4>1. q \in Seq(Sizes)
          BY <1>1, <3>1 DEF AllTyped, PathsTyped
      <4>2. DOMAIN q = 1 .. Len(q)
          BY <4>1, LenProperties
      <4>3. \A s \in Members(q) : s \in Sizes
          BY <4>1, <4>2, ElementOfSeq DEF Members
      <4> QED
          BY <4>3, ImagesTyped
    <3>5. asked.size \in -Half .. Half - 1 => wanted = asked.size
        BY IntIsUnsigned
    <3> HIDE DEF q, c, wanted
    <3>6. c \in Members(q) /\ \A s \in Members(q) : SizeDistance(c, wanted) <= SizeDistance(s, wanted)
        BY <3>1, <3>3, ClosestIs DEF c
    <3>7. Half \in Nat
        BY WindowAssumption
    <3>8. ASSUME asked.size \in 0 .. Half - 1, NEW s \in Members(q)
          PROVE  gap(c) <= gap(s)
      <4>1. wanted = asked.size /\ wanted >= 0
          BY <3>1, <3>5, <3>7, <3>8
      <4>2. SizeDistance(s, wanted) = gap(s) /\ SizeDistance(c, wanted) = gap(c)
          BY <3>3, <3>4, <3>6, <4>1, DistanceToInt
      <4> HIDE DEF gap
      <4> QED
          BY <3>6, <4>2
    <3>9. ASSUME asked.size \in -Half .. -1, NEW s \in Members(q)
          PROVE  s <= c
      <4>1. wanted = asked.size /\ wanted < 0
          BY <3>1, <3>5, <3>7, <3>9
      <4>2. /\ SizeDistance(s, wanted) = ToUnsigned(wanted) - s
            /\ SizeDistance(c, wanted) = ToUnsigned(wanted) - c
          BY <3>3, <3>4, <3>6, <4>1, DistanceToInt
      <4>3. ToUnsigned(wanted) - c <= ToUnsigned(wanted) - s
          BY <3>6, <4>2
      <4>4. ToUnsigned(wanted) \in Nat /\ s \in Nat /\ c \in Nat
          BY <3>3, <3>4, <3>6, IntIsUnsigned
      <4> QED
          BY <4>3, <4>4
    <3> HIDE DEF gap
    <3>10. Sent
        BY <3>2, <3>6, <3>8, <3>9 DEF q
    <3> QED
        BY <3>10
  <2>2. CASE ~ChooseIcon \/ disturbed \/ sentIcon' = NoIcon
    <3>1. sentIcon' \in {sentIcon, NoIcon, AnyIcon}
        BY <1>1, <2>2
        DEF WindowNext, EventLoop, XChange, Configure, Changes, Start, NoIconDirectory, Exit, ReadIcons, ListWindows,
           ReadWindow, WindowIsGone, ReadAll, NextWindow, SkipImage, CreateFile, WriteFile, PushBack, Publish,
           Notified, NotifyDies, Select, NextEvent,
           Post, GetIcon, GetFaults, ChooseIcon, worker, wmVars
    <3> QED
        BY <3>1
  <2> QED
      BY <2>1, <2>2
<1>2. [][Sent]_wmVars => ClosestIconIsSent
    BY PTL DEF ClosestIconIsSent
<1> QED
    BY <1>1, <1>2, WindowsTyped, PTL DEF WindowSpec

=============================================================================
