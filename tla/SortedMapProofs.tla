-------------------------- MODULE SortedMapProofs --------------------------
(***************************************************************************)
(* Theorems about SortedMap, for any set of integers as keys, any values    *)
(* and any length of the vector.                                            *)
(***************************************************************************)
EXTENDS SortedMap, SequenceTheorems, FiniteSetTheorems, FunctionTheorems, WellFoundedInduction, TLAPS

-----------------------------------------------------------------------------
\* Inserting before the 0-based position i shifts what is from there on.
LEMMA InsertAtEntries ==
    ASSUME NEW S, NEW s \in Seq(S), NEW i \in 0 .. Len(s), NEW e \in S
    PROVE  /\ InsertAt(s, i, e) \in Seq(S)
           /\ Len(InsertAt(s, i, e)) = Len(s) + 1
           /\ \A j \in 1 .. Len(s) + 1 :
                 InsertAt(s, i, e)[j] = IF j <= i THEN s[j] ELSE IF j = i + 1 THEN e ELSE s[j - 1]
<1> DEFINE a == SubSeq(s, 1, i)
           b == <<e>>
           d == SubSeq(s, i + 1, Len(s))
<1>1. Len(s) \in Nat /\ \A j \in 1 .. Len(s) : s[j] \in S
    BY LenProperties, ElementOfSeq
<1>2. a \in Seq(S) /\ Len(a) = i /\ \A j \in 1 .. i : a[j] = s[j]
    BY <1>1, SubSeqProperties
<1>3. d \in Seq(S) /\ Len(d) = Len(s) - i /\ \A j \in 1 .. Len(s) - i : d[j] = s[i + j]
    BY <1>1, SubSeqProperties
<1>4. b \in Seq(S) /\ Len(b) = 1 /\ b[1] = e
    OBVIOUS
<1> HIDE DEF a, b, d
<1> DEFINE ab == a \o b
<1>5. /\ ab \in Seq(S) /\ Len(ab) = i + 1
      /\ \A j \in 1 .. i + 1 : ab[j] = IF j <= i THEN s[j] ELSE e
  <2>1. /\ ab \in Seq(S) /\ Len(ab) = Len(a) + Len(b)
        /\ \A j \in 1 .. Len(a) + Len(b) : ab[j] = IF j <= Len(a) THEN a[j] ELSE b[j - Len(a)]
      BY <1>2, <1>4, ConcatProperties
  <2>2. \A j \in 1 .. i + 1 : j > i => j - i = 1
      BY <1>1
  <2> QED
      BY <1>1, <1>2, <1>4, <2>1, <2>2
<1> HIDE DEF ab
<1> DEFINE abd == ab \o d
<1>6. /\ abd \in Seq(S) /\ Len(abd) = Len(ab) + Len(d)
      /\ \A j \in 1 .. Len(ab) + Len(d) : abd[j] = IF j <= Len(ab) THEN ab[j] ELSE d[j - Len(ab)]
    BY <1>3, <1>5, ConcatProperties
<1>7. InsertAt(s, i, e) = abd
    BY DEF InsertAt, a, b, d, ab
<1> HIDE DEF abd
<1>8. \A j \in 1 .. Len(s) + 1 : j > i + 1 => d[j - (i + 1)] = s[j - 1]
    BY <1>1, <1>3
<1>9. abd \in Seq(S) /\ Len(abd) = Len(s) + 1
    BY <1>1, <1>3, <1>5, <1>6
<1>10. ASSUME NEW j \in 1 .. Len(s) + 1
       PROVE  abd[j] = IF j <= i THEN s[j] ELSE IF j = i + 1 THEN e ELSE s[j - 1]
  <2>1. j \in Int /\ i \in Int /\ Len(ab) = i + 1 /\ j \in 1 .. Len(ab) + Len(d)
      BY <1>1, <1>3, <1>5
  <2>2. abd[j] = IF j <= i + 1 THEN ab[j] ELSE d[j - (i + 1)]
      BY <1>6, <2>1
  <2>3. j <= i + 1 => ab[j] = IF j <= i THEN s[j] ELSE e
      BY <1>5, <2>1
  <2>4. j > i + 1 => d[j - (i + 1)] = s[j - 1]
      BY <1>8
  <2> QED
      BY <2>1, <2>2, <2>3, <2>4
<1> QED
    BY <1>7, <1>9, <1>10

\* Erasing the 0-based position i shifts what is behind it.
LEMMA EraseAtEntries ==
    ASSUME NEW S, NEW s \in Seq(S), NEW i \in 0 .. Len(s) - 1
    PROVE  /\ EraseAt(s, i) \in Seq(S)
           /\ Len(EraseAt(s, i)) = Len(s) - 1
           /\ \A j \in 1 .. Len(s) - 1 : EraseAt(s, i)[j] = IF j <= i THEN s[j] ELSE s[j + 1]
<1> DEFINE a == SubSeq(s, 1, i)
           d == SubSeq(s, i + 2, Len(s))
<1>1. Len(s) \in Nat /\ \A j \in 1 .. Len(s) : s[j] \in S
    BY LenProperties, ElementOfSeq
<1>2. a \in Seq(S) /\ Len(a) = i /\ \A j \in 1 .. i : a[j] = s[j]
    BY <1>1, SubSeqProperties
<1>3. d \in Seq(S) /\ Len(d) = Len(s) - i - 1 /\ \A j \in 1 .. Len(s) - i - 1 : d[j] = s[i + 1 + j]
    BY <1>1, SubSeqProperties
<1> HIDE DEF a, d
<1>4. /\ a \o d \in Seq(S) /\ Len(a \o d) = Len(s) - 1
      /\ \A j \in 1 .. Len(s) - 1 : (a \o d)[j] = IF j <= i THEN a[j] ELSE d[j - i]
    BY <1>1, <1>2, <1>3, ConcatProperties
<1>5. EraseAt(s, i) = a \o d
    BY DEF EraseAt, a, d
<1>6. \A j \in 1 .. Len(s) - 1 : j > i => d[j - i] = s[j + 1]
    BY <1>1, <1>3
<1> QED
    BY <1>1, <1>2, <1>4, <1>5, <1>6

-----------------------------------------------------------------------------
Ascends(s) == \A i, j \in 1 .. Len(s) : i < j => s[i].key < s[j].key

\* The loop of search: what is at lo and below is smaller than the key, what is
\* at hi and above is greater.
SearchInv ==
    pc = "search" =>
        /\ -1 <= lo /\ lo < hi /\ hi <= Size
        /\ \A i \in 1 .. lo + 1 : list[i].key < op.key
        /\ \A i \in hi + 1 .. Size : list[i].key > op.key
        /\ ~found

\* What search returns, for the entry at hi when there is one.
FoundInv ==
    pc = "found" =>
        /\ 0 <= hi /\ hi <= Size
        /\ \A i \in 1 .. hi : list[i].key < op.key
        /\ \A i \in hi + 1 .. Size : list[i].key >= op.key
        /\ found => hi < Size /\ list[hi + 1].key = op.key
        /\ ~found => \A i \in hi + 1 .. Size : list[i].key > op.key

\* The loop of endInsert: the entries kept so far ascend, those to come are in
\* order and none is smaller than the last one kept.
CompactInv ==
    pc = "compact" =>
        /\ 0 <= to /\ to < from /\ from <= Size
        /\ \A i, j \in 1 .. to + 1 : i < j => list[i].key < list[j].key
        /\ \A i, j \in from + 1 .. Size : i < j => list[i].key <= list[j].key
        /\ \A i \in from + 1 .. Size : list[to + 1].key <= list[i].key

IInv ==
    /\ TypeOK
    /\ inserting => pc = "idle"
    /\ ~inserting /\ pc # "compact" => Ascends(list)
    /\ SearchInv
    /\ FoundInv
    /\ CompactInv

\* The facts about the vector and the operation that every step needs.
LEMMA Facts ==
    ASSUME TypeOK
    PROVE  /\ Size \in Nat
           /\ DOMAIN list = 1 .. Size
           /\ list \in Seq(Entry)
           /\ \A i \in 1 .. Size : list[i] \in Entry /\ list[i].key \in Int
           /\ pc \in {"search", "found"} => op \in Op /\ op.key \in Int
           /\ lo \in Int /\ hi \in Int /\ to \in Nat /\ from \in Nat
<1>1. list \in Seq(Entry) /\ lo \in Int /\ hi \in Int /\ to \in Nat /\ from \in Nat
    BY DEF TypeOK
<1>2. Size \in Nat /\ DOMAIN list = 1 .. Size /\ \A i \in 1 .. Size : list[i] \in Entry
    BY <1>1, LenProperties, ElementOfSeq DEF Size
<1>3. \A e \in Entry : e.key \in Int
    BY SortedMapAssumption DEF Entry
<1>4. ASSUME pc \in {"search", "found"}
      PROVE  op \in Op /\ op.key \in Int
    BY <1>4, SortedMapAssumption DEF TypeOK, Op
<1> QED
    BY <1>1, <1>2, <1>3, <1>4

\* The map starts empty and idle.
LEMMA InitIInv == Init => IInv
<1> SUFFICES ASSUME Init
             PROVE  IInv
    OBVIOUS
<1>1. NoOp \notin Op
    BY DEF NoOp, Op
<1>2. TypeOK
  <2>1. op \in Op \cup {NoOp} /\ op \notin Op /\ pc = "idle"
      BY <1>1 DEF Init
  <2>2. list \in Seq(Entry)
      BY EmptySeq DEF Init
  <2>3. inserting \in BOOLEAN /\ found \in BOOLEAN
      BY DEF Init
  <2> QED
      BY <2>1, <2>2, <2>3 DEF Init, TypeOK
<1> QED
    BY <1>2 DEF Init, IInv, Ascends, SearchInv, FoundInv, CompactInv

LEMMA SearchStep ==
    ASSUME IInv, (\E o \in Op : Call(o)) \/ Probe \/ Miss
    PROVE  IInv'
<1> USE DEF IInv
<1>f. /\ Size \in Nat /\ lo \in Int /\ hi \in Int
      /\ \A i \in 1 .. Size : list[i].key \in Int
      /\ pc = "search" => op \in Op /\ op.key \in Int
    BY Facts
<1>1. ASSUME NEW o \in Op, Call(o)
      PROVE  IInv'
  <2>1. TypeOK'
    <3>1. /\ op' = o /\ lo' = -1 /\ hi' = Size /\ found' = FALSE /\ pc' = "search"
          /\ UNCHANGED <<list, inserting, to, from, answer>>
        BY <1>1 DEF Call, compaction
    <3>2. op' \in Op \cup {NoOp} /\ (op' \in Op <=> pc' \in {"search", "found"})
        BY <3>1
    <3>3. found' \in BOOLEAN
        BY <3>1
    <3>4. lo' \in Int /\ hi' \in Int
        BY <1>f, <3>1
    <3> QED
        BY <3>1, <3>2, <3>3, <3>4 DEF TypeOK
  <2>2. SearchInv'
      BY <1>1, <1>f DEF Call, SearchInv, Size
  <2> QED
      BY <1>1, <2>1, <2>2 DEF Call, FoundInv, CompactInv, Ascends
<1>2. CASE Probe
  <2> DEFINE mid == Mid
  <2>1. /\ mid \in Int /\ lo < mid /\ mid < hi /\ 0 <= mid /\ mid < Size
        /\ pc = "search" /\ Ascends(list) /\ ~inserting
        /\ list[mid + 1].key \in Int /\ op.key \in Int
      BY <1>2, <1>f DEF Probe, Mid, SearchInv
  <2> HIDE DEF mid
  <2>2. /\ UNCHANGED <<list, inserting, op, compaction, answer>>
        /\ \/ /\ op.key = list[mid + 1].key
              /\ found' = TRUE /\ hi' = mid /\ pc' = "found" /\ lo' = lo
           \/ op.key > list[mid + 1].key /\ lo' = mid /\ UNCHANGED <<hi, found, pc>>
           \/ op.key < list[mid + 1].key /\ hi' = mid /\ UNCHANGED <<lo, found, pc>>
      BY <1>2 DEF Probe, Hit, Right, Left, Key, mid
  <2>3. TypeOK'
      BY <2>1, <2>2 DEF TypeOK, compaction
  <2>4. \A i \in 1 .. Size : /\ i < mid + 1 => list[i].key < list[mid + 1].key
                             /\ i > mid + 1 => list[i].key > list[mid + 1].key
      BY <2>1, <1>f DEF Ascends, Size
  <2>5. SearchInv'
    <3>1. UNCHANGED <<list, op, Size>>
        BY <2>2 DEF Size
    <3>2. /\ -1 <= lo /\ lo < hi /\ hi <= Size /\ ~found
          /\ \A i \in 1 .. lo + 1 : list[i].key < op.key
          /\ \A i \in hi + 1 .. Size : list[i].key > op.key
        BY <2>1 DEF SearchInv
    <3>3. CASE op.key > list[mid + 1].key /\ lo' = mid /\ UNCHANGED <<hi, found, pc>>
      <4>1. \A i \in 1 .. mid + 1 : list[i].key < op.key
          BY <3>3, <2>1, <2>4, <1>f
      <4> QED
          BY <2>1, <3>1, <3>2, <3>3, <4>1, <1>f DEF SearchInv
    <3>4. CASE op.key < list[mid + 1].key /\ hi' = mid /\ UNCHANGED <<lo, found, pc>>
      <4>1. \A i \in mid + 1 .. Size : list[i].key > op.key
          BY <3>4, <2>1, <2>4, <1>f
      <4> QED
          BY <2>1, <3>1, <3>2, <3>4, <4>1, <1>f DEF SearchInv
    <3>5. CASE pc' = "found"
        BY <3>5 DEF SearchInv
    <3> QED
        BY <2>2, <3>3, <3>4, <3>5
  <2>6. FoundInv'
      BY <2>1, <2>2, <2>4, <1>f DEF FoundInv, Size
  <2> QED
      BY <2>1, <2>2, <2>3, <2>5, <2>6 DEF CompactInv, Ascends
<1>3. CASE Miss
  <2>1. TypeOK'
      BY <1>3 DEF Miss, TypeOK, search, compaction
  <2>2. lo = hi - 1
      BY <1>3, <1>f DEF Miss, SearchInv
  <2>3. FoundInv'
      BY <1>3, <2>2, <1>f DEF Miss, SearchInv, FoundInv, Size, search
  <2> QED
      BY <1>3, <2>1, <2>3 DEF Miss, SearchInv, CompactInv, Ascends, search
<1> QED
    BY <1>1, <1>2, <1>3

\* What an operation does with the position found keeps the order.
LEMMA FinishStep ==
    ASSUME IInv, Finish
    PROVE  IInv'
<1> USE DEF IInv
<1>1. /\ Size \in Nat /\ Size = Len(list) /\ hi \in Int /\ list \in Seq(Entry)
      /\ \A i \in 1 .. Size : list[i] \in Entry /\ list[i].key \in Int
      /\ op \in Op /\ op.key \in Int /\ pc = "found"
    BY Facts DEF Finish, Size
<1>2. /\ 0 <= hi /\ hi <= Size
      /\ \A i \in 1 .. hi : list[i].key < op.key
      /\ found => hi < Size /\ list[hi + 1].key = op.key
      /\ ~found => \A i \in hi + 1 .. Size : list[i].key > op.key
      /\ Ascends(list) /\ ~inserting
    BY <1>1 DEF FoundInv
<1>3. list' \in Seq(Entry) /\ Ascends(list') /\ answer' \in Values \cup {Nothing}
  <2>1. CASE UNCHANGED list /\ answer' \in Values \cup {Nothing}
      BY <1>1, <1>2, <2>1
  <2>2. \A i \in 1 .. Size : list[i].value \in Values
      BY <1>1 DEF Entry
  <2>3. CASE Find
      BY <1>1, <1>2, <2>1, <2>2, <2>3 DEF Find
  <2>4. CASE Assign
    <3> DEFINE e == [key |-> op.key, value |-> op.value]
    <3>1. e \in Entry /\ e.key = op.key /\ op.value \in Values
        BY <1>1, <2>4 DEF Assign, Op, Entry
    <3>2. CASE found
      <4>1. hi + 1 \in 1 .. Len(list) /\ list[hi + 1] \in Entry
          BY <1>1, <1>2, <3>2
      <4> DEFINE n == [list[hi + 1] EXCEPT !.value = op.value]
      <4>2. n \in Entry /\ n.key = list[hi + 1].key
          BY <3>1, <4>1 DEF Entry
      <4>3. list' = [list EXCEPT ![hi + 1] = n]
          BY <2>4, <3>2 DEF Assign
      <4> HIDE DEF n
      <4>4. /\ list' \in Seq(Entry) /\ Len(list') = Len(list)
            /\ \A j \in 1 .. Len(list) : list'[j].key = list[j].key
        <5>1. list \in Seq(Entry) /\ hi + 1 \in 1 .. Len(list) /\ n \in Entry
            BY <1>1, <4>1, <4>2
        <5>2. /\ list' \in Seq(Entry) /\ Len(list') = Len(list)
              /\ \A j \in 1 .. Len(list) : list'[j] = IF j = hi + 1 THEN n ELSE list[j]
            BY <4>3, <5>1, ExceptSeq
        <5> QED
            BY <4>2, <5>2
      <4> QED
          BY <1>2, <2>4, <4>4 DEF Ascends, Assign, TypeOK
    <3>3. CASE ~found
      <4>1. hi \in 0 .. Len(list) /\ Len(list) \in Nat
          BY <1>1, <1>2
      <4>2. list' = InsertAt(list, hi, e)
          BY <2>4, <3>3 DEF Assign
      <4> HIDE DEF e
      <4>3. /\ list' \in Seq(Entry) /\ Len(list') = Len(list) + 1
            /\ \A j \in 1 .. Len(list) + 1 :
                  list'[j] = IF j <= hi THEN list[j] ELSE IF j = hi + 1 THEN e ELSE list[j - 1]
        <5>1. list \in Seq(Entry) /\ e \in Entry
            BY <1>1, <3>1
        <5> DEFINE t == InsertAt(list, hi, e)
        <5>2. /\ t \in Seq(Entry) /\ Len(t) = Len(list) + 1
              /\ \A j \in 1 .. Len(list) + 1 :
                    t[j] = IF j <= hi THEN list[j] ELSE IF j = hi + 1 THEN e ELSE list[j - 1]
            BY <4>1, <5>1, InsertAtEntries
        <5>3. list' = t
            BY <4>2
        <5> HIDE DEF t
        <5> QED
            BY <5>2, <5>3
      <4>4. /\ \A k \in 1 .. hi : list[k].key < e.key
            /\ \A k \in hi + 1 .. Len(list) : e.key < list[k].key
        <5>1. \A k \in hi + 1 .. Len(list) :
                 list[k].key > op.key /\ list[k].key \in Int /\ op.key \in Int
            BY <1>1, <1>2, <3>3
        <5> QED
            BY <1>2, <3>1, <5>1
      <4> HIDE DEF e
      <4>5. ASSUME NEW i \in 1 .. Len(list'), NEW j \in 1 .. Len(list'), i < j
            PROVE  list'[i].key < list'[j].key
        <5>1. CASE j <= hi
          <6>1. i \in 1 .. Len(list) /\ j \in 1 .. Len(list) /\ list'[i] = list[i] /\ list'[j] = list[j]
              BY <1>1, <1>2, <4>1, <4>3, <4>5, <5>1
          <6> QED
              BY <1>2, <4>5, <6>1 DEF Ascends
        <5>2. CASE j = hi + 1
          <6>1. list'[j] = e /\ i <= hi /\ i \in 1 .. hi /\ i \in 1 .. Len(list) + 1
              BY <4>1, <4>3, <4>5, <5>2
          <6>2. list'[i] = list[i]
              BY <4>3, <6>1
          <6> QED
              BY <4>4, <6>1, <6>2
        <5>3. CASE j > hi + 1
          <6>1. list'[j] = list[j - 1] /\ j - 1 \in hi + 1 .. Len(list)
              BY <4>1, <4>3, <5>3
          <6>2. CASE i <= hi
            <7>1. list'[i] = list[i] /\ i \in 1 .. Len(list) /\ i < j - 1 /\ j - 1 \in 1 .. Len(list)
                BY <4>1, <4>3, <5>3, <6>2
            <7> QED
                BY <1>2, <6>1, <7>1 DEF Ascends
          <6>3. CASE i = hi + 1
            <7>1. list'[i] = e /\ j - 1 \in hi + 1 .. Len(list)
                BY <4>1, <4>3, <6>1, <6>3
            <7> QED
                BY <4>4, <6>1, <7>1
          <6>4. CASE i > hi + 1
            <7>1. /\ list'[i] = list[i - 1] /\ i - 1 \in 1 .. Len(list)
                  /\ i - 1 < j - 1 /\ j - 1 \in 1 .. Len(list)
                BY <4>1, <4>3, <4>5, <6>4
            <7> QED
                BY <1>2, <6>1, <7>1 DEF Ascends
          <6> QED
              BY <4>1, <6>2, <6>3, <6>4
        <5> QED
            BY <4>1, <5>1, <5>2, <5>3
      <4> QED
          BY <2>4, <4>3, <4>5 DEF Ascends, Assign, TypeOK
    <3> QED
        BY <3>2, <3>3
  <2>5. ASSUME found, list' = EraseAt(list, hi)
        PROVE  list' \in Seq(Entry) /\ Ascends(list')
    <3>1. hi \in 0 .. Len(list) - 1 /\ Len(list) \in Nat
        BY <1>1, <1>2, <2>5
    <3>2. /\ list' \in Seq(Entry) /\ Len(list') = Len(list) - 1
          /\ \A j \in 1 .. Len(list) - 1 : list'[j] = IF j <= hi THEN list[j] ELSE list[j + 1]
        BY <1>1, <2>5, <3>1, EraseAtEntries
    <3> QED
        BY <1>2, <3>1, <3>2 DEF Ascends
  <2>6. CASE Take
      BY <1>1, <1>2, <2>2, <2>5, <2>6 DEF Take
  <2>7. CASE Erase
      BY <1>1, <1>2, <2>5, <2>7 DEF Erase, TypeOK
  <2> QED
      BY <2>3, <2>4, <2>6, <2>7 DEF Finish
<1>4. /\ pc' = "idle" /\ op' = NoOp /\ lo' = -1 /\ hi' = 0 /\ found' = FALSE
      /\ UNCHANGED <<inserting, to, from>>
    BY DEF Finish, compaction
<1>5. NoOp \notin Op
    BY DEF NoOp, Op
<1>6. TypeOK'
  <2>1. op' \in Op \cup {NoOp} /\ (op' \in Op <=> pc' \in {"search", "found"})
      BY <1>4, <1>5
  <2>2. found' \in BOOLEAN
      BY <1>4
  <2> QED
      BY <1>3, <1>4, <2>1, <2>2 DEF TypeOK
<1> QED
    BY <1>2, <1>3, <1>4, <1>6 DEF SearchInv, FoundInv, CompactInv

\* Collecting a batch: nothing is claimed of the order meanwhile.
LEMMA BatchStep ==
    ASSUME IInv, Clear \/ BeginInsert \/ \E k \in Keys, v \in Values : Insert(k, v)
    PROVE  IInv'
<1> USE DEF IInv
<1>1. list' \in Seq(Entry)
  <2>1. CASE Clear
      BY <2>1, EmptySeq DEF Clear
  <2>2. CASE BeginInsert
      BY <2>2 DEF BeginInsert, TypeOK
  <2>3. ASSUME NEW k \in Keys, NEW v \in Values, Insert(k, v)
        PROVE  list' \in Seq(Entry)
    <3>1. [key |-> k, value |-> v] \in Entry
        BY DEF Entry
    <3> QED
        BY <2>3, <3>1, AppendProperties DEF Insert, TypeOK
  <2> QED
      BY <2>1, <2>2, <2>3
<1>2. /\ UNCHANGED <<pc, op, lo, hi, found, to, from, answer>>
      /\ pc = "idle" /\ inserting' \in BOOLEAN
      /\ inserting' \/ list' = <<>>
    BY DEF Clear, BeginInsert, Insert, search, compaction, TypeOK
<1>3. TypeOK'
  <2>1. op' \in Op \cup {NoOp} /\ (op' \in Op <=> pc' \in {"search", "found"})
      BY <1>2 DEF TypeOK
  <2> QED
      BY <1>1, <1>2, <2>1 DEF TypeOK
<1>4. Ascends(<<>>)
    BY EmptySeq DEF Ascends
<1> QED
    BY <1>2, <1>3, <1>4 DEF SearchInv, FoundInv, CompactInv

\* The end of a batch: sorted in some order, or too short for the loop.
LEMMA EndInsertStep ==
    ASSUME IInv, EndInsert
    PROVE  IInv'
<1> USE DEF IInv
<1>1. /\ Size \in Nat /\ Size = Len(list) /\ list \in Seq(Entry)
      /\ DOMAIN list = 1 .. Size
      /\ \A i \in 1 .. Size : list[i] \in Entry /\ list[i].key \in Int
    BY Facts DEF Size
<1>2. PICK f \in StableSortOrders(list) : list' = [i \in DOMAIN list |-> list[f[i]]]
    BY DEF EndInsert
<1>3. /\ f \in [1 .. Size -> 1 .. Size]
      /\ \A i, j \in 1 .. Size : i < j => list[f[i]].key <= list[f[j]].key
    BY <1>1, <1>2 DEF StableSortOrders, SortOrders
<1>4. list' = [i \in 1 .. Size |-> list[f[i]]]
    BY <1>1, <1>2
<1>5. \A i \in 1 .. Size : list[f[i]] \in Entry
    BY <1>1, <1>3
<1>6. list' \in Seq(Entry) /\ Len(list') = Size
  <2>1. list' \in [1 .. Size -> Entry]
      BY <1>4, <1>5
  <2> QED
      BY <1>1, <2>1
<1>7. \A i, j \in 1 .. Size : i < j => list'[i].key <= list'[j].key
    BY <1>3, <1>4
<1>8. /\ pc' = IF Size >= 2 THEN "compact" ELSE "idle"
      /\ to' = 0 /\ from' = 1 /\ inserting' = FALSE /\ pc = "idle"
      /\ UNCHANGED <<op, lo, hi, found, answer>>
    BY <1>1 DEF EndInsert, search
<1>9. TypeOK'
  <2>1. op' \in Op \cup {NoOp} /\ (op' \in Op <=> pc' \in {"search", "found"})
      BY <1>1, <1>8 DEF TypeOK
  <2> QED
      BY <1>1, <1>6, <1>8, <2>1 DEF TypeOK
<1>10. CompactInv'
    BY <1>1, <1>6, <1>7, <1>8 DEF CompactInv, Size
<1>11. pc' # "compact" => Ascends(list')
    BY <1>1, <1>6, <1>8 DEF Ascends
<1> QED
    BY <1>1, <1>8, <1>9, <1>10, <1>11 DEF SearchInv, FoundInv

\* The loop of endInsert and the erasure of what it leaves behind.
LEMMA CompactStep ==
    ASSUME IInv, Compact \/ CompactEnd
    PROVE  IInv'
<1> USE DEF IInv
<1>1. /\ Size \in Nat /\ Size = Len(list) /\ list \in Seq(Entry) /\ to \in Nat /\ from \in Nat
      /\ \A i \in 1 .. Size : list[i] \in Entry /\ list[i].key \in Int
    BY Facts DEF Size
<1>2. /\ pc = "compact" /\ ~inserting
      /\ to < from /\ from <= Size
      /\ \A i, j \in 1 .. to + 1 : i < j => list[i].key < list[j].key
      /\ \A i, j \in from + 1 .. Size : i < j => list[i].key <= list[j].key
      /\ \A i \in from + 1 .. Size : list[to + 1].key <= list[i].key
    BY <1>1 DEF Compact, CompactEnd, CompactInv
<1>3. CASE Compact
  <2>1. /\ from < Size /\ from' = from + 1
        /\ to' = IF list[to + 1].key < list[from + 1].key THEN to + 1 ELSE to
        /\ list' = [list EXCEPT ![to' + 1] = list[from + 1]]
        /\ UNCHANGED <<inserting, pc, op, lo, hi, found, answer>>
      BY <1>3 DEF Compact, Key, search
  <2>2. /\ to' \in Nat /\ to' <= from /\ to' + 1 \in 1 .. Len(list) /\ list[from + 1] \in Entry
        /\ list[to + 1].key \in Int /\ list[from + 1].key \in Int
        /\ list[to + 1].key <= list[from + 1].key
    <3>1. to + 1 \in 1 .. Size /\ from + 1 \in 1 .. Size /\ from + 1 \in from + 1 .. Size
        BY <1>1, <1>2, <2>1
    <3>2. /\ list[from + 1] \in Entry
          /\ list[to + 1].key \in Int /\ list[from + 1].key \in Int
        BY <1>1, <3>1
    <3>3. list[to + 1].key <= list[from + 1].key
        BY <1>2, <3>1
    <3>4. to' \in {to, to + 1}
        BY <2>1
    <3>5. to' \in Nat /\ to' <= from /\ to' + 1 \in 1 .. Size
        BY <1>1, <1>2, <2>1, <3>4
    <3> QED
        BY <1>1, <3>2, <3>3, <3>5
  <2>b. /\ to' \in Int /\ 0 <= to' /\ to' <= from /\ to' + 1 <= Size
        /\ Size \in Int /\ from \in Int /\ from' = from + 1
      BY <1>1, <2>1, <2>2
  <2>3. /\ list' \in Seq(Entry) /\ Len(list') = Size
        /\ \A j \in 1 .. Size : list'[j] = IF j = to' + 1 THEN list[from + 1] ELSE list[j]
    <3> DEFINE k == to' + 1
               e == list[from + 1]
    <3>1. list' = [list EXCEPT ![k] = e] /\ k \in 1 .. Len(list) /\ e \in Entry /\ list \in Seq(Entry)
        BY <1>1, <2>1, <2>2
    <3> HIDE DEF k, e
    <3>2. /\ list' \in Seq(Entry) /\ Len(list') = Len(list)
          /\ \A j \in 1 .. Len(list) : list'[j] = IF j = k THEN e ELSE list[j]
        BY <3>1, ExceptSeq
    <3> QED
        BY <1>1, <3>2 DEF k, e
  <2>4. TypeOK'
    <3>1. op' \in Op \cup {NoOp} /\ (op' \in Op <=> pc' \in {"search", "found"})
        BY <2>1 DEF TypeOK
    <3> QED
        BY <1>1, <2>1, <2>2, <2>3, <3>1 DEF TypeOK
  <2>5. ASSUME NEW i \in 1 .. to' + 1, NEW j \in 1 .. to' + 1, i < j
        PROVE  list'[i].key < list'[j].key
    <3> DEFINE last == list[from + 1]
    <3>0. /\ i \in 1 .. to' /\ i \in 1 .. Size /\ j \in 1 .. Size /\ i # to' + 1
          /\ list'[i] = list[i]
          /\ list'[j] = IF j = to' + 1 THEN last ELSE list[j]
      <4>1. i \in 1 .. to' /\ i \in 1 .. Size /\ j \in 1 .. Size /\ i # to' + 1
        <5> DEFINE t == to'
        <5>1. t \in Int /\ 0 <= t /\ t + 1 <= Size /\ Size \in Int
            BY <2>b
        <5>2. i \in 1 .. t + 1 /\ j \in 1 .. t + 1 /\ i < j
            BY <2>5
        <5> HIDE DEF t
        <5>3. i \in 1 .. t /\ i \in 1 .. Size /\ j \in 1 .. Size /\ i # t + 1
            BY <5>1, <5>2
        <5> QED
            BY <5>3 DEF t
      <4> DEFINE k == to' + 1
      <4>2. \A n \in 1 .. Size : list'[n] = IF n = k THEN last ELSE list[n]
          BY <2>3
      <4>3. i \in 1 .. Size /\ j \in 1 .. Size /\ i # k
          BY <4>1
      <4> HIDE DEF k, last
      <4>4. list'[i] = list[i] /\ list'[j] = IF j = k THEN last ELSE list[j]
          BY <4>2, <4>3
      <4> QED
          BY <4>1, <4>4 DEF k
    <3>1. CASE to' = to + 1
      <4>1. list[to + 1].key < last.key
          BY <2>1, <3>1, <1>1
      <4>2. CASE j = to' + 1
        <5>1. i \in 1 .. to + 1 /\ to + 1 \in 1 .. to + 1 /\ i <= to + 1
            BY <1>1, <3>0, <3>1
        <5>2. i < to + 1 => list[i].key < list[to + 1].key
            BY <1>2, <5>1
        <5>3. list[i].key \in Int /\ list[to + 1].key \in Int /\ last.key \in Int
            BY <1>1, <2>2, <3>0
        <5>4. i = to + 1 \/ i < to + 1
            BY <1>1, <5>1
        <5>5. list'[i] = list[i] /\ list'[j] = last
            BY <3>0, <4>2
        <5> QED
            BY <4>1, <5>2, <5>3, <5>4, <5>5
      <4>3. CASE j # to' + 1
        <5>1. i \in 1 .. to + 1 /\ j \in 1 .. to + 1
            BY <1>1, <2>5, <3>0, <3>1, <4>3
        <5> QED
            BY <1>2, <2>5, <3>0, <4>3, <5>1
      <4> QED
          BY <4>2, <4>3
    <3>2. CASE to' = to
      <4>1. list[i].key < list[j].key
        <5>1. i \in 1 .. to + 1 /\ j \in 1 .. to + 1
            BY <1>1, <2>5, <3>2
        <5> QED
            BY <1>2, <2>5, <5>1
      <4>2. j = to' + 1 => list[j].key <= last.key
          BY <2>2, <3>2
      <4>3. list[i].key \in Int /\ list[j].key \in Int /\ last.key \in Int
          BY <1>1, <2>2, <3>0
      <4> QED
          BY <3>0, <4>1, <4>2, <4>3
    <3> QED
        BY <2>1, <3>1, <3>2
  <2>6. /\ \A j \in from' + 1 .. Size : list'[j] = list[j]
        /\ list'[to' + 1] = list[from + 1]
    <3>1. to' + 1 \in 1 .. Size /\ \A j \in from' + 1 .. Size : j \in 1 .. Size /\ j # to' + 1
      <4> DEFINE t == to'
                 u == from'
      <4>1. t \in Int /\ 0 <= t /\ t <= from /\ t + 1 <= Size /\ Size \in Int /\ from \in Int /\ u = from + 1
          BY <2>b
      <4> HIDE DEF t, u
      <4>2. t + 1 \in 1 .. Size /\ \A j \in u + 1 .. Size : j \in 1 .. Size /\ j # t + 1
          BY <4>1
      <4> QED
          BY <4>2 DEF t, u
    <3> DEFINE k == to' + 1
    <3>2. \A j \in 1 .. Size : list'[j] = IF j = k THEN list[from + 1] ELSE list[j]
        BY <2>3
    <3>3. k \in 1 .. Size /\ \A j \in from' + 1 .. Size : j \in 1 .. Size /\ j # k
        BY <3>1
    <3> HIDE DEF k
    <3>4. list'[k] = list[from + 1] /\ \A j \in from' + 1 .. Size : list'[j] = list[j]
        BY <3>2, <3>3
    <3> QED
        BY <3>4 DEF k
  <2>7. \A i \in from' + 1 .. Size : list[from + 1].key <= list[i].key
    <3>1. from + 1 \in from + 1 .. Size /\ \A i \in from' + 1 .. Size : i \in from + 1 .. Size /\ from + 1 < i
        BY <2>b, <2>1
    <3> QED
        BY <1>2, <3>1
  <2>8. \A i, j \in from' + 1 .. Size : i < j => list'[i].key <= list'[j].key
    <3>1. \A i \in from' + 1 .. Size : i \in from + 1 .. Size
        BY <1>1, <2>1
    <3> QED
        BY <1>2, <2>6, <3>1
  <2>9. CompactInv'
      BY <1>1, <1>2, <2>1, <2>2, <2>3, <2>5, <2>6, <2>7, <2>8 DEF CompactInv, Size
  <2> QED
      BY <1>2, <2>1, <2>4, <2>9 DEF SearchInv, FoundInv
<1>4. CASE CompactEnd
  <2>1. /\ list' = SubSeq(list, 1, to + 1)
        /\ pc' = "idle" /\ to' = 0 /\ from' = 1
        /\ UNCHANGED <<inserting, op, lo, hi, found, answer>>
      BY <1>4 DEF CompactEnd, search
  <2>2. /\ list' \in Seq(Entry) /\ Len(list') = to + 1
        /\ \A j \in 1 .. to + 1 : list'[j] = list[j]
      BY <1>1, <1>2, <2>1, SubSeqProperties
  <2>3. TypeOK'
    <3>1. op' \in Op \cup {NoOp} /\ (op' \in Op <=> pc' \in {"search", "found"})
        BY <1>2, <2>1 DEF TypeOK
    <3> QED
        BY <1>1, <2>1, <2>2, <3>1 DEF TypeOK
  <2>4. Ascends(list')
      BY <1>2, <2>2 DEF Ascends
  <2> QED
      BY <1>2, <2>1, <2>3, <2>4 DEF SearchInv, FoundInv, CompactInv
<1> QED
    BY <1>3, <1>4

LEMMA NextStep ==
    ASSUME IInv, [Next]_vars
    PROVE  IInv'
<1>1. CASE Next
    BY <1>1, SearchStep, FinishStep, BatchStep, EndInsertStep, CompactStep DEF Next
<1>2. CASE UNCHANGED vars
  <2>1. UNCHANGED <<list, inserting, pc, op, lo, hi, found, to, from, answer>>
      BY <1>2 DEF vars, search, compaction
  <2> QED
      BY <2>1 DEF IInv, TypeOK, Ascends, SearchInv, FoundInv, CompactInv, Size
<1> QED
    BY <1>1, <1>2

\* IInv holds throughout.
LEMMA Invariance == Spec => []IInv
    BY InitIInv, NextStep, PTL DEF Spec

-----------------------------------------------------------------------------
\* The vector, the bounds of the bisection and the iterators keep their types;
\* the iterators of endInsert stay natural numbers.
THEOREM TypeCorrect == Spec => []TypeOK
<1>1. IInv => TypeOK
    BY DEF IInv
<1> QED
    BY <1>1, Invariance, PTL

\* Outside a batch the keys of the vector ascend, after any operations.
THEOREM SortedCorrect == Spec => []Sorted
<1>1. IInv => Sorted
  <2>1. SUFFICES ASSUME IInv, ~inserting, pc # "compact"
                 PROVE  \A i, j \in DOMAIN list : i < j => list[i].key < list[j].key
      BY DEF Sorted
  <2>2. DOMAIN list = 1 .. Len(list)
      BY <2>1, Facts DEF IInv, Size
  <2> QED
      BY <2>1, <2>2 DEF IInv, Ascends
<1> QED
    BY <1>1, Invariance, PTL

\* search returns what its comment says: the first position whose key is not
\* smaller, and found tells whether the key is there.
THEOREM SearchCorrect == Spec => []SearchReturns
<1>1. IInv => SearchReturns
  <2>1. SUFFICES ASSUME IInv, pc = "found"
                 PROVE  /\ hi \in 0 .. Size
                        /\ \A i \in 0 .. hi - 1 : Key(i) < op.key
                        /\ \A i \in hi .. Size - 1 : Key(i) >= op.key
                        /\ found <=> \E i \in 0 .. Size - 1 : Key(i) = op.key
      BY DEF SearchReturns
  <2>2. /\ Size \in Nat /\ hi \in Int /\ op.key \in Int
        /\ \A i \in 1 .. Size : list[i].key \in Int
      BY <2>1, Facts DEF IInv
  <2>3. /\ 0 <= hi /\ hi <= Size
        /\ \A i \in 1 .. hi : list[i].key < op.key
        /\ \A i \in hi + 1 .. Size : list[i].key >= op.key
        /\ found => hi < Size /\ list[hi + 1].key = op.key
        /\ ~found => \A i \in hi + 1 .. Size : list[i].key > op.key
      BY <2>1 DEF IInv, FoundInv
  <2>4. /\ \A i \in 0 .. hi - 1 : Key(i) < op.key
        /\ \A i \in hi .. Size - 1 : Key(i) >= op.key
      BY <2>2, <2>3 DEF Key
  <2>5. ASSUME found
        PROVE  \E i \in 0 .. Size - 1 : Key(i) = op.key
      BY <2>2, <2>3, <2>5 DEF Key
  <2>6. ASSUME NEW i \in 0 .. Size - 1, Key(i) = op.key, ~found
        PROVE  FALSE
    <3>1. i + 1 \in 1 .. Size /\ list[i + 1].key = op.key
        BY <2>2, <2>6 DEF Key
    <3>2. i + 1 \in 1 .. hi \/ i + 1 \in hi + 1 .. Size
        BY <2>2, <3>1
    <3> QED
        BY <2>2, <2>3, <2>6, <3>1, <3>2
  <2> QED
      BY <2>2, <2>3, <2>4, <2>5, <2>6
<1> QED
    BY <1>1, Invariance, PTL

-----------------------------------------------------------------------------
\* A non-empty set of bounded naturals has a greatest element.
LEMMA GreatestElement ==
    ASSUME NEW n \in Nat, NEW T \in SUBSET (1 .. n), T # {}
    PROVE  \E m \in T : \A k \in T : k <= m
<1> DEFINE C == {m .. n : m \in T}
<1>1. C \subseteq FiniteSubsetsOf(Nat)
  <2>1. \A m \in T : IsFiniteSet(m .. n) /\ m .. n \subseteq Nat
    <3>1. \A m \in T : m \in Int /\ n \in Int /\ m .. n \subseteq Nat
        OBVIOUS
    <3> QED
        BY <3>1, FS_Interval
  <2> QED
      BY <2>1 DEF FiniteSubsetsOf
<1>2. C # {}
    OBVIOUS
<1>3. PICK x \in C : \A y \in C : ~ (<<y, x>> \in StrictSubsetOrdering(Nat))
    BY <1>1, <1>2, FS_StrictSubsetOrderingWellFounded, WFMin, Zenon
<1>4. PICK m \in T : x = m .. n
    OBVIOUS
<1>5. ASSUME NEW k \in T, m < k
      PROVE  FALSE
  <2>1. k .. n \subseteq m .. n /\ m \in m .. n /\ m \notin k .. n /\ m .. n \subseteq Nat
      BY <1>5
  <2>2. <<k .. n, m .. n>> \in StrictSubsetOrdering(Nat)
      BY <2>1 DEF StrictSubsetOrdering
  <2> QED
      BY <1>3, <1>4, <2>2
<1> QED
    BY <1>5

\* What ValueOf says of the positions at of the vector s.
ValueIn(s, at, k) ==
    LET with == {i \in at : s[i].key = k} IN
    IF with = {} THEN Nothing
    ELSE s[CHOOSE i \in with : \A j \in with : j <= i].value

\* The same as a relation: v is the value of the last entry of k, or k has none.
Binds(s, at, k, v) ==
    \/ v = Nothing /\ \A i \in at : s[i].key # k
    \/ \E i \in at : /\ s[i].key = k /\ s[i].value = v
                     /\ \A j \in at : s[j].key = k => j <= i

\* The last entry of a key is unique.
LEMMA BoundValue ==
    ASSUME NEW s, NEW at \in SUBSET Int, NEW k, NEW v, Binds(s, at, k, v)
    PROVE  ValueIn(s, at, k) = v
<1> DEFINE with == {i \in at : s[i].key = k}
           Last(i) == \A j \in with : j <= i
<1>1. CASE v = Nothing /\ \A i \in at : s[i].key # k
    BY <1>1 DEF ValueIn
<1>2. CASE ~ \A i \in at : s[i].key # k
  <2>1. PICK i \in with : s[i].value = v /\ Last(i)
      BY <1>2 DEF Binds
  <2> DEFINE c == CHOOSE j \in with : Last(j)
  <2>2. c \in with /\ Last(c)
      BY <2>1
  <2>3. c \in Int /\ i \in Int /\ c <= i /\ i <= c
      BY <2>1, <2>2
  <2>4. c = i
      BY <2>3
  <2>5. ValueIn(s, at, k) = s[c].value
      BY <2>1 DEF ValueIn
  <2> QED
      BY <2>1, <2>4, <2>5
<1> QED
    BY <1>1, <1>2 DEF Binds

\* Every key has a last entry among finitely many, or none.
LEMMA Bound ==
    ASSUME NEW n \in Nat, NEW at \in SUBSET (1 .. n), NEW s, NEW k
    PROVE  Binds(s, at, k, ValueIn(s, at, k))
<1> DEFINE with == {i \in at : s[i].key = k}
<1>1. CASE with = {}
    BY <1>1 DEF Binds, ValueIn
<1>2. CASE with # {}
  <2>1. with \in SUBSET (1 .. n)
      OBVIOUS
  <2>2. PICK i \in with : \A j \in with : j <= i
      BY <1>2, <2>1, GreatestElement
  <2>3. Binds(s, at, k, s[i].value)
      BY <2>2 DEF Binds
  <2>4. at \in SUBSET Int
      OBVIOUS
  <2>5. ValueIn(s, at, k) = s[i].value
      BY <2>3, <2>4, BoundValue
  <2> QED
      BY <2>3, <2>5
<1> QED
    BY <1>1, <1>2

\* Where the keys ascend every entry is the last one of its key.
LEMMA AscendingBinds ==
    ASSUME NEW s \in Seq(Entry), Ascends(s), NEW i \in 1 .. Len(s)
    PROVE  Binds(s, 1 .. Len(s), s[i].key, s[i].value)
<1>1. Len(s) \in Nat /\ \A j \in 1 .. Len(s) : s[j] \in Entry
    BY LenProperties, ElementOfSeq
<1>2. \A j \in 1 .. Len(s) : s[j].key \in Int
    BY <1>1, SortedMapAssumption DEF Entry
<1>3. ASSUME NEW j \in 1 .. Len(s), s[j].key = s[i].key
      PROVE  j <= i
    BY <1>1, <1>2, <1>3 DEF Ascends
<1> QED
    BY <1>3 DEF Binds

\* The positions that count, and what the map is seen to hold.
LEMMA Mapping ==
    ASSUME IInv
    PROVE  /\ Live \in SUBSET (1 .. Size)
           /\ Size \in Nat
           /\ pc # "compact" => Live = 1 .. Size
           /\ \A k : ValueOf(k) = ValueIn(list, Live, k)
           /\ \A k : Binds(list, Live, k, ValueOf(k))
<1>1. Size \in Nat /\ to \in Nat /\ from \in Nat
    BY Facts DEF IInv
<1>2. Live \in SUBSET (1 .. Size)
    BY <1>1 DEF Live, IInv, CompactInv
<1>3. \A k : ValueOf(k) = ValueIn(list, Live, k)
    BY DEF ValueOf, ValueIn
<1>4. \A k : Binds(list, Live, k, ValueIn(list, Live, k))
    BY <1>1, <1>2, Bound
<1> QED
    BY <1>1, <1>2, <1>3, <1>4 DEF Live

\* The new value of a key, read off the new vector.
LEMMA NewValue ==
    ASSUME NEW k, NEW v, Live' \in SUBSET Int, Binds(list', Live', k, v)
    PROVE  ValueOf(k)' = v
<1>1. ValueIn(list', Live', k) = v
    BY BoundValue
<1>2. ValueOf(k)' = ValueIn(list', Live', k)
    BY DEF ValueOf, ValueIn
<1> QED
    BY <1>1, <1>2

\* A step that leaves every key its last value is invisible.
LEMMA SameValues ==
    ASSUME IInv, Live' \in SUBSET Int, UNCHANGED answer,
           \A k \in Keys : \A v : Binds(list, Live, k, v) => Binds(list', Live', k, v)
    PROVE  UNCHANGED Dict!vars
<1>1. ASSUME NEW k \in Keys
      PROVE  ValueOf(k)' = ValueOf(k)
  <2>1. Binds(list', Live', k, ValueOf(k))
      BY Mapping
  <2> QED
      BY <2>1, NewValue
<1>2. [k \in Keys |-> ValueOf(k)]' = [k \in Keys |-> ValueOf(k)]
    BY <1>1
<1> QED
    BY <1>2 DEF Dict!vars

\* Calling, searching and the start of a batch touch no entry.
LEMMA QuietStep ==
    ASSUME IInv, (\E o \in Op : Call(o)) \/ Probe \/ Miss \/ BeginInsert \/ UNCHANGED vars
    PROVE  UNCHANGED Dict!vars
<1>1. /\ UNCHANGED <<list, to, from, answer>>
      /\ \/ UNCHANGED pc
         \/ pc # "compact" /\ pc' # "compact"
    BY DEF Call, Probe, Hit, Right, Left, Miss, BeginInsert, vars, search, compaction
<1>2. Live' = Live
    BY <1>1 DEF Live, Size
<1>3. Live' \in SUBSET Int
    BY <1>2, Mapping
<1> QED
    BY <1>1, <1>2, <1>3, SameValues

\* clear leaves no key.
LEMMA ClearStep ==
    ASSUME IInv, Clear
    PROVE  Dict!Clear
<1>1. list' = <<>> /\ pc' = "idle" /\ UNCHANGED answer
    BY DEF Clear
<1>2. Live' = {}
    BY <1>1 DEF Live, Size
<1>3. ASSUME NEW k \in Keys
      PROVE  ValueOf(k)' = Nothing
    BY <1>2, NewValue DEF Binds
<1> QED
    BY <1>1, <1>3 DEF Dict!Clear

\* What a finished operation shows of the entry at the position found.
LEMMA FoundValue ==
    ASSUME IInv, pc = "found"
    PROVE  ValueOf(op.key) = IF found THEN list[hi + 1].value ELSE Nothing
<1>1. /\ Size \in Nat /\ Size = Len(list) /\ hi \in Int /\ list \in Seq(Entry)
      /\ \A i \in 1 .. Size : list[i].key \in Int
      /\ op.key \in Int
    BY Facts DEF IInv, Size
<1>2. /\ 0 <= hi /\ hi <= Size
      /\ \A i \in 1 .. hi : list[i].key < op.key
      /\ found => hi < Size /\ list[hi + 1].key = op.key
      /\ ~found => \A i \in hi + 1 .. Size : list[i].key > op.key
      /\ Ascends(list)
    BY DEF IInv, FoundInv
<1>3. Live = 1 .. Len(list) /\ \A k : ValueOf(k) = ValueIn(list, Live, k)
    BY <1>1, Mapping
<1>4. CASE found
  <2>1. hi + 1 \in 1 .. Len(list)
      BY <1>1, <1>2, <1>4
  <2>2. Binds(list, Live, op.key, list[hi + 1].value)
      BY <1>1, <1>2, <1>3, <1>4, <2>1, AscendingBinds
  <2> QED
      BY <1>3, <1>4, <2>2, BoundValue
<1>5. CASE ~found
  <2>1. \A i \in 1 .. Len(list) : list[i].key # op.key
      BY <1>1, <1>2, <1>5
  <2>2. Binds(list, Live, op.key, Nothing)
      BY <1>3, <2>1 DEF Binds
  <2> QED
      BY <1>3, <1>5, <2>2, BoundValue
<1> QED
    BY <1>4, <1>5

\* Two ascending vectors that hold the same entries of a key agree on its value.
LEMMA SameEntries ==
    ASSUME NEW s \in Seq(Entry), NEW t \in Seq(Entry), Ascends(t), NEW k, NEW v,
           \A i \in 1 .. Len(s) : s[i].key = k => \E j \in 1 .. Len(t) : t[j] = s[i],
           \A j \in 1 .. Len(t) : t[j].key = k => \E i \in 1 .. Len(s) : t[j].key = s[i].key,
           Binds(s, 1 .. Len(s), k, v)
    PROVE  Binds(t, 1 .. Len(t), k, v)
<1>1. CASE v = Nothing /\ \A i \in 1 .. Len(s) : s[i].key # k
    BY <1>1 DEF Binds
<1>2. CASE \E i \in 1 .. Len(s) : s[i].key = k /\ s[i].value = v
  <2>1. PICK i \in 1 .. Len(s) : s[i].key = k /\ s[i].value = v
      BY <1>2
  <2>2. PICK j \in 1 .. Len(t) : t[j] = s[i]
      BY <2>1
  <2>3. Binds(t, 1 .. Len(t), t[j].key, t[j].value)
      BY AscendingBinds
  <2> QED
      BY <2>1, <2>2, <2>3
<1> QED
    BY <1>1, <1>2 DEF Binds

\* The step binds the key to v and leaves every other key as it was.
Writes(key, v) == \A k \in Keys : ValueOf(k)' = IF k = key THEN v ELSE ValueOf(k)

\* The same of the dictionary.
LEMMA WritesDictionary ==
    ASSUME NEW key \in Keys, NEW v, Writes(key, v)
    PROVE  [k \in Keys |-> ValueOf(k)]' = [[k \in Keys |-> ValueOf(k)] EXCEPT ![key] = v]
BY DEF Writes

\* Finishing an operation writes its key alone.
LEMMA WriteStep ==
    ASSUME IInv, Finish, NEW key \in Keys, NEW v,
           Binds(list', 1 .. Len(list'), key, v),
           \A i \in 1 .. Len(list) : list[i].key # key => \E j \in 1 .. Len(list') : list'[j] = list[i],
           \A j \in 1 .. Len(list') : list'[j].key # key => \E i \in 1 .. Len(list) : list'[j].key = list[i].key
    PROVE  Writes(key, v)
<1>1. /\ list \in Seq(Entry) /\ Live = 1 .. Len(list)
      /\ \A k : Binds(list, Live, k, ValueOf(k))
    BY Facts, Mapping DEF IInv, Finish, Size
<1>2. /\ list' \in Seq(Entry) /\ Ascends(list') /\ Live' = 1 .. Len(list')
    BY FinishStep DEF IInv, TypeOK, Finish, Live, Size
<1>3. Live' \in SUBSET Int
    BY <1>2
<1>4. ValueOf(key)' = v
    BY <1>2, <1>3, NewValue
<1>5. ASSUME NEW k \in Keys, k # key
      PROVE  ValueOf(k)' = ValueOf(k)
  <2> DEFINE s == list
             t == list'
  <2>1. Binds(s, 1 .. Len(s), k, ValueOf(k))
      BY <1>1
  <2>2. /\ \A i \in 1 .. Len(s) : s[i].key = k => \E j \in 1 .. Len(t) : t[j] = s[i]
        /\ \A j \in 1 .. Len(t) : t[j].key = k => \E i \in 1 .. Len(s) : t[j].key = s[i].key
      BY <1>5
  <2>3. Binds(t, 1 .. Len(t), k, ValueOf(k))
      BY <1>1, <1>2, <2>1, <2>2, SameEntries
  <2> QED
      BY <1>2, <1>3, <2>3, NewValue
<1> QED
    BY <1>4, <1>5 DEF Writes

\* An operation that finishes does to the dictionary what its name says.
LEMMA FinishMaps ==
    ASSUME IInv, Finish
    PROVE  Dict!Next
<1> DEFINE q == op.key
           w == op.value
           seen == IF found THEN list[hi + 1].value ELSE Nothing
<1>1. /\ Size \in Nat /\ Size = Len(list) /\ hi \in Int /\ list \in Seq(Entry)
      /\ \A i \in 1 .. Size : list[i] \in Entry /\ list[i].key \in Int
      /\ op \in Op /\ q \in Int /\ pc = "found"
    BY Facts DEF IInv, Finish, Size
<1>2. /\ 0 <= hi /\ hi <= Size
      /\ \A i \in 1 .. hi : list[i].key < q
      /\ found => hi < Size /\ list[hi + 1].key = q
      /\ ~found => \A i \in hi + 1 .. Size : list[i].key > q
      /\ Ascends(list)
    BY <1>1 DEF IInv, FoundInv
<1>3. q \in Keys /\ (op.name = "assign" => w \in Values)
    BY <1>1 DEF Op
<1>4. list' \in Seq(Entry) /\ Ascends(list') /\ Len(list') \in Nat
    BY FinishStep, LenProperties DEF IInv, TypeOK, Finish
<1>5. ValueOf(q) = seen /\ [k \in Keys |-> ValueOf(k)][q] = seen
    BY <1>1, <1>3, FoundValue
<1> HIDE DEF seen
<1>6. CASE Find
  <2>1. UNCHANGED list /\ answer' = seen /\ Live' = Live
      BY <1>1, <1>6 DEF Find, Finish, Live, Size, seen
  <2>2. [k \in Keys |-> ValueOf(k)]' = [k \in Keys |-> ValueOf(k)]
      BY <2>1 DEF ValueOf
  <2>3. Dict!Find(q)
      BY <1>5, <2>1, <2>2 DEF Dict!Find
  <2> QED
      BY <1>3, <2>3 DEF Dict!Next
<1>7. ASSUME list' = IF found THEN EraseAt(list, hi) ELSE list
      PROVE  Writes(q, Nothing)
  <2>1. CASE found
    <3>1. hi \in 0 .. Len(list) - 1
        BY <1>1, <1>2, <2>1
    <3>2. /\ Len(list') = Len(list) - 1
          /\ \A j \in 1 .. Len(list) - 1 : list'[j] = IF j <= hi THEN list[j] ELSE list[j + 1]
        BY <1>1, <1>7, <2>1, <3>1, EraseAtEntries
    <3>3. ASSUME NEW i \in 1 .. Len(list), list[i].key # q
          PROVE  \E j \in 1 .. Len(list') : list'[j] = list[i]
      <4>1. i # hi + 1
          BY <1>2, <2>1, <3>3
      <4>2. CASE i <= hi
          BY <1>1, <3>1, <3>2, <4>2
      <4>3. CASE i > hi + 1
        <5>1. i - 1 \in 1 .. Len(list') /\ ~(i - 1 <= hi) /\ (i - 1) + 1 = i
            BY <1>1, <3>1, <3>2, <4>3
        <5> QED
            BY <3>2, <5>1
      <4> QED
          BY <1>1, <4>1, <4>2, <4>3
    <3>4. ASSUME NEW j \in 1 .. Len(list')
          PROVE  \E i \in 1 .. Len(list) : i # hi + 1 /\ list'[j].key = list[i].key
      <4>1. CASE j <= hi
        <5>1. j \in 1 .. Len(list) /\ j # hi + 1 /\ list'[j] = list[j]
            BY <1>1, <3>1, <3>2, <4>1
        <5> QED
            BY <5>1
      <4>2. CASE j > hi
        <5>1. j + 1 \in 1 .. Len(list) /\ j + 1 # hi + 1
            BY <1>1, <3>1, <3>2, <4>2
        <5> QED
            BY <3>1, <3>2, <4>2, <5>1
      <4> QED
          BY <1>1, <4>1, <4>2
    <3>5. \A i \in 1 .. Len(list) : i # hi + 1 => list[i].key # q
        BY <1>1, <1>2, <2>1, <3>1 DEF Ascends
    <3>6. Binds(list', 1 .. Len(list'), q, Nothing)
        BY <3>4, <3>5 DEF Binds
    <3>7. /\ \A i \in 1 .. Len(list) : list[i].key # q => \E j \in 1 .. Len(list') : list'[j] = list[i]
          /\ \A j \in 1 .. Len(list') : list'[j].key # q => \E i \in 1 .. Len(list) : list'[j].key = list[i].key
        BY <3>3, <3>4
    <3> QED
        BY <1>3, <3>6, <3>7, WriteStep, Zenon
  <2>2. CASE ~found
    <3>1. list' = list
        BY <1>7, <2>2
    <3>2. \A i \in 1 .. Len(list) : list[i].key # q
        BY <1>1, <1>2, <2>2
    <3>3. Binds(list', 1 .. Len(list'), q, Nothing)
        BY <3>1, <3>2 DEF Binds
    <3>4. /\ \A i \in 1 .. Len(list) : list[i].key # q => \E j \in 1 .. Len(list') : list'[j] = list[i]
          /\ \A j \in 1 .. Len(list') : list'[j].key # q => \E i \in 1 .. Len(list) : list'[j].key = list[i].key
        BY <3>1
    <3> QED
        BY <1>3, <3>3, <3>4, WriteStep, Zenon
  <2> QED
      BY <2>1, <2>2
<1>8. CASE Take
  <2>1. answer' = seen /\ list' = IF found THEN EraseAt(list, hi) ELSE list
      BY <1>8 DEF Take, seen
  <2>2. Dict!Take(q)
      BY <1>3, <1>5, <1>7, <2>1, WritesDictionary DEF Dict!Take
  <2> QED
      BY <1>3, <2>2 DEF Dict!Next
<1>9. CASE Erase
  <2>1. UNCHANGED answer /\ list' = IF found THEN EraseAt(list, hi) ELSE list
      BY <1>9 DEF Erase
  <2>2. Dict!Erase(q)
      BY <1>3, <1>7, <2>1, WritesDictionary DEF Dict!Erase
  <2> QED
      BY <1>3, <2>2 DEF Dict!Next
<1>10. CASE Assign
  <2> DEFINE e == [key |-> q, value |-> w]
  <2>1. UNCHANGED answer /\ op.name = "assign" /\ w \in Values
      BY <1>3, <1>10 DEF Assign
  <2>2. e \in Entry /\ e.key = q /\ e.value = w
      BY <1>3, <2>1 DEF Entry
  <2>3. ASSUME found
        PROVE  Writes(q, w)
    <3> DEFINE n == [list[hi + 1] EXCEPT !.value = w]
    <3>1. hi + 1 \in 1 .. Len(list) /\ list[hi + 1] \in Entry
        BY <1>1, <1>2, <2>3
    <3>2. n \in Entry /\ n.key = q /\ n.value = w
        BY <1>2, <2>1, <2>3, <3>1 DEF Entry
    <3>3. list' = [list EXCEPT ![hi + 1] = n]
        BY <1>10, <2>3 DEF Assign
    <3> HIDE DEF n
    <3>4. /\ Len(list') = Len(list)
          /\ \A j \in 1 .. Len(list) : list'[j] = IF j = hi + 1 THEN n ELSE list[j]
        BY <1>1, <3>1, <3>2, <3>3, ExceptSeq
    <3>5. \A i \in 1 .. Len(list) : list[i].key # q => i # hi + 1
        BY <1>2, <2>3
    <3>6. list'[hi + 1] = n /\ hi + 1 \in 1 .. Len(list')
        BY <3>1, <3>4
    <3>7. Binds(list', 1 .. Len(list'), q, w)
        BY <1>4, <3>2, <3>6, AscendingBinds
    <3>8. \A j \in 1 .. Len(list') : list'[j].key # q => list'[j] = list[j]
        BY <3>2, <3>4
    <3>9. \A i \in 1 .. Len(list) : list[i].key # q => list'[i] = list[i]
        BY <3>4, <3>5
    <3>10. /\ \A i \in 1 .. Len(list) : list[i].key # q => \E j \in 1 .. Len(list') : list'[j] = list[i]
           /\ \A j \in 1 .. Len(list') : list'[j].key # q => \E i \in 1 .. Len(list) : list'[j].key = list[i].key
        BY <3>4, <3>8, <3>9
    <3> QED
        BY <1>3, <3>7, <3>10, WriteStep, Zenon
  <2>4. ASSUME ~found
        PROVE  Writes(q, w)
    <3>1. hi \in 0 .. Len(list)
        BY <1>1, <1>2
    <3>2. list' = InsertAt(list, hi, e)
        BY <1>10, <2>4 DEF Assign
    <3> HIDE DEF e
    <3>3. /\ Len(list') = Len(list) + 1
          /\ \A j \in 1 .. Len(list) + 1 :
                list'[j] = IF j <= hi THEN list[j] ELSE IF j = hi + 1 THEN e ELSE list[j - 1]
      <4> DEFINE t == InsertAt(list, hi, e)
      <4>1. list \in Seq(Entry) /\ e \in Entry
          BY <1>1, <2>2
      <4>2. /\ Len(t) = Len(list) + 1
            /\ \A j \in 1 .. Len(list) + 1 :
                  t[j] = IF j <= hi THEN list[j] ELSE IF j = hi + 1 THEN e ELSE list[j - 1]
          BY <3>1, <4>1, InsertAtEntries
      <4> HIDE DEF t
      <4> QED
          BY <3>2, <4>2 DEF t
    <3>4. list'[hi + 1] = e /\ hi + 1 \in 1 .. Len(list')
        BY <1>1, <3>1, <3>3
    <3>5. Binds(list', 1 .. Len(list'), q, w)
        BY <1>4, <2>2, <3>4, AscendingBinds
    <3>6. ASSUME NEW i \in 1 .. Len(list)
          PROVE  \E j \in 1 .. Len(list') : list'[j] = list[i]
      <4>1. CASE i <= hi
          BY <1>1, <3>1, <3>3, <4>1
      <4>2. CASE i > hi
        <5>1. i + 1 \in 1 .. Len(list') /\ ~(i + 1 <= hi) /\ i + 1 # hi + 1 /\ (i + 1) - 1 = i
            BY <1>1, <3>1, <3>3, <4>2
        <5> QED
            BY <3>3, <5>1
      <4> QED
          BY <1>1, <4>1, <4>2
    <3>7. ASSUME NEW j \in 1 .. Len(list'), list'[j].key # q
          PROVE  \E i \in 1 .. Len(list) : list'[j].key = list[i].key
      <4>1. j # hi + 1
          BY <2>2, <3>4, <3>7
      <4>2. CASE j <= hi
          BY <1>1, <3>1, <3>3, <4>2
      <4>3. CASE j > hi + 1
        <5>1. j - 1 \in 1 .. Len(list) /\ list'[j] = list[j - 1]
            BY <1>1, <3>1, <3>3, <4>3
        <5> QED
            BY <5>1
      <4> QED
          BY <1>1, <4>1, <4>2, <4>3
    <3>8. /\ \A i \in 1 .. Len(list) : list[i].key # q => \E j \in 1 .. Len(list') : list'[j] = list[i]
          /\ \A j \in 1 .. Len(list') : list'[j].key # q => \E i \in 1 .. Len(list) : list'[j].key = list[i].key
        BY <3>6, <3>7
    <3> QED
        BY <1>3, <3>5, <3>8, WriteStep, Zenon
  <2>5. Writes(q, w)
      BY <2>3, <2>4
  <2>6. Dict!Put(q, w)
      BY <1>3, <2>1, <2>5, WritesDictionary DEF Dict!Put
  <2> QED
      BY <1>3, <2>1, <2>6 DEF Dict!Next
<1> QED
    BY <1>6, <1>8, <1>9, <1>10 DEF Finish

\* Appending in a batch binds the key to the value appended.
LEMMA InsertMaps ==
    ASSUME IInv, NEW k \in Keys, NEW v \in Values, Insert(k, v)
    PROVE  Dict!Next
<1> DEFINE e == [key |-> k, value |-> v]
<1>1. /\ Size \in Nat /\ Size = Len(list) /\ list \in Seq(Entry)
      /\ Live = 1 .. Len(list)
      /\ \A x : Binds(list, Live, x, ValueOf(x))
    BY Facts, Mapping DEF IInv, Insert, Size
<1>2. e \in Entry /\ e.key = k /\ e.value = v
    BY DEF Entry
<1>3. list' = Append(list, e) /\ pc' = "idle" /\ UNCHANGED answer
    BY DEF Insert
<1> HIDE DEF e
<1>4. /\ Len(list') = Len(list) + 1
      /\ \A i \in 1 .. Len(list) : list'[i] = list[i]
      /\ list'[Len(list) + 1] = e
    BY <1>1, <1>2, <1>3, AppendProperties
<1>5. Live' = 1 .. Len(list) + 1
    BY <1>3, <1>4 DEF Live, Size
<1>6. Live' \in SUBSET Int
    BY <1>5
<1>7. ValueOf(k)' = v
  <2>1. Len(list) + 1 \in Live' /\ \A j \in Live' : j <= Len(list) + 1
      BY <1>1, <1>5
  <2>2. Binds(list', Live', k, v)
      BY <1>2, <1>4, <2>1 DEF Binds
  <2> QED
      BY <1>6, <2>2, NewValue
<1>8. ASSUME NEW x \in Keys, x # k
      PROVE  ValueOf(x)' = ValueOf(x)
  <2> DEFINE n == Len(list)
             y == ValueOf(x)
  <2>1. Binds(list, 1 .. n, x, y)
      BY <1>1
  <2>2. list'[n + 1].key # x /\ \A i \in 1 .. n : list'[i] = list[i]
      BY <1>2, <1>4, <1>8
  <2>3. n \in Nat /\ \A i \in 1 .. n + 1 : i \in 1 .. n \/ i = n + 1
      BY <1>1
  <2>4. \A i \in 1 .. n : i \in 1 .. n + 1
      BY <1>1
  <2> HIDE DEF n, y
  <2>5. Binds(list', 1 .. n + 1, x, y)
      BY <2>1, <2>2, <2>3, <2>4 DEF Binds
  <2> QED
      BY <1>5, <1>6, <2>5, NewValue DEF n, y
<1>9. Dict!Put(k, v)
    BY <1>3, <1>7, <1>8 DEF Dict!Put
<1> QED
    BY <1>9 DEF Dict!Next

\* A stable sort keeps the last entry of each key last.
LEMMA SortKeepsValues ==
    ASSUME NEW s \in Seq(Entry), NEW f \in StableSortOrders(s), NEW t,
           t = [i \in DOMAIN s |-> s[f[i]]], NEW k, NEW v,
           Binds(s, 1 .. Len(s), k, v)
    PROVE  Binds(t, 1 .. Len(s), k, v)
<1> DEFINE n == Len(s)
<1>1. n \in Nat /\ DOMAIN s = 1 .. n
    BY LenProperties
<1> HIDE DEF n
<1>2. /\ f \in [1 .. n -> 1 .. n]
      /\ \A i, j \in 1 .. n : i < j => f[i] # f[j]
      /\ \A i, j \in 1 .. n : i < j /\ s[f[i]].key = s[f[j]].key => f[i] < f[j]
    BY <1>1 DEF StableSortOrders, SortOrders, n
<1>3. \A i \in 1 .. n : t[i] = s[f[i]]
    BY <1>1
<1>4. f \in Surjection(1 .. n, 1 .. n)
  <2>1. IsFiniteSet(1 .. n)
      BY <1>1, FS_Interval
  <2>2. \A i, j \in 1 .. n : f[i] = f[j] => i = j
      BY <1>1, <1>2
  <2>3. f \in Injection(1 .. n, 1 .. n)
      BY <1>2, <2>2 DEF Injection, IsInjective
  <2> QED
      BY <2>1, <2>3, FS_Injection
<1>5. CASE v = Nothing /\ \A i \in 1 .. n : s[i].key # k
  <2>1. \A i \in 1 .. n : t[i].key # k
      BY <1>2, <1>3, <1>5
  <2> QED
      BY <1>5, <2>1 DEF Binds, n
<1>6. ASSUME NEW i \in 1 .. n, s[i].key = k, s[i].value = v,
             \A j \in 1 .. n : s[j].key = k => j <= i
      PROVE  Binds(t, 1 .. n, k, v)
  <2>1. PICK m \in 1 .. n : f[m] = i
      BY <1>4 DEF Surjection
  <2>2. t[m] = s[i]
      BY <1>3, <2>1
  <2>3. ASSUME NEW j \in 1 .. n, t[j].key = k, m < j
        PROVE  FALSE
    <3>1. f[j] \in 1 .. n /\ s[f[j]].key = k
        BY <1>2, <1>3, <2>3
    <3>2. f[j] <= i
        BY <1>6, <3>1
    <3>3. s[f[m]].key = s[f[j]].key
        BY <1>6, <2>1, <3>1
    <3>4. f[m] < f[j]
        BY <1>2, <2>3, <3>3
    <3>5. f[j] \in Int /\ i \in Int
        BY <3>1
    <3> QED
        BY <2>1, <3>2, <3>4, <3>5
  <2>4. \A j \in 1 .. n : t[j].key = k => j <= m
      BY <1>1, <2>3
  <2> QED
      BY <1>6, <2>2, <2>4 DEF Binds
<1> QED
    BY <1>5, <1>6 DEF Binds, n

\* Sorting the batch is invisible.
LEMMA EndInsertQuiet ==
    ASSUME IInv, EndInsert
    PROVE  UNCHANGED Dict!vars
<1>1. /\ Size \in Nat /\ Size = Len(list) /\ list \in Seq(Entry) /\ DOMAIN list = 1 .. Size
      /\ Live = 1 .. Len(list)
    BY Facts, Mapping DEF IInv, EndInsert, Size
<1>2. PICK f \in StableSortOrders(list) : list' = [i \in DOMAIN list |-> list[f[i]]]
    BY DEF EndInsert
<1>3. /\ pc' = IF Size >= 2 THEN "compact" ELSE "idle"
      /\ to' = 0 /\ from' = 1 /\ UNCHANGED answer
    BY <1>1 DEF EndInsert
<1>4. Len(list') = Size
  <2>1. \A i \in 1 .. Size : list[i] \in Entry
      BY Facts DEF IInv
  <2>2. f \in [1 .. Size -> 1 .. Size]
      BY <1>1, <1>2 DEF StableSortOrders, SortOrders
  <2>3. list' \in [1 .. Size -> Entry]
      BY <1>1, <1>2, <2>1, <2>2
  <2> QED
      BY <1>1, <2>3
<1>5. Live' = 1 .. Size
  <2>1. Live' = IF pc' = "compact" THEN (1 .. 1) \cup (2 .. Size) ELSE 1 .. Size
    <3>1. Size' = Size /\ to' + 1 = 1 /\ from' + 1 = 2
        BY <1>1, <1>3, <1>4 DEF Size
    <3> QED
        BY <3>1 DEF Live
  <2>2. Size >= 2 => (1 .. 1) \cup (2 .. Size) = 1 .. Size
      BY <1>1
  <2> QED
      BY <1>3, <2>1, <2>2
<1>6. Live' \in SUBSET Int
    BY <1>5
<1>7. ASSUME NEW k \in Keys, NEW v, Binds(list, Live, k, v)
      PROVE  Binds(list', Live', k, v)
    BY <1>1, <1>2, <1>5, <1>7, SortKeepsValues
<1> QED
    BY <1>3, <1>6, <1>7, SameValues

\* A round of endInsert's loop drops an earlier entry of the key, or none.
LEMMA CompactQuiet ==
    ASSUME IInv, Compact
    PROVE  UNCHANGED Dict!vars
<1> DEFINE last == list[from + 1]
           t == to'
<1>1. /\ Size \in Nat /\ Size = Len(list) /\ list \in Seq(Entry) /\ to \in Nat /\ from \in Nat
      /\ \A i \in 1 .. Size : list[i] \in Entry /\ list[i].key \in Int
    BY Facts DEF IInv, Size
<1>2. /\ pc = "compact" /\ pc' = "compact"
      /\ to < from /\ from < Size
      /\ \A i \in 1 .. to + 1 : i < to + 1 => list[i].key < list[to + 1].key
      /\ list[to + 1].key <= last.key
  <2>1. to + 1 \in 1 .. to + 1 /\ from + 1 \in from + 1 .. Size
      BY <1>1 DEF Compact
  <2> QED
      BY <1>1, <2>1 DEF Compact, IInv, CompactInv
<1>3. /\ from' = from + 1
      /\ t = IF list[to + 1].key < last.key THEN to + 1 ELSE to
      /\ list' = [list EXCEPT ![t + 1] = last]
      /\ UNCHANGED answer
    BY DEF Compact, Key
<1>4. t \in Nat /\ t <= from /\ t + 1 \in 1 .. Len(list) /\ last \in Entry
    BY <1>1, <1>2, <1>3
<1>5. /\ Len(list') = Len(list)
      /\ \A i \in 1 .. Len(list) : list'[i] = IF i = t + 1 THEN last ELSE list[i]
  <2> DEFINE j == t + 1
  <2>1. list' = [list EXCEPT ![j] = last] /\ j \in 1 .. Len(list) /\ last \in Entry /\ list \in Seq(Entry)
      BY <1>1, <1>3, <1>4
  <2> HIDE DEF j, last
  <2>2. /\ Len(list') = Len(list)
        /\ \A i \in 1 .. Len(list) : list'[i] = IF i = j THEN last ELSE list[i]
      BY <2>1, ExceptSeq
  <2> QED
      BY <2>2 DEF j
<1>6. /\ Live = (1 .. to + 1) \cup (from + 1 .. Size)
      /\ Live' = (1 .. t + 1) \cup (from + 2 .. Size)
    BY <1>1, <1>2, <1>3, <1>5 DEF Live, Size
<1>7. Live' \in SUBSET Int
    BY <1>1, <1>4, <1>6
<1> HIDE DEF last, t
<1>8. /\ \A i \in Live' : i # t + 1 => i \in Live /\ i # from + 1 /\ list'[i] = list[i]
      /\ list'[t + 1] = last /\ t + 1 \in Live' /\ from + 1 \in Live
      /\ \A i \in Live : i \in Live' \/ i = from + 1
  <2>1. \A i \in Live' : i # t + 1 => i \in Live /\ i # from + 1 /\ i \in 1 .. Len(list)
      BY <1>1, <1>2, <1>3, <1>4, <1>6
  <2>2. t + 1 \in Live' /\ from + 1 \in Live /\ \A i \in Live : i \in Live' \/ i = from + 1
      BY <1>1, <1>2, <1>3, <1>4, <1>6
  <2> QED
      BY <1>4, <1>5, <2>1, <2>2
<1>9. ASSUME NEW k \in Keys, NEW v, Binds(list, Live, k, v)
      PROVE  Binds(list', Live', k, v)
  <2>1. CASE v = Nothing /\ \A i \in Live : list[i].key # k
    <3>1. \A i \in Live' : list'[i].key # k
        BY <1>8, <2>1 DEF last
    <3> QED
        BY <2>1, <3>1 DEF Binds
  <2>2. ASSUME NEW i \in Live, list[i].key = k, list[i].value = v,
               \A j \in Live : list[j].key = k => j <= i
        PROVE  Binds(list', Live', k, v)
    <3>1. CASE i = from + 1
      <4>1. ASSUME NEW j \in Live', list'[j].key = k, j > t + 1
            PROVE  FALSE
        <5>1. j \in Live /\ list[j].key = k /\ j \in from + 2 .. Size
            BY <1>1, <1>3, <1>4, <1>6, <1>7, <1>8, <4>1
        <5>2. j <= from + 1
            BY <2>2, <3>1, <5>1
        <5> QED
            BY <1>1, <5>1, <5>2
      <4>2. \A j \in Live' : list'[j].key = k => j <= t + 1
          BY <1>1, <1>4, <1>7, <4>1
      <4>3. list'[t + 1].key = k /\ list'[t + 1].value = v /\ t + 1 \in Live'
          BY <1>8, <2>2, <3>1 DEF last
      <4> QED
          BY <4>2, <4>3 DEF Binds
    <3>2. CASE i # from + 1
      <4>1. last.key = k => from + 1 < i
        <5>1. last.key = k => from + 1 <= i
            BY <1>8, <2>2 DEF last
        <5>2. i \in Int
            BY <1>1, <1>6
        <5> QED
            BY <1>1, <3>2, <5>1, <5>2
      <4>2. i # t + 1
        <5>1. CASE t = to + 1
          <6>1. t + 1 \notin Live \/ t + 1 = from + 1
              BY <1>1, <1>2, <1>4, <1>6, <5>1
          <6> QED
              BY <3>2, <6>1
        <5>2. CASE t = to /\ list[to + 1].key = last.key
          <6>1. to + 1 <= from + 1 /\ to + 1 \in Int /\ from + 1 \in Int
              BY <1>1, <1>2
          <6>2. ASSUME i = t + 1
                PROVE  FALSE
            <7>1. from + 1 < i
                BY <2>2, <4>1, <5>2, <6>2
            <7> QED
                BY <5>2, <6>1, <6>2, <7>1
          <6> QED
              BY <6>2
        <5>3. list[to + 1].key \in Int /\ last.key \in Int
          <6>1. to + 1 \in 1 .. Size /\ from + 1 \in 1 .. Size
              BY <1>1, <1>2
          <6> QED
              BY <1>1, <6>1 DEF last
        <5> QED
            BY <1>2, <1>3, <5>1, <5>2, <5>3
      <4>3. i \in Live' /\ list'[i] = list[i]
          BY <1>8, <3>2, <4>2
      <4>4. ASSUME NEW j \in Live', list'[j].key = k
            PROVE  j <= i
        <5>1. CASE j = t + 1
          <6>1. last.key = k
              BY <1>8, <4>4, <5>1
          <6>2. from + 1 < i /\ t <= from /\ i \in Int /\ j = t + 1
              BY <1>4, <1>7, <4>1, <4>3, <5>1, <6>1
          <6> QED
              BY <1>1, <1>4, <6>2
        <5>2. CASE j # t + 1
            BY <1>8, <2>2, <4>4, <5>2
        <5> QED
            BY <5>1, <5>2
      <4> QED
          BY <2>2, <4>3, <4>4 DEF Binds
    <3> QED
        BY <3>1, <3>2
  <2> QED
      BY <1>9, <2>1, <2>2 DEF Binds
<1> QED
    BY <1>3, <1>7, <1>9, SameValues

\* Erasing what the loop left behind is invisible.
LEMMA CompactEndQuiet ==
    ASSUME IInv, CompactEnd
    PROVE  UNCHANGED Dict!vars
<1>1. /\ Size \in Nat /\ Size = Len(list) /\ list \in Seq(Entry) /\ to \in Nat /\ from = Size
      /\ \A i \in 1 .. Size : list[i] \in Entry
      /\ to < Size /\ pc = "compact"
    BY Facts DEF IInv, CompactInv, CompactEnd, Size
<1>2. /\ list' = SubSeq(list, 1, to + 1) /\ pc' = "idle" /\ UNCHANGED answer
    BY DEF CompactEnd
<1>3. Len(list') = to + 1 /\ \A i \in 1 .. to + 1 : list'[i] = list[i]
    BY <1>1, <1>2, SubSeqProperties
<1>4. Live = 1 .. to + 1 /\ Live' = 1 .. to + 1
    BY <1>1, <1>2, <1>3 DEF Live, Size
<1>5. ASSUME NEW k \in Keys, NEW v, Binds(list, Live, k, v)
      PROVE  Binds(list', Live', k, v)
    BY <1>3, <1>4, <1>5 DEF Binds
<1>6. Live' \in SUBSET Int
    BY <1>4
<1> QED
    BY <1>2, <1>5, <1>6, SameValues

\* Every step of the map is a step of the dictionary or leaves it alone.
LEMMA MapStep ==
    ASSUME IInv, [Next]_vars
    PROVE  [Dict!Next]_(Dict!vars)
<1>1. CASE UNCHANGED Dict!vars
    BY <1>1
<1>2. CASE Clear
    BY <1>2, ClearStep DEF Dict!Next
<1>3. ASSUME NEW k \in Keys, NEW v \in Values, Insert(k, v)
      PROVE  Dict!Next
    BY <1>3, InsertMaps
<1> QED
    BY <1>1, <1>2, <1>3, QuietStep, FinishMaps, EndInsertQuiet, CompactQuiet, CompactEndQuiet DEF Next

\* Map keeps Dictionary's promise.
THEOREM MapImplementsDictionary == Spec => IsDictionary
<1>1. Init => Dict!Init
  <2>1. SUFFICES ASSUME Init
                 PROVE  Dict!Init
      OBVIOUS
  <2>2. Live = {} /\ answer = Nothing
      BY <2>1 DEF Init, Live, Size
  <2>3. \A k \in Keys : ValueOf(k) = Nothing
      BY <2>2 DEF ValueOf
  <2> QED
      BY <2>2, <2>3 DEF Dict!Init
<1>2. IInv /\ [Next]_vars => [Dict!Next]_(Dict!vars)
    BY MapStep
<1> QED
    BY <1>1, <1>2, Invariance, PTL DEF Spec, IsDictionary, Dict!Spec
=============================================================================
