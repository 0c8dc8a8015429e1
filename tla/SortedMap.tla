----------------------------- MODULE SortedMap -----------------------------
(***************************************************************************)
(* lib/map.h: the map behind the resources, the JSON objects and the HTTP   *)
(* headers.  A vector sorted by key, searched by bisection; between         *)
(* beginInsert and endInsert entries are appended unsorted, and endInsert   *)
(* sorts them and drops the earlier ones of equal keys.                     *)
(*                                                                          *)
(* One caller works on the map.  A call of an operation that searches is a  *)
(* step, each round of a loop is a step, and so is what the operation does  *)
(* with the position found.  Positions are 0-based as in the code: the      *)
(* entry at position i is list[i + 1].                                      *)
(***************************************************************************)
EXTENDS Integers, Sequences

CONSTANTS Keys, Values, Nothing,
          MaxLength    \* bound: entries in the vector

ASSUME SortedMapAssumption ==
    /\ Keys \subseteq Int
    /\ Nothing \notin Values
    /\ MaxLength \in Nat

Entry == [key : Keys, value : Values]

VARIABLES list,       \* the vector
          inserting,  \* between beginInsert and endInsert
          pc,         \* "idle", in the loop of "search" or of endInsert, or "found"
          op,         \* the operation under way, and its key and value
          lo, hi,     \* search: the bounds not yet probed; hi: the position returned
          found,      \* search: the reference parameter
          to, from,   \* endInsert: the iterators
          answer      \* the value the last find or take saw

search == <<lo, hi, found>>
compaction == <<to, from>>
vars == <<list, inserting, pc, op, search, compaction, answer>>

Op == [name : {"find", "take", "erase"}, key : Keys, value : {Nothing}]
          \cup [name : {"assign"}, key : Keys, value : Values]

NoOp == [name |-> "none"]

TypeOK ==
    /\ list \in Seq(Entry)
    /\ inserting \in BOOLEAN
    /\ pc \in {"idle", "search", "found", "compact"}
    /\ op \in Op \cup {NoOp}
    /\ op \in Op <=> pc \in {"search", "found"}
    /\ lo \in Int /\ hi \in Int
    /\ found \in BOOLEAN
    /\ to \in Nat /\ from \in Nat
    /\ answer \in Values \cup {Nothing}

Init ==
    /\ list = <<>>
    /\ inserting = FALSE
    /\ pc = "idle"
    /\ op = NoOp
    /\ lo = -1 /\ hi = 0
    /\ found = FALSE
    /\ to = 0 /\ from = 1
    /\ answer = Nothing

Key(i) == list[i + 1].key
Size == Len(list)

-----------------------------------------------------------------------------
\* find, operator[] (and the assignment through it), take and erase begin with
\* search.  Their users do not call them between beginInsert and endInsert.
Call(o) ==
    /\ pc = "idle"
    /\ ~inserting
    /\ op' = o
    /\ lo' = -1
    /\ hi' = Size
    /\ found' = FALSE
    /\ pc' = "search"
    /\ UNCHANGED <<list, inserting, compaction, answer>>

Mid == (lo + hi) \div 2

\* The outcomes of one comparison with the key in the middle.
Hit == op.key = Key(Mid) /\ found' = TRUE /\ hi' = Mid /\ pc' = "found" /\ UNCHANGED lo
RightNotFar == op.key > Key(Mid) /\ lo' = Mid - 1 /\ UNCHANGED <<hi, found, pc>>
Right == op.key > Key(Mid) /\ lo' = Mid /\ UNCHANGED <<hi, found, pc>>
LeftTooFar == op.key < Key(Mid) /\ hi' = Mid - 1 /\ UNCHANGED <<lo, found, pc>>
Left == op.key < Key(Mid) /\ hi' = Mid /\ UNCHANGED <<lo, found, pc>>

\* One round of the loop.
Probe ==
    /\ pc = "search"
    /\ lo < hi - 1
    /\ Hit \/ Right \/ Left
    /\ UNCHANGED <<list, inserting, op, compaction, answer>>

\* The loop ends without a hit.
Miss ==
    /\ pc = "search"
    /\ lo >= hi - 1
    /\ pc' = "found"
    /\ UNCHANGED <<list, inserting, op, search, compaction, answer>>

InsertAt(s, i, e) == SubSeq(s, 1, i) \o <<e>> \o SubSeq(s, i + 1, Len(s))
EraseAt(s, i) == SubSeq(s, 1, i) \o SubSeq(s, i + 2, Len(s))

Find ==
    /\ op.name = "find"
    /\ answer' = IF found THEN list[hi + 1].value ELSE Nothing
    /\ UNCHANGED list

\* map[key] = value: a key that is missing is inserted at the position found.
AssignAfter ==
    /\ op.name = "assign"
    /\ found \/ Len(list) < MaxLength
    /\ list' = IF found THEN [list EXCEPT ![hi + 1].value = op.value]
               ELSE InsertAt(list, IF hi < Size THEN hi + 1 ELSE hi, [key |-> op.key, value |-> op.value])
    /\ UNCHANGED answer

Assign ==
    /\ op.name = "assign"
    /\ found \/ Len(list) < MaxLength
    /\ list' = IF found THEN [list EXCEPT ![hi + 1].value = op.value]
               ELSE InsertAt(list, hi, [key |-> op.key, value |-> op.value])
    /\ UNCHANGED answer

\* take throws if there is no such key, and then changes nothing.
Take ==
    /\ op.name = "take"
    /\ answer' = IF found THEN list[hi + 1].value ELSE Nothing
    /\ list' = IF found THEN EraseAt(list, hi) ELSE list

Erase ==
    /\ op.name = "erase"
    /\ list' = IF found THEN EraseAt(list, hi) ELSE list
    /\ UNCHANGED answer

\* The operation uses the position and returns.
Finish ==
    /\ pc = "found"
    /\ Find \/ Assign \/ Take \/ Erase
    /\ pc' = "idle"
    /\ op' = NoOp
    /\ lo' = -1 /\ hi' = 0 /\ found' = FALSE
    /\ UNCHANGED <<inserting, compaction>>

Clear ==
    /\ pc = "idle"
    /\ ~inserting
    /\ list' = <<>>
    /\ UNCHANGED <<inserting, pc, op, search, compaction, answer>>

-----------------------------------------------------------------------------
BeginInsert ==
    /\ pc = "idle"
    /\ ~inserting
    /\ inserting' = TRUE
    /\ UNCHANGED <<list, pc, op, search, compaction, answer>>

Insert(k, v) ==
    /\ pc = "idle"
    /\ inserting
    /\ Len(list) < MaxLength
    /\ list' = Append(list, [key |-> k, value |-> v])
    /\ UNCHANGED <<inserting, pc, op, search, compaction, answer>>

\* The orders in which std::sort, and std::stable_sort, may put the entries.
SortOrders(s) == {f \in [DOMAIN s -> DOMAIN s] :
    \A i, j \in DOMAIN s : i < j => s[f[i]].key <= s[f[j]].key /\ f[i] # f[j]}

StableSortOrders(s) == {f \in SortOrders(s) :
    \A i, j \in DOMAIN s : i < j /\ s[f[i]].key = s[f[j]].key => f[i] < f[j]}

\* endInsert up to its loop.  With fewer than two entries there is none.
EndInsertUnstable ==
    /\ pc = "idle"
    /\ inserting
    /\ inserting' = FALSE
    /\ \E f \in SortOrders(list) : list' = [i \in DOMAIN list |-> list[f[i]]]
    /\ pc' = IF Len(list) >= 2 THEN "compact" ELSE "idle"
    /\ to' = 0
    /\ from' = 1
    /\ UNCHANGED <<op, search, answer>>

EndInsert ==
    /\ pc = "idle"
    /\ inserting
    /\ inserting' = FALSE
    /\ \E f \in StableSortOrders(list) : list' = [i \in DOMAIN list |-> list[f[i]]]
    /\ pc' = IF Len(list) >= 2 THEN "compact" ELSE "idle"
    /\ to' = 0
    /\ from' = 1
    /\ UNCHANGED <<op, search, answer>>

\* A round of the loop: the entry at from goes after the entry at to, or, with
\* the same key, in its place.
Compact ==
    /\ pc = "compact"
    /\ from < Size
    /\ to' = IF Key(to) < Key(from) THEN to + 1 ELSE to
    /\ list' = [list EXCEPT ![to' + 1] = list[from + 1]]
    /\ from' = from + 1
    /\ UNCHANGED <<inserting, pc, op, search, answer>>

\* list.erase(to + 1, list.end()).
CompactEnd ==
    /\ pc = "compact"
    /\ from = Size
    /\ list' = SubSeq(list, 1, to + 1)
    /\ pc' = "idle"
    /\ to' = 0 /\ from' = 1
    /\ UNCHANGED <<inserting, op, search, answer>>

-----------------------------------------------------------------------------
Next ==
    \/ \E o \in Op : Call(o)
    \/ Probe \/ Miss \/ Finish
    \/ Clear
    \/ BeginInsert \/ EndInsert \/ Compact \/ CompactEnd
    \/ \E k \in Keys, v \in Values : Insert(k, v)

Spec == Init /\ [][Next]_vars /\ WF_vars(Probe \/ Miss)

-----------------------------------------------------------------------------
\* Outside a batch of inserts no key is there twice and the keys ascend.
Sorted ==
    ~inserting /\ pc # "compact" =>
        \A i, j \in DOMAIN list : i < j => list[i].key < list[j].key

\* The comment on search: "The position of the first key which is lexically
\* greater than or equal to the given key or, if none such exists, size()",
\* and found says whether the key is there.
SearchReturns ==
    pc = "found" =>
        /\ hi \in 0 .. Size
        /\ \A i \in 0 .. hi - 1 : Key(i) < op.key
        /\ \A i \in hi .. Size - 1 : Key(i) >= op.key
        /\ found <=> \E i \in 0 .. Size - 1 : Key(i) = op.key

\* The bisection comes to an end.
SearchEnds == pc = "search" ~> pc = "found"

\* Entries that hold something: in the loop of endInsert those between the
\* iterators have been moved from.
Live == IF pc = "compact" THEN (1 .. to + 1) \cup (from + 1 .. Size) ELSE 1 .. Size

\* The value of a key: that of its last entry.
ValueOf(k) ==
    LET at == {i \in Live : list[i].key = k} IN
    IF at = {} THEN Nothing
    ELSE list[CHOOSE i \in at : \A j \in at : j <= i].value

Dict == INSTANCE Dictionary WITH dict <- [k \in Keys |-> ValueOf(k)]

IsDictionary == Dict!Spec
=============================================================================
