-------------------------------- MODULE Json --------------------------------
(***************************************************************************)
(* lib/impl/json.cpp: JSON values, how they are compared and copied.        *)
(*                                                                          *)
(* An object is a function from its keys to values: its Map keeps one entry *)
(* for each key (see SortedMap).  A string is a sequence of characters, a   *)
(* number a double.                                                         *)
(***************************************************************************)
EXTENDS Double

Undefined == [type |-> "Undefined"]     \* what operator[] leaves at a new key
Null == [type |-> "Null"]
Boolean(b) == [type |-> "Boolean", boolean |-> b]
Number(x) == [type |-> "Number", number |-> x]
String(s) == [type |-> "String", str |-> s]
Array(s) == [type |-> "Array", elements |-> s]
Object(f) == [type |-> "Object", entries |-> f]

Localized == "_ripc:localized:"    \* in front of a key: its value is one per language

\* operator[] of an object
Entry(v, key) == IF key \in DOMAIN v.entries THEN v.entries[key] ELSE Undefined
With(v, key, w) == Object([k \in DOMAIN v.entries \cup {key} |-> IF k = key THEN w ELSE v.entries[k]])

Digits == <<"0", "1", "2", "3", "4", "5", "6", "7", "8", "9">>
IsDigit(c) == c \in ToSet(Digits)

RECURSIVE Equal(_, _), Copy(_)

\* operator==: undefined equals nothing, not even undefined.
Equal(v, w) ==
    /\ v.type = w.type
    /\ CASE v.type = "Undefined" -> FALSE
         [] v.type = "Null"      -> TRUE
         [] v.type = "Boolean"   -> v.boolean = w.boolean
         [] v.type = "String"    -> v.str = w.str
         [] v.type = "Number"    -> SameNumber(v.number, w.number)
         [] v.type = "Array"     -> /\ Len(v.elements) = Len(w.elements)
                                    /\ \A i \in DOMAIN v.elements : Equal(v.elements[i], w.elements[i])
         [] v.type = "Object"    -> /\ DOMAIN v.entries = DOMAIN w.entries
                                    /\ \A k \in DOMAIN v.entries : Equal(v.entries[k], w.entries[k])

\* copy: "return boolean" takes the constructor from a double, so the copy of a
\* Boolean is a number.
Copy(v) ==
    CASE v.type = "Boolean" -> Number(Exactly(FALSE, IF v.boolean THEN 1 ELSE 0, 0))
      [] v.type = "Array"   -> Array([i \in DOMAIN v.elements |-> Copy(v.elements[i])])
      [] v.type = "Object"  -> Object([k \in DOMAIN v.entries |-> Copy(v.entries[k])])
      [] OTHER              -> v

=============================================================================
