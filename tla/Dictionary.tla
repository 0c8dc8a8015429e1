----------------------------- MODULE Dictionary -----------------------------
(***************************************************************************)
(* What lib/map.h's Map promises its users: a finite function from keys to  *)
(* values that the operations change one key at a time, whatever sorting,   *)
(* searching and removing of duplicates goes on below.                      *)
(***************************************************************************)
CONSTANTS Keys, Values, Nothing    \* Nothing: the key is not in the map

VARIABLES dict,      \* the value of each key
          answer     \* what the last find, operator[] or take saw

vars == <<dict, answer>>

Init == /\ dict = [k \in Keys |-> Nothing]
        /\ answer = Nothing

Put(k, v) == /\ dict' = [dict EXCEPT ![k] = v]
             /\ UNCHANGED answer

Find(k) == /\ answer' = dict[k]
           /\ UNCHANGED dict

Take(k) == /\ answer' = dict[k]
           /\ dict' = [dict EXCEPT ![k] = Nothing]

Erase(k) == /\ dict' = [dict EXCEPT ![k] = Nothing]
            /\ UNCHANGED answer

Clear == /\ dict' = [k \in Keys |-> Nothing]
         /\ UNCHANGED answer

Next == \/ \E k \in Keys : Find(k) \/ Take(k) \/ Erase(k) \/ \E v \in Values : Put(k, v)
        \/ Clear

Spec == Init /\ [][Next]_vars
=============================================================================
