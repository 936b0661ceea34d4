------------------------------ MODULE OrderedMap ------------------------------
(***************************************************************************)
(* What a B+ tree gives (BTree.h): an ordered map.  An entry is put under  *)
(* a key that has none.  One that is taken out has the least key that is   *)
(* not below x; it may be missed unless its key is x.                      *)
(***************************************************************************)
EXTENDS Naturals

CONSTANTS Keys, NoEntry

ValueOf(k) == 100 + k   \* a value for each key

VARIABLES
  entries,   \* the values, by key
  taken      \* what the last call returned

NotBelow(x) == {k \in DOMAIN entries : k >= x}

Init == taken = NoEntry /\ \E ks \in SUBSET Keys : entries = [k \in ks |-> ValueOf(k)]

Put(k) ==
  /\ k \notin DOMAIN entries
  /\ entries' = [j \in DOMAIN entries \union {k} |-> IF j = k THEN ValueOf(k) ELSE entries[j]]
  /\ taken' = NoEntry

TakeLowerBound(x) ==
  \/ x \notin DOMAIN entries /\ taken' = NoEntry /\ UNCHANGED entries
  \/ \E k \in NotBelow(x) :
       /\ \A j \in NotBelow(x) : k <= j
       /\ taken' = [key |-> k, value |-> entries[k]]
       /\ entries' = [j \in DOMAIN entries \ {k} |-> entries[j]]

Next == \E k \in Keys : Put(k) \/ TakeLowerBound(k)
Spec == Init /\ [][Next]_<<entries, taken>>
================================================================================
