------------------------------ MODULE TileDelivery ------------------------------
(***************************************************************************)
(* What a query promises its caller: it hands out the results of every     *)
(* tile exactly once, those of one tile in the order in which they were    *)
(* found, says that it has ended only when nothing is left, and can be     *)
(* destroyed at any time.                                                  *)
(***************************************************************************)
EXTENDS Naturals, Sequences, Functions

CONSTANTS Queries, Results \* Results: pairs <<tile, number within the tile>>

VARIABLES expected,  \* what each query is to hand out
          handedOut, \* what each has handed out, in that order
          state      \* "none", "open", "ended" or "destroyed"

vars == <<expected, handedOut, state>>

Init ==
  /\ expected \in [Queries -> SUBSET Results]
  /\ handedOut = [q \in Queries |-> <<>>]
  /\ state = [q \in Queries |-> "none"]

Open(q) ==
  /\ state[q] = "none"
  /\ state' = [state EXCEPT ![q] = "open"]
  /\ UNCHANGED <<expected, handedOut>>

Left(q) == expected[q] \ Range(handedOut[q])

Deliver(q) ==
  /\ state[q] = "open"
  /\ \E r \in Left(q) :
       /\ \A s \in Left(q) : s[1] = r[1] => r[2] =< s[2]
       /\ handedOut' = [handedOut EXCEPT ![q] = Append(@, r)]
  /\ UNCHANGED <<expected, state>>

End(q) ==
  /\ state[q] = "open"
  /\ Left(q) = {}
  /\ state' = [state EXCEPT ![q] = "ended"]
  /\ UNCHANGED <<expected, handedOut>>

Destroy(q) ==
  /\ state[q] \in {"open", "ended"}
  /\ state' = [state EXCEPT ![q] = "destroyed"]
  /\ UNCHANGED <<expected, handedOut>>

Next == \E q \in Queries : Open(q) \/ Deliver(q) \/ End(q) \/ Destroy(q)

Spec == Init /\ [][Next]_vars
=============================================================================
