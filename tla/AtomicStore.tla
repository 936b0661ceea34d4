------------------------------- MODULE AtomicStore -------------------------------
(***************************************************************************)
(* What a store with journaled blocks promises: its content (the header    *)
(* and the blocks that are edited in place) changes from one commit to the *)
(* next as a whole.  A commit that has returned survives every crash; one  *)
(* that is under way is found done or not done.                            *)
(***************************************************************************)
CONSTANTS Contents,   \* the contents a store may have
          Initial     \* the content of a new store

VARIABLES current,    \* what opening the store now would find
          stable      \* the content of the last commit that is durable

vars == <<current, stable>>

Init == current = Initial /\ stable = Initial

\* A commit takes effect for processes that open the store from now on.
Commit ==
  /\ current = stable
  /\ current' \in Contents
  /\ UNCHANGED stable

Sync == stable' = current /\ UNCHANGED current

\* A crash may undo a commit that is not durable, and nothing else.
Crash ==
  /\ current' \in {current, stable}
  /\ stable' = current'

Next == Commit \/ Sync \/ Crash

Spec == Init /\ [][Next]_vars
=============================================================================
