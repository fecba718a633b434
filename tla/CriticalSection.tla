-------------------------- MODULE CriticalSection ---------------------------
(***************************************************************************)
(* What the semaphore demo of game/game.c promises: every child enters its *)
(* critical section at most once and leaves it, with at most Capacity      *)
(* children inside at a time.                                              *)
(***************************************************************************)
EXTENDS Integers, FiniteSets

CONSTANTS
  Child,      \* the processes that enter
  Capacity    \* how many may be inside together

VARIABLE phase

Init == phase = [c \in Child |-> "before"]

Inside == {c \in Child : phase[c] = "inside"}

Enter(c) ==
  /\ phase[c] = "before"
  /\ Cardinality(Inside) < Capacity
  /\ phase' = [phase EXCEPT ![c] = "inside"]

Leave(c) ==
  /\ phase[c] = "inside"
  /\ phase' = [phase EXCEPT ![c] = "after"]

Next == \E c \in Child : Enter(c) \/ Leave(c)

Spec == Init /\ [][Next]_phase

=============================================================================
