---------------------------- MODULE ResultChain ----------------------------
(***************************************************************************)
(* What the System Paper schedule promises, with no log, lease, worker or  *)
(* file in it: evidence is one gap-free chain of sealed slots, at most one *)
(* slot is being worked on durably, and a slot that was closed without a   *)
(* result ends the chain for good.                                         *)
(***************************************************************************)
EXTENDS Naturals

CONSTANT Slots          \* the natural 4 hour slots, numbered in order

VARIABLES
  sealed,     \* the slots whose result is part of the chain
  pending,    \* the slot with a durable input or result that is not sealed
  closed      \* the slots given up as MISSED or EXPIRED

chainVars == <<sealed, pending, closed>>

Init ==
  /\ sealed = {}
  /\ pending = {}
  /\ closed = {}

\* A slot may extend the chain when it is adjacent to the last sealed slot, or
\* starts the chain, and nothing before it was given up.
Extends(s) ==
  /\ \A e \in sealed : e < s
  /\ sealed # {} => s - 1 \in sealed
  /\ \A e \in closed : s < e

\* Work on a slot becomes durable only when no other slot has durable work.
Open(s) ==
  /\ pending = {}
  /\ s \notin sealed
  /\ Extends(s)
  /\ pending' = {s}
  /\ UNCHANGED <<sealed, closed>>

\* Durable work ends in one way only: the slot is sealed.
Seal(s) ==
  /\ s \in pending
  /\ sealed' = sealed \cup {s}
  /\ pending' = {}
  /\ UNCHANGED closed

\* Slots nobody captured in their window are given up, never one with durable work.
Close(S) ==
  /\ S # {}
  /\ S \cap (sealed \cup pending \cup closed) = {}
  /\ closed' = closed \cup S
  /\ UNCHANGED <<sealed, pending>>

Next ==
  \/ \E s \in Slots : Open(s) \/ Seal(s)
  \/ \E S \in SUBSET Slots : Close(S)

Spec == Init /\ [][Next]_chainVars
=============================================================================
