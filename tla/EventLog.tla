------------------------------ MODULE EventLog ------------------------------
(***************************************************************************)
(* What the event store of the replacement runtime promises, with no file, *)
(* directory or process in it: one sequence of events that only grows at   *)
(* its end, next to the confirmation that a loss of power cannot take an   *)
(* event back.  Nothing is appended to an event that is not confirmed, so  *)
(* that a loss of power takes the last event at most.                      *)
(***************************************************************************)
EXTENDS Naturals, Sequences

CONSTANT Body           \* what one event says

VARIABLES
    log,        \* the events that a reader sees
    confirmed   \* how many of them a loss of power leaves

logVars == <<log, confirmed>>

Init ==
    /\ log = <<>>
    /\ confirmed = 0

AppendEvent ==
    /\ confirmed = Len(log)
    /\ \E b \in Body : log' = Append(log, b)
    /\ UNCHANGED confirmed

Confirm ==
    /\ confirmed' = Len(log)
    /\ UNCHANGED log

Lose ==
    \E k \in confirmed .. Len(log) :
        /\ log' = SubSeq(log, 1, k)
        /\ confirmed' = k

Next == AppendEvent \/ Confirm \/ Lose

Spec == Init /\ [][Next]_logVars
=============================================================================
