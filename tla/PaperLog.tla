------------------------------ MODULE PaperLog ------------------------------
(***************************************************************************)
(* The event log of the offline paper scheduler (paper_scheduler.py), as   *)
(* its replay: one row per slot.  An operator below is one BEGIN IMMEDIATE *)
(* transaction of PaperScheduleState, for a caller that sampled its clock  *)
(* at time t.  Attempts are numbered per slot, so that an attempt names    *)
(* its owner; equal bytes are equal values.                                *)
(***************************************************************************)
EXTENDS Naturals, FiniteSets

CONSTANTS
    NSlots,    \* slots that are looked at
    Cadence,   \* length of a slot's window (4 hours)
    Lease,     \* how long a claim is respected (15 minutes)
    None       \* nothing prepared

ASSUME SlotAssumption ==
    /\ NSlots \in Nat \ {0}
    /\ Cadence \in Nat
    /\ Lease \in Nat \ {0}
    /\ Lease < Cadence

Slots == 1..NSlots
\* Time 0 is before the first slot is due.
Due(k) == (k - 1) * Cadence + 1
Expires(k) == k * Cadence + 1
Active(k, t) == Due(k) <= t /\ t < Expires(k)

VARIABLES
    now,       \* the clock
    paper,     \* what _project_events makes of the log, per slot
    paperLog   \* time of its last event, and how many there are

paperVars == <<paper, paperLog>>

Terminals == {"SUCCEEDED", "MISSED", "EXPIRED"}

PaperInit ==
    /\ now = 0
    /\ paper = [k \in Slots |->
                  [status |-> "UNSEEN", attempt |-> 0, lease |-> 0, prepared |-> None]]
    /\ paperLog = [at |-> 0, events |-> 0]

PaperKnown == {k \in Slots : paper[k].status # "UNSEEN"}

PaperAppend(n, t) ==
    paperLog' = [at |-> IF n = 0 THEN paperLog.at ELSE t, events |-> paperLog.events + n]

(***************************************************************************)
(* record_gaps: known earlier slots that are over, and the slots between   *)
(* the latest known one and the current one.                               *)
(***************************************************************************)
Overdue(k, t) ==
    {j \in PaperKnown : j < k /\ paper[j].status \notin Terminals /\ t >= Expires(j)}

Unseen(k) ==
    {j \in Slots : /\ PaperKnown # {}
                   /\ j < k
                   /\ \A i \in PaperKnown : i < j}

CloseGaps(k, t) ==
    /\ paper' = [j \in Slots |->
                   CASE j \in Overdue(k, t) -> [paper[j] EXCEPT !.status = "EXPIRED"]
                     [] j \in Unseen(k) -> [paper[j] EXCEPT !.status = "MISSED"]
                     [] OTHER -> paper[j]]
    /\ PaperAppend(Cardinality(Overdue(k, t)) + Cardinality(Unseen(k)), t)

(***************************************************************************)
(* claim.                                                                  *)
(***************************************************************************)
PaperClaimable(k, t) ==
    /\ paper[k].status \notin Terminals
    /\ Active(k, t)
    /\ paper[k].status \in {"CLAIMED", "PREPARED"} => t >= paper[k].lease
    /\ t >= paperLog.at

\* Mutant: a new attempt starts over.
ClaimPaperAfresh(k, t) ==
    /\ paper' = [paper EXCEPT ![k].status = "CLAIMED", ![k].prepared = None,
                              ![k].attempt = @ + 1,
                              ![k].lease = t + Lease]
    /\ PaperAppend(1, t)

ClaimPaper(k, t) ==
    /\ paper' = [paper EXCEPT ![k].status = IF paper[k].prepared = None THEN "CLAIMED" ELSE "PREPARED",
                              ![k].attempt = @ + 1,
                              ![k].lease = t + Lease]
    /\ PaperAppend(1, t)

(***************************************************************************)
(* prepare, succeed and fail compare the attempt; none looks at the lease. *)
(***************************************************************************)
OwnsPaper(k, attempt, status) ==
    paper[k].status = status /\ paper[k].attempt = attempt

PreparePaper(k, decided, t) ==
    /\ paper' = [paper EXCEPT ![k].status = "PREPARED",
                              ![k].prepared = [attempt |-> paper[k].attempt, at |-> decided]]
    /\ PaperAppend(1, t)

FinishPaper(k, status, t) ==
    /\ paper' = [paper EXCEPT ![k].status = status]
    /\ PaperAppend(1, t)
=============================================================================
