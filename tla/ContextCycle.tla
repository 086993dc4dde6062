---------------------------- MODULE ContextCycle ----------------------------
(***************************************************************************)
(* The context-complete cycle of one slot (context_cycle_orchestrator.py): *)
(* account rates, offline paper run, perpetual context, cost binding and   *)
(* context sidecar, in that order, over three logs of their own and one    *)
(* directory.  Several invocations run at once, and both schedulers have   *)
(* command lines of their own: the paper cycle alone (paper and heartbeat) *)
(* and the sidecar alone, which binds the documents its operator names.    *)
(* All of them name one output directory (another one is refused).         *)
(*                                                                         *)
(* One action is one transaction or one publication.  A clock sample is    *)
(* part of the transaction it is first used in; a sample that a later      *)
(* transaction uses again is kept in proc.                                 *)
(***************************************************************************)
EXTENDS ContextLog

CONSTANTS
    Orchestrators,  \* may be launched as run_context_complete_orchestration
    Runners,        \* may be launched as run_due_paper_cycle alone
    Sidecars,       \* may be launched as run_context_complete_paper_cycle alone
    HandTimes,      \* when somebody captured a source by hand, outside of any schedule
    Horizon,        \* bound: the last tick that is looked at
    MaxFaults       \* bound: crashes and failed captures

ASSUME BoundAssumption ==
    /\ Horizon \in Nat /\ Horizon < Expires(NSlots)
    /\ MaxFaults \in Nat

ASSUME HandAssumption == HandTimes \subseteq Nat

Workers == Orchestrators \cup Runners \cup Sidecars

\* What the rows may hold: a capture or a paper run, named by its attempt and its time, a
\* reference to a run, a bundle, and a bundle that was returned for a slot.
Captures == [attempt : Nat, at : Nat]
References == [slot : Slots, run : Captures]
Bundles == [account : Captures, paper : Captures, perpetual : Captures]
Returned == [slot : Slots, bundle : Bundles]

ASSUME NoneAssumption == None \notin Captures \cup References \cup Bundles \cup Returned

VARIABLES
    cycle,      \* what the orchestrator's _project_events makes of its log
    disk,       \* published files, per slot
    proc,       \* the invocations
    faults      \* how many faults have happened

vars == <<now, paperVars, contextVars, cycle, disk, proc, faults>>

Blobs == {"ACCOUNT", "PERPETUAL", "COST_BINDING"}
Stages == {"NONE", "ACCOUNT", "PAPER", "PERPETUAL", "COST_BINDING"}

\* Where an invocation is inside a nested call, and where it is outside of one.
SubCalls == {"paperClaim", "capture", "paperPublish", "paperSucceed", "paperSnapshot", "paperFail",
             "reference", "bundle", "contextPublish", "contextSucceed", "contextSnapshot",
             "contextFail", "seal"}
PCs == {"idle", "ended", "account", "paper", "binding", "context", "failing"} \cup SubCalls

NoSub == [slot |-> 0, at |-> 0, attempt |-> 0, outcome |-> "NONE"]
NoProc == [pc |-> "idle", slot |-> 0, attempt |-> 0, sub |-> NoSub]

Init ==
    /\ PaperInit
    /\ ContextInit
    /\ cycle = [k \in Slots |->
                  [status |-> "UNSEEN", stage |-> "NONE", attempt |-> 0, lease |-> 0,
                   account |-> None, paper |-> None, perpetual |-> None, context |-> None]]
    /\ disk = [k \in Slots |->
                 [blobs |-> {}, paper |-> None, paperSnapshot |-> 0,
                  context |-> None, contextSnapshot |-> 0]]
    /\ proc = [w \in Workers |-> NoProc]
    /\ faults = 0

\* What a call knew is gone when it is left, and all of it when the process ends.
Goto(w, pc) ==
    proc' = [proc EXCEPT ![w] =
               CASE pc = "ended" -> [NoProc EXCEPT !.pc = "ended"]
                 [] pc \in SubCalls -> [@ EXCEPT !.pc = pc]
                 [] OTHER -> [@ EXCEPT !.pc = pc, !.sub = NoSub]]

\* Into a nested call: its slot and its clock sample, what claim answered.
Call(w, pc, k, t, attempt, outcome) ==
    proc' = [proc EXCEPT ![w].pc = pc,
                         ![w].sub = [slot |-> k, at |-> t,
                                     attempt |-> attempt, outcome |-> outcome]]

\* An exception of a nested call reaches the orchestrator, if there is one.
Orchestrating(w) == proc[w].slot # 0
Escape(w) == IF Orchestrating(w) THEN "failing" ELSE "ended"

\* The clock.  What has ended may be launched again in the next tick.
Tick ==
    /\ now < Horizon
    /\ now' = now + 1
    /\ proc' = [w \in Workers |-> IF proc[w].pc = "ended" THEN NoProc ELSE proc[w]]
    /\ UNCHANGED <<paperVars, contextVars, cycle, disk, faults>>

-----------------------------------------------------------------------------
(***************************************************************************)
(* The orchestration log.  Every event lies in its slot and, other than a  *)
(* claim, before the lease ends; the lease ends with the slot.  An         *)
(* invocation whose claim answers BUSY or ALREADY_SUCCEEDED ends there.    *)
(***************************************************************************)
\* Mutant: the lease is not cut off at the end of the slot.
LeaseUntilUncut(k, t) == t + Lease

LeaseUntil(k, t) == IF t + Lease < Expires(k) THEN t + Lease ELSE Expires(k)

CycleFree(k, t) ==
    /\ cycle[k].status # "SUCCEEDED"
    /\ cycle[k].status = "CLAIMED" => t >= cycle[k].lease

ClaimCycle(w) ==
    \E k \in Slots :
        /\ w \in Orchestrators
        /\ proc[w].pc = "idle"
        /\ Active(k, now)
        /\ IF CycleFree(k, now)
             THEN /\ cycle' = [cycle EXCEPT ![k].status = "CLAIMED",
                                            ![k].attempt = @ + 1,
                                            ![k].lease = LeaseUntil(k, now)]
                  /\ proc' = [proc EXCEPT ![w] = [NoProc EXCEPT !.pc = "account", !.slot = k,
                                                     !.attempt = cycle[k].attempt + 1]]
             ELSE Goto(w, "ended") /\ UNCHANGED cycle
        /\ UNCHANGED <<now, paperVars, contextVars, disk, faults>>

Row(w) == cycle[proc[w].slot]
StageOf(w) == Row(w).stage

\* Mutant: the lease is not looked at.
HoldsCycleForEver(w, stage) ==
    /\ Row(w).status = "CLAIMED"
    /\ Row(w).attempt = proc[w].attempt
    /\ Row(w).stage = stage

\* _active, with the time of the event.
HoldsCycle(w, stage) ==
    /\ Row(w).status = "CLAIMED"
    /\ Row(w).attempt = proc[w].attempt
    /\ Row(w).stage = stage
    /\ now < Row(w).lease

\* Append to the row of w's slot, or raise.
Advance(w, stage, row, pc) ==
    IF HoldsCycle(w, stage)
      THEN /\ cycle' = [cycle EXCEPT ![proc[w].slot] = row]
           /\ Goto(w, pc)
      ELSE Goto(w, "failing") /\ UNCHANGED cycle

Capture(w) == [attempt |-> proc[w].attempt, at |-> now]

PublishBlob(w, blob, pc) ==
    /\ disk' = [disk EXCEPT ![proc[w].slot].blobs = @ \cup {blob}]
    /\ Goto(w, pc)
    /\ UNCHANGED <<now, paperVars, contextVars, cycle, faults>>

\* capture_account_commission_with_runtime_gate, prepare_blob ACCOUNT
PrepareAccount(w) ==
    /\ proc[w].pc = "account" /\ StageOf(w) = "NONE"
    /\ Advance(w, "NONE", [Row(w) EXCEPT !.stage = "ACCOUNT", !.account = Capture(w)], "account")
    /\ UNCHANGED <<now, paperVars, contextVars, disk, faults>>

\* Mutant: what an earlier attempt prepared is taken to be published.
PublishAccountOnce(w) ==
    /\ proc[w].pc = "account" /\ StageOf(w) # "NONE"
    /\ IF Row(w).account.attempt = proc[w].attempt
         THEN PublishBlob(w, "ACCOUNT", "paper")
         ELSE Goto(w, "paper") /\ UNCHANGED <<now, paperVars, contextVars, cycle, disk, faults>>

PublishAccount(w) ==
    /\ proc[w].pc = "account" /\ StageOf(w) # "NONE"
    /\ PublishBlob(w, "ACCOUNT", "paper")

-----------------------------------------------------------------------------
(***************************************************************************)
(* run_due_paper_cycle, which samples the clock anew.                      *)
(***************************************************************************)
PaperCalled(w) ==
    \/ proc[w].pc = "paper" /\ StageOf(w) = "ACCOUNT"
    \/ proc[w].pc = "idle" /\ w \in Runners

\* current_slot and record_gaps
RecordGaps(w) ==
    \E k \in Slots :
        /\ PaperCalled(w)
        /\ Active(k, now)
        /\ CloseGaps(k, now)
        /\ Call(w, "paperClaim", k, now, 0, "NONE")
        /\ UNCHANGED <<now, contextVars, cycle, disk, faults>>

\* BUSY ends a runner and is an error to an orchestrator; a final slot raises.
PaperClaim(w) ==
    LET k == proc[w].sub.slot
        t == proc[w].sub.at
        row == paper[k]
    IN  /\ proc[w].pc = "paperClaim"
        /\ \/ /\ row.status = "SUCCEEDED"
              /\ Call(w, "paperPublish", k, t, row.attempt, "ALREADY_SUCCEEDED")
              /\ UNCHANGED paperVars
           \/ /\ PaperClaimable(k, t)
              /\ ClaimPaper(k, t)
              /\ IF row.prepared = None
                   THEN Call(w, "capture", k, t, row.attempt + 1, "CLAIMED")
                   ELSE Call(w, "paperPublish", k, t, row.attempt + 1, "RESUME_PREPARED")
           \/ /\ row.status # "SUCCEEDED" /\ ~PaperClaimable(k, t)
              /\ Goto(w, Escape(w))
              /\ UNCHANGED paperVars
        /\ UNCHANGED <<now, contextVars, cycle, disk, faults>>

\* The decision is made while the market is captured, somewhat before it is prepared.
CapturePaper(w) ==
    LET k == proc[w].sub.slot
    IN  /\ proc[w].pc = "capture"
        /\ \E decided \in proc[w].sub.at..now :
              IF Active(k, decided) /\ OwnsPaper(k, proc[w].sub.attempt, "CLAIMED")
                THEN PreparePaper(k, decided, now) /\ Goto(w, "paperPublish")
                ELSE Goto(w, "paperFail") /\ UNCHANGED paperVars
        /\ UNCHANGED <<now, contextVars, cycle, disk, faults>>

PublishPaper(w) ==
    LET k == proc[w].sub.slot
    IN  /\ proc[w].pc = "paperPublish"
        /\ disk' = [disk EXCEPT ![k].paper = paper[k].prepared]
        /\ Goto(w, IF proc[w].sub.outcome = "ALREADY_SUCCEEDED" THEN "paperSnapshot"
                                                                ELSE "paperSucceed")
        /\ UNCHANGED <<now, paperVars, contextVars, cycle, faults>>

SucceedPaper(w) ==
    LET k == proc[w].sub.slot
    IN  /\ proc[w].pc = "paperSucceed"
        /\ IF OwnsPaper(k, proc[w].sub.attempt, "PREPARED")
             THEN FinishPaper(k, "SUCCEEDED", now) /\ Goto(w, "paperSnapshot")
             ELSE Goto(w, "paperFail") /\ UNCHANGED paperVars
        /\ UNCHANGED <<now, contextVars, cycle, disk, faults>>

\* The snapshot is the whole log, under the name of the slot, and is never replaced.
Agrees(published, events) == published \in {0, events}

SnapshotPaper(w) ==
    LET k == proc[w].sub.slot
    IN  /\ proc[w].pc = "paperSnapshot"
        /\ IF Agrees(disk[k].paperSnapshot, paperLog.events)
             THEN /\ disk' = [disk EXCEPT ![k].paperSnapshot = paperLog.events]
                  /\ Goto(w, IF Orchestrating(w) THEN "reference" ELSE "ended")
             ELSE Goto(w, "paperFail") /\ UNCHANGED disk
        /\ UNCHANGED <<now, paperVars, contextVars, cycle, faults>>

PaperFail(w) ==
    LET k == proc[w].sub.slot
    IN  /\ proc[w].pc = "paperFail"
        /\ IF /\ proc[w].sub.outcome = "CLAIMED"
              /\ OwnsPaper(k, proc[w].sub.attempt, "CLAIMED")
             THEN FinishPaper(k, "FAILED", now)
             ELSE UNCHANGED paperVars
        /\ Goto(w, Escape(w))
        /\ UNCHANGED <<now, contextVars, cycle, disk, faults>>

-----------------------------------------------------------------------------
\* reference_paper: the artifact and the hash the paper cycle returned
ReferencePaper(w) ==
    LET k == proc[w].sub.slot
    IN  /\ proc[w].pc = "reference"
        /\ Advance(w, "ACCOUNT",
                   [Row(w) EXCEPT !.stage = "PAPER",
                                  !.paper = [slot |-> k, run |-> paper[k].prepared]], "paper")
        /\ UNCHANGED <<now, paperVars, contextVars, disk, faults>>

\* _read_paper
PaperIsReadable(w) == disk[Row(w).paper.slot].paper = Row(w).paper.run

PreparePerpetual(w) ==
    /\ proc[w].pc = "paper" /\ StageOf(w) = "PAPER"
    /\ IF PaperIsReadable(w)
         THEN Advance(w, "PAPER",
                      [Row(w) EXCEPT !.stage = "PERPETUAL", !.perpetual = Capture(w)], "paper")
         ELSE Goto(w, "failing") /\ UNCHANGED cycle
    /\ UNCHANGED <<now, paperVars, contextVars, disk, faults>>

PublishPerpetual(w) ==
    /\ proc[w].pc = "paper" /\ StageOf(w) \in {"PERPETUAL", "COST_BINDING"}
    /\ IF PaperIsReadable(w)
         THEN PublishBlob(w, "PERPETUAL", "binding")
         ELSE Goto(w, "failing") /\ UNCHANGED <<now, paperVars, contextVars, cycle, disk, faults>>

\* _pit_binding: rates observed no later than the decision, valid for a slot's length
PointInTime(account, run) ==
    account.at <= run.at /\ run.at <= account.at + Cadence

PrepareBinding(w) ==
    /\ proc[w].pc = "binding" /\ StageOf(w) = "PERPETUAL"
    /\ IF PointInTime(Row(w).account, Row(w).paper.run)
         THEN Advance(w, "PERPETUAL", [Row(w) EXCEPT !.stage = "COST_BINDING"], "binding")
         ELSE Goto(w, "failing") /\ UNCHANGED cycle
    /\ UNCHANGED <<now, paperVars, contextVars, disk, faults>>

PublishBinding(w) ==
    /\ proc[w].pc = "binding" /\ StageOf(w) # "PERPETUAL"
    /\ PublishBlob(w, "COST_BINDING", "context")

-----------------------------------------------------------------------------
(***************************************************************************)
(* run_context_complete_paper_cycle: one sample stamps everything.  A BUSY *)
(* answer has no bundle_hash: the orchestrator raises on it, the command   *)
(* line prints it.                                                         *)
(***************************************************************************)
ContextCalled(w) ==
    \/ proc[w].pc = "context"
    \/ proc[w].pc = "idle" /\ w \in Sidecars

ContextClaim(w) ==
    \E k \in Slots :
        LET row == context[k]
        IN  /\ ContextCalled(w)
            /\ Active(k, now)
            /\ \/ /\ row.status = "SUCCEEDED"
                  /\ Call(w, "contextPublish", k, now, row.attempt, "ALREADY_SUCCEEDED")
                  /\ UNCHANGED contextVars
               \/ /\ ContextClaimable(k, now)
                  /\ ClaimContext(k, now)
                  /\ IF row.prepared = None
                       THEN Call(w, "bundle", k, now, row.attempt + 1, "CLAIMED")
                       ELSE Call(w, "contextPublish", k, now, row.attempt + 1, "RESUME_PREPARED")
               \/ /\ ContextBusy(k, now)
                  /\ Goto(w, Escape(w))
                  /\ UNCHANGED contextVars
            /\ UNCHANGED <<now, paperVars, cycle, disk, faults>>

\* The bundle of the orchestrated slot, for the slot the sidecar has claimed.
Bundle(w) ==
    [account |-> Row(w).account, paper |-> Row(w).paper.run, perpetual |-> Row(w).perpetual]

(***************************************************************************)
(* The bundles of the documents an operator may have: what was captured by *)
(* hand (attempt 0), and what the schedules captured (a document counts    *)
(* from the step that makes it durable, one before it is published).  Cost *)
(* binding and bundle are checked for their times, not for where each      *)
(* capture comes from.                                                     *)
(***************************************************************************)
ByHand == [attempt : {0}, at : HandTimes]
Documents(captured) == ByHand \cup ({captured[j] : j \in Slots} \ {None})

Supplied(k, t) ==
    {b \in [account : Documents([j \in Slots |-> cycle[j].account]),
            paper : Documents([j \in Slots |-> paper[j].prepared]),
            perpetual : Documents([j \in Slots |-> cycle[j].perpetual])] :
        PointInTime(b.account, b.paper) /\ BundleFits(k, b, t)}

\* The orchestrator's sources, or an operator's; any of those may be missing or unfit.
PrepareBundle(w) ==
    LET k == proc[w].sub.slot
        t == proc[w].sub.at
        sources == IF Orchestrating(w) THEN {Bundle(w)} ELSE Supplied(k, t)
    IN  /\ proc[w].pc = "bundle"
        /\ \/ /\ OwnsContext(k, proc[w].sub.attempt, "CLAIMED", t)
              /\ \E b \in sources :
                    BundleFits(k, b, t) /\ PrepareContext(k, b, ~Orchestrating(w), t)
              /\ Goto(w, "contextPublish")
           \/ /\ Orchestrating(w) =>
                    ~(BundleFits(k, Bundle(w), t) /\ OwnsContext(k, proc[w].sub.attempt, "CLAIMED", t))
              /\ Goto(w, "contextFail")
              /\ UNCHANGED contextVars
        /\ UNCHANGED <<now, paperVars, cycle, disk, faults>>

PublishContext(w) ==
    LET k == proc[w].sub.slot
    IN  /\ proc[w].pc = "contextPublish"
        /\ disk' = [disk EXCEPT ![k].context = context[k].prepared]
        /\ Goto(w, IF proc[w].sub.outcome = "ALREADY_SUCCEEDED" THEN "contextSnapshot"
                                                                ELSE "contextSucceed")
        /\ UNCHANGED <<now, paperVars, contextVars, cycle, faults>>

SucceedContext(w) ==
    LET k == proc[w].sub.slot
        t == proc[w].sub.at
    IN  /\ proc[w].pc = "contextSucceed"
        /\ IF OwnsContext(k, proc[w].sub.attempt, "PREPARED", t)
             THEN FinishContext(k, "SUCCEEDED", t) /\ Goto(w, "contextSnapshot")
             ELSE Goto(w, "contextFail") /\ UNCHANGED contextVars
        /\ UNCHANGED <<now, paperVars, cycle, disk, faults>>

SnapshotContext(w) ==
    LET k == proc[w].sub.slot
    IN  /\ proc[w].pc = "contextSnapshot"
        /\ IF Agrees(disk[k].contextSnapshot, contextLog.events)
             THEN /\ disk' = [disk EXCEPT ![k].contextSnapshot = contextLog.events]
                  /\ Goto(w, IF Orchestrating(w) THEN "seal" ELSE "ended")
             ELSE Goto(w, "contextFail") /\ UNCHANGED disk
        /\ UNCHANGED <<now, paperVars, contextVars, cycle, faults>>

ContextFail(w) ==
    LET k == proc[w].sub.slot
        t == proc[w].sub.at
    IN  /\ proc[w].pc = "contextFail"
        /\ IF /\ proc[w].sub.outcome = "CLAIMED"
              /\ OwnsContext(k, proc[w].sub.attempt, "CLAIMED", t)
             THEN FinishContext(k, "FAILED", t)
             ELSE UNCHANGED contextVars
        /\ Goto(w, Escape(w))
        /\ UNCHANGED <<now, paperVars, cycle, disk, faults>>

-----------------------------------------------------------------------------
\* Mutant: the bundle of its own captures is sealed, whatever the sidecar holds.
SealCycleOwnBundle(w) ==
    LET k == proc[w].sub.slot
    IN  /\ proc[w].pc = "seal"
        /\ Advance(w, "COST_BINDING",
                   [Row(w) EXCEPT !.status = "SUCCEEDED",
                                  !.context = [slot |-> k, bundle |-> Bundle(w)]],
                   "ended")
        /\ UNCHANGED <<now, paperVars, contextVars, disk, faults>>

\* succeed, with the bundle the sidecar returned
SealCycle(w) ==
    LET k == proc[w].sub.slot
    IN  /\ proc[w].pc = "seal"
        /\ Advance(w, "COST_BINDING",
                   [Row(w) EXCEPT !.status = "SUCCEEDED",
                                  !.context = [slot |-> k, bundle |-> context[k].prepared]],
                   "ended")
        /\ UNCHANGED <<now, paperVars, contextVars, disk, faults>>

\* fail: nothing is recorded for a claim that was lost or is over
FailCycle(w) ==
    /\ proc[w].pc = "failing"
    /\ IF HoldsCycle(w, StageOf(w))
         THEN cycle' = [cycle EXCEPT ![proc[w].slot].status = "FAILED"]
         ELSE UNCHANGED cycle
    /\ Goto(w, "ended")
    /\ UNCHANGED <<now, paperVars, contextVars, disk, faults>>

(***************************************************************************)
(* Faults: a step raises (a capture over the network, a database that is   *)
(* locked: timeout=0, a publication), or the process dies.                 *)
(***************************************************************************)
Fault(w) ==
    /\ proc[w].pc \notin {"idle", "ended"}
    /\ faults < MaxFaults
    /\ faults' = faults + 1
    /\ UNCHANGED <<now, paperVars, contextVars, cycle, disk>>

\* The except clauses of the three functions.
Handler(w) ==
    CASE proc[w].pc \in {"capture", "paperPublish", "paperSucceed", "paperSnapshot"} -> "paperFail"
      [] proc[w].pc \in {"paperClaim", "paperFail", "contextFail"} -> Escape(w)
      [] proc[w].pc \in {"bundle", "contextPublish", "contextSucceed", "contextSnapshot"} ->
           "contextFail"
      [] proc[w].pc = "failing" -> "ended"
      [] OTHER -> "failing"

Raise(w) == Fault(w) /\ Goto(w, Handler(w))
Crash(w) == Fault(w) /\ Goto(w, "ended")

-----------------------------------------------------------------------------
PaperStep(w) ==
    \/ RecordGaps(w) \/ PaperClaim(w) \/ CapturePaper(w) \/ PublishPaper(w)
    \/ SucceedPaper(w) \/ SnapshotPaper(w) \/ PaperFail(w)

ContextStep(w) ==
    \/ ContextClaim(w) \/ PrepareBundle(w) \/ PublishContext(w)
    \/ SucceedContext(w) \/ SnapshotContext(w) \/ ContextFail(w)

CycleStep(w) ==
    \/ ClaimCycle(w) \/ PrepareAccount(w) \/ PublishAccount(w) \/ ReferencePaper(w)
    \/ PreparePerpetual(w) \/ PublishPerpetual(w) \/ PrepareBinding(w) \/ PublishBinding(w)
    \/ SealCycle(w) \/ FailCycle(w)

Proceed(w) == PaperStep(w) \/ ContextStep(w) \/ CycleStep(w)

Next == Tick \/ \E w \in Workers : Proceed(w) \/ Raise(w) \/ Crash(w)

Spec == Init /\ [][Next]_vars

-----------------------------------------------------------------------------
(***************************************************************************)
(* The state has its type; a row of the orchestration holds exactly what   *)
(* its stage says, and its lease never reaches into the next slot.         *)
(***************************************************************************)
StageHolds(row) ==
    /\ (row.account = None) <=> (row.stage = "NONE")
    /\ (row.paper = None) <=> (row.stage \in {"NONE", "ACCOUNT"})
    /\ (row.perpetual = None) <=> (row.stage \in {"NONE", "ACCOUNT", "PAPER"})
    /\ (row.context = None) <=> (row.status # "SUCCEEDED")

TypeOK ==
    /\ now \in 0..Horizon
    /\ \A k \in Slots :
         /\ paper[k].status \in {"UNSEEN", "CLAIMED", "PREPARED", "FAILED"} \cup Terminals
         /\ context[k].status \in {"UNSEEN", "CLAIMED", "PREPARED", "FAILED", "SUCCEEDED"}
         /\ cycle[k].status \in {"UNSEEN", "CLAIMED", "FAILED", "SUCCEEDED"}
         /\ cycle[k].stage \in Stages /\ StageHolds(cycle[k])
         /\ cycle[k].lease <= Expires(k)
         /\ disk[k].blobs \subseteq Blobs
    /\ \A w \in Workers : proc[w].pc \in PCs /\ proc[w].slot \in Slots \cup {0}
    /\ faults \in 0..MaxFaults

(***************************************************************************)
(* What an orchestration has bound is what the other two logs hold for     *)
(* that slot: the paper run it refers to succeeded in the slot itself, the *)
(* rates were known before its decision, it was given the bundle the       *)
(* sidecar succeeded with, and that bundle was built from exactly these    *)
(* captures unless the sidecar's own command line had prepared it before.  *)
(***************************************************************************)
LogsAgree ==
    \A k \in Slots :
        /\ cycle[k].paper # None =>
             /\ cycle[k].paper = [slot |-> k, run |-> paper[k].prepared]
             /\ paper[k].status = "SUCCEEDED"
        /\ cycle[k].stage = "COST_BINDING" =>
             cycle[k].account.at <= paper[k].prepared.at
        /\ context[k].prepared # None /\ ~context[k].supplied =>
             /\ cycle[k].stage = "COST_BINDING"
             /\ context[k].prepared = [account |-> cycle[k].account,
                                       paper |-> paper[k].prepared,
                                       perpetual |-> cycle[k].perpetual]
        /\ cycle[k].status = "SUCCEEDED" =>
             /\ context[k].status = "SUCCEEDED"
             /\ cycle[k].context = [slot |-> k, bundle |-> context[k].prepared]

(***************************************************************************)
(* "The Paper run embedded in the cost binding must be the exact scheduled *)
(* run" of the slot (design of the context-complete paper cycle): in a     *)
(* slot that counts as complete the bundle holds the run of the paper log. *)
(* FALSE of the code once the sidecar is run by hand: the sidecar looks at *)
(* the times of the documents only, and the orchestrator takes whatever    *)
(* bundle the sidecar returns.                                             *)
(***************************************************************************)
CompleteSlotHasScheduledRun ==
    \A k \in Slots :
        cycle[k].status = "SUCCEEDED" => cycle[k].context.bundle.paper = paper[k].prepared

(***************************************************************************)
(* A slot that counts as complete can be read back: everything it was      *)
(* built from is published, and so are the reports of both schedulers,     *)
(* whichever attempts did the work.                                        *)
(***************************************************************************)
CompleteSlotIsOnDisk ==
    \A k \in Slots :
        cycle[k].status = "SUCCEEDED" =>
            /\ disk[k].blobs = Blobs
            /\ disk[k].paper = paper[k].prepared
            /\ disk[k].context = context[k].prepared
            /\ disk[k].paperSnapshot # 0 /\ disk[k].contextSnapshot # 0

(***************************************************************************)
(* Durable evidence is never captured a second time, a final answer stays  *)
(* and a published file keeps its bytes, whoever retries what and whenever *)
(* (an attempt that has lost its lease still goes on).                     *)
(***************************************************************************)
EvidenceIsFinal ==
    [][\A k \in Slots :
         /\ paper[k].prepared # None => paper'[k].prepared = paper[k].prepared
         /\ paper[k].status \in Terminals => paper'[k].status = paper[k].status
         /\ context[k].prepared # None => context'[k].prepared = context[k].prepared
         /\ context[k].status = "SUCCEEDED" => context'[k].status = "SUCCEEDED"
         /\ cycle[k].account # None => cycle'[k].account = cycle[k].account
         /\ cycle[k].perpetual # None => cycle'[k].perpetual = cycle[k].perpetual
         /\ disk[k].paper # None => disk'[k].paper = disk[k].paper
         /\ disk[k].context # None => disk'[k].context = disk[k].context]_vars
=============================================================================
