------------------------ MODULE SystemPaperScheduler ------------------------
(***************************************************************************)
(* The WAL scheduler of System Paper (system_paper_scheduler.py): several  *)
(* invocations of run_due_system_paper_slot share one SQLite event log and *)
(* one directory of immutable artifacts.  Every BEGIN IMMEDIATE            *)
(* transaction, every read made outside of one, and every file operation   *)
(* whose effect others can see is an action of its own.                    *)
(*                                                                         *)
(* The log is represented by its replay: the per-slot projection that      *)
(* _event_projection computes, the time of the last event, and the rows of *)
(* prepared_inputs and prepared_results.  Hashes are the values they hash. *)
(* Time is counted from the due time of slot 1, so the close delay         *)
(* disappears and slot s is due at (s - 1) * Cadence.                      *)
(***************************************************************************)
EXTENDS Integers

CONSTANTS
  Workers,      \* invocations that may run at the same time
  NSlots,       \* number of natural slots looked at
  Cadence,      \* _CADENCE in ticks
  Lease,        \* _LEASE in ticks
  Scenarios,    \* fill scenarios a new input may carry
  CrashPoints,  \* program points where an invocation may die
  SyncMayFail,  \* whether the fsync of the artifact directory may fail
  MaxFaults,    \* bound on crashes, provider errors, fsync errors and refused locks
  None          \* no row, no claim, no file

\* "settles" leaves no order behind, "unresolved" an UNKNOWN order that stays active.
AllScenarios == {"settles", "unresolved"}

ASSUME ScheduleAssumption ==
  /\ NSlots \in Nat \ {0}
  /\ Cadence \in Nat \ {0}
  /\ Lease \in Nat \ {0}
  /\ Lease < Cadence
  /\ MaxFaults \in Nat
  /\ SyncMayFail \in BOOLEAN
  /\ Scenarios \subseteq AllScenarios

Slots == 1..NSlots
Due(s) == (s - 1) * Cadence
Expires(s) == s * Cadence
Horizon == NSlots * Cadence - 1     \* bound: the clock stops inside the last slot
Times == 0..Horizon

VARIABLES
  now,        \* the wall clock
  proj,       \* _event_projection of the committed log
  lastEvent,  \* event_time of the last committed event
  inputs,     \* prepared_inputs, one row per slot at most
  results,    \* prepared_results, one row per slot at most
  artifact,   \* system-paper-slots/<slot_id>.json
  worker,     \* local state of each invocation
  faults      \* faults injected so far

store == <<proj, lastEvent, inputs, results>>
vars == <<now, proj, lastEvent, inputs, results, artifact, worker, faults>>

-----------------------------------------------------------------------------
(* Data *)

Terminals == {"SUCCEEDED", "MISSED", "EXPIRED"}
Statuses == {"UNSEEN", "CLAIMED", "FAILED"} \cup Terminals
Stages == {"NONE", "INPUT", "RESULT"}
Steps == {"idle", "recover", "gaps", "claim", "provider", "parents", "input", "run",
          "result", "publish", "linked", "synced", "succeed", "fail"}

\* A claim is identified by the invocation and its one clock sample; the attempt
\* number adds nothing because every invocation has a fresh worker id.
Claims == [by : Workers, at : Times]
Inputs == [capturedAt : Times, prev : 0..NSlots, scenario : AllScenarios]
Results == [replays : Inputs, activeOrder : BOOLEAN]
Artifacts == [body : Results, links : {1, 2}]

SlotRows == [status : Statuses, stage : Stages, active : Claims \cup {None}]
Invocations == [pc : Steps, at : Times, slot : Slots, captured : Times, parents : SUBSET Slots]

ASSUME NoneAssumption == None \notin Claims \cup Inputs \cup Results \cup Artifacts

Idle == [pc |-> "idle", at |-> 0, slot |-> 1, captured |-> 0, parents |-> {}]

\* run_system_paper_slot is a function of the input; an unresolved order stays active.
RunSlot(i) == [replays |-> i, activeOrder |-> i.scenario = "unresolved"]

\* current_slot: s is the natural slot whose window holds the time t.
IsCurrent(s, t) == Due(s) <= t /\ t < Expires(s)

-----------------------------------------------------------------------------
(* Reading the store *)

Terminal(s) == proj[s].status \in Terminals
Durable(s) == proj[s].stage # "NONE"
Known(p) == {s \in Slots : p[s].status # "UNSEEN"}
Earlier(p, s) == {e \in Known(p) : e < s}

\* recoverable_slot: durable work that is not finished.
Recoverable == {s \in Slots : Durable(s) /\ ~Terminal(s)}

LastParent(s, E) == IF E = {} THEN 0 ELSE s - 1

\* _successful_parent_result_bodies: every earlier known slot succeeded and they
\* are adjacent up to s.
ParentChain(p, s) ==
  \A e \in Earlier(p, s) : p[e].status = "SUCCEEDED" /\ (e..(s - 1)) \subseteq Known(p)

\* Mutant: the number of names is not looked at.
ReadableAnyLinks(s) == artifact[s] # None /\ artifact[s].body = results[s]

\* The published file holds the prepared bytes and has a single name (_artifact_body).
Readable(s) ==
  /\ artifact[s] # None
  /\ artifact[s].links = 1
  /\ artifact[s].body = results[s]

ParentsOnDisk(s) == ParentChain(proj, s) /\ \A e \in Earlier(proj, s) : Readable(e)

\* verify_integrity: the rows are those the events name, and every prepared result
\* replays its input on top of an intact parent chain.
Integrity(p, in, res) ==
  /\ \A s \in Slots : in[s] # None <=> p[s].stage # "NONE"
  /\ \A s \in Slots : res[s] # None <=> p[s].stage = "RESULT"
  /\ \A s \in Slots : p[s].stage = "RESULT" =>
       /\ ParentChain(p, s)
       /\ res[s] = RunSlot(in[s])
       /\ in[s].prev = LastParent(s, Earlier(p, s))

\* _append_locked refuses an event older than the last one.
TimeOrdered(t) == lastEvent <= t

\* The claim the worker holds is still the slot's active claim.
Owns(w) == proj[worker[w].slot].active = [by |-> w, at |-> worker[w].at]
LeaseLive(s, t) == proj[s].active # None /\ t < proj[s].active.at + Lease
-----------------------------------------------------------------------------
(* Moving an invocation on *)

GoTo(w, step) == worker' = [worker EXCEPT ![w].pc = step]
Return(w) == worker' = [worker EXCEPT ![w] = Idle]

\* A refused transaction is rolled back and changes nothing.
Unchanged == UNCHANGED <<now, store, artifact, faults>>
Refuse(w, step) == GoTo(w, step) /\ Unchanged

\* One committed transaction: replay before, append at the invocation's sample, replay after.
Commit(w, p, in, res) ==
  /\ proj' = p /\ inputs' = in /\ results' = res
  /\ lastEvent' = worker[w].at
  /\ UNCHANGED <<now, artifact, faults>>

CommitAllowed(w, p, in, res) ==
  /\ Integrity(proj, inputs, results)
  /\ TimeOrdered(worker[w].at)
  /\ Integrity(p, in, res)

-----------------------------------------------------------------------------
(* run_due_system_paper_slot, step by step *)

\* The clock is sampled once, here; every event of the invocation carries it.
Start(w) ==
  /\ worker[w].pc = "idle"
  /\ worker' = [worker EXCEPT ![w].pc = "recover", ![w].at = now]
  /\ UNCHANGED <<now, store, artifact, faults>>

\* Mutant: the current slot is always preferred to older durable work.
RecoverCurrentOnly(w) ==
  /\ worker[w].pc = "recover"
  /\ \E s \in Slots : /\ IsCurrent(s, worker[w].at)
                      /\ worker' = [worker EXCEPT ![w].slot = s, ![w].pc = "gaps"]
  /\ Unchanged

\* recoverable_slot is read before any transaction; the answer may be stale when used.
\* Older durable work is resumed without recording gaps.  Two candidates, or one
\* ahead of the current slot, end the invocation with RECOVERY_AMBIGUOUS.
Recover(w) ==
  \E current \in Slots :
    LET resume(s) == worker' = [worker EXCEPT ![w].slot = s,
                                  ![w].pc = IF s = current THEN "gaps" ELSE "claim"]
    IN /\ worker[w].pc = "recover"
       /\ IsCurrent(current, worker[w].at)
       /\ \/ Recoverable = {} /\ resume(current)
          \/ \E s \in Recoverable : Recoverable = {s} /\ s <= current /\ resume(s)
          \/ /\ \E s \in Recoverable : s > current \/ Recoverable # {s}
             /\ Return(w)
       /\ Unchanged

\* record_gaps: the slots nobody saw since the latest known one become MISSED, and
\* the older slots with nothing durable whose window is over become EXPIRED.
MissedSlots(cur) ==
  {s \in Slots \ Known(proj) : s < cur /\ Earlier(proj, s) # {} /\
                               \A e \in Earlier(proj, cur) : e < s}
\* Mutant: a slot is expired whatever it has prepared.
ExpiredAnyStage(cur, t) == {s \in Earlier(proj, cur) : ~Terminal(s) /\ Expires(s) <= t}
ExpiredSlots(cur, t) ==
  {s \in Earlier(proj, cur) : ~Terminal(s) /\ ~Durable(s) /\ Expires(s) <= t}
Gapped(cur, t) ==
  [s \in Slots |->
     IF s \in MissedSlots(cur) THEN [proj[s] EXCEPT !.status = "MISSED"]
     ELSE IF s \in ExpiredSlots(cur, t)
          THEN [proj[s] EXCEPT !.status = "EXPIRED", !.active = None]
     ELSE proj[s]]

RecordGaps(w) ==
  LET cur == worker[w].slot
      closing == MissedSlots(cur) \cup ExpiredSlots(cur, worker[w].at)
      p == Gapped(cur, worker[w].at)
  IN /\ worker[w].pc = "gaps"
     /\ IF closing = {} /\ Integrity(proj, inputs, results)
        THEN Refuse(w, "claim")
        ELSE IF CommitAllowed(w, p, inputs, results)
             THEN Commit(w, p, inputs, results) /\ GoTo(w, "claim")
             ELSE Return(w) /\ Unchanged

\* Mutant: the lease of the active claim is not looked at.
ClaimableDespiteLease(s, t) ==
  /\ ~Terminal(s)
  /\ ~Durable(s) => IsCurrent(s, t)

\* claim: terminal and busy slots end the invocation, a slot with nothing durable can
\* only be claimed in its window, a durable one at any time after the lease.
Claimable(s, t) ==
  /\ ~Terminal(s)
  /\ ~Durable(s) => IsCurrent(s, t)
  /\ ~LeaseLive(s, t)

Claim(w) ==
  LET s == worker[w].slot
      t == worker[w].at
      p == [proj EXCEPT ![s].status = "CLAIMED", ![s].active = [by |-> w, at |-> t]]
  IN /\ worker[w].pc = "claim"
     /\ IF Claimable(s, t) /\ CommitAllowed(w, p, inputs, results)
        THEN /\ Commit(w, p, inputs, results)
             /\ GoTo(w, CASE proj[s].stage = "NONE" -> "provider"
                          [] proj[s].stage = "INPUT" -> "run"
                          [] proj[s].stage = "RESULT" -> "publish")
        ELSE Return(w) /\ Unchanged

\* public_input_provider: the only network use.  The capture carries its own time.
CallProvider(w) ==
  /\ worker[w].pc = "provider"
  /\ worker' = [worker EXCEPT ![w].pc = "parents", ![w].captured = now]
  /\ UNCHANGED <<now, store, artifact, faults>>

\* The provider raises, or returns a capture that does not validate.
ProviderFails(w) ==
  /\ worker[w].pc = "provider"
  /\ faults < MaxFaults
  /\ faults' = faults + 1
  /\ GoTo(w, "fail")
  /\ UNCHANGED <<now, store, artifact>>

\* Mutant: the parents are collected without asking whether they succeeded.
ReadParentsUnchecked(w) ==
  LET s == worker[w].slot
  IN /\ worker[w].pc = "parents"
     /\ worker' = [worker EXCEPT ![w].pc = "input", ![w].parents = Earlier(proj, s)]
     /\ Unchanged

\* _runner_parent_result_bodies before the input: read outside the transaction.
ReadParents(w) ==
  LET s == worker[w].slot
  IN /\ worker[w].pc = "parents"
     /\ IF Integrity(proj, inputs, results) /\ ParentsOnDisk(s)
        THEN worker' = [worker EXCEPT ![w].pc = "input", ![w].parents = Earlier(proj, s)]
        ELSE GoTo(w, "fail")
     /\ Unchanged

\* prepare_input: the capture must lie in the slot's window and inside the lease.
PrepareInput(w) ==
  LET s == worker[w].slot
      t == worker[w].at
      captured == worker[w].captured
      p == [proj EXCEPT ![s].stage = "INPUT"]
  IN /\ worker[w].pc = "input"
     /\ \E scenario \in Scenarios :
          LET row == [capturedAt |-> captured, prev |-> LastParent(s, worker[w].parents),
                      scenario |-> scenario]
              in == [inputs EXCEPT ![s] = row]
          IN IF /\ IsCurrent(s, captured)
                /\ t <= captured /\ captured < t + Lease
                /\ ~Durable(s) /\ Owns(w)
                /\ CommitAllowed(w, p, in, results)
             THEN Commit(w, p, in, results) /\ GoTo(w, "run")
             ELSE Refuse(w, "fail")

\* Mutant: the slot is run on a snapshot with an active order.
ExecuteSlotOnActiveOrder(w) ==
  LET s == worker[w].slot
  IN /\ worker[w].pc = "run"
     /\ IF /\ Integrity(proj, inputs, results)
           /\ inputs[s] # None /\ ParentsOnDisk(s)
        THEN worker' = [worker EXCEPT ![w].pc = "result", ![w].parents = Earlier(proj, s)]
        ELSE GoTo(w, "fail")
     /\ Unchanged

\* Load the durable input, read the parents again and run the slot.  The runtime
\* refuses an input whose previous snapshot still has an active order.
ExecuteSlot(w) ==
  LET s == worker[w].slot
      prev == inputs[s].prev
      runs == prev # 0 => ~results[prev].activeOrder
  IN /\ worker[w].pc = "run"
     /\ IF /\ Integrity(proj, inputs, results)
           /\ inputs[s] # None /\ ParentsOnDisk(s) /\ runs
        THEN worker' = [worker EXCEPT ![w].pc = "result", ![w].parents = Earlier(proj, s)]
        ELSE GoTo(w, "fail")
     /\ Unchanged

\* prepare_result: one result per input, on exactly the parents the worker read.
PrepareResult(w) ==
  LET s == worker[w].slot
      p == [proj EXCEPT ![s].stage = "RESULT"]
      res == [results EXCEPT ![s] = RunSlot(inputs[s])]
  IN /\ worker[w].pc = "result"
     /\ IF /\ proj[s].stage = "INPUT" /\ Owns(w)
           /\ ParentChain(proj, s) /\ worker[w].parents = Earlier(proj, s)
           /\ CommitAllowed(w, p, inputs, res)
        THEN Commit(w, p, inputs, res) /\ GoTo(w, "publish")
        ELSE Refuse(w, "fail")

\* _load_runner_result and _publish_in_directory up to os.link: an existing file is
\* adopted only if it has the same bytes and one name; otherwise a synced temporary
\* file is linked under the final name, which then has two names.
Publish(w) ==
  LET s == worker[w].slot
      loads == Integrity(proj, inputs, results) /\ Durable(s) /\ ParentsOnDisk(s)
  IN /\ worker[w].pc = "publish"
     /\ IF loads /\ artifact[s] = None
        THEN /\ artifact' = [artifact EXCEPT ![s] = [body |-> results[s], links |-> 2]]
             /\ GoTo(w, "linked")
        ELSE /\ GoTo(w, IF loads /\ Readable(s) THEN "succeed" ELSE "fail")
             /\ UNCHANGED artifact
     /\ UNCHANGED <<now, store, faults>>

\* The directory is synced and the temporary name removed.
UnlinkTemporary(w) ==
  /\ worker[w].pc = "linked"
  /\ artifact' = [artifact EXCEPT ![worker[w].slot].links = 1]
  /\ GoTo(w, "synced")
  /\ UNCHANGED <<now, store, faults>>

\* The second fsync of the directory, after which the publication stands.
SyncDirectory(w) ==
  /\ worker[w].pc = "synced"
  /\ GoTo(w, "succeed")
  /\ Unchanged

\* Either fsync fails: _rollback_publication removes the file the worker linked, and the
\* OSError leaves the invocation without a FAILED event.
RollbackPublication(w) ==
  /\ SyncMayFail
  /\ worker[w].pc \in {"linked", "synced"}
  /\ faults < MaxFaults
  /\ faults' = faults + 1
  /\ artifact' = [artifact EXCEPT ![worker[w].slot] = None]
  /\ Return(w)
  /\ UNCHANGED <<now, store>>

\* succeed: the published file is read back inside the transaction.
Succeed(w) ==
  LET s == worker[w].slot
      p == [proj EXCEPT ![s].status = "SUCCEEDED"]
  IN /\ worker[w].pc = "succeed"
     /\ IF /\ proj[s].stage = "RESULT" /\ proj[s].status = "CLAIMED" /\ Owns(w)
           /\ Readable(s)
           /\ CommitAllowed(w, p, inputs, results)
        THEN Commit(w, p, inputs, results) /\ Return(w)
        ELSE Refuse(w, "fail")

\* Mutant: a failed attempt forgets that its result was prepared.
FailDroppingStage(w) ==
  LET s == worker[w].slot
      p == [proj EXCEPT ![s].status = "FAILED", ![s].active = None, ![s].stage = "INPUT"]
      res == [results EXCEPT ![s] = None]
  IN /\ worker[w].pc = "fail"
     /\ Return(w)
     /\ IF /\ proj[s].status = "CLAIMED" /\ proj[s].stage = "RESULT" /\ Owns(w)
           /\ CommitAllowed(w, p, inputs, res)
        THEN Commit(w, p, inputs, res)
        ELSE Unchanged

\* Mutant: a failure is stamped with the time it happened and closes whatever attempt runs.
FailAnyAttempt(w) ==
  LET s == worker[w].slot
      p == [proj EXCEPT ![s].status = "FAILED", ![s].active = None]
  IN /\ worker[w].pc = "fail"
     /\ Return(w)
     /\ IF proj[s].status = "CLAIMED" /\ Integrity(p, inputs, results)
        THEN proj' = p /\ lastEvent' = now /\ UNCHANGED <<now, inputs, results, artifact, faults>>
        ELSE Unchanged

\* fail: close the owned attempt and keep what is durable; best effort, so a refused
\* transaction is swallowed and the lease runs out instead.
Fail(w) ==
  LET s == worker[w].slot
      p == [proj EXCEPT ![s].status = "FAILED", ![s].active = None]
  IN /\ worker[w].pc = "fail"
     /\ Return(w)
     /\ IF /\ proj[s].status = "CLAIMED" /\ Owns(w)
           /\ CommitAllowed(w, p, inputs, results)
        THEN Commit(w, p, inputs, results)
        ELSE Unchanged

\* BEGIN IMMEDIATE does not wait (timeout=0): it raises while another invocation is inside
\* of a transaction.  The error of a claimed attempt leads to fail; before the claim, and
\* in fail itself, the invocation just ends.
Transacting == {"gaps", "claim", "input", "result", "succeed", "fail"}

DatabaseLocked(w) ==
  /\ worker[w].pc \in Transacting
  /\ \E v \in Workers \ {w} : worker[v].pc \in Transacting
  /\ faults < MaxFaults
  /\ now + Lease <= Horizon          \* bound: the lease left behind can run out
  /\ faults' = faults + 1
  /\ IF worker[w].pc \in {"input", "result", "succeed"} THEN GoTo(w, "fail") ELSE Return(w)
  /\ UNCHANGED <<now, store, artifact>>

\* The process dies, or an OSError or injected fault leaves it without a FAILED event.
\* What was committed or linked stays; a temporary name stays too.
Crash(w) ==
  /\ worker[w].pc \in CrashPoints
  /\ faults < MaxFaults
  /\ now + Lease <= Horizon          \* bound: every lease a crash leaves behind can run out
  /\ faults' = faults + 1
  /\ Return(w)
  /\ UNCHANGED <<now, store, artifact>>

Tick ==
  /\ now < Horizon
  /\ now' = now + 1
  /\ UNCHANGED <<store, artifact, worker, faults>>

-----------------------------------------------------------------------------
(* The specification *)

\* A fresh state file and an empty output directory, at any time of the first slot.
Init ==
  /\ now \in 0..(Cadence - 1)
  /\ proj = [s \in Slots |-> [status |-> "UNSEEN", stage |-> "NONE", active |-> None]]
  /\ lastEvent = 0
  /\ inputs = [s \in Slots |-> None]
  /\ results = [s \in Slots |-> None]
  /\ artifact = [s \in Slots |-> None]
  /\ worker = [w \in Workers |-> Idle]
  /\ faults = 0

Transaction(w) == RecordGaps(w) \/ Claim(w) \/ PrepareInput(w) \/ PrepareResult(w)
                    \/ Succeed(w) \/ Fail(w)
Proceed(w) ==
  \/ Start(w) \/ Recover(w) \/ Transaction(w)
  \/ CallProvider(w) \/ ReadParents(w) \/ ExecuteSlot(w)
  \/ Publish(w) \/ UnlinkTemporary(w) \/ SyncDirectory(w)
Fault(w) == ProviderFails(w) \/ RollbackPublication(w) \/ DatabaseLocked(w) \/ Crash(w)

Next == Tick \/ \E w \in Workers : Proceed(w) \/ Fault(w)

Spec == Init /\ [][Next]_vars

\* launchd starts the runner again and again and the process is scheduled; nothing
\* says that a fault ever happens.
FairSpec == Spec /\ WF_vars(Tick) /\ \A w \in Workers : WF_vars(Proceed(w))

-----------------------------------------------------------------------------
(* Properties *)

\* The state has its type.
TypeOK ==
  /\ now \in Times /\ lastEvent \in Times /\ faults \in 0..MaxFaults
  /\ proj \in [Slots -> SlotRows]
  /\ inputs \in [Slots -> Inputs \cup {None}]
  /\ results \in [Slots -> Results \cup {None}]
  /\ artifact \in [Slots -> Artifacts \cup {None}]
  /\ worker \in [Workers -> Invocations]

\* recoverable_slot never finds two candidates, although the slot is chosen before the
\* transaction that claims it: RECOVERY_AMBIGUOUS cannot be caused by two durable slots.
AtMostOneRecoverable == \A s, u \in Recoverable : s = u

\* A slot gets durable work only on top of a gap-free chain of succeeded slots, and the
\* chain under it can never change again, although prepare_input does not read the
\* parents inside its transaction.
DurableWorkHasParents == \A s \in Slots : Durable(s) => ParentChain(proj, s)

\* The prepared bytes are published under a single name.
IsPublished(s) == artifact[s] = [body |-> results[s], links |-> 1]

\* A slot succeeds only when its result is published, and only one thing takes the file of
\* a sealed slot away: the publisher's second directory sync fails after another
\* invocation took its claim over, adopted the file and sealed the slot.  Whoever holds
\* the claim that was sealed, and every other fault, leaves the file alone.
SealedFileIsLostToOvertakenPublisher ==
  [][\A s \in Slots :
       /\ proj[s].status # "SUCCEEDED" /\ proj'[s].status = "SUCCEEDED" => IsPublished(s)'
       /\ proj[s].status = "SUCCEEDED" /\ IsPublished(s) /\ ~IsPublished(s)' =>
            /\ artifact'[s] = None
            /\ \E w \in Workers : /\ worker[w].slot = s /\ worker[w].pc = "synced"
                                  /\ ~Owns(w) /\ worker'[w].pc = "idle"]_vars

\* The scheduler never deletes a final artifact (the design document), so a slot that
\* succeeded has its result on disk, complete, under a single name.
SucceededIsPublished ==
  \A s \in Slots : proj[s].status = "SUCCEEDED" => IsPublished(s)

\* Once a sealed result leaves an order active, no later slot gets a result: the runtime
\* refuses its snapshot until the order is reconciled.
UnresolvedOrderStopsChain ==
  \A s, u \in Slots : s < u /\ results[s] # None /\ results[u] # None
                       => ~results[s].activeOrder

\* A live lease is never taken over: a claim gives way to another one only when it was
\* closed or its lease has run out on the clock.
LiveLeaseHonoured ==
  [][\A s \in Slots :
       proj[s].status = "CLAIMED" /\ proj'[s].active \notin {proj[s].active, None}
         => proj[s].active.at + Lease <= now]_vars

\* A worker that lost its claim changes nothing any more: a stage, a success or a failure
\* is only ever written by the invocation that holds the active claim.
OnlyOwnerAdvances ==
  [][\A s \in Slots :
       proj'[s].stage # proj[s].stage
         \/ (proj'[s].status # proj[s].status /\ proj'[s].status \in {"SUCCEEDED", "FAILED"})
       => \E w \in Workers : /\ worker[w].slot = s /\ worker[w] # worker'[w]
                             /\ proj[s].active = [by |-> w, at |-> worker[w].at]]_vars

\* What is durable stays: no failure, crash or gap takes a stage back, changes a prepared
\* row or reopens a terminal slot.
DurableFactsStay ==
  [][\A s \in Slots :
       /\ Terminal(s) => proj'[s] = proj[s]
       /\ inputs[s] # None => inputs'[s] = inputs[s] /\ proj'[s].stage # "NONE"
       /\ results[s] # None => results'[s] = results[s] /\ proj'[s].stage = "RESULT"]_vars

\* The schedule implements the chain of results.
Chain == INSTANCE ResultChain WITH
  sealed <- {s \in Slots : proj[s].status = "SUCCEEDED"},
  pending <- Recoverable,
  closed <- {s \in Slots : proj[s].status \in {"MISSED", "EXPIRED"}}
ImplementsResultChain == Chain!Spec

\* Durable work is eventually sealed: the runner comes back to it whatever crashed.
DurableWorkIsSealed ==
  \A s \in Slots : Durable(s) ~> proj[s].status = "SUCCEEDED"

\* A run that dies after its file appeared under the final name is finished by a later
\* one, which adopts the identical file (the recovery table of the design document).
PublishedWorkIsAdopted ==
  \A s \in Slots : artifact[s] # None ~> proj[s].status = "SUCCEEDED"
=============================================================================
