-------------------- MODULE SystemPaperScheduler_proofs --------------------
(***************************************************************************)
(* Theorems about SystemPaperScheduler for every number of invocations,    *)
(* slots and faults, every cadence and every lease shorter than it: first  *)
(* the inductive invariant, then what a step may never do, the refinement  *)
(* of ResultChain and the invariants that rest on durable rows.            *)
(***************************************************************************)
EXTENDS SystemPaperScheduler, TLAPS

\* The record sets of the type invariant stand for their fields everywhere below.
USE DEF SlotRows, Invocations

-----------------------------------------------------------------------------
(* The clock and the slots *)

\* The windows of two slots do not overlap: one ends before a later one opens.
LEMMA WindowsAreOrdered ==
  ASSUME NEW e \in Slots, NEW s \in Slots, e < s
  PROVE  Due(e) <= Due(s) /\ Expires(e) <= Due(s)
<1>1. Cadence \in Nat /\ e \in Nat /\ s \in Nat
  BY ScheduleAssumption DEF Slots
<1>2. e <= s - 1 /\ e - 1 <= s - 1
  BY <1>1
<1>3. \A a, b, c \in Int : a <= b /\ 0 <= c => a * c <= b * c
  BY SMT
<1> QED
  BY <1>1, <1>2, <1>3 DEF Due, Expires

\* Slots are numbers, and the clock stays inside the horizon.
LEMMA ScheduleTypes ==
  /\ Slots \subseteq Nat \ {0}
  /\ \A s \in Slots : s - 1 \in 0..NSlots /\ s \in 0..NSlots /\ Due(s) \in Nat
  /\ Times \subseteq Nat /\ Horizon \in Nat /\ 0 \in Times /\ 1 \in Slots
  /\ Cadence - 1 <= Horizon
<1>1. Cadence \in Nat \ {0} /\ NSlots \in Nat \ {0}
  BY ScheduleAssumption
<1>2. NSlots * Cadence >= Cadence /\ NSlots * Cadence \in Nat
  BY <1>1, SMT
<1>3. \A s \in Slots : s - 1 \in Nat /\ (s - 1) * Cadence \in Nat
  BY <1>1, SMT DEF Slots
<1> QED
  BY <1>1, <1>2, <1>3 DEF Slots, Times, Horizon, Due

-----------------------------------------------------------------------------
(* The inductive invariant *)

\* An invocation that went through its claim works on a slot the log knows.
Claimed == {"provider", "parents", "input", "run", "result", "publish", "linked",
            "synced", "succeed"}
\* Where an invocation may be only once its slot's result is prepared.
Prepared == {"publish", "linked", "synced", "succeed"}

\* Every event of a slot is appended at a time that is not before the slot is due, and
\* the log is ordered in time: no older slot can be claimed for the first time any more.
KnownIsDue == \A s \in Known(proj) : Due(s) <= lastEvent

\* What the status of a slot says about its stage and its claim.
StatusFits ==
  \A s \in Slots :
    /\ proj[s].active # None => proj[s].status \in {"CLAIMED", "SUCCEEDED"}
    /\ proj[s].status = "SUCCEEDED" => proj[s].stage = "RESULT"
    /\ proj[s].status = "UNSEEN" => proj[s].stage = "NONE"

\* What an invocation may rely on between two of its transactions: the parents it read
\* are still the parents of its slot when prepare_input commits.
WorkerFits ==
  \A w \in Workers :
    /\ worker[w].at <= now
    /\ worker[w].pc = "gaps" => Due(worker[w].slot) <= worker[w].at
    /\ worker[w].pc \in Claimed => worker[w].slot \in Known(proj)
    /\ worker[w].pc \in Prepared => proj[worker[w].slot].stage = "RESULT"
    /\ worker[w].pc = "input" => /\ ParentChain(proj, worker[w].slot)
                                 /\ worker[w].parents = Earlier(proj, worker[w].slot)

\* The file a publisher linked is there, and nobody else publishes the same slot.
PublisherFits ==
  \A w \in Workers : worker[w].pc \in {"linked", "synced"} =>
    /\ artifact[worker[w].slot] # None
    /\ \A v \in Workers : v # w /\ worker[v].pc \in {"linked", "synced"}
                             => worker[v].slot # worker[w].slot

Inv ==
  /\ TypeOK
  /\ Integrity(proj, inputs, results)
  /\ DurableWorkHasParents
  /\ KnownIsDue
  /\ StatusFits
  /\ WorkerFits
  /\ PublisherFits

\* The initial states satisfy the invariant.
LEMMA InitInv == Init => Inv
<1> SUFFICES ASSUME Init PROVE Inv
  OBVIOUS
<1>1. TypeOK
  BY ScheduleTypes, ScheduleAssumption
     DEF Init, TypeOK, Statuses, Stages, Terminals, Idle, Steps, Times
<1>2. Known(proj) = {} /\ \A s \in Slots : proj[s].stage = "NONE" /\ proj[s].active = None
  BY DEF Init, Known
<1>3. Integrity(proj, inputs, results)
  BY <1>2 DEF Init, Integrity
<1>4. WorkerFits
  <2>1. 0 <= now
    BY ScheduleAssumption DEF Init
  <2> QED
    BY <2>1 DEF Init, WorkerFits, Idle, Claimed, Prepared
<1> QED
  BY <1>1, <1>2, <1>3, <1>4
     DEF Init, Inv, DurableWorkHasParents, Durable, KnownIsDue, StatusFits, PublisherFits, Idle

-----------------------------------------------------------------------------
(* Steps that leave the log and the files alone *)

\* Such a step keeps the invariant as soon as the worker that moved keeps its part.
LEMMA LocalStep ==
  ASSUME Inv, UNCHANGED <<store, artifact>>, NEW w \in Workers,
         NEW to \in Invocations,
         worker' = [worker EXCEPT ![w] = to],
         now' \in Times, now <= now', faults' \in 0..MaxFaults,
         to.at <= now',
         to.pc = "gaps" => Due(to.slot) <= to.at,
         to.pc \in Claimed => to.slot \in Known(proj),
         to.pc \in Prepared => proj[to.slot].stage = "RESULT",
         to.pc = "input" => ParentChain(proj, to.slot) /\ to.parents = Earlier(proj, to.slot),
         to.pc \in {"linked", "synced"} => worker[w].pc = "linked" /\ worker[w].slot = to.slot
  PROVE  Inv'
<1> USE DEF store
<1>1. TypeOK'
  BY DEF Inv, TypeOK
<1>2. WorkerFits'
  <2> SUFFICES ASSUME NEW v \in Workers
               PROVE  WorkerFits!(v)'
    BY DEF WorkerFits
  <2>1. CASE v = w
    BY <2>1 DEF Inv, TypeOK, Known, ParentChain, Earlier
  <2>2. CASE v # w
    <3>1. worker'[v] = worker[v]
      BY <2>2 DEF Inv, TypeOK
    <3>2. now \in Nat /\ now' \in Nat /\ worker[v].at \in Nat
      BY ScheduleTypes DEF Inv, TypeOK
    <3>3. worker[v].at <= now'
      BY <3>2 DEF Inv, WorkerFits
    <3> QED
      BY <3>1, <3>3 DEF Inv, WorkerFits, Known, ParentChain, Earlier
  <2> QED
    BY <2>1, <2>2
<1>3. PublisherFits'
  BY DEF Inv, TypeOK, PublisherFits
<1>4. (Integrity(proj, inputs, results) /\ DurableWorkHasParents /\ KnownIsDue /\ StatusFits)'
  BY DEF Inv, Integrity, DurableWorkHasParents, Durable, KnownIsDue, StatusFits, ParentChain,
         Earlier, Known
<1> QED
  BY <1>1, <1>2, <1>3, <1>4 DEF Inv

\* An invocation that is refused, fails or dies gives up; nothing else changes.
LEMMA GiveUpStep ==
  ASSUME Inv, UNCHANGED <<now, store, artifact>>, faults' \in 0..MaxFaults,
         NEW w \in Workers, GoTo(w, "fail") \/ Return(w)
  PROVE  Inv'
<1>1. now' \in Times /\ now <= now' /\ 0 <= now' /\ worker[w].at <= now'
  BY ScheduleTypes DEF Inv, TypeOK, WorkerFits
<1>2. CASE GoTo(w, "fail")
  <2> DEFINE to == [worker[w] EXCEPT !.pc = "fail"]
  <2>1. to \in Invocations /\ worker' = [worker EXCEPT ![w] = to] /\ to.at = worker[w].at
        /\ to.pc = "fail"
    BY <1>2 DEF Inv, TypeOK, GoTo, Steps
  <2> HIDE DEF to
  <2> QED
    BY <1>1, <2>1, LocalStep DEF Claimed, Prepared
<1>3. CASE Return(w)
  <2>1. Idle \in Invocations /\ worker' = [worker EXCEPT ![w] = Idle] /\ Idle.at = 0
        /\ Idle.pc = "idle"
    BY <1>3, ScheduleTypes DEF Return, Idle, Steps
  <2> QED
    BY <1>1, <2>1, LocalStep DEF Claimed, Prepared
<1> QED
  BY <1>2, <1>3

\* The steps that only read: each of them knows what its next step relies on.
LEMMA ReadingSteps ==
  ASSUME Inv, NEW w \in Workers,
         Start(w) \/ Recover(w) \/ CallProvider(w) \/ ReadParents(w) \/ ExecuteSlot(w)
           \/ SyncDirectory(w)
  PROVE  Inv'
<1>1. now \in Nat /\ worker[w] \in Invocations /\ faults \in 0..MaxFaults /\ now \in Times
      /\ worker[w].at <= now
  BY ScheduleTypes DEF Inv, TypeOK, WorkerFits
<1>0. ASSUME UNCHANGED <<now, store, artifact, faults>>
      PROVE  /\ UNCHANGED <<store, artifact>> /\ now' \in Times /\ now <= now'
             /\ faults' \in 0..MaxFaults /\ now' = now
  BY <1>0, <1>1
<1>2. Earlier(proj, worker[w].slot) \in SUBSET Slots
  BY DEF Earlier, Known
<1>3. CASE Start(w)
  <2> DEFINE to == [worker[w] EXCEPT !.pc = "recover", !.at = now]
  <2>1. to \in Invocations /\ worker' = [worker EXCEPT ![w] = to] /\ to.at = now
        /\ to.pc = "recover"
    BY <1>1, <1>3 DEF Inv, TypeOK, Start, Steps
  <2>2. UNCHANGED <<now, store, artifact, faults>>
    BY <1>3 DEF Start
  <2> HIDE DEF to
  <2> QED
    BY <1>0, <1>1, <2>1, <2>2, LocalStep DEF Claimed, Prepared
<1>4. CASE Recover(w)
  <2>1. PICK current \in Slots : Recover(w)!(current)
    BY <1>4 DEF Recover
  <2>2. UNCHANGED <<now, store, artifact, faults>>
    BY <2>1 DEF Unchanged
  <2>3. CASE Return(w)
    BY <1>1, <2>2, <2>3, GiveUpStep
  <2>4. ASSUME NEW s \in Slots,
               worker' = [worker EXCEPT ![w].slot = s,
                            ![w].pc = IF s = current THEN "gaps" ELSE "claim"]
        PROVE  Inv'
    <3> DEFINE to == [worker[w] EXCEPT !.slot = s,
                        !.pc = IF s = current THEN "gaps" ELSE "claim"]
    <3>1. to \in Invocations /\ worker' = [worker EXCEPT ![w] = to] /\ to.at = worker[w].at
          /\ to.slot = s /\ to.pc = IF s = current THEN "gaps" ELSE "claim"
      BY <1>1, <2>4 DEF Inv, TypeOK, Steps
    <3>2. to.pc = "gaps" => Due(to.slot) <= to.at
      BY <2>1, <3>1 DEF IsCurrent
    <3> HIDE DEF to
    <3> QED
      BY <1>0, <1>1, <2>2, <3>1, <3>2, LocalStep DEF Claimed, Prepared
  <2> QED
    BY <2>1, <2>3, <2>4 DEF Recoverable
<1>5. CASE CallProvider(w)
  <2> DEFINE to == [worker[w] EXCEPT !.pc = "parents", !.captured = now]
  <2>1. to \in Invocations /\ worker' = [worker EXCEPT ![w] = to] /\ to.at = worker[w].at
        /\ to.pc = "parents" /\ to.slot = worker[w].slot
    BY <1>1, <1>5 DEF Inv, TypeOK, CallProvider, Steps
  <2>2. UNCHANGED <<now, store, artifact, faults>> /\ worker[w].slot \in Known(proj)
    BY <1>5 DEF CallProvider, Inv, WorkerFits, Claimed
  <2> HIDE DEF to
  <2> QED
    BY <1>0, <1>1, <2>1, <2>2, LocalStep DEF Claimed, Prepared
<1>6. CASE ReadParents(w)
  <2>1. UNCHANGED <<now, store, artifact, faults>> /\ worker[w].slot \in Known(proj)
    BY <1>6 DEF ReadParents, Unchanged, Inv, WorkerFits, Claimed
  <2>2. CASE GoTo(w, "fail")
    BY <1>1, <2>1, <2>2, GiveUpStep
  <2>3. CASE ~GoTo(w, "fail")
    <3> DEFINE to == [worker[w] EXCEPT !.pc = "input", !.parents = Earlier(proj, worker[w].slot)]
    <3>1. to \in Invocations /\ worker' = [worker EXCEPT ![w] = to] /\ to.at = worker[w].at
          /\ to.pc = "input" /\ to.slot = worker[w].slot
          /\ to.parents = Earlier(proj, worker[w].slot)
      BY <1>1, <1>2, <1>6, <2>3 DEF Inv, TypeOK, ReadParents, Steps
    <3>2. ParentChain(proj, worker[w].slot)
      BY <1>6, <2>3 DEF ReadParents, ParentsOnDisk
    <3> HIDE DEF to
    <3> QED
      BY <1>0, <1>1, <2>1, <3>1, <3>2, LocalStep DEF Claimed, Prepared
  <2> QED
    BY <2>2, <2>3
<1>7. CASE ExecuteSlot(w)
  <2>1. UNCHANGED <<now, store, artifact, faults>> /\ worker[w].slot \in Known(proj)
    BY <1>7 DEF ExecuteSlot, Unchanged, Inv, WorkerFits, Claimed
  <2>2. CASE GoTo(w, "fail")
    BY <1>1, <2>1, <2>2, GiveUpStep
  <2>3. CASE ~GoTo(w, "fail")
    <3> DEFINE to == [worker[w] EXCEPT !.pc = "result", !.parents = Earlier(proj, worker[w].slot)]
    <3>1. to \in Invocations /\ worker' = [worker EXCEPT ![w] = to] /\ to.at = worker[w].at
          /\ to.pc = "result" /\ to.slot = worker[w].slot
      BY <1>1, <1>2, <1>7, <2>3 DEF Inv, TypeOK, ExecuteSlot, Steps
    <3> HIDE DEF to
    <3> QED
      BY <1>0, <1>1, <2>1, <3>1, LocalStep DEF Claimed, Prepared
  <2> QED
    BY <2>2, <2>3
<1>8. CASE SyncDirectory(w)
  <2> DEFINE to == [worker[w] EXCEPT !.pc = "succeed"]
  <2>1. to \in Invocations /\ worker' = [worker EXCEPT ![w] = to] /\ to.at = worker[w].at
        /\ to.pc = "succeed" /\ to.slot = worker[w].slot
    BY <1>1, <1>8 DEF Inv, TypeOK, SyncDirectory, GoTo, Steps
  <2>2. UNCHANGED <<now, store, artifact, faults>> /\ worker[w].slot \in Known(proj)
        /\ proj[worker[w].slot].stage = "RESULT"
    BY <1>8 DEF SyncDirectory, Unchanged, Inv, WorkerFits, Claimed, Prepared
  <2> HIDE DEF to
  <2> QED
    BY <1>0, <1>1, <2>1, <2>2, LocalStep DEF Claimed, Prepared
<1> QED
  BY <1>3, <1>4, <1>5, <1>6, <1>7, <1>8

-----------------------------------------------------------------------------
(* Steps on the artifact directory *)

\* A step that moves one worker and one file keeps the invariant if the file it leaves is
\* well formed and no publisher of the same slot loses its file.
LEMMA FileStep ==
  ASSUME Inv, UNCHANGED <<now, store>>, faults' \in 0..MaxFaults, NEW w \in Workers,
         NEW to \in Invocations,
         worker' = [worker EXCEPT ![w] = to],
         NEW file \in Artifacts \cup {None},
         artifact' = [artifact EXCEPT ![worker[w].slot] = file],
         to.at <= now,
         to.pc \in {"idle", "fail", "linked", "synced"},
         to.pc \in {"linked", "synced"} =>
           /\ file # None /\ to.slot = worker[w].slot
           /\ to.slot \in Known(proj) /\ proj[to.slot].stage = "RESULT",
         \A v \in Workers : v # w /\ worker[v].pc \in {"linked", "synced"}
                             => worker[v].slot # worker[w].slot
  PROVE  Inv'
<1> USE DEF store
<1>1. TypeOK'
  BY DEF Inv, TypeOK
<1>2. \A v \in Workers : worker'[v] = IF v = w THEN to ELSE worker[v]
  BY DEF Inv, TypeOK
<1>3. WorkerFits'
  <2> SUFFICES ASSUME NEW v \in Workers
               PROVE  WorkerFits!(v)'
    BY DEF WorkerFits
  <2>1. CASE v = w
    BY <1>2, <2>1 DEF Known, Prepared, Claimed
  <2>2. CASE v # w
    BY <1>2, <2>2 DEF Inv, WorkerFits, Known, ParentChain, Earlier
  <2> QED
    BY <2>1, <2>2
<1>4. PublisherFits'
  <2>1. \A s \in Slots : artifact'[s] = IF s = worker[w].slot THEN file ELSE artifact[s]
    BY DEF Inv, TypeOK
  <2>2. \A v \in Workers : worker[v].slot \in Slots
    BY DEF Inv, TypeOK
  <2> QED
    BY <1>2, <2>1, <2>2 DEF Inv, PublisherFits
<1>5. (Integrity(proj, inputs, results) /\ DurableWorkHasParents /\ KnownIsDue /\ StatusFits)'
  BY DEF Inv, Integrity, DurableWorkHasParents, Durable, KnownIsDue, StatusFits, ParentChain,
         Earlier, Known
<1> QED
  BY <1>1, <1>3, <1>4, <1>5 DEF Inv

\* The three steps of a publication, and the load that finds the file already there.
LEMMA PublicationSteps ==
  ASSUME Inv, NEW w \in Workers,
         Publish(w) \/ UnlinkTemporary(w) \/ RollbackPublication(w)
  PROVE  Inv'
<1> DEFINE s == worker[w].slot
<1>1. /\ worker[w] \in Invocations /\ worker[w].at <= now /\ 0 <= now /\ faults \in 0..MaxFaults
      /\ s \in Slots
  BY ScheduleTypes DEF Inv, TypeOK, WorkerFits
<1>2. CASE Publish(w)
  <2>1. s \in Known(proj) /\ proj[s].stage = "RESULT"
    BY <1>2 DEF Publish, Inv, WorkerFits, Claimed, Prepared
  <2>2. results[s] \in Results
    BY <1>1, <2>1 DEF Inv, TypeOK, Integrity
  <2>3. UNCHANGED <<now, store>> /\ faults' \in 0..MaxFaults
    BY <1>1, <1>2 DEF Publish
  <2>4. CASE artifact' = artifact /\ GoTo(w, "fail")
    BY <2>3, <2>4, <1>2, GiveUpStep DEF Publish
  <2>5. CASE artifact' = artifact /\ GoTo(w, "succeed")
    <3> DEFINE to == [worker[w] EXCEPT !.pc = "succeed"]
    <3>1. to \in Invocations /\ worker' = [worker EXCEPT ![w] = to] /\ to.at = worker[w].at
          /\ to.pc = "succeed" /\ to.slot = s
      BY <1>1, <2>5 DEF Inv, TypeOK, GoTo, Steps
    <3>2. now' \in Times /\ now <= now' /\ now' = now /\ UNCHANGED <<store, artifact>>
      BY <2>3, <2>5, ScheduleTypes DEF Inv, TypeOK
    <3> HIDE DEF to
    <3> QED
      BY <1>1, <2>1, <2>3, <3>1, <3>2, LocalStep DEF Claimed, Prepared
  <2>6. CASE /\ artifact[s] = None /\ GoTo(w, "linked")
             /\ artifact' = [artifact EXCEPT ![s] = [body |-> results[s], links |-> 2]]
    <3> DEFINE to == [worker[w] EXCEPT !.pc = "linked"]
               file == [body |-> results[s], links |-> 2]
    <3>1. to \in Invocations /\ worker' = [worker EXCEPT ![w] = to] /\ to.at = worker[w].at
          /\ to.pc = "linked" /\ to.slot = s
      <4>1. worker \in [Workers -> Invocations] /\ "linked" \in Steps
        BY DEF Inv, TypeOK, Steps
      <4> QED
        BY <1>1, <2>6, <4>1 DEF GoTo
    <3>2. file \in Artifacts /\ file # None
      BY <2>2, NoneAssumption DEF Artifacts
    <3>3. \A v \in Workers : worker[v].pc \in {"linked", "synced"} => worker[v].slot # s
      BY <2>6 DEF Inv, PublisherFits
    <3>4. artifact' = [artifact EXCEPT ![worker[w].slot] = file]
      BY <2>6
    <3>5. to.at <= now /\ to.pc \in {"idle", "fail", "linked", "synced"}
      BY <1>1, <3>1
    <3> HIDE DEF to, file
    <3> QED
      BY <2>1, <2>3, <3>1, <3>2, <3>3, <3>4, <3>5, FileStep
  <2> QED
    BY <1>2, <2>4, <2>5, <2>6 DEF Publish
<1>3. CASE UnlinkTemporary(w)
  <2> DEFINE to == [worker[w] EXCEPT !.pc = "synced"]
             file == [artifact[s] EXCEPT !.links = 1]
  <2>1. to \in Invocations /\ worker' = [worker EXCEPT ![w] = to] /\ to.at = worker[w].at
        /\ to.pc = "synced" /\ to.slot = s
    BY <1>1, <1>3 DEF Inv, TypeOK, UnlinkTemporary, GoTo, Steps
  <2>2. artifact[s] \in Artifacts /\ artifact' = [artifact EXCEPT ![s] = file]
    BY <1>1, <1>3 DEF Inv, TypeOK, PublisherFits, UnlinkTemporary
  <2>3. file \in Artifacts /\ file # None
    BY <2>2, NoneAssumption DEF Artifacts
  <2>4. s \in Known(proj) /\ proj[s].stage = "RESULT" /\ UNCHANGED <<now, store, faults>>
    BY <1>3 DEF UnlinkTemporary, Inv, WorkerFits, Claimed, Prepared
  <2>5. \A v \in Workers : v # w /\ worker[v].pc \in {"linked", "synced"} => worker[v].slot # s
    BY <1>3 DEF Inv, PublisherFits, UnlinkTemporary
  <2> HIDE DEF to, file
  <2> QED
    BY <1>1, <2>1, <2>2, <2>3, <2>4, <2>5, FileStep
<1>4. CASE RollbackPublication(w)
  <2>1. Idle \in Invocations /\ worker' = [worker EXCEPT ![w] = Idle] /\ Idle.at = 0
        /\ Idle.pc = "idle"
    BY <1>4, ScheduleTypes DEF RollbackPublication, Return, Idle, Steps
  <2>2. UNCHANGED <<now, store>> /\ artifact' = [artifact EXCEPT ![s] = None]
    BY <1>4 DEF RollbackPublication
  <2>3. faults' \in 0..MaxFaults
    BY <1>1, <1>4, ScheduleAssumption DEF RollbackPublication
  <2>4. \A v \in Workers : v # w /\ worker[v].pc \in {"linked", "synced"} => worker[v].slot # s
    BY <1>4 DEF Inv, PublisherFits, RollbackPublication
  <2> QED
    BY <1>1, <2>1, <2>2, <2>3, <2>4, FileStep
<1> QED
  BY <1>2, <1>3, <1>4

\* The faults that only end an invocation, and the clock.
LEMMA FaultAndClockSteps ==
  ASSUME Inv, Tick \/ \E w \in Workers : ProviderFails(w) \/ DatabaseLocked(w) \/ Crash(w)
  PROVE  Inv'
<1>1. ASSUME NEW w \in Workers, ProviderFails(w) \/ DatabaseLocked(w) \/ Crash(w)
      PROVE  Inv'
  <2>1. faults' \in 0..MaxFaults
    BY <1>1, ScheduleAssumption DEF Inv, TypeOK, ProviderFails, DatabaseLocked, Crash
  <2> QED
    BY <1>1, <2>1, GiveUpStep DEF ProviderFails, DatabaseLocked, Crash
<1>2. CASE Tick
  <2>1. now' \in Times /\ now <= now' /\ UNCHANGED <<store, artifact, worker, faults>>
    BY <1>2, ScheduleTypes DEF Tick, Inv, TypeOK, Times
  <2>2. TypeOK'
    BY <2>1 DEF Inv, TypeOK, store
  <2>3. ASSUME NEW w \in Workers PROVE worker[w].at <= now'
    <3>1. now \in Nat /\ now' \in Nat /\ worker[w].at \in Nat
      BY <2>1, ScheduleTypes DEF Inv, TypeOK
    <3> QED
      BY <2>1, <3>1 DEF Inv, WorkerFits
  <2>4. WorkerFits' /\ PublisherFits'
    BY <2>1, <2>3 DEF Inv, WorkerFits, PublisherFits, Known, ParentChain, Earlier, store
  <2>5. (Integrity(proj, inputs, results) /\ DurableWorkHasParents /\ KnownIsDue /\ StatusFits)'
    BY <2>1 DEF Inv, Integrity, DurableWorkHasParents, Durable, KnownIsDue, StatusFits,
                ParentChain, Earlier, Known, store
  <2> QED
    BY <2>2, <2>4, <2>5 DEF Inv
<1> QED
  BY <1>1, <1>2

-----------------------------------------------------------------------------
(* Committed transactions *)

\* A new log is steady over the old one when it forgets nothing, takes back no success and
\* adds no slot below a slot that stands on a complete chain.
Steady(p) ==
  /\ Known(proj) \subseteq Known(p)
  /\ \A e \in Slots : proj[e].status = "SUCCEEDED" => p[e].status = "SUCCEEDED"
  /\ \A s \in Known(proj) : ParentChain(proj, s) => Earlier(p, s) = Earlier(proj, s)

\* A chain under a known slot survives every steady change.
LEMMA ChainIsSteady ==
  ASSUME NEW p, Steady(p), NEW s \in Known(proj), ParentChain(proj, s)
  PROVE  ParentChain(p, s) /\ Earlier(p, s) = Earlier(proj, s)
BY DEF Steady, ParentChain, Earlier, Known

\* A committed transaction keeps the invariant if the log it leaves is steady and well
\* formed, its new slots are due and its new durable slot stands on a chain.
LEMMA CommitStep ==
  ASSUME Inv, NEW w \in Workers, NEW p, NEW in, NEW res,
         Commit(w, p, in, res), CommitAllowed(w, p, in, res),
         p \in [Slots -> SlotRows],
         in \in [Slots -> Inputs \cup {None}], res \in [Slots -> Results \cup {None}],
         Steady(p),
         \A s \in Known(p) \ Known(proj) : Due(s) <= worker[w].at,
         \A s \in Slots : p[s].stage # "NONE" => \/ Durable(s)
                                                 \/ s \in Known(proj) /\ ParentChain(proj, s),
         \A s \in Slots : proj[s].stage = "RESULT" => p[s].stage = "RESULT",
         \A s \in Slots :
           /\ p[s].active # None => p[s].status \in {"CLAIMED", "SUCCEEDED"}
           /\ p[s].status = "SUCCEEDED" => p[s].stage = "RESULT"
           /\ p[s].status = "UNSEEN" => p[s].stage = "NONE",
         NEW to \in Invocations,
         worker' = [worker EXCEPT ![w] = to],
         to.at <= now,
         to.pc \notin {"gaps", "input", "linked", "synced"},
         to.pc \in Claimed => to.slot \in Known(p),
         to.pc \in Prepared => p[to.slot].stage = "RESULT"
  PROVE  Inv'
<1>1. /\ proj' = p /\ inputs' = in /\ results' = res /\ lastEvent' = worker[w].at
      /\ UNCHANGED <<now, artifact, faults>>
  BY DEF Commit
<1>2. /\ worker[w].at \in Times /\ worker[w].at \in Nat /\ lastEvent \in Nat
      /\ lastEvent <= worker[w].at
  BY ScheduleTypes DEF Inv, TypeOK, CommitAllowed, TimeOrdered
<1>3. TypeOK'
  BY <1>1, <1>2 DEF Inv, TypeOK
<1>4. Integrity(proj, inputs, results)'
  BY <1>1 DEF CommitAllowed
<1>5. \A s \in Slots : Durable(s) => s \in Known(proj) /\ ParentChain(proj, s)
  BY DEF Inv, DurableWorkHasParents, StatusFits, Durable, Known
<1>6. DurableWorkHasParents'
  <2> SUFFICES ASSUME NEW s \in Slots, p[s].stage # "NONE"
               PROVE  ParentChain(p, s)
    BY <1>1 DEF DurableWorkHasParents, Durable, ParentChain, Earlier, Known
  <2> QED
    BY <1>5, ChainIsSteady
<1>7. KnownIsDue'
  <2> SUFFICES ASSUME NEW s \in Known(p)
               PROVE  Due(s) <= worker[w].at
    BY <1>1 DEF KnownIsDue, Known
  <2>1. Due(s) \in Nat
    BY ScheduleTypes DEF Known
  <2> QED
    BY <1>2, <2>1 DEF Inv, KnownIsDue
<1>8. StatusFits'
  BY <1>1 DEF StatusFits
<1>9. \A v \in Workers : worker'[v] = IF v = w THEN to ELSE worker[v]
  BY DEF Inv, TypeOK
<1>10. WorkerFits'
  <2> SUFFICES ASSUME NEW v \in Workers
               PROVE  WorkerFits!(v)'
    BY DEF WorkerFits
  <2>1. CASE v = w
    BY <1>1, <1>9, <2>1 DEF Known, Prepared, Claimed
  <2>2. CASE v # w
    <3>1. worker'[v] = worker[v]
      BY <1>9, <2>2
    <3>2. worker[v].pc \in Claimed => worker[v].slot \in Known(p)
      BY DEF Inv, WorkerFits, Steady
    <3>3. worker[v].pc = "input" => /\ ParentChain(p, worker[v].slot)
                                   /\ worker[v].parents = Earlier(p, worker[v].slot)
      BY ChainIsSteady DEF Inv, WorkerFits, Claimed
    <3>4. worker[v].slot \in Slots
      BY DEF Inv, TypeOK
    <3> QED
      BY <1>1, <3>1, <3>2, <3>3, <3>4 DEF Inv, WorkerFits, Known, ParentChain, Earlier
  <2> QED
    BY <2>1, <2>2
<1>11. PublisherFits'
  BY <1>1, <1>9 DEF Inv, PublisherFits
<1> QED
  BY <1>3, <1>4, <1>6, <1>7, <1>8, <1>10, <1>11 DEF Inv

\* Nothing that the log adds under a slot on a complete chain can be an unseen slot whose
\* window is still open: the time of the last event is past that window.
LEMMA UnseenBelowIsOver ==
  ASSUME Inv, NEW s \in Known(proj), NEW e \in Slots, e < s, NEW t \in Times,
         lastEvent <= t, IsCurrent(e, t)
  PROVE  FALSE
<1>1. s \in Slots /\ Due(s) <= lastEvent /\ Expires(e) <= Due(s) /\ t < Expires(e)
  BY WindowsAreOrdered DEF Inv, KnownIsDue, Known, IsCurrent
<1>2. t \in Nat /\ lastEvent \in Nat /\ Due(s) \in Nat /\ Expires(e) \in Int
  BY <1>1, ScheduleTypes, ScheduleAssumption DEF Inv, TypeOK, Expires
<1> QED
  BY <1>1, <1>2

\* A log that differs in slots which were known already, and which takes back no success,
\* is steady.
LEMMA KnownSlotsAreSteady ==
  ASSUME NEW p, Known(p) = Known(proj),
         \A e \in Slots : proj[e].status = "SUCCEEDED" => p[e].status = "SUCCEEDED"
  PROVE  Steady(p)
BY DEF Steady, Earlier

\* claim either refuses or commits on top of a steady log.
LEMMA ClaimStep ==
  ASSUME Inv, NEW w \in Workers, Claim(w)
  PROVE  Inv'
<1> DEFINE s == worker[w].slot
           t == worker[w].at
           p == [proj EXCEPT ![s].status = "CLAIMED", ![s].active = [by |-> w, at |-> t]]
           step == CASE proj[s].stage = "NONE" -> "provider"
                     [] proj[s].stage = "INPUT" -> "run"
                     [] proj[s].stage = "RESULT" -> "publish"
<1>1. s \in Slots /\ t \in Times /\ t <= now /\ worker[w] \in Invocations /\ worker[w].pc = "claim"
  BY DEF Inv, TypeOK, WorkerFits, Claim
<1>2. CASE Return(w) /\ Unchanged
  BY <1>2, GiveUpStep DEF Unchanged, Inv, TypeOK
<1>3. CASE /\ Claimable(s, t) /\ CommitAllowed(w, p, inputs, results)
           /\ Commit(w, p, inputs, results) /\ GoTo(w, step)
  <2>1. [by |-> w, at |-> t] \in Claims /\ [by |-> w, at |-> t] # None
    BY <1>1, NoneAssumption DEF Claims
  <2>2. p \in [Slots -> SlotRows]
    <3> DEFINE claim == [by |-> w, at |-> t]
    <3>1. claim \in Claims
      BY <2>1
    <3> HIDE DEF claim
    <3>2. proj[s] \in SlotRows /\ "CLAIMED" \in Statuses
      BY <1>1 DEF Inv, TypeOK, Statuses
    <3>3. [proj[s] EXCEPT !.status = "CLAIMED", !.active = claim] \in SlotRows
      BY <3>1, <3>2
    <3> QED
      BY <1>1, <3>3 DEF Inv, TypeOK, claim
  <2>3. \A u \in Slots : u # s => p[u] = proj[u]
    BY <1>1 DEF Inv, TypeOK
  <2>4. /\ p[s].status = "CLAIMED" /\ p[s].stage = proj[s].stage
        /\ p[s].active = [by |-> w, at |-> t]
    BY <1>1 DEF Inv, TypeOK
  <2> HIDE DEF p
  <2>5. Known(p) = Known(proj) \cup {s}
    BY <1>1, <2>3, <2>4 DEF Known
  <2>6. proj[s].status # "SUCCEEDED"
    BY <1>3 DEF Claimable, Terminal, Terminals
  <2>7. s \notin Known(proj) => IsCurrent(s, t)
    BY <1>1, <1>3 DEF Claimable, Known, Durable, Inv, StatusFits
  <2>8. Steady(p)
    <3>1. ASSUME NEW u \in Known(proj), s \notin Known(proj), s < u
          PROVE  FALSE
      BY <1>1, <1>3, <2>7, <3>1, UnseenBelowIsOver DEF CommitAllowed, TimeOrdered
    <3> QED
      BY <2>3, <2>5, <2>6, <3>1 DEF Steady, Earlier, Known
  <2>9. \A u \in Known(p) \ Known(proj) : Due(u) <= t
    BY <2>5, <2>7 DEF IsCurrent
  <2>10. \A u \in Slots : p[u].stage = proj[u].stage
    BY <2>3, <2>4
  <2>11. \A u \in Slots :
           /\ p[u].active # None => p[u].status \in {"CLAIMED", "SUCCEEDED"}
           /\ p[u].status = "SUCCEEDED" => p[u].stage = "RESULT"
           /\ p[u].status = "UNSEEN" => p[u].stage = "NONE"
    BY <2>3, <2>4 DEF Inv, StatusFits
  <2>12. step \in {"provider", "run", "publish"} /\ (step = "publish" => proj[s].stage = "RESULT")
    BY <1>1 DEF Inv, TypeOK, Stages
  <2> HIDE DEF step
  <2> DEFINE to == [worker[w] EXCEPT !.pc = step]
  <2>13. to \in Invocations /\ worker' = [worker EXCEPT ![w] = to] /\ to.at = t /\ to.pc = step
         /\ to.slot = s
    BY <1>1, <1>3, <2>12 DEF Inv, TypeOK, GoTo, Steps
  <2>14. to.slot \in Known(p) /\ (to.pc \in Prepared => p[to.slot].stage = "RESULT")
    BY <2>4, <2>5, <2>12, <2>13 DEF Prepared
  <2>15. inputs \in [Slots -> Inputs \cup {None}] /\ results \in [Slots -> Results \cup {None}]
    BY DEF Inv, TypeOK
  <2> HIDE DEF to
  <2> QED
    BY <1>1, <1>3, <2>2, <2>8, <2>9, <2>10, <2>11, <2>12, <2>13, <2>14, <2>15, CommitStep
       DEF Durable
<1> QED
  BY <1>2, <1>3 DEF Claim

\* record_gaps closes slots above every complete chain only, and none with durable work.
LEMMA GapsAreSteady ==
  ASSUME Inv, NEW cur \in Slots, NEW t \in Times
  PROVE  /\ Gapped(cur, t) \in [Slots -> SlotRows]
         /\ Steady(Gapped(cur, t))
         /\ Known(Gapped(cur, t)) = Known(proj) \cup MissedSlots(cur)
         /\ \A s \in Slots :
              \/ Gapped(cur, t)[s] = proj[s]
              \/ /\ Gapped(cur, t)[s].status \in {"MISSED", "EXPIRED"}
                 /\ Gapped(cur, t)[s].stage = "NONE" /\ Gapped(cur, t)[s].active = None
                 /\ ~Terminal(s) /\ ~Durable(s)
<1> DEFINE p == Gapped(cur, t)
<1>1. \A s \in Slots : proj[s] \in SlotRows
  BY DEF Inv, TypeOK
<1>2. "MISSED" \in Statuses /\ "EXPIRED" \in Statuses
  BY DEF Statuses, Terminals
<1>3. ASSUME NEW s \in Slots
      PROVE  p[s] \in SlotRows
  BY <1>1, <1>2 DEF Gapped
<1>4. p \in [Slots -> SlotRows]
  BY <1>3 DEF Gapped
<1>5. ASSUME NEW s \in MissedSlots(cur)
      PROVE  /\ p[s].status = "MISSED" /\ p[s].stage = "NONE" /\ p[s].active = None
             /\ s \in Slots /\ ~Terminal(s) /\ ~Durable(s)
  <2>1. s \in Slots /\ proj[s].status = "UNSEEN"
    BY DEF MissedSlots, Known
  <2>2. proj[s].stage = "NONE" /\ proj[s].active = None
    BY <2>1 DEF Inv, StatusFits
  <2>3. p[s] = [proj[s] EXCEPT !.status = "MISSED"]
    BY <2>1 DEF Gapped
  <2> QED
    BY <1>1, <2>1, <2>2, <2>3 DEF Terminal, Terminals, Durable
<1>6. ASSUME NEW s \in ExpiredSlots(cur, t), s \notin MissedSlots(cur)
      PROVE  /\ p[s].status = "EXPIRED" /\ p[s].stage = "NONE" /\ p[s].active = None
             /\ s \in Slots /\ s \in Known(proj) /\ ~Terminal(s) /\ ~Durable(s)
  <2>1. s \in Slots /\ s \in Known(proj) /\ ~Terminal(s) /\ ~Durable(s)
    BY DEF ExpiredSlots, Earlier, Known
  <2>2. p[s] = [proj[s] EXCEPT !.status = "EXPIRED", !.active = None]
    BY <1>6, <2>1 DEF Gapped
  <2> QED
    BY <1>1, <2>1, <2>2 DEF Durable
<1>7. ASSUME NEW s \in Slots, s \notin MissedSlots(cur), s \notin ExpiredSlots(cur, t)
      PROVE  p[s] = proj[s]
  BY <1>7 DEF Gapped
<1> HIDE DEF p
<1>8. Known(p) = Known(proj) \cup MissedSlots(cur)
  BY <1>5, <1>6, <1>7 DEF Known
<1>9. ASSUME NEW s \in Known(proj), ParentChain(proj, s), NEW e \in MissedSlots(cur), e < s
      PROVE  FALSE
  <2>1. /\ e \in Slots /\ e \notin Known(proj) /\ e < cur /\ s \in Slots
        /\ \A d \in Earlier(proj, cur) : d < e
    BY DEF MissedSlots, Known
  <2>2. PICK d \in Earlier(proj, e) : TRUE
    BY DEF MissedSlots
  <2>3. e \in Int /\ s \in Int /\ cur \in Int /\ d \in Int /\ d \in Known(proj) /\ d < e
    BY <2>1, <2>2 DEF Slots, Earlier, Known
  <2>4. CASE s < cur
    BY <1>9, <2>1, <2>3, <2>4 DEF Earlier
  <2>5. CASE cur <= s
    <3>1. d \in Earlier(proj, s)
      BY <1>9, <2>3 DEF Earlier
    <3>2. d .. (s - 1) \subseteq Known(proj)
      BY <1>9, <3>1 DEF ParentChain
    <3> QED
      BY <1>9, <2>1, <2>3, <3>2
  <2> QED
    BY <2>3, <2>4, <2>5
<1>10. Steady(p)
  <2>1. \A e \in Slots : proj[e].status = "SUCCEEDED" => p[e].status = "SUCCEEDED"
    BY <1>5, <1>6, <1>7 DEF Terminal, Terminals
  <2>2. \A s \in Known(proj) : ParentChain(proj, s) => Earlier(p, s) = Earlier(proj, s)
    BY <1>8, <1>9 DEF Earlier
  <2> QED
    BY <1>8, <2>1, <2>2 DEF Steady
<1>11. \A s \in Slots : \/ p[s] = proj[s]
                         \/ /\ p[s].status \in {"MISSED", "EXPIRED"}
                            /\ p[s].stage = "NONE" /\ p[s].active = None
                            /\ ~Terminal(s) /\ ~Durable(s)
  BY <1>5, <1>6, <1>7
<1> QED
  BY <1>4, <1>8, <1>10, <1>11 DEF p

\* record_gaps keeps the invariant.
LEMMA RecordGapsStep ==
  ASSUME Inv, NEW w \in Workers, RecordGaps(w)
  PROVE  Inv'
<1> DEFINE s == worker[w].slot
           t == worker[w].at
           p == Gapped(s, t)
           to == [worker[w] EXCEPT !.pc = "claim"]
<1>1. /\ s \in Slots /\ t \in Times /\ t <= now /\ worker[w] \in Invocations
      /\ Due(s) <= t
  BY DEF Inv, TypeOK, WorkerFits, RecordGaps
<1>2. CASE Return(w) /\ Unchanged
  BY <1>2, GiveUpStep DEF Unchanged, Inv, TypeOK
<1>3. ASSUME GoTo(w, "claim")
      PROVE  /\ to \in Invocations /\ worker' = [worker EXCEPT ![w] = to] /\ to.at = t
             /\ to.pc = "claim" /\ to.slot = s
  BY <1>1, <1>3 DEF Inv, TypeOK, GoTo, Steps
<1> HIDE DEF to
<1>4. CASE Refuse(w, "claim")
  <2>1. /\ UNCHANGED <<store, artifact>> /\ now' \in Times /\ now <= now' /\ now' = now
        /\ faults' \in 0..MaxFaults /\ GoTo(w, "claim")
    BY <1>4, ScheduleTypes DEF Refuse, Unchanged, Inv, TypeOK
  <2> QED
    BY <1>1, <1>3, <2>1, LocalStep DEF Claimed, Prepared
<1>5. CASE /\ CommitAllowed(w, p, inputs, results)
           /\ Commit(w, p, inputs, results) /\ GoTo(w, "claim")
  <2>1. /\ p \in [Slots -> SlotRows] /\ Steady(p) /\ Known(p) = Known(proj) \cup MissedSlots(s)
        /\ \A u \in Slots :
             \/ p[u] = proj[u]
             \/ /\ p[u].status \in {"MISSED", "EXPIRED"}
                /\ p[u].stage = "NONE" /\ p[u].active = None /\ ~Terminal(u) /\ ~Durable(u)
    BY <1>1, GapsAreSteady
  <2> HIDE DEF p
  <2>2. ASSUME NEW u \in Known(p) \ Known(proj)
        PROVE  Due(u) <= t
    <3>1. u \in Slots /\ u < s
      BY <2>1 DEF MissedSlots, Known
    <3>2. Due(u) <= Due(s) /\ Due(u) \in Nat /\ Due(s) \in Nat /\ t \in Nat
      BY <1>1, <3>1, WindowsAreOrdered, ScheduleTypes
    <3> QED
      BY <1>1, <3>2
  <2>3. \A u \in Slots : p[u].stage = proj[u].stage \/ (p[u].stage = "NONE" /\ ~Durable(u))
    BY <2>1
  <2>4. \A u \in Slots :
          /\ p[u].active # None => p[u].status \in {"CLAIMED", "SUCCEEDED"}
          /\ p[u].status = "SUCCEEDED" => p[u].stage = "RESULT"
          /\ p[u].status = "UNSEEN" => p[u].stage = "NONE"
    BY <2>1 DEF Inv, StatusFits
  <2>5. inputs \in [Slots -> Inputs \cup {None}] /\ results \in [Slots -> Results \cup {None}]
    BY DEF Inv, TypeOK
  <2>6. \A u \in Slots : /\ p[u].stage # "NONE" => Durable(u)
                         /\ proj[u].stage = "RESULT" => p[u].stage = "RESULT"
    BY <2>3 DEF Durable
  <2>7. /\ to \in Invocations /\ worker' = [worker EXCEPT ![w] = to] /\ to.at <= now
        /\ to.pc = "claim"
    BY <1>1, <1>3, <1>5
  <2>8. to.pc \notin {"gaps", "input", "linked", "synced"} /\ to.pc \notin Claimed
        /\ to.pc \notin Prepared
    BY <2>7 DEF Claimed, Prepared
  <2> QED
    BY <1>5, <2>1, <2>2, <2>4, <2>5, <2>6, <2>7, <2>8, CommitStep
<1> QED
  BY <1>2, <1>4, <1>5 DEF RecordGaps

\* The transactions after the claim change one known slot and never take a success back.
LEMMA OneSlotIsSteady ==
  ASSUME Inv, NEW s \in Known(proj), NEW row \in SlotRows, row.status # "UNSEEN",
         proj[s].status = "SUCCEEDED" => row.status = "SUCCEEDED"
  PROVE  /\ [proj EXCEPT ![s] = row] \in [Slots -> SlotRows]
         /\ Steady([proj EXCEPT ![s] = row])
         /\ Known([proj EXCEPT ![s] = row]) = Known(proj)
         /\ \A u \in Slots : [proj EXCEPT ![s] = row][u] = IF u = s THEN row ELSE proj[u]
<1> DEFINE p == [proj EXCEPT ![s] = row]
<1>1. s \in Slots /\ proj \in [Slots -> SlotRows]
  BY DEF Known, Inv, TypeOK
<1>2. p \in [Slots -> SlotRows] /\ \A u \in Slots : p[u] = IF u = s THEN row ELSE proj[u]
  BY <1>1
<1> HIDE DEF p
<1>3. Known(p) = Known(proj)
  BY <1>1, <1>2 DEF Known
<1>4. Steady(p)
  BY <1>2, <1>3, KnownSlotsAreSteady
<1> QED
  BY <1>2, <1>3, <1>4 DEF p

\* prepare_input: the parents read before the transaction are still the parents, so the
\* slot gets its input on top of a complete chain.
LEMMA PrepareInputStep ==
  ASSUME Inv, NEW w \in Workers, PrepareInput(w)
  PROVE  Inv'
<1> DEFINE s == worker[w].slot
           t == worker[w].at
           to == [worker[w] EXCEPT !.pc = "run"]
           row == [proj[s] EXCEPT !.stage = "INPUT"]
           p == [proj EXCEPT ![s].stage = "INPUT"]
           capture(scenario) == [capturedAt |-> worker[w].captured,
                                 prev |-> LastParent(s, worker[w].parents),
                                 scenario |-> scenario]
           in(scenario) == [inputs EXCEPT ![s] = capture(scenario)]
<1>1. /\ s \in Slots /\ t \in Times /\ t <= now /\ worker[w] \in Invocations
      /\ s \in Known(proj) /\ ParentChain(proj, s) /\ worker[w].pc = "input"
  BY DEF Inv, TypeOK, WorkerFits, PrepareInput, Claimed
<1>2. CASE Refuse(w, "fail")
  BY <1>2, GiveUpStep DEF Refuse, Unchanged, Inv, TypeOK
<1>3. CASE ~Refuse(w, "fail")
  <2>1. PICK scenario \in Scenarios :
          /\ ~Durable(s) /\ Owns(w) /\ CommitAllowed(w, p, in(scenario), results)
          /\ Commit(w, p, in(scenario), results) /\ GoTo(w, "run")
    BY <1>3 DEF PrepareInput
  <2>2. proj[s] \in SlotRows /\ "INPUT" \in Stages
        /\ LastParent(s, worker[w].parents) \in 0..NSlots
    <3>1. s - 1 \in 0..NSlots /\ 0 \in 0..NSlots
      BY <1>1, ScheduleTypes, ScheduleAssumption
    <3> QED
      BY <1>1, <3>1 DEF Inv, TypeOK, Stages, LastParent
  <2>3. row \in SlotRows /\ row.status = proj[s].status /\ row.active = proj[s].active
        /\ row.stage = "INPUT" /\ p = [proj EXCEPT ![s] = row]
    BY <1>1, <2>2 DEF Inv, TypeOK
  <2>4. capture(scenario) \in Inputs
    BY <1>1, <2>1, <2>2, ScheduleAssumption DEF Inputs
  <2>5. in(scenario) \in [Slots -> Inputs \cup {None}] /\ results \in [Slots -> Results \cup {None}]
    BY <1>1, <2>4 DEF Inv, TypeOK
  <2>6. to \in Invocations /\ worker' = [worker EXCEPT ![w] = to] /\ to.at = t
        /\ to.pc = "run" /\ to.slot = s
    <3>1. worker \in [Workers -> Invocations] /\ "run" \in Steps
      BY DEF Inv, TypeOK, Steps
    <3> QED
      BY <1>1, <2>1, <3>1 DEF GoTo
  <2>7. proj[s].stage = "NONE" /\ proj[s].status # "UNSEEN" /\ proj[s].status # "SUCCEEDED"
    BY <1>1, <2>1 DEF Durable, Known, Inv, StatusFits
  <2> HIDE DEF to, row, p, in
  <2>8. /\ p \in [Slots -> SlotRows] /\ Steady(p) /\ Known(p) = Known(proj)
        /\ \A u \in Slots : p[u] = IF u = s THEN row ELSE proj[u]
    <3>1. /\ s \in Known(proj) /\ row \in SlotRows /\ row.status # "UNSEEN"
          /\ proj[s].status = "SUCCEEDED" => row.status = "SUCCEEDED"
      BY <1>1, <2>3, <2>7
    <3>2. p = [proj EXCEPT ![s] = row]
      BY <2>3
    <3> QED
      BY <3>1, <3>2, OneSlotIsSteady
  <2>9. \A u \in Slots :
          /\ p[u].active # None => p[u].status \in {"CLAIMED", "SUCCEEDED"}
          /\ p[u].status = "SUCCEEDED" => p[u].stage = "RESULT"
          /\ p[u].status = "UNSEEN" => p[u].stage = "NONE"
    BY <2>3, <2>7, <2>8 DEF Inv, StatusFits
  <2>10. \A u \in Slots :
           /\ p[u].stage # "NONE" => Durable(u) \/ (u \in Known(proj) /\ ParentChain(proj, u))
           /\ proj[u].stage = "RESULT" => p[u].stage = "RESULT"
    BY <1>1, <2>7, <2>8 DEF Durable
  <2>12. \A u \in Known(p) \ Known(proj) : Due(u) <= t
    BY <2>8
  <2>13. to.slot \in Known(p) /\ to.at <= now
    BY <1>1, <2>6, <2>8
  <2> DEFINE rows == in(scenario)
  <2>14. /\ CommitAllowed(w, p, rows, results) /\ Commit(w, p, rows, results)
         /\ rows \in [Slots -> Inputs \cup {None}]
    BY <2>1, <2>5
  <2> HIDE DEF rows
  <2> QED
    BY <2>5, <2>6, <2>8, <2>9, <2>10, <2>12, <2>13, <2>14, CommitStep DEF Claimed, Prepared
<1> QED
  BY <1>2, <1>3

\* prepare_result: the slot keeps its chain and gains the replay of its input.
LEMMA PrepareResultStep ==
  ASSUME Inv, NEW w \in Workers, PrepareResult(w)
  PROVE  Inv'
<1> DEFINE s == worker[w].slot
           t == worker[w].at
           to == [worker[w] EXCEPT !.pc = "publish"]
           row == [proj[s] EXCEPT !.stage = "RESULT"]
           p == [proj EXCEPT ![s].stage = "RESULT"]
           res == [results EXCEPT ![s] = RunSlot(inputs[s])]
<1>1. s \in Slots /\ t \in Times /\ t <= now /\ worker[w] \in Invocations /\ s \in Known(proj)
  BY DEF Inv, TypeOK, WorkerFits, PrepareResult, Claimed
<1>2. CASE Refuse(w, "fail")
  BY <1>2, GiveUpStep DEF Refuse, Unchanged, Inv, TypeOK
<1>3. CASE /\ proj[s].stage = "INPUT"
           /\ CommitAllowed(w, p, inputs, res)
           /\ Commit(w, p, inputs, res) /\ GoTo(w, "publish")
  <2>1. inputs[s] \in Inputs
    BY <1>1, <1>3 DEF Inv, TypeOK, Integrity
  <2>2. RunSlot(inputs[s]) \in Results
    BY <2>1 DEF RunSlot, Results
  <2>3. res \in [Slots -> Results \cup {None}] /\ inputs \in [Slots -> Inputs \cup {None}]
    BY <1>1, <2>2 DEF Inv, TypeOK
  <2>4. proj[s] \in SlotRows /\ "RESULT" \in Stages
    BY <1>1 DEF Inv, TypeOK, Stages
  <2>5. row \in SlotRows /\ row.status = proj[s].status /\ row.active = proj[s].active
        /\ row.stage = "RESULT" /\ p = [proj EXCEPT ![s] = row]
    BY <1>1, <2>4 DEF Inv, TypeOK
  <2>6. to \in Invocations /\ worker' = [worker EXCEPT ![w] = to] /\ to.at = t
        /\ to.pc = "publish" /\ to.slot = s
    <3>1. worker \in [Workers -> Invocations] /\ "publish" \in Steps
      BY DEF Inv, TypeOK, Steps
    <3> QED
      BY <1>1, <1>3, <3>1 DEF GoTo
  <2>7. proj[s].status # "UNSEEN"
    BY <1>1 DEF Known
  <2> HIDE DEF to, row, p, res
  <2>8. /\ p \in [Slots -> SlotRows] /\ Steady(p) /\ Known(p) = Known(proj)
        /\ \A u \in Slots : p[u] = IF u = s THEN row ELSE proj[u]
    <3>1. /\ s \in Known(proj) /\ row \in SlotRows /\ row.status # "UNSEEN"
          /\ proj[s].status = "SUCCEEDED" => row.status = "SUCCEEDED"
      BY <1>1, <2>5, <2>7
    <3>2. p = [proj EXCEPT ![s] = row]
      BY <2>5
    <3> QED
      BY <3>1, <3>2, OneSlotIsSteady
  <2>9. \A u \in Slots :
          /\ p[u].active # None => p[u].status \in {"CLAIMED", "SUCCEEDED"}
          /\ p[u].status = "SUCCEEDED" => p[u].stage = "RESULT"
          /\ p[u].status = "UNSEEN" => p[u].stage = "NONE"
    BY <2>5, <2>7, <2>8 DEF Inv, StatusFits
  <2>10. \A u \in Slots : /\ p[u].stage # "NONE" => Durable(u)
                          /\ proj[u].stage = "RESULT" => p[u].stage = "RESULT"
    BY <1>3, <2>5, <2>8 DEF Durable
  <2>11. p[s].stage = "RESULT"
    BY <1>1, <2>5, <2>8
  <2>12. \A u \in Known(p) \ Known(proj) : Due(u) <= t
    BY <2>8
  <2>13. to.slot \in Known(p) /\ to.at <= now /\ p[to.slot].stage = "RESULT"
    BY <1>1, <2>6, <2>8, <2>11
  <2>14. CommitAllowed(w, p, inputs, res) /\ Commit(w, p, inputs, res)
    BY <1>3
  <2>15. /\ \A u \in Slots : p[u].stage # "NONE" => Durable(u)
         /\ \A u \in Slots : proj[u].stage = "RESULT" => p[u].stage = "RESULT"
         /\ p \in [Slots -> SlotRows] /\ Steady(p)
         /\ to.pc \notin {"gaps", "input", "linked", "synced"}
         /\ to.slot \in Known(p) /\ to.at <= now /\ p[to.slot].stage = "RESULT"
    BY <2>6, <2>8, <2>10, <2>13
  <2> QED
    BY <2>3, <2>6, <2>9, <2>12, <2>14, <2>15, CommitStep
<1> QED
  BY <1>2, <1>3 DEF PrepareResult

\* succeed and fail end the attempt and keep what is durable.
LEMMA EndOfAttemptStep ==
  ASSUME Inv, NEW w \in Workers, Succeed(w) \/ Fail(w)
  PROVE  Inv'
<1> DEFINE s == worker[w].slot
           t == worker[w].at
<1>1. /\ s \in Slots /\ t \in Times /\ 0 <= now /\ proj[s] \in SlotRows
      /\ Idle \in Invocations /\ Idle.at = 0 /\ Idle.pc = "idle"
  <2>1. worker[w] \in Invocations /\ proj \in [Slots -> SlotRows] /\ now \in Times
    BY DEF Inv, TypeOK
  <2>2. s \in Slots /\ t \in Times
    BY <2>1 DEF Invocations
  <2>3. Idle \in Invocations /\ Idle.at = 0 /\ Idle.pc = "idle"
    BY ScheduleTypes DEF Idle, Invocations, Steps
  <2>4. 0 <= now
    BY <2>1, ScheduleTypes DEF Times
  <2> QED
    BY <2>1, <2>2, <2>3, <2>4
<1>2. CASE (Refuse(w, "fail") \/ Return(w)) /\ Unchanged
  BY <1>2, GiveUpStep DEF Refuse, Unchanged, Inv, TypeOK
<1>3. ASSUME NEW row \in SlotRows, row.stage = proj[s].stage, proj[s].status = "CLAIMED",
             \/ row.status = "SUCCEEDED" /\ proj[s].stage = "RESULT"
             \/ row.status = "FAILED" /\ row.active = None,
             NEW p, p = [proj EXCEPT ![s] = row],
             CommitAllowed(w, p, inputs, results), Commit(w, p, inputs, results), Return(w)
      PROVE  Inv'
  <2>1. s \in Known(proj) /\ row.status # "UNSEEN"
    BY <1>1, <1>3 DEF Known
  <2>2. /\ p \in [Slots -> SlotRows] /\ Steady(p) /\ Known(p) = Known(proj)
        /\ \A u \in Slots : p[u] = IF u = s THEN row ELSE proj[u]
    BY <1>3, <2>1, OneSlotIsSteady
  <2>3. \A u \in Slots :
          /\ p[u].active # None => p[u].status \in {"CLAIMED", "SUCCEEDED"}
          /\ p[u].status = "SUCCEEDED" => p[u].stage = "RESULT"
          /\ p[u].status = "UNSEEN" => p[u].stage = "NONE"
    BY <1>3, <2>2 DEF Inv, StatusFits
  <2>4. \A u \in Slots : p[u].stage = proj[u].stage
    BY <1>3, <2>2
  <2>5. inputs \in [Slots -> Inputs \cup {None}] /\ results \in [Slots -> Results \cup {None}]
        /\ worker' = [worker EXCEPT ![w] = Idle]
    BY <1>3 DEF Inv, TypeOK, Return
  <2>6. /\ \A u \in Known(p) \ Known(proj) : Due(u) <= t
        /\ \A u \in Slots : p[u].stage # "NONE" => Durable(u)
        /\ \A u \in Slots : proj[u].stage = "RESULT" => p[u].stage = "RESULT"
    BY <2>2, <2>4 DEF Durable
  <2> QED
    BY <1>1, <1>3, <2>2, <2>3, <2>5, <2>6, CommitStep DEF Claimed, Prepared
<1>4. CASE Succeed(w)
  <2> DEFINE row == [proj[s] EXCEPT !.status = "SUCCEEDED"]
  <2>1. "SUCCEEDED" \in Statuses
    BY DEF Statuses, Terminals
  <2>2. row \in SlotRows /\ row.stage = proj[s].stage /\ row.status = "SUCCEEDED"
        /\ [proj EXCEPT ![s].status = "SUCCEEDED"] = [proj EXCEPT ![s] = row]
    BY <1>1, <2>1 DEF Inv, TypeOK
  <2> HIDE DEF row
  <2> QED
    BY <1>2, <1>3, <1>4, <2>2 DEF Succeed, Refuse
<1>5. CASE Fail(w)
  <2> DEFINE row == [proj[s] EXCEPT !.status = "FAILED", !.active = None]
  <2>1. "FAILED" \in Statuses
    BY DEF Statuses
  <2>2. row \in SlotRows /\ row.stage = proj[s].stage /\ row.status = "FAILED"
        /\ row.active = None
        /\ [proj EXCEPT ![s].status = "FAILED", ![s].active = None] = [proj EXCEPT ![s] = row]
    BY <1>1, <2>1 DEF Inv, TypeOK
  <2> HIDE DEF row
  <2> QED
    BY <1>2, <1>3, <1>5, <2>2 DEF Fail
<1> QED
  BY <1>4, <1>5

-----------------------------------------------------------------------------
(* The invariant and what follows from it *)

\* Every step of the scheduler keeps the invariant.
LEMMA NextInv == Inv /\ [Next]_vars => Inv'
<1> SUFFICES ASSUME Inv, [Next]_vars PROVE Inv'
  OBVIOUS
<1>1. CASE Tick
  BY <1>1, FaultAndClockSteps
<1>2. ASSUME NEW w \in Workers, Proceed(w)
      PROVE  Inv'
  <2>1. CASE Transaction(w)
    BY <2>1, RecordGapsStep, ClaimStep, PrepareInputStep, PrepareResultStep, EndOfAttemptStep
       DEF Transaction
  <2>2. CASE ~Transaction(w)
    BY <1>2, <2>2, ReadingSteps, PublicationSteps DEF Proceed
  <2> QED
    BY <2>1, <2>2
<1>3. ASSUME NEW w \in Workers, Fault(w)
      PROVE  Inv'
  BY <1>3, PublicationSteps, FaultAndClockSteps DEF Fault
<1>4. CASE UNCHANGED vars
  BY <1>4 DEF vars, Inv, TypeOK, Integrity, DurableWorkHasParents, Durable, KnownIsDue,
              StatusFits, WorkerFits, PublisherFits, ParentChain, Earlier, Known
<1> QED
  BY <1>1, <1>2, <1>3, <1>4 DEF Next

\* The invariant holds in every reachable state.
THEOREM InvHolds == Spec => []Inv
<1>1. Init => Inv
  BY InitInv
<1>2. Inv /\ [Next]_vars => Inv'
  BY NextInv
<1> QED
  BY <1>1, <1>2, PTL DEF Spec

\* The state of the scheduler is well typed: what prepare_result, the publication and the
\* rollback write is only ever built from rows and files that are there.
THEOREM TypeCorrectness == Spec => []TypeOK
<1>1. Inv => TypeOK
  BY DEF Inv
<1> QED
  BY <1>1, InvHolds, PTL

\* A durable input or result always stands on a gap-free chain of succeeded slots, however
\* many invocations interleave, although the parents are read outside the transaction.
THEOREM ChainUnderDurableWork == Spec => []DurableWorkHasParents
<1>1. Inv => DurableWorkHasParents
  BY DEF Inv
<1> QED
  BY <1>1, InvHolds, PTL

\* Two durable unfinished slots would each have to be a succeeded parent of the other.
LEMMA OneRecoverable == Inv => AtMostOneRecoverable
<1> SUFFICES ASSUME Inv, NEW s \in Recoverable, NEW u \in Recoverable, s < u
             PROVE  FALSE
  <2>1. Recoverable \subseteq Int
    BY DEF Recoverable, Slots
  <2> QED
    BY <2>1 DEF AtMostOneRecoverable
<1>1. s \in Slots /\ u \in Slots /\ Durable(s) /\ Durable(u) /\ ~Terminal(s)
  BY DEF Recoverable
<1>2. s \in Earlier(proj, u)
  BY <1>1 DEF Inv, StatusFits, Durable, Earlier, Known
<1>3. proj[s].status = "SUCCEEDED"
  BY <1>1, <1>2 DEF Inv, DurableWorkHasParents, ParentChain
<1> QED
  BY <1>1, <1>3 DEF Terminal, Terminals

\* recoverable_slot never has two candidates, so two durable slots cannot be the cause of
\* RECOVERY_AMBIGUOUS.
THEOREM RecoveryIsUnambiguous == Spec => []AtMostOneRecoverable
BY OneRecoverable, InvHolds, PTL

-----------------------------------------------------------------------------
(* How the tables change *)

\* Only the row of the slot of invocation w changes, and the invocation moves on.
OneRow(w, row) ==
  /\ row \in SlotRows
  /\ worker[w].slot \in Slots
  /\ proj' = [proj EXCEPT ![worker[w].slot] = row]
  /\ worker'[w] # worker[w]

Closes(w) ==
  /\ worker[w].slot \in Slots /\ worker[w].at \in Times
  /\ proj' = Gapped(worker[w].slot, worker[w].at)
  /\ UNCHANGED <<inputs, results>>

Takes(w) ==
  LET s == worker[w].slot
      row == [proj[s] EXCEPT !.status = "CLAIMED", !.active = [by |-> w, at |-> worker[w].at]]
  IN /\ OneRow(w, row)
     /\ ~Terminal(s) /\ ~LeaseLive(s, worker[w].at)
     /\ UNCHANGED <<inputs, results>>

Opens(w) ==
  LET s == worker[w].slot
  IN /\ OneRow(w, [proj[s] EXCEPT !.stage = "INPUT"])
     /\ worker[w].pc = "input" /\ ~Durable(s) /\ Owns(w)
     /\ \E i \in Inputs : /\ i.prev = LastParent(s, worker[w].parents)
                         /\ inputs' = [inputs EXCEPT ![s] = i]
     /\ UNCHANGED results

Solves(w) ==
  LET s == worker[w].slot
  IN /\ OneRow(w, [proj[s] EXCEPT !.stage = "RESULT"])
     /\ worker[w].pc = "result" /\ proj[s].stage = "INPUT" /\ Owns(w)
     /\ results' = [results EXCEPT ![s] = RunSlot(inputs[s])]
     /\ UNCHANGED inputs

Seals(w) ==
  LET s == worker[w].slot
  IN /\ OneRow(w, [proj[s] EXCEPT !.status = "SUCCEEDED"])
     /\ proj[s].stage = "RESULT" /\ proj[s].status = "CLAIMED" /\ Owns(w) /\ Readable(s)
     /\ worker'[w].pc = "idle"
     /\ UNCHANGED <<inputs, results, artifact>>

Fails(w) ==
  LET s == worker[w].slot
  IN /\ OneRow(w, [proj[s] EXCEPT !.status = "FAILED", !.active = None])
     /\ proj[s].status = "CLAIMED" /\ Owns(w)
     /\ UNCHANGED <<inputs, results>>

Changes(w) == Takes(w) \/ Opens(w) \/ Solves(w) \/ Seals(w) \/ Fails(w)
Moves(w) == Closes(w) \/ Changes(w)
Rests == UNCHANGED <<proj, inputs, results>>

\* Every step leaves the tables alone or is one of six moves: the six transactions.
LEMMA StepsOfTheStore ==
  ASSUME Inv, [Next]_vars
  PROVE  Rests \/ \E w \in Workers : Moves(w)
<1>1. ASSUME NEW w \in Workers
      PROVE  /\ worker[w].slot \in Slots /\ worker[w].at \in Times
             /\ worker[w] \in Invocations /\ proj[worker[w].slot] \in SlotRows
             /\ worker \in [Workers -> Invocations] /\ proj \in [Slots -> SlotRows]
  BY DEF Inv, TypeOK
<1>2. ASSUME NEW w \in Workers, NEW step, GoTo(w, step), worker[w].pc # step
      PROVE  worker'[w] # worker[w]
  BY <1>1, <1>2 DEF GoTo
<1>3. ASSUME NEW w \in Workers, Return(w), worker[w].pc # "idle"
      PROVE  worker'[w] # worker[w]
  BY <1>1, <1>3 DEF Return, Idle
<1>4. {"SUCCEEDED", "FAILED", "CLAIMED"} \subseteq Statuses /\ Stages = {"NONE", "INPUT", "RESULT"}
  BY DEF Statuses, Terminals, Stages
<1>5. ASSUME NEW w \in Workers, RecordGaps(w)
      PROVE  Rests \/ Closes(w)
  BY <1>1, <1>5 DEF RecordGaps, Refuse, Commit, Return, Unchanged, store, Rests, Closes
<1>6. ASSUME NEW w \in Workers, Claim(w)
      PROVE  Rests \/ Takes(w)
  <2> DEFINE s == worker[w].slot
             claim == [by |-> w, at |-> worker[w].at]
             row == [proj[s] EXCEPT !.status = "CLAIMED", !.active = claim]
             p == [proj EXCEPT ![s].status = "CLAIMED", ![s].active = claim]
  <2>1. CASE Return(w) /\ Unchanged
    BY <2>1 DEF Unchanged, store, Rests
  <2>2. CASE ~(Return(w) /\ Unchanged)
    <3>1. /\ worker[w].pc = "claim" /\ Claimable(s, worker[w].at)
          /\ Commit(w, p, inputs, results)
          /\ GoTo(w, CASE proj[s].stage = "NONE" -> "provider"
                       [] proj[s].stage = "INPUT" -> "run"
                       [] proj[s].stage = "RESULT" -> "publish")
      BY <1>6, <2>2 DEF Claim
    <3>2. worker'[w] # worker[w]
      BY <1>1, <1>2, <1>4, <3>1
    <3>3. claim \in Claims
      BY <1>1 DEF Claims
    <3> HIDE DEF claim
    <3>4. row \in SlotRows /\ p = [proj EXCEPT ![s] = row]
      BY <1>1, <1>4, <3>3
    <3> QED
      BY <1>1, <3>1, <3>2, <3>4 DEF Takes, OneRow, Commit, Claimable, claim
  <2> QED
    BY <2>1, <2>2
<1>7. ASSUME NEW w \in Workers, PrepareInput(w)
      PROVE  Rests \/ Opens(w)
  <2> DEFINE s == worker[w].slot
             row == [proj[s] EXCEPT !.stage = "INPUT"]
             p == [proj EXCEPT ![s].stage = "INPUT"]
             capture(scenario) == [capturedAt |-> worker[w].captured,
                                   prev |-> LastParent(s, worker[w].parents),
                                   scenario |-> scenario]
  <2>1. CASE Refuse(w, "fail")
    BY <2>1 DEF Refuse, Unchanged, store, Rests
  <2>2. CASE ~Refuse(w, "fail")
    <3>1. PICK scenario \in Scenarios :
            /\ worker[w].pc = "input" /\ ~Durable(s) /\ Owns(w)
            /\ Commit(w, p, [inputs EXCEPT ![s] = capture(scenario)], results) /\ GoTo(w, "run")
      BY <1>7, <2>2 DEF PrepareInput
    <3>2. s - 1 \in 0..NSlots /\ 0 \in 0..NSlots
      <4>1. s \in Slots
        BY <1>1
      <4>2. 0 \in 0..NSlots
        BY ScheduleAssumption
      <4> QED
        BY <4>1, <4>2, ScheduleTypes
    <3>3. capture(scenario) \in Inputs
      BY <1>1, <3>2, ScheduleAssumption DEF Inputs, LastParent
    <3>4. row \in SlotRows /\ p = [proj EXCEPT ![s] = row]
      BY <1>1, <1>4
    <3>5. worker'[w] # worker[w]
      BY <1>1, <1>2, <3>1
    <3> QED
      BY <1>1, <3>1, <3>3, <3>4, <3>5 DEF Opens, OneRow, Commit
  <2> QED
    BY <2>1, <2>2
<1>8. ASSUME NEW w \in Workers, PrepareResult(w)
      PROVE  Rests \/ Solves(w)
  <2> DEFINE s == worker[w].slot
             row == [proj[s] EXCEPT !.stage = "RESULT"]
             p == [proj EXCEPT ![s].stage = "RESULT"]
  <2>1. CASE Refuse(w, "fail")
    BY <2>1 DEF Refuse, Unchanged, store, Rests
  <2>2. CASE ~Refuse(w, "fail")
    <3>1. /\ worker[w].pc = "result" /\ proj[s].stage = "INPUT" /\ Owns(w)
          /\ Commit(w, p, inputs, [results EXCEPT ![s] = RunSlot(inputs[s])])
          /\ GoTo(w, "publish")
      BY <1>8, <2>2 DEF PrepareResult
    <3>2. row \in SlotRows /\ p = [proj EXCEPT ![s] = row]
      BY <1>1, <1>4
    <3>3. worker'[w] # worker[w]
      BY <1>1, <1>2, <3>1
    <3> QED
      BY <1>1, <3>1, <3>2, <3>3 DEF Solves, OneRow, Commit
  <2> QED
    BY <2>1, <2>2
<1>9. ASSUME NEW w \in Workers, Succeed(w)
      PROVE  Rests \/ Seals(w)
  <2> DEFINE s == worker[w].slot
             row == [proj[s] EXCEPT !.status = "SUCCEEDED"]
             p == [proj EXCEPT ![s].status = "SUCCEEDED"]
  <2>1. row \in SlotRows /\ p = [proj EXCEPT ![s] = row]
    BY <1>1, <1>4
  <2>2. Return(w) => worker'[w].pc = "idle"
    BY <1>1 DEF Return, Idle
  <2>3. CASE Refuse(w, "fail")
    BY <2>3 DEF Refuse, Unchanged, store, Rests
  <2>4. CASE ~Refuse(w, "fail")
    <3>1. /\ worker[w].pc = "succeed" /\ Return(w) /\ Commit(w, p, inputs, results)
          /\ proj[s].stage = "RESULT" /\ proj[s].status = "CLAIMED" /\ Owns(w) /\ Readable(s)
      BY <1>9, <2>4 DEF Succeed
    <3> QED
      BY <1>1, <1>3, <2>1, <2>2, <3>1 DEF Seals, OneRow, Commit
  <2> QED
    BY <2>3, <2>4
<1>10. ASSUME NEW w \in Workers, Fail(w)
       PROVE  Rests \/ Fails(w)
  <2> DEFINE s == worker[w].slot
             row == [proj[s] EXCEPT !.status = "FAILED", !.active = None]
             p == [proj EXCEPT ![s].status = "FAILED", ![s].active = None]
  <2>1. row \in SlotRows /\ p = [proj EXCEPT ![s] = row]
    BY <1>1, <1>4
  <2> QED
    BY <1>1, <1>3, <1>10, <2>1 DEF Fail, Unchanged, store, Rests, Fails, OneRow, Commit
<1>11. ASSUME NEW w \in Workers, Proceed(w) \/ Fault(w)
       PROVE  Rests \/ Moves(w)
  <2>1. CASE Transaction(w)
    BY <1>5, <1>6, <1>7, <1>8, <1>9, <1>10, <2>1 DEF Transaction, Moves, Changes
  <2>2. CASE Fault(w)
    BY <2>2 DEF Fault, ProviderFails, RollbackPublication, DatabaseLocked, Crash, store, Rests
  <2>3. CASE Start(w) \/ Recover(w) \/ CallProvider(w)
    BY <2>3 DEF Start, Recover, CallProvider, Unchanged, store, Rests
  <2>4. CASE ReadParents(w) \/ ExecuteSlot(w)
    BY <2>4 DEF ReadParents, ExecuteSlot, Unchanged, store, Rests
  <2>5. CASE Publish(w) \/ UnlinkTemporary(w) \/ SyncDirectory(w)
    BY <2>5 DEF Publish, UnlinkTemporary, SyncDirectory, Unchanged, store, Rests
  <2> QED
    BY <1>11, <2>1, <2>2, <2>3, <2>4, <2>5 DEF Proceed
<1> QED
  BY <1>11 DEF Next, Tick, vars, store, Rests

\* A transaction after the claim changes the row of its own slot only, and of that row
\* the fields named here.
LEMMA RowsAfter ==
  ASSUME Inv, NEW w \in Workers, NEW u \in Slots
  PROVE  /\ Changes(w) /\ worker[w].slot # u => proj'[u] = proj[u]
         /\ Takes(w) /\ worker[w].slot = u =>
              /\ proj'[u].status = "CLAIMED" /\ proj'[u].stage = proj[u].stage
              /\ proj'[u].active = [by |-> w, at |-> worker[w].at]
         /\ Opens(w) /\ worker[w].slot = u =>
              /\ proj'[u].status = proj[u].status /\ proj'[u].stage = "INPUT"
              /\ proj'[u].active = proj[u].active
         /\ Solves(w) /\ worker[w].slot = u =>
              /\ proj'[u].status = proj[u].status /\ proj'[u].stage = "RESULT"
              /\ proj'[u].active = proj[u].active
         /\ Seals(w) /\ worker[w].slot = u =>
              /\ proj'[u].status = "SUCCEEDED" /\ proj'[u].stage = proj[u].stage
              /\ proj'[u].active = proj[u].active
         /\ Fails(w) /\ worker[w].slot = u =>
              /\ proj'[u].status = "FAILED" /\ proj'[u].stage = proj[u].stage
              /\ proj'[u].active = None
<1>1. proj \in [Slots -> SlotRows] /\ proj[u] \in SlotRows
  BY DEF Inv, TypeOK
<1>2. Changes(w) /\ worker[w].slot # u => proj'[u] = proj[u]
  <2>1. \A row : OneRow(w, row) /\ worker[w].slot # u => proj'[u] = proj[u]
    BY <1>1 DEF OneRow
  <2> QED
    BY <2>1 DEF Changes, Takes, Opens, Solves, Seals, Fails
<1>3. \A row : OneRow(w, row) /\ worker[w].slot = u => proj'[u] = row
  BY <1>1 DEF OneRow
<1>4. Takes(w) /\ worker[w].slot = u =>
        proj'[u] = [proj[u] EXCEPT !.status = "CLAIMED",
                                   !.active = [by |-> w, at |-> worker[w].at]]
  BY <1>3 DEF Takes
<1>5. /\ Opens(w) /\ worker[w].slot = u => proj'[u] = [proj[u] EXCEPT !.stage = "INPUT"]
      /\ Solves(w) /\ worker[w].slot = u => proj'[u] = [proj[u] EXCEPT !.stage = "RESULT"]
      /\ Seals(w) /\ worker[w].slot = u => proj'[u] = [proj[u] EXCEPT !.status = "SUCCEEDED"]
      /\ Fails(w) /\ worker[w].slot = u =>
           proj'[u] = [proj[u] EXCEPT !.status = "FAILED", !.active = None]
  BY <1>3 DEF Opens, Solves, Seals, Fails
<1> QED
  BY <1>1, <1>2, <1>4, <1>5

\* Every claim that is not closed is a claim of somebody.
ClaimsFit == \A s \in Slots : proj[s].status = "CLAIMED" => proj[s].active \in Claims

LEMMA ClaimsFitHolds == Spec => []ClaimsFit
<1>1. Init => ClaimsFit
  BY DEF Init, ClaimsFit
<1>2. Inv /\ ClaimsFit /\ [Next]_vars => ClaimsFit'
  <2> SUFFICES ASSUME Inv, ClaimsFit, [Next]_vars, NEW s \in Slots, proj'[s].status = "CLAIMED"
               PROVE  proj'[s].active \in Claims
    BY DEF ClaimsFit
  <2>1. CASE Rests
    BY <2>1 DEF Rests, ClaimsFit
  <2>2. ASSUME NEW w \in Workers, Closes(w)
        PROVE  proj'[s].active \in Claims
    <3>1. proj'[s] = proj[s]
      BY <2>2, GapsAreSteady DEF Closes
    <3> QED
      BY <3>1 DEF ClaimsFit
  <2>3. ASSUME NEW w \in Workers, Changes(w)
        PROVE  proj'[s].active \in Claims
    <3>1. [by |-> w, at |-> worker[w].at] \in Claims
      BY DEF Inv, TypeOK, Claims
    <3> QED
      BY <2>3, <3>1, RowsAfter DEF Changes, ClaimsFit
  <2> QED
    BY <2>1, <2>2, <2>3, StepsOfTheStore DEF Moves
<1> QED
  BY <1>1, <1>2, InvHolds, PTL DEF Spec

-----------------------------------------------------------------------------
(* Durable facts and ownership *)

\* What a step may not do to durable facts, slot by slot.
Kept(s) ==
  /\ Terminal(s) => proj'[s] = proj[s]
  /\ inputs[s] # None => inputs'[s] = inputs[s] /\ proj'[s].stage # "NONE"
  /\ results[s] # None => results'[s] = results[s] /\ proj'[s].stage = "RESULT"

\* Each of the six transactions keeps them.
LEMMA StepKeeps ==
  ASSUME Inv, [Next]_vars, NEW s \in Slots
  PROVE  Kept(s)
<1>1. /\ inputs[s] # None <=> proj[s].stage # "NONE"
      /\ results[s] # None <=> proj[s].stage = "RESULT"
      /\ proj[s].status = "SUCCEEDED" => proj[s].stage = "RESULT"
      /\ proj[s].active # None => proj[s].status \in {"CLAIMED", "SUCCEEDED"}
      /\ proj[s] \in SlotRows /\ inputs \in [Slots -> Inputs \cup {None}]
      /\ results \in [Slots -> Results \cup {None}]
  BY DEF Inv, Integrity, StatusFits, TypeOK
<1>2. CASE Rests
  BY <1>1, <1>2 DEF Rests, Kept
<1>3. ASSUME NEW w \in Workers, Closes(w)
      PROVE  Kept(s)
  <2>1. \/ proj'[s] = proj[s]
        \/ ~Terminal(s) /\ ~Durable(s)
    BY <1>3, GapsAreSteady DEF Closes
  <2> QED
    BY <1>1, <1>3, <2>1 DEF Closes, Kept, Durable
<1>4. ASSUME NEW w \in Workers, Takes(w)
      PROVE  Kept(s)
  BY <1>1, <1>4, RowsAfter DEF Changes, Takes, Kept
<1>5. ASSUME NEW w \in Workers, Opens(w), worker[w].slot = s
      PROVE  Kept(s)
  <2>1. ~Terminal(s)
    <3>1. /\ worker[w].pc = "input" /\ ~Durable(s)
          /\ proj[s].active = [by |-> w, at |-> worker[w].at]
      BY <1>5 DEF Opens, Owns
    <3>2. worker[w].at \in Times
      BY DEF Inv, TypeOK
    <3>3. proj[s].active # None
      BY <3>1, <3>2, NoneAssumption DEF Claims
    <3> QED
      BY <1>1, <3>1, <3>3 DEF Terminal, Terminals, Durable
  <2> QED
    BY <1>1, <1>5, <2>1, RowsAfter DEF Changes, Opens, Kept, Durable
<1>6. ASSUME NEW w \in Workers, Opens(w), worker[w].slot # s
      PROVE  Kept(s)
  BY <1>1, <1>6, RowsAfter DEF Changes, Opens, Kept
<1>7. ASSUME NEW w \in Workers, Solves(w)
      PROVE  Kept(s)
  <2>1. worker[w].slot = s => ~Terminal(s)
    <3> SUFFICES ASSUME worker[w].slot = s PROVE ~Terminal(s)
      OBVIOUS
    <3>1. proj[s].stage = "INPUT" /\ proj[s].active = [by |-> w, at |-> worker[w].at]
      BY <1>7 DEF Solves, Owns
    <3>2. worker[w].at \in Times
      BY DEF Inv, TypeOK
    <3>3. proj[s].active # None
      BY <3>1, <3>2, NoneAssumption DEF Claims
    <3> QED
      BY <1>1, <3>1, <3>3 DEF Terminal, Terminals
  <2> QED
    BY <1>1, <1>7, <2>1, RowsAfter DEF Changes, Solves, Kept
<1>8. ASSUME NEW w \in Workers, Seals(w) \/ Fails(w)
      PROVE  Kept(s)
  BY <1>1, <1>8, RowsAfter DEF Changes, Seals, Fails, Kept, Terminal, Terminals
<1> QED
  BY <1>2, <1>3, <1>4, <1>5, <1>6, <1>7, <1>8, StepsOfTheStore DEF Moves, Changes

\* No failure, crash or gap takes a stage back, changes a prepared row or reopens a
\* terminal slot, whatever the invocations do to each other.
THEOREM DurableIsForever == Spec => DurableFactsStay
<1>1. Inv /\ [Next]_vars => \A s \in Slots : Kept(s)
  BY StepKeeps
<1>2. Inv /\ [Next]_vars =>
        [\A s \in Slots :
          /\ Terminal(s) => proj'[s] = proj[s]
          /\ inputs[s] # None => inputs'[s] = inputs[s] /\ proj'[s].stage # "NONE"
          /\ results[s] # None => results'[s] = results[s] /\ proj'[s].stage = "RESULT"]_vars
  BY <1>1 DEF Kept
<1> QED
  BY <1>2, InvHolds, PTL DEF Spec, DurableFactsStay

\* What a step may do to a slot only on behalf of its owner.
OwnedChange(s) ==
  proj'[s].stage # proj[s].stage
    \/ (proj'[s].status # proj[s].status /\ proj'[s].status \in {"SUCCEEDED", "FAILED"})
  => \E w \in Workers : /\ worker[w].slot = s /\ worker[w] # worker'[w]
                        /\ proj[s].active = [by |-> w, at |-> worker[w].at]

\* A worker that lost its claim cannot write a stage, a success or a failure any more.
THEOREM OnlyTheOwnerWrites == Spec => OnlyOwnerAdvances
<1>1. ASSUME Inv, [Next]_vars, NEW s \in Slots
      PROVE  OwnedChange(s)
  <2>1. proj[s] \in SlotRows
    BY <1>1 DEF Inv, TypeOK
  <2>2. CASE Rests
    BY <2>2 DEF Rests, OwnedChange
  <2>3. ASSUME NEW w \in Workers, Closes(w)
        PROVE  OwnedChange(s)
    <3>1. \/ proj'[s] = proj[s]
          \/ /\ proj'[s].status \in {"MISSED", "EXPIRED"}
             /\ proj'[s].stage = "NONE" /\ ~Durable(s)
      BY <1>1, <2>3, GapsAreSteady DEF Closes
    <3> QED
      BY <3>1 DEF OwnedChange, Durable
  <2>4. ASSUME NEW w \in Workers, Takes(w)
        PROVE  OwnedChange(s)
    BY <1>1, <2>1, <2>4, RowsAfter DEF Changes, Takes, OwnedChange
  <2>5. ASSUME NEW w \in Workers, Opens(w) \/ Solves(w) \/ Seals(w) \/ Fails(w)
        PROVE  OwnedChange(s)
    <3>1. worker'[w] # worker[w] /\ Owns(w)
          /\ (worker[w].slot # s => proj'[s] = proj[s])
      BY <1>1, <2>5, RowsAfter DEF Changes, Opens, Solves, Seals, Fails, OneRow
    <3> QED
      BY <3>1 DEF OwnedChange, Owns
  <2> QED
    BY <1>1, <2>2, <2>3, <2>4, <2>5, StepsOfTheStore DEF Moves, Changes
<1>2. Inv /\ [Next]_vars =>
        [\A s \in Slots :
          proj'[s].stage # proj[s].stage
            \/ (proj'[s].status # proj[s].status /\ proj'[s].status \in {"SUCCEEDED", "FAILED"})
          => \E w \in Workers : /\ worker[w].slot = s /\ worker[w] # worker'[w]
                                /\ proj[s].active = [by |-> w, at |-> worker[w].at]]_vars
  BY <1>1 DEF OwnedChange
<1> QED
  BY <1>2, InvHolds, PTL DEF Spec, OnlyOwnerAdvances

\* The lease of a live claim is honoured by every other claim.
Honoured(s) ==
  proj[s].status = "CLAIMED" /\ proj'[s].active \notin {proj[s].active, None}
    => proj[s].active.at + Lease <= now

\* A claim gives way to another one only when it was closed or its lease has run out on the
\* clock, although an invocation compares the lease with the time at which it started.
THEOREM LeasesAreHonoured == Spec => LiveLeaseHonoured
<1>1. ASSUME Inv, ClaimsFit, [Next]_vars, NEW s \in Slots
      PROVE  Honoured(s)
  <2>1. proj[s] \in SlotRows
    BY <1>1 DEF Inv, TypeOK
  <2>2. CASE Rests
    BY <2>2 DEF Rests, Honoured
  <2>3. ASSUME NEW w \in Workers, Closes(w)
        PROVE  Honoured(s)
    <3>1. proj'[s] = proj[s] \/ proj'[s].active = None
      BY <1>1, <2>3, GapsAreSteady DEF Closes
    <3> QED
      BY <3>1 DEF Honoured
  <2>4. ASSUME NEW w \in Workers, Takes(w), worker[w].slot = s, proj[s].status = "CLAIMED"
        PROVE  proj[s].active.at + Lease <= now
    <3>1. proj[s].active \in Claims /\ proj[s].active # None
      BY <1>1, <2>4, NoneAssumption DEF ClaimsFit
    <3>2. ~(worker[w].at < proj[s].active.at + Lease) /\ worker[w].at <= now
      BY <1>1, <2>4, <3>1 DEF Takes, LeaseLive, Inv, WorkerFits
    <3>3. worker[w].at \in Times /\ now \in Times /\ proj[s].active.at \in Times
      BY <1>1, <3>1 DEF Inv, TypeOK, Claims
    <3>4. Times \subseteq Int /\ Lease \in Int
      BY ScheduleTypes, ScheduleAssumption
    <3>5. \A a, b, c \in Int : ~(b < a + Lease) /\ b <= c => a + Lease <= c
      BY <3>4
    <3> QED
      BY <3>2, <3>3, <3>4, <3>5
  <2>5. ASSUME NEW w \in Workers, Takes(w)
        PROVE  Honoured(s)
    BY <1>1, <2>4, <2>5, RowsAfter DEF Changes, Takes, Honoured
  <2>6. ASSUME NEW w \in Workers, Opens(w) \/ Solves(w) \/ Seals(w) \/ Fails(w)
        PROVE  Honoured(s)
    <3>1. proj'[s].active \in {proj[s].active, None}
      BY <1>1, <2>1, <2>6, RowsAfter DEF Changes, Opens, Solves, Seals, Fails
    <3> QED
      BY <3>1 DEF Honoured
  <2> QED
    BY <1>1, <2>2, <2>3, <2>5, <2>6, StepsOfTheStore DEF Moves, Changes
<1>2. Inv /\ ClaimsFit /\ [Next]_vars =>
        [\A s \in Slots :
          proj[s].status = "CLAIMED" /\ proj'[s].active \notin {proj[s].active, None}
            => proj[s].active.at + Lease <= now]_vars
  BY <1>1 DEF Honoured
<1> QED
  BY <1>2, InvHolds, ClaimsFitHolds, PTL DEF Spec, LiveLeaseHonoured

-----------------------------------------------------------------------------
(* The schedule implements the chain of results *)

SealedSlots == {s \in Slots : proj[s].status = "SUCCEEDED"}
ClosedSlots == {s \in Slots : proj[s].status \in {"MISSED", "EXPIRED"}}

\* What a change of rows means for the chain.
LEMMA SameRows ==
  ASSUME \A u \in Slots :
           /\ proj'[u].status = "SUCCEEDED" <=> proj[u].status = "SUCCEEDED"
           /\ proj'[u].status \in {"MISSED", "EXPIRED"} <=> proj[u].status \in {"MISSED", "EXPIRED"}
           /\ proj'[u].stage # "NONE" <=> proj[u].stage # "NONE"
  PROVE  UNCHANGED <<SealedSlots, Recoverable, ClosedSlots>>
<1>1. \A u \in Slots : Terminal(u)' <=> Terminal(u)
  BY DEF Terminal, Terminals
<1> QED
  BY <1>1 DEF SealedSlots, ClosedSlots, Recoverable, Durable

\* prepare_input opens a slot that extends the chain: durable work below it would be a
\* succeeded parent, and durable work above it would have this slot as one.
LEMMA OpenStep ==
  ASSUME Inv, NEW w \in Workers, Opens(w), NEW s \in Slots, worker[w].slot = s
  PROVE  Chain!Open(s)
<1>1. s \in Slots /\ proj[s] \in SlotRows /\ worker[w].at \in Times /\ Slots \subseteq Nat
  <2>1. Slots \subseteq Nat
    BY ScheduleTypes
  <2> QED
    BY <2>1 DEF Inv, TypeOK
<1>2. /\ s \in Known(proj) /\ ParentChain(proj, s) /\ ~Durable(s)
      /\ proj[s].active = [by |-> w, at |-> worker[w].at]
  BY DEF Opens, Owns, Inv, WorkerFits, Claimed
<1>3. proj[s].status = "CLAIMED"
  <2>1. proj[s].active # None
    BY <1>1, <1>2, NoneAssumption DEF Claims
  <2> QED
    BY <1>1, <1>2, <2>1 DEF Inv, StatusFits, Durable
<1>4. ASSUME NEW u \in Slots, Durable(u)
      PROVE  u < s /\ proj[u].status = "SUCCEEDED"
  <2>1. u \in Known(proj) /\ ParentChain(proj, u)
    BY <1>4 DEF Inv, StatusFits, Durable, DurableWorkHasParents, Known
  <2>2. ~(s < u)
    BY <1>1, <1>2, <1>3, <2>1 DEF ParentChain, Earlier
  <2>3. u < s
    BY <1>1, <1>2, <1>4, <2>2
  <2> QED
    BY <1>2, <2>1, <2>3 DEF ParentChain, Earlier
<1>5. Recoverable = {}
  BY <1>4 DEF Recoverable, Terminal, Terminals
<1>6. \A e \in SealedSlots : Durable(e) /\ e < s
  <2>1. \A e \in SealedSlots : Durable(e)
    BY DEF SealedSlots, Inv, StatusFits, Durable
  <2> QED
    BY <1>4, <2>1 DEF SealedSlots
<1>7. SealedSlots # {} => s - 1 \in SealedSlots
  <2> SUFFICES ASSUME NEW e \in SealedSlots PROVE s - 1 \in SealedSlots
    OBVIOUS
  <2>1. e \in Earlier(proj, s) /\ e \in Nat /\ s \in Nat /\ e < s
    BY <1>1, <1>6 DEF SealedSlots, Earlier, Known
  <2>2. s - 1 \in e .. (s - 1) /\ s - 1 < s
    BY <2>1
  <2>3. s - 1 \in Earlier(proj, s)
    BY <1>2, <2>1, <2>2 DEF ParentChain, Earlier
  <2> QED
    BY <1>2, <2>3 DEF ParentChain, Earlier, Known, SealedSlots
<1>8. ASSUME NEW e \in ClosedSlots
      PROVE  s < e
  <2>1. e \in Slots /\ e \in Known(proj) /\ proj[e].status # "SUCCEEDED" /\ e # s
    BY <1>3 DEF ClosedSlots, Known
  <2>2. ~(e < s)
    BY <1>2, <2>1 DEF ParentChain, Earlier
  <2>3. s \in Nat /\ e \in Nat
    BY <1>1, <2>1
  <2> QED
    BY <2>1, <2>2, <2>3
<1>9. \A u \in Slots : /\ proj'[u].status = proj[u].status
                       /\ proj'[u].stage = IF u = s THEN "INPUT" ELSE proj[u].stage
  BY RowsAfter DEF Changes
<1>10. Recoverable' = {s}
  <2>1. \A u \in Slots : u \in Recoverable' <=> u = s \/ u \in Recoverable
    BY <1>3, <1>9 DEF Recoverable, Durable, Terminal, Terminals
  <2> QED
    BY <1>1, <1>5, <2>1 DEF Recoverable
<1>11. UNCHANGED <<SealedSlots, ClosedSlots>>
  BY <1>9 DEF SealedSlots, ClosedSlots
<1>12. s \notin SealedSlots
  BY <1>3 DEF SealedSlots
<1> QED
  BY <1>5, <1>6, <1>7, <1>8, <1>10, <1>11, <1>12
     DEF Chain!Open, Chain!Extends, SealedSlots, ClosedSlots

\* succeed seals the one slot with durable work.
LEMMA SealStep ==
  ASSUME Inv, NEW w \in Workers, Seals(w), NEW s \in Slots, worker[w].slot = s
  PROVE  Chain!Seal(s)
<1>1. s \in Slots /\ proj[s].stage = "RESULT" /\ proj[s].status = "CLAIMED"
  BY DEF Seals, Inv, TypeOK
<1>2. s \in Recoverable
  BY <1>1 DEF Recoverable, Durable, Terminal, Terminals
<1>3. Recoverable = {s}
  BY <1>2, OneRecoverable DEF AtMostOneRecoverable
<1>4. \A u \in Slots : /\ proj'[u].status = IF u = s THEN "SUCCEEDED" ELSE proj[u].status
                       /\ proj'[u].stage = proj[u].stage
  BY RowsAfter DEF Changes
<1>5. SealedSlots' = SealedSlots \cup {s} /\ ClosedSlots' = ClosedSlots
  BY <1>1, <1>4 DEF SealedSlots, ClosedSlots
<1>6. Recoverable' = {}
  <2>1. \A u \in Slots : u \in Recoverable' <=> u # s /\ u \in Recoverable
    BY <1>4 DEF Recoverable, Durable, Terminal, Terminals
  <2> QED
    BY <1>3, <2>1 DEF Recoverable
<1> QED
  BY <1>2, <1>5, <1>6 DEF Chain!Seal, SealedSlots, ClosedSlots

\* record_gaps gives up slots without durable work, or changes nothing.
LEMMA CloseStep ==
  ASSUME Inv, NEW w \in Workers, Closes(w)
  PROVE  \/ UNCHANGED <<SealedSlots, Recoverable, ClosedSlots>>
         \/ \E S \in SUBSET Slots : Chain!Close(S)
<1> DEFINE S == {u \in Slots : proj'[u] # proj[u]}
<1>1. \A u \in S : /\ proj'[u].status \in {"MISSED", "EXPIRED"} /\ proj'[u].stage = "NONE"
                   /\ ~Terminal(u) /\ ~Durable(u)
  BY GapsAreSteady DEF Closes
<1>2. \A u \in Slots \ S : proj'[u] = proj[u]
  OBVIOUS
<1> HIDE DEF S
<1>3. S \subseteq Slots
  BY DEF S
<1>4. SealedSlots' = SealedSlots
  BY <1>1, <1>2 DEF SealedSlots, Terminal, Terminals
<1>5. ClosedSlots' = ClosedSlots \cup S
  BY <1>1, <1>2, <1>3 DEF ClosedSlots
<1>6. Recoverable' = Recoverable
  BY <1>1, <1>2 DEF Recoverable, Durable, Terminal
<1>7. S \cap (SealedSlots \cup Recoverable \cup ClosedSlots) = {}
  BY <1>1 DEF SealedSlots, Recoverable, ClosedSlots, Terminal, Terminals
<1>8. CASE S = {}
  BY <1>4, <1>5, <1>6, <1>8
<1>9. CASE S # {}
  BY <1>3, <1>4, <1>5, <1>6, <1>7, <1>9 DEF Chain!Close, SealedSlots, ClosedSlots
<1> QED
  BY <1>8, <1>9

\* Every behaviour of the schedule is a behaviour of the gap-free chain: a slot is opened
\* only at its end, sealed only when open, and given up only without durable work.
THEOREM ScheduleImplementsChain == Spec => ImplementsResultChain
<1>1. Init => Chain!Init
  BY DEF Init, Chain!Init, Recoverable, Durable
<1>2. ASSUME Inv, [Next]_vars
      PROVE  [Chain!Next]_(Chain!chainVars)
  <2>1. UNCHANGED <<SealedSlots, Recoverable, ClosedSlots>> => UNCHANGED Chain!chainVars
    BY DEF Chain!chainVars, SealedSlots, ClosedSlots
  <2>2. CASE Rests
    BY <2>1, <2>2, SameRows DEF Rests
  <2>3. ASSUME NEW w \in Workers, Closes(w)
        PROVE  [Chain!Next]_(Chain!chainVars)
    BY <1>2, <2>1, <2>3, CloseStep DEF Chain!Next
  <2>4. ASSUME NEW w \in Workers, Takes(w) \/ Solves(w) \/ Fails(w)
        PROVE  [Chain!Next]_(Chain!chainVars)
    <3>1. ASSUME NEW u \in Slots
          PROVE  /\ proj'[u].status = "SUCCEEDED" <=> proj[u].status = "SUCCEEDED"
                 /\ proj'[u].status \in {"MISSED", "EXPIRED"}
                      <=> proj[u].status \in {"MISSED", "EXPIRED"}
                 /\ proj'[u].stage # "NONE" <=> proj[u].stage # "NONE"
      BY <1>2, <2>4, RowsAfter DEF Changes, Takes, Solves, Fails, Terminal, Terminals
    <3> QED
      BY <2>1, <3>1, SameRows
  <2>5. ASSUME NEW w \in Workers, Opens(w) \/ Seals(w)
        PROVE  [Chain!Next]_(Chain!chainVars)
    <3>1. PICK s \in Slots : worker[w].slot = s
      BY <1>2 DEF Inv, TypeOK
    <3>2. Chain!Open(s) \/ Chain!Seal(s)
      BY <1>2, <2>5, <3>1, OpenStep, SealStep
    <3> QED
      BY <3>2 DEF Chain!Next
  <2> QED
    BY <1>2, <2>2, <2>3, <2>4, <2>5, StepsOfTheStore DEF Moves, Changes
<1> QED
  BY <1>1, <1>2, InvHolds, PTL DEF Spec, ImplementsResultChain, Chain!Spec

-----------------------------------------------------------------------------
(* Unresolved orders *)

\* What an input with a previous slot refers to is there, a result was only ever made on a
\* previous result that leaves no order behind, and an invocation that ran its slot may
\* rely on that until it commits.
Referred(s) ==
  inputs[s] # None /\ inputs[s].prev # 0
    => inputs[s].prev \in Slots /\ results[inputs[s].prev] # None
OnSettled(s) ==
  inputs[s] # None /\ inputs[s].prev # 0 => ~results[inputs[s].prev].activeOrder
Settled ==
  /\ \A s \in Slots : Referred(s) /\ (results[s] # None => OnSettled(s))
  /\ \A w \in Workers : worker[w].pc = "result" => /\ inputs[worker[w].slot] # None
                                                       /\ OnSettled(worker[w].slot)

\* Only a run of the slot takes an invocation to prepare_result.
LEMMA RunsOnSettled ==
  ASSUME Inv, [Next]_vars, NEW v \in Workers, worker'[v].pc = "result"
  PROVE  \/ worker'[v] = worker[v]
         \/ /\ worker'[v].slot = worker[v].slot /\ inputs[worker[v].slot] # None
            /\ OnSettled(worker[v].slot)
<1>1. worker \in [Workers -> Invocations]
  BY DEF Inv, TypeOK
<1>2. ASSUME NEW w \in Workers, NEW step, step # "result", GoTo(w, step)
      PROVE  worker'[v] = worker[v]
  BY <1>1, <1>2 DEF GoTo
<1>3. ASSUME NEW w \in Workers, Return(w)
      PROVE  worker'[v] = worker[v]
  BY <1>1, <1>3 DEF Return, Idle
<1>4. ASSUME NEW w \in Workers, Proceed(w) \/ Fault(w), ~ExecuteSlot(w)
      PROVE  worker'[v] = worker[v]
  <2>1. CASE Start(w) \/ Recover(w) \/ CallProvider(w)
    BY <1>1, <1>3, <2>1 DEF Start, Recover, CallProvider
  <2>2. CASE RecordGaps(w) \/ PrepareInput(w) \/ PrepareResult(w) \/ Succeed(w) \/ Fail(w)
    BY <1>2, <1>3, <2>2 DEF RecordGaps, PrepareInput, PrepareResult, Succeed, Fail, Refuse
  <2>3. CASE Claim(w)
    <3> DEFINE s == worker[w].slot
               step == CASE proj[s].stage = "NONE" -> "provider"
                         [] proj[s].stage = "INPUT" -> "run"
                         [] proj[s].stage = "RESULT" -> "publish"
    <3>1. proj[s].stage \in Stages
      BY DEF Inv, TypeOK
    <3>2. step \in {"provider", "run", "publish"}
      BY <3>1 DEF Stages
    <3>3. Return(w) \/ GoTo(w, step)
      BY <2>3 DEF Claim
    <3> HIDE DEF step
    <3> QED
      BY <1>2, <1>3, <3>2, <3>3
  <2>4. CASE ReadParents(w)
    BY <1>1, <1>2, <2>4 DEF ReadParents
  <2>5. CASE Publish(w)
    BY <1>2, <2>5 DEF Publish
  <2>6. CASE UnlinkTemporary(w) \/ SyncDirectory(w)
    BY <1>2, <2>6 DEF UnlinkTemporary, SyncDirectory
  <2>7. CASE Fault(w)
    BY <1>2, <1>3, <2>7 DEF Fault, ProviderFails, RollbackPublication, DatabaseLocked, Crash
  <2> QED
    BY <1>4, <2>1, <2>2, <2>3, <2>4, <2>5, <2>6, <2>7 DEF Proceed, Transaction
<1>5. ASSUME NEW w \in Workers, ExecuteSlot(w)
      PROVE  \/ worker'[v] = worker[v]
             \/ /\ worker'[v].slot = worker[v].slot /\ inputs[worker[v].slot] # None
                /\ OnSettled(worker[v].slot)
  <2>1. CASE GoTo(w, "fail")
    BY <1>2, <2>1
  <2>2. CASE ~GoTo(w, "fail")
    <3> DEFINE s == worker[w].slot
    <3>1. /\ inputs[s] # None
          /\ inputs[s].prev # 0 => ~results[inputs[s].prev].activeOrder
          /\ worker' = [worker EXCEPT ![w].pc = "result", ![w].parents = Earlier(proj, s)]
      BY <1>5, <2>2 DEF ExecuteSlot
    <3>2. worker'[v] = worker[v] \/ (v = w /\ worker'[v].slot = worker[v].slot)
      BY <1>1, <3>1
    <3> QED
      BY <3>1, <3>2 DEF OnSettled
  <2> QED
    BY <2>1, <2>2
<1> QED
  BY <1>4, <1>5 DEF Next, Tick, vars

\* Rows that are there are kept, so what was settled stays settled.
LEMMA SettledIsKept ==
  ASSUME Inv, [Next]_vars, NEW s \in Slots, inputs[s] # None, Referred(s)
  PROVE  /\ Referred(s)'
         /\ OnSettled(s) => OnSettled(s)'
<1>1. inputs'[s] = inputs[s]
  BY StepKeeps DEF Kept
<1>2. inputs[s].prev # 0 => results'[inputs[s].prev] = results[inputs[s].prev]
  BY StepKeeps DEF Kept, Referred
<1> QED
  BY <1>1, <1>2 DEF Referred, OnSettled

LEMMA SettledHolds == Spec => []Settled
<1>1. Init => Settled
  BY DEF Init, Settled, Referred, Idle
<1>2. ASSUME Inv, Settled, [Next]_vars
      PROVE  Settled'
  <2>1. /\ \A s \in Slots : inputs[s] # None <=> proj[s].stage # "NONE"
        /\ \A s \in Slots : results[s] # None <=> proj[s].stage = "RESULT"
        /\ inputs \in [Slots -> Inputs \cup {None}] /\ results \in [Slots -> Results \cup {None}]
    BY <1>2 DEF Inv, Integrity, TypeOK
  <2>2. ASSUME NEW w \in Workers, Opens(w), NEW s \in Slots, worker[w].slot = s
        PROVE  Referred(s)'
    <3>1. PICK i \in Inputs : /\ i.prev = LastParent(s, worker[w].parents)
                              /\ inputs' = [inputs EXCEPT ![s] = i]
      BY <2>2 DEF Opens
    <3>2. worker[w].parents = Earlier(proj, s) /\ ParentChain(proj, s) /\ results' = results
      BY <1>2, <2>2 DEF Opens, Inv, WorkerFits
    <3>3. ASSUME i.prev # 0
          PROVE  s - 1 \in Slots /\ results[s - 1] # None
      <4>1. PICK e \in Earlier(proj, s) : TRUE
        BY <3>1, <3>2, <3>3 DEF LastParent
      <4>2. e \in Nat /\ s \in Nat /\ e < s
        BY <4>1, ScheduleTypes DEF Earlier, Known
      <4>3. s - 1 \in e .. (s - 1) /\ s - 1 < s
        BY <4>2
      <4>4. s - 1 \in Earlier(proj, s) /\ s - 1 \in Slots
        BY <3>2, <4>1, <4>3 DEF ParentChain, Earlier, Known
      <4>5. proj[s - 1].stage = "RESULT"
        BY <1>2, <3>2, <4>4 DEF ParentChain, Inv, StatusFits
      <4> QED
        BY <2>1, <4>4, <4>5
    <3>4. inputs'[s] = i /\ (i.prev # 0 => i.prev = s - 1)
      BY <2>1, <3>1 DEF LastParent
    <3> QED
      BY <3>2, <3>3, <3>4 DEF Referred
  <2>3. ASSUME NEW w \in Workers, Solves(w), NEW s \in Slots, worker[w].slot = s
        PROVE  OnSettled(s)'
    BY <1>2, <2>1, <2>3, SettledIsKept DEF Solves, Settled
  <2>4. ASSUME NEW s \in Slots
        PROVE  Referred(s)'
    <3>1. CASE inputs[s] # None
      BY <1>2, <3>1, SettledIsKept DEF Settled
    <3>2. CASE inputs'[s] = None
      BY <3>2 DEF Referred
    <3>3. CASE inputs[s] = None /\ inputs'[s] # None
      <4>1. PICK w \in Workers : Opens(w) /\ worker[w].slot = s
        BY <1>2, <2>1, <3>3, StepsOfTheStore
           DEF Rests, Moves, Changes, Closes, Takes, Opens, Solves, Seals, Fails
      <4> QED
        BY <2>2, <4>1
    <3> QED
      BY <3>1, <3>2, <3>3
  <2>5. ASSUME NEW s \in Slots, results'[s] # None
        PROVE  OnSettled(s)'
    <3>1. CASE results[s] # None
      BY <1>2, <2>1, <3>1, SettledIsKept DEF Settled
    <3>2. CASE results[s] = None
      <4>1. PICK w \in Workers : Solves(w) /\ worker[w].slot = s
        BY <1>2, <2>1, <2>5, <3>2, StepsOfTheStore
           DEF Rests, Moves, Changes, Closes, Takes, Opens, Solves, Seals, Fails
      <4> QED
        BY <2>3, <4>1
    <3> QED
      BY <3>1, <3>2
  <2>6. ASSUME NEW v \in Workers, worker'[v].pc = "result"
        PROVE  (inputs[worker[v].slot] # None /\ OnSettled(worker[v].slot))'
    <3>1. worker'[v].slot = worker[v].slot /\ worker[v].slot \in Slots
      BY <1>2, <2>6, RunsOnSettled DEF Inv, TypeOK
    <3>2. PICK s \in Slots : s = worker[v].slot
      BY <3>1
    <3>3. inputs[s] # None /\ OnSettled(s)
      BY <1>2, <2>6, <3>2, RunsOnSettled DEF Settled
    <3>4. inputs'[s] # None /\ OnSettled(s)'
      BY <1>2, <3>3, SettledIsKept, StepKeeps DEF Settled, Kept
    <3>5. worker'[v].slot = s
      BY <3>1, <3>2
    <3> QED
      BY <3>4, <3>5 DEF OnSettled
  <2> QED
    BY <2>4, <2>5, <2>6 DEF Settled
<1> QED
  BY <1>1, <1>2, InvHolds, PTL DEF Spec

\* Once a sealed result leaves an order active, no later slot ever gets a result.
THEOREM UnresolvedStopsTheChain == Spec => []UnresolvedOrderStopsChain
<1>1. ASSUME Inv, Settled, NEW s \in Slots, NEW u \in Slots, s < u,
             results[s] # None, results[u] # None
      PROVE  ~results[s].activeOrder
  <2>1. /\ \A e \in Slots : results[e] # None <=> proj[e].stage = "RESULT"
        /\ \A e \in Slots : inputs[e] # None <=> proj[e].stage # "NONE"
        /\ \A e \in Slots : proj[e].stage = "RESULT" =>
             ParentChain(proj, e) /\ inputs[e].prev = LastParent(e, Earlier(proj, e))
        /\ \A e \in Slots : proj[e].status = "SUCCEEDED" => proj[e].stage = "RESULT"
        /\ \A e \in Slots : proj[e].stage = "RESULT" => e \in Known(proj)
    BY <1>1 DEF Inv, Integrity, StatusFits, Known
  <2>2. s \in Earlier(proj, u) /\ ParentChain(proj, u)
    BY <1>1, <2>1 DEF Earlier
  <2>3. s \in Nat \ {0} /\ u \in Nat
    BY ScheduleTypes
  <2> DEFINE n == s + 1
  <2>4. n \in Slots /\ results[n] # None
    <3>1. CASE n = u
      BY <1>1, <3>1
    <3>2. CASE n # u
      <4>1. n \in s .. (u - 1) /\ n < u
        BY <1>1, <2>3, <3>2
      <4>2. n \in Known(proj)
        BY <2>2, <4>1 DEF ParentChain
      <4>3. n \in Slots /\ n \in Earlier(proj, u)
        BY <4>1, <4>2 DEF Known, Earlier
      <4>4. proj[n].status = "SUCCEEDED"
        BY <2>2, <4>3 DEF ParentChain
      <4> QED
        BY <2>1, <4>3, <4>4
    <3> QED
      BY <3>1, <3>2
  <2>5. s < n /\ n - 1 = s
    BY <2>3
  <2>6. s \in Earlier(proj, n)
    BY <2>2, <2>5 DEF Earlier
  <2> HIDE DEF n
  <2>7. inputs[n].prev = s /\ s # 0 /\ inputs[n] # None
    BY <2>1, <2>3, <2>4, <2>5, <2>6 DEF LastParent
  <2> QED
    BY <1>1, <2>4, <2>7 DEF Settled, OnSettled
<1>2. Inv /\ Settled => UnresolvedOrderStopsChain
  BY <1>1 DEF UnresolvedOrderStopsChain
<1> QED
  BY <1>2, InvHolds, SettledHolds, PTL

-----------------------------------------------------------------------------
(* Published results *)

\* A slot becomes SUCCEEDED by the transaction succeed of an invocation that works on it.
LEMMA WhoSeals ==
  ASSUME Inv, [Next]_vars, NEW s \in Slots,
         proj[s].status # "SUCCEEDED", proj'[s].status = "SUCCEEDED"
  PROVE  \E w \in Workers : Seals(w) /\ worker[w].slot = s
<1>1. PICK w \in Workers : Moves(w)
  BY StepsOfTheStore DEF Rests
<1>2. ~Closes(w)
  BY GapsAreSteady DEF Closes
<1>3. Changes(w) /\ worker[w].slot = s
  BY <1>1, <1>2, RowsAfter DEF Moves
<1> QED
  BY <1>3, RowsAfter DEF Changes, Takes

\* Where a transaction other than a claim leads to.
LEMMA TransactionEnds ==
  ASSUME NEW w \in Workers, Transaction(w), ~Claim(w), ~Return(w)
  PROVE  /\ \E step \in {"claim", "run", "publish", "fail"} : GoTo(w, step)
         /\ ~RecordGaps(w) => \E step \in {"run", "publish", "fail"} : GoTo(w, step)
<1>1. RecordGaps(w) => GoTo(w, "claim")
  BY DEF RecordGaps, Refuse
<1>2. PrepareInput(w) => GoTo(w, "run") \/ GoTo(w, "fail")
  BY DEF PrepareInput, Refuse
<1>3. PrepareResult(w) => GoTo(w, "publish") \/ GoTo(w, "fail")
  BY DEF PrepareResult, Refuse
<1>4. Succeed(w) => GoTo(w, "fail")
  BY DEF Succeed, Refuse
<1>5. ~Fail(w)
  BY DEF Fail
<1> QED
  BY <1>1, <1>2, <1>3, <1>4, <1>5 DEF Transaction

\* Before the claim an invocation looks for its slot.
LEMMA BeforeTheClaim ==
  ASSUME Inv, NEW w \in Workers, Start(w) \/ Recover(w)
  PROVE  worker'[w].pc \in {"recover", "gaps", "claim"} \/ Return(w)
<1>1. worker \in [Workers -> Invocations]
  BY DEF Inv, TypeOK
<1>2. CASE Start(w)
  BY <1>1, <1>2 DEF Start
<1>3. CASE Recover(w)
  <2>1. PICK current \in Slots :
          \/ \E s \in Slots : worker' = [worker EXCEPT ![w].slot = s,
                                ![w].pc = IF s = current THEN "gaps" ELSE "claim"]
          \/ Return(w)
    BY <1>3 DEF Recover, Recoverable
  <2> QED
    BY <1>1, <2>1
<1> QED
  BY <1>2, <1>3

\* A step of one invocation leaves what another one knows alone.
LEMMA OthersStay ==
  ASSUME Inv, NEW w \in Workers, NEW v \in Workers, v # w, Proceed(v) \/ Fault(v)
  PROVE  worker'[w] = worker[w]
<1>1. worker \in [Workers -> Invocations]
  BY DEF Inv, TypeOK
<1>2. CASE Transaction(v)
  BY <1>1, <1>2 DEF Transaction, RecordGaps, Claim, PrepareInput, PrepareResult, Succeed,
                          Fail, Refuse, Return, GoTo
<1>3. CASE Start(v) \/ Recover(v) \/ CallProvider(v)
  BY <1>1, <1>3 DEF Start, Recover, CallProvider, Return
<1>4. CASE ReadParents(v) \/ ExecuteSlot(v)
  BY <1>1, <1>4 DEF ReadParents, ExecuteSlot, GoTo
<1>5. CASE Publish(v) \/ UnlinkTemporary(v) \/ SyncDirectory(v)
  BY <1>1, <1>5 DEF Publish, UnlinkTemporary, SyncDirectory, GoTo
<1>6. CASE Fault(v)
  BY <1>1, <1>6 DEF Fault, ProviderFails, RollbackPublication, DatabaseLocked, Crash,
                          GoTo, Return
<1> QED
  BY <1>2, <1>3, <1>4, <1>5, <1>6 DEF Proceed

\* An invocation gets past its claim by claiming, and keeps its slot and its sample.
LEMMA ClaimedStep ==
  ASSUME Inv, [Next]_vars, NEW w \in Workers, worker'[w].pc \in Claimed
  PROVE  /\ worker'[w].slot = worker[w].slot /\ worker'[w].at = worker[w].at
         /\ worker[w].pc \in Claimed \/ (Claim(w) /\ proj'[worker[w].slot].status = "CLAIMED")
<1>1. worker \in [Workers -> Invocations] /\ proj \in [Slots -> SlotRows]
      /\ worker[w].slot \in Slots
  BY DEF Inv, TypeOK
<1>2. ASSUME NEW v \in Workers, v # w, Proceed(v) \/ Fault(v)
      PROVE  worker'[w] = worker[w]
  BY <1>2, OthersStay
<1>3. ASSUME NEW step, GoTo(w, step)
      PROVE  worker'[w].slot = worker[w].slot /\ worker'[w].at = worker[w].at
  BY <1>1, <1>3 DEF GoTo
<1>4. ~Return(w)
  BY <1>1 DEF Return, Idle, Claimed
<1>5. ASSUME Claim(w)
      PROVE  /\ worker'[w].slot = worker[w].slot /\ worker'[w].at = worker[w].at
             /\ proj'[worker[w].slot].status = "CLAIMED"
  <2> DEFINE s == worker[w].slot
             step == CASE proj[s].stage = "NONE" -> "provider"
                       [] proj[s].stage = "INPUT" -> "run"
                       [] proj[s].stage = "RESULT" -> "publish"
             p == [proj EXCEPT ![s].status = "CLAIMED",
                               ![s].active = [by |-> w, at |-> worker[w].at]]
  <2>1. GoTo(w, step) /\ proj' = p
    BY <1>4, <1>5 DEF Claim, Commit
  <2>2. p[s].status = "CLAIMED"
    BY <1>1
  <2> HIDE DEF step
  <2> QED
    BY <1>3, <2>1, <2>2
<1>6. ASSUME Proceed(w) \/ Fault(w), ~Claim(w)
      PROVE  /\ worker'[w].slot = worker[w].slot /\ worker'[w].at = worker[w].at
             /\ worker[w].pc \in Claimed
  <2>1. CASE RecordGaps(w) \/ Fail(w)
    <3>1. RecordGaps(w) => worker'[w].pc = "claim"
      BY <1>1, <1>4 DEF RecordGaps, Refuse, GoTo
    <3> QED
      BY <1>4, <2>1, <3>1 DEF Fail, Claimed
  <2>2. CASE PrepareInput(w) \/ PrepareResult(w) \/ Succeed(w)
    <3>1. worker[w].pc \in {"input", "result", "succeed"}
      BY <2>2 DEF PrepareInput, PrepareResult, Succeed
    <3>2. ~RecordGaps(w)
      BY <3>1 DEF RecordGaps
    <3>3. \E step \in {"run", "publish", "fail"} : GoTo(w, step)
      BY <1>4, <1>6, <2>2, <3>2, TransactionEnds DEF Transaction
    <3> QED
      BY <1>3, <3>1, <3>3 DEF Claimed
  <2>3. CASE Start(w) \/ Recover(w)
    <3>1. worker'[w].pc \notin Claimed \/ Return(w)
      BY <2>3, BeforeTheClaim DEF Claimed
    <3> QED
      BY <1>4, <3>1
  <2>4. CASE CallProvider(w) \/ ReadParents(w) \/ ExecuteSlot(w)
    BY <1>1, <2>4 DEF CallProvider, ReadParents, ExecuteSlot, GoTo, Claimed
  <2>5. CASE Publish(w) \/ UnlinkTemporary(w) \/ SyncDirectory(w)
    BY <1>3, <2>5 DEF Publish, UnlinkTemporary, SyncDirectory, Claimed
  <2>6. CASE Fault(w)
    <3>1. ~GoTo(w, "fail")
      BY <1>1 DEF GoTo, Claimed
    <3> QED
      BY <1>4, <2>6, <3>1 DEF Fault, ProviderFails, RollbackPublication, DatabaseLocked, Crash
  <2> QED
    BY <1>6, <2>1, <2>2, <2>3, <2>4, <2>5, <2>6 DEF Proceed, Transaction
<1>7. CASE Tick \/ UNCHANGED vars
  BY <1>7 DEF Tick, vars
<1> QED
  BY <1>2, <1>5, <1>6, <1>7 DEF Next

\* Whoever works on a slot that is sealed no longer holds its claim.
SealedIsTaken ==
  \A w \in Workers :
    worker[w].pc \in Claimed /\ proj[worker[w].slot].status = "SUCCEEDED" => ~Owns(w)

\* The one who seals a slot holds its claim and is done with it.
LEMMA SealedIsTakenHolds == Spec => []SealedIsTaken
<1>1. Init => SealedIsTaken
  BY DEF Init, SealedIsTaken, Idle, Claimed
<1>2. Inv /\ SealedIsTaken /\ [Next]_vars => SealedIsTaken'
  <2> SUFFICES ASSUME Inv, SealedIsTaken, [Next]_vars, NEW w \in Workers,
                      worker'[w].pc \in Claimed,
                      proj'[worker'[w].slot].status = "SUCCEEDED", Owns(w)'
               PROVE  FALSE
    BY DEF SealedIsTaken
  <2> DEFINE s == worker[w].slot
  <2>1. /\ worker'[w].slot = s /\ worker'[w].at = worker[w].at /\ worker[w].pc \in Claimed
    BY ClaimedStep
  <2>2. s \in Slots /\ worker \in [Workers -> Invocations]
    BY DEF Inv, TypeOK
  <2>3. proj'[s].active = [by |-> w, at |-> worker[w].at] /\ proj'[s].status = "SUCCEEDED"
    BY <2>1 DEF Owns
  <2>4. CASE proj[s].status = "SUCCEEDED"
    <3>1. proj'[s] = proj[s]
      BY <2>2, <2>4, StepKeeps DEF Kept, Terminal, Terminals
    <3> QED
      BY <2>1, <2>3, <2>4, <3>1 DEF SealedIsTaken, Owns
  <2>5. CASE proj[s].status # "SUCCEEDED"
    <3>1. PICK v \in Workers : Seals(v) /\ worker[v].slot = s
      BY <2>2, <2>3, <2>5, WhoSeals
    <3>2. v = w
      BY <2>2, <2>3, <3>1, RowsAfter DEF Seals, Owns
    <3> QED
      BY <2>1, <3>1, <3>2, ClaimedStep DEF Seals, Claimed
  <2> QED
    BY <2>4, <2>5
<1> QED
  BY <1>1, <1>2, InvHolds, PTL DEF Spec

\* A published file changes only when its publisher removes the temporary name or rolls
\* the publication back.
LEMMA FilesMoveBy ==
  ASSUME Inv, [Next]_vars, NEW s \in Slots, artifact[s] # None, artifact'[s] # artifact[s]
  PROVE  \E w \in Workers : /\ UnlinkTemporary(w) \/ RollbackPublication(w)
                            /\ worker[w].slot = s
<1>1. artifact \in [Slots -> Artifacts \cup {None}]
  BY DEF Inv, TypeOK
<1>2. ASSUME NEW w \in Workers, Transaction(w)
      PROVE  artifact' = artifact
  BY <1>2 DEF Transaction, RecordGaps, Claim, PrepareInput, PrepareResult, Succeed, Fail,
              Commit, Refuse, Unchanged
<1>3. ASSUME NEW w \in Workers, Publish(w)
      PROVE  artifact'[s] = artifact[s]
  BY <1>1, <1>3 DEF Publish
<1>4. ASSUME NEW w \in Workers, UnlinkTemporary(w) \/ RollbackPublication(w)
      PROVE  worker[w].slot = s
  BY <1>1, <1>4 DEF UnlinkTemporary, RollbackPublication
<1>5. ASSUME NEW w \in Workers, ProviderFails(w) \/ DatabaseLocked(w) \/ Crash(w)
      PROVE  artifact' = artifact
  BY <1>5 DEF ProviderFails, DatabaseLocked, Crash
<1>6. ASSUME NEW w \in Workers,
             \/ Start(w) \/ Recover(w) \/ CallProvider(w) \/ ReadParents(w) \/ ExecuteSlot(w)
             \/ SyncDirectory(w)
      PROVE  artifact' = artifact
  BY <1>6 DEF Start, Recover, CallProvider, ReadParents, ExecuteSlot, SyncDirectory, Unchanged
<1> QED
  BY <1>2, <1>3, <1>4, <1>5, <1>6 DEF Next, Tick, vars, Proceed, Fault

\* An invocation gets to "linked" by publishing.
LEMMA WhoLinks ==
  ASSUME Inv, [Next]_vars, NEW w \in Workers,
         worker[w].pc # "linked", worker'[w].pc = "linked"
  PROVE  /\ Publish(w)
         /\ artifact'[worker[w].slot] = [body |-> results[worker[w].slot], links |-> 2]
<1>1. /\ worker \in [Workers -> Invocations] /\ worker[w].slot \in Slots
      /\ artifact \in [Slots -> Artifacts \cup {None}]
  BY DEF Inv, TypeOK
<1>2. ~Return(w) /\ \A step : GoTo(w, step) => step = "linked"
  BY <1>1 DEF Return, Idle, GoTo
<1>3. ASSUME NEW v \in Workers, Proceed(v) \/ Fault(v), ~Publish(v)
      PROVE  worker'[w].pc # "linked"
  <2>1. CASE v # w
    BY <1>3, <2>1, OthersStay
  <2>2. CASE v = w
    <3>1. CASE Transaction(w) /\ ~Claim(w)
      BY <1>2, <3>1, TransactionEnds
    <3>2. CASE Claim(w)
      <4> DEFINE s == worker[w].slot
                 step == CASE proj[s].stage = "NONE" -> "provider"
                           [] proj[s].stage = "INPUT" -> "run"
                           [] proj[s].stage = "RESULT" -> "publish"
      <4>1. GoTo(w, step)
        BY <1>2, <3>2 DEF Claim
      <4>2. proj[s].stage \in {"NONE", "INPUT", "RESULT"}
        BY DEF Inv, TypeOK, Stages
      <4>3. step # "linked"
        BY <4>2
      <4> HIDE DEF step
      <4> QED
        BY <1>2, <4>1, <4>3
    <3>3. CASE CallProvider(w) \/ ReadParents(w) \/ ExecuteSlot(w)
      BY <1>1, <1>2, <3>3 DEF CallProvider, ReadParents, ExecuteSlot
    <3>4. CASE UnlinkTemporary(w) \/ SyncDirectory(w)
      BY <1>2, <3>4 DEF UnlinkTemporary, SyncDirectory
    <3>5. CASE Fault(w)
      BY <1>2, <3>5 DEF Fault, ProviderFails, RollbackPublication, DatabaseLocked, Crash
    <3>6. CASE Start(w) \/ Recover(w)
      BY <1>2, <3>6, BeforeTheClaim
    <3> QED
      BY <1>3, <2>2, <3>1, <3>2, <3>3, <3>4, <3>5, <3>6 DEF Proceed, Transaction
  <2> QED
    BY <2>1, <2>2
<1>4. PICK v \in Workers : Publish(v)
  BY <1>3 DEF Next, Tick, vars
<1>5. v = w
  BY <1>1, <1>4 DEF Publish, GoTo
<1> QED
  BY <1>1, <1>2, <1>4, <1>5 DEF Publish

\* A file that is linked and not yet alone has two names.
LinkedHasTwoNames ==
  \A w \in Workers : worker[w].pc = "linked" => artifact[worker[w].slot].links = 2

\* Only its publisher takes a linked file's second name away.
LEMMA LinkedHasTwoNamesHolds == Spec => []LinkedHasTwoNames
<1>1. Init => LinkedHasTwoNames
  BY DEF Init, LinkedHasTwoNames, Idle
<1>2. Inv /\ LinkedHasTwoNames /\ [Next]_vars => LinkedHasTwoNames'
  <2> SUFFICES ASSUME Inv, LinkedHasTwoNames, [Next]_vars, NEW w \in Workers,
                      worker'[w].pc = "linked"
               PROVE  artifact'[worker'[w].slot].links = 2
    BY DEF LinkedHasTwoNames
  <2> DEFINE s == worker[w].slot
  <2>1. /\ s \in Slots /\ worker \in [Workers -> Invocations]
        /\ artifact \in [Slots -> Artifacts \cup {None}]
        /\ worker'[w].slot = s /\ (worker[w].pc \in Claimed \/ Claim(w))
    BY ClaimedStep DEF Inv, TypeOK, Claimed
  <2>2. CASE worker[w].pc = "linked"
    <3>1. artifact[s] # None /\ artifact[s].links = 2 /\ artifact[s] \in Artifacts
      BY <2>1, <2>2 DEF LinkedHasTwoNames, Inv, PublisherFits
    <3>2. ASSUME NEW v \in Workers, UnlinkTemporary(v) \/ RollbackPublication(v)
          PROVE  worker[v].slot # s
      <4>1. v # w
        BY <2>1, <2>2, <3>2 DEF UnlinkTemporary, RollbackPublication, GoTo, Return, Idle
      <4> QED
        BY <2>2, <3>2, <4>1 DEF Inv, PublisherFits, UnlinkTemporary, RollbackPublication
    <3>3. artifact'[s] = artifact[s]
      BY <2>1, <3>1, <3>2, FilesMoveBy
    <3> QED
      BY <2>1, <3>1, <3>3
  <2>3. CASE worker[w].pc # "linked"
    <3>1. Publish(w) /\ artifact'[s] = [body |-> results[s], links |-> 2]
      BY <2>1, <2>3, WhoLinks
    <3> QED
      BY <2>1, <3>1
  <2> QED
    BY <2>2, <2>3
<1> QED
  BY <1>1, <1>2, InvHolds, PTL DEF Spec

\* What a step may do to the file of a sealed slot.
LostOnlyByOvertaken(s) ==
  /\ proj[s].status # "SUCCEEDED" /\ proj'[s].status = "SUCCEEDED" => IsPublished(s)'
  /\ proj[s].status = "SUCCEEDED" /\ IsPublished(s) /\ ~IsPublished(s)' =>
       /\ artifact'[s] = None
       /\ \E w \in Workers : /\ worker[w].slot = s /\ worker[w].pc = "synced"
                             /\ ~Owns(w) /\ worker'[w].pc = "idle"

\* Directory syncs may fail at any time: a slot still succeeds only on a published result,
\* and only a publisher whose claim was taken over before the slot was sealed can take the
\* file away again.
THEOREM SealedFilesAreLostOnlyByOvertaken == Spec => SealedFileIsLostToOvertakenPublisher
<1>1. ASSUME Inv, SealedIsTaken, LinkedHasTwoNames, [Next]_vars, NEW s \in Slots
      PROVE  LostOnlyByOvertaken(s)
  <2>1. /\ artifact \in [Slots -> Artifacts \cup {None}]
        /\ worker \in [Workers -> Invocations]
    BY <1>1 DEF Inv, TypeOK
  <2>2. ASSUME proj[s].status # "SUCCEEDED", proj'[s].status = "SUCCEEDED"
        PROVE  IsPublished(s)'
    <3>1. PICK w \in Workers : Seals(w) /\ worker[w].slot = s
      BY <1>1, <2>2, WhoSeals
    <3>2. artifact[s] \in Artifacts /\ artifact[s].links = 1 /\ artifact[s].body = results[s]
      BY <2>1, <3>1 DEF Seals, Readable
    <3>3. artifact[s] = [body |-> results[s], links |-> 1]
      BY <3>2 DEF Artifacts
    <3> QED
      BY <3>1, <3>3 DEF Seals, IsPublished
  <2>3. ASSUME proj[s].status = "SUCCEEDED", IsPublished(s), ~IsPublished(s)'
        PROVE  /\ artifact'[s] = None
               /\ \E w \in Workers : /\ worker[w].slot = s /\ worker[w].pc = "synced"
                                     /\ ~Owns(w) /\ worker'[w].pc = "idle"
    <3>1. results'[s] = results[s]
      <4>1. results[s] # None
        BY <1>1, <2>3 DEF Inv, StatusFits, Integrity
      <4> QED
        BY <1>1, <4>1, StepKeeps DEF Kept
    <3>2. artifact'[s] # artifact[s]
      BY <2>3, <3>1 DEF IsPublished
    <3>3. artifact[s] # None
      <4>1. artifact[s].links = 1
        BY <2>3 DEF IsPublished
      <4>2. results[s] \in Results
        BY <1>1, <2>3 DEF Inv, StatusFits, Integrity, TypeOK
      <4>3. artifact[s] \in Artifacts
        BY <2>3, <4>2 DEF IsPublished, Artifacts
      <4> QED
        BY <4>3, NoneAssumption
    <3>4. PICK w \in Workers : /\ UnlinkTemporary(w) \/ RollbackPublication(w)
                               /\ worker[w].slot = s
      BY <1>1, <2>1, <3>2, <3>3, FilesMoveBy
    <3>5. ~UnlinkTemporary(w)
      BY <2>1, <2>3, <3>2, <3>4 DEF UnlinkTemporary, IsPublished
    <3>6. RollbackPublication(w) /\ artifact'[s] = None /\ worker[w].pc \in {"linked", "synced"}
          /\ worker'[w].pc = "idle"
      BY <2>1, <3>4, <3>5 DEF RollbackPublication, Return, Idle
    <3>7. worker[w].pc = "synced"
      BY <1>1, <2>3, <3>4, <3>6 DEF LinkedHasTwoNames, IsPublished
    <3>8. ~Owns(w)
      BY <1>1, <2>3, <3>4, <3>7 DEF SealedIsTaken, Claimed
    <3> QED
      BY <3>4, <3>6, <3>7, <3>8
  <2> QED
    BY <2>2, <2>3 DEF LostOnlyByOvertaken
<1>2. Inv /\ SealedIsTaken /\ LinkedHasTwoNames /\ [Next]_vars =>
        [\A s \in Slots :
           /\ proj[s].status # "SUCCEEDED" /\ proj'[s].status = "SUCCEEDED" => IsPublished(s)'
           /\ proj[s].status = "SUCCEEDED" /\ IsPublished(s) /\ ~IsPublished(s)' =>
                /\ artifact'[s] = None
                /\ \E w \in Workers : /\ worker[w].slot = s /\ worker[w].pc = "synced"
                                      /\ ~Owns(w) /\ worker'[w].pc = "idle"]_vars
  BY <1>1 DEF LostOnlyByOvertaken
<1> QED
  BY <1>2, InvHolds, SealedIsTakenHolds, LinkedHasTwoNamesHolds, PTL
     DEF Spec, SealedFileIsLostToOvertakenPublisher
=============================================================================
