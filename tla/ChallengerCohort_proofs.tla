------------------------ MODULE ChallengerCohort_proofs ------------------------
(***************************************************************************)
(* Theorems about ChallengerCohort for every cohort, every minimum and     *)
(* maximum hold, and any number of slots and faults, with all the tools    *)
(* at work at once.                                                        *)
(*                                                                         *)
(* Two inductive invariants.  CInv is about the verdict: what the tools    *)
(* that end a cohort have read is still so when they publish.  EInv, on    *)
(* top of it, is about the evidence: the chain is one that the decision    *)
(* rule can build, a slot has its line only once its decision is in the    *)
(* chain, and what is published rests on a prefix of the chain, which      *)
(* stays as it is when the chain grows (EvidencedStays).                   *)
(***************************************************************************)
EXTENDS ChallengerCohort, SequenceTheorems, FiniteSetTheorems, WellFoundedInduction, TLAPS

USE HoldAssumption, BoundAssumption, CohortAssumption

-----------------------------------------------------------------------------
(* Types. *)

LEMMA InitTypes == Init => TypeOK
  <1> SUFFICES ASSUME Init PROVE TypeOK
    OBVIOUS
  <1> USE DEF Init, ForwardInit
  <1>1. <<>> \in Seq(Decision) /\ <<>> \in Seq(Decision \cup {Nothing}) /\ Len(<<>>) = 0
    BY EmptySeq
  <1>2. IsFiniteSet({})
    BY FS_EmptySet
  <1>3. ForwardTypeOK
    <2>1. service \in Services
      BY DEF Loaded, Services
    <2>2. runner \in Processes
      BY DEF Idle, Steps, Outcomes, Processes
    <2>3. clock \in Slots /\ faults \in 0..MaxFaults /\ checkpointed \in 0..Len(chain)
      BY <1>1 DEF Slots
    <2>4. wal \in BOOLEAN /\ stderr \in [missed: Nat, other: Nat]
      OBVIOUS
    <2> QED BY <1>1, <1>2, <2>1, <2>2, <2>3, <2>4 DEF ForwardTypeOK, Idle
  <1>4. watch \in [Watchers -> [pc: {"off", "evidence", "service", "publish"}, read: 0..Len(chain)]]
    BY <1>1 DEF Off
  <1>5. audit \in [pc: {"off", "state", "evidence", "service", "compare", "publish"},
                   read: 0..Len(chain), before: SUBSET Snapshots]
    BY <1>1 DEF AuditOff
  <1> QED BY <1>3, <1>4, <1>5 DEF TypeOK, RemovalOff

\* What the closes make of a slot is a decision.
LEMMA CandidateIsDecision ==
    ASSUME ForwardTypeOK, runner.pc = "fetch", Fetch
    PROVE  runner' \in Processes
           /\ runner'.candidate \in Decision /\ runner'.pc = "publish" /\ runner'.outcome = runner.outcome
  <1> DEFINE s == NextRequired
             n == Cardinality({b \in bundles : b.slot = s})
  <1>1. n \in Nat
    <2>1. IsFiniteSet({b \in bundles : b.slot = s})
      BY FS_Subset DEF ForwardTypeOK
    <2> QED BY <2>1, FS_CardinalityType
  <1>2. s \in Slots /\ s \in Nat
    BY DEF Fetch, ForwardTypeOK, Slots
  <1>3. Held(chain, s) \in Slots \cup {Flat}
    <2>1. CASE s = 0
      BY <2>1 DEF Held
    <2>2. CASE s # 0
      <3>1. chain[s] \in Decision
        BY <1>2, <2>2 DEF NextRequired, ForwardTypeOK
      <3> QED BY <2>2, <3>1 DEF Held, Decision
    <2> QED BY <2>1, <2>2
  <1>4. \A choice \in Choices(s, Held(chain, s)) : choice[1] \in Actions /\ choice[2] \in Slots \cup {Flat}
    BY <1>2, <1>3 DEF Choices, Actions, Exits
  <1>5. PICK choice \in Choices(s, Held(chain, s)) :
          runner' = [runner EXCEPT !.pc = "publish",
                                   !.candidate = [slot |-> s, action |-> choice[1],
                                                  position |-> choice[2], attempt |-> n]]
    BY DEF Fetch
  <1>6. [slot |-> s, action |-> choice[1], position |-> choice[2], attempt |-> n] \in Decision
    BY <1>1, <1>2, <1>4 DEF Decision
  <1> HIDE DEF s, n
  <1> QED BY <1>5, <1>6 DEF ForwardTypeOK, Steps, Processes

LEMMA ProcessFacts ==
    ASSUME NEW r \in Processes
    PROVE  /\ \A pc \in Steps : /\ [r EXCEPT !.pc = pc] \in Processes
                               /\ [r EXCEPT !.pc = pc].pc = pc
                               /\ [r EXCEPT !.pc = pc].candidate = r.candidate
                               /\ [r EXCEPT !.pc = pc].outcome = r.outcome
           /\ \A pc \in Steps, o \in Outcomes :
                 /\ [r EXCEPT !.pc = pc, !.outcome = o] \in Processes
                 /\ [r EXCEPT !.pc = pc, !.outcome = o].pc = pc
                 /\ [r EXCEPT !.pc = pc, !.outcome = o].outcome = o
           /\ \A o \in Outcomes :
                 /\ [r EXCEPT !.pc = "close", !.candidate = Nothing, !.outcome = o] \in Processes
                 /\ [r EXCEPT !.pc = "close", !.candidate = Nothing, !.outcome = o].pc = "close"
                 /\ [r EXCEPT !.pc = "close", !.candidate = Nothing, !.outcome = o].outcome = o
  BY DEF Processes, Steps

LEMMA IdleFacts ==
    /\ Idle \in Processes /\ Idle.pc = "idle" /\ Idle.outcome = "none"
    /\ [Idle EXCEPT !.pc = "gate"] \in Processes
    /\ [Idle EXCEPT !.pc = "gate"].pc = "gate" /\ [Idle EXCEPT !.pc = "gate"].outcome = "none"
    /\ Loaded \in Services
  BY DEF Idle, Loaded, Processes, Services, Steps, Outcomes

LEMMA ServiceFacts ==
    ASSUME NEW v \in Services
    PROVE  /\ v.loaded \in BOOLEAN /\ v.runs + 1 \in Nat
           /\ \A b \in BOOLEAN : [v EXCEPT !.due = b] \in Services
           /\ \A n \in Nat : [v EXCEPT !.due = FALSE, !.runs = n] \in Services
           /\ \A e \in {"never", "ok", "error", "signal"} : [v EXCEPT !.exit = e] \in Services
  <1>1. v.loaded \in BOOLEAN /\ v.runs + 1 \in Nat
    BY DEF Services
  <1>2. \A b \in BOOLEAN : [v EXCEPT !.due = b] \in Services
    BY DEF Services
  <1>3. \A n \in Nat : [v EXCEPT !.due = FALSE, !.runs = n] \in Services
    BY DEF Services
  <1>4. \A e \in {"never", "ok", "error", "signal"} : [v EXCEPT !.exit = e] \in Services
    BY DEF Services
  <1> QED BY <1>1, <1>2, <1>3, <1>4

\* The runner's own state keeps its type, and the chain only grows.
LEMMA ForwardTypes ==
    ASSUME ForwardTypeOK, Tick \/ RunnerStep \/ Restart
    PROVE  ForwardTypeOK' /\ Len(chain) <= Len(chain')
  <1> USE DEF ForwardTypeOK
  <1>0. Len(chain) \in Nat
    OBVIOUS
  <1>1. CASE Tick
    <2>1. service' \in Services
      BY <1>1, ServiceFacts DEF Tick
    <2>2. clock' \in Slots
      BY <1>1 DEF Tick, Slots
    <2> QED BY <1>0, <1>1, <2>1, <2>2 DEF Tick
  <1>2. CASE StartRunner
    <2>1. service' \in Services
      <3>1. service' = [service EXCEPT !.due = FALSE, !.runs = service.runs + 1]
        BY <1>2 DEF StartRunner
      <3> QED BY <3>1, ServiceFacts
    <2> QED BY <1>0, <1>2, <2>1, IdleFacts DEF StartRunner
  <1>3. CASE GateBlocked
    <2>1. runner' \in Processes /\ runner'.pc = "report"
      BY <1>3, ProcessFacts DEF GateBlocked, Steps, Outcomes
    <2> QED BY <1>0, <1>3, <2>1 DEF GateBlocked
  <1>4. CASE OpenGate
    <2>1. \/ \E o \in Outcomes : runner' = [runner EXCEPT !.pc = "close", !.outcome = o]
          \/ runner' = [runner EXCEPT !.pc = "fetch"]
      BY <1>4 DEF OpenGate, Outcomes
    <2>2. runner' \in Processes /\ runner'.pc \in {"close", "fetch"}
      <3>1. ASSUME NEW o \in Outcomes, runner' = [runner EXCEPT !.pc = "close", !.outcome = o]
            PROVE  runner' \in Processes /\ runner'.pc = "close"
        <4>1. runner \in Processes /\ "close" \in Steps
          BY DEF Steps
        <4> HIDE DEF ForwardTypeOK
        <4> QED BY <3>1, <4>1 DEF Processes, Steps, Outcomes
      <3>2. CASE runner' = [runner EXCEPT !.pc = "fetch"]
        BY <3>2, ProcessFacts DEF Steps
      <3> QED BY <2>1, <3>1, <3>2
    <2> QED BY <1>0, <1>4, <2>2 DEF OpenGate
  <1>5. CASE Fetch
    <2>1. runner.pc = "fetch"
      BY <1>5 DEF Fetch
    <2>2. runner' \in Processes /\ runner'.candidate \in Decision
      BY <1>5, <2>1, CandidateIsDecision
    <2> QED BY <1>0, <1>5, <2>2 DEF Fetch
  <1>6. CASE RunFails
    <2>1. faults' \in 0..MaxFaults
      BY <1>6 DEF RunFails
    <2>2. runner' \in Processes /\ runner'.pc = "close"
      BY <1>6, ProcessFacts DEF RunFails, Outcomes
    <2> QED BY <1>0, <1>6, <2>1, <2>2 DEF RunFails
  <1>7. CASE PublishBundle
    <2>1. runner.candidate \in Decision
      BY <1>7 DEF PublishBundle
    <2>2. bundles' \subseteq Decision /\ IsFiniteSet(bundles')
      BY <1>7, <2>1, FS_AddElement DEF PublishBundle
    <2>3. runner' \in Processes /\ runner'.candidate \in Decision
      BY <1>7, <2>1, ProcessFacts DEF PublishBundle, Steps
    <2> QED BY <1>0, <1>7, <2>2, <2>3 DEF PublishBundle
  <1>8. CASE AppendDecision
    <2>1. runner.candidate \in Decision
      BY <1>8 DEF AppendDecision
    <2>2. chain' \in Seq(Decision) /\ Len(chain') = Len(chain) + 1
      BY <1>8, <2>1, AppendProperties DEF AppendDecision
    <2>3. runner' \in Processes /\ runner'.pc = "close"
      <3>1. runner' = [runner EXCEPT !.pc = "close", !.outcome = "RECORDED"]
        BY <1>8 DEF AppendDecision
      <3>2. runner \in Processes /\ "close" \in Steps /\ "RECORDED" \in Outcomes
        BY DEF Steps, Outcomes
      <3> HIDE DEF ForwardTypeOK
      <3> QED BY <3>1, <3>2 DEF Processes, Steps, Outcomes
    <2> QED BY <1>0, <1>8, <2>2, <2>3 DEF AppendDecision
  <1>9. CASE CloseState
    <2>1. runner' \in Processes /\ runner'.pc = "report"
      BY <1>9, ProcessFacts DEF CloseState, Steps
    <2>2. checkpointed' \in 0..Len(chain')
      BY <1>0, <1>9, SMT DEF CloseState
    <2>3. wal' \in BOOLEAN
      BY <1>9, Zenon DEF CloseState
    <2> QED BY <1>0, <1>9, <2>1, <2>2, <2>3 DEF CloseState
  <1>10. CASE Report
    <2>1. stdout' \in Seq(Decision \cup {Nothing})
      <3>1. runner.candidate \in Decision \cup {Nothing}
        BY DEF Processes
      <3>2. Append(stdout, runner.candidate) \in Seq(Decision \cup {Nothing})
        BY <3>1, AppendProperties
      <3> QED BY <1>10, <3>2 DEF Report
    <2>2. stderr' \in [missed: Nat, other: Nat]
      BY <1>10 DEF Report
    <2>3. service' \in Services
      BY <1>10, ServiceFacts DEF Report
    <2> QED BY <1>0, <1>10, <2>1, <2>2, <2>3, IdleFacts DEF Report
  <1>11. CASE KillRunner
    <2>1. service' \in Services
      BY <1>11, ServiceFacts DEF KillRunner
    <2> QED BY <1>0, <1>11, <2>1, IdleFacts DEF KillRunner
  <1>12. CASE Restart
    BY <1>0, <1>12, IdleFacts DEF Restart
  <1> QED BY <1>1, <1>2, <1>3, <1>4, <1>5, <1>6, <1>7, <1>8, <1>9, <1>10, <1>11, <1>12 DEF RunnerStep

WatchStages == {"off", "evidence", "service", "publish"}
AuditStages == {"off", "state", "evidence", "service", "compare", "publish"}
RemovalStages == {"off", "print", "compare", "print again", "compare again", "bootout", "gone",
                  "compare after", "publish"}
Watches == [pc: WatchStages, read: 0..Len(chain)]
Audits == [pc: AuditStages, read: 0..Len(chain), before: SUBSET Snapshots]
Removals == [pc: RemovalStages, receipt: SUBSET failures]
Receipts == [read: 0..Len(chain), evidence: Snapshots]
ToolsFit ==
    /\ watch \in [Watchers -> Watches]
    /\ audit \in Audits
    /\ failures \subseteq Receipts
    /\ removal \in Removals
    /\ decommissions \subseteq failures
    /\ economics \in [results: Nat, indexes: Nat] /\ economics.indexes <= economics.results

LEMMA TypeParts ==
    /\ TypeOK <=> ForwardTypeOK /\ ToolsFit
    /\ TypeOK' <=> ForwardTypeOK' /\ ToolsFit'
  BY DEF TypeOK, ToolsFit, Watches, Audits, Removals, Receipts, WatchStages, AuditStages, RemovalStages

LEMMA SnapshotFits ==
    ASSUME ForwardTypeOK
    PROVE  Snapshot \in Snapshots /\ Snapshot.frames = Len(chain)
  <1>1. /\ checkpointed \in Nat /\ Len(chain) \in Nat /\ Len(stdout) \in Nat
        /\ stderr \in [missed: Nat, other: Nat] /\ bundles \in SUBSET Decision
    BY DEF ForwardTypeOK
  <1>2. wal \in BOOLEAN
    BY Zenon DEF ForwardTypeOK
  <1> QED BY <1>1, <1>2 DEF Snapshot, Snapshots

\* What was true of a shorter chain is of the type for a longer one.
LEMMA LongerChain ==
    ASSUME ToolsFit, ForwardTypeOK, ForwardTypeOK', Len(chain) <= Len(chain'), UNCHANGED cohortVars
    PROVE  ToolsFit'
  <1>1. 0..Len(chain) \subseteq 0..Len(chain')
    BY DEF ForwardTypeOK
  <1>2. Watches \subseteq Watches' /\ Audits \subseteq Audits' /\ Receipts \subseteq Receipts'
    BY <1>1 DEF Watches, Audits, Receipts
  <1>3. Removals' = Removals
    BY DEF cohortVars, Removals
  <1> QED BY <1>2, <1>3 DEF ToolsFit, cohortVars

LEMMA OffFits ==
    ASSUME ForwardTypeOK
    PROVE  Off \in Watches /\ AuditOff \in Audits /\ RemovalOff \in Removals
  BY DEF ForwardTypeOK, Off, AuditOff, RemovalOff, Watches, Audits, Removals,
         WatchStages, AuditStages, RemovalStages

LEMMA WatchStep ==
    ASSUME TypeOK, Maintenance
    PROVE  /\ TypeOK' /\ UNCHANGED <<forwardVars, audit, removal, failures, decommissions>>
           /\ evaluations' # evaluations => Evaluate
  <1> USE DEF ToolsFit
  <1>0. ForwardTypeOK /\ ToolsFit
    BY TypeParts
  <1>1. /\ UNCHANGED <<forwardVars, audit, removal, failures, decommissions>>
        /\ evaluations' # evaluations => Evaluate
    BY DEF Maintenance, Observe, CheckEvidence, CheckService, Leave, PublishReceipt, PublishResult, Evaluate
  <1>2. ForwardTypeOK' /\ Watches' = Watches /\ Audits' = Audits /\ Removals' = Removals /\ Receipts' = Receipts
    BY <1>0, <1>1 DEF forwardVars, ForwardTypeOK, Watches, Audits, Removals, Receipts
  <1>3. watch' \in [Watchers -> Watches]
    <2>1. ASSUME NEW t \in Watchers, Observe(t) PROVE watch' \in [Watchers -> Watches]
      <3>1. [pc |-> "evidence", read |-> checkpointed] \in Watches
        BY <1>0 DEF ForwardTypeOK, Watches, WatchStages
      <3> QED BY <1>0, <2>1, <3>1 DEF Observe
    <2>2. ASSUME NEW t \in Watchers, CheckEvidence(t) PROVE watch' \in [Watchers -> Watches]
      BY <1>0, <2>2 DEF CheckEvidence, Watches, WatchStages
    <2>3. ASSUME NEW t \in Watchers, CheckService(t) PROVE watch' \in [Watchers -> Watches]
      BY <1>0, <2>3 DEF CheckService, Watches, WatchStages
    <2>4. ASSUME NEW t \in Watchers, Leave(t) PROVE watch' \in [Watchers -> Watches]
      BY <1>0, <2>4, OffFits DEF Leave
    <2>5. CASE PublishReceipt \/ PublishResult
      BY <1>0, <2>5 DEF PublishReceipt, PublishResult
    <2>6. CASE Evaluate
      BY <1>0, <2>6, OffFits DEF Evaluate, Watchers
    <2> QED BY <2>1, <2>2, <2>3, <2>4, <2>5, <2>6 DEF Maintenance
  <1>4. economics' \in [results: Nat, indexes: Nat] /\ economics'.indexes <= economics'.results
    <2>1. CASE UNCHANGED economics
      BY <1>0, <2>1
    <2>2. CASE PublishResult
      BY <1>0, <2>2 DEF PublishResult
    <2> QED BY <2>1, <2>2 DEF Maintenance, Observe, CheckEvidence, CheckService, Leave, PublishReceipt, Evaluate
  <1> QED BY <1>0, <1>1, <1>2, <1>3, <1>4, TypeParts

LEMMA AuditTypes ==
    ASSUME TypeOK, Audit
    PROVE  TypeOK' /\ UNCHANGED <<forwardVars, watch, removal, evaluations, decommissions>>
           /\ failures \subseteq failures'
  <1> USE DEF ToolsFit
  <1>0. ForwardTypeOK /\ ToolsFit
    BY TypeParts
  <1>1. /\ UNCHANGED <<forwardVars, watch, removal, receipts, economics, evaluations, decommissions>>
        /\ failures \subseteq failures'
    BY DEF Audit, BeginAudit, AuditState, AuditEvidence, AuditService, AuditCompare, PublishFailure, AbandonAudit,
           AuditStep
  <1>2. ForwardTypeOK' /\ Watches' = Watches /\ Audits' = Audits /\ Receipts' = Receipts
    BY <1>0, <1>1 DEF forwardVars, ForwardTypeOK, Watches, Audits, Receipts
  <1>3. Removals \subseteq Removals'
    BY <1>1 DEF Removals
  <1>4. audit' \in Audits
    <2>1. CASE BeginAudit
      BY <1>0, <2>1, SnapshotFits, OffFits DEF BeginAudit, Audits, AuditStages
    <2>2. CASE AuditState
      <3>1. checkpointed \in 0..Len(chain)
        BY <1>0 DEF ForwardTypeOK
      <3> QED BY <1>0, <2>2, <3>1 DEF AuditState, Audits, AuditStages
    <2>3. ASSUME NEW to \in AuditStages, NEW from, AuditStep(from, to) PROVE audit' \in Audits
      BY <1>0, <2>3 DEF AuditStep, Audits
    <2>4. CASE PublishFailure \/ AbandonAudit
      BY <1>0, <2>4, OffFits DEF PublishFailure, AbandonAudit
    <2> QED BY <2>1, <2>2, <2>3, <2>4 DEF Audit, AuditEvidence, AuditService, AuditCompare, AuditStages
  <1>5. failures' \subseteq Receipts
    <2>1. CASE PublishFailure
      <3>1. \A before \in audit.before : [read |-> audit.read, evidence |-> before] \in Receipts
        BY <1>0 DEF Audits, Receipts
      <3> QED BY <1>0, <2>1, <3>1 DEF PublishFailure
    <2>2. CASE UNCHANGED failures
      BY <1>0, <2>2
    <2> QED BY <2>1, <2>2 DEF Audit, BeginAudit, AuditState, AuditEvidence, AuditService, AuditCompare, AbandonAudit,
                              AuditStep
  <1> QED BY <1>0, <1>1, <1>2, <1>3, <1>4, <1>5, TypeParts

LEMMA RemovalTypes ==
    ASSUME TypeOK, Removal
    PROVE  TypeOK' /\ UNCHANGED <<watch, audit, evaluations, failures>>
           /\ UNCHANGED <<clock, chain, checkpointed, wal, bundles, stdout, stderr, faults>>
           /\ (UNCHANGED <<service, runner>> \/ BootOut)
  <1> USE DEF ToolsFit
  <1>0. ForwardTypeOK /\ ToolsFit
    BY TypeParts
  <1>1. /\ UNCHANGED <<watch, audit, receipts, economics, evaluations, failures>>
        /\ UNCHANGED <<clock, chain, checkpointed, wal, bundles, stdout, stderr, faults>>
        /\ (UNCHANGED <<service, runner>> \/ BootOut)
    BY DEF Removal, LoadFailure, CheckBefore, BootOut, CheckAfter, PublishDecommission, PublishForensics,
           AbandonRemoval, RemovalStep, forwardVars
  <1>2. ForwardTypeOK'
    <2>1. CASE UNCHANGED <<service, runner>>
      BY <1>0, <1>1, <2>1 DEF ForwardTypeOK
    <2>2. CASE BootOut
      <3>1. service' \in Services
        BY <1>0, <2>2 DEF BootOut, ForwardTypeOK, Services
      <3> QED BY <1>0, <1>1, <2>2, <3>1, IdleFacts DEF BootOut, ForwardTypeOK
    <2> QED BY <1>1, <2>1, <2>2
  <1>3. Watches' = Watches /\ Audits' = Audits /\ Receipts' = Receipts /\ Removals' = Removals
    BY <1>1 DEF Watches, Audits, Receipts, Removals
  <1>4. removal' \in Removals
    <2>1. CASE LoadFailure
      <3>1. PICK f \in failures : removal' = [pc |-> "print", receipt |-> {f}]
        BY <2>1 DEF LoadFailure
      <3>2. {f} \in SUBSET failures /\ "print" \in RemovalStages
        BY DEF RemovalStages
      <3> HIDE DEF ToolsFit
      <3> QED BY <3>1, <3>2 DEF Removals
    <2>2. ASSUME NEW to \in RemovalStages, NEW from, RemovalStep(from, to) PROVE removal' \in Removals
      BY <1>0, <2>2 DEF RemovalStep, Removals
    <2>3. CASE CheckBefore \/ CheckAfter
      BY <2>2, <2>3 DEF CheckBefore, CheckAfter, RemovalStages
    <2>4. CASE BootOut
      BY <1>0, <2>4 DEF BootOut, Removals, RemovalStages
    <2>5. CASE PublishDecommission \/ PublishForensics \/ AbandonRemoval
      BY <1>0, <2>5, OffFits DEF PublishDecommission, PublishForensics, AbandonRemoval
    <2> QED BY <2>1, <2>3, <2>4, <2>5 DEF Removal
  <1>5. decommissions' \subseteq failures
    <2>1. CASE PublishDecommission
      BY <1>0, <2>1 DEF PublishDecommission, Removals
    <2>2. CASE UNCHANGED decommissions
      BY <1>0, <2>2
    <2> QED BY <2>1, <2>2 DEF Removal, LoadFailure, CheckBefore, BootOut, CheckAfter, PublishForensics,
                              AbandonRemoval, RemovalStep
  <1> QED BY <1>0, <1>1, <1>2, <1>3, <1>4, <1>5, TypeParts

LEMMA RestartTypes ==
    ASSUME TypeOK, RestartMachine
    PROVE  TypeOK'
  <1>0. ForwardTypeOK /\ ToolsFit
    BY TypeParts
  <1>1. ForwardTypeOK'
    BY <1>0, ForwardTypes DEF RestartMachine
  <1>2. Watches' = Watches /\ Audits' = Audits /\ Receipts' = Receipts /\ Removals' = Removals
    BY DEF RestartMachine, Restart, Watches, Audits, Receipts, Removals
  <1>3. ToolsFit'
    BY <1>0, <1>2, OffFits DEF RestartMachine, ToolsFit
  <1> QED BY <1>1, <1>3, TypeParts

\* Every variable keeps its type, whatever runs beside what.
LEMMA TypeStep == TypeOK /\ [Next]_vars => TypeOK'
  <1> SUFFICES ASSUME TypeOK, [Next]_vars PROVE TypeOK'
    OBVIOUS
  <1>1. CASE UNCHANGED vars
    BY <1>1, TypeParts DEF vars, forwardVars, cohortVars, ForwardTypeOK, ToolsFit, Watches, Audits, Receipts, Removals
  <1>2. CASE (Tick \/ RunnerStep) /\ UNCHANGED cohortVars
    BY <1>2, ForwardTypes, LongerChain, TypeParts
  <1> QED BY <1>1, <1>2, RestartTypes, WatchStep, AuditTypes, RemovalTypes DEF Next

-----------------------------------------------------------------------------
(* When a cohort is complete. *)

\* A set of naturals has a least element, so that the choice that Stop makes is one.
LEMMA LeastSlot ==
    ASSUME NEW T \in SUBSET Nat, T # {}
    PROVE  \E s \in T : \A o \in T : s <= o
  <1>1. PICK s \in T : \A o \in T : ~(<<o, s>> \in OpToRel(<, Nat))
    BY WFMin, NatLessThanWellFounded
  <1>2. ASSUME NEW o \in T PROVE s <= o
    <2>1. ~(o < s)
      BY <1>1 DEF OpToRel
    <2> QED BY <2>1
  <1> QED BY <1>2

LEMMA StopFacts ==
    ASSUME NEW ds \in Seq(Decision)
    PROVE  \/ /\ Stop(ds) \in End..(Len(ds) - 1)
              /\ Held(ds, Stop(ds)) = Flat
           \/ /\ Stop(ds) = Len(ds)
              /\ \A s \in End..(Len(ds) - 1) : Held(ds, s) # Flat
  <1> DEFINE over == {s \in End..(Len(ds) - 1) : Held(ds, s) = Flat}
  <1>1. Stop(ds) = IF over = {} THEN Len(ds) ELSE CHOOSE s \in over : \A o \in over : s <= o
    BY DEF Stop
  <1>2. CASE over = {}
    BY <1>1, <1>2
  <1>3. CASE over # {}
    <2>1. over \in SUBSET Nat
      OBVIOUS
    <2>2. \E s \in over : \A o \in over : s <= o
      BY <1>3, <2>1, LeastSlot
    <2>3. Stop(ds) \in over
      BY <1>1, <1>3, <2>2
    <2> QED BY <2>3
  <1> QED BY <1>2, <1>3

\* Complete means that some slot past the window found no position open.
LEMMA CompleteMeans ==
    ASSUME NEW ds \in Seq(Decision)
    PROVE  Complete(ds) <=> Len(ds) > Start /\ \E s \in End..Len(ds) : Held(ds, s) = Flat
  <1>1. Len(ds) \in Nat
    OBVIOUS
  <1>2. ASSUME Complete(ds) PROVE \E s \in End..Len(ds) : Held(ds, s) = Flat
    <2>1. Stop(ds) \in End..Len(ds) /\ Held(ds, Stop(ds)) = Flat
      BY <1>1, <1>2, StopFacts DEF Complete, Required, Open
    <2> QED BY <2>1
  <1>3. ASSUME Len(ds) > Start, NEW s \in End..Len(ds), Held(ds, s) = Flat PROVE Complete(ds)
    <2>1. Stop(ds) >= End /\ Held(ds, Stop(ds)) = Flat
      BY <1>1, <1>3, StopFacts
    <2>2. Stop(ds) \in Nat
      BY <1>1, StopFacts
    <2> QED BY <1>3, <2>1, <2>2 DEF Complete, Required, Open
  <1> QED BY <1>2, <1>3 DEF Complete

\* A cohort that was complete after n decisions is complete after all of them.
LEMMA CompleteStays ==
    ASSUME NEW ds \in Seq(Decision), NEW n \in 0..Len(ds), Complete(SubSeq(ds, 1, n))
    PROVE  Complete(ds)
  <1> DEFINE p == SubSeq(ds, 1, n)
  <1>1. p \in Seq(Decision) /\ Len(p) = n /\ \A i \in 1..n : p[i] = ds[i]
    BY SubSeqProperties
  <1>2. PICK s \in End..n : Held(p, s) = Flat
    BY <1>1, CompleteMeans
  <1>3. n > Start
    BY <1>1, CompleteMeans
  <1>4. Held(ds, s) = Held(p, s)
    BY <1>1, <1>2 DEF Held
  <1> QED BY <1>2, <1>3, <1>4, CompleteMeans

-----------------------------------------------------------------------------
(* The inductive invariant. *)

\* Once a slot was missed the clock is past the next one required, and no run gets beyond its gate.
Recording == {"fetch", "publish", "append"}
MissIsFinal ==
    stderr.missed > 0 \/ runner.outcome = "MISSED_SLOT"
        => clock > Len(chain) /\ runner.pc \notin Recording

\* From the evidence on, the observer knows of a cohort that lacks a slot and of as many decisions
\* as its snapshot; from the service on, of a missed slot; in the end, of the whole chain.
AuditFits ==
    /\ \A b \in audit.before : b.frames <= Len(chain)
    /\ audit.pc \in {"evidence", "service", "compare", "publish"}
           => /\ ~Complete(Read(audit.read))
              /\ \A b \in audit.before : b.frames <= audit.read
    /\ audit.pc \in {"service", "compare", "publish"} => stderr.missed > 0
    /\ audit.pc = "publish" => audit.read = Len(chain)

FailureFits == failures # {} => stderr.missed > 0 /\ ~Complete(chain)

\* After the bootout nothing runs, and before its receipt everything was compared.
RemovalFits ==
    /\ removal.pc \in {"gone", "compare after", "publish"} => ~service.loaded /\ runner = Idle
    /\ removal.pc = "publish" => Preserved

CInv == TypeOK /\ MissIsFinal /\ AuditFits /\ FailureFits /\ RemovalFits

LEMMA InitCInv == Init => CInv
  <1> SUFFICES ASSUME Init PROVE CInv
    OBVIOUS
  <1>1. MissIsFinal /\ AuditFits /\ FailureFits /\ RemovalFits
    BY IdleFacts DEF Init, ForwardInit, AuditOff, RemovalOff, MissIsFinal, AuditFits, FailureFits, RemovalFits
  <1> QED BY <1>1, InitTypes DEF CInv

\* The chain grows by a decision of the slot that the clock was in, and by nothing else; then no
\* slot was missed.
LEMMA ChainSteps ==
    ASSUME CInv, (Tick \/ RunnerStep) \/ Restart
    PROVE  /\ chain' = chain \/ (stderr.missed = 0 /\ \E d \in Decision : chain' = Append(chain, d))
           /\ clock <= clock' /\ stderr.missed <= stderr'.missed
           /\ MissIsFinal'
  <1>0. /\ ForwardTypeOK /\ Len(chain) \in Nat /\ stderr.missed \in Nat /\ clock \in Nat
    BY TypeParts DEF CInv, ForwardTypeOK, Slots
  <1> USE DEF MissIsFinal, Recording, CInv
  <1>1. CASE AppendDecision
    <2>1. runner.candidate \in Decision
      BY <1>0, <1>1 DEF AppendDecision, ForwardTypeOK
    <2>2. stderr.missed = 0
      BY <1>0, <1>1 DEF AppendDecision
    <2>3. runner'.outcome = "RECORDED"
      BY <1>0, <1>1 DEF AppendDecision, ForwardTypeOK, Processes
    <2> QED BY <1>0, <1>1, <2>1, <2>2, <2>3 DEF AppendDecision
  <1>2. CASE Tick
    BY <1>0, <1>2 DEF Tick
  <1>3. CASE StartRunner
    BY <1>0, <1>3, IdleFacts DEF StartRunner
  <1>4. CASE KillRunner
    BY <1>0, <1>4, IdleFacts DEF KillRunner
  <1>5. CASE Restart
    BY <1>0, <1>5, IdleFacts DEF Restart
  <1>6. CASE GateBlocked
    <2>1. runner'.pc = "report" /\ runner'.outcome = "ERROR"
      BY <1>0, <1>6 DEF GateBlocked, ForwardTypeOK, Processes
    <2> QED BY <1>0, <1>6, <2>1 DEF GateBlocked
  <1>7. CASE CloseState
    <2>1. runner'.pc = "report" /\ runner'.outcome = runner.outcome
      BY <1>0, <1>7 DEF CloseState, ForwardTypeOK, Processes
    <2> QED BY <1>0, <1>7, <2>1 DEF CloseState
  <1>8. CASE OpenGate
    <2>1. /\ runner'.outcome = "MISSED_SLOT" => clock > NextRequired \/ runner.outcome = "MISSED_SLOT"
          /\ runner'.pc = "close" \/ (runner'.pc = "fetch" /\ clock = NextRequired)
      BY <1>0, <1>8 DEF OpenGate, ForwardTypeOK, Processes
    <2>2. UNCHANGED <<clock, chain, stderr>>
      BY <1>8 DEF OpenGate
    <2> QED BY <1>0, <2>1, <2>2 DEF NextRequired
  <1>9. CASE Fetch
    <2>1. runner.pc = "fetch" /\ UNCHANGED <<clock, chain, stderr>>
      BY <1>9 DEF Fetch
    <2>2. runner'.outcome = runner.outcome
      BY <1>0, <1>9, <2>1, CandidateIsDecision
    <2> QED BY <1>0, <2>1, <2>2
  <1>10. CASE RunFails
    <2>1. runner'.pc = "close" /\ runner'.outcome = "ERROR"
      BY <1>0, <1>10 DEF RunFails, ForwardTypeOK, Processes
    <2> QED BY <1>0, <1>10, <2>1 DEF RunFails
  <1>11. CASE PublishBundle
    <2>1. runner'.pc = "append" /\ runner'.outcome = runner.outcome
      BY <1>0, <1>11 DEF PublishBundle, ForwardTypeOK, Processes
    <2> QED BY <1>0, <1>11, <2>1 DEF PublishBundle
  <1>12. CASE Report
    <2>1. UNCHANGED <<clock, chain>> /\ runner' = Idle
      BY <1>12 DEF Report
    <2>2. \/ stderr' = stderr
          \/ runner.outcome = "MISSED_SLOT" /\ stderr' = [stderr EXCEPT !.missed = stderr.missed + 1]
          \/ stderr' = [stderr EXCEPT !.other = stderr.other + 1]
      BY <1>12 DEF Report
    <2>3. /\ stderr.missed <= stderr'.missed
          /\ stderr'.missed > 0 => stderr.missed > 0 \/ runner.outcome = "MISSED_SLOT"
      BY <1>0, <2>2 DEF ForwardTypeOK
    <2> QED BY <1>0, <2>1, <2>3, IdleFacts
  <1> QED BY <1>1, <1>2, <1>3, <1>4, <1>5, <1>6, <1>7, <1>8, <1>9, <1>10, <1>11, <1>12 DEF RunnerStep

\* What was read of the chain stays what it was.
LEMMA ReadStays ==
    ASSUME chain \in Seq(Decision), NEW n \in 0..Len(chain),
           chain' = chain \/ \E d \in Decision : chain' = Append(chain, d)
    PROVE  Read(n)' = Read(n)
  <1>1. CASE chain' = chain
    BY <1>1 DEF Read
  <1>2. ASSUME NEW d \in Decision, chain' = Append(chain, d) PROVE Read(n)' = Read(n)
    <2>1. SubSeq(chain, 1, n) = SubSeq(Append(chain, d), 1, n)
      BY AppendProperties
    <2> QED BY <1>2, <2>1 DEF Read
  <1> QED BY <1>1, <1>2

\* While the service is gone and no process is left, time may pass but nothing is written.
LEMMA NothingRuns ==
    ASSUME ForwardTypeOK, ~service.loaded, runner = Idle, Tick \/ RunnerStep
    PROVE  ~service'.loaded /\ runner' = Idle /\ UNCHANGED Snapshot
  <1>1. Tick
    BY IdleFacts DEF RunnerStep, StartRunner, GateBlocked, OpenGate, Fetch, RunFails, PublishBundle,
                     AppendDecision, CloseState, Report, KillRunner
  <1>2. service'.loaded = service.loaded
    BY <1>1 DEF Tick, ForwardTypeOK, Services
  <1> QED BY <1>1, <1>2 DEF Tick, Snapshot

LEMMA ForwardCInv ==
    ASSUME CInv, Tick \/ RunnerStep, UNCHANGED cohortVars
    PROVE  CInv'
  <1>0. /\ ForwardTypeOK /\ ToolsFit /\ chain \in Seq(Decision) /\ Len(chain) \in Nat /\ stderr.missed \in Nat
        /\ TypeOK'
    BY TypeParts, TypeStep DEF CInv, ForwardTypeOK, Next
  <1>1. /\ chain' = chain \/ (stderr.missed = 0 /\ \E d \in Decision : chain' = Append(chain, d))
        /\ stderr.missed <= stderr'.missed /\ stderr'.missed \in Nat /\ MissIsFinal'
    BY <1>0, ChainSteps, TypeParts DEF ForwardTypeOK
  <1>2. Len(chain) <= Len(chain') /\ Len(chain') \in Nat
    BY <1>0, ForwardTypes DEF ForwardTypeOK
  <1>3. UNCHANGED <<audit, removal, failures>>
    BY DEF cohortVars
  <1>4. AuditFits'
    <2>1. audit.read \in 0..Len(chain) /\ \A b \in audit.before : b.frames \in Nat
      BY <1>0 DEF ToolsFit, Audits, Snapshots
    <2>2. Read(audit.read)' = Read(audit.read)
      BY <1>0, <1>1, <1>3, <2>1, ReadStays DEF Read
    <2>3. ~Complete(Read(audit.read)) => ~Complete(Read(audit.read))'
      BY <2>2 DEF Complete, Required, Open, Stop, Held
    <2> QED BY <1>0, <1>1, <1>2, <1>3, <2>1, <2>3 DEF CInv, AuditFits
  <1>5. FailureFits'
    BY <1>0, <1>1, <1>3 DEF CInv, FailureFits
  <1>6. RemovalFits'
    <2>1. CASE removal.pc \in {"gone", "compare after", "publish"}
      <3>1. ~service'.loaded /\ runner' = Idle /\ UNCHANGED Snapshot
        BY <1>0, <2>1, NothingRuns DEF CInv, RemovalFits
      <3> QED BY <1>3, <3>1 DEF CInv, RemovalFits, Preserved
    <2>2. CASE removal.pc \notin {"gone", "compare after", "publish"}
      BY <1>3, <2>2 DEF RemovalFits
    <2> QED BY <2>1, <2>2
  <1> QED BY <1>0, <1>1, <1>4, <1>5, <1>6 DEF CInv

LEMMA RestartCInv ==
    ASSUME CInv, RestartMachine
    PROVE  CInv'
  <1>1. TypeOK' /\ MissIsFinal'
    BY RestartTypes, ChainSteps DEF CInv, RestartMachine
  <1>2. AuditFits' /\ RemovalFits'
    BY DEF RestartMachine, AuditOff, RemovalOff, AuditFits, RemovalFits
  <1>3. FailureFits'
    BY DEF RestartMachine, Restart, CInv, FailureFits
  <1> QED BY <1>1, <1>2, <1>3 DEF CInv

LEMMA WatchCInv ==
    ASSUME CInv, Maintenance
    PROVE  CInv'
  <1>1. TypeOK' /\ UNCHANGED <<forwardVars, audit, removal, failures>>
    BY WatchStep DEF CInv
  <1>2. MissIsFinal' /\ FailureFits'
    BY <1>1 DEF CInv, MissIsFinal, FailureFits, forwardVars
  <1>3. AuditFits'
    BY <1>1 DEF CInv, AuditFits, Read, forwardVars
  <1>4. RemovalFits'
    BY <1>1 DEF CInv, RemovalFits, Preserved, Snapshot, forwardVars
  <1> QED BY <1>1, <1>2, <1>3, <1>4 DEF CInv

LEMMA AuditCInv ==
    ASSUME CInv, Audit
    PROVE  CInv'
  <1>0. ForwardTypeOK /\ ToolsFit /\ chain \in Seq(Decision) /\ Len(chain) \in Nat /\ stderr.missed \in Nat
    BY TypeParts DEF CInv, ForwardTypeOK
  <1>1. TypeOK' /\ UNCHANGED <<forwardVars, removal>>
    BY AuditTypes DEF CInv
  <1>2. MissIsFinal' /\ RemovalFits'
    BY <1>1 DEF CInv, MissIsFinal, RemovalFits, Preserved, Snapshot, forwardVars
  <1>3. UNCHANGED <<chain, stderr>>
    BY <1>1 DEF forwardVars
  <1> USE DEF AuditFits
  <1>4. AuditFits' /\ FailureFits'
    <2>1. CASE BeginAudit
      <3>1. audit'.pc = "state" /\ audit'.before = {Snapshot} /\ UNCHANGED failures
        BY <2>1 DEF BeginAudit, AuditOff
      <3> QED BY <1>0, <1>3, <3>1, SnapshotFits DEF CInv, FailureFits
    <2>2. CASE AuditState
      <3>1. audit'.pc = "evidence" /\ audit'.read = Len(chain) /\ audit'.before = audit.before
            /\ UNCHANGED failures
        BY <1>0, <2>2 DEF AuditState, CanRead, ToolsFit, Audits
      <3>2. ~Complete(Read(Len(chain)))
        BY <2>2 DEF AuditState, CanRead, Complete
      <3>3. (~Complete(Read(audit.read)))'
        BY <1>3, <3>1, <3>2 DEF Read
      <3> QED BY <1>0, <1>3, <3>1, <3>3 DEF CInv, FailureFits
    <2>3. CASE AuditEvidence
      <3>1. audit.pc = "evidence" /\ audit' = [audit EXCEPT !.pc = "service"] /\ stderr.missed > 0
            /\ UNCHANGED failures
        BY <1>0, <2>3 DEF AuditEvidence, AuditStep
      <3>2. audit'.pc = "service" /\ audit'.read = audit.read /\ audit'.before = audit.before
        BY <1>0, <3>1 DEF ToolsFit, Audits
      <3> QED BY <1>3, <3>1, <3>2 DEF CInv, FailureFits, Read
    <2>4. CASE AuditService
      <3>1. audit.pc = "service" /\ audit' = [audit EXCEPT !.pc = "compare"] /\ UNCHANGED failures
        BY <2>4 DEF AuditService, AuditStep
      <3>2. audit'.pc = "compare" /\ audit'.read = audit.read /\ audit'.before = audit.before
        BY <1>0, <3>1 DEF ToolsFit, Audits
      <3> QED BY <1>3, <3>1, <3>2 DEF CInv, FailureFits, Read
    <2>5. CASE AuditCompare
      <3>1. audit.pc = "compare" /\ audit' = [audit EXCEPT !.pc = "publish"] /\ UNCHANGED failures
            /\ audit.before = {Snapshot}
        BY <2>5 DEF AuditCompare, AuditStep
      <3>2. audit'.pc = "publish" /\ audit'.read = audit.read /\ audit'.before = audit.before
        BY <1>0, <3>1 DEF ToolsFit, Audits
      <3>3. audit.read = Len(chain)
        <4>1. Len(chain) <= audit.read
          BY <1>0, <3>1, SnapshotFits DEF CInv
        <4>2. audit.read \in 0..Len(chain)
          BY <1>0 DEF ToolsFit, Audits
        <4> QED BY <1>0, <4>1, <4>2
      <3> QED BY <1>3, <3>1, <3>2, <3>3 DEF CInv, FailureFits, Read
    <2>6. CASE PublishFailure
      <3>1. audit.pc = "publish" /\ audit' = AuditOff
        BY <2>6 DEF PublishFailure
      <3>2. stderr.missed > 0 /\ ~Complete(Read(Len(chain)))
        BY <3>1 DEF CInv
      <3>3. Read(Len(chain)) = chain
        BY <1>0 DEF Read
      <3> QED BY <1>3, <3>1, <3>2, <3>3 DEF FailureFits, AuditOff
    <2>7. CASE AbandonAudit
      BY <1>3, <2>7 DEF AbandonAudit, AuditOff, CInv, FailureFits
    <2> QED BY <2>1, <2>2, <2>3, <2>4, <2>5, <2>6, <2>7 DEF Audit
  <1> QED BY <1>1, <1>2, <1>4 DEF CInv

LEMMA RemovalCInv ==
    ASSUME CInv, Removal
    PROVE  CInv'
  <1>0. ForwardTypeOK /\ ToolsFit
    BY TypeParts DEF CInv
  <1>1. /\ TypeOK' /\ UNCHANGED <<audit, failures>>
        /\ UNCHANGED <<clock, chain, checkpointed, wal, bundles, stdout, stderr>>
        /\ UNCHANGED <<service, runner>> \/ BootOut
    BY RemovalTypes DEF CInv
  <1>2. Snapshot' = Snapshot
    BY <1>1 DEF Snapshot
  <1>3. MissIsFinal'
    <2>1. CASE UNCHANGED <<service, runner>>
      BY <1>1, <2>1 DEF CInv, MissIsFinal
    <2>2. CASE BootOut
      <3>1. runner' = Idle
        BY <2>2 DEF BootOut
      <3>2. stderr.missed > 0 => clock > Len(chain)
        BY DEF CInv, MissIsFinal
      <3> QED BY <1>1, <3>1, <3>2, IdleFacts DEF MissIsFinal, Recording
    <2> QED BY <1>1, <2>1, <2>2
  <1>4. AuditFits' /\ FailureFits'
    BY <1>1 DEF CInv, AuditFits, FailureFits, Read
  <1>5. RemovalFits'
    <2>1. CASE BootOut
      <3>1. removal'.pc = "gone" /\ runner' = Idle
        BY <1>0, <2>1 DEF BootOut, ToolsFit, Removals
      <3>2. ~service'.loaded
        BY <1>0, <2>1 DEF BootOut, ForwardTypeOK, Services
      <3> QED BY <3>1, <3>2 DEF RemovalFits
    <2>2. CASE CheckAfter
      <3>1. /\ UNCHANGED <<service, runner>>
            /\ removal.pc \in {"gone", "compare after"}
            /\ \/ removal' = [removal EXCEPT !.pc = "compare after"]
               \/ removal' = [removal EXCEPT !.pc = "publish"] /\ Preserved
        BY <2>2 DEF CheckAfter, RemovalStep, forwardVars
      <3>2. /\ removal'.receipt = removal.receipt
            /\ removal'.pc = "publish" => Preserved
        BY <1>0, <3>1 DEF ToolsFit, Removals
      <3> QED BY <1>2, <3>1, <3>2 DEF CInv, RemovalFits, Preserved
    <2>3. CASE CheckBefore
      <3>1. \E to \in {"compare", "print again", "compare again", "bootout"} :
               removal' = [removal EXCEPT !.pc = to]
        BY <2>3 DEF CheckBefore, RemovalStep
      <3>2. removal'.pc \notin {"gone", "compare after", "publish"}
        BY <1>0, <3>1 DEF ToolsFit, Removals
      <3> QED BY <3>2 DEF RemovalFits
    <2>4. CASE LoadFailure \/ PublishDecommission \/ PublishForensics \/ AbandonRemoval
      <3>1. LoadFailure => removal'.pc = "print"
        BY DEF LoadFailure
      <3>2. PublishDecommission \/ PublishForensics \/ AbandonRemoval => removal'.pc = "off"
        <4>1. PublishDecommission \/ PublishForensics \/ AbandonRemoval => removal' = RemovalOff
          BY Zenon DEF PublishDecommission, PublishForensics, AbandonRemoval
        <4> QED BY <4>1 DEF RemovalOff
      <3> QED BY <2>4, <3>1, <3>2 DEF RemovalFits
    <2> QED BY <2>1, <2>2, <2>3, <2>4 DEF Removal
  <1> QED BY <1>1, <1>3, <1>4, <1>5 DEF CInv

LEMMA NextCInv == CInv /\ [Next]_vars => CInv'
  <1> SUFFICES ASSUME CInv, [Next]_vars PROVE CInv'
    OBVIOUS
  <1>1. CASE UNCHANGED vars
    <2>1. TypeOK'
      BY <1>1, TypeStep DEF CInv
    <2>2. UNCHANGED <<clock, chain, checkpointed, wal, bundles, stdout, stderr, service, runner, audit, removal, failures>>
      BY <1>1 DEF vars, forwardVars, cohortVars
    <2>3. MissIsFinal' /\ FailureFits'
      BY <2>2 DEF CInv, MissIsFinal, FailureFits
    <2>4. AuditFits'
      BY <2>2 DEF CInv, AuditFits, Read
    <2>5. RemovalFits'
      BY <2>2 DEF CInv, RemovalFits, Preserved, Snapshot
    <2> QED BY <2>1, <2>3, <2>4, <2>5 DEF CInv
  <1> QED BY <1>1, ForwardCInv, RestartCInv, WatchCInv, AuditCInv, RemovalCInv DEF Next

LEMMA AlwaysCInv == Spec => []CInv
  BY InitCInv, NextCInv, PTL DEF Spec

-----------------------------------------------------------------------------
(* The theorems. *)

\* No interleaving of the tools with the runner and no fault takes a variable out of its type.
THEOREM TypeCorrectness == Spec => []TypeOK
  <1>1. CInv => TypeOK
    BY DEF CInv
  <1> QED BY <1>1, AlwaysCInv, PTL

\* A decommission receipt appears only when the service is gone and every file is as the failure
\* receipt describes it, whoever else is at work.
THEOREM DecommissionsAreTrue == Spec => DecommissionIsTrue
  <1>1. ASSUME CInv, [Next]_vars, decommissions' # decommissions
        PROVE  /\ ~service.loaded /\ runner.pc = "idle"
               /\ \A f \in decommissions' \ decommissions : Snapshot = f.evidence
    <2>1. PublishDecommission
      <3>1. ~UNCHANGED vars /\ ~UNCHANGED cohortVars
        BY <1>1 DEF vars, cohortVars
      <3>2. ~Maintenance /\ ~Audit /\ ~RestartMachine
        BY <1>1, WatchStep, AuditTypes DEF CInv, RestartMachine
      <3> QED BY <1>1, <3>1, <3>2 DEF Next, Removal, LoadFailure, CheckBefore, BootOut, CheckAfter,
                                      PublishForensics, AbandonRemoval, RemovalStep
    <2>2. removal.pc = "publish" /\ decommissions' = decommissions \cup removal.receipt
      BY <2>1 DEF PublishDecommission
    <2>3. ~service.loaded /\ runner = Idle /\ Preserved
      BY <1>1, <2>2 DEF CInv, RemovalFits
    <2> QED BY <2>2, <2>3, IdleFacts DEF Preserved
  <1>2. CInv /\ [Next]_vars =>
          [decommissions' # decommissions =>
             /\ ~service.loaded /\ runner.pc = "idle"
             /\ \A f \in decommissions' \ decommissions : Snapshot = f.evidence]_vars
    BY <1>1
  <1> QED BY <1>2, AlwaysCInv, PTL DEF Spec, DecommissionIsTrue

-----------------------------------------------------------------------------
(* The refinement of CohortLife. *)

LEMMA InitRefines == Init => Life!Init
  <1> SUFFICES ASSUME Init PROVE Life!Init
    OBVIOUS
  <1>1. Len(chain) = 0 /\ failures = {} /\ evaluations = {}
    BY DEF Init, ForwardInit
  <1>2. ~Complete(chain)
    BY <1>1 DEF Complete
  <1>3. (failures # {}) = FALSE /\ (evaluations # {}) = FALSE /\ Complete(chain) = FALSE
    BY <1>1, <1>2 DEF Complete
  <1> QED BY <1>1, <1>3 DEF Life!Init

\* A step of the runner keeps a decision, or none.
LEMMA ForwardRefines ==
    ASSUME CInv, (Tick \/ RunnerStep) \/ Restart, UNCHANGED <<failures, evaluations>>
    PROVE  [Life!Next]_(Life!vars)
  <1>0. chain \in Seq(Decision)
    BY TypeParts DEF CInv, ForwardTypeOK
  <1>1. CASE chain' = chain
    <2>1. Complete(chain)' = Complete(chain)
      BY <1>1 DEF Complete, Required, Open, Stop, Held
    <2> QED BY <1>1, <2>1 DEF Life!vars
  <1>2. CASE stderr.missed = 0 /\ \E d \in Decision : chain' = Append(chain, d)
    <2>1. PICK d \in Decision : chain' = Append(chain, d)
      BY <1>2
    <2>2. chain' \in Seq(Decision) /\ Len(chain') = Len(chain) + 1 /\ Len(chain) \in Nat
      BY <1>0, <2>1, AppendProperties
    <2>3. SubSeq(chain', 1, Len(chain)) = chain
      BY <1>0, <2>1, AppendProperties
    <2>4. Complete(chain) => Complete(chain')
      <3>1. Len(chain) \in 0..Len(chain')
        BY <2>2
      <3> QED BY <2>2, <2>3, <3>1, CompleteStays
    <2>5. Complete(chain') = Complete(chain)'
      BY DEF Complete, Required, Open, Stop, Held
    <2>6. failures = {}
      BY <1>2 DEF CInv, FailureFits
    <2>7. Complete(chain) \in BOOLEAN /\ Complete(chain)' \in BOOLEAN
      BY DEF Complete
    <2>8. Complete(chain)' \in {Complete(chain), TRUE}
      BY <2>4, <2>5, <2>7
    <2> QED BY <2>2, <2>6, <2>8 DEF Life!Next, Life!Keep
  <1> QED BY <1>1, <1>2, ChainSteps

LEMMA NextRefines == CInv /\ CInv' /\ [Next]_vars => [Life!Next]_(Life!vars)
  <1> SUFFICES ASSUME CInv, CInv', [Next]_vars PROVE [Life!Next]_(Life!vars)
    OBVIOUS
  <1>0. chain \in Seq(Decision)
    BY TypeParts DEF CInv, ForwardTypeOK
  <1>1. ASSUME UNCHANGED <<chain, failures, evaluations>> PROVE UNCHANGED Life!vars
    BY <1>1 DEF Life!vars, Complete, Required, Open, Stop, Held
  <1>2. CASE UNCHANGED vars
    BY <1>1, <1>2 DEF vars, forwardVars, cohortVars
  <1>3. CASE (Tick \/ RunnerStep) /\ UNCHANGED cohortVars
    BY <1>3, ForwardRefines DEF cohortVars
  <1>4. CASE RestartMachine
    BY <1>4, ForwardRefines DEF RestartMachine
  <1>5. CASE Maintenance
    <2>1. UNCHANGED <<chain, failures>>
      BY <1>5, WatchStep DEF CInv, forwardVars
    <2>2. CASE evaluations' = evaluations
      BY <1>1, <2>1, <2>2
    <2>3. CASE evaluations' # evaluations
      <3>1. Evaluate
        BY <1>5, <2>3, WatchStep DEF CInv
      <3>2. Complete(Read(watch["evaluator"].read)) /\ evaluations' # {}
        BY <3>1 DEF Evaluate
      <3>3. watch["evaluator"].read \in 0..Len(chain)
        BY TypeParts DEF CInv, ToolsFit, Watches, Watchers
      <3>4. Complete(chain)
        BY <1>0, <3>2, <3>3, CompleteStays DEF Read
      <3>5. failures = {}
        BY <3>4 DEF CInv, FailureFits
      <3>6. Complete(chain)' = Complete(chain)
        BY <2>1 DEF Complete, Required, Open, Stop, Held
      <3> QED BY <2>1, <3>2, <3>4, <3>5, <3>6 DEF Life!Next, Life!Evaluate
    <2> QED BY <2>2, <2>3
  <1>6. CASE Audit
    <2>1. UNCHANGED <<chain, evaluations>> /\ failures \subseteq failures'
      BY <1>6, AuditTypes DEF CInv, forwardVars
    <2>2. Complete(chain)' = Complete(chain)
      BY <2>1 DEF Complete, Required, Open, Stop, Held
    <2>3. CASE (failures # {}) = (failures' # {})
      BY <2>1, <2>2, <2>3 DEF Life!vars
    <2>4. CASE failures' # {}
      <3>1. ~Complete(chain)'
        BY <2>4 DEF CInv, FailureFits
      <3> QED BY <2>1, <2>2, <2>4, <3>1 DEF Life!Next, Life!Fail
    <2> QED BY <2>1, <2>3, <2>4
  <1>7. CASE Removal
    BY <1>1, <1>7, RemovalTypes DEF CInv
  <1> QED BY <1>2, <1>3, <1>4, <1>5, <1>6, <1>7 DEF Next

\* For every cohort: it is complete for good or failed for good, nothing is ever kept after it
\* failed, and a failed cohort is never evaluated.
THEOREM CohortImplementsLife == Spec => ImplementsCohortLife
  BY InitRefines, NextRefines, AlwaysCInv, PTL DEF Spec, ImplementsCohortLife, Life!Spec


-----------------------------------------------------------------------------
(* The chains the runner builds. *)

\* What the runner's rule makes of every slot, and where an open position comes from: it was
\* entered from flat and held ever since, for less than the vertical limit.
Settled(ds, s) ==
    LET d == ds[s + 1]
    IN /\ d.slot = s
       /\ <<d.action, d.position>> \in Choices(s, Held(ds, s))
       /\ d.position # Flat =>
            /\ d.position \in 0..s /\ s < d.position + Vertical
            /\ ds[d.position + 1].action = "ENTER_LONG" /\ Held(ds, d.position) = Flat
            /\ \A u \in (d.position + 1)..s : Held(ds, u) = d.position
ChainFits(ds) == \A s \in 0..(Len(ds) - 1) : Settled(ds, s)

LEMMA HeldType ==
    ASSUME NEW ds \in Seq(Decision), NEW s \in 0..Len(ds)
    PROVE  Held(ds, s) \in Nat \cup {Flat} /\ (Held(ds, s) # Flat => s > 0 /\ Held(ds, s) = ds[s].position)
  <1>1. CASE s = 0
    BY <1>1 DEF Held
  <1>2. CASE s # 0
    <2>1. ds[s] \in Decision
      BY <1>2
    <2> QED BY <1>2, <2>1 DEF Held, Decision, Slots
  <1> QED BY <1>1, <1>2

LEMMA PrefixFacts ==
    ASSUME NEW ds \in Seq(Decision), NEW n \in 0..Len(ds)
    PROVE  /\ SubSeq(ds, 1, n) \in Seq(Decision) /\ Len(SubSeq(ds, 1, n)) = n
           /\ \A i \in 1..n : SubSeq(ds, 1, n)[i] = ds[i]
           /\ \A s \in 0..n : Held(SubSeq(ds, 1, n), s) = Held(ds, s)
  <1>1. /\ SubSeq(ds, 1, n) \in Seq(Decision) /\ Len(SubSeq(ds, 1, n)) = n
        /\ \A i \in 1..n : SubSeq(ds, 1, n)[i] = ds[i]
    BY SubSeqProperties
  <1> QED BY <1>1 DEF Held

LEMMA PrefixFits ==
    ASSUME NEW ds \in Seq(Decision), NEW n \in 0..Len(ds), ChainFits(ds)
    PROVE  ChainFits(SubSeq(ds, 1, n))
  <1> DEFINE p == SubSeq(ds, 1, n)
  <1>1. /\ Len(p) = n /\ \A i \in 1..n : p[i] = ds[i]
        /\ \A s \in 0..n : Held(p, s) = Held(ds, s)
    BY PrefixFacts
  <1> HIDE DEF p
  <1>2. ASSUME NEW s \in 0..(n - 1) PROVE Settled(p, s)
    <2>1. Settled(ds, s) /\ p[s + 1] = ds[s + 1] /\ Held(p, s) = Held(ds, s)
      BY <1>1 DEF ChainFits
    <2>2. CASE ds[s + 1].position = Flat
      BY <2>1, <2>2 DEF Settled
    <2>3. CASE ds[s + 1].position # Flat
      <3> DEFINE q == ds[s + 1].position
      <3>1. /\ q \in 0..s /\ s < q + Vertical /\ ds[q + 1].action = "ENTER_LONG" /\ Held(ds, q) = Flat
            /\ \A u \in (q + 1)..s : Held(ds, u) = q
        BY <2>1, <2>3 DEF Settled
      <3>2. p[q + 1] = ds[q + 1] /\ Held(p, q) = Held(ds, q)
        BY <1>1, <3>1
      <3>3. \A u \in (q + 1)..s : Held(p, u) = q
        BY <1>1, <3>1
      <3> QED BY <2>1, <3>1, <3>2, <3>3 DEF Settled
    <2> QED BY <2>2, <2>3
  <1> QED BY <1>1, <1>2 DEF ChainFits, p

\* The runner's rule for the next slot keeps the chain so.
LEMMA AppendFits ==
    ASSUME NEW ds \in Seq(Decision), NEW d \in Decision, ChainFits(ds), d.slot = Len(ds),
           <<d.action, d.position>> \in Choices(Len(ds), Held(ds, Len(ds)))
    PROVE  ChainFits(Append(ds, d))
  <1> DEFINE es == Append(ds, d)
             n == Len(ds)
  <1>1. /\ n \in Nat /\ Len(es) = n + 1 /\ es[n + 1] = d /\ \A i \in 1..n : es[i] = ds[i]
    BY AppendProperties
  <1>2. \A s \in 0..n : Held(es, s) = Held(ds, s)
    BY <1>1 DEF Held
  <1> HIDE DEF es
  <1>3. ASSUME NEW s \in 0..(n - 1) PROVE Settled(es, s)
    <2>1. Settled(ds, s) /\ es[s + 1] = ds[s + 1] /\ Held(es, s) = Held(ds, s)
      BY <1>1, <1>2 DEF ChainFits
    <2>2. CASE ds[s + 1].position = Flat
      BY <2>1, <2>2 DEF Settled
    <2>3. CASE ds[s + 1].position # Flat
      <3> DEFINE q == ds[s + 1].position
      <3>1. /\ q \in 0..s /\ s < q + Vertical /\ ds[q + 1].action = "ENTER_LONG" /\ Held(ds, q) = Flat
            /\ \A u \in (q + 1)..s : Held(ds, u) = q
        BY <2>1, <2>3 DEF Settled
      <3>2. es[q + 1] = ds[q + 1] /\ Held(es, q) = Held(ds, q)
        <4>1. q \in 0..n /\ q + 1 \in 1..n
          BY <1>1, <3>1
        <4> HIDE DEF q
        <4> QED BY <1>1, <1>2, <4>1
      <3>3. \A u \in (q + 1)..s : Held(es, u) = q
        BY <1>1, <1>2, <3>1
      <3> QED BY <2>1, <3>1, <3>2, <3>3 DEF Settled
    <2> QED BY <2>2, <2>3
  <1>4. Settled(es, n)
    <2> DEFINE held == Held(ds, n)
    <2>1. Held(es, n) = held /\ es[n + 1] = d
      BY <1>1, <1>2
    <2>2. CASE d.position = Flat
      BY <2>1, <2>2 DEF Settled
    <2>3. CASE d.position # Flat /\ held = Flat
      <3>1. d.position = n /\ d.action = "ENTER_LONG"
        BY <2>3 DEF Choices
      <3> QED BY <1>1, <2>1, <2>3, <3>1 DEF Settled
    <2>4. CASE d.position # Flat /\ held # Flat
      <3>1. held \in Nat /\ n > 0 /\ held = ds[n].position
        BY <1>1, <2>4, HeldType
      <3>2. d.position = held /\ n < held + Vertical
        BY <1>1, <2>4, <3>1 DEF Choices
      <3>3. Settled(ds, n - 1)
        BY <1>1, <3>1 DEF ChainFits
      <3>4. /\ held \in 0..(n - 1) /\ ds[held + 1].action = "ENTER_LONG" /\ Held(ds, held) = Flat
            /\ \A u \in (held + 1)..(n - 1) : Held(ds, u) = held
        BY <1>1, <2>4, <3>1, <3>3 DEF Settled
      <3>5. es[held + 1].action = "ENTER_LONG" /\ Held(es, held) = Flat
        BY <1>1, <1>2, <3>4
      <3>6. \A u \in (held + 1)..n : Held(es, u) = held
        BY <1>1, <1>2, <3>4
      <3> QED BY <1>1, <2>1, <3>2, <3>4, <3>5, <3>6 DEF Settled
    <2> QED BY <2>2, <2>3, <2>4
  <1>5. 0..(Len(es) - 1) = (0..(n - 1)) \cup {n}
    BY <1>1
  <1> QED BY <1>3, <1>4, <1>5 DEF ChainFits, es

\* Before the slot that the cohort stops in, no slot past the window was flat.
LEMMA StopIsLeast ==
    ASSUME NEW ds \in Seq(Decision)
    PROVE  /\ Stop(ds) \in 0..Len(ds)
           /\ \A s \in End..(Len(ds) - 1) : s < Stop(ds) => Held(ds, s) # Flat
  <1> DEFINE over == {s \in End..(Len(ds) - 1) : Held(ds, s) = Flat}
  <1>1. Stop(ds) = IF over = {} THEN Len(ds) ELSE CHOOSE s \in over : \A o \in over : s <= o
    BY DEF Stop
  <1>2. Len(ds) \in Nat
    OBVIOUS
  <1>3. CASE over = {}
    BY <1>1, <1>2, <1>3
  <1>4. CASE over # {}
    <2>1. over \in SUBSET Nat
      OBVIOUS
    <2>2. \E s \in over : \A o \in over : s <= o
      BY <1>4, <2>1, LeastSlot
    <2>3. Stop(ds) \in over /\ \A o \in over : Stop(ds) <= o
      BY <1>1, <1>4, <2>2
    <2>4. ASSUME NEW s \in End..(Len(ds) - 1), s < Stop(ds) PROVE Held(ds, s) # Flat
      BY <1>2, <2>3, <2>4
    <2> QED BY <1>2, <2>3, <2>4
  <1> QED BY <1>3, <1>4

LEMMA StopIs ==
    ASSUME NEW ds \in Seq(Decision), NEW S \in End..Len(ds), Held(ds, S) = Flat,
           \A s \in End..(S - 1) : Held(ds, s) # Flat
    PROVE  Stop(ds) = S
  <1>1. Len(ds) \in Nat /\ Stop(ds) \in 0..Len(ds)
    BY StopIsLeast
  <1>2. ~(S < Stop(ds))
    BY <1>1, StopIsLeast
  <1>3. ~(Stop(ds) < S)
    BY <1>1, StopFacts
  <1> QED BY <1>1, <1>2, <1>3

\* The cohort's partition accepts every chain of the runner.
LEMMA RunnerChain ==
    ASSUME NEW ds \in Seq(Decision), ChainFits(ds), Len(ds) > Start, Held(ds, Start) = Flat
    PROVE  Accepted(ds, Len(ds) - 1)
  <1> DEFINE n == Len(ds)
             S == Stop(ds)
  <1>1. n \in Nat /\ S \in 0..n /\ \A s \in 0..(n - 1) : Settled(ds, s)
    BY StopIsLeast DEF ChainFits
  <1>2. \/ S \in End..(n - 1) /\ Held(ds, S) = Flat
        \/ S = n
    BY StopFacts
  \* A position that is held was entered before, and less than the limit ago.
  <1>3. ASSUME NEW s \in 1..n, Held(ds, s) # Flat
        PROVE  LET p == Held(ds, s) IN p \in 0..(s - 1) /\ s <= p + Vertical /\ Held(ds, p) = Flat
    <2>1. ds[s].position = Held(ds, s) /\ Settled(ds, s - 1)
      BY <1>1, <1>3, HeldType
    <2> QED BY <1>3, <2>1 DEF Settled
  <1>4. S <= TailEnd
    <2>1. SUFFICES ASSUME TailEnd < S PROVE FALSE
      BY <1>1 DEF TailEnd
    <2>2. TailEnd \in End..(n - 1) /\ TailEnd \in 1..n
      BY <1>1, <2>1 DEF TailEnd
    <2>3. Held(ds, TailEnd) # Flat
      BY <2>1, <2>2, StopIsLeast
    <2>4. PICK p \in 0..(TailEnd - 1) : TailEnd <= p + Vertical /\ Held(ds, p) = Flat
      BY <1>3, <2>2, <2>3
    <2>5. p \in End..(n - 1) /\ p < S
      BY <1>1, <2>1, <2>2, <2>4 DEF TailEnd
    <2> QED BY <2>4, <2>5, StopIsLeast
  <1>5. ASSUME NEW s \in InCohort(ds) PROVE Lawful(ds, s)
    <2> DEFINE held == Held(ds, s)
               d == ds[s + 1]
    <2>1. s \in Nat /\ s \in 0..(n - 1) /\ s < S /\ s \in 0..n
      BY <1>1, <1>5 DEF InCohort
    <2>2. <<d.action, d.position>> \in Choices(s, held) /\ held \in Nat \cup {Flat}
      BY <1>1, <2>1, HeldType DEF Settled
    <2>3. held = Flat => s < End
      BY <1>1, <2>1, StopIsLeast
    <2>4. CASE held = Flat
      BY <2>1, <2>2, <2>3, <2>4 DEF Choices, Lawful
    <2>5. CASE held # Flat
      <3>1. held \in Nat
        BY <2>2, <2>5
      <3>2. CASE s < held + MinHold
        <4>1. d.action = "HOLD_LONG_MINIMUM" /\ d.position = held
          BY <2>2, <2>5, <3>2 DEF Choices
        <4>2. s < held + Vertical
          BY <2>1, <3>1, <3>2
        <4> QED BY <2>5, <3>2, <4>1, <4>2 DEF Lawful
      <3>3. CASE ~(s < held + MinHold)
        <4>1. s >= held + MinHold
          BY <2>1, <3>1, <3>3
        <4>2. \/ d.action = "EXIT_LONG_SMA20" /\ d.position = Flat
              \/ d.action = "EXIT_LONG_VERTICAL_24H" /\ d.position = Flat /\ s >= held + Vertical
              \/ d.action = "HOLD_LONG" /\ d.position = held /\ ~(s >= held + Vertical)
          BY <2>2, <2>5, <3>3 DEF Choices
        <4>3. ~(s >= held + Vertical) => s < held + Vertical
          BY <2>1, <3>1
        <4> QED BY <2>5, <4>1, <4>2, <4>3 DEF Lawful
      <3> QED BY <3>2, <3>3
    <2> QED BY <2>4, <2>5
  <1>6. Required(ds) => n - 1 <= S
    BY <1>1, <1>2 DEF Required, Open
  <1>7. Open(ds) # Flat => n - 1 <= Open(ds) + Vertical
    <2>1. SUFFICES ASSUME Open(ds) # Flat PROVE n - 1 <= Open(ds) + Vertical
      OBVIOUS
    <2>2. S = n /\ Held(ds, n) # Flat /\ n \in 1..n
      BY <1>1, <1>2, <2>1 DEF Open
    <2>3. Held(ds, n) \in 0..(n - 1) /\ n <= Held(ds, n) + Vertical
      BY <1>3, <2>2
    <2> QED BY <1>1, <2>2, <2>3 DEF Open
  <1>8. n - 1 >= TailEnd => ~Required(ds)
    <2>1. n - 1 >= TailEnd => S # n /\ S >= End
      BY <1>1, <1>2, <1>4 DEF TailEnd
    <2> QED BY <1>2, <2>1 DEF Required, Open
  <1> QED BY <1>4, <1>5, <1>6, <1>7, <1>8 DEF Accepted

-----------------------------------------------------------------------------
(* The episodes of a complete cohort. *)

\* In a chain of the runner that makes the cohort complete, the episodes that it completes are
\* those that were entered in the window: none is left out, and none entered later counts.
LEMMA Episodes ==
    ASSUME NEW ds \in Seq(Decision), ChainFits(ds), Complete(ds)
    PROVE  {e.entry : e \in Completed(ds)} = {s \in Start..(End - 1) : ds[s + 1].action = "ENTER_LONG"}
  <1> DEFINE n == Len(ds)
             S == Stop(ds)
  <1>1. n \in Nat /\ \A s \in 0..(n - 1) : Settled(ds, s)
    BY DEF ChainFits
  <1>2. /\ S \in End..n /\ Held(ds, S) = Flat
        /\ \A s \in End..(S - 1) : Held(ds, s) # Flat
    <2>1. S \in End..n /\ Held(ds, S) = Flat
      BY <1>1, StopFacts DEF Complete, Required, Open
    <2>2. ASSUME NEW s \in End..(S - 1) PROVE Held(ds, s) # Flat
      BY <1>1, <2>1, StopIsLeast
    <2> QED BY <2>1, <2>2
  <1>3. InCohort(ds) = Start..(S - 1)
    BY DEF InCohort
  \* A position that is held was entered from flat and held ever since.
  <1>4. ASSUME NEW u \in 1..n, Held(ds, u) # Flat
        PROVE  LET p == Held(ds, u)
               IN /\ p \in 0..(u - 1) /\ ds[p + 1].action = "ENTER_LONG" /\ Held(ds, p) = Flat
                  /\ \A w \in (p + 1)..(u - 1) : Held(ds, w) = p
    <2>1. ds[u].position = Held(ds, u) /\ Settled(ds, u - 1)
      BY <1>1, <1>4, HeldType
    <2> QED BY <1>4, <2>1 DEF Settled
  <1>5. ASSUME NEW e \in Completed(ds)
        PROVE  e.entry \in Start..(End - 1) /\ ds[e.entry + 1].action = "ENTER_LONG"
    <2> DEFINE p == e.entry
               x == e.exit
    <2>1. p \in Start..(S - 1) /\ x \in Start..(S - 1) /\ Held(ds, x) = p
      BY <1>3 DEF Completed
    <2>2. p \in Nat /\ p # Flat /\ x \in 0..n
      BY <1>1, <1>2, <2>1 DEF Flat
    <2>3. x # 0
      BY <2>1, <2>2 DEF Held
    <2>4. ds[p + 1].action = "ENTER_LONG" /\ Held(ds, p) = Flat
      BY <1>1, <1>4, <2>1, <2>2, <2>3
    <2>5. ~(p >= End)
      BY <1>2, <2>1, <2>4
    <2> QED BY <2>1, <2>2, <2>4, <2>5
  <1>6. ASSUME NEW s \in Start..(End - 1), ds[s + 1].action = "ENTER_LONG"
        PROVE  \E e \in Completed(ds) : e.entry = s
    <2>1. s \in Nat /\ s \in 0..(n - 1) /\ s < S /\ s + 1 \in 1..n
      BY <1>1, <1>2
    <2>2. Held(ds, s) = Flat /\ ds[s + 1].position = s
      BY <1>1, <1>6, <2>1 DEF Settled, Choices
    <2>3. Held(ds, s + 1) = s
      BY <2>1, <2>2 DEF Held
    <2> DEFINE T == {x \in (s + 1)..S : Held(ds, x) = Flat}
    <2>4. T \in SUBSET Nat /\ S \in T
      BY <1>1, <1>2, <2>1
    <2>5. PICK x \in T : \A o \in T : x <= o
      BY <2>4, LeastSlot
    <2> DEFINE u == x - 1
    <2>6. x # s + 1
      BY <2>1, <2>3, <2>5 DEF Flat
    <2>7. x \in 1..n /\ u \in (s + 1)..(S - 1) /\ u \in 1..n /\ u \in 0..(n - 1) /\ u + 1 = x
      BY <1>1, <1>2, <2>1, <2>5, <2>6
    <2>8. \A w \in (s + 1)..u : Held(ds, w) # Flat
      BY <1>1, <1>2, <2>1, <2>5, <2>7
    <2>9. Held(ds, u) = s
      <3> DEFINE p == Held(ds, u)
      <3>1. p # Flat
        BY <2>7, <2>8
      <3>2. /\ p \in 0..(u - 1) /\ Held(ds, p) = Flat
            /\ \A w \in (p + 1)..(u - 1) : Held(ds, w) = p
        BY <1>4, <2>7, <3>1
      <3> HIDE DEF p, u
      <3>3. ~(p < s)
        BY <2>1, <2>2, <2>7, <3>1, <3>2
      <3>4. ~(s < p)
        BY <2>1, <2>7, <2>8, <3>2
      <3>5. p \in Nat
        BY <3>2
      <3>6. p = s
        BY <2>1, <3>3, <3>4, <3>5
      <3> QED BY <3>6 DEF p
    <2>10. ds[u + 1].action \in Exits
      <3>1. ds[u + 1].position = Flat
        BY <2>5, <2>7 DEF Held
      <3>2. <<ds[u + 1].action, ds[u + 1].position>> \in Choices(u, s) /\ s # Flat
        BY <1>1, <2>1, <2>7, <2>9 DEF Settled, Flat
      <3> HIDE DEF u
      <3> QED BY <3>1, <3>2 DEF Choices, Exits
    <2> DEFINE e == [entry |-> s, exit |-> u]
    <2>11. s \in InCohort(ds) /\ u \in InCohort(ds)
      BY <1>1, <1>2, <1>3, <2>1, <2>7
    <2>12. e \in Completed(ds)
      <3> HIDE DEF u
      <3> QED BY <2>9, <2>10, <2>11 DEF Completed
    <2> QED BY <2>12
  <1> QED BY <1>5, <1>6

\* Once the cohort is complete, reading more or less of the chain finds no other episode, and
\* whoever finds it complete finds that it stops in the same slot.
LEMMA SameEpisodes ==
    ASSUME NEW ds \in Seq(Decision), NEW n \in 0..Len(ds), NEW m \in 0..Len(ds),
           Complete(SubSeq(ds, 1, n))
    PROVE  /\ Completed(SubSeq(ds, 1, m)) \subseteq Completed(SubSeq(ds, 1, n))
           /\ Stop(SubSeq(ds, 1, m)) <= Stop(SubSeq(ds, 1, n))
  <1> DEFINE p == SubSeq(ds, 1, n)
             q == SubSeq(ds, 1, m)
  <1>1. /\ p \in Seq(Decision) /\ Len(p) = n /\ \A i \in 1..n : p[i] = ds[i]
        /\ \A s \in 0..n : Held(p, s) = Held(ds, s)
    BY PrefixFacts
  <1>2. /\ q \in Seq(Decision) /\ Len(q) = m /\ \A i \in 1..m : q[i] = ds[i]
        /\ \A s \in 0..m : Held(q, s) = Held(ds, s)
    BY PrefixFacts
  <1>0. Complete(p)
    OBVIOUS
  <1> HIDE DEF p, q
  <1>3. Stop(p) \in End..n /\ Held(p, Stop(p)) = Flat
    BY <1>0, <1>1, StopFacts DEF Complete, Required, Open
  <1>4. Stop(q) \in 0..m
    BY <1>2, StopIsLeast
  <1>5. Stop(q) <= Stop(p)
    <2>1. SUFFICES ASSUME Stop(p) < Stop(q) PROVE FALSE
      BY <1>3, <1>4
    <2>2. Stop(p) \in End..(m - 1) /\ Stop(p) \in 0..m /\ Stop(p) \in 0..n
      BY <1>3, <1>4, <2>1
    <2>3. Held(q, Stop(p)) = Flat
      BY <1>1, <1>2, <1>3, <2>2
    <2> QED BY <1>2, <2>1, <2>2, <2>3, StopIsLeast
  <1>6. InCohort(q) \subseteq InCohort(p) /\ InCohort(q) \subseteq (0..(m - 1)) \cap (0..(n - 1))
    BY <1>3, <1>4, <1>5 DEF InCohort
  <1>7. ASSUME NEW e \in Completed(q) PROVE e \in Completed(p)
    <2>1. /\ e \in [entry: InCohort(q), exit: InCohort(q)]
          /\ q[e.exit + 1].action \in Exits /\ Held(q, e.exit) = e.entry
      BY DEF Completed
    <2>2. e.exit \in 0..(m - 1) /\ e.exit \in 0..(n - 1)
      BY <1>6, <2>1
    <2>3. q[e.exit + 1] = p[e.exit + 1] /\ Held(q, e.exit) = Held(p, e.exit)
      BY <1>1, <1>2, <2>2
    <2>4. e \in [entry: InCohort(p), exit: InCohort(p)]
      BY <1>6, <2>1
    <2> QED BY <2>1, <2>3, <2>4 DEF Completed
  <1> QED BY <1>5, <1>7 DEF p, q

-----------------------------------------------------------------------------
(* What the runner leaves behind for each slot. *)

\* What a run is about to write: the next decision, then the line of the last one.
RunFits ==
    /\ runner.pc \in {"publish", "append"} =>
         /\ runner.candidate.slot = Len(chain)
         /\ <<runner.candidate.action, runner.candidate.position>>
              \in Choices(Len(chain), Held(chain, Len(chain)))
    /\ runner.outcome # "none" => runner.pc \in {"close", "report"}
    /\ runner.pc \in {"gate", "fetch"} \/ runner.outcome = "NOT_DUE" => runner.candidate = Nothing
    /\ runner.outcome = "RECORDED" => Len(chain) > 0 /\ runner.candidate = chain[Len(chain)]

\* A slot has its line once its decision is in the chain, and has none while the run that
\* appended it has still to print it.
LinesFit ==
    \A i \in DOMAIN stdout : stdout[i] \in Decision =>
        /\ stdout[i].slot < Len(chain)
        /\ runner.outcome = "RECORDED" => stdout[i].slot # Len(chain) - 1

RunnerFits == ChainFits(chain) /\ RunFits /\ LinesFit

\* A decision with exactly one bundle and exactly one line.
Proven(d) == OneBundle(d) /\ OneLine(d)

\* An idle process, and one that only passes what it has on.
LEMMA QuietFits ==
    ASSUME ForwardTypeOK, RunnerFits, UNCHANGED <<chain, stdout>>, RunFits',
           runner'.outcome = "RECORDED" => runner.outcome = "RECORDED"
    PROVE  RunnerFits'
  <1>1. ChainFits(chain)'
    BY DEF RunnerFits
  <1>2. LinesFit'
    BY DEF RunnerFits, LinesFit
  <1> QED BY <1>1, <1>2 DEF RunnerFits

LEMMA IdleFits ==
    ASSUME ForwardTypeOK, RunnerFits, UNCHANGED <<chain, stdout>>,
           runner' = Idle \/ runner' = [Idle EXCEPT !.pc = "gate"] \/ runner' = runner
    PROVE  RunnerFits'
  <1>1. CASE runner' = runner
    <2>1. RunFits'
      BY <1>1 DEF RunnerFits, RunFits, Held, Choices
    <2> QED BY <1>1, <2>1, QuietFits
  <1>2. CASE runner' = Idle \/ runner' = [Idle EXCEPT !.pc = "gate"]
    <2>1. runner'.pc \in {"idle", "gate"} /\ runner'.outcome = "none" /\ runner'.candidate = Nothing
      BY <1>2 DEF Idle
    <2>2. RunFits'
      BY <2>1 DEF RunFits
    <2> QED BY <2>1, <2>2, QuietFits
  <1> QED BY <1>1, <1>2

\* The runner's steps keep its chain lawful and its lines apart.
LEMMA RunnerKeepsFits ==
    ASSUME CInv, RunnerFits, (Tick \/ RunnerStep) \/ Restart
    PROVE  RunnerFits'
  <1>0. /\ ForwardTypeOK /\ chain \in Seq(Decision) /\ Len(chain) \in Nat /\ runner \in Processes
        /\ stdout \in Seq(Decision \cup {Nothing})
    BY TypeParts DEF CInv, ForwardTypeOK
  <1>1. CASE Tick
    BY <1>0, <1>1, IdleFits DEF Tick
  <1>2. CASE StartRunner
    BY <1>0, <1>2, IdleFits DEF StartRunner
  <1>3. CASE KillRunner
    BY <1>0, <1>3, IdleFits DEF KillRunner
  <1>4. CASE Restart
    BY <1>0, <1>4, IdleFits DEF Restart
  <1>5. CASE GateBlocked
    <2>1. /\ runner'.pc = "report" /\ runner'.outcome = "ERROR" /\ runner'.candidate = runner.candidate
          /\ UNCHANGED <<chain, stdout>>
      BY <1>0, <1>5 DEF GateBlocked, Processes
    <2>2. RunFits'
      BY <2>1 DEF RunFits
    <2> QED BY <1>0, <2>1, <2>2, QuietFits
  <1>6. CASE OpenGate
    <2>1. /\ runner.pc = "gate" /\ runner.outcome = "none" /\ runner.candidate = Nothing
          /\ UNCHANGED <<chain, stdout>>
      BY <1>6 DEF OpenGate, RunnerFits, RunFits
    <2>2. /\ runner'.candidate = Nothing
          /\ \/ runner'.pc = "close" /\ runner'.outcome \in {"NOT_DUE", "MISSED_SLOT"}
             \/ runner'.pc = "fetch" /\ runner'.outcome = "none"
      BY <1>0, <1>6, <2>1 DEF OpenGate, Processes
    <2>3. RunFits'
      BY <2>2 DEF RunFits
    <2> QED BY <1>0, <2>1, <2>2, <2>3, QuietFits
  <1>7. CASE Fetch
    <2>1. runner.pc = "fetch" /\ runner.outcome = "none" /\ UNCHANGED <<chain, stdout>>
      BY <1>7 DEF Fetch, RunnerFits, RunFits
    <2>2. runner'.outcome = "none" /\ runner'.pc = "publish"
      BY <1>0, <1>7, <2>1, CandidateIsDecision
    <2>3. PICK choice \in Choices(NextRequired, Held(chain, NextRequired)) :
            runner' = [runner EXCEPT
                          !.pc = "publish",
                          !.candidate = [slot |-> NextRequired, action |-> choice[1], position |-> choice[2],
                                         attempt |-> Cardinality({b \in bundles : b.slot = NextRequired})]]
      BY <1>7 DEF Fetch
    <2>4. runner'.candidate.slot = Len(chain) /\ runner'.candidate.action = choice[1]
          /\ runner'.candidate.position = choice[2]
      BY <1>0, <2>3 DEF Processes, NextRequired
    <2>5. choice = <<choice[1], choice[2]>>
      BY <2>3 DEF Choices
    <2>6. <<runner'.candidate.action, runner'.candidate.position>>
             \in Choices(Len(chain), Held(chain, Len(chain)))
      BY <2>3, <2>4, <2>5 DEF NextRequired
    <2>7. Choices(Len(chain), Held(chain, Len(chain)))' = Choices(Len(chain), Held(chain, Len(chain)))
      BY <2>1 DEF Choices, Held
    <2>8. RunFits'
      BY <2>1, <2>2, <2>4, <2>6, <2>7 DEF RunFits
    <2> QED BY <1>0, <2>1, <2>2, <2>8, QuietFits
  <1>8. CASE RunFails
    <2>1. /\ runner'.pc = "close" /\ runner'.outcome = "ERROR" /\ UNCHANGED <<chain, stdout>>
      BY <1>0, <1>8 DEF RunFails, Processes
    <2>2. RunFits'
      BY <2>1 DEF RunFits
    <2> QED BY <1>0, <2>1, <2>2, QuietFits
  <1>9. CASE PublishBundle
    <2>1. /\ runner.pc = "publish" /\ runner'.pc = "append" /\ UNCHANGED <<chain, stdout>>
          /\ runner'.outcome = runner.outcome /\ runner'.candidate = runner.candidate
      BY <1>0, <1>9 DEF PublishBundle, Processes
    <2>2. runner.outcome = "none"
      BY <2>1 DEF RunnerFits, RunFits
    <2>3. Choices(Len(chain), Held(chain, Len(chain)))' = Choices(Len(chain), Held(chain, Len(chain)))
      BY <2>1 DEF Choices, Held
    <2>4. RunFits'
      BY <2>1, <2>2, <2>3 DEF RunnerFits, RunFits
    <2> QED BY <1>0, <2>1, <2>2, <2>4, QuietFits
  <1>10. CASE CloseState
    <2>1. /\ runner.pc = "close" /\ runner'.pc = "report" /\ UNCHANGED <<chain, stdout>>
          /\ runner'.outcome = runner.outcome /\ runner'.candidate = runner.candidate
      BY <1>0, <1>10 DEF CloseState, Processes
    <2>2. RunFits'
      BY <2>1 DEF RunnerFits, RunFits
    <2> QED BY <1>0, <2>1, <2>2, QuietFits
  <1>11. CASE AppendDecision
    <2>1. /\ runner.candidate \in Decision /\ runner.candidate.slot = Len(chain)
          /\ <<runner.candidate.action, runner.candidate.position>> \in Choices(Len(chain), Held(chain, Len(chain)))
          /\ chain' = Append(chain, runner.candidate) /\ stdout' = stdout
      BY <1>0, <1>11 DEF AppendDecision, ForwardTypeOK, RunnerFits, RunFits
    <2>2. ChainFits(Append(chain, runner.candidate))
      BY <1>0, <2>1, AppendFits DEF RunnerFits
    <2>3. ChainFits(chain)'
      BY <2>1, <2>2
    <2>4. Len(chain') = Len(chain) + 1 /\ chain'[Len(chain')] = runner.candidate
      BY <1>0, <2>1, AppendProperties
    <2>5. runner'.pc = "close" /\ runner'.outcome = "RECORDED" /\ runner'.candidate = runner.candidate
      BY <1>0, <1>11 DEF AppendDecision, Processes
    <2>6. RunFits'
      BY <1>0, <2>4, <2>5 DEF RunFits
    <2>7. LinesFit'
      <3>1. ASSUME NEW i \in DOMAIN stdout, stdout[i] \in Decision
            PROVE  stdout[i].slot < Len(chain') /\ stdout[i].slot # Len(chain') - 1
        <4>1. stdout[i].slot < Len(chain) /\ stdout[i].slot \in Nat
          BY <3>1 DEF RunnerFits, LinesFit, Decision, Slots
        <4> QED BY <1>0, <2>4, <4>1
      <3> QED BY <2>1, <3>1 DEF LinesFit
    <2> QED BY <2>3, <2>6, <2>7 DEF RunnerFits
  <1>12. CASE Report
    <2>1. runner' = Idle /\ UNCHANGED chain
      BY <1>12 DEF Report
    <2>2. CASE UNCHANGED stdout
      BY <1>0, <2>1, <2>2, IdleFits
    <2>3. CASE runner.outcome \in {"RECORDED", "NOT_DUE"} /\ stdout' = Append(stdout, runner.candidate)
      <3>1. RunFits'
        BY <2>1 DEF Idle, RunFits
      <3>2. ChainFits(chain)'
        BY <2>1 DEF RunnerFits
      <3>3. /\ Len(stdout) \in Nat /\ DOMAIN stdout = 1..Len(stdout) /\ DOMAIN stdout' = 1..(Len(stdout) + 1)
            /\ \A i \in 1..Len(stdout) : stdout'[i] = stdout[i]
            /\ stdout'[Len(stdout) + 1] = runner.candidate
        <4>1. runner.candidate \in Decision \cup {Nothing}
          BY <1>0 DEF Processes
        <4> QED BY <1>0, <2>3, <4>1, AppendProperties
      <3>4. runner.candidate \in Decision => runner.candidate.slot < Len(chain)
        <4>1. CASE runner.outcome = "RECORDED"
          <5>1. Len(chain) > 0 /\ runner.candidate = chain[Len(chain)]
            BY <4>1 DEF RunnerFits, RunFits
          <5>2. Settled(chain, Len(chain) - 1)
            BY <1>0, <5>1 DEF RunnerFits, ChainFits
          <5> QED BY <1>0, <5>1, <5>2 DEF Settled
        <4>2. CASE runner.outcome = "NOT_DUE"
          <5>1. runner.candidate = Nothing
            BY <4>2 DEF RunnerFits, RunFits
          <5> QED BY <5>1 DEF Nothing, Decision, Actions, Exits
        <4> QED BY <2>3, <4>1, <4>2
      <3>5. LinesFit'
        <4>1. runner'.outcome = "none"
          BY <2>1 DEF Idle
        <4>2. ASSUME NEW i \in 1..(Len(stdout) + 1), stdout'[i] \in Decision
              PROVE  stdout'[i].slot < Len(chain)
          BY <3>3, <3>4, <4>2 DEF RunnerFits, LinesFit
        <4> QED BY <2>1, <3>3, <4>1, <4>2 DEF LinesFit
      <3> QED BY <3>1, <3>2, <3>5 DEF RunnerFits
    <2> QED BY <1>12, <2>2, <2>3 DEF Report
  <1> QED BY <1>1, <1>2, <1>3, <1>4, <1>5, <1>6, <1>7, <1>8, <1>9, <1>10, <1>11, <1>12 DEF RunnerStep

\* One more run changes nothing about a slot that has its bundle and its line: a later bundle is
\* of the next slot, and a line once printed is not printed again.
LEMMA ProvenStays ==
    ASSUME CInv, RunnerFits, (Tick \/ RunnerStep) \/ Restart,
           NEW d \in Decision, d.slot < Len(chain), OneBundle(d), OneLine(d)
    PROVE  OneBundle(d)' /\ OneLine(d)'
  <1>0. /\ ForwardTypeOK /\ chain \in Seq(Decision) /\ Len(chain) \in Nat /\ runner \in Processes
        /\ stdout \in Seq(Decision \cup {Nothing}) /\ d.slot \in Nat
    BY TypeParts DEF CInv, ForwardTypeOK, Decision, Slots
  <1>1. \/ bundles' = bundles
        \/ bundles' = bundles \cup {runner.candidate} /\ runner.candidate.slot = Len(chain)
    BY DEF Tick, RunnerStep, Restart, StartRunner, GateBlocked, OpenGate, Fetch, RunFails, PublishBundle,
           AppendDecision, CloseState, Report, KillRunner, RunnerFits, RunFits
  <1>2. \/ stdout' = stdout
        \/ stdout' = Append(stdout, runner.candidate) /\ runner.outcome \in {"RECORDED", "NOT_DUE"}
    BY DEF Tick, RunnerStep, Restart, StartRunner, GateBlocked, OpenGate, Fetch, RunFails, PublishBundle,
           AppendDecision, CloseState, Report, KillRunner
  <1>3. OneBundle(d)'
    BY <1>0, <1>1 DEF OneBundle
  <1>4. CASE stdout' = stdout
    BY <1>3, <1>4 DEF OneLine
  <1>5. CASE stdout' = Append(stdout, runner.candidate) /\ runner.outcome \in {"RECORDED", "NOT_DUE"}
    <2>1. runner.candidate # d
      <3>1. CASE runner.outcome = "NOT_DUE"
        <4>1. runner.candidate = Nothing
          BY <3>1 DEF RunnerFits, RunFits
        <4> QED BY <4>1 DEF Nothing, Decision, Actions, Exits
      <3>2. CASE runner.outcome = "RECORDED"
        <4>1. SUFFICES ASSUME runner.candidate = d PROVE FALSE
          OBVIOUS
        <4>2. Len(chain) > 0 /\ d = chain[Len(chain)]
          BY <3>2, <4>1 DEF RunnerFits, RunFits
        <4>3. Settled(chain, Len(chain) - 1)
          BY <1>0, <4>2 DEF RunnerFits, ChainFits
        <4>4. d.slot = Len(chain) - 1
          BY <1>0, <4>2, <4>3 DEF Settled
        <4>5. {i \in DOMAIN stdout : stdout[i] = d} = {}
          BY <3>2, <4>4 DEF RunnerFits, LinesFit
        <4> QED BY <4>5, FS_EmptySet DEF OneLine
      <3> QED BY <1>5, <3>1, <3>2
    <2>2. /\ Len(stdout) \in Nat /\ DOMAIN stdout = 1..Len(stdout) /\ DOMAIN stdout' = 1..(Len(stdout) + 1)
          /\ \A i \in 1..Len(stdout) : stdout'[i] = stdout[i]
          /\ stdout'[Len(stdout) + 1] = runner.candidate
      <3>1. runner.candidate \in Decision \cup {Nothing}
        BY <1>0 DEF Processes
      <3> QED BY <1>0, <1>5, <3>1, AppendProperties
    <2>3. {i \in DOMAIN stdout' : stdout'[i] = d} = {i \in DOMAIN stdout : stdout[i] = d}
      BY <2>1, <2>2
    <2> QED BY <1>3, <2>3 DEF OneLine
  <1> QED BY <1>2, <1>4, <1>5

\* What is in the chain stays where it is.
LEMMA ChainStays ==
    ASSUME CInv, (Tick \/ RunnerStep) \/ Restart
    PROVE  /\ Len(chain) \in Nat /\ Len(chain') \in Nat /\ Len(chain) <= Len(chain')
           /\ \A n \in 0..Len(chain) : SubSeq(chain', 1, n) = SubSeq(chain, 1, n)
           /\ \A s \in 0..(Len(chain) - 1) : chain'[s + 1] = chain[s + 1]
  <1>0. chain \in Seq(Decision) /\ Len(chain) \in Nat
    BY TypeParts DEF CInv, ForwardTypeOK
  <1>1. CASE chain' = chain
    BY <1>0, <1>1
  <1>2. ASSUME NEW d \in Decision, chain' = Append(chain, d)
        PROVE  /\ Len(chain') \in Nat /\ Len(chain) <= Len(chain')
               /\ \A n \in 0..Len(chain) : SubSeq(chain', 1, n) = SubSeq(chain, 1, n)
               /\ \A s \in 0..(Len(chain) - 1) : chain'[s + 1] = chain[s + 1]
    <2>1. Len(chain') = Len(chain) + 1 /\ \A i \in 1..Len(chain) : chain'[i] = chain[i]
      BY <1>0, <1>2, AppendProperties
    <2>2. \A n \in 0..Len(chain) : SubSeq(chain', 1, n) = SubSeq(chain, 1, n)
      BY <1>0, <1>2, AppendProperties
    <2> QED BY <1>0, <2>1, <2>2
  <1> QED BY <1>0, <1>1, <1>2, ChainSteps

\* Once every slot of what was read has its evidence, it keeps it.
LEMMA EvidencedStays ==
    ASSUME CInv, RunnerFits, (Tick \/ RunnerStep) \/ Restart,
           NEW n \in 0..Len(chain), NEW ds, ds = Read(n), Evidenced(ds)
    PROVE  Evidenced(ds)' /\ Read(n)' = ds
  <1>0. chain \in Seq(Decision) /\ Len(chain) \in Nat
    BY TypeParts DEF CInv, ForwardTypeOK
  <1>1. /\ ds \in Seq(Decision) /\ Len(ds) = n /\ \A i \in 1..n : ds[i] = chain[i]
        /\ Stop(ds) \in 0..n
    BY <1>0, PrefixFacts, StopIsLeast DEF Read
  <1>2. ASSUME NEW s \in InCohort(ds) PROVE OneBundle(ds[s + 1])' /\ OneLine(ds[s + 1])'
    <2>1. s \in 0..(n - 1) /\ s \in 0..(Len(chain) - 1) /\ s + 1 \in 1..n
      BY <1>0, <1>1 DEF InCohort
    <2>2. ds[s + 1] = chain[s + 1] /\ ds[s + 1] \in Decision
      BY <1>0, <1>1, <2>1
    <2>3. ds[s + 1].slot < Len(chain)
      <3>1. Settled(chain, s)
        BY <2>1 DEF RunnerFits, ChainFits
      <3>2. chain[s + 1].slot = s
        BY <3>1 DEF Settled
      <3> QED BY <1>0, <2>1, <2>2, <3>2
    <2>4. OneBundle(ds[s + 1]) /\ OneLine(ds[s + 1])
      BY DEF Evidenced
    <2>5. PICK d : d = ds[s + 1]
      OBVIOUS
    <2> QED BY <2>2, <2>3, <2>4, <2>5, ProvenStays
  <1>3. Evidenced(ds)'
    BY <1>2 DEF Evidenced
  <1>4. Read(n)' = ds
    BY ChainStays DEF Read
  <1> QED BY <1>3, <1>4

-----------------------------------------------------------------------------
(* What the tools published. *)

\* What a tool has looked at stays so until it publishes.
WatchFits ==
    \A t \in Watchers : watch[t].pc \in {"service", "publish"} => Evidenced(Read(watch[t].read))

\* A receipt holds the chain up to the exit of its episode, and each of its slots has its evidence.
ReceiptFits(r) ==
    /\ r = [episode |-> r.episode, prefix |-> Read(r.episode.exit + 1)]
    /\ r.episode.exit \in 0..(Len(chain) - 1)
    /\ \A s \in Start..r.episode.exit : Proven(chain[s + 1])

ReceiptsFit ==
    /\ \A r \in receipts : ReceiptFits(r)
    /\ IsFiniteSet(receipts) /\ IsFiniteSet(Receipted)
    /\ Cardinality(receipts) = Cardinality(Receipted)

\* Once there is an evaluation nothing it speaks of is added to.
EvaluationFits(v) ==
    /\ v.chain \in 0..Len(chain) /\ Complete(Read(v.chain))
    /\ v.slots = Stop(Read(v.chain)) /\ v.episodes = Completed(Read(v.chain))
    /\ v.episodes = Receipted
    /\ economics.results = Cardinality(receipts) /\ economics.indexes = Cardinality(receipts)

EvaluationsFit == \A v \in evaluations : EvaluationFits(v)

\* The inductive invariant of the evidence.
EInv == RunnerFits /\ WatchFits /\ ReceiptsFit /\ EvaluationsFit

LEMMA InitEInv == Init => EInv
  <1> SUFFICES ASSUME Init PROVE EInv
    OBVIOUS
  <1>1. Len(chain) = 0 /\ stdout = <<>> /\ runner = Idle
    BY DEF Init, ForwardInit
  <1>2. RunFits
    BY <1>1 DEF RunFits, Idle
  <1>3. LinesFit /\ ChainFits(chain)
    BY <1>1 DEF LinesFit, ChainFits
  <1>4. WatchFits
    BY DEF Init, WatchFits, Off
  <1>5. receipts = {} /\ evaluations = {}
    BY DEF Init
  <1>6. Receipted = {}
    BY <1>5 DEF Receipted
  <1>7. ReceiptsFit
    BY <1>5, <1>6, FS_EmptySet DEF ReceiptsFit
  <1>8. EvaluationsFit
    BY <1>5 DEF EvaluationsFit
  <1> QED BY <1>2, <1>3, <1>4, <1>7, <1>8 DEF EInv, RunnerFits

\* What is read and shown stays so while the files do.
LEMMA WatchFrame ==
    ASSUME UNCHANGED <<chain, bundles, stdout>>,
           \A t \in Watchers : watch'[t].pc \in {"service", "publish"} => Evidenced(Read(watch'[t].read))
    PROVE  WatchFits'
  <1>1. ASSUME NEW t \in Watchers, watch'[t].pc \in {"service", "publish"}
        PROVE  Evidenced(Read(watch[t].read))'
    <2>1. PICK n : n = watch'[t].read
      OBVIOUS
    <2>2. PICK ds : ds = Read(n)
      OBVIOUS
    <2>3. Evidenced(ds)
      BY <1>1, <2>1, <2>2
    <2>4. Evidenced(ds)'
      BY <2>3 DEF Evidenced, OneBundle, OneLine
    <2>5. Read(watch[t].read)' = ds
      BY <2>1, <2>2 DEF Read
    <2> QED BY <2>4, <2>5 DEF Evidenced
  <1> QED BY <1>1 DEF WatchFits

\* What a receipt says stays so while the files do.
LEMMA ReceiptFrame ==
    ASSUME UNCHANGED <<chain, bundles, stdout>>
    PROVE  \A r : ReceiptFits(r) => ReceiptFits(r)'
  BY DEF ReceiptFits, Read, Proven, OneBundle, OneLine

\* A step that leaves the chain, the bundles, the lines and what was published as they are.
LEMMA FrameEInv ==
    ASSUME CInv, EInv, UNCHANGED <<chain, bundles, stdout, receipts, economics, evaluations>>,
           runner' = Idle \/ runner' = runner, WatchFits'
    PROVE  EInv'
  <1>1. RunnerFits'
    BY IdleFits, TypeParts DEF CInv, EInv
  <1>2. ReceiptsFit'
    <2>1. Receipted' = Receipted
      BY DEF Receipted
    <2>2. \A r \in receipts : ReceiptFits(r) => ReceiptFits(r)'
      BY ReceiptFrame
    <2> QED BY <2>1, <2>2 DEF EInv, ReceiptsFit
  <1>3. EvaluationsFit'
    BY DEF EInv, EvaluationsFit, EvaluationFits, Read, Receipted
  <1> QED BY <1>1, <1>2, <1>3 DEF EInv

\* No step of the runner, no tick and no restart of the machine spoils what was published.
LEMMA ForwardEInv ==
    ASSUME CInv, EInv, (Tick \/ RunnerStep) \/ Restart, UNCHANGED <<receipts, economics, evaluations>>,
           watch' = watch \/ watch' = [t \in Watchers |-> Off]
    PROVE  EInv'
  <1>0. chain \in Seq(Decision) /\ Len(chain) \in Nat /\ ToolsFit
    BY TypeParts DEF CInv, ForwardTypeOK
  <1>1. RunnerFits' /\ RunnerFits
    BY RunnerKeepsFits DEF EInv
  <1>2. /\ Len(chain') \in Nat /\ Len(chain) <= Len(chain')
        /\ \A n \in 0..Len(chain) : SubSeq(chain', 1, n) = SubSeq(chain, 1, n)
        /\ \A s \in 0..(Len(chain) - 1) : chain'[s + 1] = chain[s + 1]
    BY ChainStays
  <1>3. WatchFits'
    <2>1. CASE watch' = [t \in Watchers |-> Off]
      BY <2>1 DEF WatchFits, Off
    <2>2. CASE watch' = watch
      <3>1. ASSUME NEW t \in Watchers, watch[t].pc \in {"service", "publish"}
            PROVE  Evidenced(Read(watch[t].read))'
        <4>1. watch[t].read \in 0..Len(chain) /\ Evidenced(Read(watch[t].read))
          BY <1>0, <3>1 DEF EInv, WatchFits, ToolsFit, Watches
        <4>2. PICK n \in 0..Len(chain) : n = watch[t].read
          BY <4>1
        <4>3. PICK ds : ds = Read(n)
          OBVIOUS
        <4>4. Evidenced(ds)' /\ Read(n)' = ds
          BY <1>1, <4>1, <4>2, <4>3, EvidencedStays
        <4>5. Read(watch[t].read)' = ds
          BY <2>2, <4>2, <4>4 DEF Read
        <4> QED BY <4>4, <4>5 DEF Evidenced
      <3> QED BY <2>2, <3>1 DEF WatchFits
    <2> QED BY <2>1, <2>2
  <1>4. ReceiptsFit'
    <2>1. Receipted' = Receipted
      BY DEF Receipted
    <2>2. ASSUME NEW r \in receipts PROVE ReceiptFits(r)'
      <3>1. ReceiptFits(r)
        BY DEF EInv, ReceiptsFit
      <3>2. r.episode.exit \in 0..(Len(chain) - 1) /\ r.episode.exit + 1 \in 0..Len(chain)
        BY <1>0, <3>1 DEF ReceiptFits
      <3>3. Read(r.episode.exit + 1)' = Read(r.episode.exit + 1)
        BY <1>2, <3>2 DEF Read
      <3>4. ASSUME NEW s \in Start..r.episode.exit PROVE Proven(chain[s + 1])'
        <4>1. s \in 0..(Len(chain) - 1) /\ s + 1 \in 1..Len(chain)
          BY <1>0, <3>2
        <4>2. PICK d \in Decision : d = chain[s + 1]
          BY <1>0, <4>1
        <4>3. Settled(chain, s)
          BY <1>0, <1>1, <4>1 DEF RunnerFits, ChainFits
        <4>4. d.slot < Len(chain)
          BY <1>0, <4>1, <4>2, <4>3 DEF Settled
        <4>5. OneBundle(d) /\ OneLine(d)
          BY <3>1, <4>2 DEF ReceiptFits, Proven
        <4>6. OneBundle(d)' /\ OneLine(d)'
          BY <1>1, <4>4, <4>5, ProvenStays
        <4>7. chain'[s + 1] = d
          BY <1>2, <4>1, <4>2
        <4> QED BY <4>6, <4>7 DEF Proven, OneBundle, OneLine
      <3>5. r.episode.exit \in 0..(Len(chain') - 1)
        BY <1>0, <1>2, <3>2
      <3> QED BY <3>1, <3>3, <3>4, <3>5 DEF ReceiptFits
    <2> QED BY <2>1, <2>2 DEF EInv, ReceiptsFit
  <1>5. EvaluationsFit'
    <2>1. ASSUME NEW v \in evaluations PROVE EvaluationFits(v)'
      <3>1. EvaluationFits(v) /\ v.chain \in 0..Len(chain)
        BY DEF EInv, EvaluationsFit, EvaluationFits
      <3>2. PICK n \in 0..Len(chain) : n = v.chain
        BY <3>1
      <3>3. Read(v.chain)' = Read(v.chain) /\ v.chain \in 0..Len(chain')
        BY <1>0, <1>2, <3>2 DEF Read
      <3>4. PICK ds : ds = Read(v.chain)
        OBVIOUS
      <3>5. Receipted' = Receipted
        BY DEF Receipted
      <3> QED BY <3>1, <3>3, <3>4, <3>5 DEF EvaluationFits
    <2> QED BY <2>1 DEF EvaluationsFit
  <1> QED BY <1>1, <1>3, <1>4, <1>5 DEF EInv

\* A receipt is published of an episode whose every slot the maintenance has checked; after an
\* evaluation there is none left to publish.
LEMMA ReceiptEInv ==
    ASSUME CInv, EInv, PublishReceipt
    PROVE  EInv'
  <1>0. chain \in Seq(Decision) /\ Len(chain) \in Nat /\ ToolsFit /\ ForwardTypeOK
    BY TypeParts DEF CInv, ForwardTypeOK
  <1>1. /\ UNCHANGED <<chain, bundles, stdout, runner, watch, economics, evaluations>>
        /\ watch["maintenance"].pc = "publish"
    BY DEF PublishReceipt, forwardVars
  <1>2. PICK n \in 0..Len(chain) : n = watch["maintenance"].read
    BY <1>0 DEF ToolsFit, Watches, Watchers
  <1>3. PICK ds : ds = Read(n)
    OBVIOUS
  <1>4. PICK e \in Completed(ds) \ Receipted :
          receipts' = receipts \cup {[episode |-> e, prefix |-> SubSeq(ds, 1, e.exit + 1)]}
    BY <1>2, <1>3 DEF PublishReceipt
  <1> DEFINE new == [episode |-> e, prefix |-> SubSeq(ds, 1, e.exit + 1)]
  <1>5. Evidenced(ds)
    BY <1>1, <1>2, <1>3 DEF EInv, WatchFits, Watchers
  <1>6. ds \in Seq(Decision) /\ Len(ds) = n /\ Stop(ds) \in 0..n /\ \A i \in 1..n : ds[i] = chain[i]
    BY <1>0, <1>3, PrefixFacts, StopIsLeast DEF Read
  <1>7. e.exit \in Start..(Stop(ds) - 1)
    BY <1>4 DEF Completed, InCohort
  <1>8. SubSeq(ds, 1, e.exit + 1) = SubSeq(chain, 1, e.exit + 1)
    <2> DEFINE k == e.exit + 1
    <2>1. k \in 0..n /\ k \in 0..Len(chain)
      BY <1>0, <1>6, <1>7
    <2> HIDE DEF k
    <2>2. /\ Len(SubSeq(ds, 1, k)) = k /\ \A i \in 1..k : SubSeq(ds, 1, k)[i] = ds[i]
          /\ SubSeq(ds, 1, k) \in Seq(Decision)
      BY <1>6, <2>1, PrefixFacts
    <2>3. /\ Len(SubSeq(chain, 1, k)) = k /\ \A i \in 1..k : SubSeq(chain, 1, k)[i] = chain[i]
          /\ SubSeq(chain, 1, k) \in Seq(Decision)
      BY <1>0, <2>1, PrefixFacts
    <2>4. \A i \in 1..k : SubSeq(ds, 1, k)[i] = SubSeq(chain, 1, k)[i]
      BY <1>6, <2>1, <2>2, <2>3
    <2>5. SubSeq(ds, 1, k) = SubSeq(chain, 1, k)
      BY <2>2, <2>3, <2>4, SeqEqual
    <2> QED BY <2>5 DEF k
  <1>9. ReceiptFits(new)
    <2>1. ASSUME NEW s \in Start..e.exit PROVE Proven(chain[s + 1])
      <3>1. s \in InCohort(ds) /\ s + 1 \in 1..n
        BY <1>6, <1>7 DEF InCohort
      <3>2. OneBundle(ds[s + 1]) /\ OneLine(ds[s + 1]) /\ ds[s + 1] = chain[s + 1]
        BY <1>5, <1>6, <3>1 DEF Evidenced
      <3> QED BY <3>2 DEF Proven
    <2>2. e.exit \in 0..(Len(chain) - 1)
      BY <1>0, <1>6, <1>7
    <2> QED BY <1>8, <2>1, <2>2 DEF ReceiptFits, Read
  <1>10. evaluations = {}
    <2>1. SUFFICES ASSUME NEW v \in evaluations PROVE FALSE
      OBVIOUS
    <2>2. /\ v.chain \in 0..Len(chain) /\ Complete(Read(v.chain))
          /\ Completed(Read(v.chain)) = Receipted
      BY DEF EInv, EvaluationsFit, EvaluationFits
    <2>3. Completed(ds) \subseteq Completed(Read(v.chain))
      BY <1>0, <1>3, <2>2, SameEpisodes DEF Read
    <2> QED BY <1>4, <2>2, <2>3
  <1>11. ReceiptsFit'
    <2>1. \A r \in receipts : ReceiptFits(r)
      BY DEF EInv, ReceiptsFit
    <2>2. \A r \in receipts' : ReceiptFits(r)
      BY <1>4, <1>9, <2>1
    <2>3. \A r : ReceiptFits(r) => ReceiptFits(r)'
      BY <1>1, ReceiptFrame
    <2>4. Receipted' = Receipted \cup {e}
      <3>1. new.episode = e /\ receipts' = receipts \cup {new}
        BY <1>4
      <3> HIDE DEF new
      <3> QED BY <3>1 DEF Receipted
    <2>5. new \notin receipts /\ e \notin Receipted
      BY <1>4 DEF Receipted
    <2>6. IsFiniteSet(receipts) /\ IsFiniteSet(Receipted) /\ Cardinality(receipts) = Cardinality(Receipted)
      BY DEF EInv, ReceiptsFit
    <2>7. IsFiniteSet(receipts') /\ Cardinality(receipts') = Cardinality(receipts) + 1
      BY <1>4, <2>5, <2>6, FS_AddElement
    <2>8. IsFiniteSet(Receipted') /\ Cardinality(Receipted') = Cardinality(Receipted) + 1
      BY <2>4, <2>5, <2>6, FS_AddElement
    <2> QED BY <2>2, <2>3, <2>6, <2>7, <2>8 DEF ReceiptsFit
  <1>12. RunnerFits'
    BY <1>0, <1>1, IdleFits DEF EInv
  <1>13. WatchFits'
    BY <1>1, WatchFrame DEF EInv, WatchFits
  <1>14. EvaluationsFit'
    BY <1>1, <1>10 DEF EvaluationsFit
  <1> QED BY <1>11, <1>12, <1>13, <1>14 DEF EInv

\* Every other step of the maintenance and of the evaluator.
LEMMA WatchEInv ==
    ASSUME CInv, EInv, Maintenance
    PROVE  EInv'
  <1>0. /\ chain \in Seq(Decision) /\ Len(chain) \in Nat /\ ToolsFit /\ ForwardTypeOK
        /\ watch \in [Watchers -> Watches]
    BY TypeParts DEF CInv, ForwardTypeOK, ToolsFit
  <1>1. UNCHANGED <<chain, bundles, stdout, runner, checkpointed>>
    BY WatchStep DEF CInv, forwardVars
  <1>2. ASSUME NEW t \in Watchers,
               UNCHANGED <<receipts, economics, evaluations>>,
               \E w : /\ watch' = [watch EXCEPT ![t] = w]
                      /\ w.pc \in {"service", "publish"} => Evidenced(Read(w.read))
        PROVE  EInv'
    <2>1. PICK w : /\ watch' = [watch EXCEPT ![t] = w]
                   /\ w.pc \in {"service", "publish"} => Evidenced(Read(w.read))
      BY <1>2
    <2>2. \A u \in Watchers : watch'[u] = IF u = t THEN w ELSE watch[u]
      BY <1>0, <2>1
    <2>3. \A u \in Watchers : watch'[u].pc \in {"service", "publish"} => Evidenced(Read(watch'[u].read))
      BY <2>1, <2>2 DEF EInv, WatchFits
    <2>4. WatchFits'
      BY <1>1, <2>3, WatchFrame
    <2> QED BY <1>1, <1>2, <2>4, FrameEInv
  <1>3. ASSUME NEW t \in Watchers, Observe(t) PROVE EInv'
    <2>1. UNCHANGED <<receipts, economics, evaluations>>
          /\ watch' = [watch EXCEPT ![t] = [pc |-> "evidence", read |-> checkpointed]]
      BY <1>3 DEF Observe
    <2>2. [pc |-> "evidence", read |-> checkpointed].pc \notin {"service", "publish"}
      OBVIOUS
    <2>3. \E w : watch' = [watch EXCEPT ![t] = w] /\ w.pc \notin {"service", "publish"}
      BY <2>1, <2>2
    <2> QED BY <1>2, <2>1, <2>3
  <1>4. ASSUME NEW t \in Watchers, CheckEvidence(t) PROVE EInv'
    <2>1. UNCHANGED <<receipts, economics, evaluations>> /\ Evidenced(Read(watch[t].read))
          /\ watch' = [watch EXCEPT ![t] = [watch[t] EXCEPT !.pc = "service"]]
      BY <1>4 DEF CheckEvidence
    <2>2. [watch[t] EXCEPT !.pc = "service"].read = watch[t].read
      BY <1>0 DEF Watches
    <2> QED BY <1>2, <2>1, <2>2
  <1>5. ASSUME NEW t \in Watchers, CheckService(t) PROVE EInv'
    <2>1. UNCHANGED <<receipts, economics, evaluations>> /\ watch[t].pc = "service"
          /\ watch' = [watch EXCEPT ![t] = [watch[t] EXCEPT !.pc = "publish"]]
      BY <1>5 DEF CheckService
    <2>2. [watch[t] EXCEPT !.pc = "publish"].read = watch[t].read
      BY <1>0 DEF Watches
    <2>3. Evidenced(Read(watch[t].read))
      BY <2>1 DEF EInv, WatchFits
    <2> QED BY <1>2, <2>1, <2>2, <2>3
  <1>6. ASSUME NEW t \in Watchers, Leave(t) PROVE EInv'
    <2>1. UNCHANGED <<receipts, economics, evaluations>> /\ watch' = [watch EXCEPT ![t] = Off]
      BY <1>6 DEF Leave
    <2>2. Off.pc \notin {"service", "publish"}
      BY DEF Off
    <2>3. \E w : watch' = [watch EXCEPT ![t] = w] /\ w.pc \notin {"service", "publish"}
      BY <2>1, <2>2
    <2> QED BY <1>2, <2>1, <2>3
  <1>7. CASE PublishResult
    <2>1. UNCHANGED <<receipts, evaluations, watch>>
      BY <1>7 DEF PublishResult
    <2>2. \/ economics.results = economics.indexes /\ economics.results < Cardinality(receipts)
          \/ economics.indexes < economics.results
      BY <1>7 DEF PublishResult
    <2>3. economics.results \in Nat /\ economics.indexes \in Nat
      BY <1>0 DEF ToolsFit
    <2>4. Cardinality(receipts) \in Nat
      BY FS_CardinalityType DEF EInv, ReceiptsFit
    <2>5. evaluations = {}
      BY <2>2, <2>3, <2>4 DEF EInv, EvaluationsFit, EvaluationFits
    <2>6. RunnerFits'
      BY <1>0, <1>1, IdleFits DEF EInv
    <2>7. WatchFits'
      BY <1>1, <2>1, WatchFrame DEF EInv, WatchFits
    <2>8. ReceiptsFit'
      <3>1. Receipted' = Receipted
        BY <2>1 DEF Receipted
      <3>2. \A r \in receipts : ReceiptFits(r) => ReceiptFits(r)'
        BY <1>1, ReceiptFrame
      <3> QED BY <2>1, <3>1, <3>2 DEF EInv, ReceiptsFit
    <2> QED BY <2>1, <2>5, <2>6, <2>7, <2>8 DEF EInv, EvaluationsFit
  <1>8. CASE Evaluate
    <2>1. PICK n \in 0..Len(chain) : n = watch["evaluator"].read
      BY <1>0 DEF Watches, Watchers
    <2>2. PICK ds : ds = Read(n)
      OBVIOUS
    <2> DEFINE new == [episodes |-> Completed(ds), slots |-> Stop(ds), chain |-> Len(ds)]
    <2>3. /\ UNCHANGED <<receipts, economics>> /\ evaluations' = evaluations \cup {new}
          /\ watch' = [watch EXCEPT !["evaluator"] = Off]
          /\ Complete(ds) /\ Completed(ds) = Receipted
          /\ economics = [results |-> Cardinality(receipts), indexes |-> Cardinality(receipts)]
      BY <1>8, <2>1, <2>2 DEF Evaluate
    <2>4. Len(ds) = n
      BY <1>0, <2>2, PrefixFacts DEF Read
    <2>5. EvaluationFits(new)
      BY <2>2, <2>3, <2>4 DEF EvaluationFits
    <2>6. \A v \in evaluations' : EvaluationFits(v)
      BY <2>3, <2>5 DEF EInv, EvaluationsFit
    <2>7. EvaluationsFit'
      BY <1>1, <2>3, <2>6 DEF EvaluationsFit, EvaluationFits, Read, Receipted
    <2>8. \A u \in Watchers : watch'[u] = IF u = "evaluator" THEN Off ELSE watch[u]
      BY <1>0, <2>3
    <2>9. WatchFits'
      BY <1>1, <2>8, WatchFrame DEF EInv, WatchFits, Off
    <2>10. RunnerFits'
      BY <1>0, <1>1, IdleFits DEF EInv
    <2>11. ReceiptsFit'
      <3>1. Receipted' = Receipted
        BY <2>3 DEF Receipted
      <3>2. \A r \in receipts : ReceiptFits(r) => ReceiptFits(r)'
        BY <1>1, ReceiptFrame
      <3> QED BY <2>3, <3>1, <3>2 DEF EInv, ReceiptsFit
    <2> QED BY <2>7, <2>9, <2>10, <2>11 DEF EInv
  <1> QED BY <1>3, <1>4, <1>5, <1>6, <1>7, <1>8, ReceiptEInv DEF Maintenance

LEMMA NextEInv == CInv /\ EInv /\ [Next]_vars => EInv'
  <1> SUFFICES ASSUME CInv, EInv, [Next]_vars PROVE EInv'
    OBVIOUS
  <1>1. ASSUME UNCHANGED <<chain, bundles, stdout, watch, receipts, economics, evaluations>>,
               runner' = runner \/ runner' = Idle
        PROVE  EInv'
    <2>1. WatchFits'
      BY <1>1, WatchFrame DEF EInv, WatchFits
    <2> QED BY <1>1, <2>1, FrameEInv
  <1>2. CASE UNCHANGED vars
    BY <1>1, <1>2 DEF vars, forwardVars, cohortVars
  <1>3. CASE (Tick \/ RunnerStep) /\ UNCHANGED cohortVars
    BY <1>3, ForwardEInv DEF cohortVars
  <1>4. CASE RestartMachine
    BY <1>4, ForwardEInv DEF RestartMachine
  <1>5. CASE Audit
    BY <1>1, <1>5 DEF Audit, BeginAudit, AuditState, AuditEvidence, AuditService, AuditCompare, PublishFailure,
                      AbandonAudit, AuditStep, forwardVars
  <1>6. CASE Removal
    <2>1. /\ UNCHANGED <<chain, bundles, stdout, watch, receipts, economics, evaluations>>
          /\ runner' = runner \/ runner' = Idle
      BY <1>6 DEF Removal, LoadFailure, CheckBefore, BootOut, CheckAfter, PublishDecommission, PublishForensics,
                  AbandonRemoval, RemovalStep, forwardVars
    <2> QED BY <1>1, <2>1
  <1> QED BY <1>2, <1>3, <1>4, <1>5, <1>6, WatchEInv DEF Next

LEMMA AlwaysEInv == Spec => [](CInv /\ EInv)
  <1>1. Init => CInv /\ EInv
    BY InitCInv, InitEInv
  <1>2. CInv /\ EInv /\ [Next]_vars => (CInv /\ EInv)'
    BY NextCInv, NextEInv
  <1> QED BY <1>1, <1>2, PTL DEF Spec

\* Whatever the closes say, the cohort's partition accepts every chain that the runner's rule can
\* build, unless an episode was open when the cohort began: the two readings of an episode agree.
THEOREM ChainsAreAccepted == Spec => []RunnerChainsAreAccepted
  <1>1. CInv /\ EInv => RunnerChainsAreAccepted
    BY RunnerChain, TypeParts DEF CInv, ForwardTypeOK, EInv, RunnerFits, RunnerChainsAreAccepted
  <1> QED BY <1>1, AlwaysEInv, PTL

\* After an episode receipt no run, no kill and no restart makes its files say anything else: the
\* chain keeps its prefix, and each slot its one bundle and its one line.
THEOREM EpisodeEvidenceIsKept == Spec => []EpisodeEvidenceStays
  <1>1. CInv /\ EInv => EpisodeEvidenceStays
    <2> SUFFICES ASSUME CInv, EInv, NEW r \in receipts
                 PROVE  /\ r.prefix = SubSeq(chain, 1, Len(r.prefix))
                        /\ \A s \in Start..r.episode.exit : OneBundle(r.prefix[s + 1]) /\ OneLine(r.prefix[s + 1])
      BY DEF EpisodeEvidenceStays
    <2>0. chain \in Seq(Decision) /\ Len(chain) \in Nat
      BY TypeParts DEF CInv, ForwardTypeOK
    <2> DEFINE x == r.episode.exit
    <2>1. /\ r.prefix = SubSeq(chain, 1, x + 1) /\ x \in 0..(Len(chain) - 1)
          /\ \A s \in Start..x : Proven(chain[s + 1])
      BY DEF EInv, ReceiptsFit, ReceiptFits, Read
    <2>2. x + 1 \in 0..Len(chain)
      BY <2>0, <2>1
    <2>3. Len(r.prefix) = x + 1 /\ \A i \in 1..(x + 1) : r.prefix[i] = chain[i]
      BY <2>0, <2>1, <2>2, PrefixFacts
    <2> HIDE DEF x
    <2>4. ASSUME NEW s \in Start..x PROVE OneBundle(r.prefix[s + 1]) /\ OneLine(r.prefix[s + 1])
      <3>1. r.prefix[s + 1] = chain[s + 1]
        BY <2>1, <2>3
      <3> QED BY <2>1, <3>1 DEF Proven
    <2> QED BY <2>1, <2>3, <2>4 DEF x
  <1> QED BY <1>1, AlwaysEInv, PTL

\* An evaluation speaks of the whole window: every entry in it with its exit, its receipt, its
\* result and its index; and it is the only thing an evaluation of this cohort can ever say.
THEOREM EvaluationsAreWhole == Spec => []EvaluationIsWhole
  <1>1. CInv /\ EInv => EvaluationIsWhole
    <2> SUFFICES ASSUME CInv, EInv, NEW v \in evaluations
                 PROVE  /\ v.slots >= End
                        /\ {e.entry : e \in v.episodes}
                             = {s \in Start..(End - 1) : chain[s + 1].action = "ENTER_LONG"}
                        /\ v.episodes = Receipted
                        /\ economics.indexes = Cardinality(v.episodes)
                        /\ \A w \in evaluations : w.episodes = v.episodes /\ w.slots = v.slots
      BY DEF EvaluationIsWhole
    <2>0. chain \in Seq(Decision) /\ Len(chain) \in Nat /\ ChainFits(chain)
      BY TypeParts DEF CInv, ForwardTypeOK, EInv, RunnerFits
    <2>1. \A w \in evaluations : EvaluationFits(w)
      BY DEF EInv, EvaluationsFit
    <2>2. PICK n \in 0..Len(chain) : n = v.chain
      BY <2>1 DEF EvaluationFits
    <2>3. PICK ds : ds = SubSeq(chain, 1, n)
      OBVIOUS
    <2>4. Complete(ds) /\ v.slots = Stop(ds) /\ v.episodes = Completed(ds) /\ v.episodes = Receipted
      BY <2>1, <2>2, <2>3 DEF EvaluationFits, Read
    <2>5. ds \in Seq(Decision) /\ Len(ds) = n /\ \A i \in 1..n : ds[i] = chain[i]
      BY <2>0, <2>3, PrefixFacts
    <2>6. ChainFits(ds)
      BY <2>0, <2>3, PrefixFits
    <2>7. Stop(ds) \in End..n
      BY <2>4, <2>5, StopFacts DEF Complete, Required, Open
    <2>8. {e.entry : e \in v.episodes} = {s \in Start..(End - 1) : chain[s + 1].action = "ENTER_LONG"}
      <3>1. {e.entry : e \in Completed(ds)} = {s \in Start..(End - 1) : ds[s + 1].action = "ENTER_LONG"}
        BY <2>4, <2>5, <2>6, Episodes
      <3>2. \A s \in Start..(End - 1) : ds[s + 1] = chain[s + 1]
        BY <2>5, <2>7
      <3> QED BY <2>4, <3>1, <3>2
    <2>9. economics.indexes = Cardinality(v.episodes)
      BY <2>1, <2>4 DEF EvaluationFits, EInv, ReceiptsFit
    <2>10. ASSUME NEW w \in evaluations PROVE w.episodes = v.episodes /\ w.slots = v.slots
      <3>1. /\ w.chain \in 0..Len(chain) /\ Complete(SubSeq(chain, 1, w.chain))
            /\ w.slots = Stop(SubSeq(chain, 1, w.chain)) /\ w.episodes = Receipted
        BY <2>1 DEF EvaluationFits, Read
      <3>2. w.slots <= v.slots /\ v.slots <= w.slots
        BY <2>0, <2>3, <2>4, <3>1, SameEpisodes
      <3>3. SubSeq(chain, 1, w.chain) \in Seq(Decision)
        BY <2>0, <3>1, PrefixFacts
      <3>4. w.slots \in Nat /\ v.slots \in Nat
        <4>1. \A es \in Seq(Decision) : Stop(es) \in Nat
          BY StopIsLeast
        <4> QED BY <2>4, <2>5, <3>1, <3>3, <4>1
      <3> QED BY <2>4, <3>1, <3>2, <3>4
    <2> QED BY <2>4, <2>7, <2>8, <2>9, <2>10
  <1> QED BY <1>1, AlwaysEInv, PTL
=============================================================================
