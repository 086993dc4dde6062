-------------------------- MODULE ChallengerCohort --------------------------
(***************************************************************************)
(* The Challenger cohort: the decisions of the slots Start..End-1 and of   *)
(* the slots an episode entered among them still needs.  Four tools read   *)
(* the runner's files while the runner may be at work, check them against  *)
(* one another and publish what they found:                                *)
(*   - the evidence maintenance publishes a receipt for each completed     *)
(*     episode, then its economic result and the index of the results;     *)
(*   - the evaluator publishes the evaluation of the whole cohort;         *)
(*   - the failure observer publishes that a slot was missed;              *)
(*   - the decommission stops the service of a cohort that failed.         *)
(* No tool writes what another one reads, except that the decommission     *)
(* boots the service out.                                                  *)
(***************************************************************************)
EXTENDS ChallengerForward

CONSTANTS Start, End   \* the cohort's first slot, and the first one after its window

ASSUME CohortAssumption == Start \in Nat /\ End \in Nat /\ Start < End

VARIABLES watch,       \* the maintenance and the evaluator: stage, and decisions read
          audit,       \* the failure observer: stage, snapshot before, decisions read
          removal,     \* the decommission: stage, and the failure receipt it acts on
          receipts,    \* published episode receipts
          economics,   \* published economic results and index snapshots
          evaluations, failures, decommissions,
          forensics    \* phases a decommission stopped in after it tried the bootout

cohortVars == <<watch, audit, removal, receipts, economics, evaluations, failures, decommissions, forensics>>
vars == <<forwardVars, cohortVars>>
files == <<clock, chain, checkpointed, wal, bundles, stdout, stderr, runner, faults>>

TailEnd == End + Vertical
Watchers == {"maintenance", "evaluator"}
Off == [pc |-> "off", read |-> 0]
AuditOff == [pc |-> "off", read |-> 0, before |-> {}]
RemovalOff == [pc |-> "off", receipt |-> {}]

----------------------------------------------------------------------------
(* _partition: what a chain says about the cohort. *)

\* The first slot the cohort has no decision of, or needs none of.
Stop(ds) ==
    LET over == {s \in End..(Len(ds) - 1) : Held(ds, s) = Flat}
    IN IF over = {} THEN Len(ds) ELSE CHOOSE s \in over : \A o \in over : s <= o

InCohort(ds) == Start..(Stop(ds) - 1)
Open(ds) == Held(ds, Stop(ds))
Required(ds) == Stop(ds) < End \/ Open(ds) # Flat
Complete(ds) == Len(ds) > Start /\ ~Required(ds)

\* The cohort's own reading of the decision of slot s.
Lawful(ds, s) ==
    LET held == Held(ds, s)
        d == ds[s + 1]
        keeps == d.position = held /\ s < held + Vertical
    IN IF held = Flat
       THEN \/ d.action = "REJECT_ENTRY" /\ d.position = Flat
            \/ d.action = "ENTER_LONG" /\ d.position = s /\ s < End
       ELSE \/ d.action = "HOLD_LONG_MINIMUM" /\ keeps /\ s < held + MinHold
            \/ d.action = "HOLD_LONG" /\ keeps /\ s >= held + MinHold
            \/ d.action = "EXIT_LONG_SMA20" /\ d.position = Flat /\ s >= held + MinHold
            \/ d.action = "EXIT_LONG_VERTICAL_24H" /\ d.position = Flat /\ s >= held + Vertical

\* The chain as read when the clock showed `observed' continues without a gap.
Accepted(ds, observed) ==
    /\ Len(ds) > Start
    /\ Held(ds, Start) = Flat
    /\ Stop(ds) <= TailEnd
    /\ \A s \in InCohort(ds) : Lawful(ds, s)
    /\ Required(ds) => observed <= Stop(ds)
    /\ Open(ds) # Flat => observed <= Open(ds) + Vertical
    /\ observed >= TailEnd => ~Required(ds)

\* Mutant: an exit at the vertical limit does not complete its episode.
CompletedBySignal(ds) ==
    {e \in [entry: InCohort(ds), exit: InCohort(ds)] :
        ds[e.exit + 1].action = "EXIT_LONG_SMA20" /\ Held(ds, e.exit) = e.entry}

\* The episodes with their entry and their exit.
Completed(ds) ==
    {e \in [entry: InCohort(ds), exit: InCohort(ds)] :
        ds[e.exit + 1].action \in Exits /\ Held(ds, e.exit) = e.entry}

----------------------------------------------------------------------------
(* What the tools look at. *)

\* The main file is read alone, and only while no WAL holds anything more.
CanRead == checkpointed = Len(chain) /\ checkpointed > 0
Read(n) == SubSeq(chain, 1, n)

\* The machine's own clock may be a little ahead of the verified one, or behind it.
LocalSlots == (clock - 1)..(clock + 1)

OneBundle(d) == {b \in bundles : b.slot = d.slot} = {d}
OneLine(d) == Cardinality({i \in DOMAIN stdout : stdout[i] = d}) = 1
Evidenced(ds) == \A s \in InCohort(ds) : OneBundle(ds[s + 1]) /\ OneLine(ds[s + 1])

\* launchctl print, of a service whose last process ended with that code.
Printed(code) == service.loaded /\ service.runs >= 1 /\ service.exit = code

\* Every file as it is; what only grows is known by its size.
Snapshot == [state |-> checkpointed, wal |-> wal, frames |-> Len(chain), stdout |-> Len(stdout),
             stderr |-> stderr, bundles |-> bundles]
Snapshots == [state: Nat, wal: BOOLEAN, frames: Nat, stdout: Nat,
              stderr: [missed: Nat, other: Nat], bundles: SUBSET Decision]

----------------------------------------------------------------------------
(* Evidence maintenance and evaluator: observe the continuity, then publish. *)

Observe(t) ==
    /\ watch[t].pc = "off"
    /\ CanRead
    /\ \E observed \in LocalSlots :
          /\ observed >= checkpointed - 1
          /\ Accepted(Read(checkpointed), observed)
          /\ t = "evaluator" => observed >= TailEnd
    /\ watch' = [watch EXCEPT ![t] = [pc |-> "evidence", read |-> checkpointed]]
    /\ UNCHANGED <<forwardVars, audit, removal, receipts, economics, evaluations, failures, decommissions, forensics>>

CheckEvidence(t) ==
    /\ watch[t].pc = "evidence"
    /\ Evidenced(Read(watch[t].read))
    /\ watch' = [watch EXCEPT ![t].pc = "service"]
    /\ UNCHANGED <<forwardVars, audit, removal, receipts, economics, evaluations, failures, decommissions, forensics>>

CheckService(t) ==
    /\ watch[t].pc = "service"
    /\ Printed("ok")
    /\ watch' = [watch EXCEPT ![t].pc = "publish"]
    /\ UNCHANGED <<forwardVars, audit, removal, receipts, economics, evaluations, failures, decommissions, forensics>>

\* An error, or the tool's own end: what it published stays.
Leave(t) ==
    /\ watch[t].pc # "off"
    /\ watch' = [watch EXCEPT ![t] = Off]
    /\ UNCHANGED <<forwardVars, audit, removal, receipts, economics, evaluations, failures, decommissions, forensics>>

\* load_challenger_cohort_episode_receipt: the files still say what the receipt says.
StillLoads(r) ==
    /\ checkpointed = Len(chain)
    /\ r.prefix = SubSeq(chain, 1, Len(r.prefix))
    /\ \A s \in Start..r.episode.exit : OneBundle(r.prefix[s + 1]) /\ OneLine(r.prefix[s + 1])

Receipted == {r.episode : r \in receipts}

\* The next completed episode without a receipt; the receipts before it are loaded again.
PublishReceipt ==
    /\ watch["maintenance"].pc = "publish"
    /\ LET ds == Read(watch["maintenance"].read)
           missing == Completed(ds) \ Receipted
       IN \E e \in missing :
             /\ \A m \in missing : e.entry <= m.entry
             /\ \A r \in receipts : r.episode.entry < e.entry => StillLoads(r)
             /\ receipts' = receipts \cup {[episode |-> e, prefix |-> SubSeq(ds, 1, e.exit + 1)]}
    /\ UNCHANGED <<forwardVars, watch, audit, removal, economics, evaluations, failures, decommissions, forensics>>

\* Once every receipt is there and its archives are, one result and then one index per episode.
PublishResult ==
    /\ watch["maintenance"].pc = "publish"
    /\ Completed(Read(watch["maintenance"].read)) \subseteq Receipted
    /\ \A r \in receipts : StillLoads(r)
    /\ \/ /\ economics.results = economics.indexes
          /\ economics.results < Cardinality(receipts)
          /\ economics' = [economics EXCEPT !.results = @ + 1]
       \/ /\ economics.indexes < economics.results
          /\ economics' = [economics EXCEPT !.indexes = @ + 1]
    /\ UNCHANGED <<forwardVars, watch, audit, removal, receipts, evaluations, failures, decommissions, forensics>>

Evaluate ==
    /\ watch["evaluator"].pc = "publish"
    /\ LET ds == Read(watch["evaluator"].read)
       IN /\ Complete(ds)
          /\ Completed(ds) = Receipted
          /\ \A r \in receipts : StillLoads(r)
          /\ economics = [results |-> Cardinality(receipts), indexes |-> Cardinality(receipts)]
          /\ evaluations' = evaluations \cup {[episodes |-> Completed(ds), slots |-> Stop(ds), chain |-> Len(ds)]}
    /\ watch' = [watch EXCEPT !["evaluator"] = Off]
    /\ UNCHANGED <<forwardVars, audit, removal, receipts, economics, failures, decommissions, forensics>>

----------------------------------------------------------------------------
(* The failure observer. *)

AuditStep(from, to) ==
    /\ audit.pc = from
    /\ audit' = [audit EXCEPT !.pc = to]
    /\ UNCHANGED <<forwardVars, watch, removal, receipts, economics, evaluations, failures, decommissions, forensics>>

BeginAudit ==
    /\ audit.pc = "off"
    /\ audit' = [AuditOff EXCEPT !.pc = "state", !.before = {Snapshot}]
    /\ UNCHANGED <<forwardVars, watch, removal, receipts, economics, evaluations, failures, decommissions, forensics>>

\* Mutant: a slot missed after the cohort is complete counts as well.
AuditStateOfAnySlot ==
    /\ audit.pc = "state"
    /\ CanRead
    /\ LET ds == Read(checkpointed)
       IN /\ Accepted(ds, Len(ds) - 1)
          /\ \E observed \in LocalSlots : observed > Stop(ds)
    /\ audit' = [audit EXCEPT !.pc = "evidence", !.read = checkpointed]
    /\ UNCHANGED <<forwardVars, watch, removal, receipts, economics, evaluations, failures, decommissions, forensics>>

\* The chain is sound up to its last slot, and by the local clock the next one is over.
AuditState ==
    /\ audit.pc = "state"
    /\ CanRead
    /\ LET ds == Read(checkpointed)
       IN /\ Accepted(ds, Len(ds) - 1)
          /\ Required(ds)
          /\ \E observed \in LocalSlots : observed > Stop(ds)
    /\ audit' = [audit EXCEPT !.pc = "evidence", !.read = checkpointed]
    /\ UNCHANGED <<forwardVars, watch, removal, receipts, economics, evaluations, failures, decommissions, forensics>>

\* Bundles and lines as for an episode, and nothing but missed slots on standard error.
AuditEvidence ==
    /\ Evidenced(Read(audit.read))
    /\ stderr.missed >= 1 /\ stderr.other = 0
    /\ AuditStep("evidence", "service")

AuditService ==
    /\ Printed("error") /\ runner.pc = "idle"
    /\ AuditStep("service", "compare")

\* Nothing changed since the observer began.
AuditCompare ==
    /\ audit.before = {Snapshot}
    /\ AuditStep("compare", "publish")

PublishFailure ==
    /\ audit.pc = "publish"
    /\ \E before \in audit.before :
          failures' = failures \cup {[read |-> audit.read, evidence |-> before]}
    /\ audit' = AuditOff
    /\ UNCHANGED <<forwardVars, watch, removal, receipts, economics, evaluations, decommissions, forensics>>

AbandonAudit ==
    /\ audit.pc # "off"
    /\ audit' = AuditOff
    /\ UNCHANGED <<forwardVars, watch, removal, receipts, economics, evaluations, failures, decommissions, forensics>>

----------------------------------------------------------------------------
(* The decommission of a failed cohort. *)

\* load_challenger_cohort_failure_receipt: it holds as long as no file changes at all.
FailureLoads(f) == checkpointed = Len(chain) /\ Snapshot = f.evidence

RemovalStep(from, to) ==
    /\ removal.pc = from
    /\ removal' = [removal EXCEPT !.pc = to]
    /\ UNCHANGED <<forwardVars, watch, audit, receipts, economics, evaluations, failures, decommissions, forensics>>

LoadFailure ==
    /\ removal.pc = "off"
    /\ \E f \in failures :
          /\ FailureLoads(f)
          /\ removal' = [pc |-> "print", receipt |-> {f}]
    /\ UNCHANGED <<forwardVars, watch, audit, receipts, economics, evaluations, failures, decommissions, forensics>>

\* Still the service that failed.  The count of runs in the failure receipt adds nothing: whatever
\* ran since left a line or another exit.  The refusal when a replacement is loaded is AbandonRemoval.
StillFailed == Printed("error") /\ runner.pc = "idle"
Preserved == \A f \in removal.receipt : Snapshot = f.evidence

CheckBefore ==
    \/ StillFailed /\ RemovalStep("print", "compare")
    \/ Preserved /\ RemovalStep("compare", "print again")
    \/ StillFailed /\ RemovalStep("print again", "compare again")
    \/ Preserved /\ RemovalStep("compare again", "bootout")

\* launchctl bootout kills a process that started meanwhile.
BootOut ==
    /\ removal.pc = "bootout" /\ service.loaded
    /\ service' = [service EXCEPT !.loaded = FALSE, !.due = FALSE, !.exit = "never", !.runs = 0]
    /\ runner' = Idle
    /\ removal' = [removal EXCEPT !.pc = "gone"]
    /\ UNCHANGED <<clock, chain, checkpointed, wal, bundles, stdout, stderr, faults>>
    /\ UNCHANGED <<watch, audit, receipts, economics, evaluations, failures, decommissions, forensics>>

\* Mutant: what the bootout left behind is not compared.
CheckAfterServiceOnly ==
    \/ ~service.loaded /\ RemovalStep("gone", "compare after")
    \/ RemovalStep("compare after", "publish")

\* The service is gone, and every file is as it was.
CheckAfter ==
    \/ ~service.loaded /\ RemovalStep("gone", "compare after")
    \/ Preserved /\ RemovalStep("compare after", "publish")

PublishDecommission ==
    /\ removal.pc = "publish"
    /\ decommissions' = decommissions \cup removal.receipt
    /\ removal' = RemovalOff
    /\ UNCHANGED <<forwardVars, watch, audit, receipts, economics, evaluations, failures, forensics>>

\* Once the bootout was tried, what goes wrong is itself published.
PublishForensics ==
    /\ \/ removal.pc \in {"bootout", "gone", "publish"}
       \/ removal.pc = "compare after" /\ ~Preserved
    /\ forensics' = forensics \cup {removal.pc}
    /\ removal' = RemovalOff
    /\ UNCHANGED <<forwardVars, watch, audit, receipts, economics, evaluations, failures, decommissions>>

AbandonRemoval ==
    /\ removal.pc # "off"
    /\ removal' = RemovalOff
    /\ UNCHANGED <<forwardVars, watch, audit, receipts, economics, evaluations, failures, decommissions, forensics>>

----------------------------------------------------------------------------

Init ==
    /\ ForwardInit
    /\ watch = [t \in Watchers |-> Off]
    /\ audit = AuditOff /\ removal = RemovalOff
    /\ receipts = {} /\ economics = [results |-> 0, indexes |-> 0]
    /\ evaluations = {} /\ failures = {} /\ decommissions = {} /\ forensics = {}

\* A restart of the machine takes the tools with it.
RestartMachine ==
    /\ Restart
    /\ watch' = [t \in Watchers |-> Off]
    /\ audit' = AuditOff /\ removal' = RemovalOff
    /\ UNCHANGED <<receipts, economics, evaluations, failures, decommissions, forensics>>

Maintenance == \/ \E t \in Watchers : Observe(t) \/ CheckEvidence(t) \/ CheckService(t) \/ Leave(t)
               \/ PublishReceipt \/ PublishResult \/ Evaluate
Audit == BeginAudit \/ AuditState \/ AuditEvidence \/ AuditService \/ AuditCompare \/ PublishFailure \/ AbandonAudit
Removal == LoadFailure \/ CheckBefore \/ BootOut \/ CheckAfter \/ PublishDecommission \/ PublishForensics \/ AbandonRemoval

Next ==
    \/ (Tick \/ RunnerStep) /\ UNCHANGED cohortVars
    \/ RestartMachine
    \/ Maintenance \/ Audit \/ Removal

Spec == Init /\ [][Next]_vars

----------------------------------------------------------------------------

\* Every part of the state is of the form its comment gives; no tool has read more decisions than
\* there are, and only published failures are acted on.
TypeOK ==
    /\ ForwardTypeOK
    /\ watch \in [Watchers -> [pc: {"off", "evidence", "service", "publish"}, read: 0..Len(chain)]]
    /\ audit \in [pc: {"off", "state", "evidence", "service", "compare", "publish"},
                  read: 0..Len(chain), before: SUBSET Snapshots]
    /\ failures \subseteq [read: 0..Len(chain), evidence: Snapshots]
    /\ removal \in [pc: {"off", "print", "compare", "print again", "compare again", "bootout", "gone",
                         "compare after", "publish"}, receipt: SUBSET failures]
    /\ decommissions \subseteq failures
    /\ economics \in [results: Nat, indexes: Nat] /\ economics.indexes <= economics.results

\* The two hand-written readings of an episode agree: the cohort's partition accepts every chain
\* the runner can build, unless an episode was open already when the cohort began.
RunnerChainsAreAccepted ==
    Len(chain) > Start /\ Held(chain, Start) = Flat => Accepted(chain, Len(chain) - 1)

\* Whatever the runner does after an episode receipt, the files keep saying what it says, so that
\* every later tool can load it: exactly one bundle and one RECORDED line per slot, the chain only longer.
EpisodeEvidenceStays ==
    \A r \in receipts :
        /\ r.prefix = SubSeq(chain, 1, Len(r.prefix))
        /\ \A s \in Start..r.episode.exit : OneBundle(r.prefix[s + 1]) /\ OneLine(r.prefix[s + 1])

\* An evaluation leaves nothing out: every entry of the whole window, each with its exit, its
\* receipt, its result and its index; and two evaluations speak of the same slots and episodes.
EvaluationIsWhole ==
    \A v \in evaluations :
        /\ v.slots >= End
        /\ {e.entry : e \in v.episodes} = {s \in Start..(End - 1) : chain[s + 1].action = "ENTER_LONG"}
        /\ v.episodes = Receipted
        /\ economics.indexes = Cardinality(v.episodes)
        /\ \A w \in evaluations : w.episodes = v.episodes /\ w.slots = v.slots

\* When a decommission receipt appears the service is gone, no process is left, and every file is
\* as the failure receipt it acts on describes it.
DecommissionIsTrue ==
    [][decommissions' # decommissions =>
          /\ ~service.loaded /\ runner.pc = "idle"
          /\ \A f \in decommissions' \ decommissions : Snapshot = f.evidence]_vars

\* A cohort fails for good or completes for good, and is never both failed and evaluated.
Life == INSTANCE CohortLife WITH
            kept <- Len(chain), complete <- Complete(chain),
            failed <- failures # {}, evaluated <- evaluations # {}
ImplementsCohortLife == Life!Spec
=============================================================================
