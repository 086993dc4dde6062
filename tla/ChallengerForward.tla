------------------------- MODULE ChallengerForward -------------------------
(***************************************************************************)
(* The Challenger's forward runner under launchd.  Once per four-hour slot *)
(* launchd starts a process that reads the verified clock, opens the       *)
(* SQLite chain of decisions, fetches the market for the next slot,        *)
(* publishes a source bundle, appends the decision, closes the database    *)
(* and prints one line.  The chain, the bundles, the two logs and          *)
(* launchd's own record of the service are what the cohort's tools later   *)
(* take as evidence.                                                       *)
(*                                                                         *)
(* Slots are counted from the first slot of the forward test, so decision  *)
(* number s + 1 of the chain is the one of slot s.                         *)
(***************************************************************************)
EXTENDS Integers, Sequences, FiniteSets

CONSTANTS MinHold,    \* slots before an episode may leave (8 h)
          Vertical,   \* slots after which it must leave (24 h)
          LastSlot,   \* bound: the slots time passes through
          MaxFaults   \* bound: failed requests and writes, kills of the runner, restarts of the machine

ASSUME HoldAssumption == MinHold \in Nat /\ Vertical \in Nat \ {0} /\ MinHold <= Vertical
ASSUME BoundAssumption == LastSlot \in Nat /\ MaxFaults \in Nat

VARIABLES clock,         \* the slot the verified time is in
          chain,         \* committed decisions, the WAL's included
          checkpointed,  \* how many of them are in the main database file
          wal,           \* the -wal and -shm files exist
          bundles,       \* published source bundles, each by the decision it carries
          stdout,        \* lines of the runner's standard output
          stderr,        \* lines of its standard error, by kind
          service,       \* launchd's record of the runner's LaunchAgent
          runner,        \* the process, when there is one
          faults

forwardVars == <<clock, chain, checkpointed, wal, bundles, stdout, stderr, service, runner, faults>>

Slots == 0..LastSlot
Flat == -1   \* no position; otherwise a position is the slot it was entered in

Exits == {"EXIT_LONG_SMA20", "EXIT_LONG_VERTICAL_24H"}
Actions == {"REJECT_ENTRY", "ENTER_LONG", "HOLD_LONG_MINIMUM", "HOLD_LONG"} \cup Exits

\* A decision with the position after it; two attempts at a slot differ in when they were recorded.
Decision == [slot: Slots, action: Actions, position: Slots \cup {Flat}, attempt: Nat]
Nothing == [slot |-> 0, action |-> "NONE", position |-> Flat, attempt |-> 0]

Steps == {"idle", "gate", "fetch", "publish", "append", "close", "report"}
Outcomes == {"none", "RECORDED", "NOT_DUE", "MISSED_SLOT", "ERROR"}
Idle == [pc |-> "idle", candidate |-> Nothing, outcome |-> "none"]
Loaded == [loaded |-> TRUE, due |-> TRUE, runs |-> 0, exit |-> "never"]

Services == [loaded: BOOLEAN, due: BOOLEAN, runs: Nat, exit: {"never", "ok", "error", "signal"}]
Processes == [pc: Steps, candidate: Decision \cup {Nothing}, outcome: Outcomes]

ForwardTypeOK ==
    /\ clock \in Slots
    /\ chain \in Seq(Decision)
    /\ checkpointed \in 0..Len(chain)
    /\ wal \in BOOLEAN
    /\ bundles \subseteq Decision /\ IsFiniteSet(bundles)
    /\ stdout \in Seq(Decision \cup {Nothing})
    /\ stderr \in [missed: Nat, other: Nat]
    /\ service \in Services /\ runner \in Processes
    /\ runner.pc \in {"publish", "append"} => runner.candidate \in Decision
    /\ faults \in 0..MaxFaults

ForwardInit ==
    /\ clock = 0
    /\ chain = <<>> /\ checkpointed = 0 /\ wal = FALSE
    /\ bundles = {} /\ stdout = <<>> /\ stderr = [missed |-> 0, other |-> 0]
    /\ service = Loaded
    /\ runner = Idle
    /\ faults = 0

----------------------------------------------------------------------------
(* The decision of a slot. *)

\* The position before slot s: the one the decision of the slot before left.
Held(ds, s) == IF s = 0 THEN Flat ELSE ds[s].position

\* Mutant: the minimum hold lasts one slot longer.
ChoicesHeldLonger(s, held) ==
    IF held = Flat
    THEN {<<"REJECT_ENTRY", Flat>>, <<"ENTER_LONG", s>>}
    ELSE IF s <= held + MinHold
    THEN {<<"HOLD_LONG_MINIMUM", held>>}
    ELSE {<<"EXIT_LONG_SMA20", Flat>>,
          IF s >= held + Vertical THEN <<"EXIT_LONG_VERTICAL_24H", Flat>> ELSE <<"HOLD_LONG", held>>}

\* What the closes can make of slot s with that position.
Choices(s, held) ==
    IF held = Flat
    THEN {<<"REJECT_ENTRY", Flat>>, <<"ENTER_LONG", s>>}
    ELSE IF s < held + MinHold
    THEN {<<"HOLD_LONG_MINIMUM", held>>}
    ELSE {<<"EXIT_LONG_SMA20", Flat>>,
          IF s >= held + Vertical THEN <<"EXIT_LONG_VERTICAL_24H", Flat>> ELSE <<"HOLD_LONG", held>>}

----------------------------------------------------------------------------
(* launchd: one process at a time, started by the calendar or on load. *)

Tick ==
    /\ clock < LastSlot
    /\ clock' = clock + 1
    /\ service' = [service EXCEPT !.due = service.loaded]
    /\ UNCHANGED <<chain, checkpointed, wal, bundles, stdout, stderr, runner, faults>>

StartRunner ==
    /\ service.loaded /\ service.due /\ runner.pc = "idle"
    /\ service' = [service EXCEPT !.due = FALSE, !.runs = @ + 1]
    /\ runner' = [Idle EXCEPT !.pc = "gate"]
    /\ UNCHANGED <<clock, chain, checkpointed, wal, bundles, stdout, stderr, faults>>

----------------------------------------------------------------------------
(* run_challenger_forward_cycle, step by step. *)

NextRequired == Len(chain)

\* The server-time probe fails before anything is opened.
GateBlocked ==
    /\ runner.pc = "gate" /\ faults < MaxFaults
    /\ runner' = [runner EXCEPT !.pc = "report", !.outcome = "ERROR"]
    /\ faults' = faults + 1
    /\ UNCHANGED <<clock, chain, checkpointed, wal, bundles, stdout, stderr, service>>

\* Mutant: a run that is not due reports the decision that is there already.
OpenGateAgain ==
    /\ runner.pc = "gate"
    /\ wal' = TRUE
    /\ \/ /\ clock < NextRequired
          /\ runner' = [runner EXCEPT !.pc = "close", !.outcome = "RECORDED", !.candidate = chain[NextRequired]]
       \/ /\ clock > NextRequired
          /\ runner' = [runner EXCEPT !.pc = "close", !.outcome = "MISSED_SLOT"]
       \/ /\ clock = NextRequired
          /\ runner' = [runner EXCEPT !.pc = "fetch"]
    /\ UNCHANGED <<clock, chain, checkpointed, bundles, stdout, stderr, service, faults>>

\* The verified clock gives the current slot; opening the database creates the WAL's files.
OpenGate ==
    /\ runner.pc = "gate"
    /\ wal' = TRUE
    /\ \/ /\ clock < NextRequired
          /\ runner' = [runner EXCEPT !.pc = "close", !.outcome = "NOT_DUE"]
       \/ /\ clock > NextRequired
          /\ runner' = [runner EXCEPT !.pc = "close", !.outcome = "MISSED_SLOT"]
       \/ /\ clock = NextRequired
          /\ runner' = [runner EXCEPT !.pc = "fetch"]
    /\ UNCHANGED <<clock, chain, checkpointed, bundles, stdout, stderr, service, faults>>

\* The closes arrive and are recorded while the slot lasts.
Fetch ==
    /\ runner.pc = "fetch"
    /\ clock = NextRequired
    /\ \E choice \in Choices(NextRequired, Held(chain, NextRequired)) :
          runner' = [runner EXCEPT
                        !.pc = "publish",
                        !.candidate = [slot |-> NextRequired, action |-> choice[1], position |-> choice[2],
                                       attempt |-> Cardinality({b \in bundles : b.slot = NextRequired})]]
    /\ UNCHANGED <<clock, chain, checkpointed, wal, bundles, stdout, stderr, service, faults>>

\* The request fails, revises what was used before, or comes back after the slot; or a write fails.
RunFails ==
    /\ runner.pc \in {"fetch", "publish", "append"}
    /\ IF clock > NextRequired THEN UNCHANGED faults ELSE faults < MaxFaults /\ faults' = faults + 1
    /\ runner' = [runner EXCEPT !.pc = "close", !.candidate = Nothing, !.outcome = "ERROR"]
    /\ UNCHANGED <<clock, chain, checkpointed, wal, bundles, stdout, stderr, service>>

PublishBundle ==
    /\ runner.pc = "publish"
    /\ bundles' = bundles \cup {runner.candidate}
    /\ runner' = [runner EXCEPT !.pc = "append"]
    /\ UNCHANGED <<clock, chain, checkpointed, wal, stdout, stderr, service, faults>>

AppendDecision ==
    /\ runner.pc = "append"
    /\ chain' = Append(chain, runner.candidate)
    /\ runner' = [runner EXCEPT !.pc = "close", !.outcome = "RECORDED"]
    /\ UNCHANGED <<clock, checkpointed, wal, bundles, stdout, stderr, service, faults>>

\* The last connection checkpoints the WAL and removes its files.
CloseState ==
    /\ runner.pc = "close"
    /\ checkpointed' = Len(chain)
    /\ wal' = FALSE
    /\ runner' = [runner EXCEPT !.pc = "report"]
    /\ UNCHANGED <<clock, chain, bundles, stdout, stderr, service, faults>>

\* The process prints its one line and ends; launchd keeps its exit status.
Report ==
    /\ runner.pc = "report"
    /\ \/ /\ runner.outcome \in {"RECORDED", "NOT_DUE"}
          /\ stdout' = Append(stdout, runner.candidate)
          /\ service' = [service EXCEPT !.exit = "ok"]
          /\ UNCHANGED stderr
       \/ /\ runner.outcome \in {"MISSED_SLOT", "ERROR"}
          /\ stderr' = IF runner.outcome = "MISSED_SLOT" THEN [stderr EXCEPT !.missed = @ + 1]
                                                         ELSE [stderr EXCEPT !.other = @ + 1]
          /\ service' = [service EXCEPT !.exit = "error"]
          /\ UNCHANGED stdout
    /\ runner' = Idle
    /\ UNCHANGED <<clock, chain, checkpointed, wal, bundles, faults>>

----------------------------------------------------------------------------
(* Faults.  What is on disk stays, an open WAL included. *)

KillRunner ==
    /\ runner.pc # "idle" /\ faults < MaxFaults
    /\ runner' = Idle
    /\ service' = [service EXCEPT !.exit = "signal"]
    /\ faults' = faults + 1
    /\ UNCHANGED <<clock, chain, checkpointed, wal, bundles, stdout, stderr>>

\* launchd loads every plist in LaunchAgents again, whether it had been booted out or not, and starts it.
Restart ==
    /\ faults < MaxFaults
    /\ runner' = Idle
    /\ service' = Loaded
    /\ faults' = faults + 1
    /\ UNCHANGED <<clock, chain, checkpointed, wal, bundles, stdout, stderr>>

RunnerStep ==
    \/ StartRunner \/ GateBlocked \/ OpenGate \/ Fetch \/ RunFails \/ PublishBundle
    \/ AppendDecision \/ CloseState \/ Report \/ KillRunner
=============================================================================
