------------------------- MODULE ReplacementRuntime -------------------------
(***************************************************************************)
(* The three-stage runtime of the replacement strategy                     *)
(* (challenger_replacement_runtime.py) over its event store: the input of  *)
(* a four hour slot is captured and made durable, the decision is computed *)
(* from the durable input, and the slot is closed.  An invocation is       *)
(* started through the installed adapter                                   *)
(* (challenger_replacement_installed_runtime.py): by launchd at every slot *)
(* boundary, and by anybody else at any time.                              *)
(*                                                                         *)
(* A slot is its number.  What a capture holds and when an event is        *)
(* recorded is data, one tag for each event: GoodTags are the captures     *)
(* that a decision can be built from.  Two events of two processes may be  *)
(* equal.                                                                  *)
(*                                                                         *)
(* Bounds of the model: MaxSlots slots, and MaxFaults deaths and losses of *)
(* power.                                                                  *)
(***************************************************************************)
EXTENDS EventStore, FiniteSets

CONSTANTS
    MaxSlots,
    MaxFaults,
    Tags,
    GoodTags,
    None            \* no slot, no capture

VARIABLES
    invocation, \* what each process is about, between its calls of the store
    started,    \* has the start receipt of the cohort been published?
    told,       \* the longest history that a success was reported from
    faults

vars == <<files, synced, orphans, call, invocation, started, told, faults>>

Slots == 1 .. MaxSlots

Kinds == {"INPUT_PREPARED", "RESULT_PREPARED", "SLOT_SUCCEEDED", "SLOT_FAILED_PERMANENT"}
Body == [kind : Kinds, slot : Slots, tag : Tags]

ASSUME RuntimeAssumption ==
    /\ MaxSlots \in Nat \ {0}
    /\ MaxFaults \in Nat
    /\ MaxEvents = 3 * MaxSlots
    /\ GoodTags \subseteq Tags
    /\ None \notin Nat
    /\ NoFile \notin [event : Seq(Body), flushed : BOOLEAN]

Asleep == [purpose |-> "none", slot |-> None, capture |-> None, token |-> <<>>, body |-> None]

Init ==
    /\ StoreInit
    /\ invocation = [p \in Processes |-> Asleep]
    /\ started = FALSE
    /\ told = <<>>
    /\ faults = 0

-----------------------------------------------------------------------------
(* The projection of a history. *)

Of(log, kind) == {log[n].slot : n \in {m \in DOMAIN log : log[m].kind = kind}}

Succeeded(log) == Of(log, "SLOT_SUCCEEDED")
Failed(log) == Of(log, "SLOT_FAILED_PERMANENT")

\* The stage of a slot is the kind of its last event.
StageOf(log, s) ==
    LET ofSlot == {n \in DOMAIN log : log[n].slot = s}
    IN  IF ofSlot = {} THEN "NONE"
        ELSE log[CHOOSE n \in ofSlot : \A m \in ofSlot : m <= n].kind

ActiveSlots(log) == {s \in Slots : StageOf(log, s) \in {"INPUT_PREPARED", "RESULT_PREPARED"}}

NextSlot(log) == Cardinality(Succeeded(log)) + 1

\* What _apply_event accepts after a history.
Accepts(log, body) ==
    CASE body.kind = "INPUT_PREPARED" ->
            /\ ActiveSlots(log) = {}
            /\ Failed(log) = {}
            /\ body.slot = NextSlot(log)
      [] body.kind = "RESULT_PREPARED" -> StageOf(log, body.slot) = "INPUT_PREPARED"
      [] body.kind = "SLOT_SUCCEEDED" -> StageOf(log, body.slot) = "RESULT_PREPARED"
      [] body.kind = "SLOT_FAILED_PERMANENT" -> body.slot \in ActiveSlots(log)

Projects(log) == \A n \in DOMAIN log : Accepts(SubSeq(log, 1, n - 1), log[n])

-----------------------------------------------------------------------------
(* An invocation. *)

End(p) ==
    /\ call' = [call EXCEPT ![p] = Idle]
    /\ invocation' = [invocation EXCEPT ![p] = Asleep]

\* The next call of the store is a replay, for the purpose given.
ReplayFor(p, next) ==
    /\ call' = [call EXCEPT ![p] = Listed]
    /\ invocation' = [invocation EXCEPT ![p] = next]

Launch(p) ==
    /\ call[p].pc = "none"
    /\ ReplayFor(p, [Asleep EXCEPT !.purpose = "launch"])
    /\ UNCHANGED <<files, synced, orphans, started, told, faults>>

\* The replay that was asked for returns a history.
Returns(p, log) ==
    /\ Replayed(p, log)
    /\ UNCHANGED <<files, orphans, started, faults>>

\* The replay or the publication raises, and the invocation with it.
Raises(p) ==
    /\ \/ ReplayRaises(p) /\ UNCHANGED <<files, orphans>>
       \/ RenameConflicts(p)
    /\ End(p)
    /\ UNCHANGED <<started, told, faults>>

\* Mutant: a first slot that a crash interrupted is not recognized.
FirstSlotWhole(log) == log = <<>> \/ Succeeded(log) = {1}

\* Before the start receipt only the first slot may be in the log.
FirstSlotPrefix(log) == Failed(log) = {} /\ \A n \in DOMAIN log : log[n].slot = 1

\* Any staging file at all is refused, too.
Refuses(p, log) ==
    \/ call[p].staged # {}
    \/ ~started /\ ~FirstSlotPrefix(log)

\* A success is reported from the last completed slot of a history.
Report(log) == told' = IF Len(log) > Len(told) THEN log ELSE told

\* A slot with durable work is resumed before anything else.
LaunchResumes(p, log) ==
    /\ invocation[p].purpose = "launch"
    /\ ~Refuses(p, log)
    /\ \E s \in ActiveSlots(log) :
         ReplayFor(p, [Asleep EXCEPT !.purpose = "run", !.slot = s])
    /\ UNCHANGED told

\* Nothing is due, or the market cannot be captured: a launch that resumes reports the last
\* success once more, and raises when there is none.
LaunchReports(p, log) ==
    /\ invocation[p].purpose = "launch"
    /\ ~Refuses(p, log)
    /\ ActiveSlots(log) = {}
    /\ IF Succeeded(log) # {} THEN Report(log) ELSE UNCHANGED told
    /\ End(p)

\* The input of the next slot is captured from the market, inside its window.
LaunchCaptures(p, log) ==
    /\ invocation[p].purpose = "launch"
    /\ ~Refuses(p, log)
    /\ ActiveSlots(log) = {} /\ Failed(log) = {}
    /\ started \/ log = <<>>
    /\ NextSlot(log) <= MaxSlots
    /\ \E capture \in Tags :
         ReplayFor(p, [Asleep EXCEPT !.purpose = "run", !.slot = NextSlot(log),
                                     !.capture = capture])
    /\ UNCHANGED told

LaunchRefused(p, log) ==
    /\ invocation[p].purpose = "launch"
    /\ Refuses(p, log)
    /\ End(p)
    /\ UNCHANGED told

\* The event that the stage of the slot calls for.  The decision is a function of the durable
\* input, so that its events differ in the time of recording only.
Due(p, log) ==
    LET s == invocation[p].slot
        events(kind, tags) == {[kind |-> kind, slot |-> s, tag |-> t] : t \in tags}
    IN  CASE StageOf(log, s) = "NONE" -> events("INPUT_PREPARED", {invocation[p].capture})
          [] StageOf(log, s) = "INPUT_PREPARED" ->
               events(IF Last(log).tag \in GoodTags THEN "RESULT_PREPARED"
                                                   ELSE "SLOT_FAILED_PERMANENT", Tags)
          [] StageOf(log, s) = "RESULT_PREPARED" -> events("SLOT_SUCCEEDED", Tags)

\* The slot is new, with a capture that fits the history, or it is the active one.
MayRun(p, log) ==
    LET s == invocation[p].slot
    IN  IF StageOf(log, s) = "NONE"
        THEN /\ invocation[p].capture # None
             /\ ActiveSlots(log) = {} /\ Failed(log) = {}
             /\ s = NextSlot(log)
        ELSE s \in ActiveSlots(log)

RunStage(p, log) ==
    /\ invocation[p].purpose = "run"
    /\ MayRun(p, log)
    /\ \E b \in Due(p, log) :
         ReplayFor(p, [invocation[p] EXCEPT !.purpose = "append", !.capture = None,
                                            !.token = log, !.body = b])
    /\ UNCHANGED told

\* The slot has ended: a success is reported, everything else raises.
RunEnds(p, log) ==
    /\ invocation[p].purpose = "run"
    /\ ~MayRun(p, log)
    /\ IF invocation[p].slot \in Succeeded(log) THEN Report(log) ELSE UNCHANGED told
    /\ End(p)

\* An event is appended to the history it was thought of for, or not at all.
MayAppend(p, log) ==
    /\ log = invocation[p].token
    /\ Accepts(log, invocation[p].body)
    /\ ~Conflicts(Append(log, invocation[p].body))

AppendPublishes(p, log) ==
    /\ invocation[p].purpose = "append"
    /\ MayAppend(p, log)
    /\ call' = [call EXCEPT ![p] = Publishing(Append(log, invocation[p].body))]
    /\ invocation' = [invocation EXCEPT ![p].purpose = "publish", ![p].token = <<>>,
                                          ![p].body = None]
    /\ UNCHANGED told

AppendRaises(p, log) ==
    /\ invocation[p].purpose = "append"
    /\ ~MayAppend(p, log)
    /\ End(p)
    /\ UNCHANGED told

\* After an append the log is replayed for the next stage; a failed slot raises.
Appended(p) ==
    /\ invocation[p].purpose = "publish"
    /\ Published(p)
    /\ IF Last(call[p].event).kind = "SLOT_FAILED_PERMANENT"
       THEN End(p)
       ELSE ReplayFor(p, [invocation[p] EXCEPT !.purpose = "run"])
    /\ UNCHANGED <<started, told, faults>>

-----------------------------------------------------------------------------

\* The observer of the first slot replays the log and publishes the start receipt.
PublishStart ==
    /\ ~started
    /\ ~orphans /\ Staging = {}
    /\ Chained(Finals)
    /\ LET log == HistoryOf(Finals)
       IN  /\ Succeeded(log) = {1}
           /\ Len(log) = 3
           /\ Report(log)
    /\ started' = TRUE
    /\ synced' = Finals
    /\ UNCHANGED <<files, orphans, call, invocation, faults>>

Fault ==
    /\ faults < MaxFaults
    /\ faults' = faults + 1
    /\ \/ \E p \in Processes : Die(p) /\ invocation' = [invocation EXCEPT ![p] = Asleep]
       \/ PowerLoss /\ invocation' = [p \in Processes |-> Asleep]
    /\ UNCHANGED <<started, told>>

Renames(p) ==
    /\ Rename(p) \/ RenameRepeats(p)
    /\ UNCHANGED <<invocation, started, told, faults>>

\* What an invocation does with a history that the projection takes.
Decides(p, log) ==
    \/ LaunchResumes(p, log) \/ LaunchReports(p, log)
    \/ LaunchCaptures(p, log) \/ LaunchRefused(p, log)
    \/ RunStage(p, log) \/ RunEnds(p, log)
    \/ AppendPublishes(p, log) \/ AppendRaises(p, log)

Step(p) ==
    \/ \E log \in {HistoryOf(call[p].listed)} :
         /\ Returns(p, log)
         /\ IF Projects(log) THEN Decides(p, log) ELSE End(p) /\ UNCHANGED told
    \/ Renames(p) \/ Appended(p)
    \/ Raises(p)

Next ==
    \/ \E p \in Processes : Launch(p) \/ Step(p)
    \/ PublishStart
    \/ Fault

\* launchd starts an invocation again and again and lets it run.
Spec ==
    /\ Init /\ [][Next]_vars
    /\ \A p \in Processes : WF_vars(Launch(p) \/ Step(p))

-----------------------------------------------------------------------------
(* Properties. *)

Visible == HistoryOf(Finals)
Durable == HistoryOf(synced)

\* Every variable stays in its type: whole histories in the files, in the calls and in what was
\* reported, and no process reading a name that is gone.
TypeOK ==
    /\ \A n \in Finals : files[n].flushed \in BOOLEAN /\ files[n].event \in Seq(Body)
    /\ synced \subseteq Finals
    /\ told \in Seq(Body)
    /\ orphans \in BOOLEAN /\ started \in BOOLEAN
    /\ faults \in 0 .. MaxFaults
    /\ \A p \in Processes :
         /\ call[p].listed \subseteq Finals
         /\ call[p].event \in Seq(Body) /\ invocation[p].token \in Seq(Body)

\* No crash, loss of power or race of publishers leaves a directory that a replay refuses: a
\* torn file, a gap, an event on another parent, or an order of events that no projection takes.
ReplayIsAccepted == Chained(Finals) /\ Projects(Visible)

\* A success that an invocation reported, or that the start receipt of the cohort rests on,
\* is in the log for good: no loss of power and no other process takes it back.
ReportedIsDurable == IsPrefix(told, Durable)

\* The directory is the one sequence of events that EventLog promises: appended at its end
\* only, by one of any number of processes, and only after an event that is durable.
EventLogOfStore == INSTANCE EventLog WITH log <- Visible, confirmed <- Len(Durable)
ImplementsEventLog == EventLogOfStore!Spec

\* A slot whose input is durable is brought to its end by the invocations that launchd starts,
\* whatever died before, unless a staging file was left behind: that one they refuse for good.
InputIsEnded ==
    ActiveSlots(Visible) # {} ~> (ActiveSlots(Visible) = {} \/ orphans)

=============================================================================
