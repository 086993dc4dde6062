---------------------- MODULE ReplacementRuntime_proofs ----------------------
(***************************************************************************)
(* The event store and the three-stage runtime, for any number of          *)
(* processes, slots and faults.                                            *)
(***************************************************************************)
EXTENDS ReplacementRuntime, SequenceTheorems, FiniteSetTheorems, TLAPS

-----------------------------------------------------------------------------
(* Sequences. *)

LEMMA AppendFacts ==
    ASSUME NEW S, NEW s \in Seq(S), NEW e \in S
    PROVE  /\ Append(s, e) \in Seq(S)
           /\ Len(Append(s, e)) = Len(s) + 1
           /\ Front(Append(s, e)) = s
           /\ Last(Append(s, e)) = e
  <1>1. /\ Append(s, e) \in Seq(S)
        /\ Len(Append(s, e)) = Len(s) + 1
        /\ \A i \in 1 .. Len(s) : Append(s, e)[i] = s[i]
        /\ Append(s, e)[Len(s) + 1] = e
    BY AppendProperties
  <1> QED BY <1>1 DEF Front, Last

LEMMA FrontFacts ==
    ASSUME NEW S, NEW s \in Seq(S), s # <<>>
    PROVE  /\ Len(s) \in Nat \ {0}
           /\ Front(s) \in Seq(S)
           /\ Len(Front(s)) = Len(s) - 1
           /\ Last(s) \in S
           /\ s = Append(Front(s), Last(s))
  <1>1. PICK t \in Seq(S), e \in S : s = Append(t, e)
    BY SequenceEmptyOrAppend
  <1>2. /\ Len(s) = Len(t) + 1
        /\ Front(s) = t
        /\ Last(s) = e
    BY <1>1, AppendFacts
  <1> QED BY <1>1, <1>2, LenProperties

LEMMA SubSeqFacts ==
    ASSUME NEW S, NEW s \in Seq(S), NEW m \in 1 .. Len(s)
    PROVE  /\ SubSeq(s, 1, m) \in Seq(S)
           /\ Len(SubSeq(s, 1, m)) = m
           /\ Front(SubSeq(s, 1, m)) = SubSeq(s, 1, m - 1)
           /\ Last(SubSeq(s, 1, m)) = s[m]
           /\ \A i \in 1 .. m : SubSeq(SubSeq(s, 1, m), 1, i) = SubSeq(s, 1, i)
  <1>1. /\ SubSeq(s, 1, m) \in Seq(S)
        /\ Len(SubSeq(s, 1, m)) = m
        /\ \A i \in 1 .. m : SubSeq(s, 1, m)[i] = s[i]
    BY SubSeqProperties, LenProperties
  <1>2. ASSUME NEW i \in 0 .. m
        PROVE  SubSeq(SubSeq(s, 1, m), 1, i) = SubSeq(s, 1, i)
    BY <1>1
  <1> QED BY <1>1, <1>2 DEF Front, Last

LEMMA SubSeqWhole ==
    ASSUME NEW S, NEW s \in Seq(S)
    PROVE  SubSeq(s, 1, Len(s)) = s
  OBVIOUS

-----------------------------------------------------------------------------
(* The inductive invariant. *)

\* Final names are numbered without a gap; their files are whole, and each holds a history that
\* the one before it begins, with an event at its end that the projection accepts.
FilesFit ==
    /\ files \in [Positions -> {NoFile} \cup [event : Seq(Body), flushed : {TRUE}]]
    /\ \E k \in 0 .. MaxEvents : Finals = 1 .. k
    /\ \A n \in Finals :
         /\ Len(files[n].event) = n
         /\ Accepts(Front(files[n].event), Last(files[n].event))
         /\ \A m \in 1 .. n : files[m].event = SubSeq(files[n].event, 1, m)

\* Only the last final name may still be lost.
SyncedFits ==
    /\ synced \subseteq Finals
    /\ \E j \in 0 .. MaxEvents : synced = 1 .. j
    /\ \A n \in Finals : n - 1 \in synced \cup {0}

\* An event on its way to its name stands on a history that is durable.
OnDurable(event) ==
    /\ event # <<>>
    /\ Accepts(Front(event), Last(event))
    /\ \/ Front(event) = <<>>
       \/ Len(event) - 1 \in synced /\ Front(event) = files[Len(event) - 1].event

CallFits(c) ==
    /\ c \in [pc : {"none", "replay", "rename", "confirm"}, listed : SUBSET Positions,
              staged : SUBSET (Processes \cup {"orphan"}), event : Seq(Body)]
    /\ \E l \in 0 .. MaxEvents : c.listed = 1 .. l
    /\ c.listed \subseteq Finals
    /\ c.pc = "rename" => OnDurable(c.event)

CallsFit ==
    /\ DOMAIN call = Processes /\ call = [p \in Processes |-> call[p]]
    /\ \A p \in Processes : CallFits(call[p])

TaskFits(i) ==
    /\ i \in [purpose : {"none", "launch", "run", "append", "publish"}, slot : Slots \cup {None},
              capture : Tags \cup {None}, token : Seq(Body), body : Body \cup {None}]
    /\ i.purpose \in {"run", "append", "publish"} => i.slot \in Slots
    /\ i.purpose = "append" => i.body \in Body

TasksFit ==
    /\ invocation = [p \in Processes |-> invocation[p]]
    /\ \A p \in Processes : TaskFits(invocation[p])

ToldFits ==
    /\ told \in Seq(Body)
    /\ told # <<>> => Len(told) \in synced /\ told = files[Len(told)].event

IInv == FilesFit /\ SyncedFits /\ CallsFit /\ TasksFit /\ ToldFits

USE StoreAssumption, RuntimeAssumption

-----------------------------------------------------------------------------
(* Facts about one state. *)

LEMMA HistoryOfPrefix ==
    ASSUME NEW l \in Nat
    PROVE  HistoryOf(1 .. l) = IF l = 0 THEN <<>> ELSE files[l].event
  <1>1. CASE l = 0
    BY <1>1 DEF HistoryOf
  <1>2. CASE l # 0
    <2>1. l \in 1 .. l /\ \A m \in 1 .. l : m <= l
      BY <1>2
    <2>2. \A n \in 1 .. l : (\A m \in 1 .. l : m <= n) => n = l
      BY <1>2
    <2>3. (CHOOSE n \in 1 .. l : \A m \in 1 .. l : m <= n) = l
      BY <2>1, <2>2
    <2> QED BY <1>2, <2>1, <2>3 DEF HistoryOf
  <1> QED BY <1>1, <1>2

LEMMA FileFacts ==
    ASSUME FilesFit, NEW n \in Finals
    PROVE  /\ n \in Positions /\ n \in Nat \ {0}
           /\ files[n] \in [event : Seq(Body), flushed : {TRUE}]
           /\ files[n].event \in Seq(Body) /\ files[n].event # <<>>
           /\ Len(files[n].event) = n
           /\ \A m \in 1 .. n : m \in Finals
  <1>1. n \in Positions /\ files[n] # NoFile
    BY DEF Finals
  <1>2. files[n] \in [event : Seq(Body), flushed : {TRUE}]
    BY <1>1 DEF FilesFit
  <1>3. Len(files[n].event) = n
    BY DEF FilesFit
  <1>4. \A m \in 1 .. n : m \in Finals
    BY DEF FilesFit
  <1>5. n \in Nat \ {0}
    BY <1>1 DEF Positions
  <1>6. files[n].event # <<>>
    BY <1>3, <1>5, Len(<<>>) = 0
  <1> QED BY <1>1, <1>2, <1>3, <1>4, <1>5, <1>6

\* What a replay returns is a history whose last event has a final name.
LEMMA ListedHistory ==
    ASSUME FilesFit, NEW c, CallFits(c)
    PROVE  LET log == HistoryOf(c.listed)
           IN  /\ log \in Seq(Body)
               /\ log # <<>> => Len(log) \in Finals /\ log = files[Len(log)].event
  <1>1. PICK l \in 0 .. MaxEvents : c.listed = 1 .. l
    BY DEF CallFits
  <1>2. CASE l = 0
    BY <1>1, <1>2, HistoryOfPrefix, EmptySeq
  <1>3. CASE l # 0
    <2>1. l \in Finals
      BY <1>1, <1>3 DEF CallFits
    <2>2. HistoryOf(c.listed) = files[l].event
      BY <1>1, <1>3, HistoryOfPrefix
    <2> QED BY <2>1, <2>2, FileFacts
  <1> QED BY <1>2, <1>3

-----------------------------------------------------------------------------
(* Steps. *)

\* Steps that leave the files alone, and at most sync the directory.
LEMMA QuietStore ==
    ASSUME IInv, UNCHANGED files, synced' = synced \/ synced' = Finals
    PROVE  /\ Finals' = Finals
           /\ FilesFit'
           /\ SyncedFits'
           /\ \A c : CallFits(c) => CallFits(c)'
           /\ UNCHANGED told => ToldFits'
  <1>1. Finals' = Finals
    BY DEF Finals
  <1>2. FilesFit'
    BY <1>1 DEF IInv, FilesFit
  <1>3. synced \subseteq synced'
    BY DEF IInv, SyncedFits
  <1>4. SyncedFits'
    BY <1>1, <1>3 DEF IInv, SyncedFits, FilesFit
  <1>5. \A c : CallFits(c) => CallFits(c)'
    BY <1>1, <1>3 DEF CallFits, OnDurable
  <1>6. UNCHANGED told => ToldFits'
    BY <1>3 DEF IInv, ToldFits
  <1> QED BY <1>1, <1>2, <1>4, <1>5, <1>6

LEMMA IdleFits ==
    ASSUME TRUE
    PROVE  CallFits(Idle) /\ CallFits(Idle)'
  <1>1. Idle \in [pc : {"none", "replay", "rename", "confirm"}, listed : SUBSET Positions,
                  staged : SUBSET (Processes \cup {"orphan"}), event : Seq(Body)]
    BY EmptySeq DEF Idle
  <1>2. Idle.listed = 1 .. 0 /\ Idle.listed = {} /\ Idle.pc # "rename"
    BY DEF Idle
  <1>3. 0 \in 0 .. MaxEvents
    OBVIOUS
  <1>4. \E l \in 0 .. MaxEvents : Idle.listed = 1 .. l
    BY <1>2, <1>3, Zenon
  <1> QED BY <1>1, <1>2, <1>4 DEF CallFits

LEMMA ListedFits ==
    ASSUME IInv
    PROVE  CallFits(Listed)
  <1>1. Finals \subseteq Positions /\ Staging \subseteq Processes
    BY DEF Finals, Staging
  <1>2. /\ Listed \in [pc : {"none", "replay", "rename", "confirm"}, listed : SUBSET Positions,
                       staged : SUBSET (Processes \cup {"orphan"}), event : Seq(Body)]
        /\ Listed.listed = Finals
        /\ Listed.pc = "replay"
    BY <1>1, EmptySeq DEF Listed, Idle
  <1> QED BY <1>2 DEF CallFits, IInv, FilesFit

LEMMA AsleepFits == TaskFits(Asleep)
  BY EmptySeq DEF TaskFits, Asleep

\* An invocation that ends, or asks for the next replay, and may report a success.
LEMMA QuietStep ==
    ASSUME IInv, NEW p \in Processes,
           UNCHANGED files, synced' = synced \/ synced' = Finals,
           End(p) \/ \E t : TaskFits(t) /\ ReplayFor(p, t),
           \/ UNCHANGED told
           \/ /\ told' \in Seq(Body)
              /\ told' # <<>> => Len(told') \in synced' /\ told' = files[Len(told')].event
    PROVE  IInv'
  <1>1. /\ FilesFit' /\ SyncedFits'
        /\ \A c : CallFits(c) => CallFits(c)'
        /\ UNCHANGED told => ToldFits'
    BY QuietStore
  <1>2. ToldFits'
    BY <1>1 DEF ToldFits
  <1>3. \E c : CallFits(c) /\ call' = [call EXCEPT ![p] = c]
    BY IdleFits, ListedFits DEF End, ReplayFor
  <1>4. CallsFit'
    <2>1. PICK c : CallFits(c) /\ call' = [call EXCEPT ![p] = c]
      BY <1>3
    <2>2. CallFits(c)' /\ \A q \in Processes : CallFits(call[q])
      BY <1>1, <2>1 DEF IInv, CallsFit
    <2>3. \A q \in Processes : call'[q] = IF q = p THEN c ELSE call[q]
      BY <2>1 DEF IInv, CallsFit
    <2>4. ASSUME NEW q \in Processes PROVE CallFits(call[q])'
      <3>1. ASSUME NEW d, CallFits(d) PROVE CallFits(d)'
        BY <1>1, <3>1
      <3>2. CASE q = p
        BY <2>2, <2>3, <3>2 DEF CallFits, OnDurable
      <3>3. CASE q # p
        <4>1. PICK d : d = call[q] /\ CallFits(d)
          BY <2>2
        <4>2. CallFits(d)' /\ call'[q] = d
          BY <4>1, <3>1, <2>3, <3>3
        <4> QED BY <4>2 DEF CallFits, OnDurable
      <3> QED BY <3>2, <3>3
    <2> QED BY <2>1, <2>3, <2>4 DEF IInv, CallsFit
  <1>5. TasksFit'
    BY AsleepFits DEF IInv, TasksFit, End, ReplayFor
  <1> QED BY <1>1, <1>2, <1>4, <1>5 DEF IInv

\* What a replay returned is durable when it returns.
LEMMA ReplayedFacts ==
    ASSUME IInv, NEW p \in Processes, NEW log, Replayed(p, log)
    PROVE  /\ log \in Seq(Body)
           /\ log # <<>> => Len(log) \in synced' /\ log = files[Len(log)].event
           /\ synced' = synced \/ synced' = Finals
  <1>1. CallFits(call[p]) /\ FilesFit
    BY DEF IInv, CallsFit
  <1>2. log = HistoryOf(call[p].listed) /\ synced' = IF log = <<>> THEN synced ELSE Finals
    BY DEF Replayed
  <1> QED BY <1>1, <1>2, ListedHistory

LEMMA ReportFacts ==
    ASSUME NEW log, Report(log)
    PROVE  UNCHANGED told \/ told' = log
  BY DEF Report

LEMMA DueFacts ==
    ASSUME NEW p, NEW log, TaskFits(invocation[p]), invocation[p].purpose = "run",
           MayRun(p, log), NEW b \in Due(p, log)
    PROVE  b \in Body
  <1> DEFINE s == invocation[p].slot
             stage == StageOf(log, s)
  <1>1. s \in Slots
    BY DEF TaskFits
  <1>2. CASE stage = "NONE"
    <2>1. invocation[p].capture \in Tags
      BY <1>2 DEF MayRun, TaskFits
    <2>2. b = [kind |-> "INPUT_PREPARED", slot |-> s, tag |-> invocation[p].capture]
      BY <1>2 DEF Due
    <2> QED BY <1>1, <2>1, <2>2 DEF Body, Kinds
  <1>3. CASE stage = "INPUT_PREPARED"
    <2>1. PICK t \in Tags, k \in {"RESULT_PREPARED", "SLOT_FAILED_PERMANENT"} :
            b = [kind |-> k, slot |-> s, tag |-> t]
      BY <1>3 DEF Due
    <2> QED BY <1>1, <2>1 DEF Body, Kinds
  <1>4. CASE stage = "RESULT_PREPARED"
    <2>1. PICK t \in Tags : b = [kind |-> "SLOT_SUCCEEDED", slot |-> s, tag |-> t]
      BY <1>4 DEF Due
    <2> QED BY <1>1, <2>1 DEF Body, Kinds
  <1>5. stage \in {"NONE", "INPUT_PREPARED", "RESULT_PREPARED"}
    BY DEF MayRun, ActiveSlots
  <1> QED BY <1>2, <1>3, <1>4, <1>5

\* The number of the next slot is one.
LEMMA NextSlotFacts ==
    ASSUME NEW log \in Seq(Body), NextSlot(log) <= MaxSlots
    PROVE  NextSlot(log) \in Slots
  <1>1. \A n \in DOMAIN log : log[n] \in Body
    BY ElementOfSeq, LenProperties
  <1>2. Succeeded(log) \subseteq Slots
    BY <1>1 DEF Succeeded, Of, Body
  <1>3. IsFiniteSet(Succeeded(log))
    BY <1>2, FS_Interval, FS_Subset DEF Slots
  <1>4. Cardinality(Succeeded(log)) \in Nat
    BY <1>3, FS_CardinalityType
  <1> QED BY <1>4 DEF NextSlot, Slots

-----------------------------------------------------------------------------
(* Every step preserves the invariant. *)

\* A decision of the invocation that ends it or asks for the next replay.
LEMMA DecisionStep ==
    ASSUME IInv, NEW p \in Processes, NEW log, Returns(p, log),
           End(p) \/ \E t : TaskFits(t) /\ ReplayFor(p, t),
           UNCHANGED told \/ Report(log)
    PROVE  IInv'
  <1>1. /\ log \in Seq(Body)
        /\ log # <<>> => Len(log) \in synced' /\ log = files[Len(log)].event
        /\ synced' = synced \/ synced' = Finals
    BY ReplayedFacts DEF Returns
  <1>2. UNCHANGED told \/ told' = log
    BY ReportFacts
  <1> QED BY <1>1, <1>2, QuietStep DEF Returns

LEMMA LaunchStep ==
    ASSUME IInv, NEW p \in Processes, Launch(p)
    PROVE  IInv'
  <1>1. TaskFits([Asleep EXCEPT !.purpose = "launch"])
    BY AsleepFits DEF TaskFits, Asleep
  <1> QED BY <1>1, QuietStep DEF Launch

LEMMA LaunchDecisions ==
    ASSUME IInv, NEW p \in Processes, NEW log, Returns(p, log),
           \/ LaunchResumes(p, log) \/ LaunchReports(p, log) \/ LaunchCaptures(p, log)
           \/ LaunchRefused(p, log)
    PROVE  IInv'
  <1>1. TaskFits(Asleep)
    BY AsleepFits
  <1>2. CASE LaunchResumes(p, log)
    <2>1. ASSUME NEW s \in ActiveSlots(log)
          PROVE  TaskFits([Asleep EXCEPT !.purpose = "run", !.slot = s])
      BY <1>1 DEF TaskFits, Asleep, ActiveSlots
    <2> QED BY <1>2, <2>1, DecisionStep DEF LaunchResumes
  <1>3. CASE LaunchReports(p, log)
    BY <1>3, DecisionStep DEF LaunchReports
  <1>4. CASE LaunchCaptures(p, log)
    <2>1. NextSlot(log) \in Slots
      BY <1>4, ReplayedFacts, NextSlotFacts DEF Returns, LaunchCaptures
    <2>2. ASSUME NEW capture \in Tags
          PROVE  TaskFits([Asleep EXCEPT !.purpose = "run", !.slot = NextSlot(log),
                                         !.capture = capture])
      BY <1>1, <2>1 DEF TaskFits, Asleep
    <2> QED BY <1>4, <2>2, DecisionStep DEF LaunchCaptures
  <1>5. CASE LaunchRefused(p, log)
    BY <1>5, DecisionStep DEF LaunchRefused
  <1> QED BY <1>2, <1>3, <1>4, <1>5

LEMMA RunDecisions ==
    ASSUME IInv, NEW p \in Processes, NEW log, Returns(p, log),
           RunStage(p, log) \/ RunEnds(p, log) \/ AppendRaises(p, log)
    PROVE  IInv'
  <1>1. TaskFits(invocation[p])
    BY DEF IInv, TasksFit
  <1>2. CASE RunStage(p, log)
    <2>1. log \in Seq(Body) /\ invocation[p].purpose = "run" /\ MayRun(p, log)
      BY <1>2, ReplayedFacts DEF Returns, RunStage
    <2>2. ASSUME NEW b \in Due(p, log)
          PROVE  TaskFits([invocation[p] EXCEPT !.purpose = "append", !.capture = None,
                                                !.token = log, !.body = b])
      <3>1. b \in Body
        BY <1>1, <2>1, DueFacts
      <3> QED BY <1>1, <2>1, <3>1 DEF TaskFits
    <2> QED BY <1>2, <2>2, DecisionStep DEF RunStage
  <1>3. CASE RunEnds(p, log)
    BY <1>3, DecisionStep DEF RunEnds
  <1>4. CASE AppendRaises(p, log)
    BY <1>4, DecisionStep DEF AppendRaises
  <1> QED BY <1>2, <1>3, <1>4

LEMMA AppendedStep ==
    ASSUME IInv, NEW p \in Processes, Appended(p)
    PROVE  IInv'
  <1>1. UNCHANGED <<files, told>> /\ synced' = Finals
    BY DEF Appended, Published
  <1>2. /\ invocation[p].purpose = "publish"
        /\ \/ End(p)
           \/ ReplayFor(p, [invocation[p] EXCEPT !.purpose = "run"])
    BY DEF Appended
  <1>3. CASE End(p)
    BY <1>1, <1>3, QuietStep
  <1>4. CASE ReplayFor(p, [invocation[p] EXCEPT !.purpose = "run"])
    <2>1. TaskFits([invocation[p] EXCEPT !.purpose = "run"])
      BY <1>2 DEF IInv, TasksFit, TaskFits
    <2> QED BY <1>1, <1>4, <2>1, QuietStep
  <1> QED BY <1>2, <1>3, <1>4

\* A step that only moves one call on, over files that stay or grow by it.
LEMMA CallMoves ==
    ASSUME IInv, NEW p \in Processes, NEW c, call' = [call EXCEPT ![p] = c], CallFits(c)',
           \A d : CallFits(d) => CallFits(d)'
    PROVE  CallsFit'
  <1>1. \A q \in Processes : call'[q] = IF q = p THEN c ELSE call[q]
    BY DEF IInv, CallsFit
  <1>2. ASSUME NEW q \in Processes PROVE CallFits(call[q])'
    <2>1. CASE q = p
      BY <1>1, <2>1 DEF CallFits, OnDurable
    <2>2. CASE q # p
      <3>1. PICK d : d = call[q] /\ CallFits(d)
        BY DEF IInv, CallsFit
      <3>2. CallFits(d)' /\ call'[q] = d
        BY <3>1, <1>1, <2>2
      <3> QED BY <3>2 DEF CallFits, OnDurable
    <2> QED BY <2>1, <2>2
  <1> QED BY <1>1, <1>2 DEF IInv, CallsFit

LEMMA PublishingFits ==
    ASSUME NEW e \in Seq(Body)
    PROVE  /\ Publishing(e) \in [pc : {"none", "replay", "rename", "confirm"},
                                 listed : SUBSET Positions,
                                 staged : SUBSET (Processes \cup {"orphan"}), event : Seq(Body)]
           /\ Publishing(e).listed = {}
           /\ Publishing(e).event = e
  <1>1. PICK pc \in {"confirm", "rename"} : Publishing(e) = [Idle EXCEPT !.pc = pc, !.event = e]
    BY Zenon DEF Publishing
  <1> QED BY <1>1 DEF Idle

LEMMA AppendPublishesStep ==
    ASSUME IInv, NEW p \in Processes, NEW log, Returns(p, log), AppendPublishes(p, log)
    PROVE  IInv'
  <1>1. PICK body :
                /\ body = invocation[p].body
                /\ invocation[p].purpose = "append"
                /\ MayAppend(p, log)
                /\ call' = [call EXCEPT ![p] = Publishing(Append(log, body))]
                /\ invocation' = [invocation EXCEPT ![p].purpose = "publish",
                                                    ![p].token = <<>>, ![p].body = None]
                /\ UNCHANGED told
    BY DEF AppendPublishes
  <1>2. /\ log \in Seq(Body)
        /\ log # <<>> => Len(log) \in synced' /\ log = files[Len(log)].event
        /\ synced' = synced \/ synced' = Finals
        /\ UNCHANGED files
    BY ReplayedFacts DEF Returns
  <1>3. TaskFits(invocation[p]) /\ invocation[p].purpose = "append"
    BY <1>1 DEF IInv, TasksFit
  <1>4. body \in Body
    BY <1>1, <1>3 DEF TaskFits
  <1>5. PICK event : event = Append(log, body)
    OBVIOUS
  <1>6. /\ event \in Seq(Body) /\ Len(event) = Len(log) + 1
        /\ Front(event) = log /\ Last(event) = body
    BY <1>2, <1>4, <1>5, AppendFacts
  <1>7. /\ FilesFit' /\ SyncedFits' /\ ToldFits' /\ Finals' = Finals
        /\ \A c : CallFits(c) => CallFits(c)'
    BY <1>1, <1>2, QuietStore
  <1>8. Accepts(log, body)
    BY <1>1 DEF MayAppend
  <1>9. OnDurable(event)'
    <2>1. Len(log) \in Nat /\ Len(event) - 1 = Len(log)
      BY <1>2, <1>6, LenProperties
    <2>2. event # <<>>
      BY <2>1, <1>6, Len(<<>>) = 0
    <2>3. log # <<>> => Len(event) - 1 \in synced' /\ log = files'[Len(event) - 1].event
      BY <1>2, <2>1
    <2> QED BY <2>2, <2>3, <1>6, <1>8 DEF OnDurable
  <1>10. PICK c : c = Publishing(event)
    OBVIOUS
  <1>11. CallFits(c)'
    <2>1. /\ c \in [pc : {"none", "replay", "rename", "confirm"}, listed : SUBSET Positions,
                    staged : SUBSET (Processes \cup {"orphan"}), event : Seq(Body)]
          /\ c.listed = {} /\ c.event = event
      BY <1>6, <1>10, PublishingFits
    <2>2. c.listed = 1 .. 0
      BY <2>1
    <2>3. 0 \in 0 .. MaxEvents
      OBVIOUS
    <2>4. \E l \in 0 .. MaxEvents : c.listed = 1 .. l
      BY <2>2, <2>3, Zenon
    <2> QED BY <2>1, <2>4, <1>9 DEF CallFits, OnDurable
  <1>12. CallsFit'
    BY <1>1, <1>5, <1>7, <1>10, <1>11, CallMoves
  <1>13. TasksFit'
    <2>1. TaskFits([invocation[p] EXCEPT !.purpose = "publish", !.token = <<>>, !.body = None])
      BY <1>3, EmptySeq DEF TaskFits
    <2>2. invocation' = [invocation EXCEPT ![p] = [invocation[p] EXCEPT
                            !.purpose = "publish", !.token = <<>>, !.body = None]]
      BY <1>1 DEF IInv, TasksFit
    <2> QED BY <2>1, <2>2 DEF IInv, TasksFit
  <1> QED BY <1>7, <1>12, <1>13 DEF IInv

LEMMA RenameRepeatsStep ==
    ASSUME IInv, NEW p \in Processes, RenameRepeats(p), UNCHANGED <<invocation, told>>
    PROVE  IInv'
  <1>1. /\ FilesFit' /\ SyncedFits' /\ ToldFits'
        /\ \A c : CallFits(c) => CallFits(c)'
    BY QuietStore DEF RenameRepeats
  <1>2. PICK c : c = [call[p] EXCEPT !.pc = "confirm"]
    OBVIOUS
  <1>3. CallFits(call[p])
    BY DEF IInv, CallsFit
  <1>4. CallFits(c)
    BY <1>2, <1>3 DEF CallFits
  <1>5. call' = [call EXCEPT ![p] = c]
    BY <1>2 DEF RenameRepeats
  <1>6. CallFits(c)'
    BY <1>1, <1>4
  <1>7. CallsFit'
    BY <1>1, <1>5, <1>6, CallMoves
  <1> QED BY <1>1, <1>7 DEF IInv, TasksFit

\* Where the event of a publisher finds its name free, it is the next one.
LEMMA RenameGrows ==
    ASSUME IInv, NEW p \in Processes, Rename(p)
    PROVE  \E k \in 0 .. MaxEvents, e \in Seq(Body) :
             /\ Finals = 1 .. k
             /\ e = call[p].event
             /\ Len(e) = k + 1
             /\ Front(e) = HistoryOf(1 .. k)
             /\ Accepts(Front(e), Last(e))
             /\ Front(e) \in Seq(Body) /\ Last(e) \in Body /\ e = Append(Front(e), Last(e))
             /\ synced = 1 .. k
             /\ \/ k = MaxEvents /\ UNCHANGED files
                \/ /\ k + 1 \in Positions
                   /\ files' = [files EXCEPT ![k + 1] = [event |-> e, flushed |-> TRUE]]
                   /\ Finals' = 1 .. (k + 1)
  <1>1. PICK e : e = call[p].event
    OBVIOUS
  <1>2. /\ e \in Seq(Body) /\ OnDurable(e)
        /\ Len(e) \notin Finals
        /\ files' = [files EXCEPT ![Len(e)] = [event |-> e, flushed |-> TRUE]]
    BY <1>1 DEF IInv, CallsFit, CallFits, Rename, StagedFile
  <1>3. PICK k \in 0 .. MaxEvents : Finals = 1 .. k
    BY DEF IInv, FilesFit
  <1>4. PICK j \in 0 .. MaxEvents : synced = 1 .. j
    BY DEF IInv, SyncedFits
  <1>5. j <= k /\ (k > 0 => k - 1 \in synced \cup {0})
    <2>1. 1 .. j \subseteq 1 .. k
      BY <1>3, <1>4 DEF IInv, SyncedFits
    <2>2. ASSUME k > 0 PROVE k - 1 \in synced \cup {0}
      <3>1. k \in Finals
        BY <1>3, <2>2
      <3> QED BY <3>1 DEF IInv, SyncedFits
    <2>3. j <= k
      <3>1. CASE j = 0
        BY <3>1
      <3>2. CASE j # 0
        <4>1. j \in 1 .. j
          BY <3>2
        <4> QED BY <2>1, <4>1
      <3> QED BY <3>1, <3>2
    <2> QED BY <2>2, <2>3
  <1>6. /\ Len(e) \in Nat \ {0}
        /\ Front(e) \in Seq(Body) /\ Last(e) \in Body /\ e = Append(Front(e), Last(e))
        /\ Len(Front(e)) = Len(e) - 1
    BY <1>2, FrontFacts DEF OnDurable
  <1>7. Len(e) = k + 1 /\ j = k
    <2>1. CASE Front(e) = <<>>
      <3>1. Len(e) = 1
        BY <1>6, <2>1, Len(<<>>) = 0
      <3> QED BY <3>1, <1>2, <1>3, <1>5
    <2>2. CASE Len(e) - 1 \in synced
      BY <2>2, <1>2, <1>3, <1>4, <1>5, <1>6
    <2> QED BY <2>1, <2>2, <1>2 DEF OnDurable
  <1>8. Front(e) = HistoryOf(1 .. k)
    <2>1. CASE k = 0
      BY <2>1, <1>6, <1>7, HistoryOfPrefix, EmptySeq, Front(e) = <<>>
    <2>2. CASE k # 0
      <3>1. Front(e) # <<>>
        BY <2>2, <1>6, <1>7, Len(<<>>) = 0
      <3>2. Front(e) = files[Len(e) - 1].event /\ Len(e) - 1 = k
        BY <3>1, <1>2, <1>7 DEF OnDurable
      <3> QED BY <2>2, <3>2, HistoryOfPrefix
    <2> QED BY <2>1, <2>2
  <1>9. CASE k = MaxEvents
    <2>1. Len(e) \notin Positions
      BY <1>7, <1>9 DEF Positions
    <2>2. files' = files
      BY <2>1, <1>2 DEF IInv, FilesFit
    <2> QED BY <1>1, <1>2, <1>3, <1>4, <1>6, <1>7, <1>8, <1>9, <2>2 DEF OnDurable
  <1>10. CASE k # MaxEvents
    <2>1. k + 1 \in Positions
      BY <1>10 DEF Positions
    <2>2. [event |-> e, flushed |-> TRUE] # NoFile
      <3>1. [event |-> e, flushed |-> TRUE] \in [event : Seq(Body), flushed : BOOLEAN]
        BY <1>2
      <3> QED BY <3>1
    <2>3. \A n \in Positions : files'[n] # NoFile <=> n = k + 1 \/ files[n] # NoFile
      BY <1>2, <1>7, <2>1, <2>2 DEF IInv, FilesFit
    <2>4. Finals' = Finals \cup {k + 1}
      BY <2>1, <2>3 DEF Finals
    <2>5. Finals' = 1 .. (k + 1)
      BY <2>4, <1>3
    <2> QED BY <1>1, <1>2, <1>3, <1>4, <1>6, <1>7, <1>8, <2>1, <2>5 DEF OnDurable
  <1> QED BY <1>9, <1>10

LEMMA RenameStep ==
    ASSUME IInv, NEW p \in Processes, Rename(p), UNCHANGED <<invocation, told>>
    PROVE  IInv'
  <1>1. PICK k \in 0 .. MaxEvents, e \in Seq(Body) :
             /\ Finals = 1 .. k
             /\ e = call[p].event
             /\ Len(e) = k + 1
             /\ Front(e) = HistoryOf(1 .. k)
             /\ Accepts(Front(e), Last(e))
             /\ Front(e) \in Seq(Body) /\ Last(e) \in Body /\ e = Append(Front(e), Last(e))
             /\ synced = 1 .. k
             /\ \/ k = MaxEvents /\ UNCHANGED files
                \/ /\ k + 1 \in Positions
                   /\ files' = [files EXCEPT ![k + 1] = [event |-> e, flushed |-> TRUE]]
                   /\ Finals' = 1 .. (k + 1)
    BY RenameGrows
  <1>2. PICK c : c = [call[p] EXCEPT !.pc = "confirm"]
    OBVIOUS
  <1>3. CallFits(call[p])
    BY DEF IInv, CallsFit
  <1>4. CallFits(c)
    BY <1>2, <1>3 DEF CallFits
  <1>5. call' = [call EXCEPT ![p] = c]
    BY <1>2 DEF Rename
  <1>6. UNCHANGED synced
    BY DEF Rename
  <1>7. CASE UNCHANGED files
    <2>1. /\ FilesFit' /\ SyncedFits' /\ ToldFits'
          /\ \A d : CallFits(d) => CallFits(d)'
      BY <1>6, <1>7, QuietStore
    <2>2. CallsFit'
      BY <1>4, <1>5, <2>1, CallMoves
    <2> QED BY <2>1, <2>2 DEF IInv, TasksFit
  <1>8. CASE /\ k + 1 \in Positions
             /\ files' = [files EXCEPT ![k + 1] = [event |-> e, flushed |-> TRUE]]
             /\ Finals' = 1 .. (k + 1)
    <2>1. /\ k + 1 \notin Finals
          /\ files'[k + 1] = [event |-> e, flushed |-> TRUE]
          /\ \A n \in Finals : files'[n] = files[n] /\ n \in 1 .. k
      BY <1>1, <1>8 DEF IInv, FilesFit, Finals
    <2>2. FilesFit'
      <3>1. files' \in [Positions -> {NoFile} \cup [event : Seq(Body), flushed : {TRUE}]]
        BY <1>8 DEF IInv, FilesFit
      <3>2. k + 1 \in 0 .. MaxEvents
        BY <1>8 DEF Positions
      <3>3. ASSUME NEW m \in 1 .. k
            PROVE  files'[m].event = SubSeq(e, 1, m)
        <4>1. k # 0 /\ k \in Finals /\ m \in Finals
          BY <1>1
        <4>2. Front(e) = files[k].event
          BY <1>1, <4>1, HistoryOfPrefix
        <4>3. files[m].event = SubSeq(files[k].event, 1, m)
          BY <4>1 DEF IInv, FilesFit
        <4>4. k + 1 \in 1 .. Len(e) /\ k \in 1 .. Len(e) /\ m \in 1 .. k
          BY <1>1, <4>1
        <4>5. SubSeq(SubSeq(e, 1, k), 1, m) = SubSeq(e, 1, m)
          BY <4>4, SubSeqFacts
        <4>6. Front(e) = SubSeq(e, 1, k)
          BY <1>1 DEF Front
        <4> QED BY <2>1, <4>1, <4>2, <4>3, <4>5, <4>6
      <3>4. files'[k + 1].event = SubSeq(e, 1, k + 1)
        BY <1>1, <2>1, SubSeqWhole
      <3>5. \A m \in 1 .. (k + 1) : files'[m].event = SubSeq(e, 1, m)
        BY <3>3, <3>4
      <3>6. \A n \in Finals :
              /\ Len(files[n].event) = n
              /\ Accepts(Front(files[n].event), Last(files[n].event))
              /\ \A m \in 1 .. n : m \in Finals /\ files[m].event = SubSeq(files[n].event, 1, m)
        BY <1>1 DEF IInv, FilesFit
      <3>7. ASSUME NEW n \in Finals'
            PROVE  /\ Len(files'[n].event) = n
                   /\ Accepts(Front(files'[n].event), Last(files'[n].event))
                   /\ \A m \in 1 .. n : files'[m].event = SubSeq(files'[n].event, 1, m)
        <4>1. CASE n = k + 1
          BY <1>1, <2>1, <3>5, <4>1
        <4>2. CASE n \in Finals
          BY <2>1, <3>6, <4>2
        <4> QED BY <1>1, <1>8, <4>1, <4>2
      <3> QED BY <1>8, <3>1, <3>2, <3>7 DEF FilesFit
    <2>3. Finals \subseteq Finals'
      BY <1>1, <1>8
    <2>4. SyncedFits'
      <3>1. k \in synced \cup {0}
        BY <1>1
      <3> QED BY <1>1, <1>6, <1>8, <2>3, <3>1 DEF IInv, SyncedFits
    <2>5. ToldFits'
      BY <1>6, <2>1 DEF IInv, ToldFits, SyncedFits
    <2>6. ASSUME NEW d, CallFits(d)
          PROVE  CallFits(d)'
      BY <1>6, <2>1, <2>3, <2>6 DEF IInv, CallFits, OnDurable, SyncedFits
    <2>7. CallsFit'
      BY <1>4, <1>5, <2>6, CallMoves
    <2> QED BY <2>2, <2>4, <2>5, <2>7 DEF IInv, TasksFit
  <1> QED BY <1>1, <1>7, <1>8

LEMMA RaisesStep ==
    ASSUME IInv, NEW p \in Processes, Raises(p)
    PROVE  IInv'
  BY QuietStep DEF Raises, ReplayRaises, RenameConflicts

LEMMA SameCalls ==
    ASSUME IInv, UNCHANGED call, \A d : CallFits(d) => CallFits(d)'
    PROVE  CallsFit'
  <1>1. ASSUME NEW q \in Processes PROVE CallFits(call[q])'
    <2>1. PICK d : d = call[q] /\ CallFits(d)
      BY DEF IInv, CallsFit
    <2>2. CallFits(d)' /\ call'[q] = d
      BY <2>1
    <2> QED BY <2>2 DEF CallFits, OnDurable
  <1> QED BY <1>1 DEF IInv, CallsFit

LEMMA PublishStartStep ==
    ASSUME IInv, PublishStart
    PROVE  IInv'
  <1>1. UNCHANGED <<files, call, invocation>> /\ synced' = Finals
    BY DEF PublishStart
  <1>2. /\ FilesFit' /\ SyncedFits' /\ Finals' = Finals
        /\ \A c : CallFits(c) => CallFits(c)'
        /\ UNCHANGED told => ToldFits'
    BY <1>1, QuietStore
  <1>3. UNCHANGED told \/ told' = HistoryOf(Finals)
    BY DEF PublishStart, Report
  <1>4. ASSUME told' = HistoryOf(Finals) PROVE ToldFits'
    <2>1. PICK k \in 0 .. MaxEvents : Finals = 1 .. k
      BY DEF IInv, FilesFit
    <2>2. CASE k = 0
      BY <1>4, <2>1, <2>2, HistoryOfPrefix, EmptySeq DEF ToldFits
    <2>3. CASE k # 0
      <3>1. k \in Finals /\ told' = files[k].event
        BY <1>4, <2>1, <2>3, HistoryOfPrefix
      <3>2. files[k].event \in Seq(Body) /\ Len(files[k].event) = k
        BY <3>1, FileFacts DEF IInv
      <3> QED BY <1>1, <3>1, <3>2 DEF ToldFits
    <2> QED BY <2>2, <2>3
  <1>5. ToldFits'
    BY <1>2, <1>3, <1>4
  <1>6. CallsFit'
    BY <1>1, <1>2, SameCalls
  <1> QED BY <1>1, <1>2, <1>5, <1>6 DEF IInv, TasksFit

LEMMA DieStep ==
    ASSUME IInv, NEW p \in Processes, Die(p), UNCHANGED told,
           invocation' = [invocation EXCEPT ![p] = Asleep]
    PROVE  IInv'
  BY QuietStep DEF Die, End

\* A loss of power takes the last final name, or nothing.
LEMMA PowerLossTakesLast ==
    ASSUME IInv, PowerLoss
    PROVE  \E k \in 0 .. MaxEvents, j \in 0 .. MaxEvents, i \in 0 .. MaxEvents :
             /\ j <= i /\ i <= k
             /\ Finals = 1 .. k /\ synced = 1 .. j
             /\ synced' = 1 .. i /\ Finals' = 1 .. i
             /\ \A n \in 1 .. i : files'[n] = files[n]
             /\ files' \in [Positions -> {NoFile} \cup [event : Seq(Body), flushed : {TRUE}]]
  <1>1. PICK k \in 0 .. MaxEvents : Finals = 1 .. k
    BY DEF IInv, FilesFit
  <1>2. PICK j \in 0 .. MaxEvents : synced = 1 .. j
    BY DEF IInv, SyncedFits
  <1>3. PICK kept \in SUBSET (Finals \ synced) :
          /\ files' = [n \in Positions |-> IF n \in synced \cup kept THEN Survivor(files[n])
                                           ELSE NoFile]
          /\ synced' = synced \cup kept
    BY DEF PowerLoss
  <1>4. j <= k /\ k <= j + 1
    <2>1. 1 .. j \subseteq 1 .. k
      BY <1>1, <1>2 DEF IInv, SyncedFits
    <2>2. j <= k
      <3>1. CASE j = 0
        BY <3>1
      <3>2. CASE j # 0
        <4>1. j \in 1 .. j
          BY <3>2
        <4> QED BY <2>1, <4>1
      <3> QED BY <3>1, <3>2
    <2>3. CASE k = 0
      BY <2>2, <2>3
    <2>4. CASE k # 0
      <3>1. k \in Finals
        BY <1>1, <2>4
      <3>2. k - 1 \in synced \cup {0}
        BY <3>1 DEF IInv, SyncedFits
      <3> QED BY <2>2, <3>2, <1>2
    <2> QED BY <2>3, <2>4
  <1>5. PICK i \in j .. k : synced \cup kept = 1 .. i
    <2>1. CASE kept = {}
      BY <2>1, <1>2, <1>4
    <2>2. CASE kept # {}
      <3>1. \A n \in kept : n \in 1 .. k /\ n \notin 1 .. j
        BY <1>1, <1>2, <1>3
      <3>2. \A n \in kept : n = k /\ k = j + 1
        BY <3>1, <1>4
      <3>3. k = j + 1 /\ kept = {k}
        BY <2>2, <3>2
      <3> QED BY <3>3, <1>2
    <2> QED BY <2>1, <2>2
  <1>6. \A n \in synced \cup kept : n \in Finals /\ n \in Positions
    BY <1>3 DEF IInv, SyncedFits, Finals
  <1>7. \A n \in synced \cup kept : files'[n] = files[n]
    <2>1. ASSUME NEW n \in synced \cup kept PROVE files'[n] = files[n]
      <3>1. files[n] \in [event : Seq(Body), flushed : {TRUE}] /\ n \in Positions
        BY <1>6, FileFacts DEF IInv
      <3>2. Survivor(files[n]) = files[n]
        BY <3>1 DEF Survivor
      <3> QED BY <1>3, <3>1, <3>2
    <2> QED BY <2>1
  <1>8. files' \in [Positions -> {NoFile} \cup [event : Seq(Body), flushed : {TRUE}]]
    <2>1. ASSUME NEW n \in Positions
          PROVE  files'[n] \in {NoFile} \cup [event : Seq(Body), flushed : {TRUE}]
      BY <1>3, <1>7 DEF IInv, FilesFit
    <2> QED BY <1>3, <2>1
  <1>9. Finals' = synced \cup kept
    BY <1>3, <1>6, <1>7 DEF Finals
  <1>10. /\ synced' = 1 .. i /\ Finals' = 1 .. i
         /\ \A n \in 1 .. i : files'[n] = files[n]
    BY <1>3, <1>5, <1>7, <1>9
  <1>11. i \in 0 .. MaxEvents /\ j <= i /\ i <= k
    BY <1>5
  <1> QED BY <1>1, <1>2, <1>8, <1>10, <1>11

LEMMA PowerLossStep ==
    ASSUME IInv, PowerLoss, UNCHANGED told, invocation' = [p \in Processes |-> Asleep]
    PROVE  IInv'
  <1>1. PICK k \in 0 .. MaxEvents, j \in 0 .. MaxEvents, i \in 0 .. MaxEvents :
             /\ j <= i /\ i <= k
             /\ Finals = 1 .. k /\ synced = 1 .. j
             /\ synced' = 1 .. i /\ Finals' = 1 .. i
             /\ \A n \in 1 .. i : files'[n] = files[n]
             /\ files' \in [Positions -> {NoFile} \cup [event : Seq(Body), flushed : {TRUE}]]
    BY PowerLossTakesLast
  <1>2. i \in 0 .. MaxEvents /\ 1 .. i \subseteq Finals /\ synced \subseteq 1 .. i
    BY <1>1
  <1>3. FilesFit'
    <2>1. ASSUME NEW n \in 1 .. i
          PROVE  /\ Len(files'[n].event) = n
                 /\ Accepts(Front(files'[n].event), Last(files'[n].event))
                 /\ \A m \in 1 .. n : files'[m].event = SubSeq(files'[n].event, 1, m)
      <3>1. /\ Len(files[n].event) = n
            /\ Accepts(Front(files[n].event), Last(files[n].event))
            /\ \A m \in 1 .. n : files[m].event = SubSeq(files[n].event, 1, m)
        BY <1>2 DEF IInv, FilesFit
      <3>2. \A m \in 1 .. n : m \in 1 .. i
        OBVIOUS
      <3> QED BY <1>1, <3>1, <3>2
    <2> QED BY <1>1, <1>2, <2>1 DEF FilesFit
  <1>4. SyncedFits'
    BY <1>1, <1>2 DEF SyncedFits
  <1>5. CallsFit'
    <2>1. call' = [p \in Processes |-> Idle]
      BY DEF PowerLoss
    <2>2. CallFits(Idle)'
      BY IdleFits
    <2>3. ASSUME NEW q \in Processes PROVE CallFits(call[q])'
      <3>1. call'[q] = Idle
        BY <2>1
      <3> QED BY <2>2, <3>1 DEF CallFits, OnDurable, Idle
    <2> QED BY <2>1, <2>3 DEF CallsFit
  <1>6. TasksFit'
    BY AsleepFits DEF TasksFit
  <1>7. ToldFits'
    BY <1>1, <1>2 DEF IInv, ToldFits
  <1> QED BY <1>3, <1>4, <1>5, <1>6, <1>7 DEF IInv

-----------------------------------------------------------------------------

LEMMA InitIInv == Init => IInv
  <1> SUFFICES ASSUME Init PROVE IInv
    OBVIOUS
  <1> USE DEF Init, StoreInit
  <1>1. Finals = {} /\ 1 .. 0 = {}
    BY DEF Finals
  <1>2. FilesFit
    BY <1>1 DEF FilesFit
  <1>3. SyncedFits
    BY <1>1 DEF SyncedFits
  <1>4. CallsFit
    BY IdleFits DEF CallsFit
  <1>5. TasksFit
    BY AsleepFits DEF TasksFit
  <1>6. ToldFits
    BY EmptySeq DEF ToldFits
  <1> QED BY <1>2, <1>3, <1>4, <1>5, <1>6 DEF IInv

LEMMA NextIInv == IInv /\ [Next]_vars => IInv'
  <1> SUFFICES ASSUME IInv, [Next]_vars PROVE IInv'
    OBVIOUS
  <1>1. CASE UNCHANGED vars
    <2>1. /\ FilesFit' /\ SyncedFits' /\ ToldFits'
          /\ \A c : CallFits(c) => CallFits(c)'
      BY <1>1, QuietStore DEF vars
    <2>2. CallsFit'
      BY <1>1, <2>1, SameCalls DEF vars
    <2> QED BY <1>1, <2>1, <2>2 DEF IInv, TasksFit, vars
  <1>2. ASSUME NEW p \in Processes, Launch(p) \/ Step(p) PROVE IInv'
    <2>1. CASE Launch(p)
      BY <2>1, LaunchStep
    <2>2. ASSUME NEW log, Returns(p, log), Decides(p, log)
          PROVE  IInv'
      BY <2>2, LaunchDecisions, RunDecisions, AppendPublishesStep DEF Decides
    <2>3. ASSUME NEW log, Returns(p, log), End(p), UNCHANGED told
          PROVE  IInv'
      BY <2>3, DecisionStep
    <2>4. CASE Renames(p)
      BY <2>4, RenameStep, RenameRepeatsStep DEF Renames
    <2>5. CASE Appended(p)
      BY <2>5, AppendedStep
    <2>6. CASE Raises(p)
      BY <2>6, RaisesStep
    <2> QED BY <1>2, <2>1, <2>2, <2>3, <2>4, <2>5, <2>6 DEF Step
  <1>3. CASE PublishStart
    BY <1>3, PublishStartStep
  <1>4. CASE Fault
    BY <1>4, DieStep, PowerLossStep DEF Fault
  <1> QED BY <1>1, <1>2, <1>3, <1>4 DEF Next

LEMMA AlwaysIInv == Spec => []IInv
  BY InitIInv, NextIInv, PTL DEF Spec

-----------------------------------------------------------------------------
(* The type invariant. *)

\* What the parts of the state that only faults and the observer change may be.
FlagsFit == orphans \in BOOLEAN /\ started \in BOOLEAN /\ faults \in 0 .. MaxFaults

\* Only a fault is counted, and it finds a fault left to spend.
LEMMA NextFlags == FlagsFit /\ [Next]_vars => FlagsFit'
  <1> SUFFICES ASSUME FlagsFit, [Next]_vars PROVE FlagsFit'
    OBVIOUS
  <1> USE DEF FlagsFit
  <1>1. CASE UNCHANGED vars
    BY <1>1 DEF vars
  <1>2. ASSUME NEW p \in Processes, Launch(p) PROVE FlagsFit'
    BY <1>2 DEF Launch
  <1>3. ASSUME NEW p \in Processes, Step(p) PROVE FlagsFit'
    <2>1. ASSUME NEW log, Returns(p, log) PROVE FlagsFit'
      BY <2>1 DEF Returns
    <2>2. CASE Renames(p)
      BY <2>2 DEF Renames, Rename, RenameRepeats
    <2>3. CASE Appended(p)
      BY <2>3 DEF Appended, Published
    <2>4. CASE Raises(p)
      BY <2>4 DEF Raises, RenameConflicts
    <2> QED BY <1>3, <2>1, <2>2, <2>3, <2>4 DEF Step
  <1>4. CASE PublishStart
    BY <1>4 DEF PublishStart
  <1>5. CASE Fault
    <2>1. orphans' \in BOOLEAN
      BY <1>5 DEF Fault, Die, PowerLoss
    <2>2. started' \in BOOLEAN /\ faults' \in 0 .. MaxFaults
      BY <1>5 DEF Fault
    <2> QED BY <2>1, <2>2
  <1> QED BY <1>1, <1>2, <1>3, <1>4, <1>5 DEF Next

\* Files, calls and reports keep their types for any number of processes, slots and faults.
THEOREM TypeCorrectness == Spec => []TypeOK
  <1>1. Init => FlagsFit
    <2>1. Init => orphans \in BOOLEAN /\ started \in BOOLEAN
      BY Zenon DEF Init, StoreInit
    <2>2. Init => faults \in 0 .. MaxFaults
      BY SMT DEF Init
    <2> QED BY <2>1, <2>2, Zenon DEF FlagsFit
  <1>2. IInv /\ FlagsFit => TypeOK
    <2> SUFFICES ASSUME IInv, FlagsFit PROVE TypeOK
      OBVIOUS
    <2>1. \A n \in Finals : files[n].flushed \in BOOLEAN /\ files[n].event \in Seq(Body)
      BY DEF IInv, FilesFit, Finals
    <2>2. \A p \in Processes : call[p].listed \subseteq Finals /\ call[p].event \in Seq(Body)
      BY DEF IInv, CallsFit, CallFits
    <2>3. \A p \in Processes : invocation[p].token \in Seq(Body)
      BY DEF IInv, TasksFit, TaskFits
    <2>4. synced \subseteq Finals /\ told \in Seq(Body)
      BY DEF IInv, SyncedFits, ToldFits
    <2> QED BY <2>1, <2>2, <2>3, <2>4 DEF TypeOK, FlagsFit
  <1> QED BY <1>1, <1>2, NextFlags, AlwaysIInv, PTL DEF Spec

-----------------------------------------------------------------------------
(* The theorems. *)

\* The history of the final names, and that of the durable ones.
LEMMA Histories ==
    ASSUME FilesFit, SyncedFits
    PROVE  \E k \in 0 .. MaxEvents, j \in 0 .. MaxEvents :
             /\ Finals = 1 .. k /\ synced = 1 .. j /\ j <= k
             /\ Visible \in Seq(Body) /\ Len(Visible) = k
             /\ Durable \in Seq(Body) /\ Len(Durable) = j
             /\ \A m \in 1 .. k : files[m].event = SubSeq(Visible, 1, m)
             /\ \A m \in 1 .. j : files[m].event = SubSeq(Durable, 1, m)
  <1>1. PICK k \in 0 .. MaxEvents : Finals = 1 .. k
    BY DEF FilesFit
  <1>2. PICK j \in 0 .. MaxEvents : synced = 1 .. j
    BY DEF SyncedFits
  <1>3. 1 .. j \subseteq 1 .. k
    BY <1>1, <1>2 DEF SyncedFits
  <1>4. j <= k
    <2>1. CASE j = 0
      BY <2>1
    <2>2. CASE j # 0
      <3>1. j \in 1 .. j
        BY <2>2
      <3> QED BY <1>3, <3>1
    <2> QED BY <2>1, <2>2
  <1>5. ASSUME NEW l \in 0 .. k
        PROVE  /\ HistoryOf(1 .. l) \in Seq(Body) /\ Len(HistoryOf(1 .. l)) = l
               /\ \A m \in 1 .. l : files[m].event = SubSeq(HistoryOf(1 .. l), 1, m)
    <2>1. CASE l = 0
      <3>1. HistoryOf(1 .. l) = <<>> /\ 1 .. l = {}
        BY <2>1, HistoryOfPrefix
      <3> QED BY <2>1, <3>1, EmptySeq, Len(<<>>) = 0
    <2>2. CASE l # 0
      <3>1. l \in Finals /\ HistoryOf(1 .. l) = files[l].event
        BY <1>1, <2>2, HistoryOfPrefix
      <3>2. files[l].event \in Seq(Body) /\ Len(files[l].event) = l
        BY <3>1, FileFacts
      <3>3. \A m \in 1 .. l : files[m].event = SubSeq(files[l].event, 1, m)
        BY <3>1 DEF FilesFit
      <3> QED BY <3>1, <3>2, <3>3
    <2> QED BY <2>1, <2>2
  <1>6. k \in 0 .. k /\ j \in 0 .. k
    BY <1>4
  <1> QED BY <1>1, <1>2, <1>4, <1>5, <1>6 DEF Visible, Durable

\* A directory that satisfies the invariant is one that a replay takes.
LEMMA FitReplays == IInv => ReplayIsAccepted
  <1> SUFFICES ASSUME IInv PROVE ReplayIsAccepted
    OBVIOUS
  <1>1. PICK k \in 0 .. MaxEvents :
             /\ Finals = 1 .. k
             /\ Visible \in Seq(Body) /\ Len(Visible) = k
             /\ \A m \in 1 .. k : files[m].event = SubSeq(Visible, 1, m)
    BY Histories DEF IInv
  <1>2. ASSUME NEW n \in Finals
        PROVE  /\ 1 .. n \subseteq Finals
               /\ Len(files[n].event) = n
               /\ n > 1 => Front(files[n].event) = files[n - 1].event
    <2>1. n \in 1 .. Len(Visible)
      BY <1>1
    <2>2. Front(SubSeq(Visible, 1, n)) = SubSeq(Visible, 1, n - 1)
      BY <1>1, <2>1, SubSeqFacts
    <2>3. n > 1 => files[n - 1].event = SubSeq(Visible, 1, n - 1)
      BY <1>1, <2>1
    <2> QED BY <1>1, <2>1, <2>2, <2>3, FileFacts DEF IInv
  <1>3. ASSUME NEW n \in DOMAIN Visible
        PROVE  Accepts(SubSeq(Visible, 1, n - 1), Visible[n])
    <2>1. n \in 1 .. Len(Visible) /\ n \in Finals
      BY <1>1, LenProperties
    <2>2. Accepts(Front(files[n].event), Last(files[n].event))
      BY <2>1 DEF IInv, FilesFit
    <2>3. files[n].event = SubSeq(Visible, 1, n)
      BY <1>1, <2>1
    <2>4. /\ Front(SubSeq(Visible, 1, n)) = SubSeq(Visible, 1, n - 1)
          /\ Last(SubSeq(Visible, 1, n)) = Visible[n]
      BY <1>1, <2>1, SubSeqFacts
    <2> QED BY <2>2, <2>3, <2>4
  <1> QED BY <1>2, <1>3 DEF ReplayIsAccepted, Chained, Projects

\* Whatever dies and whatever is lost with the power, the directory never holds something that a
\* replay or the projection refuses.
THEOREM ReplayIsAlwaysAccepted == Spec => []ReplayIsAccepted
  BY AlwaysIInv, FitReplays, PTL

LEMMA FitReports == IInv => ReportedIsDurable
  <1> SUFFICES ASSUME IInv PROVE ReportedIsDurable
    OBVIOUS
  <1>1. PICK j \in 0 .. MaxEvents :
             /\ synced = 1 .. j
             /\ Durable \in Seq(Body) /\ Len(Durable) = j
             /\ \A m \in 1 .. j : files[m].event = SubSeq(Durable, 1, m)
    BY Histories DEF IInv
  <1>2. CASE told = <<>>
    <2>1. Len(told) = 0
      BY <1>2, Len(<<>>) = 0
    <2>2. SubSeq(told, 1, 0) = <<>> /\ SubSeq(Durable, 1, 0) = <<>>
      BY SubSeqEmpty
    <2> QED BY <1>1, <2>1, <2>2 DEF ReportedIsDurable, IsPrefix
  <1>3. CASE told # <<>>
    <2>1. Len(told) \in 1 .. j /\ told = SubSeq(Durable, 1, Len(told)) /\ told \in Seq(Body)
      BY <1>1, <1>3 DEF IInv, ToldFits
    <2>2. SubSeq(told, 1, Len(told)) = told
      BY <2>1, SubSeqWhole
    <2> QED BY <1>1, <2>1, <2>2 DEF ReportedIsDurable, IsPrefix
  <1> QED BY <1>2, <1>3

\* What an invocation or the start receipt reports as done is never lost, and never replaced.
THEOREM ReportedIsAlwaysDurable == Spec => []ReportedIsDurable
  BY AlwaysIInv, FitReports, PTL

-----------------------------------------------------------------------------
(* The directory implements the one sequence of events. *)

HistoriesFit ==
    \E k \in 0 .. MaxEvents, j \in 0 .. MaxEvents :
      /\ Finals = 1 .. k /\ synced = 1 .. j /\ j <= k
      /\ Visible \in Seq(Body) /\ Len(Visible) = k
      /\ Durable \in Seq(Body) /\ Len(Durable) = j
      /\ \A m \in 1 .. k : files[m].event = SubSeq(Visible, 1, m)
      /\ \A m \in 1 .. j : files[m].event = SubSeq(Durable, 1, m)

LEMMA IInvHistories == IInv => HistoriesFit
  BY Histories DEF IInv, HistoriesFit

LEMMA NextHistories == IInv /\ [Next]_vars => HistoriesFit'
  BY IInvHistories, NextIInv, PTL

LEMMA SameInterval ==
    ASSUME NEW a \in Nat, NEW b \in Nat, 1 .. a = 1 .. b
    PROVE  a = b
  <1>1. a > 0 => a \in 1 .. b
    OBVIOUS
  <1>2. b > 0 => b \in 1 .. a
    OBVIOUS
  <1> QED BY <1>1, <1>2

LEMMA QuietRefines ==
    ASSUME UNCHANGED files, synced' = synced \/ synced' = Finals
    PROVE  [EventLogOfStore!Next]_(EventLogOfStore!logVars)
  <1>1. Visible' = Visible
    BY DEF Visible, HistoryOf, Finals
  <1>2. Durable' = Durable \/ Durable' = Visible
    <2>1. CASE synced' = synced
      BY <2>1 DEF Durable, HistoryOf
    <2>2. CASE synced' = Finals
      BY <2>2 DEF Durable, Visible, HistoryOf
    <2> QED BY <2>1, <2>2
  <1> QED BY <1>1, <1>2 DEF EventLogOfStore!Next, EventLogOfStore!Confirm,
                            EventLogOfStore!logVars

LEMMA RenameRefines ==
    ASSUME IInv, HistoriesFit', NEW p \in Processes, Rename(p)
    PROVE  [EventLogOfStore!Next]_(EventLogOfStore!logVars)
  <1>1. PICK k \in 0 .. MaxEvents, e \in Seq(Body) :
             /\ Finals = 1 .. k
             /\ Len(e) = k + 1
             /\ Front(e) = HistoryOf(1 .. k)
             /\ Last(e) \in Body /\ e = Append(Front(e), Last(e))
             /\ synced = 1 .. k
             /\ \/ UNCHANGED files
                \/ /\ k + 1 \in Positions
                   /\ files' = [files EXCEPT ![k + 1] = [event |-> e, flushed |-> TRUE]]
                   /\ Finals' = 1 .. (k + 1)
    BY RenameGrows
  <1>2. UNCHANGED synced
    BY DEF Rename
  <1>3. CASE UNCHANGED files
    BY <1>2, <1>3, QuietRefines
  <1>4. CASE /\ k + 1 \in Positions
             /\ files' = [files EXCEPT ![k + 1] = [event |-> e, flushed |-> TRUE]]
             /\ Finals' = 1 .. (k + 1)
    <2>1. Visible = Front(e) /\ Durable = Front(e) /\ Len(Visible) = Len(Durable)
      BY <1>1 DEF Visible, Durable
    <2>2. Len(Durable) = Len(Durable')
      <3>1. PICK k0 \in 0 .. MaxEvents, j0 \in 0 .. MaxEvents :
              synced = 1 .. j0 /\ Len(Durable) = j0
        BY IInvHistories DEF HistoriesFit
      <3>2. PICK k1 \in 0 .. MaxEvents, j1 \in 0 .. MaxEvents :
              synced' = 1 .. j1 /\ Len(Durable') = j1
        BY DEF HistoriesFit
      <3> QED BY <1>2, <3>1, <3>2, SameInterval
    <2>3. Visible' = e
      <3>1. PICK k1 \in 0 .. MaxEvents :
              /\ Finals' = 1 .. k1
              /\ Visible' \in Seq(Body) /\ Len(Visible') = k1
              /\ \A m \in 1 .. k1 : files'[m].event = SubSeq(Visible', 1, m)
        BY DEF HistoriesFit
      <3>2. k1 = k + 1
        BY <1>4, <3>1, SameInterval
      <3>3. files'[k + 1].event = SubSeq(Visible', 1, k1)
        BY <3>1, <3>2
      <3>4. files'[k + 1].event = e
        BY <1>4 DEF IInv, FilesFit
      <3>5. SubSeq(Visible', 1, Len(Visible')) = Visible'
        BY <3>1, SubSeqWhole
      <3> QED BY <3>1, <3>3, <3>4, <3>5
    <2>4. \E b \in Body : Visible' = Append(Visible, b)
      BY <1>1, <2>1, <2>3
    <2> QED BY <2>1, <2>2, <2>4 DEF EventLogOfStore!Next, EventLogOfStore!AppendEvent
  <1> QED BY <1>1, <1>3, <1>4

LEMMA PowerLossRefines ==
    ASSUME IInv, HistoriesFit', PowerLoss
    PROVE  [EventLogOfStore!Next]_(EventLogOfStore!logVars)
  <1>1. PICK k \in 0 .. MaxEvents, j \in 0 .. MaxEvents, i \in 0 .. MaxEvents :
             /\ j <= i /\ i <= k
             /\ Finals = 1 .. k /\ synced = 1 .. j
             /\ synced' = 1 .. i /\ Finals' = 1 .. i
             /\ \A n \in 1 .. i : files'[n] = files[n]
    BY PowerLossTakesLast
  <1>2. PICK k0 \in 0 .. MaxEvents, j0 \in 0 .. MaxEvents :
             /\ Finals = 1 .. k0 /\ synced = 1 .. j0
             /\ Visible \in Seq(Body) /\ Len(Visible) = k0 /\ Len(Durable) = j0
             /\ \A m \in 1 .. k0 : files[m].event = SubSeq(Visible, 1, m)
    BY IInvHistories DEF HistoriesFit
  <1>3. PICK k1 \in 0 .. MaxEvents, j1 \in 0 .. MaxEvents :
             /\ Finals' = 1 .. k1 /\ synced' = 1 .. j1
             /\ Visible' \in Seq(Body) /\ Len(Visible') = k1 /\ Len(Durable') = j1
             /\ \A m \in 1 .. k1 : files'[m].event = SubSeq(Visible', 1, m)
    BY DEF HistoriesFit
  <1>4. k0 = k /\ j0 = j /\ k1 = i /\ j1 = i
    BY <1>1, <1>2, <1>3, SameInterval
  <1>5. Visible' = SubSeq(Visible, 1, i)
    <2>1. CASE i = 0
      <3>1. SubSeq(Visible, 1, 0) = <<>>
        BY SubSeqEmpty
      <3>2. Visible' = <<>>
        BY <1>3, <1>4, <2>1, EmptySeq
      <3> QED BY <2>1, <3>1, <3>2
    <2>2. CASE i # 0
      <3>1. files'[i].event = SubSeq(Visible', 1, Len(Visible'))
        BY <1>3, <1>4, <2>2
      <3>2. SubSeq(Visible', 1, Len(Visible')) = Visible'
        BY <1>3, SubSeqWhole
      <3>3. files[i].event = SubSeq(Visible, 1, i) /\ files'[i] = files[i]
        BY <1>1, <1>2, <1>4, <2>2
      <3> QED BY <3>1, <3>2, <3>3
    <2> QED BY <2>1, <2>2
  <1>6. i \in Len(Durable) .. Len(Visible) /\ Len(Durable') = i
    BY <1>1, <1>2, <1>3, <1>4
  <1> QED BY <1>5, <1>6 DEF EventLogOfStore!Next, EventLogOfStore!Lose

LEMMA NextRefines ==
    IInv /\ HistoriesFit' /\ [Next]_vars => [EventLogOfStore!Next]_(EventLogOfStore!logVars)
  <1> SUFFICES ASSUME IInv, HistoriesFit', [Next]_vars
               PROVE  [EventLogOfStore!Next]_(EventLogOfStore!logVars)
    OBVIOUS
  <1>1. CASE UNCHANGED vars
    BY <1>1, QuietRefines DEF vars
  <1>2. ASSUME NEW p \in Processes, Launch(p) \/ Step(p)
        PROVE  [EventLogOfStore!Next]_(EventLogOfStore!logVars)
    <2>1. CASE Rename(p)
      BY <2>1, RenameRefines
    <2>2. ASSUME NEW log, Returns(p, log)
          PROVE  [EventLogOfStore!Next]_(EventLogOfStore!logVars)
      BY <2>2, QuietRefines DEF Returns, Replayed
    <2>3. CASE Launch(p) \/ RenameRepeats(p) \/ Appended(p) \/ Raises(p)
      <3>1. UNCHANGED files /\ (synced' = synced \/ synced' = Finals)
        BY <2>3 DEF Launch, RenameRepeats, Appended, Published, Raises, ReplayRaises,
                    RenameConflicts
      <3> QED BY <3>1, QuietRefines
    <2> QED BY <1>2, <2>1, <2>2, <2>3 DEF Step, Renames
  <1>3. CASE PublishStart
    BY <1>3, QuietRefines DEF PublishStart
  <1>4. CASE Fault
    <2>1. CASE \E p \in Processes : Die(p)
      BY <2>1, QuietRefines DEF Die
    <2>2. CASE PowerLoss
      BY <2>2, PowerLossRefines
    <2> QED BY <1>4, <2>1, <2>2 DEF Fault
  <1> QED BY <1>1, <1>2, <1>3, <1>4 DEF Next

LEMMA InitRefines == Init => EventLogOfStore!Init
  <1> SUFFICES ASSUME Init PROVE EventLogOfStore!Init
    OBVIOUS
  <1>1. Finals = {} /\ synced = {}
    BY DEF Init, StoreInit, Finals
  <1>2. Visible = <<>> /\ Durable = <<>>
    BY <1>1 DEF Visible, Durable, HistoryOf
  <1> QED BY <1>2, Len(<<>>) = 0 DEF EventLogOfStore!Init

\* A directory without a lock, written by processes that die, is the one sequence of events that
\* EventLog promises.
THEOREM StoreImplementsEventLog == Spec => ImplementsEventLog
  <1>1. Init /\ [][Next]_vars /\ []IInv => EventLogOfStore!Spec
    BY InitRefines, NextRefines, NextHistories, PTL DEF EventLogOfStore!Spec
  <1> QED BY <1>1, AlwaysIInv, PTL DEF Spec, ImplementsEventLog
=============================================================================
