------------------------ MODULE ContextCycle_proofs ------------------------
(***************************************************************************)
(* Theorems about ContextCycle for any number of invocations, slots and    *)
(* faults, and any cadence, lease and skew: the three logs and the         *)
(* directory agree, a complete slot can be read back, and what is durable  *)
(* is final.                                                               *)
(***************************************************************************)
EXTENDS ContextCycle, FiniteSetTheorems, TLAPS

-----------------------------------------------------------------------------
(* The inductive invariant *)

PaperRows == [status : {"UNSEEN", "CLAIMED", "PREPARED", "FAILED"} \cup Terminals,
              attempt : Nat, lease : Nat, prepared : Captures \cup {None}]
ContextRows == [status : {"UNSEEN", "CLAIMED", "PREPARED", "FAILED", "SUCCEEDED"},
                attempt : Nat, lease : Nat, prepared : Bundles \cup {None},
                supplied : BOOLEAN]
CycleRows == [status : {"UNSEEN", "CLAIMED", "FAILED", "SUCCEEDED"}, stage : Stages,
              attempt : Nat, lease : Nat, account : Captures \cup {None},
              paper : References \cup {None}, perpetual : Captures \cup {None},
              context : Returned \cup {None}]
Files == [blobs : SUBSET Blobs, paper : Captures \cup {None}, paperSnapshot : Nat,
          context : Bundles \cup {None}, contextSnapshot : Nat]
Outcomes == {"NONE", "CLAIMED", "RESUME_PREPARED", "ALREADY_SUCCEEDED"}
Subs == [slot : Slots \cup {0}, at : Nat, attempt : Nat, outcome : Outcomes]
Procs == [pc : PCs, slot : Slots \cup {0}, attempt : Nat, sub : Subs]
Logs == [at : Nat, events : Nat]

StateFits ==
  /\ now \in 0..Horizon /\ faults \in 0..MaxFaults
  /\ paper \in [Slots -> PaperRows] /\ paperLog \in Logs
  /\ context \in [Slots -> ContextRows] /\ contextLog \in Logs
  /\ cycle \in [Slots -> CycleRows]
  /\ disk \in [Slots -> Files]
  /\ proc \in [Workers -> Procs]

\* Both logs: a row holds something exactly where its status says so, a paper decision lies in
\* its slot, and a log with a known row has events.
PaperFits ==
  \A k \in Slots :
    /\ paper[k].status \in {"PREPARED", "SUCCEEDED"} => paper[k].prepared # None
    /\ paper[k].status \in {"UNSEEN", "CLAIMED", "FAILED"} => paper[k].prepared = None
    /\ paper[k].prepared # None => Active(k, paper[k].prepared.at)
    /\ paper[k].status # "UNSEEN" => paperLog.events > 0

ContextFits ==
  \A k \in Slots :
    /\ context[k].status \in {"PREPARED", "SUCCEEDED"} => context[k].prepared # None
    /\ context[k].status \in {"UNSEEN", "CLAIMED", "FAILED"} => context[k].prepared = None
    /\ context[k].status # "UNSEEN" => contextLog.events > 0

\* What an orchestration has bound is in the other logs and on disk, as it was bound.
PaperBound(k) ==
  /\ cycle[k].paper = [slot |-> k, run |-> paper[k].prepared]
  /\ paper[k].status = "SUCCEEDED"
  /\ disk[k].paper = paper[k].prepared /\ disk[k].paperSnapshot # 0

ContextBound(k) ==
  /\ context[k].status = "SUCCEEDED"
  /\ cycle[k].context = [slot |-> k, bundle |-> context[k].prepared]
  /\ cycle[k].stage = "COST_BINDING" /\ disk[k].blobs = Blobs
  /\ disk[k].context = context[k].prepared /\ disk[k].contextSnapshot # 0

Assembled(k) ==
  [account |-> cycle[k].account, paper |-> paper[k].prepared, perpetual |-> cycle[k].perpetual]

CycleFits ==
  \A k \in Slots :
    /\ StageHolds(cycle[k]) /\ cycle[k].lease <= Expires(k)
    /\ cycle[k].paper # None => PaperBound(k)
    /\ cycle[k].stage = "COST_BINDING" => cycle[k].account.at <= paper[k].prepared.at
    /\ context[k].prepared # None /\ ~context[k].supplied =>
         cycle[k].stage = "COST_BINDING" /\ context[k].prepared = Assembled(k)
    /\ cycle[k].status = "SUCCEEDED" => ContextBound(k)

FilesFit ==
  \A k \in Slots :
    /\ disk[k].paper # None => disk[k].paper = paper[k].prepared
    /\ disk[k].context # None => disk[k].context = context[k].prepared

\* Where an invocation of the paper cycle alone may be, and one of the sidecar alone.
RunnerCalls == {"paperClaim", "capture", "paperPublish", "paperSucceed", "paperSnapshot", "paperFail"}
SidecarCalls == {"bundle", "contextPublish", "contextSucceed", "contextSnapshot", "contextFail"}
\* From here on the account, the perpetual context, the cost binding is published.
AfterBinding == {"context", "bundle", "contextPublish", "contextSucceed", "contextSnapshot",
                 "contextFail", "seal"}
AfterPerpetual == AfterBinding \cup {"binding"}
AfterAccount == AfterPerpetual \cup {"paper", "reference"} \cup RunnerCalls

\* What an invocation may still rely on: a nested call is in a slot that was active no earlier
\* than the orchestrated one began, and whatever it has gone past is durable.
Holds(pc, k, outcome) ==
  /\ pc \in {"capture", "bundle"} => outcome = "CLAIMED"
  /\ pc \in {"paperPublish", "paperSucceed", "paperSnapshot", "reference"} =>
       paper[k].prepared # None
  /\ pc \in {"paperSucceed", "paperSnapshot", "reference"} => disk[k].paper = paper[k].prepared
  /\ pc = "paperPublish" /\ outcome = "ALREADY_SUCCEEDED" => paper[k].status = "SUCCEEDED"
  /\ pc \in {"paperSnapshot", "reference"} => paper[k].status = "SUCCEEDED"
  /\ pc = "reference" => disk[k].paperSnapshot # 0
  /\ pc \in {"contextPublish", "contextSucceed", "contextSnapshot", "seal"} =>
       context[k].prepared # None
  /\ pc \in {"contextSucceed", "contextSnapshot", "seal"} =>
       disk[k].context = context[k].prepared
  /\ pc = "contextPublish" /\ outcome = "ALREADY_SUCCEEDED" => context[k].status = "SUCCEEDED"
  /\ pc \in {"contextSnapshot", "seal"} => context[k].status = "SUCCEEDED"
  /\ pc = "seal" => disk[k].contextSnapshot # 0

SubFits(w) ==
  LET sub == proc[w].sub
  IN  proc[w].pc \in SubCalls =>
        /\ sub.slot \in Slots /\ Active(sub.slot, sub.at) /\ sub.at <= now
        /\ proc[w].slot # 0 => Due(proc[w].slot) <= sub.at
        /\ Holds(proc[w].pc, sub.slot, sub.outcome)

Passed(pc, r) ==
  /\ pc \in AfterAccount => cycle[r].stage # "NONE" /\ "ACCOUNT" \in disk[r].blobs
  /\ pc \in AfterPerpetual =>
       cycle[r].stage \in {"PERPETUAL", "COST_BINDING"} /\ "PERPETUAL" \in disk[r].blobs
  /\ pc \in AfterBinding => cycle[r].stage = "COST_BINDING" /\ disk[r].blobs = Blobs

PlaceFits(w) ==
  LET r == proc[w].slot
  IN  /\ proc[w].pc \in {"idle", "ended"} => r = 0
      /\ r = 0 => proc[w].pc \in {"idle", "ended"} \cup RunnerCalls \cup SidecarCalls
      /\ r # 0 => Due(r) <= now /\ Passed(proc[w].pc, r)

WorkersFit == \A w \in Workers : PlaceFits(w) /\ SubFits(w)

\* The inductive invariant.
IInv == StateFits /\ PaperFits /\ ContextFits /\ CycleFits /\ FilesFit /\ WorkersFit

\* Every step only adds to what is durable.
PaperGrows ==
  \A k \in Slots :
    /\ paper[k].prepared # None => paper'[k].prepared = paper[k].prepared
    /\ paper[k].status \in Terminals => paper'[k].status = paper[k].status

ContextGrows ==
  \A k \in Slots :
    /\ context[k].prepared # None => context'[k].prepared = context[k].prepared
    /\ context[k].status = "SUCCEEDED" => context'[k].status = "SUCCEEDED"

CycleGrows ==
  \A k \in Slots :
    /\ cycle[k].account # None => cycle'[k].account = cycle[k].account
    /\ cycle[k].perpetual # None => cycle'[k].perpetual = cycle[k].perpetual
    /\ cycle[k].stage # "NONE" => cycle'[k].stage # "NONE"
    /\ cycle[k].stage \in {"PERPETUAL", "COST_BINDING"} =>
         cycle'[k].stage \in {"PERPETUAL", "COST_BINDING"}
    /\ cycle[k].stage = "COST_BINDING" => cycle'[k].stage = "COST_BINDING"

DiskGrows ==
  \A k \in Slots :
    /\ disk[k].blobs \subseteq disk'[k].blobs
    /\ disk[k].paper # None => disk'[k].paper = disk[k].paper
    /\ disk[k].context # None => disk'[k].context = disk[k].context
    /\ disk[k].paperSnapshot # 0 => disk'[k].paperSnapshot # 0
    /\ disk[k].contextSnapshot # 0 => disk'[k].contextSnapshot # 0

Grows == now <= now' /\ PaperGrows /\ ContextGrows /\ CycleGrows /\ DiskGrows

-----------------------------------------------------------------------------
(* Slots and moves *)

LEMMA SlotFacts ==
  /\ Slots \subseteq Nat \ {0} /\ IsFiniteSet(Slots)
  /\ \A k \in Slots : Due(k) \in Nat /\ Expires(k) \in Nat
<1>1. NSlots \in Nat \ {0} /\ Cadence \in Nat
  BY SlotAssumption
<1>2. \A k \in Nat \ {0} : (k - 1) * Cadence \in Nat /\ k * Cadence \in Nat
  BY <1>1, SMT
<1> QED
  BY <1>1, <1>2, FS_Interval DEF Slots, Due, Expires

\* Windows do not overlap: the slot that is active between the due time and the end of
\* another one is that one.
LEMMA ActiveOnce ==
  ASSUME NEW k \in Slots, NEW r \in Slots, NEW t \in Nat,
         Active(k, t), Due(r) <= t, t < Expires(r)
  PROVE  k = r
<1>1. Cadence \in Nat /\ k \in Nat \ {0} /\ r \in Nat \ {0}
  BY SlotAssumption, SlotFacts
<1>2. \A a, b, c \in Int : a <= b /\ 0 <= c => a * c <= b * c
  BY SMT
<1>3. CASE k < r
  <2>1. k <= r - 1
    BY <1>1, <1>3
  <2>2. k * Cadence <= (r - 1) * Cadence
    BY <1>1, <1>2, <2>1
  <2>3. k * Cadence \in Nat /\ (r - 1) * Cadence \in Nat
    BY <1>1, SMT
  <2> QED
    BY <2>2, <2>3 DEF Active, Due, Expires
<1>4. CASE r < k
  <2>1. r <= k - 1
    BY <1>1, <1>4
  <2>2. r * Cadence <= (k - 1) * Cadence
    BY <1>1, <1>2, <2>1
  <2>3. r * Cadence \in Nat /\ (k - 1) * Cadence \in Nat
    BY <1>1, SMT
  <2> QED
    BY <2>2, <2>3 DEF Active, Due, Expires
<1> QED
  BY <1>1, <1>3, <1>4

\* What is known of an invocation after a move.
LEMMA GotoEffect ==
  ASSUME StateFits, NEW w \in Workers, NEW pc \in PCs, Goto(w, pc)
  PROVE  /\ proc' \in [Workers -> Procs]
         /\ \A v \in Workers \ {w} : proc'[v] = proc[v]
         /\ proc'[w].pc = pc
         /\ proc'[w].slot = IF pc = "ended" THEN 0 ELSE proc[w].slot
         /\ pc \in SubCalls => proc'[w].sub = proc[w].sub
<1>1. proc \in [Workers -> Procs] /\ "ended" \notin SubCalls /\ "ended" \in PCs
  BY DEF StateFits, SubCalls, PCs
<1>2. NoSub \in Subs
  BY DEF NoSub, Subs, Outcomes
<1>3. CASE pc = "ended"
  <2>1. proc' = [proc EXCEPT ![w] = [NoProc EXCEPT !.pc = "ended"]]
    BY <1>1, <1>3 DEF Goto
  <2> QED
    BY <1>1, <1>2, <1>3, <2>1 DEF NoProc, Procs
<1>4. CASE pc \in SubCalls
  <2>1. proc' = [proc EXCEPT ![w] = [@ EXCEPT !.pc = pc]]
    BY <1>1, <1>4 DEF Goto
  <2> QED
    BY <1>1, <1>4, <2>1 DEF Procs
<1>5. CASE pc # "ended" /\ pc \notin SubCalls
  <2>1. proc' = [proc EXCEPT ![w] = [@ EXCEPT !.pc = pc, !.sub = NoSub]]
    BY <1>1, <1>5 DEF Goto
  <2> QED
    BY <1>1, <1>2, <1>5, <2>1 DEF Procs
<1> QED
  BY <1>3, <1>4, <1>5

LEMMA CallEffect ==
  ASSUME StateFits, NEW w \in Workers, NEW pc \in PCs, NEW k \in Slots, NEW t \in Nat,
         NEW attempt \in Nat, NEW outcome \in Outcomes, Call(w, pc, k, t, attempt, outcome)
  PROVE  /\ proc' \in [Workers -> Procs]
         /\ \A v \in Workers \ {w} : proc'[v] = proc[v]
         /\ proc'[w].pc = pc /\ proc'[w].slot = proc[w].slot
         /\ proc'[w].sub = [slot |-> k, at |-> t, attempt |-> attempt, outcome |-> outcome]
BY DEF StateFits, Call, Procs, Subs

-----------------------------------------------------------------------------
(* What a change of one part leaves of the others *)

\* What an invocation that does not move relies on stays so.
LEMMA OthersFit ==
  ASSUME StateFits, StateFits', Grows, NEW v \in Workers, proc'[v] = proc[v],
         PlaceFits(v), SubFits(v)
  PROVE  PlaceFits(v)' /\ SubFits(v)'
<1>1. /\ proc[v].slot \in Slots \cup {0} /\ proc[v].sub.slot \in Slots \cup {0}
      /\ proc[v].sub.at \in Nat /\ now \in Nat /\ now' \in Nat /\ now <= now'
  BY BoundAssumption DEF StateFits, Procs, Subs, Grows
<1>2. PlaceFits(v)'
  <2>1. \A r \in Slots : Due(r) <= now => Due(r) <= now'
    BY <1>1, SlotFacts
  <2>2. \A r \in Slots, pc \in PCs : Passed(pc, r) => Passed(pc, r)'
    BY DEF StateFits, Files, Passed, Grows, CycleGrows, DiskGrows
  <2> QED
    BY <1>1, <2>1, <2>2 DEF PlaceFits, StateFits, Procs
<1>3. SubFits(v)'
  <2>1. \A k \in Slots, pc \in PCs, outcome \in Outcomes :
          Holds(pc, k, outcome) => Holds(pc, k, outcome)'
    <3> SUFFICES ASSUME NEW k \in Slots, NEW pc \in PCs, NEW outcome \in Outcomes,
                        Holds(pc, k, outcome)
                 PROVE  Holds(pc, k, outcome)'
      OBVIOUS
    <3>1. /\ paper[k].prepared # None => paper'[k].prepared = paper[k].prepared
          /\ paper[k].status = "SUCCEEDED" => paper'[k].status = "SUCCEEDED"
      BY DEF Grows, PaperGrows, Terminals
    <3>2. /\ context[k].prepared # None => context'[k].prepared = context[k].prepared
          /\ context[k].status = "SUCCEEDED" => context'[k].status = "SUCCEEDED"
      BY DEF Grows, ContextGrows
    <3>3. /\ disk[k].paper # None => disk'[k].paper = disk[k].paper
          /\ disk[k].context # None => disk'[k].context = disk[k].context
          /\ disk[k].paperSnapshot # 0 => disk'[k].paperSnapshot # 0
          /\ disk[k].contextSnapshot # 0 => disk'[k].contextSnapshot # 0
      BY DEF Grows, DiskGrows
    <3> QED
      BY <3>1, <3>2, <3>3 DEF Holds
  <2> QED
    BY <1>1, <2>1 DEF SubFits, StateFits, Procs, Subs
<1> QED
  BY <1>2, <1>3

\* A step of one invocation.
OneMoves(w) ==
  /\ proc' \in [Workers -> Procs]
  /\ \A v \in Workers \ {w} : proc'[v] = proc[v]
  /\ PlaceFits(w)' /\ SubFits(w)'

LEMMA WorkersStep ==
  ASSUME IInv, StateFits', Grows, NEW w \in Workers, OneMoves(w)
  PROVE  WorkersFit'
BY OthersFit DEF IInv, WorkersFit, OneMoves

\* Only the invocation moves.
LEMMA LocalStep ==
  ASSUME IInv, NEW w \in Workers, OneMoves(w), faults' \in 0..MaxFaults,
         UNCHANGED <<now, paperVars, contextVars, cycle, disk>>
  PROVE  IInv' /\ Grows
<1>1. UNCHANGED <<paper, paperLog, context, contextLog>>
  BY DEF paperVars, contextVars
<1>2. StateFits'
  BY <1>1 DEF IInv, StateFits, OneMoves
<1>3. Grows
  BY <1>1, BoundAssumption DEF Grows, PaperGrows, ContextGrows, CycleGrows, DiskGrows, IInv, StateFits
<1>4. PaperFits' /\ ContextFits' /\ FilesFit'
  BY <1>1 DEF IInv, PaperFits, ContextFits, FilesFit
<1>5. CycleFits'
  BY <1>1 DEF IInv, CycleFits, PaperBound, ContextBound, Assembled
<1> QED
  BY <1>2, <1>3, <1>4, <1>5, WorkersStep DEF IInv

\* A transaction of the paper log.
LEMMA PaperChange ==
  ASSUME IInv, NEW w \in Workers, OneMoves(w),
         paper' \in [Slots -> PaperRows], paperLog' \in Logs, PaperFits', PaperGrows,
         UNCHANGED <<now, contextVars, cycle, disk, faults>>
  PROVE  IInv' /\ Grows
<1>1. UNCHANGED <<context, contextLog>>
  BY DEF contextVars
<1>2. StateFits'
  BY <1>1 DEF IInv, StateFits, OneMoves
<1>3. Grows
  BY <1>1, BoundAssumption DEF Grows, ContextGrows, CycleGrows, DiskGrows, IInv, StateFits
<1>4. ContextFits'
  BY <1>1 DEF IInv, ContextFits
<1>5. FilesFit'
  BY <1>1 DEF IInv, FilesFit, PaperGrows
<1>6. CycleFits'
  <2> SUFFICES ASSUME NEW k \in Slots
               PROVE  /\ (cycle[k].paper # None => PaperBound(k))'
                      /\ (cycle[k].stage = "COST_BINDING" =>
                            cycle[k].account.at <= paper[k].prepared.at)'
                      /\ (context[k].prepared # None /\ ~context[k].supplied =>
                            cycle[k].stage = "COST_BINDING" /\ context[k].prepared = Assembled(k))'
                      /\ (cycle[k].status = "SUCCEEDED" => ContextBound(k))'
    BY <1>1 DEF IInv, CycleFits
  <2>1. cycle[k].paper # None => paper[k].status = "SUCCEEDED" /\ paper[k].prepared # None
    BY DEF IInv, CycleFits, PaperBound, PaperFits
  <2>2. cycle[k].stage = "COST_BINDING" => cycle[k].paper # None
    BY DEF IInv, CycleFits, StageHolds
  <2>3. cycle[k].paper # None =>
          paper'[k].prepared = paper[k].prepared /\ paper'[k].status = "SUCCEEDED"
    BY <2>1 DEF PaperGrows, Terminals
  <2> QED
    BY <1>1, <2>1, <2>2, <2>3 DEF IInv, CycleFits, PaperBound, ContextBound, Assembled
<1> QED
  BY <1>2, <1>3, <1>4, <1>5, <1>6, WorkersStep DEF IInv

\* A transaction of the context log.
LEMMA ContextChange ==
  ASSUME IInv, NEW w \in Workers, OneMoves(w),
         context' \in [Slots -> ContextRows], contextLog' \in Logs, ContextFits', ContextGrows,
         \A k \in Slots :
           \/ context'[k].prepared = context[k].prepared /\ context'[k].supplied = context[k].supplied
           \/ context'[k].supplied
           \/ cycle[k].stage = "COST_BINDING" /\ context'[k].prepared = Assembled(k),
         UNCHANGED <<now, paperVars, cycle, disk, faults>>
  PROVE  IInv' /\ Grows
<1>1. UNCHANGED <<paper, paperLog>>
  BY DEF paperVars
<1>2. StateFits'
  BY <1>1 DEF IInv, StateFits, OneMoves
<1>3. Grows
  BY <1>1, BoundAssumption DEF Grows, PaperGrows, CycleGrows, DiskGrows, IInv, StateFits
<1>4. PaperFits'
  BY <1>1 DEF IInv, PaperFits
<1>5. FilesFit'
  BY <1>1 DEF IInv, FilesFit, ContextGrows
<1>6. CycleFits'
  <2> SUFFICES ASSUME NEW k \in Slots
               PROVE  /\ (cycle[k].paper # None => PaperBound(k))'
                      /\ (context[k].prepared # None /\ ~context[k].supplied =>
                            cycle[k].stage = "COST_BINDING" /\ context[k].prepared = Assembled(k))'
                      /\ (cycle[k].status = "SUCCEEDED" => ContextBound(k))'
    BY <1>1 DEF IInv, CycleFits
  <2>1. cycle[k].status = "SUCCEEDED" =>
          context'[k].status = "SUCCEEDED" /\ context'[k].prepared = context[k].prepared
    BY DEF IInv, CycleFits, ContextBound, ContextFits, ContextGrows
  <2> QED
    BY <1>1, <2>1 DEF IInv, CycleFits, PaperBound, ContextBound, Assembled
<1> QED
  BY <1>2, <1>3, <1>4, <1>5, <1>6, WorkersStep DEF IInv

\* A publication.
LEMMA DiskChange ==
  ASSUME IInv, NEW w \in Workers, OneMoves(w), disk' \in [Slots -> Files], FilesFit', DiskGrows,
         UNCHANGED <<now, paperVars, contextVars, cycle, faults>>
  PROVE  IInv' /\ Grows
<1>1. UNCHANGED <<paper, paperLog, context, contextLog>>
  BY DEF paperVars, contextVars
<1>2. StateFits'
  BY <1>1 DEF IInv, StateFits, OneMoves
<1>3. Grows
  BY <1>1, BoundAssumption DEF Grows, PaperGrows, ContextGrows, CycleGrows, IInv, StateFits
<1>4. PaperFits' /\ ContextFits'
  BY <1>1 DEF IInv, PaperFits, ContextFits
<1>5. CycleFits'
  <2> SUFFICES ASSUME NEW k \in Slots
               PROVE  /\ (cycle[k].paper # None => PaperBound(k))'
                      /\ (cycle[k].status = "SUCCEEDED" => ContextBound(k))'
    BY <1>1 DEF IInv, CycleFits, Assembled
  <2>1. PaperBound(k) => disk[k].paper # None
    BY DEF IInv, PaperBound, PaperFits
  <2>2. ContextBound(k) => disk[k].context # None
    BY DEF IInv, ContextBound, ContextFits
  <2>3. disk[k].blobs = Blobs => disk'[k].blobs = Blobs
    BY DEF DiskGrows, Files
  <2> QED
    BY <1>1, <2>1, <2>2, <2>3 DEF IInv, CycleFits, PaperBound, ContextBound, DiskGrows
<1> QED
  BY <1>2, <1>3, <1>4, <1>5, WorkersStep DEF IInv

\* A transaction of the orchestration log, on one row that was not sealed.
LEMMA CycleChange ==
  ASSUME IInv, NEW w \in Workers, OneMoves(w), NEW r \in Slots, NEW row \in CycleRows,
         cycle' = [cycle EXCEPT ![r] = row], cycle[r].status # "SUCCEEDED", CycleGrows,
         StageHolds(row), row.lease <= Expires(r),
         row.paper # None => PaperBound(r)',
         row.stage = "COST_BINDING" => row.account.at <= paper[r].prepared.at,
         row.status = "SUCCEEDED" => ContextBound(r)',
         UNCHANGED <<now, paperVars, contextVars, disk, faults>>
  PROVE  IInv' /\ Grows
<1>1. UNCHANGED <<paper, paperLog, context, contextLog>>
  BY DEF paperVars, contextVars
<1>2. StateFits'
  BY <1>1 DEF IInv, StateFits, OneMoves
<1>3. Grows
  BY <1>1, BoundAssumption DEF Grows, PaperGrows, ContextGrows, DiskGrows, IInv, StateFits
<1>4. PaperFits' /\ ContextFits' /\ FilesFit'
  BY <1>1 DEF IInv, PaperFits, ContextFits, FilesFit
<1>5. CycleFits'
  <2> SUFFICES ASSUME NEW k \in Slots
               PROVE  /\ (StageHolds(cycle[k]))' /\ (cycle[k].lease <= Expires(k))'
                      /\ (cycle[k].paper # None => PaperBound(k))'
                      /\ (cycle[k].stage = "COST_BINDING" =>
                            cycle[k].account.at <= paper[k].prepared.at)'
                      /\ (context[k].prepared # None /\ ~context[k].supplied =>
                            cycle[k].stage = "COST_BINDING" /\ context[k].prepared = Assembled(k))'
                      /\ (cycle[k].status = "SUCCEEDED" => ContextBound(k))'
    BY DEF CycleFits
  <2>1. cycle \in [Slots -> CycleRows]
    BY DEF IInv, StateFits
  <2>2. CASE k # r
    <3>1. cycle'[k] = cycle[k]
      BY <2>1, <2>2
    <3> QED
      BY <1>1, <3>1 DEF IInv, CycleFits, PaperBound, ContextBound, Assembled, StageHolds
  <2>3. CASE k = r
    <3>1. cycle'[k] = row
      BY <2>1, <2>3
    <3>2. context[k].prepared # None /\ ~context[k].supplied =>
            cycle'[k].stage = "COST_BINDING" /\ context[k].prepared = Assembled(k)'
      <4>1. cycle[k].stage = "COST_BINDING" => cycle[k].account # None /\ cycle[k].perpetual # None
        BY DEF IInv, CycleFits, StageHolds
      <4> QED
        BY <1>1, <4>1 DEF IInv, CycleFits, Assembled, CycleGrows
    <3> QED
      BY <1>1, <2>3, <3>1, <3>2 DEF StageHolds
  <2> QED
    BY <2>2, <2>3
<1> QED
  BY <1>2, <1>3, <1>4, <1>5, WorkersStep DEF IInv

-----------------------------------------------------------------------------
(* Where a move leads to *)

\* Out of everything.
LEMMA Ending ==
  ASSUME IInv, NEW w \in Workers, Goto(w, "ended")
  PROVE  OneMoves(w)
<1>1. "ended" \in PCs /\ "ended" \notin SubCalls
  BY DEF PCs, SubCalls
<1> QED
  BY <1>1, GotoEffect DEF IInv, OneMoves, PlaceFits, SubFits

\* To the next place, past what is durable by then.
LEMMA Arriving ==
  ASSUME IInv, NEW w \in Workers, NEW pc \in PCs \ {"idle", "ended"}, Goto(w, pc),
         UNCHANGED now, proc[w].slot = 0 => pc \in RunnerCalls \cup SidecarCalls,
         \A r \in Slots : r = proc[w].slot => Passed(pc, r)',
         pc \in SubCalls => proc[w].pc \in SubCalls,
         \A k \in Slots, outcome \in Outcomes :
           k = proc[w].sub.slot /\ outcome = proc[w].sub.outcome => Holds(pc, k, outcome)'
  PROVE  OneMoves(w)
<1>1. StateFits /\ PlaceFits(w) /\ SubFits(w) /\ proc[w] \in Procs
  BY DEF IInv, WorkersFit, StateFits
<1>2. /\ proc' \in [Workers -> Procs] /\ \A v \in Workers \ {w} : proc'[v] = proc[v]
      /\ proc'[w].pc = pc /\ proc'[w].slot = proc[w].slot
      /\ pc \in SubCalls => proc'[w].sub = proc[w].sub
  BY <1>1, GotoEffect
<1>3. PlaceFits(w)'
  BY <1>1, <1>2 DEF PlaceFits, Procs
<1>4. SubFits(w)'
  <2>1. pc \in SubCalls => proc'[w].sub.slot = proc[w].sub.slot
                          /\ proc'[w].sub.outcome = proc[w].sub.outcome
                          /\ proc'[w].sub.at = proc[w].sub.at
                          /\ proc[w].sub.slot \in Slots /\ proc[w].sub.outcome \in Outcomes
    BY <1>1, <1>2 DEF SubFits, Procs, Subs
  <2>2. pc \in SubCalls => (Holds(proc[w].pc, proc[w].sub.slot, proc[w].sub.outcome))'
    BY <1>2, <2>1
  <2> QED
    BY <1>1, <1>2, <2>1, <2>2 DEF SubFits
<1> QED
  BY <1>2, <1>3, <1>4 DEF OneMoves

\* Into a nested call, in the slot that is active.
LEMMA Calling ==
  ASSUME IInv, NEW w \in Workers, NEW pc \in SubCalls, NEW k \in Slots, NEW t \in Nat,
         NEW attempt \in Nat, NEW outcome \in Outcomes, Call(w, pc, k, t, attempt, outcome),
         UNCHANGED now, Active(k, t), t <= now, proc[w].slot # 0 => Due(proc[w].slot) <= t,
         proc[w].slot = 0 => pc \in RunnerCalls \cup SidecarCalls,
         \A r \in Slots : r = proc[w].slot => Passed(pc, r)',
         Holds(pc, k, outcome)'
  PROVE  OneMoves(w)
<1>1. StateFits /\ PlaceFits(w) /\ proc[w] \in Procs /\ pc \in PCs /\ pc \notin {"idle", "ended"}
  BY DEF IInv, WorkersFit, StateFits, PCs, SubCalls
<1>2. /\ proc' \in [Workers -> Procs] /\ \A v \in Workers \ {w} : proc'[v] = proc[v]
      /\ proc'[w].pc = pc /\ proc'[w].slot = proc[w].slot
      /\ proc'[w].sub = [slot |-> k, at |-> t, attempt |-> attempt, outcome |-> outcome]
  BY <1>1, CallEffect
<1>3. PlaceFits(w)'
  BY <1>1, <1>2 DEF PlaceFits, Procs
<1>4. SubFits(w)'
  BY <1>2 DEF SubFits
<1> QED
  BY <1>2, <1>3, <1>4 DEF OneMoves

\* Back to an exception handler.
LEMMA FallingBack ==
  ASSUME IInv, NEW w \in Workers, NEW pc, Goto(w, pc), UNCHANGED <<now, cycle, disk>>,
         \/ pc = "ended"
         \/ pc = "failing" /\ proc[w].slot # 0
         \/ pc = "paperFail" /\ proc[w].pc \in RunnerCalls
         \/ pc = "contextFail" /\ proc[w].pc \in AfterBinding \cap SubCalls
  PROVE  OneMoves(w)
<1>1. CASE pc = "ended"
  BY <1>1, Ending
<1>2. CASE pc # "ended"
  <2>1. PlaceFits(w)
    BY DEF IInv, WorkersFit
  <2>2. /\ pc \in PCs \ {"idle", "ended"} /\ (proc[w].slot = 0 => pc \in RunnerCalls \cup SidecarCalls)
        /\ pc \in SubCalls => proc[w].pc \in SubCalls
    BY <1>2, <2>1 DEF PCs, SubCalls, RunnerCalls, SidecarCalls, PlaceFits, AfterBinding
  <2>3. \A r \in Slots : r = proc[w].slot => Passed(pc, r)'
    <3> SUFFICES ASSUME NEW r \in Slots, r = proc[w].slot
                 PROVE  Passed(pc, r)'
      OBVIOUS
    <3>1. Passed(proc[w].pc, r)
      BY <2>1, SlotFacts DEF PlaceFits
    <3> QED
      BY <1>2, <3>1 DEF Passed, AfterAccount, AfterPerpetual, AfterBinding, RunnerCalls
  <2>4. \A k \in Slots, outcome \in Outcomes : Holds(pc, k, outcome)'
    BY <1>2 DEF Holds
  <2> QED
    BY <2>2, <2>3, <2>4, Arriving
<1> QED
  BY <1>1, <1>2

\* And nothing else happens.
LEMMA Retreat ==
  ASSUME IInv, NEW w \in Workers, NEW pc, Goto(w, pc), faults' \in 0..MaxFaults,
         UNCHANGED <<now, paperVars, contextVars, cycle, disk>>,
         \/ pc = "ended"
         \/ pc = "failing" /\ proc[w].slot # 0
         \/ pc = "paperFail" /\ proc[w].pc \in RunnerCalls
         \/ pc = "contextFail" /\ proc[w].pc \in AfterBinding \cap SubCalls
  PROVE  IInv' /\ Grows
BY FallingBack, LocalStep

LEMMA RaiseStep ==
  ASSUME IInv, NEW w \in Workers, Raise(w)
  PROVE  IInv' /\ Grows
<1>1. Goto(w, Handler(w)) /\ UNCHANGED <<now, paperVars, contextVars, cycle, disk>>
  BY DEF Raise, Fault
<1>2. faults' \in 0..MaxFaults
  BY BoundAssumption DEF Raise, Fault, IInv, StateFits
<1>3. /\ proc[w].pc \in PCs \ {"idle", "ended"}
      /\ proc[w].slot = 0 => proc[w].pc \in RunnerCalls \cup SidecarCalls
  BY DEF Raise, Fault, IInv, StateFits, Procs, WorkersFit, PlaceFits
<1>4. \/ Handler(w) = "ended"
      \/ Handler(w) = "failing" /\ proc[w].slot # 0
      \/ Handler(w) = "paperFail" /\ proc[w].pc \in RunnerCalls
      \/ Handler(w) = "contextFail" /\ proc[w].pc \in AfterBinding \cap SubCalls
  BY <1>3 DEF Handler, Escape, Orchestrating, RunnerCalls, SidecarCalls, AfterBinding, SubCalls
<1> QED
  BY <1>1, <1>2, <1>4, Retreat

LEMMA CrashStep ==
  ASSUME IInv, NEW w \in Workers, Crash(w)
  PROVE  IInv' /\ Grows
<1>1. faults' \in 0..MaxFaults
  BY BoundAssumption DEF Crash, Fault, IInv, StateFits
<1> QED
  BY <1>1, Retreat DEF Crash, Fault

-----------------------------------------------------------------------------
(* The offline paper cycle *)

\* The row of an orchestrated slot, and the nested call an invocation is in.
LEMMA Standing ==
  ASSUME IInv, NEW w \in Workers
  PROVE  /\ proc[w] \in Procs /\ now \in Nat /\ proc[w].sub.at \in Nat
         /\ proc[w].pc \in SubCalls =>
              /\ proc[w].sub.slot \in Slots /\ Active(proc[w].sub.slot, proc[w].sub.at)
              /\ proc[w].sub.at <= now
              /\ proc[w].slot # 0 => Due(proc[w].slot) <= proc[w].sub.at
              /\ Holds(proc[w].pc, proc[w].sub.slot, proc[w].sub.outcome)
         /\ proc[w].pc \notin {"idle", "ended"} \cup RunnerCalls \cup SidecarCalls =>
              proc[w].slot \in Slots
         /\ \A r \in Slots : r = proc[w].slot => Due(r) <= now /\ Passed(proc[w].pc, r)
BY SlotFacts, BoundAssumption DEF IInv, StateFits, WorkersFit, PlaceFits, SubFits, Procs, Subs

\* Where the paper cycle may go, its orchestrator has passed the account.
LEMMA PassedOn ==
  ASSUME IInv, NEW w \in Workers, NEW pc \in RunnerCalls \cup {"paper", "reference"},
         proc[w].pc \in RunnerCalls \cup {"paper", "reference", "idle"},
         NEW r \in Slots, r = proc[w].slot, UNCHANGED cycle, disk' \in [Slots -> Files], DiskGrows
  PROVE  Passed(pc, r)'
<1>1. Passed(proc[w].pc, r) /\ proc[w].pc # "idle"
  BY Standing, SlotFacts DEF IInv, WorkersFit, PlaceFits
<1>2. disk[r].blobs \subseteq disk'[r].blobs
  BY DEF DiskGrows
<1> QED
  BY <1>1, <1>2 DEF Passed, AfterAccount, AfterPerpetual, AfterBinding, RunnerCalls

LEMMA NothingIsPublished ==
  ASSUME IInv, UNCHANGED disk
  PROVE  disk' \in [Slots -> Files] /\ DiskGrows
BY DEF IInv, StateFits, DiskGrows

LEMMA RecordGapsStep ==
  ASSUME IInv, NEW w \in Workers, RecordGaps(w)
  PROVE  IInv' /\ Grows
<1>1. PICK k \in Slots : /\ PaperCalled(w) /\ Active(k, now) /\ CloseGaps(k, now)
                         /\ Call(w, "paperClaim", k, now, 0, "NONE")
                         /\ UNCHANGED <<now, contextVars, cycle, disk, faults>>
  BY DEF RecordGaps
<1>2. paper \in [Slots -> PaperRows] /\ paperLog \in Logs /\ now \in Nat
  BY BoundAssumption DEF IInv, StateFits
<1>3. proc[w].pc \in {"paper", "idle"}
  BY <1>1 DEF PaperCalled
<1>4. OneMoves(w)
  <2>1. "paperClaim" \in SubCalls /\ "paperClaim" \in RunnerCalls /\ "NONE" \in Outcomes
    BY DEF SubCalls, RunnerCalls, Outcomes
  <2>2. \A r \in Slots : r = proc[w].slot => Passed("paperClaim", r)'
    BY <1>1, <1>3, <2>1, PassedOn, NothingIsPublished
  <2>3. Holds("paperClaim", k, "NONE")'
    BY DEF Holds
  <2>4. proc[w].slot # 0 => Due(proc[w].slot) <= now
    BY DEF IInv, WorkersFit, PlaceFits
  <2> QED
    BY <1>1, <1>2, <2>1, <2>2, <2>3, <2>4, Calling
<1>5. paperLog' \in Logs
  <2>1. IsFiniteSet(Overdue(k, now)) /\ IsFiniteSet(Unseen(k))
    BY SlotFacts, FS_Subset DEF Overdue, Unseen, PaperKnown
  <2>2. Cardinality(Overdue(k, now)) \in Nat /\ Cardinality(Unseen(k)) \in Nat
    BY <2>1, FS_CardinalityType
  <2> QED
    BY <1>1, <1>2, <2>2 DEF CloseGaps, PaperAppend, Logs
<1>6. \A j \in Slots : \/ /\ paper[j].status \notin Terminals \cup {"UNSEEN"}
                          /\ paper'[j] = [paper[j] EXCEPT !.status = "EXPIRED"]
                       \/ /\ paper[j].status = "UNSEEN" /\ PaperKnown # {}
                          /\ paper'[j] = [paper[j] EXCEPT !.status = "MISSED"]
                       \/ paper'[j] = paper[j]
  <2> SUFFICES ASSUME NEW j \in Slots
               PROVE  \/ /\ paper[j].status \notin Terminals \cup {"UNSEEN"}
                         /\ paper'[j] = [paper[j] EXCEPT !.status = "EXPIRED"]
                      \/ /\ paper[j].status = "UNSEEN" /\ PaperKnown # {}
                         /\ paper'[j] = [paper[j] EXCEPT !.status = "MISSED"]
                      \/ paper'[j] = paper[j]
    OBVIOUS
  <2>1. j \in Overdue(k, now) => paper[j].status \notin Terminals \cup {"UNSEEN"}
    BY DEF Overdue, PaperKnown
  <2>2. j \in Unseen(k) => paper[j].status = "UNSEEN" /\ PaperKnown # {}
    <3>1. j \in Nat /\ ~(j < j)
      BY SlotFacts
    <3> QED
      BY <3>1 DEF Unseen, PaperKnown
  <2> QED
    BY <1>1, <2>1, <2>2 DEF CloseGaps
<1>7. paper' \in [Slots -> PaperRows]
  <2>1. \A j \in Slots : paper'[j] \in PaperRows
    BY <1>2, <1>6 DEF PaperRows, Terminals
  <2> QED
    BY <1>1, <2>1 DEF CloseGaps
<1>8. PaperGrows
  BY <1>2, <1>6 DEF PaperGrows, PaperRows, Terminals
<1>9. PaperFits'
  <2>1. paperLog'.events >= paperLog.events
    <3>1. Cardinality(Overdue(k, now)) \in Nat /\ Cardinality(Unseen(k)) \in Nat
      BY SlotFacts, FS_Subset, FS_CardinalityType DEF Overdue, Unseen, PaperKnown
    <3> QED
      BY <1>1, <1>2, <3>1 DEF CloseGaps, PaperAppend, Logs
  <2>2. PaperKnown # {} => paperLog.events > 0
    BY DEF IInv, PaperFits, PaperKnown
  <2>3. (\E j \in Slots : paper'[j].status # "UNSEEN") => paperLog'.events > 0
    <3>1. \A j \in Slots : paper'[j].status # "UNSEEN" => PaperKnown # {}
      BY <1>2, <1>6 DEF PaperKnown
    <3>2. paperLog.events \in Nat /\ paperLog'.events \in Nat
      BY <1>2, <1>5 DEF Logs
    <3> QED
      BY <2>1, <2>2, <3>1, <3>2
  <2> QED
    BY <1>2, <1>6, <2>3 DEF IInv, PaperFits, PaperRows, Terminals
<1> QED
  BY <1>1, <1>4, <1>5, <1>7, <1>8, <1>9, PaperChange

\* One row of the paper log advances.
PaperAdvance(k, row) ==
  /\ row \in PaperRows
  /\ paper' = [paper EXCEPT ![k] = row]
  /\ \E t \in Nat : PaperAppend(1, t)
  /\ paper[k].status \notin Terminals
  /\ paper[k].prepared # None => row.prepared = paper[k].prepared
  /\ row.status \in {"PREPARED", "SUCCEEDED"} => row.prepared # None
  /\ row.status \in {"UNSEEN", "CLAIMED", "FAILED"} => row.prepared = None
  /\ row.prepared # None => Active(k, row.prepared.at)

LEMMA PaperRowChange ==
  ASSUME IInv, NEW w \in Workers, OneMoves(w), NEW k \in Slots, NEW row, PaperAdvance(k, row),
         UNCHANGED <<now, contextVars, cycle, disk, faults>>
  PROVE  IInv' /\ Grows
<1>1. paper \in [Slots -> PaperRows] /\ paperLog \in Logs
  BY DEF IInv, StateFits
<1>2. paper' \in [Slots -> PaperRows] /\ PaperGrows
  BY <1>1 DEF PaperAdvance, PaperGrows
<1>3. paperLog' \in Logs /\ paperLog'.events > 0
  BY <1>1 DEF PaperAdvance, PaperAppend, Logs
<1>4. PaperFits'
  BY <1>1, <1>3 DEF PaperAdvance, IInv, PaperFits
<1> QED
  BY <1>2, <1>3, <1>4, PaperChange

LEMMA PaperClaimStep ==
  ASSUME IInv, NEW w \in Workers, PaperClaim(w)
  PROVE  IInv' /\ Grows
<1>1. PICK k \in Slots, t \in Nat : /\ k = proc[w].sub.slot /\ t = proc[w].sub.at
                                    /\ Active(k, t) /\ t <= now
                                    /\ proc[w].slot # 0 => Due(proc[w].slot) <= t
  BY Standing DEF PaperClaim, SubCalls
<1>2. proc[w].pc = "paperClaim" /\ UNCHANGED <<now, contextVars, cycle, disk, faults>>
  BY DEF PaperClaim
<1>3. proc[w].pc \in RunnerCalls /\ {"paperPublish", "capture"} \subseteq RunnerCalls \cap SubCalls
  BY <1>2 DEF RunnerCalls, SubCalls
<1>4. \A pc \in {"paperPublish", "capture"}, r \in Slots : r = proc[w].slot => Passed(pc, r)'
  BY <1>2, <1>3, PassedOn, NothingIsPublished
<1>5. paper[k] \in PaperRows /\ paper[k].attempt \in Nat
      /\ (paper[k].prepared # None => Active(k, paper[k].prepared.at))
  BY DEF IInv, StateFits, PaperFits, PaperRows
<1>6. faults' \in 0..MaxFaults
  BY <1>2 DEF IInv, StateFits
<1>7. CASE /\ paper[k].status = "SUCCEEDED" /\ UNCHANGED paperVars
           /\ Call(w, "paperPublish", k, t, paper[k].attempt, "ALREADY_SUCCEEDED")
  <2>1. Holds("paperPublish", k, "ALREADY_SUCCEEDED")'
    BY <1>7 DEF Holds, paperVars, IInv, PaperFits
  <2>2. OneMoves(w)
    BY <1>1, <1>2, <1>3, <1>4, <1>5, <1>7, <2>1, Calling DEF Outcomes
  <2> QED
    BY <1>2, <1>6, <1>7, <2>2, LocalStep
<1>8. CASE /\ PaperClaimable(k, t) /\ ClaimPaper(k, t)
           /\ IF paper[k].prepared = None
                THEN Call(w, "capture", k, t, paper[k].attempt + 1, "CLAIMED")
                ELSE Call(w, "paperPublish", k, t, paper[k].attempt + 1, "RESUME_PREPARED")
  <2> DEFINE row == [paper[k] EXCEPT !.status = IF paper[k].prepared = None THEN "CLAIMED"
                                                                            ELSE "PREPARED",
                                     !.attempt = @ + 1, !.lease = t + Lease]
  <2>1. paper' = [paper EXCEPT ![k] = row] /\ row \in PaperRows
    <3>1. paper \in [Slots -> PaperRows]
      BY DEF IInv, StateFits
    <3>2. paper' = [paper EXCEPT ![k] = row]
      BY <1>8, <3>1 DEF ClaimPaper, PaperRows
    <3>3. row \in PaperRows
      <4>1. t + Lease \in Nat /\ paper[k].attempt + 1 \in Nat
        BY <1>1, <1>5, SlotAssumption
      <4> QED
        BY <1>5, <4>1 DEF PaperRows
    <3> QED
      BY <3>2, <3>3
  <2>2. PaperAdvance(k, row)
    BY <1>1, <1>5, <1>8, <2>1 DEF PaperAdvance, ClaimPaper, PaperClaimable, PaperRows
  <2>3. paper'[k].prepared = paper[k].prepared
    BY <2>1 DEF IInv, StateFits
  <2>4. CASE paper[k].prepared = None
    <3>1. Holds("capture", k, "CLAIMED")'
      BY DEF Holds
    <3>2. OneMoves(w)
      BY <1>1, <1>2, <1>3, <1>4, <1>5, <1>8, <2>4, <3>1, Calling DEF Outcomes
    <3> QED
      BY <1>2, <2>2, <3>2, PaperRowChange
  <2>5. CASE paper[k].prepared # None
    <3>1. Holds("paperPublish", k, "RESUME_PREPARED")'
      BY <2>3, <2>5 DEF Holds
    <3>2. OneMoves(w)
      BY <1>1, <1>2, <1>3, <1>4, <1>5, <1>8, <2>5, <3>1, Calling DEF Outcomes
    <3> QED
      BY <1>2, <2>2, <3>2, PaperRowChange
  <2> QED
    BY <2>4, <2>5
<1>9. CASE Goto(w, Escape(w)) /\ UNCHANGED paperVars
  BY <1>2, <1>3, <1>6, <1>9, Retreat DEF Escape, Orchestrating
<1> QED
  BY <1>1, <1>7, <1>8, <1>9 DEF PaperClaim

LEMMA CapturePaperStep ==
  ASSUME IInv, NEW w \in Workers, CapturePaper(w)
  PROVE  IInv' /\ Grows
<1>1. PICK k \in Slots : k = proc[w].sub.slot
  BY Standing DEF CapturePaper, SubCalls
<1>2. proc[w].pc = "capture" /\ UNCHANGED <<now, contextVars, cycle, disk, faults>>
  BY DEF CapturePaper
<1>3. proc[w].pc \in RunnerCalls \cap SubCalls /\ "paperPublish" \in RunnerCalls \cap SubCalls
  BY <1>2 DEF RunnerCalls, SubCalls
<1>4. PICK decided \in proc[w].sub.at..now :
        IF Active(k, decided) /\ OwnsPaper(k, proc[w].sub.attempt, "CLAIMED")
          THEN PreparePaper(k, decided, now) /\ Goto(w, "paperPublish")
          ELSE Goto(w, "paperFail") /\ UNCHANGED paperVars
  BY <1>1 DEF CapturePaper
<1>5. faults' \in 0..MaxFaults
  BY <1>2 DEF IInv, StateFits
<1>6. CASE ~(Active(k, decided) /\ OwnsPaper(k, proc[w].sub.attempt, "CLAIMED"))
  BY <1>2, <1>3, <1>4, <1>5, <1>6, Retreat
<1>7. CASE Active(k, decided) /\ OwnsPaper(k, proc[w].sub.attempt, "CLAIMED")
  <2>1. paper[k] \in PaperRows /\ decided \in Nat /\ now \in Nat /\ paper[k].prepared = None
    BY <1>4, <1>7, Standing DEF IInv, StateFits, PaperFits, OwnsPaper
  <2> DEFINE run == [attempt |-> paper[k].attempt, at |-> decided]
             row == [paper[k] EXCEPT !.status = "PREPARED", !.prepared = run]
  <2>a. run \in Captures /\ run # None
    BY <2>1, NoneAssumption DEF PaperRows, Captures
  <2>2. row \in PaperRows /\ row.prepared = run /\ row.status = "PREPARED"
    BY <2>1, <2>a DEF PaperRows
  <2>3. paper' = [paper EXCEPT ![k] = row]
    BY <1>4, <1>7 DEF PreparePaper
  <2>4. PaperAdvance(k, row)
    BY <1>4, <1>7, <2>1, <2>a, <2>2, <2>3 DEF PaperAdvance, PreparePaper, OwnsPaper, Terminals
  <2>5. \A r \in Slots : r = proc[w].slot => Passed("paperPublish", r)'
    BY <1>2, <1>3, PassedOn, NothingIsPublished
  <2>6. paper'[k].prepared # None
    BY <2>a, <2>2, <2>3 DEF IInv, StateFits
  <2>7. Holds("paperPublish", k, "CLAIMED")' /\ proc[w].sub.outcome = "CLAIMED"
    BY <1>2, <1>3, <2>6, Standing DEF Holds
  <2>8. OneMoves(w)
    BY <1>1, <1>2, <1>3, <1>4, <1>7, <2>5, <2>7, Arriving DEF PCs
  <2> QED
    BY <1>2, <2>4, <2>8, PaperRowChange
<1> QED
  BY <1>6, <1>7

LEMMA PublishPaperStep ==
  ASSUME IInv, NEW w \in Workers, PublishPaper(w)
  PROVE  IInv' /\ Grows
<1>1. PICK k \in Slots : /\ k = proc[w].sub.slot
                         /\ Holds("paperPublish", k, proc[w].sub.outcome)
  BY Standing DEF PublishPaper, SubCalls
<1>2. /\ proc[w].pc = "paperPublish" /\ disk' = [disk EXCEPT ![k].paper = paper[k].prepared]
      /\ UNCHANGED <<now, paperVars, contextVars, cycle, faults>>
  BY <1>1 DEF PublishPaper
<1>3. PICK pc \in {"paperSnapshot", "paperSucceed"} :
        Goto(w, pc) /\ (pc = "paperSnapshot" <=> proc[w].sub.outcome = "ALREADY_SUCCEEDED")
  BY DEF PublishPaper
<1>4. paper \in [Slots -> PaperRows] /\ disk \in [Slots -> Files] /\ paper[k].prepared # None
      /\ UNCHANGED paper
  BY <1>1, <1>2 DEF IInv, StateFits, Holds, paperVars
<1>5. disk' \in [Slots -> Files]
  BY <1>2, <1>4 DEF PaperRows, Files
<1>6. DiskGrows /\ FilesFit'
  BY <1>1, <1>2, <1>4 DEF IInv, FilesFit, DiskGrows, Files, contextVars
<1>7. disk'[k].paper = paper[k].prepared
  BY <1>2, <1>4
<1>8. \A outcome \in Outcomes : outcome = proc[w].sub.outcome => Holds(pc, k, outcome)'
  BY <1>1, <1>3, <1>4, <1>7 DEF Holds
<1>9. \A r \in Slots : r = proc[w].slot => Passed(pc, r)'
  BY <1>2, <1>3, <1>5, <1>6, PassedOn DEF RunnerCalls
<1>10. OneMoves(w)
  BY <1>1, <1>2, <1>3, <1>8, <1>9, Arriving DEF PCs, SubCalls, RunnerCalls
<1> QED
  BY <1>2, <1>5, <1>6, <1>10, DiskChange

LEMMA SucceedPaperStep ==
  ASSUME IInv, NEW w \in Workers, SucceedPaper(w)
  PROVE  IInv' /\ Grows
<1>1. PICK k \in Slots : k = proc[w].sub.slot /\ Holds("paperSucceed", k, proc[w].sub.outcome)
  BY Standing DEF SucceedPaper, SubCalls
<1>2. proc[w].pc = "paperSucceed" /\ UNCHANGED <<now, contextVars, cycle, disk, faults>>
  BY DEF SucceedPaper
<1>3. proc[w].pc \in RunnerCalls \cap SubCalls /\ "paperSnapshot" \in RunnerCalls \cap SubCalls
  BY <1>2 DEF RunnerCalls, SubCalls
<1>4. faults' \in 0..MaxFaults
  BY <1>2 DEF IInv, StateFits
<1>5. CASE ~OwnsPaper(k, proc[w].sub.attempt, "PREPARED")
  BY <1>1, <1>2, <1>3, <1>4, <1>5, Retreat DEF SucceedPaper
<1>6. CASE OwnsPaper(k, proc[w].sub.attempt, "PREPARED")
  <2> DEFINE row == [paper[k] EXCEPT !.status = "SUCCEEDED"]
  <2>1. /\ paper' = [paper EXCEPT ![k] = row] /\ PaperAppend(1, now)
        /\ Goto(w, "paperSnapshot") /\ UNCHANGED <<now, disk>>
    BY <1>1, <1>2, <1>6 DEF SucceedPaper, FinishPaper
  <2>2. /\ paper \in [Slots -> PaperRows] /\ now \in Nat /\ paper[k].status = "PREPARED"
        /\ paper[k].prepared # None /\ Active(k, paper[k].prepared.at)
    BY <1>6, Standing DEF IInv, StateFits, PaperFits, OwnsPaper
  <2>3. row \in PaperRows /\ row.prepared = paper[k].prepared /\ row.status = "SUCCEEDED"
    BY <2>2 DEF PaperRows, Terminals
  <2>4. PaperAdvance(k, row)
    BY <2>1, <2>2, <2>3 DEF PaperAdvance, Terminals
  <2>5. paper'[k] = row
    BY <2>1, <2>2
  <2>6. \A outcome \in Outcomes : Holds("paperSnapshot", k, outcome)'
    BY <1>1, <2>1, <2>2, <2>3, <2>5 DEF Holds
  <2>7. \A r \in Slots : r = proc[w].slot => Passed("paperSnapshot", r)'
    BY <1>2, <1>3, PassedOn, NothingIsPublished
  <2>8. OneMoves(w)
    BY <1>1, <1>3, <2>1, <2>6, <2>7, Arriving DEF PCs
  <2> QED
    BY <1>2, <2>4, <2>8, PaperRowChange
<1> QED
  BY <1>5, <1>6

LEMMA SnapshotPaperStep ==
  ASSUME IInv, NEW w \in Workers, SnapshotPaper(w)
  PROVE  IInv' /\ Grows
<1>1. PICK k \in Slots : k = proc[w].sub.slot /\ Holds("paperSnapshot", k, proc[w].sub.outcome)
  BY Standing DEF SnapshotPaper, SubCalls
<1>2. proc[w].pc = "paperSnapshot" /\ UNCHANGED <<now, paperVars, contextVars, cycle, faults>>
  BY DEF SnapshotPaper
<1>3. proc[w].pc \in RunnerCalls \cap SubCalls /\ "reference" \in SubCalls
  BY <1>2 DEF RunnerCalls, SubCalls
<1>4. faults' \in 0..MaxFaults
  BY <1>2 DEF IInv, StateFits
<1>5. CASE ~Agrees(disk[k].paperSnapshot, paperLog.events)
  BY <1>1, <1>2, <1>3, <1>4, <1>5, Retreat DEF SnapshotPaper
<1>6. CASE Agrees(disk[k].paperSnapshot, paperLog.events)
  <2>1. /\ disk' = [disk EXCEPT ![k].paperSnapshot = paperLog.events]
        /\ Goto(w, IF Orchestrating(w) THEN "reference" ELSE "ended")
    BY <1>1, <1>2, <1>6 DEF SnapshotPaper
  <2>2. /\ disk \in [Slots -> Files] /\ paperLog \in Logs /\ UNCHANGED <<paper, context>>
        /\ paper[k].status = "SUCCEEDED" /\ paperLog.events > 0
    BY <1>1, <1>2 DEF IInv, StateFits, PaperFits, Holds, paperVars, contextVars
  <2>3. disk' \in [Slots -> Files]
    BY <2>1, <2>2 DEF Files, Logs
  <2>4. DiskGrows /\ FilesFit'
    BY <1>6, <2>1, <2>2 DEF IInv, FilesFit, DiskGrows, Files, Logs
  <2>5. CASE ~Orchestrating(w)
    BY <1>2, <2>1, <2>3, <2>4, <2>5, Ending, DiskChange
  <2>6. CASE Orchestrating(w)
    <3>1. disk'[k] = [disk[k] EXCEPT !.paperSnapshot = paperLog.events]
      BY <2>1, <2>2
    <3>2. \A outcome \in Outcomes : Holds("reference", k, outcome)'
      BY <1>1, <2>2, <3>1 DEF Holds, Files, Logs
    <3>3. \A r \in Slots : r = proc[w].slot => Passed("reference", r)'
      BY <1>2, <1>3, <2>3, <2>4, PassedOn
    <3>4. OneMoves(w)
      BY <1>1, <1>2, <1>3, <2>1, <2>6, <3>2, <3>3, Arriving DEF PCs, Orchestrating
    <3> QED
      BY <1>2, <2>3, <2>4, <3>4, DiskChange
  <2> QED
    BY <2>5, <2>6
<1> QED
  BY <1>5, <1>6

LEMMA PaperFailStep ==
  ASSUME IInv, NEW w \in Workers, PaperFail(w)
  PROVE  IInv' /\ Grows
<1>1. PICK k \in Slots : k = proc[w].sub.slot
  BY Standing DEF PaperFail, SubCalls
<1>2. /\ proc[w].pc = "paperFail" /\ Goto(w, Escape(w))
      /\ UNCHANGED <<now, contextVars, cycle, disk, faults>>
  BY DEF PaperFail
<1>3. faults' \in 0..MaxFaults
  BY <1>2 DEF IInv, StateFits
<1>4. Escape(w) = "ended" \/ (Escape(w) = "failing" /\ proc[w].slot # 0)
  BY DEF Escape, Orchestrating
<1>5. CASE UNCHANGED paperVars
  BY <1>2, <1>3, <1>4, <1>5, Retreat
<1>6. CASE OwnsPaper(k, proc[w].sub.attempt, "CLAIMED") /\ FinishPaper(k, "FAILED", now)
  <2> DEFINE row == [paper[k] EXCEPT !.status = "FAILED"]
  <2>1. paper' = [paper EXCEPT ![k] = row] /\ PaperAppend(1, now)
    BY <1>6 DEF FinishPaper
  <2>2. /\ paper \in [Slots -> PaperRows] /\ now \in Nat /\ paper[k].status = "CLAIMED"
        /\ paper[k].prepared = None
    BY <1>6, Standing DEF IInv, StateFits, PaperFits, OwnsPaper
  <2>3. row \in PaperRows /\ row.prepared = None /\ row.status = "FAILED"
    BY <2>2 DEF PaperRows
  <2>4. PaperAdvance(k, row)
    BY <2>1, <2>2, <2>3 DEF PaperAdvance, Terminals
  <2>5. OneMoves(w)
    BY <1>2, <1>4, FallingBack
  <2> QED
    BY <1>2, <2>4, <2>5, PaperRowChange
<1> QED
  BY <1>1, <1>5, <1>6 DEF PaperFail

-----------------------------------------------------------------------------
(* The context sidecar *)

\* One row of the context log advances.
ContextAdvance(k, row) ==
  /\ row \in ContextRows
  /\ context' = [context EXCEPT ![k] = row]
  /\ \E t \in Nat : ContextAppend(t)
  /\ context[k].status # "SUCCEEDED"
  /\ \/ row.prepared = context[k].prepared /\ row.supplied = context[k].supplied
     \/ /\ context[k].prepared = None
        /\ \/ row.supplied
           \/ cycle[k].stage = "COST_BINDING" /\ row.prepared = Assembled(k)
  /\ row.status \in {"PREPARED", "SUCCEEDED"} => row.prepared # None
  /\ row.status \in {"UNSEEN", "CLAIMED", "FAILED"} => row.prepared = None

LEMMA ContextRowChange ==
  ASSUME IInv, NEW w \in Workers, OneMoves(w), NEW k \in Slots, NEW row, ContextAdvance(k, row),
         UNCHANGED <<now, paperVars, cycle, disk, faults>>
  PROVE  IInv' /\ Grows
<1>1. context \in [Slots -> ContextRows] /\ contextLog \in Logs
  BY DEF IInv, StateFits
<1>2. context' \in [Slots -> ContextRows] /\ ContextGrows
  BY <1>1 DEF ContextAdvance, ContextGrows
<1>3. contextLog' \in Logs /\ contextLog'.events > 0
  BY <1>1 DEF ContextAdvance, ContextAppend, Logs
<1>4. ContextFits'
  BY <1>1, <1>3 DEF ContextAdvance, IInv, ContextFits
<1>5. \A j \in Slots :
        \/ context'[j].prepared = context[j].prepared /\ context'[j].supplied = context[j].supplied
        \/ context'[j].supplied
        \/ cycle[j].stage = "COST_BINDING" /\ context'[j].prepared = Assembled(j)
  BY <1>1 DEF ContextAdvance
<1> QED
  BY <1>2, <1>3, <1>4, <1>5, ContextChange

\* In and around the sidecar an orchestration has published its cost binding.
LEMMA BoundOn ==
  ASSUME IInv, NEW w \in Workers, NEW pc \in AfterBinding,
         proc[w].pc \in AfterBinding \cup {"idle"},
         NEW r \in Slots, r = proc[w].slot, UNCHANGED cycle, disk' \in [Slots -> Files], DiskGrows
  PROVE  Passed(pc, r)'
<1>1. Passed(proc[w].pc, r) /\ proc[w].pc # "idle"
  BY Standing, SlotFacts DEF IInv, WorkersFit, PlaceFits
<1>2. cycle[r].stage = "COST_BINDING" /\ disk[r].blobs = Blobs
  BY <1>1 DEF Passed
<1>3. disk'[r].blobs = Blobs
  BY <1>2 DEF DiskGrows, Files
<1> QED
  BY <1>2, <1>3 DEF Passed, Blobs

LEMMA ContextClaimStep ==
  ASSUME IInv, NEW w \in Workers, ContextClaim(w)
  PROVE  IInv' /\ Grows
<1>1. PICK k \in Slots :
        /\ Active(k, now)
        /\ \/ /\ context[k].status = "SUCCEEDED" /\ UNCHANGED contextVars
              /\ Call(w, "contextPublish", k, now, context[k].attempt, "ALREADY_SUCCEEDED")
           \/ /\ ContextClaimable(k, now) /\ ClaimContext(k, now)
              /\ IF context[k].prepared = None
                   THEN Call(w, "bundle", k, now, context[k].attempt + 1, "CLAIMED")
                   ELSE Call(w, "contextPublish", k, now, context[k].attempt + 1, "RESUME_PREPARED")
           \/ Goto(w, Escape(w)) /\ UNCHANGED contextVars
  BY DEF ContextClaim
<1>2. proc[w].pc \in {"context", "idle"} /\ UNCHANGED <<now, paperVars, cycle, disk, faults>>
  BY DEF ContextClaim, ContextCalled
<1>3. /\ proc[w].pc \in AfterBinding \cup {"idle"}
      /\ {"contextPublish", "bundle"} \subseteq AfterBinding \cap SubCalls \cap SidecarCalls
  BY <1>2 DEF SidecarCalls, SubCalls, AfterBinding
<1>4. (proc[w].slot # 0 => Due(proc[w].slot) <= now) /\ now \in Nat
  BY Standing DEF IInv, WorkersFit, PlaceFits
<1>5. \A pc \in {"contextPublish", "bundle"}, r \in Slots : r = proc[w].slot => Passed(pc, r)'
  BY <1>2, <1>3, BoundOn, NothingIsPublished
<1>6. /\ context[k] \in ContextRows /\ context[k].attempt \in Nat /\ faults' \in 0..MaxFaults
      /\ context \in [Slots -> ContextRows]
  BY <1>2 DEF IInv, StateFits, ContextRows
<1>7. CASE /\ context[k].status = "SUCCEEDED" /\ UNCHANGED contextVars
           /\ Call(w, "contextPublish", k, now, context[k].attempt, "ALREADY_SUCCEEDED")
  <2>1. Holds("contextPublish", k, "ALREADY_SUCCEEDED")'
    BY <1>7 DEF Holds, contextVars, IInv, ContextFits
  <2>2. OneMoves(w)
    BY <1>1, <1>2, <1>3, <1>4, <1>5, <1>6, <1>7, <2>1, SlotFacts, Calling DEF Outcomes
  <2> QED
    BY <1>2, <1>6, <1>7, <2>2, LocalStep
<1>8. CASE /\ ContextClaimable(k, now) /\ ClaimContext(k, now)
           /\ IF context[k].prepared = None
                THEN Call(w, "bundle", k, now, context[k].attempt + 1, "CLAIMED")
                ELSE Call(w, "contextPublish", k, now, context[k].attempt + 1, "RESUME_PREPARED")
  <2> DEFINE row == [context[k] EXCEPT !.status = IF context[k].prepared = None THEN "CLAIMED"
                                                                                ELSE "PREPARED",
                                       !.attempt = @ + 1, !.lease = now + Lease]
  <2>1. context' = [context EXCEPT ![k] = row]
    BY <1>6, <1>8 DEF ClaimContext, ContextRows
  <2>2. row \in ContextRows
    <3>1. now + Lease \in Nat /\ context[k].attempt + 1 \in Nat
      BY <1>4, <1>6, SlotAssumption
    <3> QED
      BY <1>6, <3>1 DEF ContextRows
  <2>3. ContextAdvance(k, row)
    BY <1>4, <1>6, <1>8, <2>1, <2>2 DEF ContextAdvance, ClaimContext, ContextClaimable, ContextRows
  <2>4. context'[k].prepared = context[k].prepared
    BY <1>6, <2>1
  <2>5. CASE context[k].prepared = None
    <3>1. Holds("bundle", k, "CLAIMED")'
      BY DEF Holds
    <3>2. OneMoves(w)
      BY <1>1, <1>2, <1>3, <1>4, <1>5, <1>6, <1>8, <2>5, <3>1, SlotFacts, Calling DEF Outcomes
    <3> QED
      BY <1>2, <2>3, <3>2, ContextRowChange
  <2>6. CASE context[k].prepared # None
    <3>1. Holds("contextPublish", k, "RESUME_PREPARED")'
      BY <2>4, <2>6 DEF Holds
    <3>2. OneMoves(w)
      BY <1>1, <1>2, <1>3, <1>4, <1>5, <1>6, <1>8, <2>6, <3>1, SlotFacts, Calling DEF Outcomes
    <3> QED
      BY <1>2, <2>3, <3>2, ContextRowChange
  <2> QED
    BY <2>5, <2>6
<1>9. CASE Goto(w, Escape(w)) /\ UNCHANGED contextVars
  BY <1>2, <1>6, <1>9, Retreat DEF Escape, Orchestrating
<1> QED
  BY <1>1, <1>7, <1>8, <1>9

\* What an operator supplies has the type of a bundle.
LEMMA SuppliedFit ==
  ASSUME IInv, NEW k \in Slots, NEW t
  PROVE  Supplied(k, t) \subseteq Bundles
<1>1. ByHand \subseteq Captures
  <2>1. \A a \in {0}, t0 \in HandTimes : a \in Nat /\ t0 \in Nat
    BY HandAssumption
  <2> QED
    BY <2>1 DEF ByHand, Captures
<1>2. \A captured \in [Slots -> Captures \cup {None}] : Documents(captured) \subseteq Captures
  BY <1>1 DEF Documents
<1>3. /\ [j \in Slots |-> cycle[j].account] \in [Slots -> Captures \cup {None}]
      /\ [j \in Slots |-> paper[j].prepared] \in [Slots -> Captures \cup {None}]
      /\ [j \in Slots |-> cycle[j].perpetual] \in [Slots -> Captures \cup {None}]
  BY DEF IInv, StateFits, CycleRows, PaperRows
<1>4. /\ Documents([j \in Slots |-> cycle[j].account]) \subseteq Captures
      /\ Documents([j \in Slots |-> paper[j].prepared]) \subseteq Captures
      /\ Documents([j \in Slots |-> cycle[j].perpetual]) \subseteq Captures
  BY <1>2, <1>3
<1>5. \A b \in Supplied(k, t) :
        b \in [account : Captures, paper : Captures, perpetual : Captures]
  <2> SUFFICES ASSUME NEW b \in Supplied(k, t)
               PROVE  b \in [account : Captures, paper : Captures, perpetual : Captures]
    OBVIOUS
  <2> DEFINE A == Documents([j \in Slots |-> cycle[j].account])
             R == Documents([j \in Slots |-> paper[j].prepared])
             P == Documents([j \in Slots |-> cycle[j].perpetual])
  <2>1. b \in [account : A, paper : R, perpetual : P]
    BY DEF Supplied
  <2>2. A \subseteq Captures /\ R \subseteq Captures /\ P \subseteq Captures
    BY <1>4
  <2> HIDE DEF A, R, P
  <2> QED
    BY <2>1, <2>2
<1> QED
  BY <1>5 DEF Bundles

\* The bundle of an orchestration that fits the sidecar's slot is the one of that slot.
LEMMA OwnBundle ==
  ASSUME IInv, NEW w \in Workers, proc[w].pc = "bundle", NEW r \in Slots, r = proc[w].slot,
         NEW k \in Slots, NEW t \in Nat, BundleFits(k, Bundle(w), t)
  PROVE  Bundle(w) \in Bundles /\ cycle[k].stage = "COST_BINDING" /\ Bundle(w) = Assembled(k)
<1>1. cycle[r] \in CycleRows /\ paper[r] \in PaperRows
  BY DEF IInv, StateFits
<1>2. Passed("bundle", r)
  BY Standing
<1>3. /\ cycle[r].stage = "COST_BINDING"
      /\ cycle[r].account \in Captures /\ cycle[r].perpetual \in Captures
      /\ cycle[r].paper = [slot |-> r, run |-> paper[r].prepared]
      /\ paper[r].prepared \in Captures /\ Active(r, paper[r].prepared.at)
  BY <1>1, <1>2 DEF Passed, AfterBinding, IInv, CycleFits, StageHolds, PaperBound, PaperFits,
                    CycleRows, PaperRows
<1>4. Bundle(w) = Assembled(r) /\ Assembled(r) \in Bundles
  BY <1>3 DEF Bundle, Row, Assembled, Bundles
<1>5. Active(k, paper[r].prepared.at) /\ paper[r].prepared.at \in Nat
  BY <1>3, <1>4 DEF BundleFits, Assembled, Captures
<1>6. k = r
  BY <1>3, <1>5, ActiveOnce DEF Active
<1> QED
  BY <1>3, <1>4, <1>6

LEMMA PrepareBundleStep ==
  ASSUME IInv, NEW w \in Workers, PrepareBundle(w)
  PROVE  IInv' /\ Grows
<1>1. PICK k \in Slots, t \in Nat :
        /\ k = proc[w].sub.slot /\ t = proc[w].sub.at /\ Holds("bundle", k, proc[w].sub.outcome)
  BY Standing DEF PrepareBundle, SubCalls
<1>2. proc[w].pc = "bundle" /\ UNCHANGED <<now, paperVars, cycle, disk, faults>>
  BY DEF PrepareBundle
<1>3. /\ proc[w].pc \in AfterBinding \cap SubCalls
      /\ "contextPublish" \in AfterBinding \cap SubCalls \cap SidecarCalls
  BY <1>2 DEF SidecarCalls, SubCalls, AfterBinding
<1>4. faults' \in 0..MaxFaults
  BY <1>2 DEF IInv, StateFits
<1>5. CASE Goto(w, "contextFail") /\ UNCHANGED contextVars
  BY <1>2, <1>3, <1>4, <1>5, Retreat
<1>6. CASE /\ OwnsContext(k, proc[w].sub.attempt, "CLAIMED", t) /\ Goto(w, "contextPublish")
           /\ \E b \in IF Orchestrating(w) THEN {Bundle(w)} ELSE Supplied(k, t) :
                 BundleFits(k, b, t) /\ PrepareContext(k, b, ~Orchestrating(w), t)
  <2>1. PICK b \in IF Orchestrating(w) THEN {Bundle(w)} ELSE Supplied(k, t) :
          BundleFits(k, b, t) /\ PrepareContext(k, b, ~Orchestrating(w), t)
    BY <1>6
  <2>2. context \in [Slots -> ContextRows] /\ contextLog \in Logs
    BY DEF IInv, StateFits
  <2>3. /\ b \in Bundles
        /\ ~Orchestrating(w) \/ (cycle[k].stage = "COST_BINDING" /\ b = Assembled(k))
    <3>1. CASE Orchestrating(w)
      <4>1. proc[w].slot \in Slots /\ b = Bundle(w)
        BY <2>1, <3>1, Standing DEF Orchestrating, Procs
      <4> QED
        BY <1>2, <2>1, <4>1, OwnBundle
    <3>2. CASE ~Orchestrating(w)
      BY <2>1, <3>2, SuppliedFit
    <3> QED
      BY <3>1, <3>2
  <2>4. context[k].status = "CLAIMED" /\ context[k].prepared = None
    BY <1>6 DEF OwnsContext, IInv, ContextFits
  <2>a. PICK supplied \in BOOLEAN : supplied = ~Orchestrating(w)
    BY Zenon
  <2> DEFINE row == [context[k] EXCEPT !.status = "PREPARED", !.prepared = b, !.supplied = supplied]
  <2>5. context' = [context EXCEPT ![k] = row] /\ context'[k] = row
    BY <2>1, <2>2, <2>a DEF PrepareContext
  <2>6. /\ row \in ContextRows /\ row.prepared # None /\ row.prepared = b
        /\ row.status = "PREPARED" /\ row.supplied = supplied
    <3>1. b # None
      BY <2>3, NoneAssumption
    <3> QED
      BY <2>2, <2>3, <3>1 DEF ContextRows
  <2>7. ContextAdvance(k, row)
    BY <1>1, <2>1, <2>3, <2>4, <2>5, <2>6, <2>a DEF ContextAdvance, PrepareContext
  <2>8. \A outcome \in Outcomes : outcome = proc[w].sub.outcome =>
                                    Holds("contextPublish", k, outcome)'
    BY <1>1, <2>5, <2>6 DEF Holds
  <2>9. \A r \in Slots : r = proc[w].slot => Passed("contextPublish", r)'
    BY <1>2, <1>3, BoundOn, NothingIsPublished
  <2>10. OneMoves(w)
    BY <1>1, <1>2, <1>3, <1>6, <2>8, <2>9, Arriving DEF PCs
  <2> QED
    BY <1>2, <2>7, <2>10, ContextRowChange
<1> QED
  BY <1>1, <1>5, <1>6 DEF PrepareBundle

LEMMA PublishContextStep ==
  ASSUME IInv, NEW w \in Workers, PublishContext(w)
  PROVE  IInv' /\ Grows
<1>1. PICK k \in Slots : /\ k = proc[w].sub.slot
                         /\ Holds("contextPublish", k, proc[w].sub.outcome)
  BY Standing DEF PublishContext, SubCalls
<1>2. /\ proc[w].pc = "contextPublish"
      /\ disk' = [disk EXCEPT ![k].context = context[k].prepared]
      /\ UNCHANGED <<now, paperVars, contextVars, cycle, faults>>
  BY <1>1 DEF PublishContext
<1>3. PICK pc \in {"contextSnapshot", "contextSucceed"} :
        Goto(w, pc) /\ (pc = "contextSnapshot" <=> proc[w].sub.outcome = "ALREADY_SUCCEEDED")
  BY DEF PublishContext
<1>4. /\ context \in [Slots -> ContextRows] /\ disk \in [Slots -> Files]
      /\ context[k].prepared # None /\ UNCHANGED <<context, paper>>
  BY <1>1, <1>2 DEF IInv, StateFits, Holds, contextVars, paperVars
<1>5. disk' \in [Slots -> Files]
  BY <1>2, <1>4 DEF ContextRows, Files
<1>6. DiskGrows /\ FilesFit'
  BY <1>1, <1>2, <1>4 DEF IInv, FilesFit, DiskGrows, Files
<1>7. disk'[k].context = context[k].prepared
  BY <1>2, <1>4
<1>8. \A outcome \in Outcomes : outcome = proc[w].sub.outcome => Holds(pc, k, outcome)'
  BY <1>1, <1>3, <1>4, <1>7 DEF Holds
<1>9. {proc[w].pc, pc} \subseteq AfterBinding \cap SubCalls \cap SidecarCalls
  BY <1>2, <1>3 DEF AfterBinding, SubCalls, SidecarCalls
<1>10. \A r \in Slots : r = proc[w].slot => Passed(pc, r)'
  BY <1>2, <1>5, <1>6, <1>9, BoundOn
<1>11. OneMoves(w)
  BY <1>1, <1>2, <1>3, <1>8, <1>9, <1>10, Arriving DEF PCs
<1> QED
  BY <1>2, <1>5, <1>6, <1>11, DiskChange

LEMMA SucceedContextStep ==
  ASSUME IInv, NEW w \in Workers, SucceedContext(w)
  PROVE  IInv' /\ Grows
<1>1. PICK k \in Slots, t \in Nat :
        /\ k = proc[w].sub.slot /\ t = proc[w].sub.at
        /\ Holds("contextSucceed", k, proc[w].sub.outcome)
  BY Standing DEF SucceedContext, SubCalls
<1>2. proc[w].pc = "contextSucceed" /\ UNCHANGED <<now, paperVars, cycle, disk, faults>>
  BY DEF SucceedContext
<1>3. {proc[w].pc, "contextSnapshot"} \subseteq AfterBinding \cap SubCalls \cap SidecarCalls
  BY <1>2 DEF AfterBinding, SubCalls, SidecarCalls
<1>4. faults' \in 0..MaxFaults
  BY <1>2 DEF IInv, StateFits
<1>5. \A r \in Slots : r = proc[w].slot => Passed("contextSnapshot", r)'
  BY <1>2, <1>3, BoundOn, NothingIsPublished
<1>6. CASE ~OwnsContext(k, proc[w].sub.attempt, "PREPARED", t)
  BY <1>1, <1>2, <1>3, <1>4, <1>6, Retreat DEF SucceedContext
<1>7. CASE OwnsContext(k, proc[w].sub.attempt, "PREPARED", t)
  <2> DEFINE row == [context[k] EXCEPT !.status = "SUCCEEDED"]
  <2>1. /\ context' = [context EXCEPT ![k] = row] /\ ContextAppend(t)
        /\ Goto(w, "contextSnapshot") /\ UNCHANGED <<now, disk>>
    BY <1>1, <1>2, <1>7 DEF SucceedContext, FinishContext
  <2>2. /\ context \in [Slots -> ContextRows] /\ context[k].status = "PREPARED"
        /\ context[k].prepared # None
    BY <1>7 DEF IInv, StateFits, ContextFits, OwnsContext
  <2>3. row \in ContextRows /\ row.prepared = context[k].prepared /\ row.status = "SUCCEEDED"
    BY <2>2 DEF ContextRows
  <2>4. ContextAdvance(k, row)
    BY <1>1, <2>1, <2>2, <2>3 DEF ContextAdvance
  <2>5. context'[k] = row
    BY <2>1, <2>2
  <2>6. \A outcome \in Outcomes : Holds("contextSnapshot", k, outcome)'
    BY <1>1, <2>1, <2>2, <2>3, <2>5 DEF Holds
  <2>7. OneMoves(w)
    BY <1>1, <1>3, <1>5, <2>1, <2>6, Arriving DEF PCs
  <2> QED
    BY <1>2, <2>4, <2>7, ContextRowChange
<1> QED
  BY <1>6, <1>7

LEMMA SnapshotContextStep ==
  ASSUME IInv, NEW w \in Workers, SnapshotContext(w)
  PROVE  IInv' /\ Grows
<1>1. PICK k \in Slots : k = proc[w].sub.slot /\ Holds("contextSnapshot", k, proc[w].sub.outcome)
  BY Standing DEF SnapshotContext, SubCalls
<1>2. proc[w].pc = "contextSnapshot" /\ UNCHANGED <<now, paperVars, contextVars, cycle, faults>>
  BY DEF SnapshotContext
<1>3. {proc[w].pc, "seal"} \subseteq AfterBinding \cap SubCalls
  BY <1>2 DEF AfterBinding, SubCalls
<1>4. faults' \in 0..MaxFaults
  BY <1>2 DEF IInv, StateFits
<1>5. CASE ~Agrees(disk[k].contextSnapshot, contextLog.events)
  BY <1>1, <1>2, <1>3, <1>4, <1>5, Retreat DEF SnapshotContext
<1>6. CASE Agrees(disk[k].contextSnapshot, contextLog.events)
  <2>1. /\ disk' = [disk EXCEPT ![k].contextSnapshot = contextLog.events]
        /\ Goto(w, IF Orchestrating(w) THEN "seal" ELSE "ended")
    BY <1>1, <1>2, <1>6 DEF SnapshotContext
  <2>2. /\ disk \in [Slots -> Files] /\ contextLog \in Logs /\ UNCHANGED <<paper, context>>
        /\ context[k].status = "SUCCEEDED" /\ contextLog.events > 0
    BY <1>1, <1>2 DEF IInv, StateFits, ContextFits, Holds, paperVars, contextVars
  <2>3. disk' \in [Slots -> Files]
    BY <2>1, <2>2 DEF Files, Logs
  <2>4. DiskGrows /\ FilesFit'
    BY <1>6, <2>1, <2>2 DEF IInv, FilesFit, DiskGrows, Files, Logs
  <2>5. CASE ~Orchestrating(w)
    BY <1>2, <2>1, <2>3, <2>4, <2>5, Ending, DiskChange
  <2>6. CASE Orchestrating(w)
    <3>1. disk'[k] = [disk[k] EXCEPT !.contextSnapshot = contextLog.events]
      BY <2>1, <2>2
    <3>2. \A outcome \in Outcomes : Holds("seal", k, outcome)'
      BY <1>1, <2>2, <3>1 DEF Holds, Files, Logs
    <3>3. \A r \in Slots : r = proc[w].slot => Passed("seal", r)'
      BY <1>2, <1>3, <2>3, <2>4, BoundOn
    <3>4. OneMoves(w)
      BY <1>1, <1>2, <1>3, <2>1, <2>6, <3>2, <3>3, Arriving DEF PCs, Orchestrating
    <3> QED
      BY <1>2, <2>3, <2>4, <3>4, DiskChange
  <2> QED
    BY <2>5, <2>6
<1> QED
  BY <1>5, <1>6

LEMMA ContextFailStep ==
  ASSUME IInv, NEW w \in Workers, ContextFail(w)
  PROVE  IInv' /\ Grows
<1>1. PICK k \in Slots, t \in Nat : k = proc[w].sub.slot /\ t = proc[w].sub.at
  BY Standing DEF ContextFail, SubCalls
<1>2. /\ proc[w].pc = "contextFail" /\ Goto(w, Escape(w))
      /\ UNCHANGED <<now, paperVars, cycle, disk, faults>>
  BY DEF ContextFail
<1>3. faults' \in 0..MaxFaults
  BY <1>2 DEF IInv, StateFits
<1>4. Escape(w) = "ended" \/ (Escape(w) = "failing" /\ proc[w].slot # 0)
  BY DEF Escape, Orchestrating
<1>5. CASE UNCHANGED contextVars
  BY <1>2, <1>3, <1>4, <1>5, Retreat
<1>6. CASE OwnsContext(k, proc[w].sub.attempt, "CLAIMED", t) /\ FinishContext(k, "FAILED", t)
  <2> DEFINE row == [context[k] EXCEPT !.status = "FAILED"]
  <2>1. context' = [context EXCEPT ![k] = row] /\ ContextAppend(t)
    BY <1>6 DEF FinishContext
  <2>2. /\ context \in [Slots -> ContextRows] /\ context[k].status = "CLAIMED"
        /\ context[k].prepared = None
    BY <1>6 DEF IInv, StateFits, ContextFits, OwnsContext
  <2>3. row \in ContextRows /\ row.prepared = None /\ row.status = "FAILED"
    BY <2>2 DEF ContextRows
  <2>4. ContextAdvance(k, row)
    BY <1>1, <2>1, <2>2, <2>3 DEF ContextAdvance
  <2>5. OneMoves(w)
    BY <1>2, <1>4, FallingBack
  <2> QED
    BY <1>2, <2>4, <2>5, ContextRowChange
<1> QED
  BY <1>1, <1>5, <1>6 DEF ContextFail

-----------------------------------------------------------------------------
(* The orchestration *)

\* An invocation that no longer holds the claim goes on to fail.
LEMMA Refused ==
  ASSUME IInv, NEW w \in Workers, proc[w].slot # 0, Goto(w, "failing"),
         UNCHANGED <<now, paperVars, contextVars, cycle, disk, faults>>
  PROVE  IInv' /\ Grows
<1>1. faults' \in 0..MaxFaults
  BY DEF IInv, StateFits
<1> QED
  BY <1>1, Retreat

\* One that holds it is in the slot of the claim, and so is a nested call of it.
LEMMA Holding ==
  ASSUME IInv, NEW w \in Workers, NEW r \in Slots, r = proc[w].slot, NEW stage,
         HoldsCycle(w, stage)
  PROVE  /\ cycle[r] \in CycleRows /\ cycle[r] = Row(w)
         /\ cycle[r].status = "CLAIMED" /\ cycle[r].stage = stage
         /\ StageHolds(cycle[r]) /\ cycle[r].lease <= Expires(r)
         /\ proc[w].pc \in SubCalls => proc[w].sub.slot = r
<1>1. /\ cycle[r] \in CycleRows /\ cycle[r] = Row(w) /\ cycle[r].status = "CLAIMED"
      /\ cycle[r].stage = stage /\ StageHolds(cycle[r]) /\ cycle[r].lease <= Expires(r)
      /\ now < cycle[r].lease
  BY DEF HoldsCycle, Row, IInv, StateFits, CycleFits
<1>2. ASSUME proc[w].pc \in SubCalls
      PROVE  proc[w].sub.slot = r
  <2>1. /\ proc[w].sub.slot \in Slots /\ Active(proc[w].sub.slot, proc[w].sub.at)
        /\ proc[w].sub.at \in Nat /\ now \in Nat /\ proc[w].sub.at <= now
        /\ Due(r) <= proc[w].sub.at
    BY <1>2, Standing, SlotFacts
  <2>2. proc[w].sub.at < Expires(r)
    BY <1>1, <2>1, SlotFacts DEF CycleRows
  <2> QED
    BY <2>1, <2>2, ActiveOnce
<1> QED
  BY <1>1, <1>2

\* An advance of the row that holds on to what is bound.
CycleAdvance(r, row) ==
  /\ cycle' = [cycle EXCEPT ![r] = row] /\ row \in CycleRows
  /\ cycle[r].status # "SUCCEEDED" /\ StageHolds(row) /\ row.lease <= Expires(r)
  /\ cycle[r].account # None => row.account = cycle[r].account
  /\ cycle[r].perpetual # None => row.perpetual = cycle[r].perpetual
  /\ cycle[r].stage # "NONE" => row.stage # "NONE"
  /\ cycle[r].stage \in {"PERPETUAL", "COST_BINDING"} => row.stage \in {"PERPETUAL", "COST_BINDING"}
  /\ cycle[r].stage = "COST_BINDING" => row.stage = "COST_BINDING"

LEMMA CycleRowChange ==
  ASSUME IInv, NEW w \in Workers, OneMoves(w), NEW r \in Slots, NEW row, CycleAdvance(r, row),
         \/ row.paper = cycle[r].paper
         \/ /\ row.paper = [slot |-> r, run |-> paper[r].prepared] /\ paper[r].status = "SUCCEEDED"
            /\ disk[r].paper = paper[r].prepared /\ disk[r].paperSnapshot # 0,
         row.stage = "COST_BINDING" => row.account.at <= paper[r].prepared.at,
         row.status = "SUCCEEDED" =>
           /\ context[r].status = "SUCCEEDED" /\ disk[r].blobs = Blobs
           /\ row.context = [slot |-> r, bundle |-> context[r].prepared]
           /\ row.stage = "COST_BINDING"
           /\ disk[r].context = context[r].prepared /\ disk[r].contextSnapshot # 0,
         UNCHANGED <<now, paperVars, contextVars, disk, faults>>
  PROVE  IInv' /\ Grows
<1>1. cycle \in [Slots -> CycleRows] /\ UNCHANGED <<paper, context>>
  BY DEF IInv, StateFits, paperVars, contextVars
<1>2. cycle'[r] = row /\ \A k \in Slots \ {r} : cycle'[k] = cycle[k]
  BY <1>1 DEF CycleAdvance
<1>3. CycleGrows
  <2> SUFFICES ASSUME NEW k \in Slots
               PROVE  /\ cycle[k].account # None => cycle'[k].account = cycle[k].account
                      /\ cycle[k].perpetual # None => cycle'[k].perpetual = cycle[k].perpetual
                      /\ cycle[k].stage # "NONE" => cycle'[k].stage # "NONE"
                      /\ cycle[k].stage \in {"PERPETUAL", "COST_BINDING"} =>
                           cycle'[k].stage \in {"PERPETUAL", "COST_BINDING"}
                      /\ cycle[k].stage = "COST_BINDING" => cycle'[k].stage = "COST_BINDING"
    BY DEF CycleGrows
  <2> QED
    BY <1>2 DEF CycleAdvance
<1>4. row.paper # None => PaperBound(r)'
  BY <1>1, <1>2 DEF PaperBound, IInv, CycleFits
<1>5. row.status = "SUCCEEDED" => ContextBound(r)'
  BY <1>1, <1>2 DEF ContextBound
<1> QED
  BY <1>3, <1>4, <1>5, CycleChange DEF CycleAdvance

LEMMA ClaimCycleStep ==
  ASSUME IInv, NEW w \in Workers, ClaimCycle(w)
  PROVE  IInv' /\ Grows
<1>1. PICK k \in Slots :
        /\ Active(k, now)
        /\ IF CycleFree(k, now)
             THEN /\ cycle' = [cycle EXCEPT ![k].status = "CLAIMED", ![k].attempt = @ + 1,
                                            ![k].lease = LeaseUntil(k, now)]
                  /\ proc' = [proc EXCEPT ![w] = [NoProc EXCEPT !.pc = "account", !.slot = k,
                                                     !.attempt = cycle[k].attempt + 1]]
             ELSE Goto(w, "ended") /\ UNCHANGED cycle
  BY DEF ClaimCycle
<1>2. UNCHANGED <<now, paperVars, contextVars, disk, faults>>
  BY DEF ClaimCycle
<1>3. /\ cycle \in [Slots -> CycleRows] /\ proc \in [Workers -> Procs]
      /\ now \in Nat /\ faults \in 0..MaxFaults /\ StageHolds(cycle[k])
  BY Standing DEF IInv, StateFits, CycleFits
<1>4. CASE ~CycleFree(k, now)
  BY <1>1, <1>2, <1>3, <1>4, Retreat
<1>5. CASE CycleFree(k, now)
  <2> DEFINE row == [cycle[k] EXCEPT !.status = "CLAIMED", !.attempt = @ + 1,
                                     !.lease = LeaseUntil(k, now)]
  <2>1. LeaseUntil(k, now) \in Nat /\ LeaseUntil(k, now) <= Expires(k)
    BY <1>3, SlotFacts, SlotAssumption DEF LeaseUntil
  <2>2. cycle' = [cycle EXCEPT ![k] = row] /\ row \in CycleRows
    BY <1>1, <1>3, <1>5, <2>1 DEF CycleRows
  <2>3. cycle[k].status # "SUCCEEDED"
    BY <1>5 DEF CycleFree
  <2>4. CycleAdvance(k, row)
    BY <1>3, <2>1, <2>2, <2>3 DEF CycleAdvance, StageHolds, CycleRows
  <2>5. OneMoves(w)
    <3>1. proc' = [proc EXCEPT ![w] = [pc |-> "account", slot |-> k,
                                       attempt |-> cycle[k].attempt + 1, sub |-> NoSub]]
      BY <1>1, <1>5 DEF NoProc
    <3>2. [pc |-> "account", slot |-> k, attempt |-> cycle[k].attempt + 1, sub |-> NoSub] \in Procs
      BY <1>3 DEF Procs, PCs, NoSub, Subs, Outcomes, CycleRows
    <3>3. Due(k) <= now' /\ Passed("account", k)'
      BY <1>1, <1>2, SlotFacts
         DEF Active, Passed, AfterAccount, AfterPerpetual, AfterBinding, RunnerCalls
    <3> QED
      BY <1>3, <3>1, <3>2, <3>3, SlotFacts DEF OneMoves, PlaceFits, SubFits, SubCalls
  <2>6. row.stage = "COST_BINDING" => row.account.at <= paper[k].prepared.at
    BY <1>3 DEF IInv, CycleFits, CycleRows
  <2>7. row.status = "CLAIMED" /\ row.paper = cycle[k].paper
    BY <1>3 DEF CycleRows
  <2> QED
    BY <1>2, <2>4, <2>5, <2>6, <2>7, CycleRowChange
<1> QED
  BY <1>4, <1>5

\* What is published for the slot of an orchestration.
LEMMA BlobChange ==
  ASSUME IInv, NEW w \in Workers, NEW r \in Slots, r = proc[w].slot, NEW blob \in Blobs,
         NEW pc \in PCs \ (SubCalls \cup {"idle", "ended"}), PublishBlob(w, blob, pc),
         pc \in AfterAccount =>
           cycle[r].stage # "NONE" /\ "ACCOUNT" \in disk[r].blobs \cup {blob},
         pc \in AfterPerpetual => /\ cycle[r].stage \in {"PERPETUAL", "COST_BINDING"}
                                  /\ "PERPETUAL" \in disk[r].blobs \cup {blob},
         pc \in AfterBinding =>
           cycle[r].stage = "COST_BINDING" /\ disk[r].blobs \cup {blob} = Blobs
  PROVE  IInv' /\ Grows
<1>1. /\ disk' = [disk EXCEPT ![r].blobs = @ \cup {blob}] /\ Goto(w, pc)
      /\ UNCHANGED <<now, paperVars, contextVars, cycle, faults>>
  BY DEF PublishBlob
<1>2. disk \in [Slots -> Files] /\ UNCHANGED <<paper, context>>
  BY <1>1 DEF IInv, StateFits, paperVars, contextVars
<1>3. disk' \in [Slots -> Files]
  BY <1>1, <1>2 DEF Files
<1>4. DiskGrows /\ FilesFit'
  BY <1>1, <1>2 DEF IInv, FilesFit, DiskGrows, Files
<1>5. disk'[r].blobs = disk[r].blobs \cup {blob} /\ disk'[r].blobs \subseteq Blobs
  BY <1>1, <1>2, <1>3 DEF Files
<1>6. Passed(pc, r)'
  BY <1>1, <1>5 DEF Passed
<1>7. OneMoves(w)
  <2>1. \A k \in Slots, outcome \in Outcomes : Holds(pc, k, outcome)'
    BY DEF Holds, SubCalls
  <2> QED
    BY <1>1, <1>6, <2>1, SlotFacts, Arriving
<1> QED
  BY <1>1, <1>3, <1>4, <1>7, DiskChange

LEMMA PublishAccountStep ==
  ASSUME IInv, NEW w \in Workers, PublishAccount(w)
  PROVE  IInv' /\ Grows
<1>1. /\ proc[w].pc = "account" /\ StageOf(w) # "NONE" /\ PublishBlob(w, "ACCOUNT", "paper")
  BY DEF PublishAccount
<1>2. PICK r \in Slots : r = proc[w].slot
  BY <1>1, Standing DEF RunnerCalls, SidecarCalls
<1>3. cycle[r].stage # "NONE"
  BY <1>1, <1>2 DEF StageOf, Row
<1> QED
  BY <1>1, <1>2, <1>3, BlobChange DEF Blobs, PCs, SubCalls, AfterPerpetual, AfterBinding

LEMMA PublishPerpetualStep ==
  ASSUME IInv, NEW w \in Workers, PublishPerpetual(w)
  PROVE  IInv' /\ Grows
<1>1. proc[w].pc = "paper" /\ StageOf(w) \in {"PERPETUAL", "COST_BINDING"}
  BY DEF PublishPerpetual
<1>2. PICK r \in Slots : r = proc[w].slot /\ Passed("paper", r)
  BY <1>1, Standing DEF RunnerCalls, SidecarCalls
<1>3. cycle[r].stage \in {"PERPETUAL", "COST_BINDING"} /\ "ACCOUNT" \in disk[r].blobs
  BY <1>1, <1>2 DEF StageOf, Row, Passed, AfterAccount
<1>4. CASE PaperIsReadable(w)
  <2>1. PublishBlob(w, "PERPETUAL", "binding")
    BY <1>4 DEF PublishPerpetual
  <2> QED
    BY <1>2, <1>3, <2>1, BlobChange DEF Blobs, PCs, SubCalls, AfterBinding
<1>5. CASE ~PaperIsReadable(w)
  BY <1>2, <1>5, SlotFacts, Refused DEF PublishPerpetual
<1> QED
  BY <1>4, <1>5

LEMMA PublishBindingStep ==
  ASSUME IInv, NEW w \in Workers, PublishBinding(w)
  PROVE  IInv' /\ Grows
<1>1. proc[w].pc = "binding" /\ StageOf(w) # "PERPETUAL" /\ PublishBlob(w, "COST_BINDING", "context")
  BY DEF PublishBinding
<1>2. PICK r \in Slots : r = proc[w].slot /\ Passed("binding", r)
  BY <1>1, Standing DEF RunnerCalls, SidecarCalls
<1>3. /\ cycle[r].stage = "COST_BINDING" /\ {"ACCOUNT", "PERPETUAL"} \subseteq disk[r].blobs
      /\ disk[r].blobs \subseteq Blobs
  BY <1>1, <1>2 DEF StageOf, Row, Passed, AfterAccount, AfterPerpetual, IInv, StateFits, Files
<1>4. disk[r].blobs \cup {"COST_BINDING"} = Blobs
  BY <1>3 DEF Blobs
<1> QED
  BY <1>1, <1>2, <1>3, <1>4, BlobChange DEF Blobs, PCs, SubCalls

LEMMA PrepareAccountStep ==
  ASSUME IInv, NEW w \in Workers, PrepareAccount(w)
  PROVE  IInv' /\ Grows
<1>1. proc[w].pc = "account" /\ UNCHANGED <<now, paperVars, contextVars, disk, faults>>
  BY DEF PrepareAccount
<1>2. PICK r \in Slots : r = proc[w].slot
  BY <1>1, Standing DEF RunnerCalls, SidecarCalls
<1> DEFINE row == [Row(w) EXCEPT !.stage = "ACCOUNT", !.account = Capture(w)]
<1>3. Advance(w, "NONE", row, "account")
  BY DEF PrepareAccount
<1>4. CASE ~HoldsCycle(w, "NONE")
  BY <1>1, <1>2, <1>3, <1>4, SlotFacts, Refused DEF Advance
<1>5. CASE HoldsCycle(w, "NONE")
  <2>1. cycle' = [cycle EXCEPT ![r] = row] /\ Goto(w, "account")
    BY <1>2, <1>3, <1>5 DEF Advance
  <2>2. /\ cycle[r] \in CycleRows /\ cycle[r] = Row(w) /\ cycle[r].status = "CLAIMED"
        /\ cycle[r].stage = "NONE" /\ StageHolds(cycle[r]) /\ cycle[r].lease <= Expires(r)
    BY <1>2, <1>5, Holding
  <2>3. Capture(w) \in Captures /\ Capture(w) # None
    BY Standing, NoneAssumption DEF Capture, Captures, Procs
  <2>4. row \in CycleRows /\ StageHolds(row)
    BY <2>2, <2>3 DEF CycleRows, StageHolds, Stages
  <2>5. CycleAdvance(r, row) /\ row.paper = cycle[r].paper /\ row.stage = "ACCOUNT"
        /\ row.status = "CLAIMED"
    BY <2>1, <2>2, <2>4 DEF CycleAdvance, StageHolds, CycleRows
  <2>6. OneMoves(w)
    <3>1. /\ \A k \in Slots, outcome \in Outcomes : Holds("account", k, outcome)'
          /\ Passed("account", r)' /\ "account" \in PCs \ (SubCalls \cup {"idle", "ended"})
      BY DEF Holds, Passed, AfterAccount, AfterPerpetual, AfterBinding, RunnerCalls, PCs, SubCalls
    <3> QED
      BY <1>1, <1>2, <2>1, <3>1, SlotFacts, Arriving
  <2> QED
    BY <1>1, <2>5, <2>6, CycleRowChange
<1> QED
  BY <1>4, <1>5

LEMMA ReferencePaperStep ==
  ASSUME IInv, NEW w \in Workers, ReferencePaper(w)
  PROVE  IInv' /\ Grows
<1>1. proc[w].pc = "reference" /\ UNCHANGED <<now, paperVars, contextVars, disk, faults>>
  BY DEF ReferencePaper
<1>2. PICK r \in Slots : r = proc[w].slot /\ Passed("reference", r)
  BY <1>1, Standing DEF RunnerCalls, SidecarCalls
<1>3. PICK k \in Slots : k = proc[w].sub.slot /\ Holds("reference", k, proc[w].sub.outcome)
  BY <1>1, Standing DEF SubCalls
<1> DEFINE row == [Row(w) EXCEPT !.stage = "PAPER",
                                 !.paper = [slot |-> k, run |-> paper[k].prepared]]
<1>4. Advance(w, "ACCOUNT", row, "paper")
  BY <1>3 DEF ReferencePaper
<1>5. CASE ~HoldsCycle(w, "ACCOUNT")
  BY <1>1, <1>2, <1>4, <1>5, SlotFacts, Refused DEF Advance
<1>6. CASE HoldsCycle(w, "ACCOUNT")
  <2>1. cycle' = [cycle EXCEPT ![r] = row] /\ Goto(w, "paper")
    BY <1>2, <1>4, <1>6 DEF Advance
  <2>2. /\ cycle[r] \in CycleRows /\ cycle[r] = Row(w) /\ cycle[r].status = "CLAIMED"
        /\ cycle[r].stage = "ACCOUNT" /\ StageHolds(cycle[r]) /\ cycle[r].lease <= Expires(r)
        /\ k = r
    BY <1>1, <1>2, <1>3, <1>6, Holding DEF SubCalls
  <2>3. /\ paper[r].prepared \in Captures /\ paper[r].status = "SUCCEEDED"
        /\ disk[r].paper = paper[r].prepared /\ disk[r].paperSnapshot # 0
    BY <1>3, <2>2 DEF Holds, IInv, StateFits, PaperRows
  <2> DEFINE reference == [slot |-> r, run |-> paper[r].prepared]
  <2>4. reference \in References /\ reference # None
    BY <2>3, NoneAssumption DEF References
  <2>5. row \in CycleRows /\ StageHolds(row) /\ row.paper = reference /\ row.stage = "PAPER"
        /\ row.status = "CLAIMED"
    BY <2>2, <2>4 DEF CycleRows, StageHolds, Stages
  <2>6. CycleAdvance(r, row)
    BY <2>1, <2>2, <2>5 DEF CycleAdvance, StageHolds, CycleRows
  <2>7. OneMoves(w)
    <3>1. \A j \in Slots, outcome \in Outcomes : Holds("paper", j, outcome)'
      BY DEF Holds
    <3>2. cycle'[r].stage = "PAPER" /\ "ACCOUNT" \in disk[r].blobs
      BY <1>2, <2>1, <2>5 DEF IInv, StateFits, Passed, AfterAccount
    <3>3. Passed("paper", r)'
      BY <1>1, <3>2 DEF Passed, AfterPerpetual, AfterBinding
    <3> QED
      BY <1>1, <1>2, <2>1, <3>1, <3>3, SlotFacts, Arriving DEF PCs, SubCalls
  <2> QED
    BY <1>1, <2>3, <2>5, <2>6, <2>7, CycleRowChange
<1> QED
  BY <1>5, <1>6

LEMMA PreparePerpetualStep ==
  ASSUME IInv, NEW w \in Workers, PreparePerpetual(w)
  PROVE  IInv' /\ Grows
<1>1. proc[w].pc = "paper" /\ UNCHANGED <<now, paperVars, contextVars, disk, faults>>
  BY DEF PreparePerpetual
<1>2. PICK r \in Slots : r = proc[w].slot /\ Passed("paper", r)
  BY <1>1, Standing DEF RunnerCalls, SidecarCalls
<1> DEFINE row == [Row(w) EXCEPT !.stage = "PERPETUAL", !.perpetual = Capture(w)]
<1>3. CASE ~(PaperIsReadable(w) /\ HoldsCycle(w, "PAPER"))
  BY <1>1, <1>2, <1>3, SlotFacts, Refused DEF PreparePerpetual, Advance
<1>4. CASE PaperIsReadable(w) /\ HoldsCycle(w, "PAPER")
  <2>1. cycle' = [cycle EXCEPT ![r] = row] /\ Goto(w, "paper")
    BY <1>2, <1>4 DEF PreparePerpetual, Advance
  <2>2. /\ cycle[r] \in CycleRows /\ cycle[r] = Row(w) /\ cycle[r].status = "CLAIMED"
        /\ cycle[r].stage = "PAPER" /\ StageHolds(cycle[r]) /\ cycle[r].lease <= Expires(r)
    BY <1>2, <1>4, Holding
  <2>3. Capture(w) \in Captures /\ Capture(w) # None
    BY Standing, NoneAssumption DEF Capture, Captures, Procs
  <2>4. row \in CycleRows /\ StageHolds(row) /\ row.paper = cycle[r].paper
        /\ row.stage = "PERPETUAL" /\ row.status = "CLAIMED"
    BY <2>2, <2>3 DEF CycleRows, StageHolds, Stages
  <2>5. CycleAdvance(r, row)
    BY <2>1, <2>2, <2>4 DEF CycleAdvance, StageHolds, CycleRows
  <2>6. OneMoves(w)
    <3>1. \A k \in Slots, outcome \in Outcomes : Holds("paper", k, outcome)'
      BY DEF Holds
    <3>2. cycle'[r].stage = "PERPETUAL" /\ "ACCOUNT" \in disk[r].blobs
      BY <1>2, <2>1, <2>4 DEF IInv, StateFits, Passed, AfterAccount
    <3>3. Passed("paper", r)'
      BY <1>1, <3>2 DEF Passed, AfterPerpetual, AfterBinding
    <3> QED
      BY <1>1, <1>2, <2>1, <3>1, <3>3, SlotFacts, Arriving DEF PCs, SubCalls
  <2> QED
    BY <1>1, <2>4, <2>5, <2>6, CycleRowChange
<1> QED
  BY <1>3, <1>4

LEMMA PrepareBindingStep ==
  ASSUME IInv, NEW w \in Workers, PrepareBinding(w)
  PROVE  IInv' /\ Grows
<1>1. proc[w].pc = "binding" /\ UNCHANGED <<now, paperVars, contextVars, disk, faults>>
  BY DEF PrepareBinding
<1>2. PICK r \in Slots : r = proc[w].slot /\ Passed("binding", r)
  BY <1>1, Standing DEF RunnerCalls, SidecarCalls
<1> DEFINE row == [Row(w) EXCEPT !.stage = "COST_BINDING"]
<1>3. CASE ~(PointInTime(Row(w).account, Row(w).paper.run) /\ HoldsCycle(w, "PERPETUAL"))
  BY <1>1, <1>2, <1>3, SlotFacts, Refused DEF PrepareBinding, Advance
<1>4. CASE PointInTime(Row(w).account, Row(w).paper.run) /\ HoldsCycle(w, "PERPETUAL")
  <2>1. cycle' = [cycle EXCEPT ![r] = row] /\ Goto(w, "binding")
    BY <1>2, <1>4 DEF PrepareBinding, Advance
  <2>2. /\ cycle[r] \in CycleRows /\ cycle[r] = Row(w) /\ cycle[r].status = "CLAIMED"
        /\ cycle[r].stage = "PERPETUAL" /\ StageHolds(cycle[r]) /\ cycle[r].lease <= Expires(r)
    BY <1>2, <1>4, Holding
  <2>3. cycle[r].paper.run = paper[r].prepared
    <3>1. cycle[r].paper # None
      BY <2>2 DEF StageHolds
    <3>2. cycle[r].paper = [slot |-> r, run |-> paper[r].prepared]
      BY <3>1 DEF IInv, CycleFits, PaperBound
    <3> QED
      BY <3>2
  <2>4. cycle[r].account.at <= paper[r].prepared.at
    BY <1>4, <2>2, <2>3 DEF PointInTime
  <2>5. row \in CycleRows /\ StageHolds(row) /\ row.paper = cycle[r].paper
        /\ row.account = cycle[r].account /\ row.stage = "COST_BINDING" /\ row.status = "CLAIMED"
    BY <2>2 DEF CycleRows, StageHolds, Stages
  <2>6. CycleAdvance(r, row)
    BY <2>1, <2>2, <2>5 DEF CycleAdvance, StageHolds, CycleRows
  <2>7. OneMoves(w)
    <3>1. \A k \in Slots, outcome \in Outcomes : Holds("binding", k, outcome)'
      BY DEF Holds
    <3>2. cycle'[r].stage = "COST_BINDING" /\ {"ACCOUNT", "PERPETUAL"} \subseteq disk[r].blobs
      BY <1>2, <2>1, <2>5 DEF IInv, StateFits, Passed, AfterAccount, AfterPerpetual
    <3>3. Passed("binding", r)'
      BY <1>1, <3>2 DEF Passed, AfterBinding
    <3> QED
      BY <1>1, <1>2, <2>1, <3>1, <3>3, SlotFacts, Arriving DEF PCs, SubCalls
  <2> QED
    BY <1>1, <2>4, <2>5, <2>6, <2>7, CycleRowChange
<1> QED
  BY <1>3, <1>4

LEMMA SealCycleStep ==
  ASSUME IInv, NEW w \in Workers, SealCycle(w)
  PROVE  IInv' /\ Grows
<1>1. proc[w].pc = "seal" /\ UNCHANGED <<now, paperVars, contextVars, disk, faults>>
  BY DEF SealCycle
<1>2. PICK r \in Slots : r = proc[w].slot /\ Passed("seal", r)
  BY <1>1, Standing DEF RunnerCalls, SidecarCalls
<1>3. PICK k \in Slots : k = proc[w].sub.slot /\ Holds("seal", k, proc[w].sub.outcome)
  BY <1>1, Standing DEF SubCalls
<1> DEFINE row == [Row(w) EXCEPT !.status = "SUCCEEDED",
                                 !.context = [slot |-> k, bundle |-> context[k].prepared]]
<1>4. Advance(w, "COST_BINDING", row, "ended")
  BY <1>3 DEF SealCycle
<1>5. CASE ~HoldsCycle(w, "COST_BINDING")
  BY <1>1, <1>2, <1>4, <1>5, SlotFacts, Refused DEF Advance
<1>6. CASE HoldsCycle(w, "COST_BINDING")
  <2>1. cycle' = [cycle EXCEPT ![r] = row] /\ Goto(w, "ended")
    BY <1>2, <1>4, <1>6 DEF Advance
  <2>2. /\ cycle[r] \in CycleRows /\ cycle[r] = Row(w) /\ cycle[r].status = "CLAIMED"
        /\ cycle[r].stage = "COST_BINDING" /\ StageHolds(cycle[r])
        /\ cycle[r].lease <= Expires(r) /\ k = r
    BY <1>1, <1>2, <1>3, <1>6, Holding DEF SubCalls
  <2>3. /\ context[r].prepared \in Bundles /\ context[r].status = "SUCCEEDED"
        /\ disk[r].context = context[r].prepared /\ disk[r].contextSnapshot # 0
        /\ disk[r].blobs = Blobs
    BY <1>2, <1>3, <2>2 DEF Holds, Passed, AfterBinding, IInv, StateFits, ContextRows
  <2> DEFINE returned == [slot |-> r, bundle |-> context[r].prepared]
  <2>4. returned \in Returned /\ returned # None
    BY <2>3, NoneAssumption DEF Returned
  <2>5. row \in CycleRows /\ StageHolds(row) /\ row.paper = cycle[r].paper
        /\ row.account = cycle[r].account /\ row.context = returned
        /\ row.stage = "COST_BINDING" /\ row.status = "SUCCEEDED"
    BY <2>2, <2>4 DEF CycleRows, StageHolds
  <2>6. CycleAdvance(r, row)
    BY <2>1, <2>2, <2>5 DEF CycleAdvance, StageHolds, CycleRows
  <2>7. cycle[r].account.at <= paper[r].prepared.at
    BY <2>2 DEF IInv, CycleFits
  <2>8. OneMoves(w)
    BY <2>1, Ending
  <2> QED
    BY <1>1, <2>3, <2>5, <2>6, <2>7, <2>8, CycleRowChange
<1> QED
  BY <1>5, <1>6

LEMMA FailCycleStep ==
  ASSUME IInv, NEW w \in Workers, FailCycle(w)
  PROVE  IInv' /\ Grows
<1>1. /\ proc[w].pc = "failing" /\ Goto(w, "ended")
      /\ UNCHANGED <<now, paperVars, contextVars, disk, faults>>
  BY DEF FailCycle
<1>2. PICK r \in Slots : r = proc[w].slot
  BY <1>1, Standing DEF RunnerCalls, SidecarCalls
<1>3. CASE ~HoldsCycle(w, StageOf(w))
  <2>1. UNCHANGED cycle /\ faults' \in 0..MaxFaults
    BY <1>1, <1>3 DEF FailCycle, IInv, StateFits
  <2> QED
    BY <1>1, <2>1, Retreat
<1>4. CASE HoldsCycle(w, StageOf(w))
  <2> DEFINE row == [cycle[r] EXCEPT !.status = "FAILED"]
  <2>1. cycle' = [cycle EXCEPT ![r] = row]
    BY <1>2, <1>4 DEF FailCycle
  <2>2. /\ cycle[r] \in CycleRows /\ cycle[r].status = "CLAIMED" /\ StageHolds(cycle[r])
        /\ cycle[r].lease <= Expires(r)
    BY <1>2, <1>4, Holding
  <2>3. row \in CycleRows /\ StageHolds(row) /\ row.paper = cycle[r].paper
        /\ row.account = cycle[r].account /\ row.stage = cycle[r].stage /\ row.status = "FAILED"
    BY <2>2 DEF CycleRows, StageHolds
  <2>4. CycleAdvance(r, row)
    BY <2>1, <2>2, <2>3 DEF CycleAdvance, CycleRows
  <2>5. cycle[r].stage = "COST_BINDING" => cycle[r].account.at <= paper[r].prepared.at
    BY DEF IInv, CycleFits
  <2>6. OneMoves(w)
    BY <1>1, Ending
  <2> QED
    BY <1>1, <2>3, <2>4, <2>5, <2>6, CycleRowChange
<1> QED
  BY <1>3, <1>4

LEMMA TickStep ==
  ASSUME IInv, Tick
  PROVE  IInv' /\ Grows
<1>1. /\ now < Horizon /\ now' = now + 1
      /\ proc' = [w \in Workers |-> IF proc[w].pc = "ended" THEN NoProc ELSE proc[w]]
      /\ UNCHANGED <<paper, paperLog, context, contextLog, cycle, disk, faults>>
  BY DEF Tick, paperVars, contextVars
<1>2. now \in Nat /\ now' \in 0..Horizon /\ now <= now'
  BY <1>1, BoundAssumption DEF IInv, StateFits
<1>3. NoProc \in Procs
  BY DEF NoProc, NoSub, Procs, Subs, PCs, Outcomes
<1>4. StateFits'
  BY <1>1, <1>2, <1>3 DEF IInv, StateFits
<1>5. Grows
  BY <1>1, <1>2 DEF Grows, PaperGrows, ContextGrows, CycleGrows, DiskGrows
<1>6. PaperFits' /\ ContextFits' /\ FilesFit'
  BY <1>1 DEF IInv, PaperFits, ContextFits, FilesFit
<1>7. CycleFits'
  BY <1>1 DEF IInv, CycleFits, PaperBound, ContextBound, Assembled
<1>8. WorkersFit'
  <2> SUFFICES ASSUME NEW w \in Workers
               PROVE  PlaceFits(w)' /\ SubFits(w)'
    BY DEF WorkersFit
  <2>1. CASE proc[w].pc = "ended"
    BY <1>1, <2>1 DEF NoProc, PlaceFits, SubFits, SubCalls
  <2>2. CASE proc[w].pc # "ended"
    <3>1. proc'[w] = proc[w]
      BY <1>1, <2>2
    <3> QED
      BY <1>4, <1>5, <3>1, OthersFit DEF IInv, WorkersFit
  <2> QED
    BY <2>1, <2>2
<1> QED
  BY <1>4, <1>5, <1>6, <1>7, <1>8 DEF IInv

-----------------------------------------------------------------------------
(* Theorems *)

LEMMA InitInv == Init => IInv
<1> SUFFICES ASSUME Init
             PROVE  IInv
  OBVIOUS
<1>1. now = 0 /\ faults = 0 /\ 0 \in 0..Horizon /\ 0 \in 0..MaxFaults
  BY BoundAssumption DEF Init, PaperInit
<1>2. /\ paper \in [Slots -> PaperRows] /\ paperLog \in Logs
      /\ context \in [Slots -> ContextRows] /\ contextLog \in Logs
  BY DEF Init, PaperInit, ContextInit, PaperRows, ContextRows, Logs
<1>3. cycle \in [Slots -> CycleRows] /\ disk \in [Slots -> Files]
  BY DEF Init, CycleRows, Stages, Files
<1>4. NoProc \in Procs
  BY DEF NoProc, NoSub, Procs, Subs, PCs, Outcomes
<1>5. proc \in [Workers -> Procs]
  BY <1>4 DEF Init
<1>6. StateFits
  BY <1>1, <1>2, <1>3, <1>5 DEF StateFits
<1>7. PaperFits /\ ContextFits /\ FilesFit
  BY DEF Init, PaperInit, ContextInit, PaperFits, ContextFits, FilesFit
<1>8. CycleFits
  <2>1. \A k \in Slots : 0 <= Expires(k)
    BY SlotFacts
  <2> QED
    BY <2>1 DEF Init, PaperInit, ContextInit, CycleFits, StageHolds
<1>9. WorkersFit
  BY DEF Init, NoProc, WorkersFit, PlaceFits, SubFits, SubCalls
<1> QED
  BY <1>6, <1>7, <1>8, <1>9 DEF IInv

\* Every step keeps the invariant and adds to what is durable.
LEMMA NextInv == IInv /\ [Next]_vars => IInv' /\ Grows
<1> SUFFICES ASSUME IInv, [Next]_vars
             PROVE  IInv' /\ Grows
  OBVIOUS
<1>1. CASE Tick
  BY <1>1, TickStep
<1>2. ASSUME NEW w \in Workers, PaperStep(w)
      PROVE  IInv' /\ Grows
  BY <1>2, RecordGapsStep, PaperClaimStep, CapturePaperStep, PublishPaperStep, SucceedPaperStep,
     SnapshotPaperStep, PaperFailStep DEF PaperStep
<1>3. ASSUME NEW w \in Workers, ContextStep(w)
      PROVE  IInv' /\ Grows
  BY <1>3, ContextClaimStep, PrepareBundleStep, PublishContextStep, SucceedContextStep,
     SnapshotContextStep, ContextFailStep DEF ContextStep
<1>4. ASSUME NEW w \in Workers, CycleStep(w)
      PROVE  IInv' /\ Grows
  BY <1>4, ClaimCycleStep, PrepareAccountStep, PublishAccountStep, ReferencePaperStep,
     PreparePerpetualStep, PublishPerpetualStep, PrepareBindingStep, PublishBindingStep,
     SealCycleStep, FailCycleStep DEF CycleStep
<1>5. ASSUME NEW w \in Workers, Raise(w) \/ Crash(w)
      PROVE  IInv' /\ Grows
  BY <1>5, RaiseStep, CrashStep
<1>6. CASE UNCHANGED vars
  <2>1. UNCHANGED <<now, paper, paperLog, context, contextLog, cycle, disk, proc, faults>>
    BY <1>6 DEF vars, paperVars, contextVars
  <2>2. Grows
    BY <2>1, BoundAssumption
       DEF Grows, PaperGrows, ContextGrows, CycleGrows, DiskGrows, IInv, StateFits
  <2>3. StateFits' /\ PaperFits' /\ ContextFits' /\ FilesFit'
    BY <2>1 DEF IInv, StateFits, PaperFits, ContextFits, FilesFit
  <2>4. CycleFits'
    BY <2>1 DEF IInv, CycleFits, PaperBound, ContextBound, Assembled
  <2>5. WorkersFit'
    BY <2>1, <2>2, <2>3, OthersFit DEF IInv, WorkersFit
  <2> QED
    BY <2>2, <2>3, <2>4, <2>5 DEF IInv
<1> QED
  BY <1>1, <1>2, <1>3, <1>4, <1>5, <1>6 DEF Next, Proceed

\* The inductive invariant of the context cycle.
LEMMA InvHolds == Spec => []IInv
BY InitInv, NextInv, PTL DEF Spec

\* TypeOK of ContextCycle: rows, files and invocations keep their types, a row of the
\* orchestration holds exactly what its stage says, and its lease ends with its slot.
THEOREM TypeCorrectness == Spec => []TypeOK
<1>1. IInv => TypeOK
  BY SlotFacts, BoundAssumption
     DEF IInv, StateFits, CycleFits, TypeOK, PaperRows, ContextRows, CycleRows, Files, Procs
<1> QED
  BY <1>1, InvHolds, PTL

\* LogsAgree: what an orchestration bound is what the paper log and the sidecar log hold for
\* the same slot, however attempts, leases and faults interleave and either scheduler is run on its
\* own; only a bundle that the sidecar's own command line prepared may name other captures.
THEOREM LogsAlwaysAgree == Spec => []LogsAgree
<1>1. IInv => LogsAgree
  BY DEF IInv, CycleFits, PaperBound, ContextBound, Assembled, LogsAgree
<1> QED
  BY <1>1, InvHolds, PTL

\* CompleteSlotIsOnDisk: a slot the orchestration recorded as succeeded has every file it was
\* built from in place, whichever attempts published them.
THEOREM CompleteSlotsAreReadable == Spec => []CompleteSlotIsOnDisk
<1>1. IInv => CompleteSlotIsOnDisk
  BY DEF IInv, CycleFits, StageHolds, PaperBound, ContextBound, CompleteSlotIsOnDisk
<1> QED
  BY <1>1, InvHolds, PTL

\* EvidenceIsFinal: no step captures durable evidence again, takes back a final answer or
\* replaces a published file.
THEOREM EvidenceStaysFinal == Spec => EvidenceIsFinal
<1>1. IInv /\ [Next]_vars =>
        [\A k \in Slots :
           /\ paper[k].prepared # None => paper'[k].prepared = paper[k].prepared
           /\ paper[k].status \in Terminals => paper'[k].status = paper[k].status
           /\ context[k].prepared # None => context'[k].prepared = context[k].prepared
           /\ context[k].status = "SUCCEEDED" => context'[k].status = "SUCCEEDED"
           /\ cycle[k].account # None => cycle'[k].account = cycle[k].account
           /\ cycle[k].perpetual # None => cycle'[k].perpetual = cycle[k].perpetual
           /\ disk[k].paper # None => disk'[k].paper = disk[k].paper
           /\ disk[k].context # None => disk'[k].context = disk[k].context]_vars
  BY NextInv DEF Grows, PaperGrows, ContextGrows, CycleGrows, DiskGrows
<1> QED
  BY <1>1, InvHolds, PTL DEF Spec, EvidenceIsFinal
=============================================================================
