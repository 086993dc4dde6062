----------------------- MODULE PrivateRuntime_proofs -----------------------
(***************************************************************************)
(* Proofs about PrivateRuntime, for any number of processes, any quantity  *)
(* and any bound on the generations of the flatten: every variable keeps   *)
(* its type, no name is sent twice, whatever was sent is in the log, and   *)
(* what the log says of the exchange is true of it.                        *)
(*                                                                         *)
(* There are two inductive invariants, the second on top of the first.     *)
(*                                                                         *)
(* IInv says what the log, the exchange and the local state of each        *)
(* process are like, and what holds while a process is at one of the       *)
(* places around a send (WatchFits).  Every append is shown once to be a   *)
(* move that keeps what the log says of the past (LogMove).  A step that   *)
(* is such a move and leads to none of the watched places keeps IInv       *)
(* (PlainKeeps); most of the actions are such steps, and the eight around  *)
(* the sends have a lemma each.                                            *)
(*                                                                         *)
(* JInv relates the log to the exchange (Facts) and says what a process    *)
(* may rely on between the query that it made and the append that it makes *)
(* of the answer, while the others and the exchange go on: what it knows   *)
(* wherever it is (Knows) and what holds at its place (Due).  Both stay    *)
(* true because every step leaves the past as it was, in the log and at    *)
(* the exchange (WorldGrows): so a step has to be looked at only for the   *)
(* one process that makes it, and for most of the actions that process     *)
(* comes to a place where nothing is due (LightMove).                      *)
(***************************************************************************)
EXTENDS PrivateRuntime, TLAPS

\* The stop, the replacement and the candidate of the log fit together: there is a candidate
\* only during a replacement, and it never has the name of the stop it replaces.
StopFits ==
    /\ private.phase \in {"NONE", "SUCCEEDED"} => private.candidate = NoStop
    /\ private.phase # "NONE" => private.stop.stage = "RECONCILED"
    /\ private.phase \in {"STARTED", "CANCEL_SEND_STARTED"} => private.new # private.stop.id
    /\ private.candidate # NoStop =>
         private.candidate.id = private.new /\ private.candidate.stage # "NONE"
    /\ private.stop # NoStop => private.stop.stage # "NONE"

\* A flatten that was begun has a generation.
FlattenFits ==
    /\ private.emergency.stage # "NONE" => private.emergency.generation > 0
    /\ private.emergency # NoFlatten => private.emergency.stage # "NONE"

\* What the log is like at any time.
LogFits == LogTypeOK /\ StopFits /\ FlattenFits

\* What the log says was sent stays so.
PastKept ==
    /\ OrderPast => OrderPast'
    /\ \A i \in 1..Quantity : StopPast(i) => StopPast(i)'
    /\ \A g \in Generations : FlattenPast(g) => FlattenPast(g)'

\* No step but the preparation of a flatten request takes its proof of absence away or names
\* another request of it.
FlattenKept ==
    LET e == private.emergency IN
    /\ e.stage = "ABSENCE_CHECKED" => e' = e
    /\ \/ e'.request = Nobody
       \/ e'.request = e.request /\ e'.generation = e.generation

\* What every append but that one does to the log.
LogMove == LogFits' /\ PastKept /\ FlattenKept

StopUntouched ==
    /\ private'.stop = private.stop
    /\ private'.phase = private.phase
    /\ private'.new = private.new
    /\ private'.candidate = private.candidate

-----------------------------------------------------------------------------
\* An event that leaves stop, replacement and flatten alone.
LEMMA OrderFrame ==
  ASSUME LogFits, LogTypeOK', StopUntouched, private'.emergency = private.emergency,
         OrderPast => OrderPast'
  PROVE  LogMove
<1>1. StopFits' /\ FlattenFits'
  BY DEF LogFits, StopFits, FlattenFits, StopUntouched
<1>2. PastKept
  BY DEF PastKept, StopPast, FlattenPast, StopUntouched
<1>3. FlattenKept
  BY DEF FlattenKept
<1> QED
  BY <1>1, <1>2, <1>3 DEF LogMove, LogFits

\* An event of the stop or of its replacement.
LEMMA StopFrame ==
  ASSUME LogFits, LogTypeOK', StopFits', private'.emergency = private.emergency,
         private'.stage = private.stage,
         \A i \in 1..Quantity : StopPast(i) => StopPast(i)'
  PROVE  LogMove
<1>1. FlattenFits'
  BY DEF LogFits, FlattenFits
<1>2. PastKept
  BY DEF PastKept, OrderPast, FlattenPast
<1>3. FlattenKept
  BY DEF FlattenKept
<1> QED
  BY <1>1, <1>2, <1>3 DEF LogMove, LogFits

\* An event of the flatten.
LEMMA FlattenFrame ==
  ASSUME LogFits, LogTypeOK', StopUntouched, private'.stage = private.stage, FlattenFits',
         \A g \in Generations : FlattenPast(g) => FlattenPast(g)'
  PROVE  LogFits' /\ PastKept
<1>1. StopFits'
  BY DEF LogFits, StopFits, StopUntouched
<1>2. PastKept
  BY DEF PastKept, OrderPast, StopPast, StopUntouched
<1> QED
  BY <1>1, <1>2 DEF LogFits

-----------------------------------------------------------------------------
\* A stage of the order that was sent is only followed by such stages.
LEMMA StageMoves ==
  ASSUME LogFits, action' = action, NEW type \in MainStages, AppendStage(type)
  PROVE  LogMove
<1>1. /\ private.stage \in After(type)
      /\ private' = [private EXCEPT !.stage = type]
  BY DEF AppendStage
<1>2. LogTypeOK'
  BY <1>1 DEF LogTypeOK, LogFits
<1>3. /\ private'.stage = type
      /\ StopUntouched
      /\ private'.emergency = private.emergency
  BY <1>1 DEF LogTypeOK, LogFits, StopUntouched
<1>4. OrderPast => OrderPast'
  BY <1>1, <1>3 DEF OrderPast, After, MainStages, Unsent, OrderStages, OrderEnds, Closing, Final
<1> QED
  BY <1>2, <1>3, <1>4, OrderFrame

\* The events an observation leads to; a fill needs room in the order.
LEMMA OrderMoves ==
  ASSUME LogFits, action' = action, NEW type \in EventTypes, AppendOrder(type),
         type = "FILL_OBSERVED" => private.fills < Quantity
  PROVE  LogMove
<1>0. /\ private.stage \in After(type)
      /\ type \in MainStages
      /\ private' = [private EXCEPT !.stage = type,
                     !.order = IF type \in OrderEnds \cup {"ORDER_PARTIALLY_FILLED"}
                                 THEN type ELSE @,
                     !.fills = IF type = "FILL_OBSERVED" THEN @ + 1 ELSE @]
  BY DEF AppendOrder, EventTypes, MainStages, OrderStages
<1>1. PICK o, f : /\ private' = [private EXCEPT !.stage = type, !.order = o, !.fills = f]
                  /\ o \in OrderEnds \cup {"ORDER_PARTIALLY_FILLED", private.order}
                  /\ f = IF type = "FILL_OBSERVED" THEN private.fills + 1 ELSE private.fills
  BY <1>0 DEF LogTypeOK, LogFits
<1>a. f \in 0..Quantity
  <2>1. private.fills \in 0..Quantity /\ Quantity \in Nat
    BY LogAssumption DEF LogTypeOK, LogFits
  <2> QED
    BY <1>1, <2>1
<1>b. o \in OrderEnds \cup {"ORDER_PARTIALLY_FILLED", "NONE"}
  BY <1>1 DEF LogTypeOK, LogFits
<1>2. LogTypeOK'
  BY <1>0, <1>1, <1>a, <1>b DEF LogTypeOK, LogFits
<1>3. /\ private'.stage = type
      /\ StopUntouched
      /\ private'.emergency = private.emergency
  BY <1>0 DEF LogTypeOK, LogFits, StopUntouched
<1>4. OrderPast => OrderPast'
  BY <1>3 DEF OrderPast, EventTypes, Unsent, OrderEnds
<1> QED
  BY <1>2, <1>3, <1>4, OrderFrame

\* The request is replaced before anything was sent.
LEMMA SupersededMoves ==
  ASSUME LogFits, action' = action, NEW old, NEW w \in Runs, AppendSuperseded(old, w)
  PROVE  LogMove
<1>1. /\ private.stage \in After("SIGNED_REQUEST_SUPERSEDED")
      /\ private' = [private EXCEPT !.stage = "SIGNED_REQUEST_SUPERSEDED", !.superseding = w]
  BY DEF AppendSuperseded
<1>2. LogTypeOK'
  BY <1>1 DEF LogTypeOK, LogFits, RequestNames, MainStages, Unsent
<1>3. /\ StopUntouched
      /\ private'.emergency = private.emergency
  BY <1>1 DEF LogTypeOK, LogFits, StopUntouched
<1>4. ~OrderPast
  BY <1>1 DEF OrderPast, After, Unsent
<1> QED
  BY <1>2, <1>3, <1>4, OrderFrame

\* The same for the request that is prepared.
LEMMA PreparedMoves ==
  ASSUME LogFits, action' = action, NEW w \in Runs, AppendPrepared(w)
  PROVE  LogMove
<1>1. /\ private.stage \in After("SIGNED_REQUEST_PREPARED")
      /\ private' = [private EXCEPT !.stage = "SIGNED_REQUEST_PREPARED", !.request = w]
  BY DEF AppendPrepared
<1>2. LogTypeOK'
  BY <1>1 DEF LogTypeOK, LogFits, RequestNames, MainStages, Unsent
<1>3. /\ StopUntouched
      /\ private'.emergency = private.emergency
  BY <1>1 DEF LogTypeOK, LogFits, StopUntouched
<1>4. ~OrderPast
  BY <1>1 DEF OrderPast, After, Unsent
<1> QED
  BY <1>2, <1>3, <1>4, OrderFrame

\* The capture comes after everything was sent.
LEMMA CaptureMoves ==
  ASSUME LogFits, action' = action, NEW o \in OrderType, NEW p \in Ids, NEW i \in Ids,
         NEW algos \in SUBSET Ids, AppendCapture(o, p, i, algos)
  PROVE  LogMove
<1>1. /\ private.stage \in After("RECONCILIATION_INPUTS_CAPTURED")
      /\ private' = [private EXCEPT !.stage = "RECONCILIATION_INPUTS_CAPTURED",
                     !.capture = [order |-> o, position |-> p, stop |-> i,
                                  algos |-> algos, nested |-> Nested]]
  BY DEF AppendCapture
<1>2. Nested \in NestedType
  BY DEF LogTypeOK, LogFits, Nested, NestedType
<1>3. LogTypeOK'
  BY <1>1, <1>2 DEF LogTypeOK, LogFits, MainStages, Closing, Ids
<1>4. /\ StopUntouched
      /\ private'.emergency = private.emergency
      /\ private'.stage = "RECONCILIATION_INPUTS_CAPTURED"
  BY <1>1 DEF LogTypeOK, LogFits, StopUntouched
<1>5. OrderPast'
  BY <1>4 DEF OrderPast, Unsent
<1> QED
  BY <1>3, <1>4, <1>5, OrderFrame

-----------------------------------------------------------------------------
\* The stop of an earlier intent is taken over; there was none in the log.
LEMMA InheritedMoves ==
  ASSUME LogFits, action' = action, AppendInherited
  PROVE  LogMove
<1> DEFINE made == [id |-> 0, stage |-> "RECONCILED", request |-> Nobody]
<1>1. private.stop = NoStop /\ private' = [private EXCEPT !.stop = made]
  BY DEF AppendInherited
<1>2. made \in StopType
  BY LogAssumption DEF StopType, NestedStages, RequestNames
<1>3. LogTypeOK'
  BY <1>1, <1>2 DEF LogTypeOK, LogFits
<1>4. /\ private'.stop = made
      /\ private'.phase = private.phase
      /\ private'.new = private.new
      /\ private'.candidate = private.candidate
      /\ private'.emergency = private.emergency
      /\ private'.stage = private.stage
  BY <1>1 DEF LogTypeOK, LogFits
<1>5. private.phase = "NONE"
  BY <1>1 DEF LogFits, StopFits, NoStop
<1>6. StopFits'
  BY <1>4, <1>5 DEF LogFits, StopFits
<1>7. \A i \in 1..Quantity : StopPast(i) => StopPast(i)'
  BY <1>1, <1>4 DEF StopPast, NoStop, StopSent
<1> QED
  BY <1>3, <1>4, <1>6, <1>7, StopFrame

\* The first stop, or the candidate of a replacement.
LEMMA StopAuthorizedMoves ==
  ASSUME LogFits, action' = action, NEW i \in Ids, AppendStopAuthorized(i)
  PROVE  LogMove
<1> DEFINE made == [id |-> i, stage |-> "AUTHORIZED", request |-> Nobody]
<1>2. made \in StopType /\ made.id = i /\ made.stage = "AUTHORIZED" /\ made # NoStop
  BY DEF StopType, NestedStages, RequestNames, Ids, NoStop
<1>a. CASE private.stop = NoStop /\ private' = [private EXCEPT !.stop = made]
  <2>3. LogTypeOK'
    BY <1>a, <1>2 DEF LogTypeOK, LogFits
  <2>4. /\ private'.stop = made
        /\ private'.phase = private.phase
        /\ private'.new = private.new
        /\ private'.candidate = private.candidate
        /\ private'.emergency = private.emergency
        /\ private'.stage = private.stage
    BY <1>a DEF LogTypeOK, LogFits
  <2>5. private.phase = "NONE"
    BY <1>a DEF LogFits, StopFits, NoStop
  <2>6. StopFits'
    BY <1>2, <2>4, <2>5 DEF LogFits, StopFits
  <2>7. \A k \in 1..Quantity : StopPast(k) => StopPast(k)'
    BY <1>a, <2>4 DEF StopPast, NoStop, StopSent
  <2> QED
    BY <2>3, <2>4, <2>6, <2>7, StopFrame
<1>b. CASE /\ private.phase = "STARTED"
           /\ private.candidate = NoStop
           /\ private.new = i
           /\ private' = [private EXCEPT !.candidate = made]
  <2>3. LogTypeOK'
    BY <1>b, <1>2 DEF LogTypeOK, LogFits
  <2>4. /\ private'.stop = private.stop
        /\ private'.phase = private.phase
        /\ private'.new = private.new
        /\ private'.candidate = made
        /\ private'.emergency = private.emergency
        /\ private'.stage = private.stage
    BY <1>b DEF LogTypeOK, LogFits
  <2>6. StopFits'
    BY <1>b, <1>2, <2>4 DEF LogFits, StopFits
  <2>7. \A k \in 1..Quantity : StopPast(k) => StopPast(k)'
    BY <1>b, <2>4 DEF StopPast, NoStop, StopSent
  <2> QED
    BY <2>3, <2>4, <2>6, <2>7, StopFrame
<1> QED
  BY <1>a, <1>b DEF AppendStopAuthorized

\* An event of a stop: its stage is not one in which the request may have been sent, or
\* the new one is as well.
LEMMA StopMoves ==
  ASSUME LogFits, action' = action, NEW i \in Ids, NEW after, NEW stage \in NestedStages \ {"NONE"},
         NEW request \in RequestNames, AppendStop(after, i, stage, request),
         after \cap StopSent # {} => stage \in StopSent,
         "RECONCILED" \notin after, "NONE" \notin after
  PROVE  LogMove
<1> DEFINE made == [id |-> i, stage |-> stage, request |-> request]
<1>2. made \in StopType /\ made.id = i /\ made.stage = stage
  BY DEF StopType, Ids
<1>a. CASE /\ private.stop.stage \in after
           /\ private.stop.id = i
           /\ private' = [private EXCEPT !.stop = made]
  <2>3. LogTypeOK'
    BY <1>a, <1>2 DEF LogTypeOK, LogFits
  <2>4. /\ private'.stop = made
        /\ private'.phase = private.phase
        /\ private'.new = private.new
        /\ private'.candidate = private.candidate
        /\ private'.emergency = private.emergency
        /\ private'.stage = private.stage
    BY <1>a DEF LogTypeOK, LogFits
  <2>5. private.phase = "NONE"
    BY <1>a DEF LogFits, StopFits
  <2>6. StopFits'
    BY <1>2, <2>4, <2>5 DEF LogFits, StopFits
  <2>7. \A k \in 1..Quantity : StopPast(k) => StopPast(k)'
    BY <1>a, <1>2, <2>4 DEF StopPast
  <2> QED
    BY <2>3, <2>4, <2>6, <2>7, StopFrame
<1>b. CASE /\ private.candidate.stage \in after
           /\ private.candidate.id = i
           /\ private' = [private EXCEPT !.candidate = made]
  <2>3. LogTypeOK'
    BY <1>b, <1>2 DEF LogTypeOK, LogFits
  <2>4. /\ private'.stop = private.stop
        /\ private'.phase = private.phase
        /\ private'.new = private.new
        /\ private'.candidate = made
        /\ private'.emergency = private.emergency
        /\ private'.stage = private.stage
    BY <1>b DEF LogTypeOK, LogFits
  <2>5. private.candidate # NoStop
    BY <1>b DEF NoStop
  <2>6. StopFits'
    BY <1>b, <1>2, <2>4, <2>5 DEF LogFits, StopFits
  <2>7. \A k \in 1..Quantity : StopPast(k) => StopPast(k)'
    BY <1>b, <1>2, <2>4 DEF StopPast
  <2> QED
    BY <2>3, <2>4, <2>6, <2>7, StopFrame
<1> QED
  BY <1>a, <1>b DEF AppendStop

\* The stop an event is about has a request of the right type.
LEMMA NamedType ==
  ASSUME LogFits, NEW i
  PROVE  Named(i) \in StopType /\ Named(i).request \in RequestNames
BY DEF Named, LogFits, LogTypeOK, StopType

\* The five events of a stop's way from its absence to its reconciliation.
LEMMA StopEventsMove ==
  ASSUME LogFits, action' = action, NEW i \in Ids, NEW w \in Runs, NEW old,
         \/ AppendStopAbsence(i)
         \/ AppendStopPrepared(i, old, w)
         \/ AppendStopSendStarted(i, w)
         \/ AppendStopAcknowledged(i)
         \/ AppendStopReconciled(i)
  PROVE  LogMove
<1>0. Named(i).request \in RequestNames /\ w \in RequestNames
  BY NamedType DEF RequestNames
<1>1. CASE AppendStopAbsence(i)
  <2>1. PICK after \in {{"AUTHORIZED"}, {"PREPARED"}} :
          AppendStop(after, i, "ABSENCE_CHECKED", Named(i).request)
    BY <1>1 DEF AppendStopAbsence
  <2> QED
    BY <1>0, <2>1, StopMoves DEF StopSent, NestedStages
<1>2. CASE AppendStopPrepared(i, old, w)
  BY <1>0, <1>2, StopMoves DEF AppendStopPrepared, StopSent, NestedStages
<1>3. CASE AppendStopSendStarted(i, w)
  BY <1>0, <1>3, StopMoves DEF AppendStopSendStarted, StopSent, NestedStages
<1>4. CASE AppendStopAcknowledged(i)
  BY <1>0, <1>4, StopMoves DEF AppendStopAcknowledged, StopSent, NestedStages
<1>5. CASE AppendStopReconciled(i)
  BY <1>0, <1>5, StopMoves DEF AppendStopReconciled, StopSent, NestedStages
<1> QED
  BY <1>1, <1>2, <1>3, <1>4, <1>5

\* The three events of a replacement.  A second one never starts, and the new stop takes the
\* place of the old one with whatever was sent of it.
LEMMA ReplacementStartedMoves ==
  ASSUME LogFits, action' = action, NEW i \in Ids, AppendReplacementStarted(i)
  PROVE  LogMove
<1>1. /\ private.stop.stage = "RECONCILED"
      /\ private.phase = "NONE"
      /\ private.stop.id # i
      /\ private' = [private EXCEPT !.phase = "STARTED", !.new = i]
  BY DEF AppendReplacementStarted
<1>3. LogTypeOK'
  BY <1>1 DEF LogTypeOK, LogFits, PhaseType, Ids
<1>4. /\ private'.stop = private.stop
      /\ private'.phase = "STARTED"
      /\ private'.new = i
      /\ private'.candidate = private.candidate
      /\ private'.emergency = private.emergency
      /\ private'.stage = private.stage
  BY <1>1 DEF LogTypeOK, LogFits
<1>6. StopFits'
  BY <1>1, <1>4 DEF LogFits, StopFits
<1>7. \A k \in 1..Quantity : StopPast(k) => StopPast(k)'
  BY <1>1, <1>4 DEF StopPast
<1> QED
  BY <1>3, <1>4, <1>6, <1>7, StopFrame

\* So is the start of the cancel of the stop that is replaced.
LEMMA CancelSendStartedMoves ==
  ASSUME LogFits, action' = action, AppendCancelSendStarted
  PROVE  LogMove
<1>1. /\ private.phase = "STARTED"
      /\ private' = [private EXCEPT !.phase = "CANCEL_SEND_STARTED"]
  BY DEF AppendCancelSendStarted
<1>3. LogTypeOK'
  BY <1>1 DEF LogTypeOK, LogFits, PhaseType
<1>4. /\ private'.stop = private.stop
      /\ private'.phase = "CANCEL_SEND_STARTED"
      /\ private'.new = private.new
      /\ private'.candidate = private.candidate
      /\ private'.emergency = private.emergency
      /\ private'.stage = private.stage
  BY <1>1 DEF LogTypeOK, LogFits
<1>6. StopFits'
  BY <1>1, <1>4 DEF LogFits, StopFits
<1>7. \A k \in 1..Quantity : StopPast(k) => StopPast(k)'
  BY <1>1, <1>4 DEF StopPast
<1> QED
  BY <1>3, <1>4, <1>6, <1>7, StopFrame

\* So is the end of the replacement, by which the candidate becomes the stop.
LEMMA ReplacementSucceededMoves ==
  ASSUME LogFits, action' = action, AppendReplacementSucceeded
  PROVE  LogMove
<1>1. /\ private.candidate.stage = "RECONCILED"
      /\ private' = [private EXCEPT !.stop = private.candidate, !.candidate = NoStop,
                                     !.phase = "SUCCEEDED"]
  BY DEF AppendReplacementSucceeded
<1>2. NoStop \in StopType
  BY LogAssumption DEF NoStop, StopType, NestedStages, RequestNames
<1>3. LogTypeOK'
  BY <1>1, <1>2 DEF LogTypeOK, LogFits, PhaseType
<1>4. /\ private'.stop = private.candidate
      /\ private'.phase = "SUCCEEDED"
      /\ private'.new = private.new
      /\ private'.candidate = NoStop
      /\ private'.emergency = private.emergency
      /\ private'.stage = private.stage
  BY <1>1 DEF LogTypeOK, LogFits
<1>6. StopFits'
  BY <1>1, <1>4 DEF StopFits
<1>7. \A k \in 1..Quantity : StopPast(k) => StopPast(k)'
  BY <1>4 DEF StopPast
<1> QED
  BY <1>3, <1>4, <1>6, <1>7, StopFrame

-----------------------------------------------------------------------------
\* The events of the cleanup change nothing else.
LEMMA CleanupMoves ==
  ASSUME LogFits, action' = action, NEW i \in Ids, NEW w \in Runs, NEW old,
         \/ AppendCleanupAuthorized(i)
         \/ AppendCleanupPrepared(i, old, w)
         \/ AppendCleanupSendStarted(i, old)
         \/ AppendCleanupReconciled(i)
  PROVE  LogMove
<1>1. PICK c \in StopType : private' = [private EXCEPT !.cleanup = c]
  <2>1. private.cleanup \in StopType
    BY DEF LogFits, LogTypeOK
  <2>2. CASE AppendCleanupAuthorized(i)
    BY <2>2 DEF AppendCleanupAuthorized, StopType, NestedStages, RequestNames, Ids
  <2>3. CASE AppendCleanupPrepared(i, old, w)
    <3>1. [private.cleanup EXCEPT !.stage = "PREPARED", !.request = w] \in StopType
      BY <2>1 DEF StopType, NestedStages, RequestNames
    <3>2. private' = [private EXCEPT !.cleanup =
                        [private.cleanup EXCEPT !.stage = "PREPARED", !.request = w]]
      BY <2>3 DEF AppendCleanupPrepared, LogFits, LogTypeOK, StopType
    <3> QED
      BY <3>1, <3>2
  <2>4. CASE AppendCleanupSendStarted(i, old)
    <3>1. [private.cleanup EXCEPT !.stage = "SEND_STARTED"] \in StopType
      BY <2>1 DEF StopType, NestedStages
    <3>2. private' = [private EXCEPT !.cleanup.stage = "SEND_STARTED"]
      BY <2>4 DEF AppendCleanupSendStarted, AppendCleanup
    <3> QED
      BY <3>1, <3>2
  <2>5. CASE AppendCleanupReconciled(i)
    <3>1. [private.cleanup EXCEPT !.stage = "RECONCILED"] \in StopType
      BY <2>1 DEF StopType, NestedStages
    <3>2. private' = [private EXCEPT !.cleanup.stage = "RECONCILED"]
      BY <2>5 DEF AppendCleanupReconciled, AppendCleanup
    <3> QED
      BY <3>1, <3>2
  <2> QED
    BY <2>2, <2>3, <2>4, <2>5
<1>2. LogTypeOK'
  BY <1>1 DEF LogTypeOK, LogFits
<1>3. /\ StopUntouched
      /\ private'.emergency = private.emergency
      /\ private'.stage = private.stage
  BY <1>1 DEF LogTypeOK, LogFits, StopUntouched
<1> QED
  BY <1>2, <1>3, OrderFrame DEF OrderPast

-----------------------------------------------------------------------------
\* What an event of the flatten leaves alone.
LEMMA FlattenChange ==
  ASSUME LogFits, action' = action, NEW e \in FlattenType,
         private' = [private EXCEPT !.emergency = e]
  PROVE  /\ LogTypeOK'
         /\ StopUntouched
         /\ private'.emergency = e
         /\ private'.stage = private.stage
BY DEF LogTypeOK, LogFits, StopUntouched

\* The first generation.
LEMMA FlattenAuthorizedMoves ==
  ASSUME LogFits, action' = action, NEW q \in Ids, AppendFlattenAuthorized(q)
  PROVE  LogMove
<1> DEFINE e == [generation |-> 1, quantity |-> q, stage |-> "AUTHORIZED", request |-> Nobody]
<1>1. private.emergency = NoFlatten /\ private' = [private EXCEPT !.emergency = e]
  BY DEF AppendFlattenAuthorized
<1>2. e \in FlattenType
  BY LogAssumption DEF FlattenType, NestedStages, RequestNames, Ids
<1>3. /\ LogTypeOK'
      /\ StopUntouched
      /\ private'.emergency = e
      /\ private'.stage = private.stage
  BY <1>1, <1>2, FlattenChange
<1>4. FlattenFits'
  BY <1>3 DEF FlattenFits
<1>5. \A g \in Generations : FlattenPast(g) => FlattenPast(g)'
  BY <1>1, <1>3 DEF FlattenPast, NoFlatten, Generations
<1>6. FlattenKept
  BY <1>1, <1>3 DEF FlattenKept, NoFlatten
<1> QED
  BY <1>3, <1>4, <1>5, <1>6, FlattenFrame DEF LogMove

\* The next generation: what was sent of the earlier ones stays in the past.
LEMMA RemainderMoves ==
  ASSUME LogFits, action' = action, NEW g \in 0..MaxGenerations, NEW q \in Ids,
         AppendRemainder(g, q)
  PROVE  LogMove
<1> DEFINE e == [generation |-> g + 1, quantity |-> q, stage |-> "AUTHORIZED",
                 request |-> Nobody]
<1>1. /\ private.emergency.generation = g
      /\ private.emergency.stage \in {"SEND_STARTED", "UNKNOWN"}
      /\ g < MaxGenerations
      /\ private' = [private EXCEPT !.emergency = e]
  BY DEF AppendRemainder
<1>2. e \in FlattenType
  <2>1. g + 1 \in 0..MaxGenerations
    BY <1>1, LogAssumption
  <2> QED
    BY <2>1 DEF FlattenType, NestedStages, RequestNames, Ids
<1>3. /\ LogTypeOK'
      /\ StopUntouched
      /\ private'.emergency = e
      /\ private'.stage = private.stage
  BY <1>1, <1>2, FlattenChange
<1>4. FlattenFits'
  BY <1>3, LogAssumption DEF FlattenFits
<1>5. \A k \in Generations : FlattenPast(k) => FlattenPast(k)'
  BY <1>1, <1>3, LogAssumption DEF FlattenPast, Generations
<1>6. FlattenKept
  BY <1>1, <1>3 DEF FlattenKept
<1> QED
  BY <1>3, <1>4, <1>5, <1>6, FlattenFrame DEF LogMove

\* An event of a flatten's way, for the generation the process works on.
LEMMA FlattenMoves ==
  ASSUME LogFits, action' = action, NEW after, NEW stage \in NestedStages \ {"NONE"},
         NEW g, AppendFlatten(after, g, stage),
         "NONE" \notin after, "ABSENCE_CHECKED" \notin after,
         \/ stage \in {"SEND_STARTED", "UNKNOWN", "RECONCILED"}
         \/ after \cap {"SEND_STARTED", "UNKNOWN", "RECONCILED"} = {}
  PROVE  /\ LogMove
         /\ private.emergency.generation = g
         /\ private.emergency.stage \in after
         /\ private'.emergency = [private.emergency EXCEPT !.stage = stage]
<1> DEFINE e == [private.emergency EXCEPT !.stage = stage]
<1>1. /\ private.emergency.stage \in after
      /\ private.emergency.generation = g
      /\ private' = [private EXCEPT !.emergency = e]
  BY DEF AppendFlatten
<1>2. /\ e \in FlattenType
      /\ e.generation = g
      /\ e.stage = stage
      /\ e.request = private.emergency.request
  BY <1>1 DEF FlattenType, LogFits, LogTypeOK
<1>3. /\ LogTypeOK'
      /\ StopUntouched
      /\ private'.emergency = e
      /\ private'.stage = private.stage
  BY <1>1, <1>2, FlattenChange
<1> HIDE DEF e
<1>4. FlattenFits'
  BY <1>1, <1>2, <1>3 DEF FlattenFits, LogFits
<1>5. \A k \in Generations : FlattenPast(k) => FlattenPast(k)'
  BY <1>1, <1>2, <1>3 DEF FlattenPast
<1>6. FlattenKept
  BY <1>1, <1>2, <1>3 DEF FlattenKept
<1> QED
  BY <1>1, <1>3, <1>4, <1>5, <1>6, FlattenFrame DEF LogMove, e

\* The one event that names a new request of the flatten.
LEMMA FlattenPreparedMoves ==
  ASSUME LogFits, action' = action, NEW w \in Runs, NEW old, AppendFlattenPrepared(old, w)
  PROVE  /\ LogFits'
         /\ PastKept
         /\ private.emergency.stage = "ABSENCE_CHECKED"
         /\ private'.emergency = [private.emergency EXCEPT !.stage = "PREPARED", !.request = w]
<1> DEFINE e == [private.emergency EXCEPT !.stage = "PREPARED", !.request = w]
<1>1. private.emergency.stage = "ABSENCE_CHECKED" /\ private' = [private EXCEPT !.emergency = e]
  BY DEF AppendFlattenPrepared, LogFits, LogTypeOK, FlattenType
<1>2. /\ e \in FlattenType
      /\ e.generation = private.emergency.generation
      /\ e.stage = "PREPARED"
  BY <1>1 DEF FlattenType, LogFits, LogTypeOK, RequestNames, NestedStages
<1>3. /\ LogTypeOK'
      /\ StopUntouched
      /\ private'.emergency = e
      /\ private'.stage = private.stage
  BY <1>1, <1>2, FlattenChange
<1> HIDE DEF e
<1>4. FlattenFits'
  BY <1>1, <1>2, <1>3 DEF FlattenFits, LogFits
<1>5. \A k \in Generations : FlattenPast(k) => FlattenPast(k)'
  BY <1>1, <1>2, <1>3 DEF FlattenPast
<1> QED
  BY <1>1, <1>3, <1>4, <1>5, FlattenFrame DEF e

-----------------------------------------------------------------------------
\* What the exchange is like: a short that is opened is not larger than what was filled.
VenueFits == VenueTypeOK /\ (action = "OPEN_SHORT" => short <= order.filled)

\* A request that arrives changes no fills and no position.
LEMMA EffectTyped ==
  ASSUME LogFits, VenueFits, action' = action, NEW r \in Requests, Effect(r)
  PROVE  /\ order' \in OrderType /\ order'.filled = order.filled
         /\ stops' \in [Ids -> {"NONE", "NEW", "CANCELED", "FINISHED"}]
         /\ flattens' \in [Generations -> [status : {"NONE", "NEW", "FILLED", "CANCELED"},
                                           quantity : 0..Quantity, filled : 0..Quantity]]
         /\ short' = short
<1>1. order' \in OrderType /\ order'.filled = order.filled
  BY DEF Effect, VenueFits, VenueTypeOK, OrderType
<1>2. stops' \in [Ids -> {"NONE", "NEW", "CANCELED", "FINISHED"}]
  BY DEF Effect, VenueFits, VenueTypeOK
<1>3. 0 \in 0..Quantity /\ r.quantity \in 0..Quantity
  BY LogAssumption DEF Requests
<1>4. flattens' \in [Generations -> [status : {"NONE", "NEW", "FILLED", "CANCELED"},
                                    quantity : 0..Quantity, filled : 0..Quantity]]
  BY <1>3 DEF Effect, VenueFits, VenueTypeOK
<1> QED
  BY <1>1, <1>2, <1>4 DEF Effect

\* A request keeps the types of the exchange and is counted, whatever the answer is.
LEMMA SendTyped ==
  ASSUME LogFits, VenueFits, action' = action, NEW r \in Requests,
         Acknowledged(r) \/ Unanswered(r) \/ Refused(r)
  PROVE  VenueFits' /\ Count(r)
<1>1. Count(r) /\ sends' \in [Creates -> 0..2]
  BY DEF Acknowledged, Unanswered, Refused, Count, VenueFits, VenueTypeOK
<1>2. wire' \in SUBSET Requests
  BY DEF Acknowledged, Unanswered, Refused, VenueFits, VenueTypeOK
<1>3. CASE Effect(r)
  BY <1>1, <1>2, <1>3, EffectTyped DEF VenueFits, VenueTypeOK
<1>4. CASE UNCHANGED <<order, stops, flattens, short>>
  BY <1>1, <1>2, <1>4 DEF VenueFits, VenueTypeOK
<1> QED
  BY <1>1, <1>3, <1>4 DEF Acknowledged, Unanswered, Refused

\* The steps of the exchange itself.
LEMMA VenueMoves ==
  ASSUME LogFits, VenueFits, action' = action, Venue
  PROVE  VenueFits' /\ sends' = sends
<1> USE DEF VenueFits, VenueTypeOK
<1>0. /\ Quantity \in Nat
      /\ order.filled \in 0..Quantity
      /\ short \in 0..Quantity
  BY LogAssumption DEF OrderType
<1>1. CASE Arrive
  <2>1. PICK r \in wire : Effect(r) /\ wire' = wire \ {r} /\ UNCHANGED sends
    BY <1>1 DEF Arrive
  <2> QED
    BY <2>1, EffectTyped
<1>2. CASE FillOrder
  <2>1. PICK n \in 1..(Quantity - order.filled) :
          /\ action = "CLOSE_SHORT" => n <= short
          /\ order' = [filled |-> order.filled + n,
                       status |-> IF order.filled + n = Quantity THEN "FILLED" ELSE "NEW"]
          /\ short' = CASE action = "OPEN_SHORT" -> short + n
                        [] action = "CLOSE_SHORT" -> short - n
                        [] OTHER -> short
          /\ UNCHANGED <<stops, flattens, wire, sends>>
    BY <1>2 DEF FillOrder
  <2>2. order.filled + n \in 0..Quantity
    BY <1>0
  <2>3. order' \in OrderType /\ order'.filled = order.filled + n
    BY <2>1, <2>2 DEF OrderType
  <2>4. short' \in 0..Quantity /\ (action = "OPEN_SHORT" => short' <= order.filled + n)
    BY <1>0, <2>1
  <2> QED
    BY <2>1, <2>3, <2>4
<1>3. CASE EndOrder
  <2>1. order' \in OrderType /\ order'.filled = order.filled
    BY <1>3 DEF EndOrder, OrderType
  <2> QED
    BY <1>3, <2>1 DEF EndOrder
<1>4. CASE Trigger
  <2>1. PICK i \in ActiveStops :
          /\ stops' = [stops EXCEPT ![i] = "FINISHED"]
          /\ short' \in {short, short - Least(short, StopQuantity(i))}
          /\ UNCHANGED <<order, flattens, wire, sends>>
    BY <1>4 DEF Trigger
  <2>2. StopQuantity(i) \in Nat
    BY LogAssumption DEF StopQuantity, ActiveStops, Ids
  <2>3. short' \in 0..Quantity /\ short' <= short
    BY <1>0, <2>1, <2>2 DEF Least
  <2>4. stops' \in [Ids -> {"NONE", "NEW", "CANCELED", "FINISHED"}]
    BY <2>1
  <2>5. order' = order /\ (action' = "OPEN_SHORT" => short' <= order.filled)
    BY <1>0, <2>1, <2>3
  <2> QED
    BY <2>1, <2>3, <2>4, <2>5
<1>5. CASE FillFlatten
  <2>1. PICK g \in Generations, n \in 1..short :
          LET f == flattens[g] IN
          /\ f.filled + n <= f.quantity
          /\ flattens' = [flattens EXCEPT ![g].filled = f.filled + n,
                            ![g].status = IF f.filled + n = f.quantity THEN "FILLED" ELSE "NEW"]
          /\ short' = short - n
          /\ UNCHANGED <<order, stops, wire, sends>>
    BY <1>5 DEF FillFlatten
  <2>2. PICK f \in 0..Quantity : f = flattens[g].filled + n
    BY <1>0, <2>1
  <2>3. flattens' \in [Generations -> [status : {"NONE", "NEW", "FILLED", "CANCELED"},
                                      quantity : 0..Quantity, filled : 0..Quantity]]
    BY <2>1, <2>2
  <2>4. short' \in 0..Quantity /\ short' <= short
    BY <1>0, <2>1
  <2> QED
    BY <1>0, <2>1, <2>3, <2>4
<1>6. CASE EndFlatten
  BY <1>6 DEF EndFlatten
<1> QED
  BY <1>1, <1>2, <1>3, <1>4, <1>5, <1>6 DEF Venue

-----------------------------------------------------------------------------
\* The places of the flatten after its generation was looked at; those around a send; and the
\* places that are kept for later.
FlattenPCs == {"flatten_query", "flatten_absence", "flatten_prepare", "flatten_send_started",
               "flatten_send", "flatten_unknown", "flatten_observe", "flatten_position",
               "flatten_reconcile", "flatten_remainder"}
Watched == {"send", "stop_send", "flatten_prepare", "flatten_send_started", "flatten_send"}
Nexts == {"idle", "ensure", "fills_fees", "swap_verify", "stop_query", "stop_observe",
          "sample_order"}

\* The fills that are still to be recorded fit into the order: they follow one another from
\* the first or the second event on.
TodoFits(l) ==
    /\ l.todo # <<>>
    /\ \A k \in 1..Len(l.todo) :
         l.todo[k] = "FILL_OBSERVED" =>
           l.fills + k <= Quantity + (IF l.todo[1] = "FILL_OBSERVED" THEN 0 ELSE 1)

\* What a process knows at any time.
Safe(l) ==
    /\ l \in LocalType
    /\ l.next \in Nexts
    /\ l.pc \in FlattenPCs => l.generation \in Generations
    /\ l.pc = "apply" => TodoFits(l)

LocalFits == local \in [Runs -> LocalType] /\ \A w \in Runs : Safe(local[w])

\* A process that is about to send the order is the only one, its event is in the log, and
\* nothing was sent before.
OrderWatch(w) ==
    At(w, "send") =>
        /\ OrderPast
        /\ sends[<<"order", 0>>] = 0
        /\ \A v \in Runs : At(v, "send") => v = w

\* The same for stop i; stop 0 is never sent.
StopWatch(w) ==
    At(w, "stop_send") /\ local[w].id # 0 =>
        /\ StopPast(local[w].id)
        /\ sends[<<"stop", local[w].id>>] = 0
        /\ \A v \in Runs : At(v, "stop_send") /\ local[v].id = local[w].id => v = w

\* The process that is to name the request of a flatten is the only one; once it has, and is
\* still the one that is named, the generation is its own.
PrepareWatch(w) ==
    /\ At(w, "flatten_prepare") =>
         /\ private.emergency.stage = "ABSENCE_CHECKED"
         /\ private.emergency.generation = local[w].generation
         /\ \A v \in Runs : At(v, "flatten_prepare") => v = w
    /\ At(w, "flatten_send_started") /\ private.emergency.request = w =>
         private.emergency.generation = local[w].generation

\* The same as OrderWatch for a generation of the flatten.
FlattenWatch(w) ==
    At(w, "flatten_send") =>
        /\ FlattenPast(local[w].generation)
        /\ sends[<<"flatten", local[w].generation>>] = 0
        /\ \A v \in Runs :
             At(v, "flatten_send") /\ local[v].generation = local[w].generation => v = w

WatchFits ==
    \A w \in Runs : OrderWatch(w) /\ StopWatch(w) /\ PrepareWatch(w) /\ FlattenWatch(w)

\* The inductive invariant.
IInv ==
    /\ LogFits
    /\ VenueFits
    /\ LocalFits
    /\ WatchFits
    /\ SentOnce
    /\ WrittenBeforeSent

\* A process moves to a place that is not watched.
LocalMove(w) == \E l : Know(w, l) /\ Safe(l) /\ l.pc \notin Watched

\* Such a move, an append that keeps the past, and no create request.
PlainStep(w) ==
    /\ LocalMove(w)
    /\ LogMove
    /\ VenueFits'
    /\ sends' = sends

\* What the steps that lead to no watched place, or only to another one, leave of the facts
\* about each watched place.
LEMMA Moved ==
  ASSUME IInv, NEW w \in Runs, NEW l, Know(w, l), Safe(l)
  PROVE  /\ LocalFits'
         /\ local'[w] = l
         /\ \A v \in Runs \ {w} : local'[v] = local[v]
<1>1. /\ local'[w] = l
      /\ \A v \in Runs \ {w} : local'[v] = local[v]
      /\ local' \in [Runs -> LocalType]
  BY DEF Know, IInv, LocalFits, Safe
<1> QED
  BY <1>1 DEF IInv, LocalFits, Safe, TodoFits

\* A step of one process leaves alone what another watches before it sends the order;
LEMMA OrderWatchKept ==
  ASSUME IInv, NEW w \in Runs, NEW l, Know(w, l), Safe(l), l.pc # "send", PastKept,
         sends'[<<"order", 0>>] = sends[<<"order", 0>>]
  PROVE  \A v \in Runs : OrderWatch(v)'
<1>1. \A v \in Runs : At(v, "send")' => At(v, "send")
  BY Moved DEF At
<1> QED
  BY <1>1 DEF IInv, WatchFits, OrderWatch, PastKept

\* before it sends a stop;
LEMMA StopWatchKept ==
  ASSUME IInv, NEW w \in Runs, NEW l, Know(w, l), Safe(l), l.pc # "stop_send", PastKept,
         \A i \in 1..Quantity : sends'[<<"stop", i>>] = sends[<<"stop", i>>]
  PROVE  \A v \in Runs : StopWatch(v)'
<1>1. \A v \in Runs : At(v, "stop_send")' => At(v, "stop_send") /\ local'[v] = local[v]
  BY Moved DEF At
<1> SUFFICES ASSUME NEW v \in Runs, NEW i, At(v, "stop_send")', i = local'[v].id, i # 0
             PROVE  /\ StopPast(i)'
                    /\ sends'[<<"stop", i>>] = 0
                    /\ \A u \in Runs : At(u, "stop_send")' /\ local'[u].id = i => u = v
  BY DEF StopWatch, StopPast
<1>2. At(v, "stop_send") /\ local[v].id = i
  BY <1>1
<1>3. /\ StopPast(i)
      /\ sends[<<"stop", i>>] = 0
      /\ \A u \in Runs : At(u, "stop_send") /\ local[u].id = i => u = v
  BY <1>2 DEF IInv, WatchFits, StopWatch
<1>4. i \in 1..Quantity
  BY <1>2, LogAssumption DEF IInv, LocalFits, LocalType, Ids
<1>5. StopPast(i)'
  BY <1>3, <1>4 DEF PastKept
<1>6. ASSUME NEW u \in Runs, At(u, "stop_send")', local'[u].id = i
      PROVE  u = v
  BY <1>1, <1>3, <1>6
<1> QED
  BY <1>3, <1>4, <1>5, <1>6

\* before it prepares a flatten;
LEMMA PrepareWatchKept ==
  ASSUME IInv, NEW w \in Runs, NEW l, Know(w, l), Safe(l), FlattenKept,
         l.pc \notin {"flatten_prepare", "flatten_send_started"}
  PROVE  \A v \in Runs : PrepareWatch(v)'
<1>1. \A v \in Runs, pc \in {"flatten_prepare", "flatten_send_started"} :
        At(v, pc)' => At(v, pc) /\ local'[v] = local[v]
  BY Moved DEF At
<1> SUFFICES ASSUME NEW v \in Runs PROVE PrepareWatch(v)'
  OBVIOUS
<1>2. ASSUME At(v, "flatten_prepare")'
      PROVE  /\ private'.emergency.stage = "ABSENCE_CHECKED"
             /\ private'.emergency.generation = local'[v].generation
             /\ \A u \in Runs : At(u, "flatten_prepare")' => u = v
  <2>1. At(v, "flatten_prepare") /\ local'[v] = local[v]
    BY <1>1, <1>2
  <2>2. /\ private.emergency.stage = "ABSENCE_CHECKED"
        /\ private.emergency.generation = local[v].generation
        /\ \A u \in Runs : At(u, "flatten_prepare") => u = v
    BY <2>1 DEF IInv, WatchFits, PrepareWatch
  <2>3. private'.emergency = private.emergency
    BY <2>2 DEF FlattenKept
  <2>4. ASSUME NEW u \in Runs, At(u, "flatten_prepare")'
        PROVE  u = v
    BY <1>1, <2>2, <2>4
  <2> QED
    BY <2>1, <2>2, <2>3, <2>4
<1>3. ASSUME At(v, "flatten_send_started")', private'.emergency.request = v
      PROVE  private'.emergency.generation = local'[v].generation
  <2>1. At(v, "flatten_send_started") /\ local'[v] = local[v]
    BY <1>1, <1>3
  <2>2. v # Nobody
    BY LogAssumption
  <2>3. /\ private.emergency.request = v
        /\ private'.emergency.generation = private.emergency.generation
    BY <1>3, <2>2 DEF FlattenKept
  <2> QED
    BY <2>1, <2>3 DEF IInv, WatchFits, PrepareWatch
<1> QED
  BY <1>2, <1>3 DEF PrepareWatch

\* and before it sends the flatten.
LEMMA FlattenWatchKept ==
  ASSUME IInv, NEW w \in Runs, NEW l, Know(w, l), Safe(l), l.pc # "flatten_send", PastKept,
         \A g \in Generations : sends'[<<"flatten", g>>] = sends[<<"flatten", g>>]
  PROVE  \A v \in Runs : FlattenWatch(v)'
<1>1. \A v \in Runs : At(v, "flatten_send")' => At(v, "flatten_send") /\ local'[v] = local[v]
  BY Moved DEF At
<1> SUFFICES ASSUME NEW v \in Runs, NEW g, At(v, "flatten_send")', g = local'[v].generation
             PROVE  /\ FlattenPast(g)'
                    /\ sends'[<<"flatten", g>>] = 0
                    /\ \A u \in Runs : At(u, "flatten_send")' /\ local'[u].generation = g
                                        => u = v
  BY DEF FlattenWatch, FlattenPast
<1>2. At(v, "flatten_send") /\ local[v].generation = g
  BY <1>1
<1>3. /\ FlattenPast(g)
      /\ sends[<<"flatten", g>>] = 0
      /\ \A u \in Runs : At(u, "flatten_send") /\ local[u].generation = g => u = v
  BY <1>2 DEF IInv, WatchFits, FlattenWatch
<1>4. g \in Generations
  BY <1>2 DEF IInv, LocalFits, Safe, FlattenPCs, At
<1>5. FlattenPast(g)'
  BY <1>3, <1>4 DEF PastKept
<1>6. ASSUME NEW u \in Runs, At(u, "flatten_send")', local'[u].generation = g
      PROVE  u = v
  BY <1>1, <1>3, <1>6
<1> QED
  BY <1>3, <1>4, <1>5, <1>6

\* Without a send both properties of the sends stay.
LEMMA SentKept ==
  ASSUME IInv, PastKept, sends' = sends
  PROVE  SentOnce' /\ WrittenBeforeSent'
BY DEF IInv, SentOnce, WrittenBeforeSent, PastKept

\* A plain step keeps the invariant.
LEMMA PlainKeeps ==
  ASSUME IInv, NEW w \in Runs, PlainStep(w)
  PROVE  IInv'
<1>1. PICK l : Know(w, l) /\ Safe(l) /\ l.pc \notin Watched
  BY DEF PlainStep, LocalMove
<1>2. PastKept /\ FlattenKept /\ LogFits' /\ sends' = sends /\ VenueFits'
  BY DEF PlainStep, LogMove
<1>3. WatchFits'
  BY <1>1, <1>2, OrderWatchKept, StopWatchKept, PrepareWatchKept, FlattenWatchKept
  DEF WatchFits, Watched
<1> QED
  BY <1>1, <1>2, <1>3, Moved, SentKept DEF IInv

-----------------------------------------------------------------------------
\* The places with no obligation of their own.
PlainPCs == PCs \ (Watched \cup FlattenPCs \cup {"apply"})

\* The ways a process moves.
LEMMA UpdateMoves ==
  ASSUME NEW w \in Runs, NEW l \in LocalType, Know(w, l), l.next \in Nexts, l.pc \in PlainPCs
  PROVE  LocalMove(w)
BY DEF LocalMove, Safe, PlainPCs

\* Going to a place that is not watched is a local move;
LEMMA GotoMoves ==
  ASSUME IInv, NEW w \in Runs, NEW pc \in PCs \ (Watched \cup {"apply"}), Goto(w, pc),
         pc \in FlattenPCs => local[w].generation \in Generations
  PROVE  LocalMove(w)
<1> DEFINE l == [local[w] EXCEPT !.pc = pc]
<1>1. local[w] \in LocalType /\ local[w].next \in Nexts
  BY DEF IInv, LocalFits, Safe
<1>2. /\ l \in LocalType
      /\ l.pc = pc
      /\ l.next = local[w].next
      /\ l.generation = local[w].generation
  BY <1>1 DEF LocalType
<1> HIDE DEF l
<1>3. Safe(l)
  BY <1>1, <1>2 DEF Safe
<1>4. Know(w, l)
  BY DEF Goto, l
<1> QED
  BY <1>2, <1>3, <1>4 DEF LocalMove

\* The local state of a process that has ended.
LEMMA IdleTyped ==
  /\ Idle \in LocalType
  /\ Idle.next = "idle"
  /\ Idle.pc = "idle"
BY LogAssumption DEF Idle, LocalType, PCs, RequestNames, NoOrder, OrderType, Ids

\* so is the end of a launch;
LEMMA LeaveMoves ==
  ASSUME NEW w \in Runs, Leave(w)
  PROVE  LocalMove(w)
BY IdleTyped, UpdateMoves DEF Leave, PlainPCs, PCs, Watched, FlattenPCs, Nexts

\* and so is giving up on a stop.
LEMMA UnprotectedMoves ==
  ASSUME IInv, NEW w \in Runs, Unprotected(w)
  PROVE  LocalMove(w)
<1> DEFINE l == [Idle EXCEPT !.pc = "flatten", !.position = local[w].position]
<1>1. /\ l \in LocalType
      /\ l.next = "idle"
      /\ l.pc = "flatten"
  BY IdleTyped DEF IInv, LocalFits, LocalType, PCs
<1>2. CASE Know(w, l)
  BY <1>1, <1>2, UpdateMoves DEF PlainPCs, PCs, Watched, FlattenPCs, Nexts
<1> QED
  BY <1>2, LeaveMoves DEF Unprotected

\* A query is a plain step, and so is an append that is a LogMove.
LEMMA QueryPlain ==
  ASSUME IInv, NEW w \in Runs, LocalMove(w), Query
  PROVE  PlainStep(w)
<1>1. action' = action /\ private' = private /\ UNCHANGED venueVars
  BY DEF Query
<1>2. LogMove
  BY <1>1 DEF IInv, LogMove, LogFits, LogTypeOK, StopFits, FlattenFits, PastKept, FlattenKept,
              OrderPast, StopPast, FlattenPast
<1>3. VenueFits' /\ sends' = sends
  BY <1>1 DEF venueVars, VenueFits, VenueTypeOK, IInv
<1> QED
  BY <1>2, <1>3 DEF PlainStep

\* An append that is a log move, with a local move, is a plain step.
LEMMA AppendPlain ==
  ASSUME IInv, NEW w \in Runs, LocalMove(w), Appending, LogMove \/ UNCHANGED private
  PROVE  PlainStep(w)
<1>1. CASE LogMove
  <2>1. VenueFits' /\ sends' = sends
    BY DEF Appending, venueVars, VenueFits, VenueTypeOK, IInv
  <2> QED
    BY <1>1, <2>1 DEF PlainStep
<1>2. CASE UNCHANGED private
  BY <1>2, QueryPlain DEF Appending, Query
<1> QED
  BY <1>1, <1>2

-----------------------------------------------------------------------------
\* The parts of the invariant that the steps below use for types.
LEMMA LocalTyped ==
  ASSUME IInv, NEW w \in Runs
  PROVE  /\ local[w] \in LocalType
         /\ local[w].next \in Nexts
         /\ local[w].pc \in FlattenPCs => local[w].generation \in Generations
         /\ private.fills \in Ids
         /\ action \in Actions
         /\ order \in OrderType
         /\ short \in Ids
         /\ stops \in [Ids -> {"NONE", "NEW", "CANCELED", "FINISHED"}]
BY DEF IInv, LocalFits, Safe, LogFits, LogTypeOK, VenueFits, VenueTypeOK, Ids

\* The queries before the order is sent and of its observation, and the end of a process.
LEMMA SendQueries ==
  ASSUME IInv, NEW w \in Runs, ProveAbsent(w) \/ Stop(w) \/ QueryOrder(w) \/ QueryPosition(w)
  PROVE  PlainStep(w)
<1>0. local[w] \in LocalType /\ local[w].next \in Nexts
  BY LocalTyped
<1>1. CASE ProveAbsent(w)
  BY <1>1, GotoMoves, QueryPlain DEF ProveAbsent, PCs, Watched, FlattenPCs
<1>2. CASE Stop(w)
  BY <1>2, LeaveMoves, QueryPlain DEF Stop
<1>3. CASE QueryOrder(w)
  <2> DEFINE l == [local[w] EXCEPT !.pc = "query_position", !.order = order]
  <2>1. "query_position" \in PlainPCs /\ "query_position" \in PCs
    BY DEF PCs, PlainPCs, Watched, FlattenPCs
  <2>2. l \in LocalType /\ l.next \in Nexts /\ l.pc = "query_position"
    BY <1>0, <2>1, LocalTyped DEF LocalType
  <2> QED
    BY <1>3, <2>1, <2>2, UpdateMoves, QueryPlain DEF QueryOrder
<1>4. CASE QueryPosition(w)
  <2> DEFINE l == [local[w] EXCEPT !.pc = "read_log", !.position = short]
  <2>0. short \in Ids
    BY LocalTyped
  <2>1. "read_log" \in PlainPCs /\ "read_log" \in PCs
    BY DEF PCs, PlainPCs, Watched, FlattenPCs
  <2>2. l \in LocalType /\ l.next \in Nexts /\ l.pc = "read_log"
    BY <1>0, <2>0, <2>1 DEF LocalType
  <2> QED
    BY <1>4, <2>1, <2>2, UpdateMoves, QueryPlain DEF QueryPosition
<1> QED
  BY <1>1, <1>2, <1>3, <1>4

\* The work on a stop is taken up where the log has it.
LEMMA ResumeStopMoves ==
  ASSUME IInv, NEW w \in Runs, NEW l \in LocalType, l.next \in Nexts, NEW i \in Ids,
         ResumeStop(w, l, i)
  PROVE  LocalMove(w)
<1> DEFINE current == IF Replacing THEN private.candidate ELSE private.stop
           next == IF l.guarded \/ StopStep = "sample_order" THEN "idle" ELSE StopStep
           pc == IF l.guarded \/ StopStep = "sample_order" THEN StopStep ELSE "stop_position"
           old == IF StopStep = "stop_query" THEN current.request ELSE Nobody
           m == [l EXCEPT !.pc = pc, !.next = next, !.id = i, !.old = old]
<1>1. StopStep \in {"swap_verify", "sample_order", "stop_query", "stop_observe"} /\ Know(w, m)
  BY DEF ResumeStop, StopStep
<1>2. pc \in PCs /\ pc \in PlainPCs
  BY <1>1 DEF PCs, PlainPCs, Watched, FlattenPCs
<1>3. next \in PCs /\ next \in Nexts
  BY <1>1 DEF PCs, Nexts
<1>4. old \in RequestNames
  BY DEF RequestNames, IInv, LogFits, LogTypeOK, StopType
<1> HIDE DEF pc, next, old
<1>5. m \in LocalType /\ m.pc = pc /\ m.next = next
  BY <1>2, <1>3, <1>4 DEF LocalType
<1> QED
  BY <1>1, <1>2, <1>3, <1>5, UpdateMoves

\* A launch only reads the log.
LEMMA LaunchPlain ==
  ASSUME IInv, NEW w \in Runs, Launch(w)
  PROVE  PlainStep(w)
<1>1. CASE Know(w, [Idle EXCEPT !.pc = "query_absent", !.old = private.request])
  <2> DEFINE l == [Idle EXCEPT !.pc = "query_absent", !.old = private.request]
  <2>1. "query_absent" \in PCs /\ "query_absent" \in PlainPCs /\ "idle" \in Nexts
    BY DEF PCs, PlainPCs, Watched, FlattenPCs, Nexts
  <2>2. private.request \in RequestNames
    BY DEF IInv, LogFits, LogTypeOK
  <2>3. l \in LocalType /\ l.pc = "query_absent" /\ l.next = "idle"
    BY <2>1, <2>2, IdleTyped DEF LocalType
  <2>4. LocalMove(w)
    BY <1>1, <2>1, <2>3, UpdateMoves
  <2> QED
    BY <2>4, QueryPlain DEF Launch
<1>2. CASE \E pc \in {"query_order", "cleanup", "reconcile", "protection"} : Goto(w, pc)
  <2>1. LocalMove(w)
    BY <1>2, GotoMoves DEF PCs, Watched, FlattenPCs
  <2> QED
    BY <2>1, QueryPlain DEF Launch
<1>3. CASE ResumeStop(w, Idle, private.fills)
  <2>1. LocalMove(w)
    BY <1>3, IdleTyped, LocalTyped, ResumeStopMoves DEF Nexts
  <2> QED
    BY <2>1, QueryPlain DEF Launch
<1> QED
  BY <1>1, <1>2, <1>3 DEF Launch, ResumeFills

\* The appends of the order around its send.
LEMMA SendAppends ==
  ASSUME IInv, NEW w \in Runs,
         \/ Authorize(w) \/ RecordAbsence(w) \/ Supersede(w) \/ Prepare(w)
         \/ RecordUnknown(w) \/ RecordQueried(w)
  PROVE  PlainStep(w)
<1>0. LogFits /\ {"INTENT_AUTHORIZED", "ABSENCE_CHECKED", "ORDER_UNKNOWN",
                  "UNKNOWN_QUERY_OBSERVED"} \subseteq MainStages
  BY DEF IInv, MainStages, Unsent
<1>1. CASE Authorize(w)
  <2>1. LogMove
    BY <1>0, <1>1, StageMoves DEF Authorize, Appending
  <2>2. LocalMove(w)
    BY <1>1, GotoMoves DEF Authorize, PCs, Watched, FlattenPCs
  <2> QED
    BY <1>1, <2>1, <2>2, AppendPlain DEF Authorize
<1>2. CASE RecordAbsence(w)
  <2>1. LogMove
    BY <1>0, <1>2, StageMoves DEF RecordAbsence, Appending, AppendAbsence
  <2>2. LocalMove(w)
    BY <1>2, GotoMoves DEF RecordAbsence, PCs, Watched, FlattenPCs
  <2> QED
    BY <1>2, <2>1, <2>2, AppendPlain DEF RecordAbsence
<1>3. CASE Supersede(w)
  <2>1. LogMove
    BY <1>0, <1>3, SupersededMoves DEF Supersede, Appending
  <2>2. LocalMove(w)
    BY <1>3, GotoMoves DEF Supersede, PCs, Watched, FlattenPCs
  <2> QED
    BY <1>3, <2>1, <2>2, AppendPlain DEF Supersede
<1>4. CASE Prepare(w)
  <2>1. LogMove
    BY <1>0, <1>4, PreparedMoves DEF Prepare, Appending
  <2> DEFINE l == [Idle EXCEPT !.pc = "send_started"]
  <2>2. "send_started" \in PCs /\ "send_started" \in PlainPCs /\ "idle" \in Nexts
    BY DEF PCs, PlainPCs, Watched, FlattenPCs, Nexts
  <2>3. l \in LocalType /\ l.pc = "send_started" /\ l.next = "idle"
    BY <2>2, IdleTyped DEF LocalType
  <2>4. LocalMove(w)
    BY <1>4, <2>2, <2>3, UpdateMoves DEF Prepare
  <2> QED
    BY <1>4, <2>1, <2>4, AppendPlain DEF Prepare
<1>5. CASE RecordUnknown(w)
  <2>1. LogMove
    BY <1>0, <1>5, StageMoves DEF RecordUnknown, Appending
  <2>2. LocalMove(w)
    BY <1>5, LeaveMoves DEF RecordUnknown
  <2> QED
    BY <1>5, <2>1, <2>2, AppendPlain DEF RecordUnknown
<1>6. CASE RecordQueried(w)
  <2>1. LogMove
    BY <1>0, <1>6, StageMoves DEF RecordQueried, Appending
  <2>2. LocalMove(w)
    BY <1>6, GotoMoves DEF RecordQueried, PCs, Watched, FlattenPCs
  <2> QED
    BY <1>6, <2>1, <2>2, AppendPlain DEF RecordQueried
<1> QED
  BY <1>1, <1>2, <1>3, <1>4, <1>5, <1>6

-----------------------------------------------------------------------------
\* The last event of an observation is not a fill.
LEMMA LastEventTyped ==
  ASSUME NEW o \in OrderType
  PROVE  \/ LastEvent(o) = <<>>
         \/ \E type \in EventTypes \ {"FILL_OBSERVED"} : LastEvent(o) = <<type>>
BY DEF LastEvent, EventTypes, OrderEnds

\* The fills of an observation are those between the log's and the order's count.
LEMMA NewsFits ==
  ASSUME IInv, NEW o \in OrderType
  PROVE  /\ News(o) \in Seq(EventTypes)
         /\ \A k \in 1..Len(News(o)) :
              News(o)[k] = "FILL_OBSERVED" =>
                private.fills + k <= Quantity + (IF News(o)[1] = "FILL_OBSERVED" THEN 0 ELSE 1)
<1> DEFINE known == private.fills
           n == IF o.filled > known THEN o.filled - known ELSE 0
           fills == [k \in 1..n |-> "FILL_OBSERVED"]
           last == LastEvent(o)
<1>1. Quantity \in Nat /\ known \in 0..Quantity /\ o.filled \in 0..Quantity
  BY LogAssumption, LocalTyped DEF IInv, LogFits, LogTypeOK, OrderType
<1>2. n \in Nat /\ (n > 0 => known + n <= Quantity)
  BY <1>1
<1> HIDE DEF n, known
<1>3. fills \in Seq(EventTypes) /\ Len(fills) = n
  BY <1>2 DEF EventTypes
<1>4. /\ last \in Seq(EventTypes)
      /\ \A k \in 1..Len(last) : last[k] # "FILL_OBSERVED"
  <2>1. CASE last = <<>>
    BY <2>1
  <2>2. CASE \E type \in EventTypes \ {"FILL_OBSERVED"} : last = <<type>>
    BY <2>2
  <2> QED
    BY <2>1, <2>2, LastEventTyped
<1> HIDE DEF last
<1> DEFINE brief == fills \o last
           long == <<"ORDER_ACKNOWLEDGED">> \o fills \o last
<1>5. /\ brief \in Seq(EventTypes)
      /\ \A k \in 1..Len(brief) :
           brief[k] = "FILL_OBSERVED" => k <= n
  BY <1>2, <1>3, <1>4
<1>6. /\ long \in Seq(EventTypes)
      /\ long[1] = "ORDER_ACKNOWLEDGED"
      /\ \A k \in 1..Len(long) :
           long[k] = "FILL_OBSERVED" => k > 1 /\ k <= n + 1
  BY <1>2, <1>3, <1>4 DEF EventTypes
<1>7. News(o) \in {<<>>, brief, long}
  BY DEF News, known, n, last
<1> HIDE DEF brief, long, fills
<1>8. CASE News(o) = <<>>
  BY <1>8
<1>9. CASE News(o) = brief
  BY <1>1, <1>2, <1>5, <1>9 DEF known
<1>10. CASE News(o) = long
  BY <1>1, <1>2, <1>6, <1>10 DEF known
<1> QED
  BY <1>7, <1>8, <1>9, <1>10

\* The observation is turned into events.
LEMMA PlanEventsPlain ==
  ASSUME IInv, NEW w \in Runs, PlanEvents(w)
  PROVE  PlainStep(w)
<1> DEFINE o == local[w].order
           next == Route(o)
           pc == IF News(o) = <<>> THEN next ELSE "apply"
           l == [local[w] EXCEPT !.todo = News(o), !.fills = private.fills, !.next = next,
                                 !.guarded = Perpetual, !.pc = pc]
<1>0. local[w] \in LocalType /\ o \in OrderType /\ private.fills \in Ids
  BY LocalTyped DEF LocalType
<1>1. CASE Leave(w)
  BY <1>1, LeaveMoves, QueryPlain DEF PlanEvents
<1>2. CASE ~(News(o) = <<>> /\ next = "idle") /\ Know(w, l)
  <2>1. next \in {"ensure", "fills_fees", "idle"}
    BY DEF Route
  <2>2. next \in PCs /\ next \in Nexts /\ pc \in PCs /\ (pc = "apply" <=> News(o) # <<>>)
        /\ pc \notin FlattenPCs /\ pc \notin Watched
    BY <2>1 DEF PCs, Nexts, FlattenPCs, Watched
  <2>3. News(o) \in Seq(EventTypes) /\ Perpetual \in BOOLEAN
    BY <1>0, NewsFits DEF Perpetual
  <2> HIDE DEF next, pc
  <2>4. /\ l \in LocalType
        /\ l.pc = pc
        /\ l.next = next
        /\ l.todo = News(o)
        /\ l.fills = private.fills
    BY <1>0, <2>2, <2>3 DEF LocalType
  <2> HIDE DEF l
  <2>5. pc = "apply" => TodoFits(l)
    BY <1>0, <2>2, <2>4, NewsFits DEF TodoFits
  <2>6. Safe(l)
    BY <2>2, <2>4, <2>5 DEF Safe
  <2>7. LocalMove(w)
    BY <1>2, <2>2, <2>4, <2>6 DEF LocalMove
  <2> QED
    BY <2>7, QueryPlain DEF PlanEvents
<1> QED
  BY <1>1, <1>2 DEF PlanEvents

\* An event is appended: a fill is compared with the count in the log first, so that there is
\* room for it.
LEMMA ApplyEventPlain ==
  ASSUME IInv, NEW w \in Runs, ApplyEvent(w)
  PROVE  PlainStep(w)
<1> DEFINE l == local[w]
           type == Head(l.todo)
           rest == Tail(l.todo)
           fills == IF type = "FILL_OBSERVED" THEN l.fills + 1 ELSE l.fills
           pc == IF rest = <<>> THEN l.next ELSE "apply"
           next == IF rest = <<>> THEN "idle" ELSE l.next
           m == [l EXCEPT !.todo = rest, !.fills = fills, !.pc = pc, !.next = next]
<1>0. /\ l \in LocalType /\ l.next \in Nexts /\ TodoFits(l)
      /\ l.todo \in Seq(EventTypes) /\ l.fills \in 0..Quantity /\ Quantity \in Nat
  BY LogAssumption DEF ApplyEvent, At, IInv, LocalFits, Safe, LocalType, Ids
<1>1. /\ type \in EventTypes
      /\ rest \in Seq(EventTypes)
      /\ Len(rest) = Len(l.todo) - 1
      /\ \A k \in 1..Len(rest) : rest[k] = l.todo[k + 1]
      /\ type = l.todo[1]
      /\ 1 \in 1..Len(l.todo)
  BY <1>0 DEF TodoFits
<1>2. fills \in 0..Quantity /\ (type = "FILL_OBSERVED" => l.fills < Quantity)
  BY <1>0, <1>1 DEF TodoFits
<1>3. LogMove
  <2>1. type = "FILL_OBSERVED" => private.fills < Quantity
    BY <1>2 DEF ApplyEvent
  <2> QED
    BY <1>1, <2>1, OrderMoves DEF ApplyEvent, Appending, IInv
<1>4. CASE Leave(w)
  BY <1>3, <1>4, LeaveMoves, AppendPlain DEF ApplyEvent
<1>5. CASE Know(w, m) /\ ~(rest = <<>> /\ l.next = "idle")
  <2>1. \A k \in 1..Len(rest) :
          rest[k] = "FILL_OBSERVED" =>
            fills + k <= Quantity + (IF rest[1] = "FILL_OBSERVED" THEN 0 ELSE 1)
    <3> SUFFICES ASSUME NEW k \in 1..Len(rest), rest[k] = "FILL_OBSERVED"
                 PROVE  fills + k <= Quantity + (IF rest[1] = "FILL_OBSERVED" THEN 0 ELSE 1)
      OBVIOUS
    <3>1. k + 1 \in 1..Len(l.todo) /\ l.todo[k + 1] = "FILL_OBSERVED" /\ k \in Nat
      BY <1>0, <1>1
    <3>2. l.fills + (k + 1) <= Quantity + (IF type = "FILL_OBSERVED" THEN 0 ELSE 1)
      BY <1>1, <3>1, <1>0 DEF TodoFits
    <3>3. fills + k <= Quantity
      BY <1>0, <3>1, <3>2
    <3> QED
      BY <1>0, <1>2, <3>1, <3>3
  <2>2. /\ pc \in PCs /\ pc \notin FlattenPCs /\ pc \notin Watched
        /\ (pc = "apply" => rest # <<>>) /\ next \in Nexts /\ next \in PCs
    BY <1>0 DEF PCs, FlattenPCs, Watched, Nexts
  <2> HIDE DEF rest, fills, pc, next, type
  <2>3. /\ m \in LocalType
        /\ m.todo = rest
        /\ m.fills = fills
        /\ m.pc = pc
        /\ m.next = next
    BY <1>0, <1>1, <1>2, <2>2 DEF LocalType, Ids
  <2> HIDE DEF m
  <2>4. Safe(m)
    BY <2>1, <2>2, <2>3 DEF Safe, TodoFits
  <2>5. LocalMove(w)
    BY <1>5, <2>2, <2>3, <2>4 DEF LocalMove
  <2> QED
    BY <1>3, <2>5, AppendPlain DEF ApplyEvent
<1> QED
  BY <1>4, <1>5 DEF ApplyEvent

\* The fills are replayed.
LEMMA ReplayFillsPlain ==
  ASSUME IInv, NEW w \in Runs, ReplayFills(w)
  PROVE  PlainStep(w)
<1> DEFINE o == local[w].order
           next == CASE action = "SPOT" -> "capture"
                     [] action = "CLOSE_SHORT" /\ Settles(o) -> "cleanup"
                     [] OTHER -> "ensure"
           kept == IF next = "capture" THEN o ELSE NoOrder
           l == [local[w] EXCEPT !.pc = next, !.next = "idle", !.fills = 0, !.order = kept]
<1>0. local[w] \in LocalType /\ o \in OrderType
  BY LocalTyped DEF LocalType
<1>1. next \in {"capture", "cleanup", "ensure"}
  OBVIOUS
<1>2. next \in PCs /\ next \in PlainPCs /\ "idle" \in PCs /\ "idle" \in Nexts
  BY <1>1 DEF PCs, PlainPCs, Watched, FlattenPCs, Nexts
<1>3. kept \in OrderType /\ 0 \in Ids
  BY <1>0, LogAssumption DEF NoOrder, OrderType, Ids
<1>4. Know(w, l) /\ Appending /\ (UNCHANGED private \/ AppendStage("FILLS_FEES_REPLAYED"))
  BY DEF ReplayFills
<1> HIDE DEF next, kept
<1>5. l \in LocalType /\ l.pc = next /\ l.next = "idle"
  BY <1>0, <1>2, <1>3 DEF LocalType
<1>6. LocalMove(w)
  BY <1>2, <1>4, <1>5, UpdateMoves
<1>7. AppendStage("FILLS_FEES_REPLAYED") => LogMove
  BY <1>4, StageMoves DEF Appending, IInv, MainStages
<1> QED
  BY <1>4, <1>6, <1>7, AppendPlain

-----------------------------------------------------------------------------
\* A process turns to stop i.
LEMMA PcAndIdMoves ==
  ASSUME IInv, NEW w \in Runs, NEW pc \in PlainPCs, NEW i \in Ids,
         Know(w, [local[w] EXCEPT !.pc = pc, !.id = i])
  PROVE  LocalMove(w)
<1> DEFINE l == [local[w] EXCEPT !.pc = pc, !.id = i]
<1>1. local[w] \in LocalType /\ local[w].next \in Nexts
  BY LocalTyped
<1>2. l \in LocalType /\ l.pc = pc /\ l.next = local[w].next
  BY <1>1 DEF LocalType, PlainPCs
<1> QED
  BY <1>1, <1>2, UpdateMoves

\* The decision on the stop.
LEMMA EnsurePlain ==
  ASSUME IInv, NEW w \in Runs, Ensure(w)
  PROVE  PlainStep(w)
<1> DEFINE d == Desired(w)
<1>0. Appending
  BY DEF Ensure
<1>1. d \in Ids /\ local[w] \in LocalType /\ local[w].next \in Nexts
  BY LocalTyped DEF Desired, LocalType
<1>2. {"stop_authorize", "stop_verify", "swap_verify"} \subseteq PlainPCs
  BY DEF PCs, PlainPCs, Watched, FlattenPCs
<1> HIDE DEF d
<1>3. CASE Know(w, [local[w] EXCEPT !.pc = "inherit"]) /\ UNCHANGED private
  <2>1. LocalMove(w)
    BY <1>3, GotoMoves DEF Goto, PCs, Watched, FlattenPCs
  <2> QED
    BY <1>0, <1>3, <2>1, AppendPlain
<1>4. CASE /\ UNCHANGED private
           /\ \E pc \in {"stop_authorize", "stop_verify", "swap_verify"} :
                Know(w, [local[w] EXCEPT !.pc = pc, !.id = d])
  <2>1. LocalMove(w)
    BY <1>1, <1>2, <1>4, PcAndIdMoves
  <2> QED
    BY <1>0, <1>4, <2>1, AppendPlain
<1>5. CASE UNCHANGED private /\ ResumeStop(w, local[w], d)
  <2>1. LocalMove(w)
    BY <1>1, <1>5, ResumeStopMoves
  <2> QED
    BY <1>0, <1>5, <2>1, AppendPlain
<1>6. CASE AppendReplacementStarted(d) /\ Goto(w, "ensure")
  <2>1. LocalMove(w)
    BY <1>6, GotoMoves DEF PCs, Watched, FlattenPCs
  <2>2. LogMove
    BY <1>0, <1>1, <1>6, ReplacementStartedMoves DEF Appending, IInv
  <2> QED
    BY <1>0, <2>1, <2>2, AppendPlain
<1> QED
  BY <1>3, <1>4, <1>5, <1>6 DEF Ensure, d

\* The queries of stops.
LEMMA StopQueries ==
  ASSUME IInv, NEW w \in Runs,
         \/ QueryInherited(w) \/ VerifyStop(w) \/ QueryStopPosition(w) \/ ProveStopAbsent(w)
         \/ ObserveStop(w) \/ VerifyCandidate(w) \/ CheckOld(w)
  PROVE  PlainStep(w)
<1>0. local[w] \in LocalType /\ local[w].next \in Nexts
  BY LocalTyped
<1>1. CASE QueryInherited(w)
  <2>1. LocalMove(w)
    BY <1>1, GotoMoves, UnprotectedMoves DEF QueryInherited, PCs, Watched, FlattenPCs
  <2> QED
    BY <1>1, <2>1, QueryPlain DEF QueryInherited
<1>2. CASE VerifyStop(w)
  <2>1. LocalMove(w)
    BY <1>2, LeaveMoves, UnprotectedMoves DEF VerifyStop
  <2> QED
    BY <1>2, <2>1, QueryPlain DEF VerifyStop
<1>3. CASE QueryStopPosition(w)
  <2> DEFINE l == [local[w] EXCEPT !.pc = local[w].next, !.next = "idle", !.position = short]
  <2>0. short \in Ids
    BY LocalTyped
  <2>1. /\ local[w].next \in PlainPCs /\ local[w].next \in PCs
        /\ "idle" \in PCs /\ "idle" \in Nexts
    BY <1>0 DEF PCs, PlainPCs, Watched, FlattenPCs, Nexts
  <2>2. l \in LocalType /\ l.next = "idle" /\ l.pc = local[w].next
    BY <1>0, <2>0, <2>1 DEF LocalType
  <2> QED
    BY <1>3, <2>1, <2>2, UpdateMoves, QueryPlain DEF QueryStopPosition
<1>4. CASE ProveStopAbsent(w)
  <2>1. LocalMove(w)
    BY <1>4, GotoMoves DEF ProveStopAbsent, PCs, Watched, FlattenPCs
  <2> QED
    BY <1>4, <2>1, QueryPlain DEF ProveStopAbsent
<1>5. CASE ObserveStop(w)
  <2> DEFINE status == stops[local[w].id]
             l == [local[w] EXCEPT !.pc = "stop_acknowledge", !.status = status]
  <2>1. CASE Unprotected(w)
    BY <1>5, <2>1, UnprotectedMoves, QueryPlain DEF ObserveStop
  <2>2. CASE Know(w, l)
    <3>1. status \in {"NONE", "NEW", "CANCELED", "FINISHED"}
      BY <1>0, LocalTyped DEF LocalType
    <3>2. "stop_acknowledge" \in PlainPCs /\ "stop_acknowledge" \in PCs
      BY DEF PCs, PlainPCs, Watched, FlattenPCs
    <3> HIDE DEF status
    <3>3. l \in LocalType /\ l.next \in Nexts /\ l.pc = "stop_acknowledge"
      BY <1>0, <3>1, <3>2 DEF LocalType
    <3> QED
      BY <1>5, <2>2, <3>2, <3>3, UpdateMoves, QueryPlain DEF ObserveStop
  <2> QED
    BY <1>5, <2>1, <2>2 DEF ObserveStop
<1>6. CASE VerifyCandidate(w)
  <2> DEFINE pc == IF private.phase = "STARTED" THEN "swap_start" ELSE "swap_check"
             l == [local[w] EXCEPT !.pc = pc, !.id = private.candidate.id,
                                   !.gone = private.stop.id]
  <2>0. Query
    BY <1>6 DEF VerifyCandidate
  <2>1. CASE Unprotected(w)
    BY <2>0, <2>1, UnprotectedMoves, QueryPlain
  <2>2. CASE Leave(w)
    BY <2>0, <2>2, LeaveMoves, QueryPlain
  <2>3. CASE Know(w, l)
    <3>1. pc \in PlainPCs /\ pc \in PCs
      BY DEF PCs, PlainPCs, Watched, FlattenPCs
    <3>2. private.candidate.id \in Ids /\ private.stop.id \in Ids
      BY DEF IInv, LogFits, LogTypeOK, StopType, Ids
    <3> HIDE DEF pc
    <3>3. l \in LocalType /\ l.next = local[w].next /\ l.pc = pc
      BY <1>0, <3>1, <3>2 DEF LocalType
    <3> QED
      BY <1>0, <2>0, <2>3, <3>1, <3>3, UpdateMoves, QueryPlain
  <2> QED
    BY <1>6, <2>1, <2>2, <2>3 DEF VerifyCandidate
<1>7. CASE CheckOld(w)
  <2>1. LocalMove(w)
    BY <1>7, GotoMoves, UnprotectedMoves DEF CheckOld, PCs, Watched, FlattenPCs
  <2> QED
    BY <1>7, <2>1, QueryPlain DEF CheckOld
<1> QED
  BY <1>1, <1>2, <1>3, <1>4, <1>5, <1>6, <1>7

\* The appends of stops, but for the one before the send.
LEMMA StopAppends ==
  ASSUME IInv, NEW w \in Runs,
         \/ Inherit(w) \/ AuthorizeStop(w) \/ RecordStopAbsence(w) \/ PrepareStop(w)
         \/ AcknowledgeStop(w) \/ ReconcileStop(w) \/ StartCancel(w) \/ FinishReplacement(w)
  PROVE  PlainStep(w)
<1>0. local[w] \in LocalType /\ local[w].next \in Nexts /\ local[w].id \in Ids /\ LogFits
  BY LocalTyped DEF LocalType, IInv
<1>1. CASE Inherit(w)
  <2>1. LocalMove(w)
    BY <1>1, GotoMoves DEF Inherit, PCs, Watched, FlattenPCs
  <2>2. LogMove
    BY <1>0, <1>1, InheritedMoves DEF Inherit, Appending
  <2> QED
    BY <1>1, <2>1, <2>2, AppendPlain DEF Inherit
<1>2. CASE AuthorizeStop(w)
  <2>1. LocalMove(w)
    BY <1>2, GotoMoves DEF AuthorizeStop, PCs, Watched, FlattenPCs
  <2>2. LogMove
    BY <1>0, <1>2, StopAuthorizedMoves DEF AuthorizeStop, Appending
  <2> QED
    BY <1>2, <2>1, <2>2, AppendPlain DEF AuthorizeStop
<1>3. CASE RecordStopAbsence(w)
  <2>1. LocalMove(w)
    BY <1>3, GotoMoves DEF RecordStopAbsence, PCs, Watched, FlattenPCs
  <2>2. LogMove
    BY <1>0, <1>3, StopEventsMove DEF RecordStopAbsence, Appending
  <2> QED
    BY <1>3, <2>1, <2>2, AppendPlain DEF RecordStopAbsence
<1>4. CASE PrepareStop(w)
  <2> DEFINE l == [local[w] EXCEPT !.pc = "stop_send_started", !.old = Nobody]
  <2>1. "stop_send_started" \in PlainPCs /\ "stop_send_started" \in PCs /\ Nobody \in RequestNames
    BY DEF PCs, PlainPCs, Watched, FlattenPCs, RequestNames
  <2>2. l \in LocalType /\ l.next \in Nexts /\ l.pc = "stop_send_started"
    BY <1>0, <2>1 DEF LocalType
  <2>3. LocalMove(w)
    BY <1>4, <2>1, <2>2, UpdateMoves DEF PrepareStop
  <2>4. LogMove
    BY <1>0, <1>4, StopEventsMove DEF PrepareStop, Appending
  <2> QED
    BY <1>4, <2>3, <2>4, AppendPlain DEF PrepareStop
<1>5. CASE AcknowledgeStop(w)
  <2>1. LocalMove(w)
    BY <1>5, GotoMoves, LeaveMoves DEF AcknowledgeStop, PCs, Watched, FlattenPCs
  <2>2. LogMove \/ UNCHANGED private
    BY <1>0, <1>5, StopEventsMove DEF AcknowledgeStop, Appending
  <2> QED
    BY <1>5, <2>1, <2>2, AppendPlain DEF AcknowledgeStop
<1>6. CASE ReconcileStop(w)
  <2> DEFINE l == [local[w] EXCEPT !.pc = "swap_verify", !.status = "NONE"]
  <2>1. "swap_verify" \in PlainPCs /\ "swap_verify" \in PCs
    BY DEF PCs, PlainPCs, Watched, FlattenPCs
  <2>2. l \in LocalType /\ l.next \in Nexts /\ l.pc = "swap_verify"
    BY <1>0, <2>1 DEF LocalType
  <2>3. LocalMove(w)
    BY <1>6, <2>1, <2>2, UpdateMoves, LeaveMoves DEF ReconcileStop
  <2>4. LogMove
    BY <1>0, <1>6, StopEventsMove DEF ReconcileStop, Appending
  <2> QED
    BY <1>6, <2>3, <2>4, AppendPlain DEF ReconcileStop
<1>7. CASE StartCancel(w)
  <2>1. LocalMove(w)
    BY <1>7, GotoMoves DEF StartCancel, PCs, Watched, FlattenPCs
  <2>2. LogMove
    BY <1>0, <1>7, CancelSendStartedMoves DEF StartCancel, Appending
  <2> QED
    BY <1>7, <2>1, <2>2, AppendPlain DEF StartCancel
<1>8. CASE FinishReplacement(w)
  <2>1. LocalMove(w)
    BY <1>8, LeaveMoves DEF FinishReplacement
  <2>2. LogMove
    BY <1>0, <1>8, ReplacementSucceededMoves DEF FinishReplacement, Appending
  <2> QED
    BY <1>8, <2>1, <2>2, AppendPlain DEF FinishReplacement
<1> QED
  BY <1>1, <1>2, <1>3, <1>4, <1>5, <1>6, <1>7, <1>8

-----------------------------------------------------------------------------
\* The flatten is begun or taken up; a recorded one has a generation.
LEMMA FlattenStarts ==
  ASSUME IInv, NEW w \in Runs, Flatten(w)
  PROVE  PlainStep(w)
<1> DEFINE e == private.emergency
<1>0. local[w] \in LocalType /\ local[w].next \in Nexts /\ local[w].position \in Ids
      /\ Appending /\ LogFits
  BY LocalTyped DEF LocalType, Flatten, IInv
<1>1. CASE /\ AppendFlattenAuthorized(local[w].position)
           /\ Know(w, [local[w] EXCEPT !.generation = 1])
           /\ At(w, "flatten")
  <2> DEFINE l == [local[w] EXCEPT !.generation = 1]
  <2>1. l \in LocalType /\ l.next = local[w].next /\ l.pc = "flatten"
    BY <1>0, <1>1, LogAssumption DEF LocalType, At
  <2>2. LocalMove(w)
    BY <1>0, <1>1, <2>1, UpdateMoves DEF PCs, PlainPCs, Watched, FlattenPCs
  <2>3. LogMove
    BY <1>0, <1>1, FlattenAuthorizedMoves DEF Appending
  <2> QED
    BY <1>0, <2>2, <2>3, AppendPlain
<1>2. CASE Leave(w) /\ UNCHANGED private
  BY <1>0, <1>2, LeaveMoves, AppendPlain
<1>3. CASE /\ e.stage \in {"AUTHORIZED", "PREPARED", "SEND_STARTED", "UNKNOWN"}
           /\ \E pc \in {"flatten_query", "flatten_observe"} :
                Know(w, [Idle EXCEPT !.generation = e.generation, !.quantity = e.quantity,
                                     !.old = e.request, !.pc = pc])
           /\ UNCHANGED private
  <2>1. PICK pc \in {"flatten_query", "flatten_observe"} :
          Know(w, [Idle EXCEPT !.generation = e.generation, !.quantity = e.quantity,
                               !.old = e.request, !.pc = pc])
    BY <1>3
  <2> DEFINE l == [Idle EXCEPT !.generation = e.generation, !.quantity = e.quantity,
                               !.old = e.request, !.pc = pc]
  <2>2. /\ e.generation \in 0..MaxGenerations /\ e.generation > 0
        /\ e.quantity \in Ids /\ e.request \in RequestNames
    BY <1>0, <1>3 DEF LogFits, LogTypeOK, FlattenFits, FlattenType, Ids
  <2>3. pc \in PCs /\ pc \notin Watched /\ pc # "apply" /\ "idle" \in Nexts
    BY DEF PCs, Watched, Nexts
  <2>4. /\ l \in LocalType /\ l.next = "idle" /\ l.pc = pc
        /\ l.generation = e.generation
    BY <2>2, <2>3, IdleTyped DEF LocalType
  <2>5. e.generation \in Generations
    BY <2>2, LogAssumption DEF Generations
  <2>6. LocalMove(w)
    BY <2>1, <2>3, <2>4, <2>5 DEF LocalMove, Safe
  <2> QED
    BY <1>0, <1>3, <2>6, AppendPlain
<1>4. \/ /\ AppendFlattenAuthorized(local[w].position)
         /\ Know(w, [local[w] EXCEPT !.generation = 1])
         /\ At(w, "flatten")
      \/ Leave(w) /\ UNCHANGED private
      \/ /\ e.stage \in {"AUTHORIZED", "PREPARED", "SEND_STARTED", "UNKNOWN"}
         /\ Know(w, [Idle EXCEPT !.generation = e.generation, !.quantity = e.quantity,
                                 !.old = e.request,
                                 !.pc = IF e.stage \in {"AUTHORIZED", "PREPARED"}
                                          THEN "flatten_query" ELSE "flatten_observe"])
         /\ UNCHANGED private
  BY DEF Flatten
<1> QED
  BY <1>1, <1>2, <1>3, <1>4

\* The queries of the flatten.
LEMMA FlattenQueries ==
  ASSUME IInv, NEW w \in Runs, QueryFlatten(w) \/ ObserveFlatten(w) \/ QueryResidual(w)
  PROVE  PlainStep(w)
<1>0. /\ local[w] \in LocalType /\ local[w].next \in Nexts
      /\ local[w].generation \in Generations
  BY LocalTyped DEF QueryFlatten, ObserveFlatten, QueryResidual, At, FlattenPCs
<1>1. CASE QueryFlatten(w)
  <2>1. LocalMove(w)
    BY <1>0, <1>1, GotoMoves DEF QueryFlatten, PCs, Watched
  <2> QED
    BY <1>1, <2>1, QueryPlain DEF QueryFlatten
<1>2. CASE ObserveFlatten(w)
  <2> DEFINE status == flattens[local[w].generation].status
             l == [local[w] EXCEPT !.pc = "flatten_position", !.status = status]
  <2>1. status \in {"NONE", "NEW", "FILLED", "CANCELED"}
    BY <1>0 DEF IInv, VenueFits, VenueTypeOK
  <2>2. /\ "flatten_position" \in PCs
        /\ "flatten_position" \notin Watched
        /\ "flatten_position" # "apply"
    BY DEF PCs, Watched
  <2>3. Know(w, l) /\ Query
    BY <1>2 DEF ObserveFlatten
  <2> HIDE DEF status
  <2>4. /\ l \in LocalType /\ l.next = local[w].next /\ l.pc = "flatten_position"
        /\ l.generation = local[w].generation
    BY <1>0, <2>1, <2>2 DEF LocalType
  <2> HIDE DEF l
  <2>5. LocalMove(w)
    BY <1>0, <2>2, <2>3, <2>4 DEF LocalMove, Safe
  <2> QED
    BY <2>3, <2>5, QueryPlain
<1>3. CASE QueryResidual(w)
  <2> DEFINE l == [local[w] EXCEPT !.pc = "flatten_remainder", !.position = short]
  <2>0. short \in Ids
    BY LocalTyped
  <2>1. /\ "flatten_remainder" \in PCs
        /\ "flatten_remainder" \notin Watched
        /\ "flatten_remainder" # "apply"
    BY DEF PCs, Watched
  <2>2. /\ l \in LocalType /\ l.next = local[w].next /\ l.pc = "flatten_remainder"
        /\ l.generation = local[w].generation
    BY <1>0, <2>0, <2>1 DEF LocalType
  <2>3. Know(w, l) => LocalMove(w)
    BY <1>0, <2>1, <2>2 DEF LocalMove, Safe
  <2>4. Goto(w, "flatten_reconcile") => LocalMove(w)
    BY <1>0, GotoMoves DEF PCs, Watched
  <2>5. Goto(w, "flatten_reconcile") \/ Know(w, l) \/ Leave(w)
    BY <1>3, LocalTyped DEF QueryResidual
  <2> QED
    BY <1>3, <2>3, <2>4, <2>5, LeaveMoves, QueryPlain DEF QueryResidual
<1> QED
  BY <1>1, <1>2, <1>3

\* The appends that end the work on a generation.
LEMMA FlattenAppends ==
  ASSUME IInv, NEW w \in Runs,
         RecordFlattenUnknown(w) \/ ReconcileFlatten(w) \/ AuthorizeRemainder(w)
  PROVE  PlainStep(w)
<1>0. /\ LogFits /\ Appending
      /\ local[w].generation \in 0..MaxGenerations /\ local[w].position \in Ids
  BY LocalTyped DEF LocalType, IInv, RecordFlattenUnknown, ReconcileFlatten, AuthorizeRemainder
<1>1. LocalMove(w)
  BY LeaveMoves DEF RecordFlattenUnknown, ReconcileFlatten, AuthorizeRemainder
<1>2. CASE RecordFlattenUnknown(w)
  <2>1. LogMove
    BY <1>0, <1>2, FlattenMoves DEF RecordFlattenUnknown, Appending, NestedStages
  <2> QED
    BY <1>0, <1>1, <2>1, AppendPlain
<1>3. CASE ReconcileFlatten(w)
  <2>1. LogMove
    BY <1>0, <1>3, FlattenMoves DEF ReconcileFlatten, Appending, NestedStages
  <2> QED
    BY <1>0, <1>1, <2>1, AppendPlain
<1>4. CASE AuthorizeRemainder(w)
  <2>1. LogMove
    BY <1>0, <1>4, RemainderMoves DEF AuthorizeRemainder, Appending
  <2> QED
    BY <1>0, <1>1, <2>1, AppendPlain
<1> QED
  BY <1>2, <1>3, <1>4

-----------------------------------------------------------------------------
\* The cleanup: its queries and its appends.
LEMMA CleanupQueries ==
  ASSUME IInv, NEW w \in Runs, CleanupNext(w) \/ QueryCleanup(w) \/ CheckCleanup(w)
  PROVE  PlainStep(w)
<1>0. local[w] \in LocalType /\ local[w].next \in Nexts
  BY LocalTyped
<1>1. CASE CleanupNext(w)
  <2> DEFINE pc == IF local[w].prepared THEN "cleanup_send_started" ELSE "cleanup_query"
             l == [local[w] EXCEPT !.pc = pc, !.old = private.cleanup.request]
             m == [Idle EXCEPT !.pc = "sample_order"]
  <2>1. /\ pc \in PCs /\ pc \in PlainPCs
        /\ "sample_order" \in PCs /\ "sample_order" \in PlainPCs /\ "idle" \in Nexts
    BY DEF PCs, PlainPCs, Watched, FlattenPCs, Nexts
  <2>2. private.cleanup \in StopType /\ private.cleanup.request \in RequestNames
    BY DEF IInv, LogFits, LogTypeOK, StopType
  <2>3. Goto(w, "cleanup_query") \/ Goto(w, "cleanup_check") \/ Know(w, l) \/ Know(w, m)
    BY <1>1 DEF CleanupNext
  <2> HIDE DEF pc
  <2>4. l \in LocalType /\ l.next = local[w].next /\ l.pc = pc
    BY <1>0, <2>1, <2>2 DEF LocalType
  <2>5. m \in LocalType /\ m.next = "idle" /\ m.pc = "sample_order"
    BY <2>1, IdleTyped DEF LocalType
  <2>6. Know(w, l) \/ Know(w, m) => LocalMove(w)
    BY <1>0, <2>1, <2>4, <2>5, UpdateMoves
  <2>7. Goto(w, "cleanup_query") \/ Goto(w, "cleanup_check") => LocalMove(w)
    BY GotoMoves DEF PCs, Watched, FlattenPCs
  <2>8. LocalMove(w)
    BY <2>3, <2>6, <2>7
  <2> QED
    BY <1>1, <2>8, QueryPlain DEF CleanupNext
<1>2. CASE QueryCleanup(w)
  <2>1. LocalMove(w)
    BY <1>2, GotoMoves DEF QueryCleanup, PCs, Watched, FlattenPCs
  <2> QED
    BY <1>2, <2>1, QueryPlain DEF QueryCleanup
<1>3. CASE CheckCleanup(w)
  <2>1. LocalMove(w)
    BY <1>3, GotoMoves DEF CheckCleanup, PCs, Watched, FlattenPCs
  <2> QED
    BY <1>3, <2>1, QueryPlain DEF CheckCleanup
<1> QED
  BY <1>1, <1>2, <1>3

\* The appends of the cleanup of the stops.
LEMMA CleanupAppends ==
  ASSUME IInv, NEW w \in Runs,
         Cleanup(w) \/ PrepareCleanup(w) \/ StartCleanup(w) \/ ReconcileCleanup(w)
  PROVE  PlainStep(w)
<1>0. /\ LogFits
      /\ local[w] \in LocalType /\ local[w].next \in Nexts
      /\ local[w].id \in Ids
      /\ w \in RequestNames
  BY LocalTyped DEF LocalType, IInv, RequestNames
<1>1. CASE Cleanup(w)
  <2> DEFINE client == IF private.stop.stage = "RECONCILED" THEN private.stop.id ELSE 0
             l == [Idle EXCEPT !.pc = "cleanup_next", !.id = client]
  <2>1. client \in Ids
    BY <1>0, LogAssumption DEF LogFits, LogTypeOK, StopType, Ids
  <2>2. Appending /\ Know(w, l) /\ (AppendCleanupAuthorized(client) \/ UNCHANGED private)
    BY <1>1 DEF Cleanup
  <2> HIDE DEF client
  <2>3. "cleanup_next" \in PCs /\ "cleanup_next" \in PlainPCs /\ "idle" \in Nexts
    BY DEF PCs, PlainPCs, Watched, FlattenPCs, Nexts
  <2>4. l \in LocalType /\ l.next = "idle" /\ l.pc = "cleanup_next"
    BY <2>1, <2>3, IdleTyped DEF LocalType
  <2>5. LocalMove(w)
    BY <2>2, <2>3, <2>4, UpdateMoves
  <2>6. LogMove \/ UNCHANGED private
    BY <1>0, <2>1, <2>2, CleanupMoves DEF Appending
  <2> QED
    BY <2>2, <2>5, <2>6, AppendPlain
<1>2. CASE PrepareCleanup(w)
  <2> DEFINE l == [local[w] EXCEPT !.pc = "cleanup_next", !.prepared = TRUE]
             m == [local[w] EXCEPT !.pc = "cleanup_send_started", !.old = w]
  <2>1. /\ "cleanup_next" \in PCs /\ "cleanup_next" \in PlainPCs
        /\ "cleanup_send_started" \in PCs /\ "cleanup_send_started" \in PlainPCs
    BY DEF PCs, PlainPCs, Watched, FlattenPCs
  <2>2. l \in LocalType /\ l.next \in Nexts /\ l.pc = "cleanup_next"
    BY <1>0, <2>1 DEF LocalType
  <2>3. m \in LocalType /\ m.next \in Nexts /\ m.pc = "cleanup_send_started"
    BY <1>0, <2>1 DEF LocalType
  <2>4. Know(w, l) \/ Know(w, m)
    BY <1>2 DEF PrepareCleanup
  <2>5. LocalMove(w)
    BY <2>1, <2>2, <2>3, <2>4, UpdateMoves
  <2>6. LogMove
    BY <1>0, <1>2, CleanupMoves DEF PrepareCleanup, Appending
  <2> QED
    BY <1>2, <2>5, <2>6, AppendPlain DEF PrepareCleanup
<1>3. CASE StartCleanup(w)
  <2> DEFINE l == [Idle EXCEPT !.pc = "cleanup_send", !.id = local[w].id]
  <2>1. "cleanup_send" \in PCs /\ "cleanup_send" \in PlainPCs /\ "idle" \in Nexts
    BY DEF PCs, PlainPCs, Watched, FlattenPCs, Nexts
  <2>2. l \in LocalType /\ l.next = "idle" /\ l.pc = "cleanup_send"
    BY <1>0, <2>1, IdleTyped DEF LocalType
  <2>3. LocalMove(w)
    BY <1>3, <2>1, <2>2, UpdateMoves DEF StartCleanup
  <2>4. LogMove
    BY <1>0, <1>3, CleanupMoves DEF StartCleanup, Appending
  <2> QED
    BY <1>3, <2>3, <2>4, AppendPlain DEF StartCleanup
<1>4. CASE ReconcileCleanup(w)
  <2> DEFINE l == [Idle EXCEPT !.pc = "sample_order"]
  <2>1. "sample_order" \in PCs /\ "sample_order" \in PlainPCs /\ "idle" \in Nexts
    BY DEF PCs, PlainPCs, Watched, FlattenPCs, Nexts
  <2>2. l \in LocalType /\ l.next = "idle" /\ l.pc = "sample_order"
    BY <2>1, IdleTyped DEF LocalType
  <2>3. LocalMove(w)
    BY <1>4, <2>1, <2>2, UpdateMoves DEF ReconcileCleanup
  <2>4. LogMove
    BY <1>0, <1>4, CleanupMoves DEF ReconcileCleanup, Appending
  <2> QED
    BY <1>4, <2>3, <2>4, AppendPlain DEF ReconcileCleanup
<1> QED
  BY <1>1, <1>2, <1>3, <1>4

-----------------------------------------------------------------------------
\* The reconciliation: its queries and its appends.
LEMMA FinishQueries ==
  ASSUME IInv, NEW w \in Runs, SampleOrder(w) \/ SamplePosition(w) \/ SampleAlgos(w)
  PROVE  PlainStep(w)
<1>0. /\ local[w] \in LocalType /\ local[w].next \in Nexts /\ local[w].id \in Ids
      /\ order \in OrderType /\ short \in Ids /\ ActiveStops \in SUBSET Ids
  BY LocalTyped DEF LocalType, ActiveStops
<1>1. Query
  BY DEF SampleOrder, SamplePosition, SampleAlgos
<1>2. {"sample_position", "sample_algos", "capture"} \subseteq PlainPCs /\ "idle" \in Nexts
  BY DEF PCs, PlainPCs, Watched, FlattenPCs, Nexts
<1>3. PlainPCs \subseteq PCs
  BY DEF PlainPCs
<1>4. CASE SampleOrder(w)
  <2> DEFINE l == [Idle EXCEPT !.pc = "sample_position", !.order = order, !.id = local[w].id]
  <2>1. l \in LocalType /\ l.next = "idle" /\ l.pc = "sample_position"
    BY <1>0, <1>2, <1>3, IdleTyped DEF LocalType
  <2> QED
    BY <1>1, <1>2, <1>4, <2>1, UpdateMoves, QueryPlain DEF SampleOrder
<1>5. CASE SamplePosition(w)
  <2> DEFINE l == [local[w] EXCEPT !.pc = "sample_algos", !.position = short]
  <2>1. l \in LocalType /\ l.next \in Nexts /\ l.pc = "sample_algos"
    BY <1>0, <1>2, <1>3 DEF LocalType
  <2> QED
    BY <1>1, <1>2, <1>5, <2>1, UpdateMoves, QueryPlain DEF SamplePosition
<1>6. CASE SampleAlgos(w)
  <2> DEFINE l == [local[w] EXCEPT !.pc = "capture", !.algos = ActiveStops]
  <2>1. l \in LocalType /\ l.next \in Nexts /\ l.pc = "capture"
    BY <1>0, <1>2, <1>3 DEF LocalType
  <2> QED
    BY <1>1, <1>2, <1>6, <2>1, UpdateMoves, QueryPlain DEF SampleAlgos
<1> QED
  BY <1>4, <1>5, <1>6

\* The appends of the reconciliation and of the end.
LEMMA FinishAppends ==
  ASSUME IInv, NEW w \in Runs,
         Capture(w) \/ Reconcile(w) \/ RecordBalance(w) \/ RecordProtection(w) \/ Succeed(w)
  PROVE  PlainStep(w)
<1>0. /\ LogFits /\ Appending
      /\ local[w].order \in OrderType /\ local[w].position \in Ids
      /\ local[w].id \in Ids /\ local[w].algos \in SUBSET Ids
  BY LocalTyped DEF LocalType, IInv, Capture, Reconcile, RecordBalance, RecordProtection, Succeed
<1>1. CASE Capture(w)
  <2> DEFINE l == [Idle EXCEPT !.pc = "reconcile"]
  <2>1. "reconcile" \in PCs /\ "reconcile" \in PlainPCs /\ "idle" \in Nexts
    BY DEF PCs, PlainPCs, Watched, FlattenPCs, Nexts
  <2>2. l \in LocalType /\ l.next = "idle" /\ l.pc = "reconcile"
    BY <2>1, IdleTyped DEF LocalType
  <2>3. LocalMove(w)
    BY <1>1, <2>1, <2>2, UpdateMoves DEF Capture
  <2>4. LogMove
    BY <1>0, <1>1, CaptureMoves DEF Capture, Appending
  <2> QED
    BY <1>0, <2>3, <2>4, AppendPlain
<1>2. CASE Reconcile(w) \/ RecordBalance(w) \/ RecordProtection(w) \/ Succeed(w)
  <2>1. LocalMove(w)
    BY <1>2, GotoMoves, LeaveMoves
    DEF Reconcile, RecordBalance, RecordProtection, Succeed, PCs, Watched, FlattenPCs
  <2>2. \/ UNCHANGED private
        \/ \E type \in Closing \cup Final : AppendStage(type)
    BY <1>2 DEF Reconcile, RecordBalance, RecordProtection, Succeed, Closing, Final
  <2>3. LogMove \/ UNCHANGED private
    BY <1>0, <2>2, StageMoves DEF Appending, MainStages
  <2> QED
    BY <1>0, <2>1, <2>3, AppendPlain
<1> QED
  BY <1>1, <1>2

-----------------------------------------------------------------------------
\* A request that cancels a stop creates nothing.
LEMMA CancelCounts ==
  ASSUME IInv, NEW n, Count(Ask("cancel", n, 0))
  PROVE  sends' = sends
<1>1. <<"cancel", n>> \notin Creates
  BY DEF Creates
<1>2. sends \in [Creates -> 0..2]
  BY DEF IInv, VenueFits, VenueTypeOK
<1> QED
  BY <1>1, <1>2 DEF Count, Ask

\* The two requests that cancel.
LEMMA CancelPlain ==
  ASSUME IInv, NEW w \in Runs, CancelOld(w) \/ SendCleanup(w)
  PROVE  PlainStep(w)
<1>1. PICK n \in Ids :
        LET r == Ask("cancel", n, 0) IN Acknowledged(r) \/ Unanswered(r) \/ Refused(r)
  BY LocalTyped DEF CancelOld, SendCleanup, LocalType
<1>2. Ask("cancel", n, 0) \in Requests
  BY LogAssumption DEF Ask, Requests, Ids
<1>3. Sending
  BY DEF CancelOld, SendCleanup
<1>4. VenueFits' /\ Count(Ask("cancel", n, 0))
  BY <1>1, <1>2, <1>3, SendTyped DEF Sending, IInv
<1>5. sends' = sends
  BY <1>4, CancelCounts
<1>6. LocalMove(w)
  BY GotoMoves, LeaveMoves, UnprotectedMoves
  DEF CancelOld, SendCleanup, PCs, Watched, FlattenPCs
<1>7. LogMove
  BY <1>3 DEF Sending, IInv, LogMove, LogFits, LogTypeOK, StopFits, FlattenFits, PastKept,
              FlattenKept, OrderPast, StopPast, FlattenPast
<1> QED
  BY <1>4, <1>5, <1>6, <1>7 DEF PlainStep

-----------------------------------------------------------------------------
\* A process goes to a watched place with what it knows.
LEMMA GotoSafe ==
  ASSUME IInv, NEW w \in Runs, NEW pc \in PCs \ {"apply"}, Goto(w, pc),
         pc \in FlattenPCs => local[w].generation \in Generations
  PROVE  \E l : /\ Know(w, l) /\ Safe(l) /\ l.pc = pc
               /\ l.id = local[w].id /\ l.generation = local[w].generation
<1> DEFINE l == [local[w] EXCEPT !.pc = pc]
<1>1. local[w] \in LocalType /\ local[w].next \in Nexts
  BY LocalTyped
<1>2. /\ l \in LocalType
      /\ l.pc = pc
      /\ l.next = local[w].next
      /\ l.id = local[w].id
      /\ l.generation = local[w].generation
  BY <1>1 DEF LocalType
<1>3. Know(w, l)
  BY DEF Goto
<1> HIDE DEF l
<1>4. Safe(l)
  BY <1>1, <1>2 DEF Safe
<1> QED
  BY <1>2, <1>3, <1>4

\* An append is no request.
LEMMA VenueQuiet ==
  ASSUME IInv, Appending
  PROVE  VenueFits' /\ sends' = sends
BY DEF Appending, venueVars, VenueFits, VenueTypeOK, IInv

\* The names that are counted.
LEMMA SendsTyped ==
  ASSUME IInv
  PROVE  /\ sends \in [Creates -> 0..2]
         /\ <<"order", 0>> \in Creates
         /\ \A i \in 1..Quantity : <<"stop", i>> \in Creates
         /\ \A g \in Generations : <<"flatten", g>> \in Creates
BY DEF IInv, VenueFits, VenueTypeOK, Creates

\* The event that a send has started is accepted once: until then nobody is about to send,
\* and nothing was sent.
LEMMA StartSendKeeps ==
  ASSUME IInv, NEW w \in Runs, StartSend(w)
  PROVE  IInv'
<1>1. PICK l : Know(w, l) /\ Safe(l) /\ l.pc = "send"
  BY GotoSafe DEF StartSend, PCs, FlattenPCs
<1>2. LogMove
  BY StageMoves DEF StartSend, Appending, IInv, MainStages
<1>3. VenueFits' /\ sends' = sends
  BY VenueQuiet DEF StartSend
<1>4. ~OrderPast /\ OrderPast'
  <2>1. private.stage = "SIGNED_REQUEST_PREPARED" /\ private'.stage = "REQUEST_SEND_STARTED"
    BY DEF StartSend, AppendStage, After, IInv, LogFits, LogTypeOK
  <2> QED
    BY <2>1 DEF OrderPast, Unsent
<1>5. sends[<<"order", 0>>] = 0
  BY <1>4, SendsTyped DEF IInv, WrittenBeforeSent
<1>6. \A v \in Runs : At(v, "send")' => v = w
  BY <1>1, <1>4, Moved DEF IInv, WatchFits, OrderWatch, At
<1>7. \A v \in Runs : OrderWatch(v)'
  BY <1>3, <1>4, <1>5, <1>6 DEF OrderWatch
<1>8. WatchFits'
  BY <1>1, <1>2, <1>3, <1>7, StopWatchKept, PrepareWatchKept, FlattenWatchKept
  DEF WatchFits, LogMove
<1> QED
  BY <1>1, <1>2, <1>3, <1>8, Moved, SentKept DEF IInv, LogMove

\* The same for a stop: its name is neither that of the other stop in the log nor past.
LEMMA StartStopKeeps ==
  ASSUME IInv, NEW w \in Runs, StartStop(w)
  PROVE  IInv'
<1>0. PICK i \in Ids : i = local[w].id /\ LogFits
  BY LocalTyped DEF LocalType, IInv
<1>1. PICK l : Know(w, l) /\ Safe(l) /\ l.pc = "stop_send" /\ l.id = i
  BY <1>0, GotoSafe DEF StartStop, PCs, FlattenPCs
<1>2. LogMove
  BY <1>0, StopEventsMove DEF StartStop, Appending
<1>3. VenueFits' /\ sends' = sends
  BY VenueQuiet DEF StartStop
<1>4. ~StopPast(i) /\ StopPast(i)'
  <2> DEFINE made == [id |-> i, stage |-> "SEND_STARTED", request |-> w]
  <2>1. AppendStop({"PREPARED"}, i, "SEND_STARTED", w)
    BY <1>0 DEF StartStop, AppendStopSendStarted
  <2>2. CASE /\ private.stop.stage = "PREPARED"
             /\ private.stop.id = i
             /\ private' = [private EXCEPT !.stop = made]
    <3>1. private.phase = "NONE" /\ private.candidate = NoStop
      BY <1>0, <2>2 DEF LogFits, LogTypeOK, StopFits
    <3>2. private'.stop = made
      BY <1>0, <2>2 DEF LogFits, LogTypeOK
    <3>3. ~StopPast(i)
      BY <2>2, <3>1 DEF StopPast, StopSent, NoStop
    <3>4. StopPast(i)'
      BY <3>2 DEF StopPast, StopSent
    <3> QED
      BY <3>3, <3>4
  <2>3. CASE /\ private.candidate.stage = "PREPARED"
             /\ private.candidate.id = i
             /\ private' = [private EXCEPT !.candidate = made]
    <3>1. private.candidate # NoStop
      BY <2>3 DEF NoStop
    <3>2. private.phase \in {"STARTED", "CANCEL_SEND_STARTED"} /\ private.stop.id # i
      BY <1>0, <2>3, <3>1 DEF LogFits, LogTypeOK, StopFits, PhaseType
    <3>3. private'.candidate = made
      BY <1>0, <2>3 DEF LogFits, LogTypeOK
    <3>4. ~StopPast(i)
      BY <2>3, <3>2 DEF StopPast, StopSent
    <3>5. StopPast(i)'
      BY <3>3 DEF StopPast, StopSent
    <3> QED
      BY <3>4, <3>5
  <2> QED
    BY <2>1, <2>2, <2>3 DEF AppendStop
<1>5. i # 0 => sends[<<"stop", i>>] = 0
  <2>1. i # 0 => i \in 1..Quantity
    BY <1>0, LogAssumption DEF Ids
  <2> QED
    BY <1>4, <2>1, SendsTyped DEF IInv, WrittenBeforeSent
<1>6. ASSUME NEW v \in Runs, At(v, "stop_send")', local'[v].id # 0
      PROVE  IF local'[v].id = i THEN v = w ELSE v # w /\ local'[v] = local[v] /\ At(v, "stop_send")
  <2>1. CASE v = w
    BY <1>1, <2>1, Moved
  <2>2. CASE v # w
    <3>1. local'[v] = local[v] /\ At(v, "stop_send")
      BY <1>1, <1>6, <2>2, Moved DEF At
    <3>2. StopPast(local[v].id)
      BY <1>6, <3>1 DEF IInv, WatchFits, StopWatch
    <3> QED
      BY <1>4, <2>2, <3>1, <3>2
  <2> QED
    BY <2>1, <2>2
<1>7. \A v \in Runs : StopWatch(v)'
  <2> SUFFICES ASSUME NEW v \in Runs, NEW k, At(v, "stop_send")', k = local'[v].id, k # 0
               PROVE  /\ StopPast(k)'
                      /\ sends'[<<"stop", k>>] = 0
                      /\ \A u \in Runs : At(u, "stop_send")' /\ local'[u].id = k => u = v
    BY DEF StopWatch, StopPast
  <2>1. CASE k = i
    BY <1>3, <1>4, <1>5, <1>6, <2>1
  <2>2. CASE k # i
    <3>1. At(v, "stop_send") /\ local[v].id = k
      BY <1>6, <2>2
    <3>2. /\ StopPast(k)
          /\ sends[<<"stop", k>>] = 0
          /\ \A u \in Runs : At(u, "stop_send") /\ local[u].id = k => u = v
      BY <3>1 DEF IInv, WatchFits, StopWatch
    <3>3. k \in 1..Quantity
      BY <3>1, LogAssumption DEF IInv, LocalFits, LocalType, Ids
    <3>4. StopPast(k)'
      BY <1>2, <3>2, <3>3 DEF LogMove, PastKept
    <3>5. \A u \in Runs : At(u, "stop_send")' /\ local'[u].id = k => u = v
      BY <1>6, <2>2, <3>2
    <3> QED
      BY <1>3, <3>2, <3>4, <3>5
  <2> QED
    BY <2>1, <2>2
<1>8. WatchFits'
  BY <1>1, <1>2, <1>3, <1>7, OrderWatchKept, PrepareWatchKept, FlattenWatchKept
  DEF WatchFits, LogMove
<1> QED
  BY <1>1, <1>2, <1>3, <1>8, Moved, SentKept DEF IInv, LogMove

\* The proof of absence is recorded once per preparation, so that one process is to prepare.
LEMMA RecordFlattenAbsenceKeeps ==
  ASSUME IInv, NEW w \in Runs, RecordFlattenAbsence(w)
  PROVE  IInv'
<1> DEFINE g == local[w].generation
<1>0. g \in Generations /\ LogFits
  BY LocalTyped DEF RecordFlattenAbsence, At, FlattenPCs, IInv
<1>1. PICK l : Know(w, l) /\ Safe(l) /\ l.pc = "flatten_prepare" /\ l.generation = g
  BY <1>0, GotoSafe DEF RecordFlattenAbsence, PCs
<1>2. /\ LogMove
      /\ private.emergency.generation = g
      /\ private.emergency.stage \in {"AUTHORIZED", "PREPARED"}
      /\ private'.emergency = [private.emergency EXCEPT !.stage = "ABSENCE_CHECKED"]
  BY <1>0, FlattenMoves DEF RecordFlattenAbsence, Appending, NestedStages
<1>3. VenueFits' /\ sends' = sends
  BY VenueQuiet DEF RecordFlattenAbsence
<1>4. /\ private'.emergency.generation = g
      /\ private'.emergency.stage = "ABSENCE_CHECKED"
      /\ private'.emergency.request = private.emergency.request
  BY <1>0, <1>2 DEF LogFits, LogTypeOK, FlattenType
<1>5. ASSUME NEW v \in Runs \ {w}
      PROVE  /\ local'[v] = local[v]
             /\ ~At(v, "flatten_prepare")'
             /\ At(v, "flatten_send_started")' => At(v, "flatten_send_started")
  <2>1. local'[v] = local[v]
    BY <1>1, Moved
  <2>2. ~At(v, "flatten_prepare")
    BY <1>2 DEF IInv, WatchFits, PrepareWatch
  <2> QED
    BY <2>1, <2>2 DEF At
<1>6. local'[w] = l
  BY <1>1, Moved
<1>7. \A v \in Runs : PrepareWatch(v)'
  BY <1>1, <1>2, <1>4, <1>5, <1>6 DEF PrepareWatch, At, IInv, WatchFits
<1>8. WatchFits'
  BY <1>1, <1>2, <1>3, <1>7, OrderWatchKept, StopWatchKept, FlattenWatchKept
  DEF WatchFits, LogMove
<1> QED
  BY <1>1, <1>2, <1>3, <1>8, Moved, SentKept DEF IInv, LogMove

\* That process names its request.
LEMMA PrepareFlattenKeeps ==
  ASSUME IInv, NEW w \in Runs, PrepareFlatten(w)
  PROVE  IInv'
<1> DEFINE g == local[w].generation
<1>0. g \in Generations /\ LogFits
  BY LocalTyped DEF PrepareFlatten, At, FlattenPCs, IInv
<1>1. PICK l : Know(w, l) /\ Safe(l) /\ l.pc = "flatten_send_started" /\ l.generation = g
  BY <1>0, GotoSafe DEF PrepareFlatten, PCs
<1>2. /\ LogFits' /\ PastKept
      /\ private'.emergency = [private.emergency EXCEPT !.stage = "PREPARED", !.request = w]
  BY <1>0, FlattenPreparedMoves DEF PrepareFlatten, Appending
<1>3. VenueFits' /\ sends' = sends
  BY VenueQuiet DEF PrepareFlatten
<1>4. /\ private'.emergency.generation = g
      /\ private'.emergency.request = w
      /\ \A v \in Runs : At(v, "flatten_prepare") => v = w
  BY <1>0, <1>2 DEF LogFits, LogTypeOK, FlattenType, PrepareFlatten, IInv, WatchFits, PrepareWatch
<1>5. /\ local'[w] = l
      /\ \A v \in Runs \ {w} : local'[v] = local[v]
  BY <1>1, Moved
<1>6. \A v \in Runs : ~At(v, "flatten_prepare")'
  BY <1>1, <1>4, <1>5 DEF At
<1>7. \A v \in Runs : PrepareWatch(v)'
  BY <1>1, <1>4, <1>5, <1>6 DEF PrepareWatch
<1>8. WatchFits'
  BY <1>1, <1>2, <1>3, <1>7, OrderWatchKept, StopWatchKept, FlattenWatchKept DEF WatchFits
<1> QED
  BY <1>1, <1>2, <1>3, <1>8, Moved, SentKept DEF IInv

\* The send of a generation is started by the process whose request is named.
LEMMA StartFlattenKeeps ==
  ASSUME IInv, NEW w \in Runs, StartFlatten(w)
  PROVE  IInv'
<1>0. PICK g \in Generations : g = local[w].generation /\ LogFits
  BY LocalTyped DEF StartFlatten, At, FlattenPCs, IInv
<1>1. PICK l : Know(w, l) /\ Safe(l) /\ l.pc = "flatten_send" /\ l.generation = g
  BY <1>0, GotoSafe DEF StartFlatten, PCs
<1>2. /\ LogMove
      /\ private.emergency.stage = "PREPARED"
      /\ private'.emergency = [private.emergency EXCEPT !.stage = "SEND_STARTED"]
  BY <1>0, FlattenMoves DEF StartFlatten, AppendFlattenSendStarted, Appending, NestedStages
<1>3. VenueFits' /\ sends' = sends
  BY VenueQuiet DEF StartFlatten
<1>4. private.emergency.generation = g
  BY <1>0 DEF StartFlatten, AppendFlattenSendStarted, IInv, WatchFits, PrepareWatch
<1>5. /\ private'.emergency.generation = g
      /\ private'.emergency.stage = "SEND_STARTED"
  BY <1>0, <1>2, <1>4 DEF LogFits, LogTypeOK, FlattenType
<1>6. ~FlattenPast(g) /\ FlattenPast(g)'
  <2>1. ~FlattenPast(g)
    BY <1>2, <1>4, LogAssumption DEF FlattenPast, Generations
  <2>2. FlattenPast(g)'
    BY <1>5 DEF FlattenPast
  <2> QED
    BY <2>1, <2>2
<1>7. sends[<<"flatten", g>>] = 0
  BY <1>0, <1>6, SendsTyped DEF IInv, WrittenBeforeSent
<1>8. ASSUME NEW v \in Runs, At(v, "flatten_send")'
      PROVE  IF local'[v].generation = g THEN v = w
             ELSE v # w /\ local'[v] = local[v] /\ At(v, "flatten_send")
  <2>1. CASE v = w
    BY <1>1, <2>1, Moved
  <2>2. CASE v # w
    <3>1. local'[v] = local[v] /\ At(v, "flatten_send")
      BY <1>1, <1>8, <2>2, Moved DEF At
    <3>2. FlattenPast(local[v].generation)
      BY <3>1 DEF IInv, WatchFits, FlattenWatch
    <3> QED
      BY <1>6, <2>2, <3>1, <3>2
  <2> QED
    BY <2>1, <2>2
<1>9. \A v \in Runs : FlattenWatch(v)'
  <2> SUFFICES ASSUME NEW v \in Runs, NEW k, At(v, "flatten_send")', k = local'[v].generation
               PROVE  /\ FlattenPast(k)'
                      /\ sends'[<<"flatten", k>>] = 0
                      /\ \A u \in Runs : At(u, "flatten_send")' /\ local'[u].generation = k
                                          => u = v
    BY DEF FlattenWatch, FlattenPast
  <2>1. CASE k = g
    BY <1>3, <1>6, <1>7, <1>8, <2>1
  <2>2. CASE k # g
    <3>1. At(v, "flatten_send") /\ local[v].generation = k
      BY <1>8, <2>2
    <3>2. /\ FlattenPast(k)
          /\ sends[<<"flatten", k>>] = 0
          /\ \A u \in Runs : At(u, "flatten_send") /\ local[u].generation = k => u = v
      BY <3>1 DEF IInv, WatchFits, FlattenWatch
    <3>3. k \in Generations
      BY <3>1 DEF IInv, LocalFits, Safe, FlattenPCs, At
    <3>4. FlattenPast(k)'
      BY <1>2, <3>2, <3>3 DEF LogMove, PastKept
    <3>5. \A u \in Runs : At(u, "flatten_send")' /\ local'[u].generation = k => u = v
      BY <1>8, <2>2, <3>2
    <3> QED
      BY <1>3, <3>2, <3>4, <3>5
  <2> QED
    BY <2>1, <2>2
<1>10. WatchFits'
  BY <1>1, <1>2, <1>3, <1>9, OrderWatchKept, StopWatchKept, PrepareWatchKept
  DEF WatchFits, LogMove
<1> QED
  BY <1>1, <1>2, <1>3, <1>10, Moved, SentKept DEF IInv, LogMove

-----------------------------------------------------------------------------
\* The log is not touched.
LEMMA LogQuiet ==
  ASSUME IInv, UNCHANGED <<action, private>>
  PROVE  LogMove
BY DEF IInv, LogMove, LogFits, LogTypeOK, StopFits, FlattenFits, PastKept, FlattenKept,
       OrderPast, StopPast, FlattenPast

\* A request that creates is counted under its name and under no other.
LEMMA CreateCounts ==
  ASSUME IInv, NEW kind, NEW n, NEW q, <<kind, n>> \in Creates, Count(Ask(kind, n, q)),
         sends[<<kind, n>>] = 0
  PROVE  /\ sends'[<<kind, n>>] = 1
         /\ \A c \in Creates : c # <<kind, n>> => sends'[c] = sends[c]
<1>1. sends' = [c \in Creates |->
                  IF c = <<kind, n>> /\ sends[c] < 2 THEN sends[c] + 1 ELSE sends[c]]
  BY DEF Count, Ask
<1> QED
  BY <1>1

\* The send of the order: nobody else is about to send it.
LEMMA SendKeeps ==
  ASSUME IInv, NEW w \in Runs, Send(w)
  PROVE  IInv'
<1> DEFINE r == Ask("order", 0, Quantity)
           c == <<"order", 0>>
<1>1. PICK l : Know(w, l) /\ Safe(l) /\ l.pc \notin Watched
  <2>1. LocalMove(w)
    BY GotoMoves, LeaveMoves DEF Send, PCs, Watched, FlattenPCs
  <2> QED
    BY <2>1 DEF LocalMove
<1>2. LogMove
  BY LogQuiet DEF Send, Sending
<1>3. VenueFits' /\ Count(r)
  <2>1. r \in Requests
    BY LogAssumption DEF Ask, Requests
  <2> QED
    BY <2>1, SendTyped DEF Send, Sending, IInv
<1>4. /\ OrderPast
      /\ sends[c] = 0
      /\ \A v \in Runs : At(v, "send") => v = w
  BY DEF Send, IInv, WatchFits, OrderWatch
<1>5. sends'[c] = 1 /\ \A d \in Creates : d # c => sends'[d] = sends[d]
  BY <1>3, <1>4, SendsTyped, CreateCounts
<1>6. \A v \in Runs : ~At(v, "send")'
  BY <1>1, <1>4, Moved DEF At, Watched
<1>7. \A i \in 1..Quantity : <<"stop", i>> # c /\ sends'[<<"stop", i>>] = sends[<<"stop", i>>]
  BY <1>5, SendsTyped
<1>8. \A g \in Generations :
        <<"flatten", g>> # c /\ sends'[<<"flatten", g>>] = sends[<<"flatten", g>>]
  BY <1>5, SendsTyped
<1>9. WatchFits'
  <2>1. \A v \in Runs : OrderWatch(v)'
    BY <1>6 DEF OrderWatch
  <2> QED
    BY <1>1, <1>2, <1>7, <1>8, <2>1, StopWatchKept, PrepareWatchKept, FlattenWatchKept
    DEF WatchFits, LogMove, Watched
<1>10. SentOnce'
  BY <1>5, SendsTyped DEF IInv, SentOnce
<1>11. WrittenBeforeSent'
  BY <1>2, <1>4, <1>7, <1>8 DEF IInv, WrittenBeforeSent, LogMove, PastKept
<1> QED
  BY <1>1, <1>2, <1>3, <1>9, <1>10, <1>11, Moved DEF IInv, LogMove

\* The send of a stop.
LEMMA SendStopKeeps ==
  ASSUME IInv, NEW w \in Runs, SendStop(w)
  PROVE  IInv'
<1>0. PICK i \in Ids : i = local[w].id
  BY LocalTyped DEF LocalType
<1> DEFINE r == Ask("stop", i, i)
<1>1. PICK l : Know(w, l) /\ Safe(l) /\ l.pc \notin Watched
  <2>1. LocalMove(w)
    BY GotoMoves, UnprotectedMoves DEF SendStop, PCs, Watched, FlattenPCs
  <2> QED
    BY <2>1 DEF LocalMove
<1>2. LogMove
  BY LogQuiet DEF SendStop, Sending
<1>3. VenueFits' /\ Count(r)
  <2>1. r \in Requests
    BY LogAssumption DEF Ask, Requests, Ids
  <2> QED
    BY <1>0, <2>1, SendTyped DEF SendStop, Sending, IInv
<1>a. CASE i = 0
  <2>1. <<"stop", i>> \notin Creates
    BY <1>a DEF Creates
  <2>2. sends' = sends
    BY <1>3, <2>1, SendsTyped DEF Count, Ask
  <2> QED
    BY <1>1, <1>2, <1>3, <2>2, PlainKeeps DEF PlainStep, LocalMove
<1>b. CASE i # 0
  <2> DEFINE c == <<"stop", i>>
  <2>0. i \in 1..Quantity /\ c \in Creates
    BY <1>b, LogAssumption, SendsTyped DEF Ids
  <2>1. /\ StopPast(i)
        /\ sends[c] = 0
        /\ \A v \in Runs : At(v, "stop_send") /\ local[v].id = i => v = w
    BY <1>0, <1>b DEF SendStop, IInv, WatchFits, StopWatch
  <2>2. sends'[c] = 1 /\ \A d \in Creates : d # c => sends'[d] = sends[d]
    BY <1>3, <2>0, <2>1, CreateCounts
  <2>3. \A k \in 1..Quantity : k # i => sends'[<<"stop", k>>] = sends[<<"stop", k>>]
    BY <2>2, SendsTyped
  <2>4. sends'[<<"order", 0>>] = sends[<<"order", 0>>]
    BY <2>2, SendsTyped
  <2>5. \A g \in Generations : sends'[<<"flatten", g>>] = sends[<<"flatten", g>>]
    BY <2>2, SendsTyped
  <2>6. \A v \in Runs : At(v, "stop_send")' =>
          At(v, "stop_send") /\ local'[v] = local[v] /\ v # w
    BY <1>1, Moved DEF At, Watched
  <2>7. \A v \in Runs : StopWatch(v)'
    <3> SUFFICES ASSUME NEW v \in Runs, NEW k, At(v, "stop_send")', k = local'[v].id, k # 0
                 PROVE  /\ StopPast(k)'
                        /\ sends'[<<"stop", k>>] = 0
                        /\ \A u \in Runs : At(u, "stop_send")' /\ local'[u].id = k => u = v
      BY DEF StopWatch, StopPast
    <3>1. At(v, "stop_send") /\ local[v].id = k /\ k # i
      BY <2>1, <2>6
    <3>2. /\ StopPast(k)
          /\ sends[<<"stop", k>>] = 0
          /\ \A u \in Runs : At(u, "stop_send") /\ local[u].id = k => u = v
      BY <3>1 DEF IInv, WatchFits, StopWatch
    <3>3. k \in 1..Quantity
      BY <3>1, LogAssumption DEF IInv, LocalFits, LocalType, Ids
    <3>4. StopPast(k)'
      BY <1>2, <3>2, <3>3 DEF LogMove, PastKept
    <3>5. \A u \in Runs : At(u, "stop_send")' /\ local'[u].id = k => u = v
      BY <2>6, <3>2
    <3> QED
      BY <2>3, <3>1, <3>2, <3>3, <3>4, <3>5
  <2>8. WatchFits'
    BY <1>1, <1>2, <2>4, <2>5, <2>7, OrderWatchKept, PrepareWatchKept, FlattenWatchKept
    DEF WatchFits, LogMove, Watched
  <2>9. SentOnce'
    BY <2>2, SendsTyped DEF IInv, SentOnce
  <2>10. WrittenBeforeSent'
    BY <1>2, <2>0, <2>1, <2>3, <2>4, <2>5 DEF IInv, WrittenBeforeSent, LogMove, PastKept
  <2> QED
    BY <1>1, <1>2, <1>3, <2>8, <2>9, <2>10, Moved DEF IInv, LogMove
<1> QED
  BY <1>a, <1>b

\* The send of a flatten order.
LEMMA SendFlattenKeeps ==
  ASSUME IInv, NEW w \in Runs, SendFlatten(w)
  PROVE  IInv'
<1>0. PICK g \in Generations : g = local[w].generation
  BY LocalTyped DEF SendFlatten, At, FlattenPCs
<1>q. PICK q \in Ids : q = local[w].quantity
  BY LocalTyped DEF LocalType
<1> DEFINE r == Ask("flatten", g, q)
           c == <<"flatten", g>>
<1>1. PICK l : Know(w, l) /\ Safe(l) /\ l.pc \notin Watched
  <2>1. LocalMove(w)
    BY <1>0, GotoMoves, LeaveMoves DEF SendFlatten, PCs, Watched, FlattenPCs
  <2> QED
    BY <2>1 DEF LocalMove
<1>2. LogMove
  BY LogQuiet DEF SendFlatten, Sending
<1>3. VenueFits' /\ Count(r)
  <2>1. r \in Requests
    BY LogAssumption DEF Ask, Requests, Ids, Generations
  <2> QED
    BY <1>0, <1>q, <2>1, SendTyped DEF SendFlatten, Sending, IInv
<1>4. /\ FlattenPast(g)
      /\ sends[c] = 0
      /\ \A v \in Runs : At(v, "flatten_send") /\ local[v].generation = g => v = w
  BY <1>0 DEF SendFlatten, IInv, WatchFits, FlattenWatch
<1>5. sends'[c] = 1 /\ \A d \in Creates : d # c => sends'[d] = sends[d]
  BY <1>3, <1>4, SendsTyped, CreateCounts
<1>6. \A k \in Generations : k # g => sends'[<<"flatten", k>>] = sends[<<"flatten", k>>]
  BY <1>5, SendsTyped
<1>7. sends'[<<"order", 0>>] = sends[<<"order", 0>>]
  BY <1>5, SendsTyped
<1>8. \A i \in 1..Quantity : sends'[<<"stop", i>>] = sends[<<"stop", i>>]
  BY <1>5, SendsTyped
<1>9. \A v \in Runs : At(v, "flatten_send")' =>
        At(v, "flatten_send") /\ local'[v] = local[v] /\ v # w
  BY <1>1, Moved DEF At, Watched
<1>10. \A v \in Runs : FlattenWatch(v)'
  <2> SUFFICES ASSUME NEW v \in Runs, NEW k, At(v, "flatten_send")', k = local'[v].generation
               PROVE  /\ FlattenPast(k)'
                      /\ sends'[<<"flatten", k>>] = 0
                      /\ \A u \in Runs : At(u, "flatten_send")' /\ local'[u].generation = k
                                          => u = v
    BY DEF FlattenWatch, FlattenPast
  <2>1. At(v, "flatten_send") /\ local[v].generation = k /\ k # g
    BY <1>4, <1>9
  <2>2. /\ FlattenPast(k)
        /\ sends[<<"flatten", k>>] = 0
        /\ \A u \in Runs : At(u, "flatten_send") /\ local[u].generation = k => u = v
    BY <2>1 DEF IInv, WatchFits, FlattenWatch
  <2>3. k \in Generations
    BY <2>1 DEF IInv, LocalFits, Safe, FlattenPCs, At
  <2>4. FlattenPast(k)'
    BY <1>2, <2>2, <2>3 DEF LogMove, PastKept
  <2>5. \A u \in Runs : At(u, "flatten_send")' /\ local'[u].generation = k => u = v
    BY <1>9, <2>2
  <2> QED
    BY <1>6, <2>1, <2>2, <2>3, <2>4, <2>5
<1>11. WatchFits'
  BY <1>1, <1>2, <1>7, <1>8, <1>10, OrderWatchKept, StopWatchKept, PrepareWatchKept
  DEF WatchFits, LogMove, Watched
<1>12. SentOnce'
  BY <1>5, SendsTyped DEF IInv, SentOnce
<1>13. WrittenBeforeSent'
  BY <1>2, <1>4, <1>6, <1>7, <1>8 DEF IInv, WrittenBeforeSent, LogMove, PastKept
<1> QED
  BY <1>1, <1>2, <1>3, <1>11, <1>12, <1>13, Moved DEF IInv, LogMove

-----------------------------------------------------------------------------
\* The initial states satisfy the invariant.
LEMMA InitFits ==
  Init => IInv
<1> SUFFICES ASSUME Init PROVE IInv
  OBVIOUS
<1>1. action \in Actions
  BY RuntimeAssumption DEF Init
<1>2. NoStop \in StopType /\ NoFlatten \in FlattenType /\ NoCleanup \in StopType
  BY LogAssumption DEF NoStop, NoFlatten, NoCleanup, StopType, FlattenType, NestedStages,
                       RequestNames
<1>3. NoCapture \in [order : OrderType, position : 0..Quantity, stop : 0..Quantity,
                     algos : SUBSET (0..Quantity), nested : {<<>>} \cup NestedType]
  BY LogAssumption DEF NoCapture, OrderType
<1>4. LogTypeOK
  BY <1>1, <1>2, <1>3, LogAssumption
  DEF Init, LogInit, LogTypeOK, MainStages, Unsent, PhaseType, RequestNames
<1>5. StopFits /\ FlattenFits
  BY DEF Init, LogInit, StopFits, FlattenFits, NoStop, NoFlatten
<1>6. VenueFits
  <2>1. order \in OrderType /\ short \in 0..Quantity /\ (action = "OPEN_SHORT" => short = 0)
    BY LogAssumption DEF Init, VenueInit, OrderType
  <2>2. stops \in [Ids -> {"NONE", "NEW", "CANCELED", "FINISHED"}]
    BY DEF Init, VenueInit
  <2>3. flattens \in [Generations -> [status : {"NONE", "NEW", "FILLED", "CANCELED"},
                                     quantity : 0..Quantity, filled : 0..Quantity]]
    BY LogAssumption DEF Init, VenueInit, NoFlattenOrder
  <2>4. wire \in SUBSET Requests /\ sends \in [Creates -> 0..2]
    BY DEF Init, VenueInit
  <2>5. action = "OPEN_SHORT" => short <= order.filled
    BY <2>1 DEF Init, VenueInit, OrderType
  <2> QED
    BY <2>1, <2>2, <2>3, <2>4, <2>5 DEF VenueFits, VenueTypeOK
<1>7. LocalFits
  BY IdleTyped DEF Init, LocalFits, Safe, FlattenPCs, Nexts
<1>8. WatchFits
  BY IdleTyped DEF Init, WatchFits, OrderWatch, StopWatch, PrepareWatch, FlattenWatch, At
<1>9. SentOnce /\ WrittenBeforeSent
  <2>1. sends = [c \in Creates |-> 0]
    BY DEF Init, VenueInit
  <2> QED
    BY <2>1 DEF SentOnce, WrittenBeforeSent, Creates
<1> QED
  BY <1>4, <1>5, <1>6, <1>7, <1>8, <1>9 DEF IInv, LogFits

\* A step that only moves the exchange.
LEMMA QuietKeeps ==
  ASSUME IInv, UNCHANGED <<action, private, local, sends>>, VenueFits'
  PROVE  IInv'
<1>1. LogFits'
  BY LogQuiet DEF LogMove
<1> QED
  BY <1>1 DEF IInv, LocalFits, Safe, TodoFits, WatchFits, OrderWatch, StopWatch, PrepareWatch,
              FlattenWatch, At, OrderPast, StopPast, FlattenPast, SentOnce, WrittenBeforeSent

\* Every step keeps the invariant.
LEMMA NextKeeps ==
  ASSUME IInv, [Next]_vars
  PROVE  IInv'
<1>1. ASSUME NEW w \in Runs, SendSteps(w)
      PROVE  IInv'
  BY <1>1, PlainKeeps, SendAppends, LaunchPlain, SendQueries, StartSendKeeps, SendKeeps
  DEF SendSteps
<1>2. ASSUME NEW w \in Runs, ObserveSteps(w)
      PROVE  IInv'
  BY <1>2, PlainKeeps, SendAppends, SendQueries, PlanEventsPlain, ApplyEventPlain,
     ReplayFillsPlain
  DEF ObserveSteps
<1>3. ASSUME NEW w \in Runs, StopSteps(w)
      PROVE  IInv'
  BY <1>3, PlainKeeps, EnsurePlain, StopQueries, StopAppends, StartStopKeeps, SendStopKeeps,
     CancelPlain
  DEF StopSteps
<1>4. ASSUME NEW w \in Runs, FlattenSteps(w)
      PROVE  IInv'
  BY <1>4, PlainKeeps, FlattenStarts, FlattenQueries, FlattenAppends, RecordFlattenAbsenceKeeps,
     PrepareFlattenKeeps, StartFlattenKeeps, SendFlattenKeeps
  DEF FlattenSteps
<1>5. ASSUME NEW w \in Runs, CleanupSteps(w)
      PROVE  IInv'
  BY <1>5, PlainKeeps, CleanupQueries, CleanupAppends, CancelPlain DEF CleanupSteps
<1>6. ASSUME NEW w \in Runs, FinishSteps(w)
      PROVE  IInv'
  BY <1>6, PlainKeeps, FinishQueries, FinishAppends DEF FinishSteps
<1>7. CASE VenueStep
  <2>1. VenueFits' /\ sends' = sends
    BY <1>7, VenueMoves DEF VenueStep, IInv
  <2> QED
    BY <1>7, <2>1, QuietKeeps DEF VenueStep
<1>8. CASE UNCHANGED vars
  <2>1. VenueFits'
    BY <1>8 DEF vars, venueVars, VenueFits, VenueTypeOK, IInv
  <2> QED
    BY <1>8, <2>1, QuietKeeps DEF vars, venueVars
<1> QED
  BY <1>1, <1>2, <1>3, <1>4, <1>5, <1>6, <1>7, <1>8 DEF Next

\* The invariant holds always.
LEMMA AlwaysIInv ==
  Spec => []IInv
BY InitFits, NextKeeps, PTL DEF Spec

-----------------------------------------------------------------------------
\* Every variable keeps its type, for any number of processes and any quantity: no process
\* records more fills than the order has, however the recordings interleave.
THEOREM TypeCorrectness == Spec => []TypeOK
<1>1. IInv => TypeOK
  BY DEF IInv, LogFits, VenueFits, LocalFits, TypeOK
<1> QED
  BY <1>1, AlwaysIInv, PTL

\* The name of an order, of a stop and of a generation of the flatten is sent at most once by
\* any number of processes, whenever each of them ends.
THEOREM SendsAreUnique == Spec => []SentOnce
<1>1. IInv => SentOnce
  BY DEF IInv
<1> QED
  BY <1>1, AlwaysIInv, PTL

\* Whatever was sent is found in the log as sent by every later launch.
THEOREM SendsAreWritten == Spec => []WrittenBeforeSent
<1>1. IInv => WrittenBeforeSent
  BY DEF IInv
<1> QED
  BY <1>1, AlwaysIInv, PTL

-----------------------------------------------------------------------------
(* What the log says of the exchange. *)

ClosingStages == Closing \cup Final
Cancelling == {"CANCEL_SEND_STARTED", "SUCCEEDED"}

\* An observation of the order: it is not ahead of the order, and an end in it is the order's.
Sampled(o) ==
    o.filled <= order.filled /\ (o.status \in {"FILLED", "CANCELED", "REJECTED"} => order = o)

\* The order is over when all of it is filled; a close takes from the short what it fills.
OrderFits ==
    /\ order.filled = Quantity => OrderEnded
    /\ action = "CLOSE_SHORT" => short + order.filled <= Quantity

\* The capture has passed the reconciliation of the balance.
Agreed == FactsHold(private.capture) /\ VenueAgrees(private.capture)

\* What was captured is an observation; a close names no stop in it and a spot order none at
\* all.  From the reconciliation of the balance on it has agreed with the log.
CaptureFits ==
    /\ Sampled(private.capture.order)
    /\ action = "CLOSE_SHORT" => private.capture.stop = 0
    /\ action = "SPOT" => private.capture.algos = {}
    /\ private.stage \in ClosingStages => private.capture.order.status # "NONE"
    /\ private.stage \in {"POSITION_BALANCE_RECONCILED", "PROTECTION_RECONCILED_IF_EXPOSED",
                          "RECONCILIATION_SUCCEEDED"} => Agreed

\* A stop that is reconciled was seen, and the old one is not canceled before the new one is
\* reconciled; only a close is cleaned up.
SwapFits ==
    /\ private.stop.stage = "RECONCILED" => stops[private.stop.id] # "NONE"
    /\ private.candidate.stage = "RECONCILED" => stops[private.candidate.id] # "NONE"
    /\ private.phase = "CANCEL_SEND_STARTED" => private.candidate.stage = "RECONCILED"
    /\ private.phase = "SUCCEEDED" => private.stop.id = private.new
    /\ private.cleanup.stage # "NONE" => action = "CLOSE_SHORT"
    /\ private.cleanup # NoCleanup => private.cleanup.stage # "NONE"

\* Before the cleanup, nothing but a replacement cancels a stop, and never the new one.
Cancelable(i) == private.phase \in Cancelling /\ i # private.new

CancelFits ==
    private.cleanup = NoCleanup =>
        /\ \A i \in Ids : stops[i] = "CANCELED" => Cancelable(i)
        /\ \A r \in wire : r.kind = "cancel" => Cancelable(r.n)

\* The flatten orders before the one that the log works on have ended.
GenerationsEnd == \A g \in Generations : g < private.emergency.generation => FlattenEnded(g)

Facts == LogFollowsVenue /\ OrderFits /\ CaptureFits /\ SwapFits /\ CancelFits /\ GenerationsEnd

\* The events that a process has still to append: at most one acknowledgement, which is the
\* first, the fills from those in the log to those that were seen, and the last event.
TodoSays(l) ==
    LET h == IF l.todo[1] = "ORDER_ACKNOWLEDGED" THEN 1 ELSE 0 IN
    \A k \in 1..Len(l.todo) :
        /\ l.todo[k] = "ORDER_ACKNOWLEDGED" => k = 1
        /\ l.todo[k] = "FILL_OBSERVED" => l.fills + k - h <= l.order.filled
        /\ l.todo[k] \in OrderEnds \cup {"ORDER_PARTIALLY_FILLED"} => k = Len(l.todo)
        /\ l.todo[k] \in OrderEnds =>
             /\ LastEvent(l.order) = <<l.todo[k]>>
             /\ l.order.filled <= l.fills + (k - 1) - h

SamplePCs == {"sample_order", "sample_position", "sample_algos"}
SeenPCs == {"query_position", "read_log", "apply", "fills_fees", "sample_position", "sample_algos",
            "capture"}

\* What a process knows, wherever it is.
Knows(l) ==
    /\ Sampled(l.order)
    /\ l.fills <= private.fills
    /\ action = "SPOT" => l.algos = {}

\* What holds at its place.
Due(l) ==
    /\ l.pc = "apply" => TodoSays(l) /\ l.next \in {"idle", "ensure", "fills_fees"}
    /\ l.pc = "stop_position" => l.next \in {"swap_verify", "stop_query", "stop_observe"}
    /\ l.pc \in SeenPCs => l.order.status # "NONE"
    /\ l.pc \in {"reconcile", "balance"} => private.stage \in ClosingStages
    /\ l.pc = "balance" => Agreed
    /\ l.pc \in SamplePCs => Perpetual
    /\ l.pc \in SamplePCs \cup {"capture"} /\ action = "CLOSE_SHORT" => l.id = 0
    /\ l.pc = "swap_start" => private.phase # "NONE" /\ l.gone # private.new
    /\ l.pc = "swap_cancel" => Cancelable(l.gone)
    /\ l.pc = "cleanup_send" => private.cleanup.stage # "NONE"
    /\ l.pc = "inherited" => stops[0] # "NONE"
    /\ l.pc \in {"stop_acknowledge", "stop_reconcile"} => stops[l.id] # "NONE"
    /\ l.pc = "flatten_position" => l.status = "NEW" \/ FlattenEnded(l.generation)
    /\ l.pc = "flatten_remainder" => FlattenEnded(l.generation)

DuePCs == SeenPCs \cup SamplePCs \cup
    {"stop_position", "reconcile", "balance", "swap_start", "swap_cancel", "cleanup_send",
     "inherited", "stop_acknowledge", "stop_reconcile", "flatten_position", "flatten_remainder"}

\* The inductive invariant, on top of IInv.
JInv == Facts /\ \A w \in Runs : Knows(local[w]) /\ Due(local[w])

\* What is past stays past, in the log and at the exchange.
WorldGrows ==
    /\ action' = action
    /\ order.filled <= order'.filled
    /\ OrderEnded => order' = order
    /\ \A i \in Ids : stops[i] # "NONE" => stops'[i] # "NONE"
    /\ \A g \in Generations : FlattenEnded(g) => FlattenEnded(g)'
    /\ private.fills <= private'.fills
    /\ private.stage \in ClosingStages =>
         /\ private'.stage \in ClosingStages
         /\ private'.capture = private.capture
         /\ private'.fills = private.fills
    /\ private.phase # "NONE" => private'.phase # "NONE" /\ private'.new = private.new
    /\ private.phase \in Cancelling => private'.phase \in Cancelling
    /\ private.cleanup.stage # "NONE" => private'.cleanup.stage # "NONE"

-----------------------------------------------------------------------------
\* The types that the arithmetic below needs.
LEMMA Numbers ==
  ASSUME IInv
  PROVE  /\ Quantity \in Nat /\ Quantity > 0
         /\ order \in OrderType /\ order.filled \in 0..Quantity
         /\ short \in 0..Quantity
         /\ private.fills \in 0..Quantity
         /\ private.capture.order \in OrderType
         /\ private.capture.position \in 0..Quantity
         /\ \A w \in Runs : /\ local[w] \in LocalType
                            /\ local[w].order \in OrderType
                            /\ local[w].fills \in 0..Quantity
BY LogAssumption DEF IInv, LogFits, LogTypeOK, VenueFits, VenueTypeOK, LocalFits, OrderType,
                     LocalType, Ids

\* An observation stays one.
LEMMA SampledStays ==
  ASSUME IInv, IInv', WorldGrows, NEW o \in OrderType, Sampled(o)
  PROVE  Sampled(o)'
<1>1. /\ order.filled \in Nat /\ order'.filled \in Nat /\ o.filled \in Nat
      /\ order.filled <= order'.filled
  BY Numbers DEF WorldGrows, OrderType, IInv, VenueFits, VenueTypeOK
<1> QED
  BY <1>1 DEF Sampled, WorldGrows, OrderEnded

\* So does the agreement of a capture.
LEMMA AgreedStays ==
  ASSUME WorldGrows, Agreed, private.stage \in ClosingStages
  PROVE  Agreed'
<1>1. /\ private'.capture = private.capture
      /\ private'.fills = private.fills
      /\ action' = action
  BY DEF WorldGrows
<1> QED
  BY <1>1 DEF Agreed, FactsHold, VenueAgrees, Perpetual

\* What a process knows stays true whatever the others and the exchange do.
LEMMA KnowsStays ==
  ASSUME IInv, IInv', WorldGrows, NEW l \in LocalType, Knows(l)
  PROVE  Knows(l)'
<1>1. l.order \in OrderType /\ l.fills \in Nat
  BY LogAssumption DEF LocalType, Ids
<1>2. private.fills \in Nat /\ private'.fills \in Nat /\ private.fills <= private'.fills
  BY LogAssumption DEF IInv, LogFits, LogTypeOK, WorldGrows
<1>3. Sampled(l.order)'
  BY <1>1, SampledStays DEF Knows
<1>4. l.fills <= private'.fills
  BY <1>1, <1>2 DEF Knows
<1> QED
  BY <1>3, <1>4 DEF Knows, WorldGrows

\* So does what holds at its place.
LEMMA DueStays ==
  ASSUME WorldGrows, NEW l, Safe(l), Due(l)
  PROVE  Due(l)'
<1>1. /\ l.id \in Ids /\ 0 \in Ids
      /\ l.pc \in {"flatten_position", "flatten_remainder"} => l.generation \in Generations
  BY LogAssumption DEF Safe, LocalType, Ids, FlattenPCs
<1>2. l.pc = "balance" => Agreed'
  BY AgreedStays DEF Due
<1>3. l.pc \in {"reconcile", "balance"} => private'.stage \in ClosingStages
  BY DEF Due, WorldGrows
<1>4. Perpetual' = Perpetual /\ action' = action
  BY DEF Perpetual, WorldGrows
<1>5. /\ l.pc = "swap_start" => private'.phase # "NONE" /\ l.gone # private'.new
      /\ l.pc = "cleanup_send" => private'.cleanup.stage # "NONE"
      /\ l.pc = "swap_cancel" => Cancelable(l.gone)'
  BY DEF Due, WorldGrows, Cancelable, Cancelling
<1>6. /\ l.pc = "inherited" => stops'[0] # "NONE"
      /\ l.pc \in {"stop_acknowledge", "stop_reconcile"} => stops'[l.id] # "NONE"
  BY <1>1 DEF Due, WorldGrows
<1>7. /\ l.pc = "flatten_position" => l.status = "NEW" \/ FlattenEnded(l.generation)'
      /\ l.pc = "flatten_remainder" => FlattenEnded(l.generation)'
  BY <1>1 DEF Due, WorldGrows
<1> QED
  BY <1>2, <1>3, <1>4, <1>5, <1>6, <1>7 DEF Due

-----------------------------------------------------------------------------
(* The exchange moves. *)

\* A cancel request that is allowed.
Harmless(r) == r.kind = "cancel" /\ private.cleanup = NoCleanup => Cancelable(r.n)

\* A move of the exchange leaves the log as it is.
LEMMA VenueFrame ==
  ASSUME IInv, Facts, UNCHANGED <<action, private>>,
         order'.filled \in Nat, order.filled <= order'.filled, OrderEnded => order' = order,
         OrderFits', CancelFits',
         \A i \in Ids : stops[i] # "NONE" => stops'[i] # "NONE",
         \A g \in Generations : FlattenEnded(g) => FlattenEnded(g)'
  PROVE  WorldGrows /\ Facts'
<1>1. private.fills \in Nat /\ order.filled \in Nat /\ private.capture.order.filled \in Nat
  BY Numbers DEF OrderType
<1>2. WorldGrows
  BY <1>1 DEF WorldGrows
<1>3. LogFollowsVenue'
  BY <1>1 DEF LogFollowsVenue, Facts, OrderEnded
<1>4. Sampled(private.capture.order)'
  BY <1>1 DEF Facts, CaptureFits, Sampled, OrderEnded
<1>5. CaptureFits'
  BY <1>4 DEF Facts, CaptureFits, Agreed, FactsHold, VenueAgrees, Perpetual
<1>6. SwapFits'
  <2>1. private.stop.id \in Ids /\ private.candidate.id \in Ids
    BY DEF IInv, LogFits, LogTypeOK, StopType, Ids
  <2> QED
    BY <2>1 DEF Facts, SwapFits
<1>7. GenerationsEnd'
  BY DEF Facts, GenerationsEnd
<1> QED
  BY <1>2, <1>3, <1>5, <1>6, <1>7 DEF Facts

\* A request that arrives.
LEMMA EffectGrows ==
  ASSUME IInv, Facts, UNCHANGED <<action, private>>, NEW r \in Requests, Harmless(r), Effect(r),
         wire' \subseteq wire \cup {r}
  PROVE  WorldGrows /\ Facts'
<1>1. /\ order' = IF r.kind = "order" /\ order.status = "NONE"
                    THEN [order EXCEPT !.status = "NEW"] ELSE order
      /\ short' = short
      /\ order \in OrderType /\ order.filled \in Nat
  BY Numbers DEF Effect, OrderType
<1>2. \A i \in Ids : stops'[i] = CASE r.kind = "stop" /\ r.n = i /\ stops[i] = "NONE" -> "NEW"
                                   [] r.kind = "cancel" /\ r.n = i /\ stops[i] = "NEW" -> "CANCELED"
                                   [] OTHER -> stops[i]
  BY DEF Effect
<1>3. \A g \in Generations : FlattenEnded(g) => FlattenEnded(g)'
  BY DEF Effect, FlattenEnded
<1>4. order'.filled = order.filled /\ (OrderEnded => order' = order)
  BY <1>1 DEF OrderEnded, OrderType
<1>5. OrderFits'
  BY <1>1, <1>4 DEF Facts, OrderFits, OrderEnded
<1>6. \A i \in Ids : stops[i] # "NONE" => stops'[i] # "NONE"
  BY <1>2
<1>7. CancelFits'
  <2> SUFFICES ASSUME private.cleanup = NoCleanup
               PROVE  /\ \A i \in Ids : stops'[i] = "CANCELED" => Cancelable(i)
                      /\ \A s \in wire' : s.kind = "cancel" => Cancelable(s.n)
    BY DEF CancelFits, Cancelable
  <2>1. \A i \in Ids : stops'[i] = "CANCELED" =>
          stops[i] = "CANCELED" \/ (r.kind = "cancel" /\ r.n = i)
    BY <1>2
  <2> QED
    BY <2>1 DEF Facts, CancelFits, Harmless
<1> QED
  BY <1>1, <1>3, <1>4, <1>5, <1>6, <1>7, VenueFrame

\* A request that was sent, whatever the answer.
LEMMA SendGrows ==
  ASSUME IInv, Facts, Sending, NEW r \in Requests, Harmless(r),
         Acknowledged(r) \/ Unanswered(r) \/ Refused(r)
  PROVE  WorldGrows /\ Facts'
<1>1. wire' \subseteq wire \cup {r}
  BY DEF Acknowledged, Unanswered, Refused
<1>2. CASE Effect(r)
  BY <1>1, <1>2, EffectGrows DEF Sending
<1>3. CASE UNCHANGED <<order, stops, flattens, short>>
  <2>1. OrderFits' /\ order.filled \in Nat
    BY <1>3, Numbers DEF Facts, OrderFits, OrderEnded, Sending, OrderType
  <2>2. CancelFits'
    BY <1>1, <1>3 DEF Facts, CancelFits, Cancelable, Harmless, Sending
  <2> QED
    BY <1>3, <2>1, <2>2, VenueFrame DEF Sending, FlattenEnded
<1> QED
  BY <1>2, <1>3 DEF Acknowledged, Unanswered, Refused

\* The steps of the exchange itself.
LEMMA VenueGrows ==
  ASSUME IInv, Facts, UNCHANGED <<action, private>>, Venue
  PROVE  WorldGrows /\ Facts'
<1>0. /\ order \in OrderType /\ order.filled \in Nat /\ Quantity \in Nat
      /\ short \in Nat
  BY Numbers DEF OrderType
<1>a. CASE Arrive
  <2>1. PICK r \in wire : Effect(r) /\ wire' = wire \ {r}
    BY <1>a DEF Arrive
  <2>2. r \in Requests
    BY DEF IInv, VenueFits, VenueTypeOK
  <2>3. Harmless(r)
    BY DEF Harmless, Facts, CancelFits
  <2> QED
    BY <2>1, <2>2, <2>3, EffectGrows
<1>b. CASE FillOrder
  <2>1. PICK n \in 1..(Quantity - order.filled) :
          /\ order.status = "NEW"
          /\ action = "CLOSE_SHORT" => n <= short
          /\ order' = [filled |-> order.filled + n,
                       status |-> IF order.filled + n = Quantity THEN "FILLED" ELSE "NEW"]
          /\ short' = CASE action = "OPEN_SHORT" -> short + n
                        [] action = "CLOSE_SHORT" -> short - n
                        [] OTHER -> short
          /\ UNCHANGED <<stops, flattens, wire>>
    BY <1>b DEF FillOrder
  <2>2. order'.filled = order.filled + n /\ n \in Nat
    BY <1>0, <2>1
  <2>3. ~OrderEnded
    BY <2>1 DEF OrderEnded
  <2>4. OrderFits'
    <3>1. order'.filled = Quantity => OrderEnded'
      BY <2>1, <2>2 DEF OrderEnded
    <3>2. action = "CLOSE_SHORT" => short' + order'.filled <= Quantity
      BY <1>0, <2>1, <2>2 DEF Facts, OrderFits
    <3> QED
      BY <3>1, <3>2 DEF OrderFits
  <2>5. CancelFits'
    BY <2>1 DEF Facts, CancelFits, Cancelable
  <2> QED
    BY <1>0, <2>1, <2>2, <2>3, <2>4, <2>5, VenueFrame DEF FlattenEnded
<1>c. CASE EndOrder
  <2>1. order'.filled = order.filled /\ ~OrderEnded /\ OrderEnded'
    BY <1>0, <1>c DEF EndOrder, OrderEnded, OrderType
  <2>2. UNCHANGED <<stops, flattens, short, wire>>
    BY <1>c DEF EndOrder
  <2>3. OrderFits' /\ CancelFits'
    BY <2>1, <2>2 DEF Facts, OrderFits, CancelFits, Cancelable
  <2> QED
    BY <1>0, <2>1, <2>2, <2>3, VenueFrame DEF FlattenEnded
<1>d. CASE Trigger
  <2>1. PICK i \in ActiveStops :
          /\ stops' = [stops EXCEPT ![i] = "FINISHED"]
          /\ short' \in {short, short - Least(short, StopQuantity(i))}
          /\ UNCHANGED <<order, flattens, wire>>
    BY <1>d DEF Trigger
  <2>2. StopQuantity(i) \in Nat
    BY LogAssumption DEF StopQuantity, ActiveStops, Ids
  <2>3. short' \in Nat /\ short' <= short
    BY <1>0, <2>1, <2>2 DEF Least
  <2>4. \A j \in Ids : stops'[j] = IF j = i THEN "FINISHED" ELSE stops[j]
    BY <2>1 DEF IInv, VenueFits, VenueTypeOK
  <2>5. OrderFits'
    BY <1>0, <2>1, <2>3 DEF Facts, OrderFits, OrderEnded
  <2>6. CancelFits'
    BY <2>1, <2>4 DEF Facts, CancelFits, Cancelable
  <2> QED
    BY <1>0, <2>1, <2>4, <2>5, <2>6, VenueFrame DEF FlattenEnded
<1>e. CASE FillFlatten
  <2>1. PICK g \in Generations, n \in 1..short :
          LET f == flattens[g] IN
          /\ f.status = "NEW"
          /\ f.filled + n <= f.quantity
          /\ flattens' = [flattens EXCEPT ![g].filled = f.filled + n,
                            ![g].status = IF f.filled + n = f.quantity THEN "FILLED" ELSE "NEW"]
          /\ short' = short - n
          /\ UNCHANGED <<order, stops, wire>>
    BY <1>e DEF FillFlatten
  <2>2. \A k \in Generations : FlattenEnded(k) => FlattenEnded(k)'
    BY <2>1 DEF FlattenEnded, IInv, VenueFits, VenueTypeOK
  <2>3. OrderFits'
    BY <1>0, <2>1 DEF Facts, OrderFits, OrderEnded
  <2>4. CancelFits'
    BY <2>1 DEF Facts, CancelFits, Cancelable
  <2> QED
    BY <1>0, <2>1, <2>2, <2>3, <2>4, VenueFrame
<1>f. CASE EndFlatten
  <2>1. PICK g \in Generations :
          /\ flattens[g].status = "NEW"
          /\ flattens' = [flattens EXCEPT ![g].status = "CANCELED"]
          /\ UNCHANGED <<order, stops, short, wire>>
    BY <1>f DEF EndFlatten
  <2>2. \A k \in Generations : FlattenEnded(k) => FlattenEnded(k)'
    BY <2>1 DEF FlattenEnded, IInv, VenueFits, VenueTypeOK
  <2>3. OrderFits' /\ CancelFits'
    BY <2>1 DEF Facts, OrderFits, OrderEnded, CancelFits, Cancelable
  <2> QED
    BY <1>0, <2>1, <2>2, <2>3, VenueFrame
<1> QED
  BY <1>a, <1>b, <1>c, <1>d, <1>e, <1>f DEF Venue

-----------------------------------------------------------------------------
(* The log grows. *)

CoreSame ==
    /\ private'.stage = private.stage
    /\ private'.order = private.order
    /\ private'.fills = private.fills
    /\ private'.capture = private.capture

NestedSame ==
    /\ StopUntouched
    /\ private'.emergency = private.emergency
    /\ private'.cleanup = private.cleanup

\* An event of a stop, of the flatten or of the cleanup.
LEMMA NestedFrame ==
  ASSUME IInv, Facts, Appending, CoreSame, SwapFits', CancelFits', GenerationsEnd',
         private.phase # "NONE" => private'.phase # "NONE" /\ private'.new = private.new,
         private.phase \in Cancelling => private'.phase \in Cancelling,
         private.cleanup.stage # "NONE" => private'.cleanup.stage # "NONE"
  PROVE  WorldGrows /\ Facts'
<1>1. UNCHANGED <<action, order, stops, flattens, short, wire>>
  BY DEF Appending, venueVars
<1>2. private.fills \in Nat /\ order.filled \in Nat
  BY Numbers DEF OrderType
<1>3. WorldGrows
  BY <1>1, <1>2 DEF WorldGrows, CoreSame, FlattenEnded
<1>4. LogFollowsVenue' /\ OrderFits'
  BY <1>1 DEF Facts, CoreSame, LogFollowsVenue, OrderFits, OrderEnded
<1>5. CaptureFits'
  BY <1>1 DEF Facts, CoreSame, CaptureFits, Sampled, Agreed, FactsHold, VenueAgrees, Perpetual
<1> QED
  BY <1>3, <1>4, <1>5 DEF Facts

\* An event that leaves those alone.
LEMMA CoreFrame ==
  ASSUME IInv, Facts, Appending, NestedSame, LogFollowsVenue', CaptureFits',
         private.fills <= private'.fills,
         private.stage \in ClosingStages =>
           /\ private'.stage \in ClosingStages
           /\ private'.capture = private.capture
           /\ private'.fills = private.fills
  PROVE  WorldGrows /\ Facts'
<1>1. UNCHANGED <<action, order, stops, flattens, short, wire>>
  BY DEF Appending, venueVars
<1>2. order.filled \in Nat
  BY Numbers DEF OrderType
<1>3. WorldGrows
  BY <1>1, <1>2 DEF WorldGrows, NestedSame, StopUntouched, FlattenEnded
<1>4. OrderFits' /\ SwapFits' /\ CancelFits' /\ GenerationsEnd'
  BY <1>1 DEF Facts, NestedSame, StopUntouched, OrderFits, OrderEnded, SwapFits, CancelFits,
              Cancelable, GenerationsEnd, FlattenEnded
<1> QED
  BY <1>3, <1>4 DEF Facts

\* A stage is appended that is not the capture; the reconciliation of the balance needs a
\* capture that agrees.
LEMMA StageGrows ==
  ASSUME IInv, Facts, Appending, NEW type \in MainStages \ {"RECONCILIATION_INPUTS_CAPTURED"},
         AppendStage(type),
         type = "POSITION_BALANCE_RECONCILED" => Agreed
  PROVE  WorldGrows /\ Facts'
<1>1. /\ private.stage \in After(type)
      /\ private' = [private EXCEPT !.stage = type]
  BY DEF AppendStage
<1>2. /\ private'.stage = type
      /\ private'.order = private.order
      /\ private'.fills = private.fills
      /\ private'.capture = private.capture
      /\ NestedSame
  BY <1>1 DEF IInv, LogFits, LogTypeOK, NestedSame, StopUntouched
<1>3. UNCHANGED <<action, order>>
  BY DEF Appending, venueVars
<1>4. /\ private.stage \in ClosingStages => type \in ClosingStages
      /\ type \in ClosingStages => private.stage \in ClosingStages
      /\ type = "PROTECTION_RECONCILED_IF_EXPOSED" => private.stage = "POSITION_BALANCE_RECONCILED"
      /\ type = "RECONCILIATION_SUCCEEDED" => private.stage = "PROTECTION_RECONCILED_IF_EXPOSED"
  BY <1>1 DEF After, ClosingStages, MainStages, Unsent, OrderStages, OrderEnds, Closing, Final
<1>5. LogFollowsVenue'
  BY <1>2, <1>3 DEF Facts, LogFollowsVenue, OrderEnded
<1>6. Agreed => Agreed'
  BY <1>2, <1>3 DEF Agreed, FactsHold, VenueAgrees, Perpetual
<1>7. CaptureFits'
  BY <1>2, <1>3, <1>4, <1>6 DEF Facts, CaptureFits, Sampled
<1>8. private.fills <= private'.fills
  BY <1>2, Numbers
<1> QED
  BY <1>2, <1>4, <1>5, <1>7, <1>8, CoreFrame

\* The events before the send.
LEMMA UnsentGrows ==
  ASSUME IInv, Facts, Appending, NEW w \in Runs, NEW old,
         AppendAbsence(old) \/ AppendSuperseded(old, w) \/ AppendPrepared(w)
  PROVE  WorldGrows /\ Facts'
<1>1. CASE AppendAbsence(old)
  BY <1>1, StageGrows DEF AppendAbsence, MainStages, Unsent
<1>2. CASE AppendSuperseded(old, w) \/ AppendPrepared(w)
  <2>1. /\ private.stage \in Unsent
        /\ private'.stage \in Unsent
        /\ private'.order = private.order
        /\ private'.fills = private.fills
        /\ private'.capture = private.capture
        /\ NestedSame
    BY <1>2 DEF AppendSuperseded, AppendPrepared, After, Unsent, IInv, LogFits, LogTypeOK,
                NestedSame, StopUntouched
  <2>2. UNCHANGED <<action, order>>
    BY DEF Appending, venueVars
  <2>3. LogFollowsVenue'
    BY <2>1, <2>2 DEF Facts, LogFollowsVenue, OrderEnded
  <2>4. private'.stage \notin ClosingStages /\ private.stage \notin ClosingStages
    BY <2>1 DEF Unsent, ClosingStages, Closing, Final
  <2>5. CaptureFits'
    BY <2>1, <2>2, <2>4 DEF Facts, CaptureFits, Sampled, ClosingStages, Closing, Final
  <2>6. private.fills <= private'.fills
    BY <2>1, Numbers
  <2> QED
    BY <2>1, <2>3, <2>4, <2>5, <2>6, CoreFrame
<1> QED
  BY <1>1, <1>2

\* An event of the order: a fill that the exchange has, and an end that it has reached.
LEMMA OrderGrows ==
  ASSUME IInv, Facts, Appending, NEW type \in EventTypes, AppendOrder(type),
         type = "FILL_OBSERVED" => private.fills + 1 <= order.filled,
         type \in OrderEnds => OrderEnded,
         type = "ORDER_FILLED" => private.fills = Quantity
  PROVE  /\ WorldGrows /\ Facts'
         /\ private'.fills = IF type = "FILL_OBSERVED" THEN private.fills + 1 ELSE private.fills
<1>0. private.fills \in Nat /\ order.filled \in Nat /\ Quantity \in Nat /\ private.fills <= Quantity
      /\ order.filled <= Quantity
  BY Numbers DEF OrderType
<1>1. /\ private.stage \in After(type)
      /\ private' = [private EXCEPT !.stage = type,
                       !.order = IF type \in OrderEnds \cup {"ORDER_PARTIALLY_FILLED"}
                                   THEN type ELSE @,
                       !.fills = IF type = "FILL_OBSERVED" THEN @ + 1 ELSE @]
  BY DEF AppendOrder
<1>2. /\ private'.stage = type
      /\ private'.order = IF type \in OrderEnds \cup {"ORDER_PARTIALLY_FILLED"}
                            THEN type ELSE private.order
      /\ private'.fills = IF type = "FILL_OBSERVED" THEN private.fills + 1 ELSE private.fills
      /\ private'.capture = private.capture
      /\ NestedSame
  BY <1>1 DEF IInv, LogFits, LogTypeOK, NestedSame, StopUntouched
<1>3. UNCHANGED <<action, order>>
  BY DEF Appending, venueVars
<1>4. private.stage \notin ClosingStages /\ type \notin ClosingStages
  BY <1>1 DEF EventTypes, After, ClosingStages, Closing, Final, OrderStages, OrderEnds
<1>5. LogFollowsVenue'
  <2>1. private'.fills <= order.filled
    BY <1>0, <1>2 DEF Facts, LogFollowsVenue
  <2>2. private'.order \in OrderEnds => OrderEnded
    BY <1>2 DEF Facts, LogFollowsVenue, OrderEnds
  <2>3. private'.order = "ORDER_FILLED" => private'.fills = Quantity
    BY <1>0, <1>2 DEF Facts, LogFollowsVenue, OrderEnds
  <2> QED
    BY <1>3, <2>1, <2>2, <2>3 DEF LogFollowsVenue, OrderEnded
<1>6. CaptureFits'
  BY <1>2, <1>3, <1>4 DEF Facts, CaptureFits, Sampled, ClosingStages, Closing, Final
<1>7. private.fills <= private'.fills
  BY <1>0, <1>2
<1> QED
  BY <1>2, <1>4, <1>5, <1>6, <1>7, CoreFrame

\* The capture.
LEMMA CaptureGrows ==
  ASSUME IInv, Facts, Appending, NEW o, NEW p, NEW i, NEW algos, AppendCapture(o, p, i, algos),
         Sampled(o), o.status # "NONE",
         action = "CLOSE_SHORT" => i = 0,
         action = "SPOT" => algos = {}
  PROVE  /\ WorldGrows /\ Facts'
         /\ private'.stage \in ClosingStages
<1>1. /\ private.stage = "FILLS_FEES_REPLAYED"
      /\ private' = [private EXCEPT !.stage = "RECONCILIATION_INPUTS_CAPTURED",
                       !.capture = [order |-> o, position |-> p, stop |-> i,
                                    algos |-> algos, nested |-> Nested]]
  BY DEF AppendCapture, After
<1>2. /\ private'.stage = "RECONCILIATION_INPUTS_CAPTURED"
      /\ private'.order = private.order
      /\ private'.fills = private.fills
      /\ private'.capture.order = o
      /\ private'.capture.stop = i
      /\ private'.capture.algos = algos
      /\ NestedSame
  BY <1>1 DEF IInv, LogFits, LogTypeOK, NestedSame, StopUntouched
<1>3. UNCHANGED <<action, order>>
  BY DEF Appending, venueVars
<1>4. private.stage \notin ClosingStages /\ private'.stage \in ClosingStages
  BY <1>1, <1>2 DEF ClosingStages, Closing, Final
<1>5. LogFollowsVenue'
  BY <1>2, <1>3 DEF Facts, LogFollowsVenue, OrderEnded
<1>6. CaptureFits'
  BY <1>2, <1>3 DEF CaptureFits, Sampled
<1>7. private.fills <= private'.fills
  BY <1>2, Numbers
<1> QED
  BY <1>2, <1>4, <1>5, <1>6, <1>7, CoreFrame

-----------------------------------------------------------------------------
\* The events of a stop and of its replacement.
StopFrameSame == CoreSame /\ private'.emergency = private.emergency
                          /\ private'.cleanup = private.cleanup

\* An append that touches the stops and the replacement alone.
LEMMA StopFrameGrows ==
  ASSUME IInv, Facts, Appending, StopFrameSame,
         private'.stop.stage = "RECONCILED" => stops[private'.stop.id] # "NONE",
         private'.candidate.stage = "RECONCILED" => stops[private'.candidate.id] # "NONE",
         private'.phase = "CANCEL_SEND_STARTED" => private'.candidate.stage = "RECONCILED",
         private'.phase = "SUCCEEDED" => private'.stop.id = private'.new,
         private.phase # "NONE" => private'.phase # "NONE" /\ private'.new = private.new,
         private.phase \in Cancelling => private'.phase \in Cancelling
  PROVE  WorldGrows /\ Facts'
<1>1. UNCHANGED <<action, stops, wire, flattens>>
  BY DEF Appending, venueVars
<1>2. private.phase \in Cancelling => private.phase # "NONE"
  BY DEF Cancelling
<1>3. SwapFits'
  BY <1>1 DEF Facts, SwapFits, StopFrameSame
<1>4. CancelFits'
  BY <1>1, <1>2 DEF Facts, CancelFits, Cancelable, StopFrameSame
<1>5. GenerationsEnd'
  BY <1>1 DEF Facts, GenerationsEnd, FlattenEnded, StopFrameSame
<1> QED
  BY <1>3, <1>4, <1>5, NestedFrame DEF StopFrameSame

\* A stop is taken over, authorized, or brought one event further.
LEMMA InheritedGrows ==
  ASSUME IInv, Facts, Appending, AppendInherited, stops[0] # "NONE"
  PROVE  WorldGrows /\ Facts'
<1>1. /\ private.stop = NoStop
      /\ private' = [private EXCEPT !.stop = [id |-> 0, stage |-> "RECONCILED",
                                              request |-> Nobody]]
  BY DEF AppendInherited
<1>2. /\ private'.stop.id = 0
      /\ private'.phase = private.phase
      /\ private'.new = private.new
      /\ private'.candidate = private.candidate
      /\ StopFrameSame
  BY <1>1 DEF IInv, LogFits, LogTypeOK, StopFrameSame, CoreSame
<1>3. private.phase = "NONE"
  BY <1>1 DEF IInv, LogFits, StopFits, NoStop
<1> QED
  BY <1>2, <1>3, StopFrameGrows DEF Facts, SwapFits

\* The authorization of a stop, whether the first one or a candidate.
LEMMA StopAuthorizedGrows ==
  ASSUME IInv, Facts, Appending, NEW i \in Ids, AppendStopAuthorized(i)
  PROVE  WorldGrows /\ Facts'
<1> DEFINE made == [id |-> i, stage |-> "AUTHORIZED", request |-> Nobody]
<1>0. made.stage = "AUTHORIZED"
  OBVIOUS
<1>1. CASE private.stop = NoStop /\ private' = [private EXCEPT !.stop = made]
  <2>1. /\ private'.stop = made
        /\ private'.phase = private.phase
        /\ private'.new = private.new
        /\ private'.candidate = private.candidate
        /\ StopFrameSame
    BY <1>1 DEF IInv, LogFits, LogTypeOK, StopFrameSame, CoreSame
  <2>2. private.phase = "NONE"
    BY <1>1 DEF IInv, LogFits, StopFits, NoStop
  <2> QED
    BY <1>0, <2>1, <2>2, StopFrameGrows DEF Facts, SwapFits
<1>2. CASE private.phase = "STARTED" /\ private' = [private EXCEPT !.candidate = made]
  <2>1. /\ private'.stop = private.stop
        /\ private'.phase = private.phase
        /\ private'.new = private.new
        /\ private'.candidate = made
        /\ StopFrameSame
    BY <1>2 DEF IInv, LogFits, LogTypeOK, StopFrameSame, CoreSame
  <2> QED
    BY <1>0, <1>2, <2>1, StopFrameGrows DEF Facts, SwapFits
<1> QED
  BY <1>1, <1>2 DEF AppendStopAuthorized

\* A later event of a stop.
LEMMA StopGrows ==
  ASSUME IInv, Facts, Appending, NEW i \in Ids, NEW after, NEW stage, NEW request,
         AppendStop(after, i, stage, request),
         "RECONCILED" \notin after,
         stage = "RECONCILED" => stops[i] # "NONE"
  PROVE  WorldGrows /\ Facts'
<1> DEFINE made == [id |-> i, stage |-> stage, request |-> request]
<1>0. made.stage = stage /\ made.id = i
  OBVIOUS
<1>1. CASE /\ private.stop.stage \in after
           /\ private.stop.id = i
           /\ private' = [private EXCEPT !.stop = made]
  <2>1. /\ private'.stop = made
        /\ private'.phase = private.phase
        /\ private'.new = private.new
        /\ private'.candidate = private.candidate
        /\ StopFrameSame
    BY <1>1 DEF IInv, LogFits, LogTypeOK, StopFrameSame, CoreSame
  <2> QED
    BY <1>0, <1>1, <2>1, StopFrameGrows DEF Facts, SwapFits
<1>2. CASE /\ private.candidate.stage \in after
           /\ private.candidate.id = i
           /\ private' = [private EXCEPT !.candidate = made]
  <2>1. /\ private'.stop = private.stop
        /\ private'.phase = private.phase
        /\ private'.new = private.new
        /\ private'.candidate = made
        /\ StopFrameSame
    BY <1>2 DEF IInv, LogFits, LogTypeOK, StopFrameSame, CoreSame
  <2> QED
    BY <1>0, <1>2, <2>1, StopFrameGrows DEF Facts, SwapFits
<1> QED
  BY <1>1, <1>2 DEF AppendStop

\* Every event of a stop that a process appends.
LEMMA StopEventsGrow ==
  ASSUME IInv, Facts, Appending, NEW i \in Ids, NEW w, NEW old,
         \/ AppendStopAbsence(i)
         \/ AppendStopPrepared(i, old, w)
         \/ AppendStopSendStarted(i, w)
         \/ AppendStopAcknowledged(i)
         \/ AppendStopReconciled(i) /\ stops[i] # "NONE"
  PROVE  WorldGrows /\ Facts'
<1>1. CASE AppendStopAbsence(i)
  <2>1. PICK after \in {{"AUTHORIZED"}, {"PREPARED"}} :
          AppendStop(after, i, "ABSENCE_CHECKED", Named(i).request)
    BY <1>1 DEF AppendStopAbsence
  <2> QED
    BY <2>1, StopGrows
<1>2. CASE AppendStopPrepared(i, old, w)
  BY <1>2, StopGrows DEF AppendStopPrepared
<1>3. CASE AppendStopSendStarted(i, w)
  BY <1>3, StopGrows DEF AppendStopSendStarted
<1>4. CASE AppendStopAcknowledged(i)
  BY <1>4, StopGrows DEF AppendStopAcknowledged
<1>5. CASE AppendStopReconciled(i) /\ stops[i] # "NONE"
  BY <1>5, StopGrows DEF AppendStopReconciled
<1> QED
  BY <1>1, <1>2, <1>3, <1>4, <1>5

\* The three events of a replacement.
LEMMA ReplacementGrows ==
  ASSUME IInv, Facts, Appending, NEW i \in Ids,
         \/ AppendReplacementStarted(i)
         \/ AppendCancelSendStarted
         \/ AppendReplacementSucceeded
  PROVE  WorldGrows /\ Facts'
<1>1. CASE AppendReplacementStarted(i)
  <2>1. private.phase = "NONE" /\ private' = [private EXCEPT !.phase = "STARTED", !.new = i]
    BY <1>1 DEF AppendReplacementStarted
  <2>2. /\ private'.stop = private.stop
        /\ private'.phase = "STARTED"
        /\ private'.candidate = private.candidate
        /\ StopFrameSame
    BY <2>1 DEF IInv, LogFits, LogTypeOK, StopFrameSame, CoreSame
  <2> QED
    BY <2>1, <2>2, StopFrameGrows DEF Facts, SwapFits, Cancelling
<1>2. CASE AppendCancelSendStarted
  <2>1. /\ private.candidate.stage = "RECONCILED"
        /\ private.phase = "STARTED"
        /\ private' = [private EXCEPT !.phase = "CANCEL_SEND_STARTED"]
    BY <1>2 DEF AppendCancelSendStarted
  <2>2. /\ private'.stop = private.stop
        /\ private'.phase = "CANCEL_SEND_STARTED"
        /\ private'.new = private.new
        /\ private'.candidate = private.candidate
        /\ StopFrameSame
    BY <2>1 DEF IInv, LogFits, LogTypeOK, StopFrameSame, CoreSame
  <2> QED
    BY <2>1, <2>2, StopFrameGrows DEF Facts, SwapFits, Cancelling
<1>3. CASE AppendReplacementSucceeded
  <2>1. /\ private.candidate.stage = "RECONCILED"
        /\ private.phase = "CANCEL_SEND_STARTED"
        /\ private' = [private EXCEPT !.stop = private.candidate, !.candidate = NoStop,
                                      !.phase = "SUCCEEDED"]
    BY <1>3 DEF AppendReplacementSucceeded
  <2>2. /\ private'.stop = private.candidate
        /\ private'.phase = "SUCCEEDED"
        /\ private'.new = private.new
        /\ private'.candidate = NoStop
        /\ StopFrameSame
    BY <2>1 DEF IInv, LogFits, LogTypeOK, StopFrameSame, CoreSame
  <2>3. private.candidate.id = private.new /\ NoStop.stage = "NONE"
    BY <2>1 DEF IInv, LogFits, StopFits, NoStop
  <2> QED
    BY <2>1, <2>2, <2>3, StopFrameGrows DEF Facts, SwapFits, Cancelling
<1> QED
  BY <1>1, <1>2, <1>3

\* The events of the cleanup; from the first one on there is nothing more to keep of the stops.
LEMMA CleanupGrows ==
  ASSUME IInv, Facts, Appending, NEW i, NEW w, NEW old,
         \/ AppendCleanupAuthorized(i)
         \/ AppendCleanupPrepared(i, old, w)
         \/ AppendCleanupSendStarted(i, old)
         \/ AppendCleanupReconciled(i)
  PROVE  WorldGrows /\ Facts' /\ private'.cleanup.stage # "NONE"
<1> DEFINE Kept == /\ CoreSame /\ StopUntouched /\ private'.emergency = private.emergency
                   /\ private'.cleanup.stage # "NONE"
                   /\ action = "CLOSE_SHORT"
<1>1. Kept
  <2>1. CASE AppendCleanupAuthorized(i)
    BY <2>1 DEF AppendCleanupAuthorized, IInv, LogFits, LogTypeOK, CoreSame, StopUntouched
  <2>2. CASE AppendCleanupPrepared(i, old, w)
    <3>1. private.cleanup.stage # "NONE"
      BY <2>2 DEF AppendCleanupPrepared
    <3> QED
      BY <2>2, <3>1 DEF AppendCleanupPrepared, IInv, LogFits, LogTypeOK, CoreSame, StopUntouched,
                        StopType, Facts, SwapFits
  <2>3. ASSUME NEW after, NEW stage, "NONE" \notin after, stage # "NONE",
               AppendCleanup(after, i, stage)
        PROVE  Kept
    BY <2>3 DEF AppendCleanup, IInv, LogFits, LogTypeOK, CoreSame, StopUntouched, StopType,
                Facts, SwapFits
  <2> QED
    BY <2>1, <2>2, <2>3 DEF AppendCleanupSendStarted, AppendCleanupReconciled
<1>2. UNCHANGED <<action, stops, wire, flattens>>
  BY DEF Appending, venueVars
<1>3. private'.cleanup # NoCleanup
  BY <1>1 DEF NoCleanup
<1>4. SwapFits' /\ CancelFits'
  BY <1>1, <1>2, <1>3 DEF Facts, SwapFits, CancelFits, StopUntouched
<1>5. GenerationsEnd'
  BY <1>1, <1>2 DEF Facts, GenerationsEnd, FlattenEnded
<1> QED
  BY <1>1, <1>4, <1>5, NestedFrame DEF StopUntouched

\* The events of the flatten.
LEMMA FlattenFrameGrows ==
  ASSUME IInv, Facts, Appending, CoreSame, StopUntouched, private'.cleanup = private.cleanup,
         GenerationsEnd'
  PROVE  WorldGrows /\ Facts'
<1>1. UNCHANGED <<action, stops, wire>>
  BY DEF Appending, venueVars
<1>2. SwapFits' /\ CancelFits'
  BY <1>1 DEF Facts, SwapFits, CancelFits, StopUntouched, Cancelable
<1> QED
  BY <1>2, NestedFrame DEF StopUntouched

\* Every event of the flatten.
LEMMA FlattenGrows ==
  ASSUME IInv, Facts, Appending, NEW after, NEW g, NEW stage, NEW w \in Runs, NEW old,
         NEW q \in Ids,
         \/ AppendFlatten(after, g, stage)
         \/ AppendFlattenAuthorized(q)
         \/ AppendFlattenPrepared(old, w)
         \/ AppendFlattenSendStarted(w)
         \/ AppendRemainder(g, q) /\ FlattenEnded(g)
  PROVE  WorldGrows /\ Facts'
<1>1. UNCHANGED <<action, flattens>>
  BY DEF Appending, venueVars
<1>2. MaxGenerations \in Nat /\ private.emergency.generation \in 0..MaxGenerations
  BY LogAssumption DEF IInv, LogFits, LogTypeOK, FlattenType
<1>3. ASSUME NEW e, private' = [private EXCEPT !.emergency = e],
             \A k \in Generations : k < e.generation =>
               k < private.emergency.generation \/ FlattenEnded(k)
      PROVE  WorldGrows /\ Facts'
  <2>1. /\ CoreSame /\ StopUntouched /\ private'.cleanup = private.cleanup
        /\ private'.emergency = e
    BY <1>3 DEF IInv, LogFits, LogTypeOK, CoreSame, StopUntouched
  <2>2. GenerationsEnd'
    BY <1>1, <1>3, <2>1 DEF Facts, GenerationsEnd, FlattenEnded
  <2> QED
    BY <2>1, <2>2, FlattenFrameGrows
<1>4. \A a, n, s : AppendFlatten(a, n, s) => WorldGrows /\ Facts'
  <2> SUFFICES ASSUME NEW a, NEW n, NEW s, AppendFlatten(a, n, s) PROVE WorldGrows /\ Facts'
    OBVIOUS
  <2>1. PICK e : /\ private' = [private EXCEPT !.emergency = e]
                 /\ e = [private.emergency EXCEPT !.stage = s]
    BY DEF AppendFlatten, IInv, LogFits, LogTypeOK
  <2>2. e.generation = private.emergency.generation
    BY <2>1 DEF IInv, LogFits, LogTypeOK, FlattenType
  <2> QED
    BY <1>3, <2>1, <2>2
<1>5. CASE AppendFlattenAuthorized(q)
  BY <1>3, <1>5 DEF AppendFlattenAuthorized, Generations
<1>6. CASE AppendFlattenPrepared(old, w)
  <2>1. PICK e : /\ private' = [private EXCEPT !.emergency = e]
                 /\ e = [private.emergency EXCEPT !.stage = "PREPARED", !.request = w]
    BY <1>6 DEF AppendFlattenPrepared, IInv, LogFits, LogTypeOK, FlattenType
  <2>2. e.generation = private.emergency.generation
    BY <2>1 DEF IInv, LogFits, LogTypeOK, FlattenType
  <2> QED
    BY <1>3, <2>1, <2>2
<1>7. CASE AppendFlattenSendStarted(w)
  BY <1>4, <1>7 DEF AppendFlattenSendStarted
<1>8. CASE AppendRemainder(g, q) /\ FlattenEnded(g)
  <2>1. PICK e : /\ private' = [private EXCEPT !.emergency = e]
                 /\ e.generation = g + 1
                 /\ private.emergency.generation = g
    BY <1>8 DEF AppendRemainder
  <2>2. \A k \in Generations : k < e.generation => k < g \/ k = g
    BY <1>2, <2>1 DEF Generations
  <2> QED
    BY <1>3, <1>8, <2>1, <2>2
<1> QED
  BY <1>4, <1>5, <1>6, <1>7, <1>8

-----------------------------------------------------------------------------
(* The processes move. *)

\* A step that keeps the facts keeps the invariant, if the process knows after it what it should.
LEMMA KeepsAfter ==
  ASSUME IInv, IInv', JInv, WorldGrows, Facts', NEW w \in Runs, NEW l, Know(w, l),
         Knows(l)', Due(l)'
  PROVE  JInv'
<1>1. /\ local'[w] = l
      /\ \A v \in Runs \ {w} : local'[v] = local[v]
  BY DEF Know, IInv, LocalFits
<1>2. ASSUME NEW m, Safe(m), Knows(m), Due(m)
      PROVE  Knows(m)' /\ Due(m)'
  BY <1>2, KnowsStays, DueStays DEF Safe
<1>3. ASSUME NEW v \in Runs
      PROVE  Knows(local[v])' /\ Due(local[v])'
  <2>1. PICK m : m = local'[v]
    OBVIOUS
  <2>2. Knows(m)' /\ Due(m)'
    <3>1. CASE v = w
      BY <1>1, <2>1, <3>1
    <3>2. CASE v # w
      <4>1. m = local[v]
        BY <1>1, <2>1, <3>2
      <4>2. Safe(m) /\ Knows(m) /\ Due(m)
        BY <4>1 DEF JInv, IInv, LocalFits
      <4> QED
        BY <1>2, <4>2
    <3> QED
      BY <3>1, <3>2
  <2> QED
    BY <2>1, <2>2
<1> QED
  BY <1>3 DEF JInv

\* It does, if it would before the step already.
LEMMA KeepsBefore ==
  ASSUME IInv, IInv', JInv, WorldGrows, Facts', NEW w \in Runs, NEW l, Know(w, l), Safe(l),
         Knows(l), Due(l)
  PROVE  JInv'
BY KnowsStays, DueStays, KeepsAfter DEF Safe

\* A step of the exchange alone.
LEMMA KeepsAlone ==
  ASSUME IInv, IInv', JInv, WorldGrows, Facts', local' = local
  PROVE  JInv'
<1>1. ASSUME NEW v \in Runs
      PROVE  Knows(local[v])' /\ Due(local[v])'
  <2>1. PICK m : m = local[v]
    OBVIOUS
  <2>2. Safe(m) /\ Knows(m) /\ Due(m)
    BY <2>1 DEF JInv, IInv, LocalFits
  <2>3. Knows(m)' /\ Due(m)'
    BY <2>2, KnowsStays, DueStays DEF Safe
  <2> QED
    BY <2>1, <2>3
<1> QED
  BY <1>1 DEF JInv

\* A query changes nothing that the facts are about.
LEMMA QueryGrows ==
  ASSUME IInv, Facts, UNCHANGED <<action, private, venueVars>>
  PROVE  WorldGrows /\ Facts'
<1>1. CoreSame /\ NestedSame
  BY DEF CoreSame, NestedSame, StopUntouched
<1>2. private.fills <= private'.fills /\ UNCHANGED <<action, order, private>>
  BY Numbers DEF venueVars
<1>3. LogFollowsVenue' /\ CaptureFits'
  BY <1>2 DEF Facts, LogFollowsVenue, OrderEnded, CaptureFits, Sampled, Agreed, FactsHold,
              VenueAgrees, Perpetual
<1> QED
  BY <1>1, <1>2, <1>3, CoreFrame DEF CoreSame, Appending

-----------------------------------------------------------------------------
\* A process keeps what it knows, or forgets it, and comes to a place with nothing due.
Light(k, l) ==
    /\ l.order \in {k.order, NoOrder}
    /\ l.fills \in {k.fills, 0}
    /\ l.algos \in {k.algos, {}}
    /\ l.pc \notin DuePCs

LightMove(w) == \E l : Know(w, l) /\ Light(local[w], l)

\* After a light move the process knows no more than before, and nothing is due.
LEMMA LightKnows ==
  ASSUME IInv, JInv, NEW w \in Runs, NEW l, Light(local[w], l)
  PROVE  Knows(l) /\ Due(l)
<1>1. Sampled(NoOrder) /\ 0 <= private.fills
  BY Numbers DEF Sampled, NoOrder, OrderType
<1>2. Knows(local[w])
  BY DEF JInv
<1>3. Knows(l)
  BY <1>1, <1>2 DEF Light, Knows
<1>4. Due(l)
  BY DEF Light, Due, DuePCs, SeenPCs, SamplePCs
<1> QED
  BY <1>3, <1>4

\* A light move in a world that grows keeps the invariant.
LEMMA LightKeeps ==
  ASSUME IInv, IInv', JInv, NEW w \in Runs, LightMove(w), WorldGrows, Facts'
  PROVE  JInv'
<1>1. PICK l : Know(w, l) /\ Light(local[w], l)
  BY DEF LightMove
<1>2. Safe(l)
  BY <1>1 DEF Know, IInv, LocalFits
<1> QED
  BY <1>1, <1>2, LightKnows, KeepsBefore

\* The moves that are light: a process that forgets what it saw,
LEMMA IdleLight ==
  ASSUME IInv, NEW w \in Runs, NEW l, Know(w, l), l.pc \notin DuePCs,
         l.order = NoOrder, l.fills = 0, l.algos = {}
  PROVE  LightMove(w)
BY DEF LightMove, Light

\* leaves,
LEMMA LeaveLight ==
  ASSUME IInv, NEW w \in Runs, Leave(w)
  PROVE  LightMove(w)
BY IdleLight DEF Leave, Idle, DuePCs, SeenPCs, SamplePCs

\* keeps what it saw,
LEMMA SameLight ==
  ASSUME IInv, NEW w \in Runs, NEW l, Know(w, l), l.pc \notin DuePCs,
         l.order = local[w].order, l.fills = local[w].fills, l.algos = local[w].algos
  PROVE  LightMove(w)
BY DEF LightMove, Light

\* goes to another place,
LEMMA GotoLight ==
  ASSUME IInv, NEW w \in Runs, NEW pc \in PCs \ DuePCs, Goto(w, pc)
  PROVE  LightMove(w)
<1>1. PICK l : Know(w, l) /\ l = [local[w] EXCEPT !.pc = pc]
  BY DEF Goto
<1>2. /\ l.pc = pc /\ l.order = local[w].order /\ l.fills = local[w].fills
      /\ l.algos = local[w].algos
  BY <1>1, Numbers DEF LocalType
<1> QED
  BY <1>1, <1>2, SameLight

\* or gives up on a stop.
LEMMA UnprotectedLight ==
  ASSUME IInv, NEW w \in Runs, Unprotected(w)
  PROVE  LightMove(w)
<1>1. CASE Leave(w)
  BY <1>1, LeaveLight
<1>2. CASE Know(w, [Idle EXCEPT !.pc = "flatten", !.position = local[w].position])
  BY <1>2, IdleLight DEF Idle, DuePCs, SeenPCs, SamplePCs
<1> QED
  BY <1>1, <1>2 DEF Unprotected

\* A query after which the process knows what it should.
LEMMA QueryKeeps ==
  ASSUME IInv, IInv', JInv, Query, NEW w \in Runs, NEW l, Know(w, l), Knows(l), Due(l)
  PROVE  JInv'
<1>1. WorldGrows /\ Facts'
  BY QueryGrows DEF Query, JInv
<1>2. Safe(l)
  BY DEF Know, IInv, LocalFits
<1> QED
  BY <1>1, <1>2, KeepsBefore

\* A query followed by a light move keeps the invariant.
LEMMA QueryLight ==
  ASSUME IInv, IInv', JInv, Query, NEW w \in Runs, LightMove(w)
  PROVE  JInv'
BY QueryGrows, LightKeeps DEF Query, JInv

-----------------------------------------------------------------------------
(* The steps. *)

\* The places at which nothing is due.
LEMMA EasyPCs ==
  /\ PCs \ DuePCs = {"idle", "query_absent", "absence", "supersede", "prepare", "send_started",
        "send", "record_unknown", "query_order", "ensure", "inherit", "stop_verify",
        "stop_authorize", "stop_query", "stop_absence", "stop_prepare", "stop_send_started",
        "stop_send", "stop_observe", "swap_verify", "swap_check", "swap_done", "flatten",
        "flatten_query", "flatten_absence", "flatten_prepare", "flatten_send_started",
        "flatten_send", "flatten_unknown", "flatten_observe", "flatten_reconcile", "cleanup",
        "cleanup_next", "cleanup_query", "cleanup_prepare", "cleanup_send_started",
        "cleanup_check", "cleanup_reconcile", "protection", "succeed"}
BY DEF PCs, DuePCs, SeenPCs, SamplePCs

\* The queries that leave nothing due.
LEMMA LightQueries ==
  ASSUME IInv, IInv', JInv, NEW w \in Runs,
         \/ ProveAbsent(w) \/ Stop(w) \/ VerifyStop(w) \/ ProveStopAbsent(w) \/ CheckOld(w)
         \/ QueryFlatten(w) \/ QueryCleanup(w) \/ CheckCleanup(w)
  PROVE  JInv'
<1>1. LightMove(w)
  BY GotoLight, LeaveLight, UnprotectedLight, EasyPCs
  DEF ProveAbsent, Stop, VerifyStop, ProveStopAbsent, CheckOld, QueryFlatten, QueryCleanup,
      CheckCleanup
<1> QED
  BY <1>1, QueryLight
  DEF ProveAbsent, Stop, VerifyStop, ProveStopAbsent, CheckOld, QueryFlatten, QueryCleanup,
      CheckCleanup

\* The events of the order's stages that leave nothing due.
LEMMA LightStages ==
  ASSUME IInv, IInv', JInv, NEW w \in Runs,
         \/ Authorize(w) \/ RecordAbsence(w) \/ Supersede(w) \/ Prepare(w) \/ StartSend(w)
         \/ RecordUnknown(w) \/ RecordProtection(w) \/ Succeed(w)
  PROVE  JInv'
<1>0. Facts
  BY DEF JInv
<1>1. CASE Authorize(w) \/ StartSend(w) \/ RecordUnknown(w) \/ RecordProtection(w) \/ Succeed(w)
  <2>1. LightMove(w)
    BY <1>1, GotoLight, LeaveLight, EasyPCs
    DEF Authorize, StartSend, RecordUnknown, RecordProtection, Succeed
  <2>2. WorldGrows /\ Facts'
    BY <1>0, <1>1, StageGrows
    DEF Authorize, StartSend, RecordUnknown, RecordProtection, Succeed, MainStages, Unsent,
        Closing, Final
  <2> QED
    BY <2>1, <2>2, LightKeeps
<1>2. CASE RecordAbsence(w) \/ Supersede(w) \/ Prepare(w)
  <2>1. LightMove(w)
    <3>1. CASE RecordAbsence(w) \/ Supersede(w)
      BY <3>1, GotoLight, EasyPCs DEF RecordAbsence, Supersede
    <3>2. CASE Prepare(w)
      BY <3>2, IdleLight DEF Prepare, Idle, DuePCs, SeenPCs, SamplePCs
    <3> QED
      BY <1>2, <3>1, <3>2
  <2>2. WorldGrows /\ Facts'
    BY <1>0, <1>2, UnsentGrows DEF RecordAbsence, Supersede, Prepare
  <2> QED
    BY <2>1, <2>2, LightKeeps
<1> QED
  BY <1>1, <1>2

\* The requests that leave nothing due.
LEMMA LightSends ==
  ASSUME IInv, IInv', JInv, NEW w \in Runs,
         Send(w) \/ SendStop(w) \/ SendFlatten(w) \/ CancelOld(w) \/ SendCleanup(w)
  PROVE  JInv'
<1>1. LightMove(w)
  BY GotoLight, LeaveLight, UnprotectedLight, EasyPCs
  DEF Send, SendStop, SendFlatten, CancelOld, SendCleanup
<1>2. PICK l : l = local[w]
  OBVIOUS
<1>3. /\ l.pc \in PCs /\ l.id \in Ids /\ l.gone \in Ids /\ l.quantity \in Ids
      /\ (l.pc = "flatten_send" => l.generation \in Generations)
      /\ Due(l)
  BY <1>2, LocalTyped DEF LocalType, FlattenPCs, JInv
<1>4. PICK r \in Requests : /\ Harmless(r)
                            /\ Acknowledged(r) \/ Unanswered(r) \/ Refused(r)
  <2>0. /\ 0 \in Nat /\ 0 \in Ids /\ Quantity \in Ids /\ Ids = 0..Quantity /\ Ids \subseteq Nat
        /\ Generations \subseteq Nat
    BY LogAssumption DEF Ids, Generations
  <2>1. CASE Send(w)
    <3>1. PICK r : r = Ask("order", 0, Quantity)
      OBVIOUS
    <3>2. r \in Requests /\ Harmless(r)
      BY <2>0, <3>1 DEF Ask, Requests, Harmless
    <3> QED
      BY <2>1, <3>1, <3>2 DEF Send
  <2>2. CASE SendStop(w)
    <3>1. PICK r : r = Ask("stop", l.id, l.id)
      OBVIOUS
    <3>2. r \in Requests /\ Harmless(r)
      BY <1>3, <2>0, <3>1 DEF Ask, Requests, Harmless
    <3> QED
      BY <1>2, <2>2, <3>1, <3>2 DEF SendStop
  <2>3. CASE SendFlatten(w)
    <3>1. PICK r : r = Ask("flatten", l.generation, l.quantity)
      OBVIOUS
    <3>2. l.generation \in Generations
      BY <1>2, <1>3, <2>3 DEF SendFlatten, At
    <3>3. r \in Requests /\ Harmless(r)
      BY <1>3, <2>0, <3>1, <3>2 DEF Ask, Requests, Harmless
    <3> QED
      BY <1>2, <2>3, <3>1, <3>3 DEF SendFlatten
  <2>4. CASE CancelOld(w)
    <3>1. PICK r : r = Ask("cancel", l.gone, 0)
      OBVIOUS
    <3>2. Cancelable(l.gone)
      BY <1>2, <1>3, <2>4 DEF CancelOld, At, Due
    <3>3. r \in Requests /\ Harmless(r)
      BY <1>3, <2>0, <3>1, <3>2 DEF Ask, Requests, Harmless
    <3> QED
      BY <1>2, <2>4, <3>1, <3>3 DEF CancelOld
  <2>5. CASE SendCleanup(w)
    <3>1. PICK r : r = Ask("cancel", l.id, 0)
      OBVIOUS
    <3>2. private.cleanup # NoCleanup
      BY <1>2, <1>3, <2>5 DEF SendCleanup, At, Due, NoCleanup
    <3>3. r \in Requests /\ Harmless(r)
      BY <1>3, <2>0, <3>1, <3>2 DEF Ask, Requests, Harmless
    <3> QED
      BY <1>2, <2>5, <3>1, <3>3 DEF SendCleanup
  <2> QED
    BY <2>1, <2>2, <2>3, <2>4, <2>5
<1>5. WorldGrows /\ Facts'
  BY <1>4, SendGrows
  DEF JInv, Send, SendStop, SendFlatten, CancelOld, SendCleanup
<1> QED
  BY <1>1, <1>5, LightKeeps

\* The events of a stop and of its replacement that leave nothing due.
LEMMA LightStops ==
  ASSUME IInv, IInv', JInv, NEW w \in Runs,
         \/ Inherit(w) \/ AuthorizeStop(w) \/ RecordStopAbsence(w) \/ PrepareStop(w)
         \/ StartStop(w) \/ ReconcileStop(w) \/ FinishReplacement(w)
  PROVE  JInv'
<1>0. Facts /\ local[w] \in LocalType /\ local[w].id \in Ids /\ Due(local[w])
  BY Numbers DEF JInv, LocalType
<1>1. LightMove(w)
  <2>1. CASE Inherit(w) \/ AuthorizeStop(w) \/ RecordStopAbsence(w) \/ StartStop(w)
             \/ FinishReplacement(w)
    BY <2>1, GotoLight, LeaveLight, EasyPCs
    DEF Inherit, AuthorizeStop, RecordStopAbsence, StartStop, FinishReplacement
  <2>2. CASE PrepareStop(w)
    <3>1. PICK l : /\ Know(w, l)
                   /\ l = [local[w] EXCEPT !.pc = "stop_send_started", !.old = Nobody]
      BY <2>2 DEF PrepareStop
    <3>2. /\ l.pc = "stop_send_started" /\ l.order = local[w].order
          /\ l.fills = local[w].fills /\ l.algos = local[w].algos
      BY <1>0, <3>1 DEF LocalType
    <3> QED
      BY <3>1, <3>2, SameLight, EasyPCs DEF PCs
  <2>3. CASE ReconcileStop(w)
    <3>1. CASE Leave(w)
      BY <3>1, LeaveLight
    <3>2. CASE Know(w, [local[w] EXCEPT !.pc = "swap_verify", !.status = "NONE"])
      <4>1. PICK l : Know(w, l) /\ l = [local[w] EXCEPT !.pc = "swap_verify", !.status = "NONE"]
        BY <3>2
      <4>2. /\ l.pc = "swap_verify" /\ l.order = local[w].order
            /\ l.fills = local[w].fills /\ l.algos = local[w].algos
        BY <1>0, <4>1 DEF LocalType
      <4> QED
        BY <4>1, <4>2, SameLight, EasyPCs DEF PCs
    <3> QED
      BY <2>3, <3>1, <3>2 DEF ReconcileStop
  <2> QED
    BY <2>1, <2>2, <2>3
<1>2. WorldGrows /\ Facts'
  <2>1. CASE Inherit(w)
    <3>1. stops[0] # "NONE"
      BY <1>0, <2>1 DEF Inherit, At, Due
    <3> QED
      BY <1>0, <2>1, <3>1, InheritedGrows DEF Inherit
  <2>2. CASE AuthorizeStop(w)
    BY <1>0, <2>2, StopAuthorizedGrows DEF AuthorizeStop
  <2>3. CASE RecordStopAbsence(w) \/ PrepareStop(w) \/ StartStop(w)
    BY <1>0, <2>3, StopEventsGrow DEF RecordStopAbsence, PrepareStop, StartStop
  <2>4. CASE ReconcileStop(w)
    <3>1. stops[local[w].id] # "NONE"
      BY <1>0, <2>4 DEF ReconcileStop, At, Due
    <3> QED
      BY <1>0, <2>4, <3>1, StopEventsGrow DEF ReconcileStop
  <2>5. CASE FinishReplacement(w)
    BY <1>0, <2>5, ReplacementGrows DEF FinishReplacement
  <2> QED
    BY <2>1, <2>2, <2>3, <2>4, <2>5
<1> QED
  BY <1>1, <1>2, LightKeeps

\* The events of the flatten.
LEMMA LightFlattens ==
  ASSUME IInv, IInv', JInv, NEW w \in Runs,
         \/ Flatten(w) \/ RecordFlattenAbsence(w) \/ PrepareFlatten(w) \/ StartFlatten(w)
         \/ RecordFlattenUnknown(w) \/ ReconcileFlatten(w) \/ AuthorizeRemainder(w)
  PROVE  JInv'
<1>0. /\ Facts /\ local[w] \in LocalType /\ local[w].position \in Ids /\ Due(local[w])
      /\ 0 \in Ids
  BY Numbers, LogAssumption DEF JInv, LocalType, Ids
<1>1. CASE Flatten(w)
  <2>1. CASE AppendFlattenAuthorized(local[w].position)
             /\ Know(w, [local[w] EXCEPT !.generation = 1])
    <3>1. PICK l : Know(w, l) /\ l = [local[w] EXCEPT !.generation = 1]
      BY <2>1
    <3>2. /\ l.pc = "flatten" /\ l.order = local[w].order
          /\ l.fills = local[w].fills /\ l.algos = local[w].algos
      BY <1>0, <1>1, <3>1 DEF LocalType, Flatten, At
    <3>3. LightMove(w)
      BY <3>1, <3>2, SameLight, EasyPCs DEF PCs
    <3>4. WorldGrows /\ Facts'
      BY <1>0, <1>1, <2>1, FlattenGrows DEF Flatten
    <3> QED
      BY <3>3, <3>4, LightKeeps
  <2>2. CASE Leave(w) /\ UNCHANGED private
    BY <1>1, <2>2, LeaveLight, QueryLight DEF Flatten, Appending, Query
  <2>3. CASE /\ UNCHANGED private
             /\ \E pc \in {"flatten_query", "flatten_observe"} :
                  Know(w, [Idle EXCEPT !.generation = private.emergency.generation,
                             !.quantity = private.emergency.quantity,
                             !.old = private.emergency.request, !.pc = pc])
    <3>1. PICK pc \in {"flatten_query", "flatten_observe"} :
            Know(w, [Idle EXCEPT !.generation = private.emergency.generation,
                       !.quantity = private.emergency.quantity,
                       !.old = private.emergency.request, !.pc = pc])
      BY <2>3
    <3>2. PICK l :
            /\ Know(w, l)
            /\ l = [Idle EXCEPT !.generation = private.emergency.generation,
                      !.quantity = private.emergency.quantity,
                      !.old = private.emergency.request, !.pc = pc]
      BY <3>1
    <3>3. l.pc = pc /\ l.order = NoOrder /\ l.fills = 0 /\ l.algos = {}
      BY <3>2 DEF Idle
    <3>4. LightMove(w)
      BY <3>1, <3>2, <3>3, IdleLight DEF DuePCs, SeenPCs, SamplePCs
    <3> QED
      BY <1>1, <2>3, <3>4, QueryLight DEF Flatten, Appending, Query
  <2> QED
    BY <1>1, <2>1, <2>2, <2>3 DEF Flatten
<1>2. CASE RecordFlattenAbsence(w) \/ PrepareFlatten(w) \/ StartFlatten(w)
           \/ RecordFlattenUnknown(w) \/ ReconcileFlatten(w) \/ AuthorizeRemainder(w)
  <2>1. LightMove(w)
    BY <1>2, GotoLight, LeaveLight, EasyPCs
    DEF RecordFlattenAbsence, PrepareFlatten, StartFlatten, RecordFlattenUnknown,
        ReconcileFlatten, AuthorizeRemainder
  <2>2. AuthorizeRemainder(w) => FlattenEnded(local[w].generation)
    BY <1>0 DEF AuthorizeRemainder, At, Due
  <2>3. WorldGrows /\ Facts'
    BY <1>0, <1>2, <2>2, FlattenGrows
    DEF RecordFlattenAbsence, PrepareFlatten, StartFlatten, RecordFlattenUnknown,
        ReconcileFlatten, AuthorizeRemainder
  <2> QED
    BY <2>1, <2>3, LightKeeps
<1> QED
  BY <1>1, <1>2

-----------------------------------------------------------------------------
\* What a process knows when it turns to another place.
LEMMA Mind ==
  ASSUME IInv, JInv, NEW w \in Runs
  PROVE  /\ local[w] \in LocalType /\ Knows(local[w]) /\ Due(local[w])
         /\ Sampled(NoOrder) /\ 0 <= private.fills
BY Numbers DEF JInv, Sampled, NoOrder, OrderType

\* A place with one thing due.
LEMMA DueAt ==
  ASSUME NEW l, l.pc \notin {"apply", "stop_position"} \cup SeenPCs \cup SamplePCs,
         l.pc \in {"reconcile", "balance"} => private.stage \in ClosingStages,
         l.pc = "balance" => Agreed,
         l.pc = "swap_start" => private.phase # "NONE" /\ l.gone # private.new,
         l.pc = "swap_cancel" => Cancelable(l.gone),
         l.pc = "cleanup_send" => private.cleanup.stage # "NONE",
         l.pc = "inherited" => stops[0] # "NONE",
         l.pc \in {"stop_acknowledge", "stop_reconcile"} => stops[l.id] # "NONE",
         l.pc = "flatten_position" => l.status = "NEW" \/ FlattenEnded(l.generation),
         l.pc = "flatten_remainder" => FlattenEnded(l.generation)
  PROVE  Due(l)
BY DEF Due, SeenPCs, SamplePCs

-----------------------------------------------------------------------------
\* The work on a stop is taken up.
LEMMA ResumeStopKeeps ==
  ASSUME IInv, IInv', JInv, Query, NEW w \in Runs, NEW k \in LocalType, NEW i,
         ResumeStop(w, k, i), Knows(k),
         Replacing \/ action = "OPEN_SHORT"
  PROVE  JInv'
<1> DEFINE pc == IF k.guarded \/ StopStep = "sample_order" THEN StopStep ELSE "stop_position"
           next == IF k.guarded \/ StopStep = "sample_order" THEN "idle" ELSE StopStep
           old == IF StopStep = "stop_query"
                    THEN (IF Replacing THEN private.candidate ELSE private.stop).request
                    ELSE Nobody
<1>1. PICK l : Know(w, l) /\ l = [k EXCEPT !.pc = pc, !.next = next, !.id = i, !.old = old]
  BY DEF ResumeStop
<1>2. StopStep \in {"swap_verify", "stop_query", "stop_observe", "sample_order"}
  BY DEF ResumeStop, StopStep
<1>3. /\ l.pc = pc /\ l.next = next /\ l.id = i
      /\ l.order = k.order /\ l.fills = k.fills /\ l.algos = k.algos
  BY <1>1 DEF LocalType
<1>4. Knows(l)
  BY <1>3 DEF Knows
<1>5. StopStep = "sample_order" => ~Replacing
  BY DEF StopStep
<1>6. Due(l)
  BY <1>2, <1>3, <1>5 DEF Due, SeenPCs, SamplePCs, Perpetual
<1> QED
  BY <1>1, <1>4, <1>6, QueryKeeps

\* A launch.
LEMMA LaunchKeeps ==
  ASSUME IInv, IInv', JInv, NEW w \in Runs, Launch(w)
  PROVE  JInv'
<1>0. Query
  BY DEF Launch
<1>1. CASE Know(w, [Idle EXCEPT !.pc = "query_absent", !.old = private.request])
  <2>1. LightMove(w)
    BY <1>1, IdleLight DEF Idle, DuePCs, SeenPCs, SamplePCs
  <2> QED
    BY <1>0, <2>1, QueryLight
<1>2. CASE \E pc \in {"query_order", "cleanup", "protection"} : Goto(w, pc)
  <2>1. LightMove(w)
    BY <1>2, GotoLight, EasyPCs
  <2> QED
    BY <1>0, <2>1, QueryLight
<1>3. CASE private.stage = "RECONCILIATION_INPUTS_CAPTURED" /\ Goto(w, "reconcile")
  <2>1. PICK l : Know(w, l) /\ l = [local[w] EXCEPT !.pc = "reconcile"]
    BY <1>3 DEF Goto
  <2>2. /\ l.pc = "reconcile" /\ l.order = local[w].order
        /\ l.fills = local[w].fills /\ l.algos = local[w].algos
    BY <2>1, Mind DEF LocalType
  <2>3. Knows(l)
    BY <2>2, Mind DEF Knows
  <2>4. Due(l)
    BY <1>3, <2>2, DueAt DEF SeenPCs, SamplePCs, ClosingStages, Closing
  <2> QED
    BY <1>0, <2>1, <2>3, <2>4, QueryKeeps
<1>4. CASE action = "OPEN_SHORT" /\ ResumeStop(w, Idle, private.fills)
  <2>1. Knows(Idle)
    BY Mind DEF Knows, Idle
  <2> QED
    BY <1>0, <1>4, <2>1, IdleTyped, ResumeStopKeeps
<1> QED
  BY <1>1, <1>2, <1>3, <1>4 DEF Launch, ResumeFills

-----------------------------------------------------------------------------
\* The order and the position are queried.
LEMMA QueryOrderKeeps ==
  ASSUME IInv, IInv', JInv, NEW w \in Runs, QueryOrder(w) \/ QueryPosition(w)
  PROVE  JInv'
<1>0. Query
  BY DEF QueryOrder, QueryPosition
<1>1. CASE QueryOrder(w)
  <2>1. PICK l : /\ Know(w, l)
                 /\ l = [local[w] EXCEPT !.pc = "query_position", !.order = order]
    BY <1>1 DEF QueryOrder
  <2>2. /\ l.pc = "query_position" /\ l.order = order
        /\ l.fills = local[w].fills /\ l.algos = local[w].algos
    BY <2>1, Mind DEF LocalType
  <2>3. Sampled(order)
    BY Numbers DEF Sampled
  <2>4. Knows(l)
    BY <2>2, <2>3, Mind DEF Knows
  <2>5. Due(l)
    BY <1>1, <2>2 DEF Due, SeenPCs, SamplePCs, QueryOrder
  <2> QED
    BY <1>0, <2>1, <2>4, <2>5, QueryKeeps
<1>2. CASE QueryPosition(w)
  <2>1. PICK l : Know(w, l) /\ l = [local[w] EXCEPT !.pc = "read_log", !.position = short]
    BY <1>2 DEF QueryPosition
  <2>2. /\ l.pc = "read_log" /\ l.order = local[w].order
        /\ l.fills = local[w].fills /\ l.algos = local[w].algos
    BY <2>1, Mind DEF LocalType
  <2>3. Knows(l)
    BY <2>2, Mind DEF Knows
  <2>4. local[w].order.status # "NONE"
    BY <1>2, Mind DEF QueryPosition, At, Due, SeenPCs
  <2>5. Due(l)
    BY <2>2, <2>4 DEF Due, SeenPCs, SamplePCs
  <2> QED
    BY <1>0, <2>1, <2>3, <2>5, QueryKeeps
<1> QED
  BY <1>1, <1>2

\* The end of an unknown request is recorded.
LEMMA RecordQueriedKeeps ==
  ASSUME IInv, IInv', JInv, NEW w \in Runs, RecordQueried(w)
  PROVE  JInv'
<1>1. PICK l : Know(w, l) /\ l = [local[w] EXCEPT !.pc = "read_log"]
  BY DEF RecordQueried, Goto
<1>2. /\ l.pc = "read_log" /\ l.order = local[w].order
      /\ l.fills = local[w].fills /\ l.algos = local[w].algos
  BY <1>1, Mind DEF LocalType
<1>3. Knows(l)
  BY <1>2, Mind DEF Knows
<1>4. local[w].order.status # "NONE"
  BY Mind DEF RecordQueried, At, Due, SeenPCs
<1>5. Due(l)
  BY <1>2, <1>4 DEF Due, SeenPCs, SamplePCs
<1>6. WorldGrows /\ Facts'
  BY StageGrows DEF RecordQueried, MainStages, JInv
<1>7. Safe(l)
  BY <1>1 DEF Know, IInv, LocalFits
<1> QED
  BY <1>1, <1>3, <1>5, <1>6, <1>7, KeepsBefore

\* The events of an observation lead from the log to just what was observed.
LEMMA NewsSay ==
  ASSUME IInv, NEW o \in OrderType, NEW l, l.order = o, l.todo = News(o),
         l.fills = private.fills
  PROVE  TodoSays(l)
<1> DEFINE n == IF o.filled > private.fills THEN o.filled - private.fills ELSE 0
           fills == [k \in 1..n |-> "FILL_OBSERVED"]
<1>0. private.fills \in Nat /\ o.filled \in Nat
  BY Numbers DEF OrderType
<1>a. PICK known \in Nat : known = private.fills
  BY <1>0
<1>b. PICK seen \in Nat : seen = o.filled
  BY <1>0
<1>c. PICK m \in Nat : m = n
  <2>1. n \in Nat
    BY <1>0
  <2> QED
    BY <2>1
<1>d. PICK last : last = LastEvent(o)
  OBVIOUS
<1>e. PICK f : f = [k \in 1..m |-> "FILL_OBSERVED"]
  OBVIOUS
<1>1. f = fills
  BY <1>c, <1>e
<1>2. (m > 0 => known + m <= seen) /\ seen <= known + m
  BY <1>a, <1>b, <1>c
<1>3. f \in Seq(EventTypes) /\ Len(f) = m /\ \A k \in 1..m : f[k] = "FILL_OBSERVED"
  BY <1>e DEF EventTypes
<1>g. last \in {<<>>, <<"ORDER_FILLED">>, <<"ORDER_PARTIALLY_FILLED">>, <<"ORDER_CANCELED">>,
                <<"ORDER_REJECTED">>}
  BY <1>d DEF LastEvent
<1>4. /\ last \in Seq(EventTypes)
      /\ last = <<>> \/ \E type \in EventTypes \ {"FILL_OBSERVED", "ORDER_ACKNOWLEDGED"} :
                           last = <<type>>
  <2>1. last # <<>> => \E type \in EventTypes \ {"FILL_OBSERVED", "ORDER_ACKNOWLEDGED"} :
                         last = <<type>>
    BY <1>g DEF EventTypes, OrderEnds
  <2>2. CASE last = <<>>
    BY <2>2
  <2>3. CASE last # <<>>
    <3>1. PICK type \in EventTypes \ {"FILL_OBSERVED", "ORDER_ACKNOWLEDGED"} : last = <<type>>
      BY <2>1, <2>3
    <3> QED
      BY <3>1
  <2> QED
    BY <2>2, <2>3
<1>5. l.todo \in {<<>>, f \o last, <<"ORDER_ACKNOWLEDGED">> \o f \o last}
  BY <1>1, <1>d DEF News
<1> HIDE DEF n, fills
<1>6. /\ Len(last) \in {0, 1}
      /\ \A k \in 1..Len(last) : last[k] \notin {"FILL_OBSERVED", "ORDER_ACKNOWLEDGED"}
                                 /\ last = <<last[k]>>
  BY <1>4
<1> DEFINE Says(e, h) ==
      \A k \in 1..Len(e) :
        /\ e[k] = "ORDER_ACKNOWLEDGED" => k = 1
        /\ e[k] = "FILL_OBSERVED" => known + k - h <= seen
        /\ e[k] \in OrderEnds \cup {"ORDER_PARTIALLY_FILLED"} => k = Len(e)
        /\ e[k] \in OrderEnds => last = <<e[k]>> /\ seen <= known + (k - 1) - h
<1>7. ASSUME NEW e, e = f \o last
      PROVE  Says(e, 0) /\ (e # <<>> => e[1] # "ORDER_ACKNOWLEDGED")
  <2>1. /\ Len(e) = m + Len(last)
        /\ \A k \in 1..Len(e) : e[k] = IF k <= m THEN "FILL_OBSERVED" ELSE last[k - m]
    BY <1>3, <1>4, <1>7
  <2>2. \A k \in 1..Len(e) : k <= m \/ (k = m + 1 /\ k = Len(e) /\ 1 \in 1..Len(last))
    BY <1>6, <2>1
  <2>3. e # <<>> => 1 \in 1..Len(e)
    BY <1>3, <1>4, <1>7
  <2> QED
    BY <1>2, <1>6, <2>1, <2>2, <2>3 DEF OrderEnds
<1>8. ASSUME NEW e, e = <<"ORDER_ACKNOWLEDGED">> \o f \o last
      PROVE  Says(e, 1) /\ e[1] = "ORDER_ACKNOWLEDGED"
  <2>1. PICK g : g = f \o last
    OBVIOUS
  <2>2. /\ g \in Seq(EventTypes)
        /\ Len(g) = m + Len(last)
        /\ \A k \in 1..Len(g) : g[k] = IF k <= m THEN "FILL_OBSERVED" ELSE last[k - m]
    BY <1>3, <1>4, <2>1
  <2>3. e = <<"ORDER_ACKNOWLEDGED">> \o g
    BY <1>3, <1>4, <1>8, <2>1 DEF EventTypes
  <2>4. /\ Len(e) = Len(g) + 1
        /\ e[1] = "ORDER_ACKNOWLEDGED"
        /\ \A k \in 1..Len(e) : k > 1 => k - 1 \in 1..Len(g) /\ e[k] = g[k - 1]
    BY <2>2, <2>3 DEF EventTypes
  <2>5. \A k \in 1..Len(e) : k > 1 =>
          e[k] = IF k <= m + 1 THEN "FILL_OBSERVED" ELSE last[k - 1 - m]
    BY <2>2, <2>4
  <2>6. Len(e) = m + 1 + Len(last)
    BY <1>4, <2>2, <2>4
  <2>7. ASSUME NEW k \in 1..Len(e), k > m + 1
        PROVE  k = Len(e) /\ k = m + 2 /\ e[k] = last[1] /\ 1 \in 1..Len(last)
    <3>0. \A x, y, q \in Nat : x > y + 1 /\ x \in 1..(y + 1 + q) /\ q \in {0, 1} =>
            q = 1 /\ x = y + 2 /\ x = y + 1 + q
      OBVIOUS
    <3>1. k = m + 2 /\ k = Len(e) /\ Len(last) = 1
      <4>1. k \in 1..(m + 1 + Len(last)) /\ Len(last) \in {0, 1} /\ Len(last) \in Nat
        BY <1>6, <2>6
      <4>2. k \in Nat
        BY <4>1
      <4> QED
        BY <2>6, <2>7, <3>0, <4>1, <4>2
    <3>2. e[k] = last[k - 1 - m] /\ k - 1 - m = 1
      BY <2>5, <2>7, <3>1
    <3> QED
      BY <3>1, <3>2
  <2>8. ASSUME NEW k \in 1..Len(e), k > 1, k <= m + 1
        PROVE  e[k] = "FILL_OBSERVED" /\ known + k - 1 <= seen
    BY <1>2, <2>5, <2>8
  <2>9. ASSUME NEW k \in 1..Len(e)
        PROVE  /\ e[k] = "ORDER_ACKNOWLEDGED" => k = 1
               /\ e[k] = "FILL_OBSERVED" => known + k - 1 <= seen
               /\ e[k] \in OrderEnds \cup {"ORDER_PARTIALLY_FILLED"} => k = Len(e)
               /\ e[k] \in OrderEnds => last = <<e[k]>> /\ seen <= known + (k - 1) - 1
    <3>1. CASE k = 1
      BY <2>4, <3>1 DEF OrderEnds
    <3>2. CASE k > 1 /\ k <= m + 1
      BY <2>8, <3>2 DEF OrderEnds
    <3>3. CASE k > m + 1
      <4>1. k = Len(e) /\ k = m + 2 /\ e[k] = last[1] /\ 1 \in 1..Len(last)
        BY <2>7, <3>3
      <4>2. last[1] \notin {"FILL_OBSERVED", "ORDER_ACKNOWLEDGED"} /\ last = <<last[1]>>
        BY <1>6, <4>1
      <4>3. seen <= known + (k - 1) - 1
        BY <1>2, <4>1
      <4> QED
        BY <4>1, <4>2, <4>3
    <3> QED
      BY <3>1, <3>2, <3>3
  <2> QED
    BY <2>4, <2>9
<1>9. /\ l.fills = known /\ l.order.filled = seen /\ LastEvent(l.order) = last
  BY <1>a, <1>b, <1>d
<1> HIDE DEF Says
<1>10. CASE l.todo = <<>>
  BY <1>10 DEF TodoSays
<1>11. CASE l.todo = f \o last
  <2>1. Says(l.todo, 0) /\ (l.todo # <<>> => l.todo[1] # "ORDER_ACKNOWLEDGED")
    BY <1>7, <1>11
  <2> QED
    BY <1>9, <1>10, <2>1 DEF TodoSays, Says
<1>12. CASE l.todo = <<"ORDER_ACKNOWLEDGED">> \o f \o last
  <2>1. Says(l.todo, 1) /\ l.todo[1] = "ORDER_ACKNOWLEDGED"
    BY <1>8, <1>12
  <2> QED
    BY <1>9, <2>1 DEF TodoSays, Says
<1> QED
  BY <1>5, <1>10, <1>11, <1>12

\* The observation is turned into events.
LEMMA PlanEventsKeeps ==
  ASSUME IInv, IInv', JInv, NEW w \in Runs, PlanEvents(w)
  PROVE  JInv'
<1> DEFINE o == local[w].order
           next == Route(o)
           pc == IF News(o) = <<>> THEN next ELSE "apply"
<1>0. Query /\ o \in OrderType
  BY Numbers DEF PlanEvents
<1>1. CASE Leave(w)
  BY <1>0, <1>1, LeaveLight, QueryLight
<1>2. CASE /\ ~(News(o) = <<>> /\ next = "idle")
           /\ Know(w, [local[w] EXCEPT !.todo = News(o), !.fills = private.fills, !.next = next,
                                       !.guarded = Perpetual, !.pc = pc])
  <2>1. PICK l : /\ Know(w, l)
                 /\ l = [local[w] EXCEPT !.todo = News(o), !.fills = private.fills, !.next = next,
                                         !.guarded = Perpetual, !.pc = pc]
    BY <1>2
  <2>2. /\ l.pc = pc /\ l.next = next /\ l.todo = News(o) /\ l.fills = private.fills
        /\ l.order = o /\ l.algos = local[w].algos
    BY <2>1, Mind DEF LocalType
  <2>3. next \in {"ensure", "fills_fees", "idle"}
    BY DEF Route
  <2>4. o.status # "NONE"
    BY Mind DEF PlanEvents, At, Due, SeenPCs
  <2>5. Knows(l)
    BY <2>2, Numbers, Mind DEF Knows
  <2>6. TodoSays(l)
    BY <1>0, <2>2, NewsSay
  <2> HIDE DEF next
  <2>7. l.pc \in {"apply", "ensure", "fills_fees"}
    BY <1>2, <2>2, <2>3
  <2>8. Due(l)
    BY <2>2, <2>3, <2>4, <2>6, <2>7 DEF Due, SeenPCs, SamplePCs
  <2> QED
    BY <1>0, <2>1, <2>5, <2>8, QueryKeeps
<1> QED
  BY <1>1, <1>2 DEF PlanEvents

\* What is still to be appended once the first event is.
LEMMA TodoLeft ==
  ASSUME IInv, NEW l \in LocalType, Safe(l), l.pc = "apply", TodoSays(l),
         NEW m, m.todo = Tail(l.todo), m.todo # <<>>, m.order = l.order,
         m.fills = IF Head(l.todo) = "FILL_OBSERVED" THEN l.fills + 1 ELSE l.fills
  PROVE  TodoSays(m)
<1>0. l.todo \in Seq(EventTypes) /\ l.fills \in Nat /\ l.order.filled \in Nat
  BY LogAssumption DEF LocalType, OrderType, Ids
<1>a. PICK t \in Seq(EventTypes) : t = l.todo
  BY <1>0
<1>b. PICK n \in Nat : n = l.fills
  BY <1>0
<1>c. PICK s \in Nat : s = l.order.filled
  BY <1>0
<1>d. PICK r : r = Tail(t)
  OBVIOUS
<1>1. t = l.todo /\ r = Tail(t) /\ n = l.fills /\ s = l.order.filled
  BY <1>a, <1>b, <1>c, <1>d
<1>2. /\ t # <<>> /\ r # <<>>
      /\ r \in Seq(EventTypes)
      /\ Len(r) \in Nat /\ Len(t) = Len(r) + 1 /\ Len(r) > 0
      /\ \A k \in 1..Len(r) : r[k] = t[k + 1]
      /\ Head(t) = t[1]
      /\ t[1] \in EventTypes
  BY <1>1 DEF Safe, TodoFits
<1>3. 1 \in 1..Len(t) /\ 1 # Len(t)
  BY <1>2
<1>4. t[1] \in {"ORDER_ACKNOWLEDGED", "FILL_OBSERVED"}
  BY <1>1, <1>2, <1>3 DEF TodoSays, EventTypes
<1> DEFINE h == IF t[1] = "ORDER_ACKNOWLEDGED" THEN 1 ELSE 0
<1>5. ASSUME NEW k \in 1..Len(r)
      PROVE  /\ r[k] # "ORDER_ACKNOWLEDGED"
             /\ r[k] = "FILL_OBSERVED" => n + (k + 1) - h <= s
             /\ r[k] \in OrderEnds \cup {"ORDER_PARTIALLY_FILLED"} => k = Len(r)
             /\ r[k] \in OrderEnds => LastEvent(l.order) = <<r[k]>> /\ s <= n + k - h
  <2>1. k + 1 \in 1..Len(t) /\ k + 1 # 1 /\ r[k] = t[k + 1] /\ (k + 1) - 1 = k
        /\ (k + 1 = Len(t) => k = Len(r))
    BY <1>2
  <2> QED
    BY <1>1, <2>1 DEF TodoSays
<1>6. m.fills - 0 = n + 1 - h /\ m.fills \in Nat
  BY <1>1, <1>2, <1>4
<1>7. r[1] # "ORDER_ACKNOWLEDGED"
  BY <1>2, <1>5
<1>8. ASSUME NEW k \in 1..Len(r)
      PROVE  /\ r[k] = "FILL_OBSERVED" => m.fills + k - 0 <= s
             /\ r[k] \in OrderEnds => s <= m.fills + (k - 1) - 0
  BY <1>2, <1>4, <1>5, <1>6
<1> QED
  BY <1>1, <1>5, <1>7, <1>8 DEF TodoSays

\* An event is appended: a fill that was seen and is not in the log, or the last event.
LEMMA ApplyEventKeeps ==
  ASSUME IInv, IInv', JInv, NEW w \in Runs, ApplyEvent(w)
  PROVE  JInv'
<1>0. PICK l \in LocalType : l = local[w]
  BY Mind
<1>a. /\ Safe(l) /\ l.pc = "apply" /\ TodoSays(l) /\ Knows(l) /\ l.order \in OrderType
      /\ l.next \in {"idle", "ensure", "fills_fees"} /\ l.order.status # "NONE"
  BY <1>0, Mind, Numbers DEF ApplyEvent, At, Due, IInv, LocalFits, SeenPCs
<1>b. PICK type \in EventTypes : type = Head(l.todo) /\ type = l.todo[1] /\ 1 \in 1..Len(l.todo)
  BY <1>a DEF Safe, TodoFits, LocalType
<1>c. /\ l.fills \in Nat /\ l.order.filled \in Nat /\ order.filled \in Nat
      /\ private.fills \in Nat /\ Quantity \in Nat
      /\ private.fills <= Quantity /\ order.filled <= Quantity /\ l.order.filled <= Quantity
      /\ l.fills <= private.fills /\ l.order.filled <= order.filled
  BY <1>a, Numbers, LogAssumption DEF LocalType, OrderType, Ids, Knows, Sampled
<1>1. WorldGrows /\ Facts'
      /\ private'.fills = IF type = "FILL_OBSERVED" THEN private.fills + 1 ELSE private.fills
  <2>1. type = "FILL_OBSERVED" => private.fills = l.fills /\ private.fills + 1 <= order.filled
    <3>1. type = "FILL_OBSERVED" => private.fills = l.fills
      BY <1>0, <1>b DEF ApplyEvent
    <3>2. type = "FILL_OBSERVED" => l.fills + 1 - 0 <= l.order.filled
      BY <1>a, <1>b DEF TodoSays
    <3> QED
      BY <1>c, <3>1, <3>2
  <2>2. type \in OrderEnds => LastEvent(l.order) = <<type>> /\ l.order.filled <= l.fills
    <3>1. type \in OrderEnds =>
            LastEvent(l.order) = <<type>> /\ l.order.filled <= l.fills + (1 - 1) - 0
      BY <1>a, <1>b DEF TodoSays, OrderEnds
    <3> QED
      BY <1>c, <3>1
  <2>3. type = "ORDER_FILLED" => l.order.filled = Quantity
    BY <1>c, <2>2 DEF LastEvent, OrderEnds
  <2>4. type \in {"ORDER_CANCELED", "ORDER_REJECTED"} => l.order.status \in {"CANCELED", "REJECTED"}
    BY <1>c, <2>2 DEF LastEvent, OrderEnds
  <2>5. type \in OrderEnds => OrderEnded
    <3>1. CASE type = "ORDER_FILLED"
      BY <1>c, <2>3, <3>1 DEF JInv, Facts, OrderFits
    <3>2. CASE type \in {"ORDER_CANCELED", "ORDER_REJECTED"}
      BY <1>a, <2>4, <3>2 DEF Knows, Sampled, OrderEnded
    <3> QED
      BY <3>1, <3>2 DEF OrderEnds
  <2>6. type = "ORDER_FILLED" => private.fills = Quantity
    BY <1>c, <2>2, <2>3 DEF OrderEnds
  <2>7. AppendOrder(type) /\ Appending
    BY <1>0, <1>b DEF ApplyEvent
  <2> QED
    BY <2>1, <2>5, <2>6, <2>7, OrderGrows DEF JInv
<1>2. CASE Leave(w)
  BY <1>1, <1>2, LeaveLight, LightKeeps
<1> DEFINE rest == Tail(l.todo)
           last == rest = <<>>
<1>3. CASE /\ ~(last /\ l.next = "idle")
           /\ Know(w, [l EXCEPT !.todo = rest,
                         !.fills = IF type = "FILL_OBSERVED" THEN @ + 1 ELSE @,
                         !.pc = IF last THEN l.next ELSE "apply",
                         !.next = IF last THEN "idle" ELSE @])
  <2>1. PICK m : /\ Know(w, m)
                 /\ m = [l EXCEPT !.todo = rest,
                           !.fills = IF type = "FILL_OBSERVED" THEN @ + 1 ELSE @,
                           !.pc = IF last THEN l.next ELSE "apply",
                           !.next = IF last THEN "idle" ELSE @]
    BY <1>3
  <2>2. /\ m.todo = rest /\ m.order = l.order /\ m.algos = l.algos
        /\ m.fills = IF type = "FILL_OBSERVED" THEN l.fills + 1 ELSE l.fills
        /\ m.pc = IF last THEN l.next ELSE "apply"
        /\ m.next = IF last THEN "idle" ELSE l.next
    BY <2>1 DEF LocalType
  <2>3. ~last => TodoSays(m)
    BY <1>a, <1>b, <2>2, TodoLeft
  <2>4. m.pc \in {"apply", "ensure", "fills_fees"} /\ (m.pc = "apply" => ~last)
    BY <1>3, <1>a, <2>2
  <2> HIDE DEF rest, last
  <2>5. /\ m.pc = "apply" => TodoSays(m) /\ m.next \in {"idle", "ensure", "fills_fees"}
        /\ m.order.status # "NONE"
    BY <1>a, <2>2, <2>3, <2>4
  <2>6. Due(m)'
    BY <2>4, <2>5 DEF Due, SeenPCs, SamplePCs
  <2>7. Sampled(m.order)'
    BY <1>1, <1>a, <2>2, SampledStays DEF Knows
  <2>8. m.fills <= private'.fills
    <3>1. type = "FILL_OBSERVED" => private.fills = l.fills
      BY <1>0, <1>b DEF ApplyEvent
    <3> QED
      BY <1>1, <1>c, <2>2, <3>1
  <2>9. action' = action /\ (action = "SPOT" => m.algos = {})
    BY <1>1, <1>a, <2>2 DEF WorldGrows, Knows
  <2>10. Knows(m)'
    BY <2>7, <2>8, <2>9 DEF Knows
  <2> QED
    BY <1>1, <2>1, <2>6, <2>10, KeepsAfter
<1> QED
  BY <1>0, <1>b, <1>2, <1>3 DEF ApplyEvent

\* The fills are replayed.
LEMMA ReplayFillsKeeps ==
  ASSUME IInv, IInv', JInv, NEW w \in Runs, ReplayFills(w)
  PROVE  JInv'
<1> DEFINE o == local[w].order
           next == CASE action = "SPOT" -> "capture"
                     [] action = "CLOSE_SHORT" /\ Settles(o) -> "cleanup"
                     [] OTHER -> "ensure"
<1>0. PICK l : /\ Know(w, l)
               /\ l = [local[w] EXCEPT !.pc = next, !.next = "idle", !.fills = 0,
                                       !.order = IF next = "capture" THEN o ELSE NoOrder]
  BY DEF ReplayFills
<1>1. next \in {"capture", "cleanup", "ensure"} /\ (next = "capture" => action = "SPOT")
  OBVIOUS
<1> HIDE DEF next
<1>2. /\ l.pc = next /\ l.fills = 0 /\ l.algos = local[w].algos
      /\ l.order = IF next = "capture" THEN o ELSE NoOrder
  BY <1>0, Mind DEF LocalType
<1>3. WorldGrows /\ Facts'
  <2>1. CASE AppendStage("FILLS_FEES_REPLAYED")
    BY <2>1, StageGrows DEF ReplayFills, MainStages, JInv
  <2>2. CASE UNCHANGED private
    BY <2>2, QueryGrows DEF ReplayFills, Appending, JInv
  <2> QED
    BY <2>1, <2>2 DEF ReplayFills
<1>4. o.status # "NONE"
  BY Mind DEF ReplayFills, At, Due, SeenPCs
<1>5. Knows(l)
  BY <1>2, Mind DEF Knows
<1>6. Due(l)
  BY <1>1, <1>2, <1>4 DEF Due, SeenPCs, SamplePCs
<1>7. Safe(l)
  BY <1>0 DEF Know, IInv, LocalFits
<1> QED
  BY <1>0, <1>3, <1>5, <1>6, <1>7, KeepsBefore

-----------------------------------------------------------------------------
\* The decision on the stop.
LEMMA EnsureKeeps ==
  ASSUME IInv, IInv', JInv, NEW w \in Runs, Ensure(w)
  PROVE  JInv'
<1>0. PICK d : d = Desired(w)
  OBVIOUS
<1>1. Appending /\ d \in Ids
  BY <1>0, LocalTyped DEF Ensure, Desired, LocalType
<1>2. ASSUME UNCHANGED private
      PROVE  Query
  BY <1>1, <1>2 DEF Appending, Query
<1>3. CASE Know(w, [local[w] EXCEPT !.pc = "inherit"]) /\ UNCHANGED private
  <2>1. LightMove(w)
    BY <1>3, GotoLight, EasyPCs DEF Goto
  <2> QED
    BY <1>2, <1>3, <2>1, QueryLight
<1>4. CASE /\ UNCHANGED private
           /\ \E pc \in {"stop_authorize", "stop_verify", "swap_verify"} :
                Know(w, [local[w] EXCEPT !.pc = pc, !.id = d])
  <2>1. PICK pc \in {"stop_authorize", "stop_verify", "swap_verify"} :
          Know(w, [local[w] EXCEPT !.pc = pc, !.id = d])
    BY <1>4
  <2>2. PICK l : Know(w, l) /\ l = [local[w] EXCEPT !.pc = pc, !.id = d]
    BY <2>1
  <2>3. /\ l.pc = pc /\ l.order = local[w].order
        /\ l.fills = local[w].fills /\ l.algos = local[w].algos
    BY <2>2, Mind DEF LocalType
  <2>4. LightMove(w)
    BY <2>1, <2>2, <2>3, SameLight DEF DuePCs, SeenPCs, SamplePCs
  <2> QED
    BY <1>2, <1>4, <2>4, QueryLight
<1>5. CASE UNCHANGED private /\ Replacing /\ ResumeStop(w, local[w], d)
  BY <1>2, <1>5, Mind, ResumeStopKeeps
<1>6. CASE AppendReplacementStarted(d) /\ Goto(w, "ensure")
  <2>1. LightMove(w)
    BY <1>6, GotoLight, EasyPCs
  <2>2. WorldGrows /\ Facts'
    BY <1>1, <1>6, ReplacementGrows DEF JInv
  <2> QED
    BY <2>1, <2>2, LightKeeps
<1> QED
  BY <1>0, <1>3, <1>4, <1>5, <1>6 DEF Ensure

\* What a query of the stops leaves due is what it has seen.
LEMMA StopQueriesKeep ==
  ASSUME IInv, IInv', JInv, NEW w \in Runs,
         QueryInherited(w) \/ QueryStopPosition(w) \/ ObserveStop(w) \/ VerifyCandidate(w)
  PROVE  JInv'
<1>0. Query
  BY DEF QueryInherited, QueryStopPosition, ObserveStop, VerifyCandidate
<1>1. CASE Unprotected(w) \/ Leave(w)
  BY <1>0, <1>1, UnprotectedLight, LeaveLight, QueryLight
<1>2. CASE QueryInherited(w) /\ ~Unprotected(w)
  <2>1. PICK l : Know(w, l) /\ l = [local[w] EXCEPT !.pc = "inherited"]
    BY <1>2 DEF QueryInherited, Goto
  <2>2. /\ l.pc = "inherited" /\ l.order = local[w].order
        /\ l.fills = local[w].fills /\ l.algos = local[w].algos
    BY <2>1, Mind DEF LocalType
  <2>3. Knows(l)
    BY <2>2, Mind DEF Knows
  <2>4. stops[0] # "NONE"
    BY <1>2 DEF QueryInherited
  <2>5. Due(l)
    BY <2>2, <2>4, DueAt DEF SeenPCs, SamplePCs
  <2> QED
    BY <1>0, <2>1, <2>3, <2>5, QueryKeeps
<1>3. CASE QueryStopPosition(w)
  <2>1. PICK l : Know(w, l) /\ l = [local[w] EXCEPT !.pc = local[w].next, !.next = "idle",
                                                    !.position = short]
    BY <1>3 DEF QueryStopPosition
  <2>2. /\ l.pc = local[w].next /\ l.order = local[w].order
        /\ l.fills = local[w].fills /\ l.algos = local[w].algos
    BY <2>1, Mind DEF LocalType
  <2>3. local[w].next \in {"swap_verify", "stop_query", "stop_observe"}
    BY <1>3, Mind DEF QueryStopPosition, At, Due
  <2>4. LightMove(w)
    BY <2>1, <2>2, <2>3, SameLight DEF DuePCs, SeenPCs, SamplePCs
  <2> QED
    BY <1>0, <2>4, QueryLight
<1>4. CASE ObserveStop(w) /\ ~Unprotected(w)
  <2>1. PICK l : /\ Know(w, l)
                 /\ l = [local[w] EXCEPT !.pc = "stop_acknowledge", !.status = stops[local[w].id]]
    BY <1>4 DEF ObserveStop
  <2>2. /\ l.pc = "stop_acknowledge" /\ l.order = local[w].order /\ l.id = local[w].id
        /\ l.fills = local[w].fills /\ l.algos = local[w].algos
    BY <2>1, Mind DEF LocalType
  <2>3. Knows(l)
    BY <2>2, Mind DEF Knows
  <2>4. stops[local[w].id] # "NONE"
    BY <1>4 DEF ObserveStop
  <2>5. Due(l)
    BY <2>2, <2>4, DueAt DEF SeenPCs, SamplePCs
  <2> QED
    BY <1>0, <2>1, <2>3, <2>5, QueryKeeps
<1>5. CASE VerifyCandidate(w) /\ ~Unprotected(w) /\ ~Leave(w)
  <2> DEFINE pc == IF private.phase = "STARTED" THEN "swap_start" ELSE "swap_check"
  <2>1. PICK l : /\ Know(w, l)
                 /\ l = [local[w] EXCEPT !.pc = pc, !.id = private.candidate.id,
                                         !.gone = private.stop.id]
    BY <1>5 DEF VerifyCandidate
  <2>2. /\ l.pc = pc /\ l.order = local[w].order /\ l.gone = private.stop.id
        /\ l.fills = local[w].fills /\ l.algos = local[w].algos
    BY <2>1, Mind DEF LocalType
  <2>3. Knows(l)
    BY <2>2, Mind DEF Knows
  <2>4. private.phase # "NONE" /\ private.stop.id # private.new
    BY <1>5 DEF VerifyCandidate, IInv, LogFits, StopFits
  <2>5. Due(l)
    BY <2>2, <2>4, DueAt DEF SeenPCs, SamplePCs
  <2> QED
    BY <1>0, <2>1, <2>3, <2>5, QueryKeeps
<1> QED
  BY <1>1, <1>2, <1>3, <1>4, <1>5

\* A stop that was seen is acknowledged.
LEMMA AcknowledgeStopKeeps ==
  ASSUME IInv, IInv', JInv, NEW w \in Runs, AcknowledgeStop(w)
  PROVE  JInv'
<1>1. stops[local[w].id] # "NONE" /\ local[w].id \in Ids
  BY Mind DEF AcknowledgeStop, At, Due, LocalType
<1>2. WorldGrows /\ Facts'
  <2>1. CASE AppendStopAcknowledged(local[w].id)
    BY <1>1, <2>1, StopEventsGrow DEF AcknowledgeStop, JInv
  <2>2. CASE UNCHANGED private
    BY <2>2, QueryGrows DEF AcknowledgeStop, Appending, JInv
  <2> QED
    BY <2>1, <2>2 DEF AcknowledgeStop
<1>3. CASE Leave(w)
  BY <1>2, <1>3, LeaveLight, LightKeeps
<1>4. CASE Goto(w, "stop_reconcile")
  <2>1. PICK l : Know(w, l) /\ l = [local[w] EXCEPT !.pc = "stop_reconcile"]
    BY <1>4 DEF Goto
  <2>2. /\ l.pc = "stop_reconcile" /\ l.order = local[w].order /\ l.id = local[w].id
        /\ l.fills = local[w].fills /\ l.algos = local[w].algos
    BY <2>1, Mind DEF LocalType
  <2>3. Knows(l)
    BY <2>2, Mind DEF Knows
  <2>4. Due(l)
    BY <1>1, <2>2, DueAt DEF SeenPCs, SamplePCs
  <2>5. Safe(l)
    BY <2>1 DEF Know, IInv, LocalFits
  <2> QED
    BY <1>2, <2>1, <2>3, <2>4, <2>5, KeepsBefore
<1> QED
  BY <1>3, <1>4 DEF AcknowledgeStop

\* The cancel of the old stop is written before it is sent; the new one is never canceled.
LEMMA StartCancelKeeps ==
  ASSUME IInv, IInv', JInv, NEW w \in Runs, StartCancel(w)
  PROVE  JInv'
<1>1. WorldGrows /\ Facts'
  BY ReplacementGrows, LogAssumption DEF StartCancel, JInv, Ids
<1>2. PICK l : Know(w, l) /\ l = [local[w] EXCEPT !.pc = "swap_cancel"]
  BY DEF StartCancel, Goto
<1>3. /\ l.pc = "swap_cancel" /\ l.order = local[w].order /\ l.gone = local[w].gone
      /\ l.fills = local[w].fills /\ l.algos = local[w].algos
  BY <1>2, Mind DEF LocalType
<1>4. Knows(l)'
  <2>1. Knows(l) /\ l \in LocalType
    BY <1>2, <1>3, Mind DEF Knows, Know, IInv, LocalFits
  <2> QED
    BY <1>1, <2>1, KnowsStays
<1>5. local[w].gone # private.new
  BY Mind DEF StartCancel, At, Due
<1>6. private'.phase = "CANCEL_SEND_STARTED" /\ private'.new = private.new
  BY DEF StartCancel, AppendCancelSendStarted, IInv, LogFits, LogTypeOK
<1>7. Cancelable(l.gone)'
  BY <1>3, <1>5, <1>6 DEF Cancelable, Cancelling
<1>8. Due(l)'
  BY <1>3, <1>7 DEF Due, SeenPCs, SamplePCs
<1> QED
  BY <1>1, <1>2, <1>4, <1>8, KeepsAfter

-----------------------------------------------------------------------------
\* A flatten order is followed by the next one only when it has ended.
LEMMA FlattenQueriesKeep ==
  ASSUME IInv, IInv', JInv, NEW w \in Runs, ObserveFlatten(w) \/ QueryResidual(w)
  PROVE  JInv'
<1>0. Query
  BY DEF ObserveFlatten, QueryResidual
<1>1. CASE ObserveFlatten(w)
  <2>1. PICK l : /\ Know(w, l)
                 /\ l = [local[w] EXCEPT !.pc = "flatten_position",
                                         !.status = flattens[local[w].generation].status]
    BY <1>1 DEF ObserveFlatten
  <2>2. /\ l.pc = "flatten_position" /\ l.order = local[w].order
        /\ l.generation = local[w].generation
        /\ l.status = flattens[local[w].generation].status
        /\ l.fills = local[w].fills /\ l.algos = local[w].algos
    BY <2>1, Mind DEF LocalType
  <2>3. Knows(l)
    BY <2>2, Mind DEF Knows
  <2>4. l.status = "NEW" \/ FlattenEnded(l.generation)
    <3>1. local[w].generation \in Generations
      BY <1>1, LocalTyped DEF ObserveFlatten, At, FlattenPCs
    <3>2. flattens[local[w].generation].status \in {"NEW", "FILLED", "CANCELED"}
      BY <1>1, <3>1 DEF ObserveFlatten, IInv, VenueFits, VenueTypeOK
    <3> QED
      BY <2>2, <3>2 DEF FlattenEnded
  <2>5. Due(l)
    BY <2>2, <2>4, DueAt DEF SeenPCs, SamplePCs
  <2> QED
    BY <1>0, <2>1, <2>3, <2>5, QueryKeeps
<1>2. CASE QueryResidual(w)
  <2>1. CASE Leave(w) \/ Goto(w, "flatten_reconcile")
    BY <1>0, <2>1, LeaveLight, GotoLight, EasyPCs, QueryLight
  <2>2. CASE /\ local[w].status # "NEW"
             /\ Know(w, [local[w] EXCEPT !.pc = "flatten_remainder", !.position = short])
    <3>1. PICK l : /\ Know(w, l)
                   /\ l = [local[w] EXCEPT !.pc = "flatten_remainder", !.position = short]
      BY <2>2
    <3>2. /\ l.pc = "flatten_remainder" /\ l.order = local[w].order
          /\ l.generation = local[w].generation
          /\ l.fills = local[w].fills /\ l.algos = local[w].algos
      BY <3>1, Mind DEF LocalType
    <3>3. Knows(l)
      BY <3>2, Mind DEF Knows
    <3>4. FlattenEnded(l.generation)
      BY <1>2, <2>2, <3>2, Mind DEF QueryResidual, At, Due
    <3>5. Due(l)
      BY <3>2, <3>4, DueAt DEF SeenPCs, SamplePCs
    <3> QED
      BY <1>0, <3>1, <3>3, <3>5, QueryKeeps
  <2> QED
    BY <1>2, <2>1, <2>2 DEF QueryResidual
<1> QED
  BY <1>1, <1>2

-----------------------------------------------------------------------------
\* The cleanup ends with the sample; the inherited stop is not one of the samples.
LEMMA SampleDue ==
  ASSUME IInv, JInv, NEW l, l = [Idle EXCEPT !.pc = "sample_order"], action = "CLOSE_SHORT"
  PROVE  Knows(l) /\ Due(l)
<1>1. /\ l.pc = "sample_order" /\ l.order = NoOrder /\ l.id = 0
      /\ l.fills = 0 /\ l.algos = {}
  BY DEF Idle
<1>2. Sampled(NoOrder) /\ 0 <= private.fills
  BY Numbers DEF Sampled, NoOrder, OrderType
<1> QED
  BY <1>1, <1>2 DEF Knows, Due, SeenPCs, SamplePCs, Perpetual

\* The next stop to clean up; the start of its cancel is due only when the cleanup began.
LEMMA CleanupNextKeeps ==
  ASSUME IInv, IInv', JInv, NEW w \in Runs, CleanupNext(w)
  PROVE  JInv'
<1>0. Query
  BY DEF CleanupNext
<1>1. CASE Goto(w, "cleanup_query") \/ Goto(w, "cleanup_check")
  BY <1>0, <1>1, GotoLight, EasyPCs, QueryLight
<1>2. CASE \E pc \in {"cleanup_send_started", "cleanup_query"} :
             Know(w, [local[w] EXCEPT !.pc = pc, !.old = private.cleanup.request])
  <2>1. PICK pc \in {"cleanup_send_started", "cleanup_query"} :
          Know(w, [local[w] EXCEPT !.pc = pc, !.old = private.cleanup.request])
    BY <1>2
  <2>2. PICK l : Know(w, l) /\ l = [local[w] EXCEPT !.pc = pc, !.old = private.cleanup.request]
    BY <2>1
  <2>3. /\ l.pc = pc /\ l.order = local[w].order
        /\ l.fills = local[w].fills /\ l.algos = local[w].algos
    BY <2>2, Mind DEF LocalType
  <2>4. LightMove(w)
    BY <2>1, <2>2, <2>3, SameLight DEF DuePCs, SeenPCs, SamplePCs
  <2> QED
    BY <1>0, <2>4, QueryLight
<1>3. CASE private.cleanup.stage = "RECONCILED" /\ Know(w, [Idle EXCEPT !.pc = "sample_order"])
  <2>1. PICK l : Know(w, l) /\ l = [Idle EXCEPT !.pc = "sample_order"]
    BY <1>3
  <2>2. action = "CLOSE_SHORT"
    BY <1>3 DEF JInv, Facts, SwapFits
  <2> QED
    BY <1>0, <2>1, <2>2, SampleDue, QueryKeeps
<1> QED
  BY <1>1, <1>2, <1>3 DEF CleanupNext

\* The events of the cleanup.
LEMMA CleanupAppendsKeep ==
  ASSUME IInv, IInv', JInv, NEW w \in Runs,
         Cleanup(w) \/ PrepareCleanup(w) \/ StartCleanup(w) \/ ReconcileCleanup(w)
  PROVE  JInv'
<1>0. Facts
  BY DEF JInv
<1>1. CASE Cleanup(w)
  <2>1. PICK client, l : /\ AppendCleanupAuthorized(client) \/ UNCHANGED private
                         /\ Know(w, l)
                         /\ l = [Idle EXCEPT !.pc = "cleanup_next", !.id = client]
    BY <1>1 DEF Cleanup
  <2>2. l.pc = "cleanup_next" /\ l.order = NoOrder /\ l.fills = 0 /\ l.algos = {}
    BY <2>1 DEF Idle
  <2>3. LightMove(w)
    BY <2>1, <2>2, IdleLight DEF DuePCs, SeenPCs, SamplePCs
  <2>4. WorldGrows /\ Facts'
    <3>1. CASE AppendCleanupAuthorized(client)
      BY <1>0, <1>1, <3>1, CleanupGrows DEF Cleanup
    <3>2. CASE UNCHANGED private
      BY <1>0, <1>1, <3>2, QueryGrows DEF Cleanup, Appending
    <3> QED
      BY <2>1, <3>1, <3>2
  <2> QED
    BY <2>3, <2>4, LightKeeps
<1>2. CASE PrepareCleanup(w)
  <2>1. WorldGrows /\ Facts'
    BY <1>0, <1>2, CleanupGrows DEF PrepareCleanup
  <2>2. CASE local[w].old = Nobody
    <3>1. PICK l : Know(w, l) /\ l = [local[w] EXCEPT !.pc = "cleanup_next", !.prepared = TRUE]
      BY <1>2, <2>2 DEF PrepareCleanup
    <3>2. /\ l.pc = "cleanup_next" /\ l.order = local[w].order
          /\ l.fills = local[w].fills /\ l.algos = local[w].algos
      BY <3>1, Mind DEF LocalType
    <3> QED
      BY <2>1, <3>1, <3>2, SameLight, LightKeeps DEF DuePCs, SeenPCs, SamplePCs
  <2>3. CASE local[w].old # Nobody
    <3>1. PICK l : Know(w, l) /\ l = [local[w] EXCEPT !.pc = "cleanup_send_started", !.old = w]
      BY <1>2, <2>3 DEF PrepareCleanup
    <3>2. /\ l.pc = "cleanup_send_started" /\ l.order = local[w].order
          /\ l.fills = local[w].fills /\ l.algos = local[w].algos
      BY <3>1, Mind DEF LocalType
    <3> QED
      BY <2>1, <3>1, <3>2, SameLight, LightKeeps DEF DuePCs, SeenPCs, SamplePCs
  <2> QED
    BY <2>2, <2>3
<1>3. CASE StartCleanup(w)
  <2>1. WorldGrows /\ Facts'
    BY <1>0, <1>3, CleanupGrows DEF StartCleanup
  <2>2. PICK l : Know(w, l) /\ l = [Idle EXCEPT !.pc = "cleanup_send", !.id = local[w].id]
    BY <1>3 DEF StartCleanup
  <2>3. l.pc = "cleanup_send" /\ l.order = NoOrder /\ l.fills = 0 /\ l.algos = {}
    BY <2>2 DEF Idle
  <2>4. Knows(l)
    BY <2>3, Mind DEF Knows
  <2>5. private.cleanup.stage # "NONE"
    BY <1>3 DEF StartCleanup, AppendCleanupSendStarted, AppendCleanup
  <2>6. Due(l)
    BY <2>3, <2>5, DueAt DEF SeenPCs, SamplePCs
  <2>7. Safe(l)
    BY <2>2 DEF Know, IInv, LocalFits
  <2> QED
    BY <2>1, <2>2, <2>4, <2>6, <2>7, KeepsBefore
<1>4. CASE ReconcileCleanup(w)
  <2>1. WorldGrows /\ Facts'
    BY <1>0, <1>4, CleanupGrows DEF ReconcileCleanup
  <2>2. PICK l : Know(w, l) /\ l = [Idle EXCEPT !.pc = "sample_order"]
    BY <1>4 DEF ReconcileCleanup
  <2>3. action = "CLOSE_SHORT"
    BY <1>0, <1>4 DEF ReconcileCleanup, AppendCleanupReconciled, AppendCleanup, Facts, SwapFits
  <2>4. Safe(l)
    BY <2>2 DEF Know, IInv, LocalFits
  <2> QED
    BY <2>1, <2>2, <2>3, <2>4, SampleDue, KeepsBefore
<1> QED
  BY <1>1, <1>2, <1>3, <1>4

-----------------------------------------------------------------------------
\* The samples.
LEMMA SamplesKeep ==
  ASSUME IInv, IInv', JInv, NEW w \in Runs,
         SampleOrder(w) \/ SamplePosition(w) \/ SampleAlgos(w)
  PROVE  JInv'
<1>0. Query
  BY DEF SampleOrder, SamplePosition, SampleAlgos
<1>1. CASE SampleOrder(w)
  <2>1. PICK l : /\ Know(w, l)
                 /\ l = [Idle EXCEPT !.pc = "sample_position", !.order = order,
                                     !.id = local[w].id]
    BY <1>1 DEF SampleOrder
  <2>2. /\ l.pc = "sample_position" /\ l.order = order /\ l.id = local[w].id
        /\ l.fills = 0 /\ l.algos = {}
    BY <2>1 DEF Idle
  <2>3. Sampled(order) /\ order.status # "NONE"
    BY <1>1, Numbers DEF Sampled, SampleOrder
  <2>4. Perpetual /\ (action = "CLOSE_SHORT" => local[w].id = 0)
    BY <1>1, Mind DEF SampleOrder, At, Due, SamplePCs
  <2>5. Knows(l) /\ Due(l)
    BY <2>2, <2>3, <2>4, Mind DEF Knows, Due, SeenPCs, SamplePCs
  <2> QED
    BY <1>0, <2>1, <2>5, QueryKeeps
<1>2. CASE SamplePosition(w)
  <2>1. PICK l : Know(w, l) /\ l = [local[w] EXCEPT !.pc = "sample_algos", !.position = short]
    BY <1>2 DEF SamplePosition
  <2>2. /\ l.pc = "sample_algos" /\ l.order = local[w].order /\ l.id = local[w].id
        /\ l.fills = local[w].fills /\ l.algos = local[w].algos
    BY <2>1, Mind DEF LocalType
  <2>3. /\ local[w].order.status # "NONE"
        /\ Perpetual /\ (action = "CLOSE_SHORT" => local[w].id = 0)
    BY <1>2, Mind DEF SamplePosition, At, Due, SamplePCs, SeenPCs
  <2>4. Knows(l) /\ Due(l)
    BY <2>2, <2>3, Mind DEF Knows, Due, SeenPCs, SamplePCs
  <2> QED
    BY <1>0, <2>1, <2>4, QueryKeeps
<1>3. CASE SampleAlgos(w)
  <2>1. PICK l : Know(w, l) /\ l = [local[w] EXCEPT !.pc = "capture", !.algos = ActiveStops]
    BY <1>3 DEF SampleAlgos
  <2>2. /\ l.pc = "capture" /\ l.order = local[w].order /\ l.id = local[w].id
        /\ l.fills = local[w].fills
    BY <2>1, Mind DEF LocalType
  <2>3. /\ local[w].order.status # "NONE"
        /\ Perpetual /\ (action = "CLOSE_SHORT" => local[w].id = 0)
    BY <1>3, Mind DEF SampleAlgos, At, Due, SamplePCs, SeenPCs
  <2>4. Knows(l) /\ Due(l)
    BY <2>2, <2>3, Mind DEF Knows, Due, SeenPCs, SamplePCs, Perpetual
  <2> QED
    BY <1>0, <2>1, <2>4, QueryKeeps
<1> QED
  BY <1>1, <1>2, <1>3

\* The capture of the samples, and the reconciliation of what was captured.
LEMMA CaptureKeeps ==
  ASSUME IInv, IInv', JInv, NEW w \in Runs, Capture(w)
  PROVE  JInv'
<1>1. PICK k : k = local[w] /\ Knows(k) /\ Due(k) /\ k.pc = "capture"
  BY Mind DEF Capture, At
<1>2. /\ Sampled(k.order) /\ k.order.status # "NONE"
      /\ (action = "CLOSE_SHORT" => k.id = 0)
      /\ (action = "SPOT" => k.algos = {})
  BY <1>1 DEF Knows, Due, SeenPCs
<1>3. WorldGrows /\ Facts' /\ private'.stage \in ClosingStages
  BY <1>1, <1>2, CaptureGrows DEF Capture, JInv
<1>4. PICK l : Know(w, l) /\ l = [Idle EXCEPT !.pc = "reconcile"]
  BY DEF Capture
<1>5. l.pc = "reconcile" /\ l.order = NoOrder /\ l.fills = 0 /\ l.algos = {}
  BY <1>4 DEF Idle
<1>6. Knows(l)'
  <2>1. Knows(l) /\ l \in LocalType
    BY <1>4, <1>5, Mind DEF Knows, Know, IInv, LocalFits
  <2> QED
    BY <1>3, <2>1, KnowsStays
<1>7. Due(l)'
  BY <1>3, <1>5 DEF Due, SeenPCs, SamplePCs
<1> QED
  BY <1>3, <1>4, <1>6, <1>7, KeepsAfter

\* The verdict on the capture, and the reconciliation of the balance.
LEMMA ReconcileKeeps ==
  ASSUME IInv, IInv', JInv, NEW w \in Runs, Reconcile(w) \/ RecordBalance(w)
  PROVE  JInv'
<1>1. CASE Reconcile(w) /\ AppendStage("RECONCILIATION_FAILED") /\ Leave(w)
  <2>1. WorldGrows /\ Facts'
    BY <1>1, StageGrows DEF Reconcile, MainStages, Final, JInv
  <2> QED
    BY <1>1, <2>1, LeaveLight, LightKeeps
<1>2. CASE /\ Reconcile(w)
           /\ VenueAgrees(private.capture) /\ Goto(w, "balance") /\ UNCHANGED private
  <2>1. PICK l : Know(w, l) /\ l = [local[w] EXCEPT !.pc = "balance"]
    BY <1>2 DEF Goto
  <2>2. /\ l.pc = "balance" /\ l.order = local[w].order
        /\ l.fills = local[w].fills /\ l.algos = local[w].algos
    BY <2>1, Mind DEF LocalType
  <2>3. Knows(l)
    BY <2>2, Mind DEF Knows
  <2>4. private.stage \in ClosingStages /\ Agreed
    BY <1>2, Mind DEF Reconcile, At, Due, Agreed
  <2>5. Due(l)
    BY <2>2, <2>4, DueAt DEF SeenPCs, SamplePCs
  <2>6. Query
    BY <1>2 DEF Reconcile, Appending, Query
  <2> QED
    BY <2>1, <2>3, <2>5, <2>6, QueryKeeps
<1>3. CASE RecordBalance(w)
  <2>1. Agreed
    BY <1>3, Mind DEF RecordBalance, At, Due
  <2>2. WorldGrows /\ Facts'
    BY <1>3, <2>1, StageGrows DEF RecordBalance, MainStages, Closing, JInv
  <2>3. LightMove(w)
    BY <1>3, GotoLight, EasyPCs DEF RecordBalance
  <2> QED
    BY <2>2, <2>3, LightKeeps
<1> QED
  BY <1>1, <1>2, <1>3 DEF Reconcile

-----------------------------------------------------------------------------
\* The invariant holds at the start.
LEMMA InitFacts ==
  Init => JInv
<1> SUFFICES ASSUME Init PROVE JInv
  OBVIOUS
<1>0. /\ order = [status |-> "NONE", filled |-> 0]
      /\ short = IF action = "CLOSE_SHORT" THEN Quantity ELSE 0
      /\ stops = [i \in Ids |-> IF i = 0 /\ action = "CLOSE_SHORT" THEN "NEW" ELSE "NONE"]
      /\ wire = {}
      /\ Quantity \in Nat /\ Quantity > 0
  BY LogAssumption DEF Init, VenueInit
<1>1. /\ private.stage = "NONE" /\ private.order = "NONE" /\ private.fills = 0
      /\ private.stop = NoStop /\ private.phase = "NONE" /\ private.candidate = NoStop
      /\ private.emergency = NoFlatten /\ private.cleanup = NoCleanup
      /\ private.capture = NoCapture
  BY DEF Init, LogInit
<1>2. LogFollowsVenue /\ OrderFits
  BY <1>0, <1>1 DEF LogFollowsVenue, OrderFits, OrderEnds
<1>3. Sampled(NoOrder)
  BY <1>0 DEF Sampled, NoOrder
<1>4. CaptureFits
  BY <1>0, <1>1, <1>3 DEF CaptureFits, NoCapture, NoOrder, ClosingStages, Closing, Final
<1>5. SwapFits
  BY <1>1 DEF SwapFits, NoStop, NoCleanup
<1>6. CancelFits
  BY <1>0 DEF CancelFits
<1>7. GenerationsEnd
  BY <1>1, LogAssumption DEF GenerationsEnd, NoFlatten, Generations
<1>8. Knows(Idle) /\ Due(Idle)
  <2>1. Idle.pc = "idle" /\ Idle.order = NoOrder /\ Idle.fills = 0 /\ Idle.algos = {}
    BY DEF Idle
  <2> QED
    BY <1>0, <1>1, <1>3, <2>1 DEF Knows, Due, SeenPCs, SamplePCs
<1> QED
  BY <1>2, <1>4, <1>5, <1>6, <1>7, <1>8 DEF JInv, Facts, Init

\* Every step keeps the invariant.
LEMMA NextKeepsFacts ==
  ASSUME IInv, IInv', JInv, [Next]_vars
  PROVE  JInv'
<1>1. ASSUME NEW w \in Runs, SendSteps(w)
      PROVE  JInv'
  BY <1>1, LightStages, LightQueries, LightSends, LaunchKeeps DEF SendSteps
<1>2. ASSUME NEW w \in Runs, ObserveSteps(w)
      PROVE  JInv'
  BY <1>2, QueryOrderKeeps, RecordQueriedKeeps, PlanEventsKeeps, ApplyEventKeeps,
     ReplayFillsKeeps
  DEF ObserveSteps
<1>3. ASSUME NEW w \in Runs, StopSteps(w)
      PROVE  JInv'
  BY <1>3, EnsureKeeps, StopQueriesKeep, LightStops, LightQueries, LightSends,
     AcknowledgeStopKeeps, StartCancelKeeps
  DEF StopSteps
<1>4. ASSUME NEW w \in Runs, FlattenSteps(w)
      PROVE  JInv'
  BY <1>4, LightFlattens, LightQueries, LightSends, FlattenQueriesKeep DEF FlattenSteps
<1>5. ASSUME NEW w \in Runs, CleanupSteps(w)
      PROVE  JInv'
  BY <1>5, CleanupNextKeeps, CleanupAppendsKeep, LightQueries, LightSends DEF CleanupSteps
<1>6. ASSUME NEW w \in Runs, FinishSteps(w)
      PROVE  JInv'
  BY <1>6, SamplesKeep, CaptureKeeps, ReconcileKeeps, LightStages DEF FinishSteps
<1>7. CASE VenueStep
  <2>1. WorldGrows /\ Facts'
    BY <1>7, VenueGrows DEF VenueStep, JInv
  <2> QED
    BY <1>7, <2>1, KeepsAlone DEF VenueStep
<1>8. CASE UNCHANGED vars
  <2>1. WorldGrows /\ Facts'
    BY <1>8, QueryGrows DEF vars, JInv
  <2> QED
    BY <1>8, <2>1, KeepsAlone DEF vars
<1> QED
  BY <1>1, <1>2, <1>3, <1>4, <1>5, <1>6, <1>7, <1>8 DEF Next

\* Both invariants hold always.
LEMMA AlwaysJInv ==
  Spec => [](IInv /\ JInv)
<1>1. Init => IInv /\ JInv
  BY InitFits, InitFacts
<1>2. IInv /\ JInv /\ [Next]_vars => IInv' /\ JInv'
  BY NextKeeps, NextKeepsFacts
<1> QED
  BY <1>1, <1>2, PTL DEF Spec

-----------------------------------------------------------------------------
\* However many processes record what they saw of the order, and in whatever order: the log
\* never holds more fills than the exchange, nor an end that the order has not reached, and
\* an order that is recorded as filled is recorded with all of its fills.
THEOREM LogIsNeverAhead == Spec => []LogFollowsVenue
<1>1. JInv => LogFollowsVenue
  BY DEF JInv, Facts
<1> QED
  BY <1>1, AlwaysJInv, PTL

\* From the first reconciled stop to the cleanup, a stop that was seen is active or was
\* triggered: nothing cancels the old one before the new one is reconciled, nor the new one.
THEOREM ReplacementsLeaveNoGap == Spec => []ReplacementLeavesNoGap
<1>1. ASSUME IInv, JInv
      PROVE  ReplacementLeavesNoGap
  <2> SUFFICES ASSUME private.stop.stage = "RECONCILED", private.cleanup = NoCleanup
               PROVE  \E i \in Ids : stops[i] \in {"NEW", "FINISHED"}
    BY DEF ReplacementLeavesNoGap
  <2> DEFINE s == private.stop
             c == private.candidate
  <2>1. /\ s.id \in Ids /\ c.id \in Ids
        /\ \A i \in Ids : stops[i] \in {"NONE", "NEW", "CANCELED", "FINISHED"}
        /\ private.phase \in PhaseType
    BY <1>1 DEF IInv, LogFits, LogTypeOK, StopType, VenueFits, VenueTypeOK, Ids
  <2>2. stops[s.id] # "NONE" /\ (c.stage = "RECONCILED" => stops[c.id] # "NONE")
    BY <1>1 DEF JInv, Facts, SwapFits
  <2>3. \A i \in Ids : stops[i] = "CANCELED" => Cancelable(i)
    BY <1>1 DEF JInv, Facts, CancelFits
  <2>4. CASE private.phase \in {"NONE", "STARTED"}
    BY <2>1, <2>2, <2>3, <2>4 DEF Cancelable, Cancelling
  <2>5. CASE private.phase = "CANCEL_SEND_STARTED"
    <3>1. c.stage = "RECONCILED"
      BY <1>1, <2>5 DEF JInv, Facts, SwapFits
    <3>2. c.id = private.new
      BY <1>1, <3>1 DEF IInv, LogFits, StopFits, NoStop
    <3> QED
      BY <2>1, <2>2, <2>3, <3>1, <3>2 DEF Cancelable
  <2>6. CASE private.phase = "SUCCEEDED"
    <3>1. s.id = private.new
      BY <1>1, <2>6 DEF JInv, Facts, SwapFits
    <3> QED
      BY <2>1, <2>2, <2>3, <3>1 DEF Cancelable
  <2> QED
    BY <2>1, <2>4, <2>5, <2>6 DEF PhaseType
<1> QED
  BY <1>1, AlwaysJInv, PTL

\* What is recorded as reconciled is so at the exchange, although its documents were sampled
\* one by one while the exchange went on: an order that was seen to have ended stays as it
\* was, and what a close took from the short does not come back.
THEOREM ReconciliationsAreTrue == Spec => []ReconciledIsTrue
<1>1. ASSUME IInv, JInv
      PROVE  ReconciledIsTrue
  <2> DEFINE c == private.capture
  <2> SUFFICES ASSUME private.stage = "RECONCILIATION_SUCCEEDED"
               PROVE  /\ OrderEnded
                      /\ order.filled = private.fills
                      /\ action = "CLOSE_SHORT" => short = 0
                      /\ ActiveStops \cap c.algos \subseteq IF c.position > 0 THEN {c.stop} ELSE {}
    BY DEF ReconciledIsTrue
  <2>1. /\ FactsHold(c) /\ VenueAgrees(c) /\ Sampled(c.order)
        /\ c.order.status # "NONE"
        /\ action = "CLOSE_SHORT" => c.stop = 0
        /\ action = "SPOT" => c.algos = {}
    BY <1>1 DEF JInv, Facts, CaptureFits, Agreed, ClosingStages, Final
  <2>2. c.order.status \in {"FILLED", "CANCELED", "REJECTED"} /\ c.order.filled = private.fills
    BY <1>1, <2>1, Numbers DEF VenueAgrees, OrderType
  <2>3. OrderEnded /\ order.filled = private.fills
    BY <2>1, <2>2 DEF Sampled, OrderEnded
  <2>4. action = "CLOSE_SHORT" => short = 0
    <3> SUFFICES ASSUME action = "CLOSE_SHORT" PROVE short = 0
      OBVIOUS
    <3>1. /\ c.position = Quantity - private.fills
          /\ c.position > 0 => c.stop # 0
      BY <2>1 DEF FactsHold, Perpetual
    <3>2. /\ c.position \in Nat /\ private.fills \in Nat /\ Quantity \in Nat /\ short \in Nat
          /\ short + order.filled <= Quantity
      BY <1>1, Numbers DEF JInv, Facts, OrderFits
    <3>3. c.position = 0
      BY <2>1, <3>1, <3>2
    <3> QED
      BY <2>3, <3>1, <3>2, <3>3
  <2>5. ActiveStops \cap c.algos \subseteq IF c.position > 0 THEN {c.stop} ELSE {}
    BY <2>1 DEF VenueAgrees, Perpetual
  <2> QED
    BY <2>3, <2>4, <2>5
<1> QED
  BY <1>1, AlwaysJInv, PTL

\* A flatten order that may still trade is never followed by another one: whatever was sent is
\* in the log, and the log goes on to the next generation only after the end was seen.
THEOREM FlattensFollowOneAnother == Spec => []OneFlattenAtATime
<1>1. ASSUME IInv, JInv
      PROVE  OneFlattenAtATime
  <2> SUFFICES ASSUME NEW g \in Generations, g > 1, sends[<<"flatten", g>>] > 0
               PROVE  FlattenEnded(g - 1)
    BY DEF OneFlattenAtATime
  <2>1. FlattenPast(g)
    BY <1>1 DEF IInv, WrittenBeforeSent
  <2>2. /\ g - 1 \in Generations
        /\ private.emergency.generation \in Nat
        /\ g - 1 < g
    BY <1>1, LogAssumption DEF Generations, IInv, LogFits, LogTypeOK, FlattenType
  <2>3. g - 1 < private.emergency.generation
    BY <2>1, <2>2 DEF FlattenPast, Generations
  <2> QED
    BY <1>1, <2>2, <2>3 DEF JInv, Facts, GenerationsEnd
<1> QED
  BY <1>1, AlwaysJInv, PTL

=============================================================================
