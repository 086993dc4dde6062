----------------------------- MODULE EventStore -----------------------------
(***************************************************************************)
(* The event store of the replacement runtime                              *)
(* (challenger_replacement_events.py): a directory with one file for each  *)
(* event, written by any number of processes without a lock.  A process    *)
(* replays the directory (replay_challenger_replacement_events) and        *)
(* publishes an event (publish_challenger_replacement_event); every system *)
(* call whose place among those of other processes matters is a step.      *)
(*                                                                         *)
(* An event carries its sequence number and the hash of its parent.  It is *)
(* represented by the whole history it closes: the number is the length,   *)
(* the parent is the history without its last body, and two events are     *)
(* equal exactly when their bytes are.                                     *)
(*                                                                         *)
(* Bounds of the model: MaxEvents is the number of file names; the guards  *)
(* of the module that drives the store keep it from being reached.         *)
(***************************************************************************)
EXTENDS Naturals, Sequences, SequencesExt

CONSTANTS
    Processes,
    MaxEvents,
    NoFile          \* a name that has no file

ASSUME StoreAssumption == MaxEvents \in Nat

VARIABLES
    files,      \* what the final names show to every process
    synced,     \* the final names that a loss of power leaves
    orphans,    \* is there a staging file that no process will rename any more?
    call        \* the call of the store that each process is in

storeVars == <<files, synced, orphans, call>>

Positions == 1 .. MaxEvents

Idle == [pc |-> "none", listed |-> {}, staged |-> {}, event |-> <<>>]

StoreInit ==
    /\ files = [n \in Positions |-> NoFile]
    /\ synced = {}
    /\ orphans = FALSE
    /\ call = [p \in Processes |-> Idle]

Finals == {n \in Positions : files[n] # NoFile}

\* The processes whose staging file is there, and will be renamed.
Staging == {p \in Processes : call[p].pc = "rename"}

-----------------------------------------------------------------------------
(* Replay: the names are listed, then the files are looked at, then the    *)
(* directory is synced and the history is returned.  A process lists at    *)
(* the step that asks for the replay, which may be as late as any.         *)

Listed ==
    [Idle EXCEPT !.pc = "replay", !.listed = Finals,
                 !.staged = Staging \cup IF orphans THEN {"orphan"} ELSE {}]

\* Numbers without a gap, each event with its own number and on its parent.
Chained(names) ==
    /\ \A n \in names : 1 .. n \subseteq names
    /\ \A n \in names :
        /\ Len(files[n].event) = n
        /\ n > 1 => Front(files[n].event) = files[n - 1].event

HistoryOf(names) ==
    IF names = {} THEN <<>> ELSE files[CHOOSE n \in names : \A m \in names : m <= n].event

\* Mutant: what a replay returns may not be durable yet.
ReplayedUnsynced(p, log) ==
    /\ call[p].pc = "replay"
    /\ Chained(call[p].listed)
    /\ log = HistoryOf(call[p].listed)
    /\ UNCHANGED synced

\* A file never changes once it has its final name, so that reading them takes one step.  The
\* sync covers every name of the directory, the ones that came after the listing too.
Replayed(p, log) ==
    /\ call[p].pc = "replay"
    /\ Chained(call[p].listed)
    /\ log = HistoryOf(call[p].listed)
    /\ synced' = IF log = <<>> THEN synced ELSE Finals

\* A file that does not fit, or a staging file that was listed and has been renamed since:
\* looking at it fails.
ReplayRaises(p) ==
    /\ call[p].pc = "replay"
    /\ \/ ~Chained(call[p].listed)
       \/ call[p].staged \ {"orphan"} # {} /\ Finals # call[p].listed
    /\ UNCHANGED synced

-----------------------------------------------------------------------------
(* Publication. *)

Holds(event) == Len(event) \in Finals /\ files[Len(event)].event = event

\* The name is there already with the same bytes, which are only to be confirmed.
Repeats(event) == Holds(event)

\* The name is there already with other bytes: a conflict, which raises.
Conflicts(event) == Len(event) \in Finals /\ ~Holds(event)

\* The final name is looked for; if it is free, the staging file is created, written, read
\* back and synced.
Publishing(event) ==
    [Idle EXCEPT !.pc = IF Repeats(event) THEN "confirm" ELSE "rename", !.event = event]

\* Mutant: the staging file is not synced before it is renamed.
UnsyncedFile(event) == [event |-> event, flushed |-> FALSE]

StagedFile(event) == [event |-> event, flushed |-> TRUE]

\* Mutant: a plain rename, which replaces what it finds.
RenameOver(p) ==
    /\ call[p].pc = "rename"
    /\ files' = [files EXCEPT ![Len(call[p].event)] = StagedFile(call[p].event)]
    /\ call' = [call EXCEPT ![p].pc = "confirm"]
    /\ UNCHANGED <<synced, orphans>>

\* RENAME_NOREPLACE takes a free name only.
Rename(p) ==
    /\ call[p].pc = "rename"
    /\ Len(call[p].event) \notin Finals
    /\ files' = [files EXCEPT ![Len(call[p].event)] = StagedFile(call[p].event)]
    /\ call' = [call EXCEPT ![p].pc = "confirm"]
    /\ UNCHANGED <<synced, orphans>>

\* Too late, with the same event.  Nothing removes the staging file.
RenameRepeats(p) ==
    /\ call[p].pc = "rename"
    /\ Repeats(call[p].event)
    /\ orphans' = TRUE
    /\ call' = [call EXCEPT ![p].pc = "confirm"]
    /\ UNCHANGED <<files, synced>>

\* Too late, with another event.  Nothing removes the staging file.
RenameConflicts(p) ==
    /\ call[p].pc = "rename"
    /\ Conflicts(call[p].event)
    /\ orphans' = TRUE
    /\ UNCHANGED <<files, synced>>

\* The directory is synced and the file is read once more before the caller is told.
Published(p) ==
    /\ call[p].pc = "confirm"
    /\ Holds(call[p].event)
    /\ synced' = Finals
    /\ UNCHANGED <<files, orphans>>

-----------------------------------------------------------------------------
(* Faults. *)

\* A process dies, or a system call fails and the call raises, at any point.
Die(p) ==
    /\ call[p].pc # "none"
    /\ call' = [call EXCEPT ![p] = Idle]
    /\ orphans' = (orphans \/ p \in Staging)
    /\ UNCHANGED <<files, synced>>

\* What a file holds after a loss of power when it was not synced.
Survivor(file) == IF file.flushed THEN file ELSE [event |-> <<>>, flushed |-> TRUE]

\* A loss of power ends every process.  Names that were not synced may be gone, their
\* staging names may be back, and files that were not synced have lost their content.
\* An orphan that is gone too leaves what a process leaves that died before it staged.
PowerLoss ==
    /\ \E kept \in SUBSET (Finals \ synced) :
         /\ files' = [n \in Positions |-> IF n \in synced \cup kept THEN Survivor(files[n])
                                          ELSE NoFile]
         /\ synced' = synced \cup kept
         /\ \/ UNCHANGED orphans
            \/ /\ Staging # {} \/ kept # Finals \ synced
               /\ orphans' = TRUE
    /\ call' = [p \in Processes |-> Idle]

=============================================================================
