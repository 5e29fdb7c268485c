----------------------------- MODULE Transaction -----------------------------
(* The journaled file transaction of internal/safefs (transaction.go, with the *)
(* Copy and AtomicWrite of files.go), one system call that another actor could *)
(* observe per step, and a process that may die between any two of them.       *)
(*                                                                             *)
(* An operation locks the manager directory, recovers what an earlier one left *)
(* (Recover), begins a transaction, changes any paths in any order, and commits*)
(* or rolls back, as installer/commit.go does with its deferred rollback.      *)
(*                                                                             *)
(* Simplifications. A file's bytes and mode are one value of Content. One      *)
(* transaction directory exists at a time: every Begin in src/ runs under the  *)
(* manager lock after a successful Recover. The snapshots of a transaction are *)
(* of distinct paths, so they are kept as a function of the path and restored  *)
(* in any order, which includes the code's reverse order. What a system call   *)
(* that fails had done by then is a choice: see Faults.                        *)

EXTENDS Naturals

CONSTANTS Path,       \* destination files
          Content,    \* contents of a regular file, its mode included
          Absent,     \* the value of a path that has no file
          NoPath,     \* no call is in progress
          Faults,     \* the kinds of failure that may occur
          MaxFaults   \* bound on failures and crashes in a behaviour

\* early      a call fails before it has any effect
\* sync       a rename takes effect and the directory sync after it fails
\* commitSync the same, for the journal write of Commit
\* restore    restoring one snapshot fails, before or after its effect
\* clear      RemoveAll of a transaction directory gives up part way
\* tornClear  the process dies inside such a RemoveAll
FaultKind == {"early", "sync", "commitSync", "restore", "clear", "tornClear"}

ASSUME ConstantsAssumption ==
  /\ Absent \notin Content
  /\ NoPath \notin Path
  /\ Faults \subseteq FaultKind
  /\ MaxFaults \in Nat

VARIABLES
  disk,     \* the destination files
  status,   \* the transaction directory: see Status
  snaps,    \* the snapshots journal.json lists
  backup,   \* the backup files %06d, by the path they back up
  mem,      \* Transaction.snapshots and .seen, in memory
  pc,       \* where the operation is: see PC
  target,   \* the destination of the call in progress
  todo,     \* snapshots still to be restored
  err,      \* rollbackSnapshots has met an error
  outcome,  \* what the operation that ended last told its caller
  faults,   \* failures and crashes so far
  base      \* history: the destination files when the transaction began

dirVars  == <<status, snaps, backup>>
callVars == <<target, todo, err>>
vars == <<disk, dirVars, mem, pc, callVars, outcome, faults, base>>

Value == Content \cup {Absent}

\* no directory; a directory without journal.json; and the journal's two states
Status == {"nodir", "nojournal", "open", "committed"}

\* how a snapshot found its path: not taken, no file there, or a file (backed up)
Snap == {"unseen", "none", "file"}

\* down: no operation holds the lock. recovering, sweep: in Recover. ready: locked
\* and recovered. body: between calls. journal, mutate: inside one. failed: a call
\* returned an error. rolling, forget: in Rollback. discard: in Commit.
PC == {"down", "recovering", "sweep", "ready", "body", "journal", "mutate",
       "failed", "rolling", "forget", "discard"}

Outcome == {"none", "changed", "rolled_back", "rollback_failed"}

TypeOK == /\ disk \in [Path -> Value]
          /\ status \in Status
          /\ snaps \in [Path -> Snap]
          /\ backup \in [Path -> Value]
          /\ mem \in [Path -> Snap]
          /\ pc \in PC
          /\ target \in Path \cup {NoPath}
          /\ todo \in SUBSET Path
          /\ err \in BOOLEAN
          /\ outcome \in Outcome
          /\ faults \in Nat
          /\ base \in [Path -> Value]

Unseen   == [p \in Path |-> "unseen"]
NoBackup == [p \in Path |-> Absent]
Taken(s) == {p \in Path : s[p] # "unseen"}

Init == /\ disk \in [Path -> Value]
        /\ status = "nodir" /\ snaps = Unseen /\ backup = NoBackup
        /\ mem = Unseen
        /\ pc = "down"
        /\ target = NoPath /\ todo = {} /\ err = FALSE
        /\ outcome = "none"
        /\ faults = 0
        /\ base = disk

Fault(kind) == /\ kind \in Faults
               /\ faults < MaxFaults
               /\ faults' = faults + 1

-----------------------------------------------------------------------------
(* acquireManager: the lock, then Recover.                                     *)

\* No transaction directory matches the glob.
RecoverNothing == /\ pc = "down" /\ status = "nodir"
                  /\ pc' = "ready"
                  /\ outcome' = "none"
                  /\ UNCHANGED <<disk, dirVars, mem, callVars, faults, base>>

\* Mutant of RecoverClosed: what is not to be rolled back is left where it is.
RecoverClosedSkips ==
  /\ pc = "down" /\ status \in {"nojournal", "committed"}
  /\ pc' = "ready"
  /\ outcome' = "none"
  /\ UNCHANGED <<disk, dirVars, mem, callVars, faults, base>>

\* No journal was ever written, or the journal says committed: only clean up.
RecoverClosed == /\ pc = "down" /\ status \in {"nojournal", "committed"}
                 /\ pc' = "sweep"
                 /\ outcome' = "none"
                 /\ UNCHANGED <<disk, dirVars, mem, callVars, faults, base>>

\* Mutant of RecoverOpen: the status of the journal is not looked at.
RecoverAnyStatus ==
  /\ pc = "down" /\ status \in {"open", "committed"}
  /\ pc' = "recovering"
  /\ todo' = Taken(snaps) /\ err' = FALSE
  /\ outcome' = "none"
  /\ UNCHANGED <<disk, dirVars, mem, target, faults, base>>

RecoverOpen == /\ pc = "down" /\ status = "open"
               /\ pc' = "recovering"
               /\ todo' = Taken(snaps) /\ err' = FALSE
               /\ outcome' = "none"
               /\ UNCHANGED <<disk, dirVars, mem, target, faults, base>>

-----------------------------------------------------------------------------
(* Begin and the calls of an operation.                                        *)

Begin == /\ pc = "ready"
         /\ pc' = "body"
         /\ status' = "nojournal"
         /\ base' = disk
         /\ UNCHANGED <<disk, snaps, backup, mem, callVars, outcome, faults>>

\* The parent cannot be synced; removing the new directory is best effort.
BeginFails == /\ pc = "ready"
              /\ Fault("early")
              /\ pc' = "down"
              /\ status' \in {"nodir", "nojournal"}
              /\ UNCHANGED <<disk, snaps, backup, mem, callVars, outcome, base>>

\* The operation stops before it begins a transaction.
Release == /\ pc = "ready"
           /\ pc' = "down"
           /\ UNCHANGED <<disk, dirVars, mem, callVars, outcome, faults, base>>

\* Mutant of PrepareSeen: a second call on a path snapshots it again.
PrepareAgain(p) == /\ pc = "body" /\ mem[p] # "unseen"
                   /\ pc' = "mutate" /\ target' = p
                   /\ backup' = [backup EXCEPT ![p] = disk[p]]
                   /\ UNCHANGED <<disk, status, snaps, mem, todo, err, outcome, faults, base>>

\* prepare, first half: a path seen before is not snapshotted again.
PrepareSeen(p) == /\ pc = "body" /\ mem[p] # "unseen"
                  /\ pc' = "mutate" /\ target' = p
                  /\ UNCHANGED <<disk, dirVars, mem, todo, err, outcome, faults, base>>

\* Otherwise the file there, if any, is copied into the transaction directory.
Prepare(p) == /\ pc = "body" /\ mem[p] = "unseen"
              /\ pc' = "journal" /\ target' = p
              /\ backup' = [backup EXCEPT ![p] = disk[p]]
              /\ mem' = [mem EXCEPT ![p] = IF disk[p] = Absent THEN "none" ELSE "file"]
              /\ UNCHANGED <<disk, status, snaps, todo, err, outcome, faults, base>>

\* The path is refused, or the copy fails, with or without its rename done.
PrepareFails(p) == /\ pc = "body" /\ mem[p] = "unseen"
                   /\ \/ Fault("early") /\ UNCHANGED backup
                      \/ Fault("sync") /\ backup' = [backup EXCEPT ![p] = disk[p]]
                   /\ pc' = "failed"
                   /\ UNCHANGED <<disk, status, snaps, mem, callVars, outcome, base>>

\* Mutant of PersistOpen: only the first snapshot is journaled.
PersistOnce == /\ pc = "journal"
               /\ IF status = "open" THEN UNCHANGED <<status, snaps>>
                  ELSE status' = "open" /\ snaps' = mem
               /\ pc' = "mutate"
               /\ UNCHANGED <<disk, backup, mem, callVars, outcome, faults, base>>

\* prepare, second half: persistJournal(open), before the caller mutates.
PersistOpen == /\ pc = "journal"
               /\ status' = "open" /\ snaps' = mem
               /\ pc' = "mutate"
               /\ UNCHANGED <<disk, backup, mem, callVars, outcome, faults, base>>

PersistOpenFails == /\ pc = "journal"
                    /\ \/ Fault("early") /\ UNCHANGED <<status, snaps>>
                       \/ Fault("sync") /\ status' = "open" /\ snaps' = mem
                    /\ pc' = "failed" /\ target' = NoPath
                    /\ UNCHANGED <<disk, backup, mem, todo, err, outcome, base>>

\* The change itself: Write, Copy and Chmod leave a file, Remove leaves none.
Mutate(v) == /\ pc = "mutate"
             /\ disk' = [disk EXCEPT ![target] = v]
             /\ pc' = "body" /\ target' = NoPath
             /\ UNCHANGED <<dirVars, mem, todo, err, outcome, faults, base>>

MutateFails(v) == /\ pc = "mutate"
                  /\ \/ Fault("early") /\ UNCHANGED disk
                     \/ Fault("sync") /\ disk' = [disk EXCEPT ![target] = v]
                  /\ pc' = "failed" /\ target' = NoPath
                  /\ UNCHANGED <<dirVars, mem, todo, err, outcome, base>>

\* The operation meets an error of its own between two calls.
GiveUp == /\ pc = "body"
          /\ pc' = "failed"
          /\ UNCHANGED <<disk, dirVars, mem, callVars, outcome, faults, base>>

-----------------------------------------------------------------------------
(* Commit and Rollback. Transaction.closed is pc \in {"discard", "forget"}.    *)

Commit == /\ pc = "body"
          /\ status' = "committed" /\ snaps' = mem
          /\ pc' = "discard"
          /\ UNCHANGED <<disk, backup, mem, callVars, outcome, faults, base>>

CommitFails == /\ pc = "body"
               /\ \/ Fault("early") /\ UNCHANGED <<status, snaps>>
                  \/ Fault("commitSync") /\ status' = "committed" /\ snaps' = mem
               /\ pc' = "failed"
               /\ UNCHANGED <<disk, backup, mem, callVars, outcome, base>>

\* Mutant of Rollback: the path of the failed call is restored too.
RollbackTarget == /\ pc = "failed"
                  /\ pc' = "rolling"
                  /\ todo' = Taken(mem) \cup {target} /\ err' = FALSE
                  /\ UNCHANGED <<disk, dirVars, mem, target, outcome, faults, base>>

\* The deferred rollback of commit.go, from the snapshots in memory.
Rollback == /\ pc = "failed"
            /\ pc' = "rolling"
            /\ todo' = Taken(mem) /\ err' = FALSE
            /\ UNCHANGED <<disk, dirVars, mem, target, outcome, faults, base>>

\* rollbackSnapshots works on the memory of the process or on the journal's list.
Restoring == IF pc = "rolling" THEN mem ELSE snaps

\* Restoring copies the backup over the path, which is then durable or reported.
CopyBack(p) == /\ Restoring[p] = "file" /\ backup[p] # Absent
               /\ disk' = [disk EXCEPT ![p] = backup[p]]

\* restoreSnapshot. A snapshot that should have a backup and has none is an error;
\* an error does not stop the loop.
Restore(p) == /\ pc \in {"rolling", "recovering"} /\ p \in todo
              /\ todo' = todo \ {p}
              /\ \/ /\ Restoring[p] = "none"
                    /\ disk' = [disk EXCEPT ![p] = Absent]
                    /\ UNCHANGED err
                 \/ /\ CopyBack(p)
                    /\ UNCHANGED err
                 \/ /\ Restoring[p] = "file" /\ backup[p] = Absent
                    /\ err' = TRUE
                    /\ UNCHANGED disk
              /\ UNCHANGED <<dirVars, mem, pc, target, outcome, faults, base>>

\* Mutant of RestoreFails: the error of one snapshot is dropped.
RestoreFailsSilently(p) ==
  /\ pc \in {"rolling", "recovering"} /\ p \in todo
  /\ Fault("restore")
  /\ todo' = todo \ {p}
  /\ UNCHANGED disk \/ CopyBack(p)
  /\ UNCHANGED <<dirVars, mem, pc, err, target, outcome, base>>

\* A restore fails without effect, or its copy is in place and the sync after fails.
RestoreFails(p) == /\ pc \in {"rolling", "recovering"} /\ p \in todo
                   /\ Fault("restore")
                   /\ todo' = todo \ {p} /\ err' = TRUE
                   /\ UNCHANGED disk \/ CopyBack(p)
                   /\ UNCHANGED <<dirVars, mem, pc, target, outcome, base>>

\* Mutant of RestoredBadly: the directory is removed whatever the restore said.
RestoredBadlyForgets ==
  /\ pc \in {"rolling", "recovering"} /\ todo = {} /\ err
  /\ outcome' = IF pc = "rolling" THEN "rollback_failed" ELSE outcome
  /\ pc' = "down" /\ mem' = Unseen /\ err' = FALSE
  /\ status' = "nodir" /\ snaps' = Unseen /\ backup' = NoBackup
  /\ UNCHANGED <<disk, target, todo, faults, base>>

\* Every snapshot was tried and one failed: the journal is kept for a later start.
RestoredBadly == /\ pc \in {"rolling", "recovering"} /\ todo = {} /\ err
                 /\ outcome' = IF pc = "rolling" THEN "rollback_failed" ELSE outcome
                 /\ pc' = "down" /\ mem' = Unseen /\ err' = FALSE
                 /\ UNCHANGED <<disk, dirVars, target, todo, faults, base>>

Restored == /\ pc \in {"rolling", "recovering"} /\ todo = {} /\ ~err
            /\ pc' = IF pc = "rolling" THEN "forget" ELSE "sweep"
            /\ UNCHANGED <<disk, dirVars, mem, callVars, outcome, faults, base>>

-----------------------------------------------------------------------------
(* os.RemoveAll of the transaction directory, entry by entry in no set order.  *)

Clearing == {"discard", "forget", "sweep"}

\* What the operation reports when the removal in Commit or Rollback is over. Its
\* caller then decides what becomes of a recovery backup: Installer, ForceUnreported.
Reported(inCommit, inRollback) == IF pc = "discard" THEN inCommit
                                  ELSE IF pc = "forget" THEN inRollback
                                  ELSE "none"

ClearBackup(p) == /\ pc \in Clearing /\ backup[p] # Absent
                  /\ backup' = [backup EXCEPT ![p] = Absent]
                  /\ UNCHANGED <<disk, status, snaps, mem, pc, callVars, outcome, faults, base>>

ClearJournal == /\ pc \in Clearing /\ status \in {"open", "committed"}
                /\ status' = "nojournal" /\ snaps' = Unseen
                /\ UNCHANGED <<disk, backup, mem, pc, callVars, outcome, faults, base>>

\* The empty directory goes last; Commit, Rollback or Recover then returns.
ClearDirectory ==
  /\ pc \in Clearing /\ status = "nojournal" /\ backup = NoBackup
  /\ status' = "nodir"
  /\ pc' = IF pc = "sweep" THEN "ready" ELSE "down"
  /\ outcome' = Reported("changed", "rolled_back")
  /\ mem' = Unseen
  /\ UNCHANGED <<disk, snaps, backup, callVars, faults, base>>

\* RemoveAll fails. After Commit the deferred Rollback finds the transaction closed
\* and returns nil, so the operation reports an error that was rolled back.
ClearFails ==
  /\ pc \in Clearing
  /\ Fault("clear")
  /\ pc' = "down"
  /\ outcome' = Reported("rolled_back", "rollback_failed")
  /\ mem' = Unseen
  /\ UNCHANGED <<disk, dirVars, callVars, base>>

\* The process dies; what is in memory is lost.
Crash == /\ pc # "down"
         /\ \/ pc \notin Clearing /\ faults < MaxFaults /\ faults' = faults + 1
            \/ pc \in Clearing /\ Fault("tornClear")
         /\ pc' = "down"
         /\ mem' = Unseen
         /\ target' = NoPath /\ todo' = {} /\ err' = FALSE
         /\ outcome' = "none"
         /\ UNCHANGED <<disk, dirVars, base>>

-----------------------------------------------------------------------------
Recovery == RecoverNothing \/ RecoverClosed \/ RecoverOpen

Restoration == \/ RestoredBadly \/ Restored
               \/ \E p \in Path : Restore(p) \/ RestoreFails(p)

Removal == \/ ClearJournal \/ ClearDirectory \/ ClearFails
           \/ \E p \in Path : ClearBackup(p)

Work == \/ Begin \/ BeginFails \/ Release \/ GiveUp
        \/ \E p \in Path : PrepareSeen(p) \/ Prepare(p) \/ PrepareFails(p)
        \/ PersistOpen \/ PersistOpenFails
        \/ \E v \in Value : Mutate(v) \/ MutateFails(v)

Next == \/ Recovery \/ Work \/ Commit \/ CommitFails \/ Rollback
        \/ Restoration \/ Removal \/ Crash

Spec == Init /\ [][Next]_vars

\* Every system call returns, an operation makes finitely many calls, and whoever
\* finds the lock free eventually starts another (the launcher runs recovery first).
Fairness == /\ WF_vars(Recovery) /\ WF_vars(Restoration) /\ WF_vars(Removal)
            /\ WF_vars(Begin \/ BeginFails \/ Release)
            /\ WF_vars(PersistOpen \/ PersistOpenFails)
            /\ WF_vars(\E v \in Value : Mutate(v) \/ MutateFails(v))
            /\ WF_vars(Rollback)
            /\ SF_vars(Commit \/ CommitFails \/ GiveUp)

FairSpec == Spec /\ Fairness

-----------------------------------------------------------------------------
(* Properties.                                                                 *)

Active == pc \in {"body", "journal", "mutate"}

\* What Recover would make of the destinations now: the snapshots of an open
\* journal whose backups are still there, and otherwise the files as they are.
Logical == [p \in Path |->
              IF status = "open" /\ snaps[p] = "none" THEN Absent
              ELSE IF status = "open" /\ snaps[p] = "file" /\ backup[p] # Absent
                   THEN backup[p]
              ELSE disk[p]]

\* A transaction is all or nothing for the operations after it, whatever fails
\* and wherever the process dies: the code implements AtomicStore.
Store == INSTANCE AtomicStore WITH
           store <- Logical,
           view <- IF Active THEN disk ELSE Logical,
           active <- Active

ImplementsAtomicStore == Store!ASpec

\* The journal holds what it takes to put p back as it was.
Recoverable(p) == \/ snaps[p] = "none" /\ base[p] = Absent
                  \/ snaps[p] = "file" /\ backup[p] = base[p] /\ base[p] # Absent

\* Write-ahead: as long as a transaction is open, on disk or in the process, a
\* destination differs from what it was only if the journal can put it back
\* ("Every destination mutation enters the transaction and a durable journal
\* before it happens").
WriteAhead ==
  status = "open" \/ (status = "nojournal" /\ (Active \/ pc \in {"failed", "rolling"}))
    => \A p \in Path : disk[p] = base[p] \/ (status = "open" /\ Recoverable(p))

\* An operation that reports failure and a completed rollback changed nothing.
OutcomeTruthful == outcome = "rolled_back" => disk = base

\* A rollback that failed keeps the open journal and the backup of every
\* destination that is not back as it was, so that recovery can try again.
FailedRollbackKeepsEvidence ==
  outcome = "rollback_failed" =>
    \A p \in Path : disk[p] = base[p] \/ (status = "open" /\ Recoverable(p))

\* Once the journal says committed nothing takes the operation back: neither the
\* deferred rollback nor a later recovery restores a snapshot.
CommitSticks == [][status = "committed" => disk' = disk]_vars

\* A start that finds an open journal rolls it back: when no restore itself fails,
\* no snapshot turns out to be impossible to restore.
RecoverySucceeds == ~(pc = "recovering" /\ err)

\* A transaction directory does not stay: what an interrupted operation left is
\* rolled back or discarded by some later start, and the lock is usable again.
InterruptedIsSettled == (status # "nodir") ~> (status = "nodir")
=============================================================================
