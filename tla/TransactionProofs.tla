-------------------------- MODULE TransactionProofs --------------------------
(* Theorems about Transaction, for any set of destinations, any contents and   *)
(* any number of failures and crashes.                                         *)

EXTENDS Transaction, TLAPS

Working == Active \/ pc \in {"failed", "rolling"}

\* What the transaction directory holds, by where the operation is.
DirInv == /\ status \in {"nodir", "nojournal"} => snaps = Unseen
          /\ status = "nodir" => backup = NoBackup /\ pc \in {"down", "ready"}
          /\ pc = "ready" => status = "nodir"
          /\ pc = "recovering" => status = "open"
          /\ pc = "discard" => status # "open"
          /\ Active => status # "committed"

\* The snapshots in memory are those of the journal, but for a call in progress.
MemInv == /\ pc \in {"down", "recovering", "sweep", "ready"} => mem = Unseen
          /\ pc \in {"body", "mutate"} => snaps = mem
          /\ pc = "journal" => \A p \in Path : p # target => snaps[p] = mem[p]
          /\ pc = "journal" => target \in Path /\ snaps[target] = "unseen"
                                               /\ mem[target] # "unseen"
          /\ pc = "mutate" => target \in Path /\ snaps[target] # "unseen"
          /\ pc \in {"failed", "rolling"} =>
               \A p \in Path : snaps[p] \in {"unseen", mem[p]}

\* While an operation works, its own snapshots are true.
SnapshotInv ==
  Working => \A p \in Path :
    /\ mem[p] = "unseen" => disk[p] = base[p]
    /\ mem[p] = "none" => base[p] = Absent
    /\ mem[p] = "file" => base[p] # Absent /\ backup[p] = base[p]

\* Whatever happens to the process, the journal says how each path was.
JournalInv ==
  status = "open" \/ (status = "nojournal" /\ Working) =>
    \A p \in Path :
      /\ snaps[p] = "unseen" => disk[p] = base[p]
      /\ snaps[p] = "none" => base[p] = Absent
      /\ snaps[p] = "file" => /\ base[p] # Absent
                              /\ \/ backup[p] = base[p]
                                 \/ backup[p] = Absent /\ disk[p] = base[p]

\* Restoring makes progress towards base, and ends there unless it failed.
RestoredInv ==
  /\ pc \in {"rolling", "recovering"} /\ ~err =>
       \A p \in Path : p \in todo \/ disk[p] = base[p]
  /\ pc = "forget" => disk = base
  /\ pc = "sweep" /\ status = "open" => disk = base

\* WriteAhead is not inductive: this is what makes it so.
IInv == DirInv /\ MemInv /\ SnapshotInv /\ JournalInv /\ RestoredInv

\* The initial state is well typed: a store at rest, with no transaction directory.
LEMMA TypeInit ==
  ASSUME Init
  PROVE  TypeOK
<1>1. disk \in [Path -> Value] /\ base \in [Path -> Value]
  BY DEF Init
<1>2. snaps \in [Path -> Snap] /\ mem \in [Path -> Snap]
  BY DEF Init, Unseen, Snap
<1>3. backup \in [Path -> Value]
  BY DEF Init, NoBackup, Value
<1>4. status \in Status /\ pc \in PC /\ outcome \in Outcome
  BY DEF Init, Status, PC, Outcome
<1>5. target \in Path \cup {NoPath} /\ todo \in SUBSET Path /\ err \in BOOLEAN
      /\ faults \in Nat
  BY DEF Init
<1> QED
  BY <1>1, <1>2, <1>3, <1>4, <1>5 DEF TypeOK

\* Every call of safefs, failed or not, and a crash anywhere keep the types.
LEMMA TypeStep ==
  ASSUME TypeOK, [Next]_vars
  PROVE  TypeOK'
<1> USE DEF TypeOK, Value, Snap, Status, PC, Outcome, dirVars, callVars, Unseen,
            NoBackup, Taken, Fault
<1>1. CASE Recovery
  BY <1>1 DEF Recovery, RecoverNothing, RecoverClosed, RecoverOpen
<1>2. CASE Work
  <2>1. CASE Begin \/ BeginFails \/ Release \/ GiveUp
    BY <1>2, <2>1 DEF Begin, BeginFails, Release, GiveUp
  <2>2. ASSUME NEW p \in Path, PrepareSeen(p) PROVE TypeOK'
    BY <2>2 DEF PrepareSeen
  <2>3. ASSUME NEW p \in Path, Prepare(p) PROVE TypeOK'
    BY <2>3 DEF Prepare
  <2>4. ASSUME NEW p \in Path, PrepareFails(p) PROVE TypeOK'
    BY <2>4 DEF PrepareFails
  <2>5. CASE PersistOpen
    BY <2>5 DEF PersistOpen
  <2>6. CASE PersistOpenFails
    BY <2>6 DEF PersistOpenFails
  <2>7. ASSUME NEW v \in Value, Mutate(v) PROVE TypeOK'
    BY <2>7 DEF Mutate
  <2>8. ASSUME NEW v \in Value, MutateFails(v) PROVE TypeOK'
    BY <2>8 DEF MutateFails
  <2> QED
    BY <1>2, <2>1, <2>2, <2>3, <2>4, <2>5, <2>6, <2>7, <2>8 DEF Work
<1>3. CASE Commit
  BY <1>3 DEF Commit
<1>4. CASE CommitFails
  BY <1>4 DEF CommitFails
<1>5. CASE Rollback
  BY <1>5 DEF Rollback
<1>6. CASE Restoration
  <2>1. ASSUME NEW p \in Path, Restore(p) PROVE TypeOK'
    BY <2>1 DEF Restore, CopyBack
  <2>2. ASSUME NEW p \in Path, RestoreFails(p) PROVE TypeOK'
    BY <2>2 DEF RestoreFails, CopyBack, Restoring
  <2>3. CASE RestoredBadly
    BY <2>3 DEF RestoredBadly
  <2>4. CASE Restored
    BY <2>4 DEF Restored
  <2> QED
    BY <1>6, <2>1, <2>2, <2>3, <2>4 DEF Restoration
<1>7. CASE Removal
  <2>1. ASSUME NEW p \in Path, ClearBackup(p) PROVE TypeOK'
    BY <2>1 DEF ClearBackup
  <2>2. CASE ClearJournal
    BY <2>2 DEF ClearJournal
  <2>3. CASE ClearDirectory
    BY <2>3 DEF ClearDirectory, Reported
  <2>4. CASE ClearFails
    BY <2>4 DEF ClearFails, Reported
  <2> QED
    BY <1>7, <2>1, <2>2, <2>3, <2>4 DEF Removal
<1>8. CASE Crash
  <2>1. faults' \in Nat
    BY <1>8 DEF Crash
  <2>2. pc' \in PC /\ mem' \in [Path -> Snap] /\ target' \in Path \cup {NoPath}
        /\ todo' \in SUBSET Path /\ err' \in BOOLEAN /\ outcome' \in Outcome
    BY <1>8 DEF Crash
  <2>3. UNCHANGED <<disk, status, snaps, backup, base>>
    BY <1>8 DEF Crash
  <2> QED
    BY <2>1, <2>2, <2>3
<1>9. CASE UNCHANGED vars
  BY <1>9 DEF vars
<1> QED
  BY <1>1, <1>2, <1>3, <1>4, <1>5, <1>6, <1>7, <1>8, <1>9 DEF Next

\* Every variable keeps its type.
THEOREM TypeCorrect == Spec => []TypeOK
  BY TypeInit, TypeStep, PTL DEF Spec

-----------------------------------------------------------------------------
\* The strengthening of WriteAhead holds before the first operation.
LEMMA InductiveInit == Init => IInv
  BY DEF Init, IInv, DirInv, MemInv, SnapshotInv, JournalInv, RestoredInv, Working, Active

\* Every step keeps it: the journal, the snapshots in memory and the backups agree on
\* how each destination was, whichever call failed or died.
LEMMA InductiveStep ==
  ASSUME TypeOK, IInv, [Next]_vars
  PROVE  IInv'
<1> USE DEF IInv, DirInv, MemInv, SnapshotInv, JournalInv, RestoredInv, Working, Active,
            TypeOK, dirVars, callVars, Fault, Unseen, Value
<1>1. CASE Recovery
  <2>1. CASE RecoverNothing
    BY <2>1 DEF RecoverNothing
  <2>2. CASE RecoverClosed
    BY <2>2 DEF RecoverClosed
  <2>3. CASE RecoverOpen
    BY <2>3 DEF RecoverOpen, Taken
  <2> QED
    BY <1>1, <2>1, <2>2, <2>3 DEF Recovery
<1>2. CASE Work
  <2>1. CASE Begin
    BY <2>1 DEF Begin
  <2>2. CASE BeginFails
    BY <2>2 DEF BeginFails
  <2>3. CASE Release
    BY <2>3 DEF Release
  <2>4. CASE GiveUp
    BY <2>4 DEF GiveUp
  <2>5. ASSUME NEW p \in Path, PrepareSeen(p) PROVE IInv'
    BY <2>5 DEF PrepareSeen
  <2>6. ASSUME NEW p \in Path, Prepare(p) PROVE IInv'
    BY <2>6 DEF Prepare
  <2>7. ASSUME NEW p \in Path, PrepareFails(p) PROVE IInv'
    BY <2>7 DEF PrepareFails
  <2>8. CASE PersistOpen
    BY <2>8 DEF PersistOpen
  <2>9. CASE PersistOpenFails
    BY <2>9 DEF PersistOpenFails
  <2>10. ASSUME NEW v \in Value, Mutate(v) PROVE IInv'
    BY <2>10 DEF Mutate
  <2>11. ASSUME NEW v \in Value, MutateFails(v) PROVE IInv'
    BY <2>11 DEF MutateFails
  <2> QED
    BY <1>2, <2>1, <2>2, <2>3, <2>4, <2>5, <2>6, <2>7, <2>8, <2>9, <2>10, <2>11 DEF Work
<1>3. CASE Restoration
  <2>1. ASSUME NEW p \in Path, Restore(p) PROVE IInv'
    BY <2>1 DEF Restore, CopyBack, Restoring
  <2>2. ASSUME NEW p \in Path, RestoreFails(p) PROVE IInv'
    BY <2>2 DEF RestoreFails, CopyBack, Restoring
  <2>3. CASE RestoredBadly
    BY <2>3 DEF RestoredBadly
  <2>4. CASE Restored
    BY <2>4 DEF Restored
  <2> QED
    BY <1>3, <2>1, <2>2, <2>3, <2>4 DEF Restoration
<1>4. CASE Removal
  <2>1. ASSUME NEW p \in Path, ClearBackup(p) PROVE IInv'
    BY <2>1 DEF ClearBackup, Clearing
  <2>2. CASE ClearJournal
    BY <2>2 DEF ClearJournal, Clearing
  <2>3. CASE ClearDirectory
    BY <2>3 DEF ClearDirectory
  <2>4. CASE ClearFails
    BY <2>4 DEF ClearFails
  <2> QED
    BY <1>4, <2>1, <2>2, <2>3, <2>4 DEF Removal
<1>5. CASE Commit
  BY <1>5 DEF Commit
<1>6. CASE CommitFails
  BY <1>6 DEF CommitFails
<1>7. CASE Rollback
  BY <1>7 DEF Rollback, Taken
<1>8. CASE Crash
  BY <1>8 DEF Crash
<1>9. CASE UNCHANGED vars
  BY <1>9 DEF vars
<1> QED
  BY <1>1, <1>2, <1>3, <1>4, <1>5, <1>6, <1>7, <1>8, <1>9 DEF Next

Inv == TypeOK /\ IInv

\* Together the two are an invariant of the transaction.
LEMMA Invariance == Spec => []Inv
<1>1. Init => Inv
  BY TypeInit, InductiveInit DEF Inv
<1>2. Inv /\ [Next]_vars => Inv'
  BY TypeStep, InductiveStep DEF Inv
<1> QED
  BY <1>1, <1>2, PTL DEF Spec

\* At every instant, in every failure and after every crash, a destination that an
\* unfinished transaction has changed can be put back from the durable journal.
THEOREM WriteAheadHolds == Spec => []WriteAhead
<1>1. Inv => WriteAhead
  BY DEF Inv, IInv, JournalInv, WriteAhead, Working, Active, Recoverable, TypeOK, Snap,
         DirInv, Unseen
<1> QED
  BY <1>1, Invariance, PTL

-----------------------------------------------------------------------------
(* What holds when the journal write of Commit is not left half done.          *)

\* The deferred rollback never runs against a committed journal.
UncommittedInv == pc \in {"failed", "rolling"} => status # "committed"

\* prepare, Commit and Rollback: an operation that failed has an uncommitted journal.
LEMMA Uncommitted ==
  ASSUME "commitSync" \notin Faults
  PROVE  Spec => []UncommittedInv
<1>1. Init => UncommittedInv
  BY DEF Init, UncommittedInv
<1>2. Inv /\ UncommittedInv /\ [Next]_vars => UncommittedInv'
  <2> SUFFICES ASSUME Inv, UncommittedInv, [Next]_vars PROVE UncommittedInv'
    OBVIOUS
  <2> USE DEF Inv, IInv, DirInv, UncommittedInv, Active, dirVars, callVars
  <2>1. CASE Recovery
    BY <2>1 DEF Recovery, RecoverNothing, RecoverClosed, RecoverOpen
  <2>2. CASE Work
    BY <2>2 DEF Work, Begin, BeginFails, Release, GiveUp, PrepareSeen, Prepare,
       PrepareFails, PersistOpen, PersistOpenFails, Mutate, MutateFails
  <2>3. CASE Commit \/ CommitFails \/ Rollback \/ Crash
    BY <2>3 DEF Commit, CommitFails, Rollback, Crash, Fault
  <2>4. CASE Restoration
    BY <2>4 DEF Restoration, Restore, RestoreFails, CopyBack,
           RestoredBadly, Restored
  <2>5. CASE Removal
    BY <2>5 DEF Removal, ClearBackup, ClearJournal, ClearDirectory, ClearFails, Clearing
  <2>6. CASE UNCHANGED vars
    BY <2>6 DEF vars
  <2> QED
    BY <2>1, <2>2, <2>3, <2>4, <2>5, <2>6 DEF Next
<1> QED
  BY <1>1, <1>2, Invariance, PTL DEF Spec

\* Nothing undoes an operation whose journal says committed.
THEOREM CommitIsFinal ==
  ASSUME "commitSync" \notin Faults
  PROVE  Spec => CommitSticks
<1>1. Inv /\ UncommittedInv /\ [Next]_vars => [status = "committed" => disk' = disk]_vars
  <2> SUFFICES ASSUME Inv, UncommittedInv, Next, status = "committed" PROVE disk' = disk
    BY DEF vars
  <2> USE DEF Inv, IInv, DirInv, UncommittedInv, Active, dirVars
  <2>1. CASE Recovery
    BY <2>1 DEF Recovery, RecoverNothing, RecoverClosed, RecoverOpen
  <2>2. CASE Work
    BY <2>2 DEF Work, Begin, BeginFails, Release, GiveUp, PrepareSeen, Prepare,
       PrepareFails, PersistOpen, PersistOpenFails, Mutate, MutateFails
  <2>3. CASE Commit \/ CommitFails \/ Rollback \/ Crash
    BY <2>3 DEF Commit, CommitFails, Rollback, Crash
  <2>4. CASE Restoration
    BY <2>4 DEF Restoration, Restore, RestoreFails, CopyBack,
           RestoredBadly, Restored
  <2>5. CASE Removal
    BY <2>5 DEF Removal, ClearBackup, ClearJournal, ClearDirectory, ClearFails
  <2> QED
    BY <2>1, <2>2, <2>3, <2>4, <2>5 DEF Next
<1> QED
  BY <1>1, Invariance, Uncommitted, PTL DEF Spec, CommitSticks

\* An outcome is only there until the next start.
ReportInv == outcome # "none" => pc = "down"

\* An operation reports when it ends, and the report is gone when another starts.
LEMMA ReportStep ==
  ASSUME TypeOK, ReportInv, [Next]_vars
  PROVE  ReportInv'
<1> USE DEF ReportInv, TypeOK, dirVars, callVars
<1>1. CASE Recovery
  BY <1>1 DEF Recovery, RecoverNothing, RecoverClosed, RecoverOpen
<1>2. CASE Work
  BY <1>2 DEF Work, Begin, BeginFails, Release, GiveUp, PrepareSeen, Prepare,
     PrepareFails, PersistOpen, PersistOpenFails, Mutate, MutateFails
<1>3. CASE Commit \/ CommitFails \/ Rollback \/ Crash
  BY <1>3 DEF Commit, CommitFails, Rollback, Crash
<1>4. CASE Restoration
  BY <1>4 DEF Restoration, Restore, RestoreFails, CopyBack,
           RestoredBadly, Restored
<1>5. CASE Removal
  BY <1>5 DEF Removal, ClearBackup, ClearJournal, ClearDirectory, ClearFails, Reported
<1>6. CASE UNCHANGED vars
  BY <1>6 DEF vars
<1> QED
  BY <1>1, <1>2, <1>3, <1>4, <1>5, <1>6 DEF Next

\* When removing the transaction directory does not fail, an operation that
\* reports a completed rollback has put every destination back.
THEOREM RolledBackIsUnchanged ==
  ASSUME "clear" \notin Faults
  PROVE  Spec => []OutcomeTruthful
<1> DEFINE I == ReportInv /\ OutcomeTruthful
<1>1. Init => I
  BY DEF Init, ReportInv, OutcomeTruthful
<1>2. Inv /\ I /\ [Next]_vars => I'
  <2> SUFFICES ASSUME Inv, I, [Next]_vars PROVE OutcomeTruthful'
    BY ReportStep DEF Inv
  <2> USE DEF ReportInv, OutcomeTruthful, dirVars, callVars
  <2>1. CASE Recovery
    BY <2>1 DEF Recovery, RecoverNothing, RecoverClosed, RecoverOpen
  <2>2. CASE Work
    BY <2>2 DEF Work, Begin, BeginFails, Release, GiveUp, PrepareSeen, Prepare,
       PrepareFails, PersistOpen, PersistOpenFails, Mutate, MutateFails
  <2>3. CASE Commit \/ CommitFails \/ Rollback \/ Crash
    BY <2>3 DEF Commit, CommitFails, Rollback, Crash
  <2>4. CASE Restoration
    BY <2>4 DEF Restoration, Restore, RestoreFails, CopyBack,
           RestoredBadly, Restored
  <2>5. CASE Removal
    BY <2>5 DEF Removal, ClearBackup, ClearJournal, ClearDirectory, ClearFails,
       Clearing, Reported, Fault, Inv, IInv, RestoredInv
  <2>6. CASE UNCHANGED vars
    BY <2>6 DEF vars
  <2> QED
    BY <2>1, <2>2, <2>3, <2>4, <2>5, <2>6 DEF Next
<1> QED
  BY <1>1, <1>2, Invariance, PTL DEF Spec

\* A rollback that fails leaves the journal and the backups that a later recovery
\* needs, unless Commit had already left its mark in the journal.
THEOREM FailedRollbackIsRetried ==
  ASSUME "commitSync" \notin Faults
  PROVE  Spec => []FailedRollbackKeepsEvidence
<1> DEFINE I == ReportInv /\ FailedRollbackKeepsEvidence
<1>1. Init => I
  BY DEF Init, ReportInv, FailedRollbackKeepsEvidence
<1>2. Inv /\ UncommittedInv /\ I /\ [Next]_vars => I'
  <2> SUFFICES ASSUME Inv, UncommittedInv, I, [Next]_vars
               PROVE  FailedRollbackKeepsEvidence'
    BY ReportStep DEF Inv
  <2> USE DEF ReportInv, FailedRollbackKeepsEvidence, Recoverable, dirVars, callVars
  <2>1. CASE Recovery
    BY <2>1 DEF Recovery, RecoverNothing, RecoverClosed, RecoverOpen
  <2>2. CASE Work
    BY <2>2 DEF Work, Begin, BeginFails, Release, GiveUp, PrepareSeen, Prepare,
       PrepareFails, PersistOpen, PersistOpenFails, Mutate, MutateFails
  <2>3. CASE Commit \/ CommitFails \/ Rollback \/ Crash
    BY <2>3 DEF Commit, CommitFails, Rollback, Crash
  <2>4. CASE Restoration
    <3>1. CASE RestoredBadly
      BY <2>4, <3>1 DEF RestoredBadly, Inv, IInv, TypeOK, Snap, Status, DirInv, Unseen,
         JournalInv, UncommittedInv, Working
    <3>2. CASE ~RestoredBadly
      BY <2>4, <3>2 DEF Restoration, Restore, RestoreFails, CopyBack, Restored
    <3> QED
      BY <3>1, <3>2
  <2>5. CASE Removal
    BY <2>5 DEF Removal, ClearBackup, ClearJournal, ClearDirectory, ClearFails,
       Clearing, Reported, Inv, IInv, RestoredInv
  <2>6. CASE UNCHANGED vars
    BY <2>6 DEF vars
  <2> QED
    BY <2>1, <2>2, <2>3, <2>4, <2>5, <2>6 DEF Next
<1> QED
  BY <1>1, <1>2, Invariance, Uncommitted, PTL DEF Spec

-----------------------------------------------------------------------------
(* Transaction implements AtomicStore.                                         *)

\* An unfinished transaction has not changed what the next operation will find.
LEMMA UnfinishedIsInvisible ==
  ASSUME Inv, status = "open" \/ (status = "nojournal" /\ Working)
  PROVE  Logical = base
BY DEF Logical, Inv, IInv, JournalInv, DirInv, Unseen, TypeOK, Snap

\* Every step but Commit leaves what recovery would make of the destinations as it
\* was, the calls that change them and the removal of the directory included.
LEMMA LogicalKept ==
  ASSUME "commitSync" \notin Faults, Inv, Inv', UncommittedInv, Next, ~Commit
  PROVE  Logical' = Logical
<1>1. CASE UNCHANGED <<disk, status, snaps, backup>>
  BY <1>1 DEF Logical
<1> USE DEF dirVars, callVars
<1>2. CASE Recovery
  BY <1>1, <1>2 DEF Recovery, RecoverNothing, RecoverClosed, RecoverOpen
<1>3. CASE \/ Rollback \/ Crash \/ RestoredBadly \/ Restored \/ ClearFails
           \/ Release \/ GiveUp \/ CommitFails
  BY <1>1, <1>3 DEF Rollback, Crash, RestoredBadly, Restored, ClearFails, Release,
     GiveUp, CommitFails, Fault
<1>4. CASE Begin \/ BeginFails \/ ClearDirectory
  BY <1>4 DEF Begin, BeginFails, ClearDirectory, Logical, Inv, IInv, DirInv
<1>5. CASE ClearJournal \/ \E p \in Path : ClearBackup(p)
  <2>1. CASE status = "open"
    <3>1. Logical = base
      BY <2>1, UnfinishedIsInvisible
    <3>2. disk = base /\ UNCHANGED <<disk, base>>
      BY <1>5, <2>1 DEF ClearJournal, ClearBackup, Clearing, Inv, IInv, RestoredInv, DirInv
    <3>3. Logical' = base
      BY <3>2, <1>5 DEF ClearJournal, ClearBackup, Logical, Inv, IInv, TypeOK, JournalInv
    <3> QED
      BY <3>1, <3>3
  <2>2. CASE status # "open"
    BY <1>5, <2>2 DEF ClearJournal, ClearBackup, Logical
  <2> QED
    BY <2>1, <2>2
\* In every other step the transaction is unfinished before it and after it.
<1>6. ASSUME status' = "open" \/ (status' = "nojournal" /\ Working')
       PROVE  Logical' = base'
  BY <1>6 DEF Logical, Inv, IInv, JournalInv, DirInv, Unseen, TypeOK, Snap
<1>7. ASSUME Working, Working', status # "committed", status' # "committed", base' = base
      PROVE  Logical' = Logical
  <2>1. status \in {"open", "nojournal"} /\ status' \in {"open", "nojournal"}
    BY <1>7 DEF Inv, IInv, DirInv, TypeOK, Status, Working, Active
  <2> QED
    BY <1>7, <1>6, <2>1, UnfinishedIsInvisible
<1>8. CASE \E p \in Path : PrepareSeen(p) \/ Prepare(p) \/ PrepareFails(p)
  BY <1>7, <1>8 DEF PrepareSeen, Prepare, PrepareFails, Working, Active, Inv, IInv, DirInv
<1>9. CASE PersistOpen \/ PersistOpenFails
  BY <1>7, <1>9 DEF PersistOpen, PersistOpenFails, Working, Active, Inv, IInv, DirInv
<1>10. CASE \E v \in Value : Mutate(v) \/ MutateFails(v)
  BY <1>7, <1>10 DEF Mutate, MutateFails, Working, Active, Inv, IInv, DirInv
<1>11. CASE \E p \in Path : Restore(p) \/ RestoreFails(p)
  <2>1. CASE pc = "rolling"
    BY <1>7, <1>11, <2>1 DEF Restore, RestoreFails, CopyBack, Working, UncommittedInv
  <2>2. CASE pc = "recovering"
    <3>1. status = "open" /\ status' = "open" /\ base' = base
      BY <1>11, <2>2 DEF Restore, RestoreFails, CopyBack, Inv, IInv, DirInv
    <3> QED
      BY <3>1, <1>6, UnfinishedIsInvisible
  <2> QED
    BY <1>11, <2>1, <2>2 DEF Restore, RestoreFails, CopyBack
<1> QED
  BY <1>2, <1>3, <1>4, <1>5, <1>8, <1>9, <1>10, <1>11 DEF Next, Work, Restoration, Removal

View == IF Active THEN disk ELSE Logical

\* A store at rest is an initial state of AtomicStore.
LEMMA StoreInit ==
  ASSUME Init
  PROVE  Store!AInit
<1>1. Logical \in [Path -> Value] /\ Logical = disk /\ ~Active
  BY DEF Init, Logical, Active
<1> QED
  BY <1>1 DEF Store!AInit, Store!Value, Value

\* An operation that stops before its commit aborts; one that has not begun or is
\* already over does nothing that AtomicStore can see.
LEMMA StoreStep ==
  ASSUME "commitSync" \notin Faults, Inv, Inv', UncommittedInv, [Next]_vars
  PROVE  [Store!ANext]_(Store!avars)
<1> DEFINE Stutter == Logical' = Logical /\ View' = View /\ Active' = Active
           Abort == Logical' = Logical /\ Active /\ ~Active'
<1>1. Stutter => UNCHANGED Store!avars
  BY DEF Store!avars, View
<1>2. Abort => Store!ANext
  BY DEF Store!ANext, Store!AAbort
<1>3. CASE UNCHANGED vars
  BY <1>1, <1>3 DEF vars, dirVars, callVars, Logical, Active, View
<1>4. CASE Commit
  <2>1. Active /\ ~Active' /\ disk' = disk /\ disk \in [Path -> Value]
    BY <1>4 DEF Commit, Active, Inv, TypeOK
  <2>2. Logical' = disk
    BY <1>4, <2>1 DEF Commit, Logical
  <2> QED
    BY <2>1, <2>2 DEF Store!ANext, Store!ACommit
<1>5. CASE Next /\ ~Commit
  <2>1. Logical' = Logical
    BY <1>5, LogicalKept
  <2> USE <2>1 DEF dirVars, callVars
  <2>2. CASE Begin
    <3>1. ~Active /\ Active' /\ disk' = disk /\ Logical = disk
      BY <2>2 DEF Begin, Active, Logical, Inv, IInv, DirInv, TypeOK
    <3> QED
      BY <3>1 DEF Store!ANext, Store!ABegin
  <2>3. ASSUME NEW v \in Value, Mutate(v) PROVE Store!ANext
    <3>1. Active /\ Active' /\ disk' = [disk EXCEPT ![target] = v] /\ target \in Path
      BY <2>3 DEF Mutate, Active, Inv, IInv, MemInv
    <3> QED
      BY <3>1 DEF Store!ANext, Store!AChange, Store!Value, Value
  <2>4. CASE \E p \in Path : PrepareSeen(p) \/ Prepare(p)
    BY <1>1, <2>4 DEF PrepareSeen, Prepare, Active, View
  <2>5. CASE PersistOpen
    BY <1>1, <2>5 DEF PersistOpen, Active, View
  <2>6. CASE GiveUp \/ CommitFails \/ PersistOpenFails \/ \E p \in Path : PrepareFails(p)
    BY <1>2, <2>6 DEF GiveUp, CommitFails, PersistOpenFails, PrepareFails, Active
  <2>7. CASE \E v \in Value : MutateFails(v)
    BY <1>2, <2>7 DEF MutateFails, Active
  <2>8. CASE Crash
    BY <1>1, <1>2, <2>8 DEF Crash, Active, View
  <2>9. CASE Recovery \/ Rollback \/ BeginFails \/ Release
    BY <1>1, <2>9 DEF Recovery, RecoverNothing, RecoverClosed, RecoverOpen, Rollback,
       BeginFails, Release, Active, View
  <2>10. CASE Restoration
    BY <1>1, <2>10 DEF Restoration, Restore, RestoreFails, CopyBack,
           RestoredBadly, Restored,
       Active, View
  <2>11. CASE Removal
    BY <1>1, <2>11 DEF Removal, ClearBackup, ClearJournal, ClearDirectory, ClearFails,
       Clearing, Active, View
  <2> QED
    BY <1>5, <2>2, <2>3, <2>4, <2>5, <2>6, <2>7, <2>8, <2>9, <2>10, <2>11 DEF Next, Work
<1> QED
  BY <1>3, <1>4, <1>5

\* A transaction is all or nothing, whatever else fails and wherever it crashes.
THEOREM TransactionIsAtomic ==
  ASSUME "commitSync" \notin Faults
  PROVE  Spec => ImplementsAtomicStore
<1>1. Init => Store!AInit
  BY StoreInit
<1>2. Inv /\ Inv' /\ UncommittedInv /\ [Next]_vars => [Store!ANext]_(Store!avars)
  BY StoreStep
<1> QED
  BY <1>1, <1>2, Invariance, Uncommitted, PTL
     DEF Spec, ImplementsAtomicStore, Store!ASpec
=============================================================================
