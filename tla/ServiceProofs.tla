----------------------------- MODULE ServiceProofs ----------------------------
(* Theorems about Service, for any versions and however often either process   *)
(* dies and the user edits: one inductive invariant, in parts, says where a    *)
(* process must be for the lock to be held, a journal to be open and a record  *)
(* to be that of an operation that completed.                                  *)

EXTENDS Service, TLAPS

Busy == {"apply", "staging", "staged", "writing", "written"}

\* A process runs an operation exactly where it has one; the GUI's is on the version
\* in the catalogue and is the recorded one.
OperationInv ==
  /\ \A p \in Process : pc[p] \in Busy => op[p] \in [action : Action, version : Version]
  /\ pc["cli"] \in Operating
  /\ pc["gui"] = "hash" => item.installed \in Version
  /\ pc["gui"] = "save" => item.for \in Action
  /\ pc["gui"] \in Busy \cup {"failed"} => record \in Record
  /\ pc["gui"] \in Busy => op["gui"] = [action |-> record.op, version |-> Latest]

\* The lock is free of journals until the first write.
LockInv ==
  /\ LiveIsExclusive
  /\ pc["gui"] = "unlock" => holder = "gui"
  /\ \A p \in Process : pc[p] \in {"staging", "staged"} => journal = None

\* There are files of the package at the destination when it is installed, and only
\* then; so there were when the journal was opened.
Managed(there, version) == there \in {"managed", "differs"} <=> version # None

PackageInv ==
  /\ dest # "partial" => Managed(dest, installed)
  /\ journal # None => Managed(journal.dest, journal.installed)
  /\ \A p \in Process :
       /\ pc[p] = "staged" /\ op[p].action = "adopt" => installed = None
       /\ pc[p] = "written" =>
            installed = IF op[p].action = "uninstall" THEN None ELSE op[p].version

\* Between the commit and the next touch of the package nothing is open, the record is
\* the operation's, and what is installed is what it leaves.
CompletedInv ==
  completed =>
    /\ journal = None
    /\ pc["gui"] \notin Busy
    /\ record \in Record
    /\ installed = IF record.op = "uninstall" THEN None ELSE Latest

IInv == TypeOK /\ OperationInv /\ LockInv /\ PackageInv /\ CompletedInv /\ CompletedIsVerified

LEMMA InvInit == Init => IInv
<1> SUFFICES ASSUME Init PROVE IInv
  OBVIOUS
<1> USE ServiceAssumption DEF Init, Process, Busy, Guiding, Operating
<1>1. TypeOK
  BY DEF TypeOK, Dest, Item, NoItem
<1>2. OperationInv /\ LockInv
  BY DEF OperationInv, LockInv, LiveIsExclusive
<1>3. PackageInv /\ CompletedInv /\ CompletedIsVerified
  BY DEF PackageInv, Managed, CompletedInv, CompletedIsVerified
<1> QED
  BY <1>1, <1>2, <1>3 DEF IInv

\* What is offered is an action.
LEMMA OfferedIsAction ==
  ASSUME TypeOK, NEW i
  PROVE  Offered(i) \subseteq Action
BY DEF Offered, Retry, Base, TypeOK, Record, Action

\* Recovery leaves what the journal names, or what was there; one that fails leaves
\* the journal.
LEMMA RecoveredType ==
  ASSUME TypeOK, LockInv, PackageInv, Recovered
  PROVE  /\ dest' \in Dest \ {"partial"} /\ installed' \in Version \cup {None}
         /\ journal' = None /\ leftover' = leftover
         /\ Managed(dest', installed')
BY DEF Recovered, TypeOK, Snapshot, Dest, LockInv, LiveIsExclusive, PackageInv

LEMMA FailedType ==
  ASSUME TypeOK, LockInv, RestoreFailed
  PROVE  /\ dest' = "partial" /\ dest = "partial" /\ installed' \in Version \cup {None}
         /\ journal' = journal /\ journal # None /\ leftover' = leftover
BY DEF RestoreFailed, TypeOK, Snapshot, LockInv, LiveIsExclusive

\* Every step keeps the types.
LEMMA TypeStep ==
  ASSUME IInv, [Next]_vars
  PROVE  TypeOK'
<1> USE ServiceAssumption
    DEF IInv, TypeOK, package, view, bounds, Goto, At, Process, Guiding, Operating
<1>1. ASSUME NEW action \in Action \cup {None}, Ask(action)
      PROVE  TypeOK'
  BY <1>1 DEF Ask, Item, NoItem
<1>2. CASE ReadStatus
  BY <1>2 DEF ReadStatus, Item
<1>3. CASE Hash
  BY <1>3 DEF Hash, Check, OperationInv
<1>4. CASE ReadExisting
  BY <1>4 DEF ReadExisting, Item
<1>5. CASE TryLock \/ LetGo \/ ReadPending
  <2>1. item' \in Item
    BY <1>5 DEF TryLock, LetGo, ReadPending, Item
  <2> QED
    BY <1>5, <2>1 DEF TryLock, LetGo, ReadPending
<1>6. CASE Decide
  BY <1>6, OfferedIsAction DEF Decide, Item, NoItem
<1>7. CASE Save
  BY <1>7 DEF Save, Item, NoItem, OperationInv, Record
<1>20. CASE SaveFails
  <2>1. record' = record \/ record' = [op |-> item.for, failed |-> FALSE, force |-> FALSE]
    BY <1>20, Zenon DEF SaveFails
  <2>3. item.for \in Action
    BY <1>20 DEF SaveFails, OperationInv
  <2>6. [op |-> item.for, failed |-> FALSE, force |-> FALSE] \in Record
    BY <2>3 DEF Record
  <2>4. record' \in Record \cup {None}
    BY <2>1, <2>6
  <2>5. item' \in Item
    BY <1>20 DEF SaveFails, Item, NoItem
  <2>2. completed' \in BOOLEAN
    BY <1>20, Zenon DEF SaveFails
  <2> QED
    BY <1>20, <2>2, <2>4, <2>5 DEF SaveFails
<1>8. CASE SaveFailure \/ Clear
  <2>1. record' \in Record \cup {None}
    BY <1>8 DEF SaveFailure, Clear, OperationInv, Record
  <2> QED
    BY <1>8, <2>1 DEF SaveFailure, Clear
<1>9. CASE Open
  BY <1>9, RecoveredType, FailedType DEF Open, Dest
<1>10. ASSUME NEW action \in Action, NEW version \in Version, Command(action, version)
       PROVE  TypeOK'
  BY <1>10 DEF Command
<1>11. ASSUME NEW p \in Process, Refused(p) \/ StageFails(p)
       PROVE  TypeOK'
  BY <1>11 DEF Refused, StageFails, Failed, Ended, Invalidated
<1>12. ASSUME NEW p \in Process, Acquire(p) \/ Stage(p)
       PROVE  TypeOK'
  BY <1>12, RecoveredType DEF Acquire, Stage
<1>21. ASSUME NEW p \in Process, AcquireFails(p)
       PROVE  TypeOK'
  BY <1>21, FailedType DEF AcquireFails, Failed, Ended, Invalidated, Dest
<1>13. ASSUME NEW p \in Process, Write(p)
       PROVE  TypeOK'
  BY <1>13 DEF Write, Dest, Snapshot, LockInv, LiveIsExclusive
<1>14. ASSUME NEW p \in Process, WriteState(p)
       PROVE  TypeOK'
  BY <1>14 DEF WriteState, OperationInv, Busy
<1>15. ASSUME NEW p \in Process, Commit(p)
       PROVE  TypeOK'
  <2>1. dest' \in Dest
    BY <1>15 DEF Commit, Dest
  <2> QED
    BY <1>15, <2>1 DEF Commit, Failed, Ended, Invalidated
<1>16. ASSUME NEW p \in Process, Abort(p)
       PROVE  TypeOK'
  BY <1>16, RecoveredType, FailedType DEF Abort, Failed, Ended, Invalidated, Dest
<1>17. ASSUME NEW p \in Process, Die(p)
       PROVE  TypeOK'
  <2>1. item' \in Item /\ cache' \in Check \cup {None}
    <3>1. CASE p = "gui"
      <4>1. item' = NoItem /\ cache' = None
        BY <1>17, <3>1 DEF Die
      <4> QED
        BY <4>1 DEF Item, NoItem
    <3>2. CASE p # "gui"
      BY <1>17, <3>2 DEF Die
    <3> QED
      BY <3>1, <3>2
  <2>2. holder' \in Process \cup {None}
    BY <1>17 DEF Die
  <2>3. leftover' \in BOOLEAN
    BY <1>17, Zenon DEF Die
  <2> QED
    BY <1>17, <2>1, <2>2, <2>3 DEF Die
<1>18. CASE Edit
  <2>1. dest' \in Dest
    BY <1>18 DEF Edit, Dest
  <2>2. edits' \in Nat
    BY <1>18 DEF Edit
  <2>3. completed' \in BOOLEAN
    BY <1>18 DEF Edit
  <2>4. UNCHANGED <<installed, journal, holder, pc, op, record, item, cache, deaths>>
    BY <1>18 DEF Edit
  <2>5. leftover' \in BOOLEAN
    BY <1>18, Zenon DEF Edit
  <2> QED
    BY <2>1, <2>2, <2>3, <2>4, <2>5
<1>19. CASE UNCHANGED vars
  BY <1>19 DEF vars
<1> QED
  BY <1>1, <1>2, <1>3, <1>4, <1>5, <1>6, <1>7, <1>8, <1>9, <1>10, <1>11, <1>12, <1>13,
     <1>14, <1>15, <1>16, <1>17, <1>18, <1>19, <1>20, <1>21
  DEF Next, Gui, Operate

\* A process has an operation, and the GUI the record of it, from Save to the outcome.
LEMMA OperationStep ==
  ASSUME IInv, [Next]_vars
  PROVE  OperationInv'
<1> USE ServiceAssumption
    DEF IInv, TypeOK, OperationInv, Busy, Process, Guiding, Operating, package, view, Goto, At
<1>1. ASSUME NEW action \in Action \cup {None}, Ask(action)
      PROVE  OperationInv'
  BY <1>1 DEF Ask
<1>2. CASE ReadStatus
  <2>1. pc'["gui"] = "hash" => item'.installed \in Version
    BY <1>2 DEF ReadStatus, Item
  <2> QED
    BY <1>2, <2>1 DEF ReadStatus
<1>3. CASE Hash \/ ReadExisting \/ TryLock \/ LetGo \/ ReadPending \/ Open \/ SaveFails
  BY <1>3 DEF Hash, ReadExisting, TryLock, LetGo, ReadPending, Open, SaveFails
<1>4. CASE Decide
  <2>1. pc'["gui"] = "save" => item'.for \in Action
    BY <1>4, OfferedIsAction DEF Decide, NoItem
  <2> QED
    BY <1>4, <2>1 DEF Decide
<1>5. CASE Save
  <2>1. record' \in Record /\ op'["gui"] = [action |-> record'.op, version |-> Latest]
    BY <1>5 DEF Save, Record
  <2> QED
    BY <1>5, <2>1 DEF Save
<1>6. CASE SaveFailure \/ Clear
  BY <1>6 DEF SaveFailure, Clear
<1>7. ASSUME NEW action \in Action, NEW version \in Version, Command(action, version)
      PROVE  OperationInv'
  BY <1>7 DEF Command
<1>8. ASSUME NEW p \in Process,
             Refused(p) \/ AcquireFails(p) \/ StageFails(p) \/ Commit(p) \/ Abort(p)
      PROVE  OperationInv'
  BY <1>8 DEF Refused, AcquireFails, StageFails, Commit, Abort, Failed, Ended
<1>9. ASSUME NEW p \in Process, Acquire(p) \/ Stage(p) \/ Write(p) \/ WriteState(p)
      PROVE  OperationInv'
  BY <1>9 DEF Acquire, Stage, Write, WriteState
<1>10. ASSUME NEW p \in Process, Die(p)
       PROVE  OperationInv'
  BY <1>10 DEF Die
<1>11. CASE Edit
  BY <1>11 DEF Edit
<1>12. CASE UNCHANGED vars
  BY <1>12 DEF vars
<1> QED
  BY <1>1, <1>2, <1>3, <1>4, <1>5, <1>6, <1>7, <1>8, <1>9, <1>10, <1>11, <1>12
  DEF Next, Gui, Operate

\* Whoever writes has the lock and the journal, and no one else has either.
LEMMA LockStep ==
  ASSUME IInv, [Next]_vars
  PROVE  LockInv'
<1> USE ServiceAssumption
    DEF IInv, TypeOK, LockInv, LiveIsExclusive, Process, Guiding, Operating, package, view,
        Goto, At
<1>1. ASSUME NEW action \in Action \cup {None}, Ask(action)
      PROVE  LockInv'
  BY <1>1 DEF Ask
<1>2. CASE ReadStatus \/ Hash \/ ReadExisting \/ ReadPending \/ Decide \/ Save
  BY <1>2 DEF ReadStatus, Hash, ReadExisting, ReadPending, Decide, Save
<1>3. CASE TryLock \/ LetGo \/ SaveFails \/ SaveFailure \/ Clear
  BY <1>3 DEF TryLock, LetGo, SaveFails, SaveFailure, Clear
<1>4. CASE Open
  BY <1>4, RecoveredType, FailedType DEF Open
<1>5. ASSUME NEW action \in Action, NEW version \in Version, Command(action, version)
      PROVE  LockInv'
  BY <1>5 DEF Command
<1>6. ASSUME NEW p \in Process, Refused(p) \/ StageFails(p)
      PROVE  LockInv'
  BY <1>6 DEF Refused, StageFails, Failed, Ended
<1>7. ASSUME NEW p \in Process, Acquire(p) \/ Stage(p)
      PROVE  LockInv'
  BY <1>7, RecoveredType DEF Acquire, Stage
<1>14. ASSUME NEW p \in Process, AcquireFails(p)
       PROVE  LockInv'
  BY <1>14, FailedType DEF AcquireFails, Failed, Ended
<1>8. ASSUME NEW p \in Process, Write(p) \/ WriteState(p)
      PROVE  LockInv'
  BY <1>8 DEF Write, WriteState, Snapshot
<1>9. ASSUME NEW p \in Process, Commit(p)
      PROVE  LockInv'
  <2>1. dest' # "partial"
    BY <1>9 DEF Commit
  <2> QED
    BY <1>9, <2>1 DEF Commit, Failed, Ended
<1>10. ASSUME NEW p \in Process, Abort(p)
       PROVE  LockInv'
  BY <1>10, RecoveredType, FailedType DEF Abort, Failed, Ended
<1>11. ASSUME NEW p \in Process, Die(p)
       PROVE  LockInv'
  BY <1>11 DEF Die
<1>12. CASE Edit
  BY <1>12 DEF Edit
<1>13. CASE UNCHANGED vars
  BY <1>13 DEF vars
<1> QED
  BY <1>1, <1>2, <1>3, <1>4, <1>5, <1>6, <1>7, <1>8, <1>9, <1>10, <1>11, <1>12, <1>13,
     <1>14
  DEF Next, Gui, Operate

\* What is installed and what is at the destination change together.
LEMMA PackageStep ==
  ASSUME IInv, [Next]_vars
  PROVE  PackageInv'
<1> USE ServiceAssumption
    DEF IInv, TypeOK, PackageInv, Managed, Process, Guiding, Operating, package, view,
        Goto, At
<1>1. ASSUME NEW action \in Action \cup {None}, Ask(action)
      PROVE  PackageInv'
  BY <1>1 DEF Ask
<1>2. CASE ReadStatus \/ Hash \/ ReadExisting \/ ReadPending \/ Decide \/ TryLock \/ LetGo
  BY <1>2 DEF ReadStatus, Hash, ReadExisting, ReadPending, Decide, TryLock, LetGo
<1>3. CASE Save \/ SaveFails \/ SaveFailure \/ Clear
  BY <1>3 DEF Save, SaveFails, SaveFailure, Clear
<1>4. CASE Open
  BY <1>4, RecoveredType, FailedType DEF Open, LockInv, LiveIsExclusive
<1>5. ASSUME NEW action \in Action, NEW version \in Version, Command(action, version)
      PROVE  PackageInv'
  BY <1>5 DEF Command
<1>6. ASSUME NEW p \in Process, Refused(p) \/ StageFails(p)
      PROVE  PackageInv'
  BY <1>6 DEF Refused, StageFails, Failed, Ended
<1>7. ASSUME NEW p \in Process, Acquire(p)
      PROVE  PackageInv'
  BY <1>7, RecoveredType DEF Acquire, LockInv, LiveIsExclusive
<1>16. ASSUME NEW p \in Process, AcquireFails(p)
       PROVE  PackageInv'
  BY <1>16, FailedType DEF AcquireFails, Failed, Ended, LockInv, LiveIsExclusive
<1>8. ASSUME NEW p \in Process, Stage(p)
      PROVE  PackageInv'
  BY <1>8 DEF Stage, Accepted
<1>9. ASSUME NEW p \in Process, Write(p)
      PROVE  PackageInv'
  BY <1>9 DEF Write, Dest, LockInv, LiveIsExclusive
<1>10. ASSUME NEW p \in Process, WriteState(p)
       PROVE  PackageInv'
  BY <1>10 DEF WriteState, LockInv, LiveIsExclusive
<1>11. ASSUME NEW p \in Process, Commit(p)
       PROVE  PackageInv'
  <2>1. Managed(dest', installed)
    BY <1>11 DEF Commit, OperationInv, Busy
  <2> QED
    BY <1>11, <2>1 DEF Commit, Failed, Ended, LockInv, LiveIsExclusive
<1>12. ASSUME NEW p \in Process, Abort(p)
       PROVE  PackageInv'
  BY <1>12, RecoveredType, FailedType DEF Abort, Failed, Ended, LockInv, LiveIsExclusive
<1>13. ASSUME NEW p \in Process, Die(p)
       PROVE  PackageInv'
  BY <1>13 DEF Die
<1>14. CASE Edit
  BY <1>14 DEF Edit, LockInv, LiveIsExclusive
<1>15. CASE UNCHANGED vars
  BY <1>15 DEF vars
<1> QED
  BY <1>1, <1>2, <1>3, <1>4, <1>5, <1>6, <1>7, <1>8, <1>9, <1>10, <1>11, <1>12, <1>13,
     <1>14, <1>15, <1>16
  DEF Next, Gui, Operate

\* The commit is what completes an operation, and the first write of another, or of
\* the user, what ends that; the verdict cached between the two is about its files.
LEMMA CompletedStep ==
  ASSUME IInv, [Next]_vars
  PROVE  CompletedInv' /\ CompletedIsVerified'
<1> USE ServiceAssumption
    DEF IInv, TypeOK, CompletedInv, CompletedIsVerified, Busy, Process, Guiding, Operating,
        package, view, Goto, At
<1>1. ASSUME NEW action \in Action \cup {None}, Ask(action)
      PROVE  CompletedInv' /\ CompletedIsVerified'
  BY <1>1 DEF Ask
<1>2. CASE ReadStatus \/ ReadExisting \/ ReadPending \/ Decide \/ TryLock \/ LetGo
  BY <1>2 DEF ReadStatus, ReadExisting, ReadPending, Decide, TryLock, LetGo
<1>3. CASE Hash
  <2>1. CompletedInv'
    BY <1>3 DEF Hash
  <2>2. CompletedIsVerified'
    BY <1>3 DEF Hash, PackageInv, Managed, LockInv, LiveIsExclusive, OperationInv
  <2> QED
    BY <2>1, <2>2
<1>4. CASE Save
  BY <1>4 DEF Save
<1>5. CASE SaveFailure
  BY <1>5 DEF SaveFailure, Record
<1>18. CASE SaveFails
  <2>1. completed' => completed /\ record' = record
    BY <1>18, Zenon DEF SaveFails
  <2> QED
    BY <1>18, <2>1 DEF SaveFails
<1>6. CASE Clear
  <2>1. completed' => completed /\ record' = record
    BY <1>6, Zenon DEF Clear
  <2> QED
    BY <1>6, <2>1 DEF Clear
<1>7. CASE Open
  BY <1>7 DEF Open, Recovered, RestoreFailed
<1>8. ASSUME NEW action \in Action, NEW version \in Version, Command(action, version)
      PROVE  CompletedInv' /\ CompletedIsVerified'
  BY <1>8 DEF Command
<1>9. ASSUME NEW p \in Process, Refused(p) \/ StageFails(p)
      PROVE  CompletedInv' /\ CompletedIsVerified'
  BY <1>9 DEF Refused, StageFails, Failed, Ended, Invalidated
<1>10. ASSUME NEW p \in Process, Acquire(p) \/ Stage(p)
      PROVE  CompletedInv' /\ CompletedIsVerified'
  BY <1>10 DEF Acquire, Stage, Recovered
<1>19. ASSUME NEW p \in Process, AcquireFails(p)
       PROVE  CompletedInv' /\ CompletedIsVerified'
  BY <1>19 DEF AcquireFails, Failed, Ended, Invalidated, RestoreFailed
<1>11. ASSUME NEW p \in Process, Write(p)
       PROVE  CompletedInv' /\ CompletedIsVerified'
  BY <1>11 DEF Write
<1>12. ASSUME NEW p \in Process, WriteState(p)
       PROVE  CompletedInv' /\ CompletedIsVerified'
  BY <1>12 DEF WriteState, LockInv, LiveIsExclusive
<1>13. ASSUME NEW p \in Process, Commit(p)
       PROVE  CompletedInv' /\ CompletedIsVerified'
  <2>1. CASE p = "gui"
    <3>1. CompletedIsVerified'
      BY <1>13, <2>1 DEF Commit, Failed, Ended, Invalidated
    <3>2. /\ journal' = None /\ pc'["gui"] \in {"clear", "failed"}
          /\ record' = record /\ record \in Record
          /\ installed' = IF record.op = "uninstall" THEN None ELSE Latest
      BY <1>13, <2>1 DEF Commit, Failed, Ended, OperationInv, PackageInv
    <3> QED
      BY <3>1, <3>2
  <2>2. CASE p = "cli"
    <3>1. ~completed'
      BY <1>13, <2>2 DEF Commit
    <3> QED
      BY <3>1
  <2> QED
    BY <2>1, <2>2
<1>14. ASSUME NEW p \in Process, Abort(p)
       PROVE  CompletedInv' /\ CompletedIsVerified'
  BY <1>14 DEF Abort, Failed, Ended, Invalidated, Recovered, RestoreFailed
<1>15. ASSUME NEW p \in Process, Die(p)
       PROVE  CompletedInv' /\ CompletedIsVerified'
  BY <1>15 DEF Die
<1>16. CASE Edit
  BY <1>16 DEF Edit
<1>17. CASE UNCHANGED vars
  BY <1>17 DEF vars
<1> QED
  BY <1>1, <1>2, <1>3, <1>4, <1>5, <1>6, <1>7, <1>8, <1>9, <1>10, <1>11, <1>12, <1>13,
     <1>14, <1>15, <1>16, <1>17, <1>18, <1>19
  DEF Next, Gui, Operate

LEMMA IInvInductive == Spec => []IInv
<1>1. Init => IInv
  BY InvInit
<1>2. IInv /\ [Next]_vars => IInv'
  BY TypeStep, OperationStep, LockStep, PackageStep, CompletedStep DEF IInv
<1> QED
  BY <1>1, <1>2, PTL DEF Spec

\* The package, the journal, the record and what each process holds in memory always
\* have their types.
THEOREM TypeCorrect == Spec => []TypeOK
<1>1. IInv => TypeOK
  BY DEF IInv
<1> QED
  BY <1>1, IInvInductive, PTL

\* Who writes to the destination holds the lock and has the one open journal, and a
\* destination in the middle of a transaction has the journal that puts it back.
THEOREM WritersExclude == Spec => []LiveIsExclusive
<1>1. IInv => LiveIsExclusive
  BY DEF IInv, LockInv
<1> QED
  BY <1>1, IInvInductive, PTL

\* What an interrupted operation wrote or removed is never adopted, however its
\* undoing went: what is adopted is the user's or a temporary file.
THEOREM AdoptionIsForeign == Spec => AdoptsNoHalfInstall
<1>1. ASSUME IInv, NEW p \in Process, Write(p), op[p].action = "adopt"
      PROVE  /\ installed = None /\ journal = None
             /\ dest = "foreign" \/ (dest = "empty" /\ leftover)
  <2>1. installed = None /\ journal = None /\ Existing
    BY <1>1 DEF Write, At, IInv, PackageInv, LockInv
  <2>2. dest \in {"empty", "foreign"}
    BY <1>1, <2>1 DEF IInv, TypeOK, Dest, PackageInv, Managed, LockInv, LiveIsExclusive
  <2> QED
    BY <2>1, <2>2, Zenon DEF Existing
<1>2. IInv /\ [Next]_vars
        => [\A p \in Process : Write(p) /\ op[p].action = "adopt"
              => /\ installed = None /\ journal = None
                 /\ dest = "foreign" \/ (dest = "empty" /\ leftover)]_vars
  BY <1>1, Zenon
<1> QED
  BY <1>2, IInvInductive, PTL DEF Spec, AdoptsNoHalfInstall

\* A recorded operation that did complete is not offered again as a retry, unless it
\* is a repair.
THEOREM NoRetryOfCompleted == Spec => []CompletedIsNotRetried
<1>1. IInv => CompletedIsNotRetried
  <2> SUFFICES ASSUME IInv, completed
               PROVE  Retry(CurrentItem) \subseteq {"repair"}
    BY DEF CompletedIsNotRetried
  <2>1. /\ journal = None /\ record \in Record
        /\ installed = IF record.op = "uninstall" THEN None ELSE Latest
    BY DEF IInv, CompletedInv
  <2>2. CurrentItem.installed = installed
    BY DEF CurrentItem, NoItem
  <2>3. record.op \in Action /\ Latest # None
    BY <2>1, ServiceAssumption DEF Record
  <2>4. ASSUME record.op # "repair"
        PROVE  ~ValidRetry(CurrentItem, record.op)
    BY <2>1, <2>2, <2>3, <2>4 DEF ValidRetry, Action
  <2> QED
    BY <2>4 DEF Retry
<1> QED
  BY <1>1, IInvInductive, PTL

\* A cached check of the record that a completed operation of the GUI left is one of
\* the files it left.
THEOREM VerdictIsCurrent == Spec => []CompletedIsVerified
<1>1. IInv => CompletedIsVerified
  BY DEF IInv
<1> QED
  BY <1>1, IInvInductive, PTL
=============================================================================
