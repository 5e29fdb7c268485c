------------------------------- MODULE Service --------------------------------
(* Two processes and one package: the GUI, which decides from the package's    *)
(* state which actions to offer (appstore/service.go, verdict.go), remembers   *)
(* the operation it was asked for (installer/lifecycle.go) and runs it; and the*)
(* CLI, which runs any operation. Both run operations under the manager's lock *)
(* (installer/stage.go), the first thing an operation does being to recover.   *)
(* Either process may die at any point, rollbacks and recoveries may fail; the *)
(* user puts files at the destination, takes them away and changes them. The   *)
(* GUI remembers what the last health check found (installer/cache.go,         *)
(* status.go) until it operates on the package.                                *)
(*                                                                             *)
(* Simplifications. The package is reviewed and compatible. The destination is *)
(* one of five things (see Dest), with or without a temporary file that a dead *)
(* process left there; the steps of a transaction are in Transaction.tla, and  *)
(* what it does to files is in Installer.tla. The one fault of Transaction.tla *)
(* that has no counterpart here is the half-done write of Commit ("torn"):     *)
(* when the rollback after it fails too, the destination stays mixed.          *)

EXTENDS Naturals

CONSTANTS
  Version,   \* versions of the package
  Latest,    \* the version in the catalogue
  None,
  MaxDeaths, \* bound on deaths of a process
  MaxEdits   \* bound on what the user does to the destination

Action == {"install", "adopt", "update", "repair", "force-reinstall", "uninstall"}
Process == {"gui", "cli"}

VARIABLES
  dest,      \* the destination: see Dest
  leftover,  \* a temporary file of Copy or AtomicWrite is left at the destination
  installed, \* the version in the installed state file
  journal,   \* what the open journal would make of these two again, or None
  holder,    \* who holds the manager's lock
  pc,        \* where each process is
  op,        \* the operation each process runs, and on which version
  record,    \* the lifecycle record
  item,      \* the Item that the GUI is working out
  cache,     \* the GUI's cached health check: of which record, and its verdict
  completed, \* history: the recorded operation committed, and the package was not
             \* touched since
  deaths, edits

bounds == <<deaths, edits>>
package == <<dest, leftover, installed, journal>>
view == <<item, cache>>
vars == <<package, holder, pc, op, record, view, completed, bounds>>

\* managed: the files the installed state records; differs: the package is installed
\* and not all its files are as recorded, edited since or adopted as they were;
\* partial: a transaction has begun to write
Dest == {"empty", "foreign", "managed", "differs", "partial"}

Guiding == {"status", "hash", "existing", "lock", "unlock", "pending", "decide", "save",
            "failed", "clear", "down"}
Operating == {"idle", "apply", "staging", "staged", "writing", "written"}

Item == [installed : Version \cup {None}, existing : BOOLEAN, active : BOOLEAN,
         pending : BOOLEAN, for : Action \cup {None}]
NoItem == [installed |-> None, existing |-> FALSE, active |-> FALSE,
           pending |-> FALSE, for |-> None]

Snapshot == [dest : Dest \ {"partial"}, installed : Version \cup {None}]

\* The identity of an installed state is its digest; the version stands for it here.
Check == [of : Version, healthy : BOOLEAN]

Record == [op : Action, failed : BOOLEAN, force : BOOLEAN]

ASSUME ServiceAssumption ==
  /\ Latest \in Version
  /\ None \notin Version /\ None \notin Process
  /\ None \notin Snapshot /\ None \notin Record
  /\ MaxDeaths \in Nat /\ MaxEdits \in Nat

TypeOK == /\ dest \in Dest /\ leftover \in BOOLEAN
          /\ installed \in Version \cup {None}
          /\ journal \in Snapshot \cup {None}
          /\ holder \in Process \cup {None}
          /\ pc \in [Process -> Guiding \cup Operating]
          /\ op \in [Process -> [action : Action, version : Version] \cup {None}]
          /\ record \in Record \cup {None}
          /\ item \in Item
          /\ cache \in Check \cup {None}
          /\ completed \in BOOLEAN
          /\ deaths \in Nat /\ edits \in Nat

Init == /\ dest \in {"empty", "foreign"} /\ leftover = FALSE
        /\ installed = None /\ journal = None /\ holder = None
        /\ pc = [p \in Process |-> IF p = "gui" THEN "down" ELSE "idle"]
        /\ op = [p \in Process |-> None]
        /\ record = None /\ item = NoItem /\ cache = None
        /\ completed = FALSE
        /\ deaths = 0 /\ edits = 0

\* What PreExisting and the inventory look for: any file, also a temporary one.
Existing == dest # "empty" \/ leftover

At(p, here) == pc[p] = here
Goto(p, there) == pc' = [pc EXCEPT ![p] = there]

-----------------------------------------------------------------------------
(* What the GUI offers, from an item and the lifecycle record.                 *)

\* assess: installed packages, external copies, and the rest.
Base(i) == IF i.installed # None
           THEN {"uninstall", "repair"} \cup (IF i.installed # Latest THEN {"update"} ELSE {})
           ELSE IF i.existing THEN {"adopt"} ELSE {"install"}

FailedAdoption(i) == i.existing /\ record # None /\ record.op = "adopt" /\ record.failed

\* Item.RecoveryReason and Item.RecoveryAllowed.
RecoveryReason(i) == i.active \/ i.pending \/ FailedAdoption(i)
RecoveryAllowed(i) == IF FailedAdoption(i) THEN record.force ELSE i.pending

\* Mutant of ValidRetry: a recorded install is not checked against what there is.
ValidRetryAlways(i, action) == TRUE

ValidRetry(i, action) ==
  CASE action = "install"   -> i.installed = None /\ (~i.existing \/ RecoveryReason(i))
    [] action = "update"    -> i.installed \notin {None, Latest}
    [] action \in {"adopt", "force-reinstall"} ->
         i.installed = None /\ i.existing /\ ~i.active
    [] action \in {"repair", "uninstall"} -> i.installed # None

Retry(i) == IF record # None /\ ValidRetry(i, record.op) THEN {record.op} ELSE {}

Offered(i) ==
  Retry(i) \cup
  IF ~i.existing THEN Base(i)
  ELSE IF i.active THEN {}
  ELSE Base(i) \cup (IF RecoveryAllowed(i) THEN {"force-reinstall"} ELSE {})

-----------------------------------------------------------------------------
(* Service.item, one read of shared state per step.                            *)

\* Items, or Execute of any action: what its caller was shown may be long past.
Ask(action) == /\ At("gui", "idle")
               /\ item' = [NoItem EXCEPT !.for = action]
               /\ Goto("gui", "status")
               /\ UNCHANGED <<package, holder, op, record, cache, completed, bounds>>

Hit(identity) == cache # None /\ cache.of = identity

\* Manager.Status up to the health check, which a cached one of the same record saves.
ReadStatus == /\ At("gui", "status")
              /\ item' = [item EXCEPT !.installed = installed]
              /\ Goto("gui", IF installed = None THEN "existing"
                             ELSE IF Hit(installed) THEN "decide"
                             ELSE "hash")
              /\ UNCHANGED <<package, holder, op, record, cache, completed, bounds>>

\* The files, hashed without the lock: what an operation of the other process leaves
\* meanwhile may match the record or not. The verdict decides no action.
Hash == /\ At("gui", "hash")
        /\ \E healthy \in BOOLEAN :
             /\ installed = item.installed /\ dest \in {"managed", "differs"}
                  => (healthy <=> dest = "managed")
             /\ cache' = [of |-> item.installed, healthy |-> healthy]
        /\ Goto("gui", "decide")
        /\ UNCHANGED <<package, holder, op, record, item, completed, bounds>>

\* PreExisting; a transaction that has begun may have removed or written files, but
\* it does not remove what it found there.
ReadExisting == /\ At("gui", "existing")
                /\ \E found \in BOOLEAN :
                     /\ dest # "partial" => (found <=> Existing)
                     /\ dest = "partial" /\ (leftover \/ journal.dest = "foreign") => found
                     /\ item' = [item EXCEPT !.existing = found]
                     /\ Goto("gui", IF found THEN "lock" ELSE "decide")
                /\ UNCHANGED <<package, holder, op, record, cache, completed, bounds>>

\* RecoveryStatus takes the lock only to see whether it can, and lets go of it.
TryLock == /\ At("gui", "lock")
           /\ IF holder = None
              THEN holder' = "gui" /\ Goto("gui", "unlock") /\ UNCHANGED item
              ELSE /\ item' = [item EXCEPT !.active = TRUE]
                   /\ Goto("gui", "decide") /\ UNCHANGED holder
           /\ UNCHANGED <<package, op, record, cache, completed, bounds>>

LetGo == /\ At("gui", "unlock")
         /\ holder' = None
         /\ Goto("gui", "pending")
         /\ UNCHANGED <<package, op, record, view, completed, bounds>>

\* PendingForPath, without the lock.
ReadPending == /\ At("gui", "pending")
               /\ item' = [item EXCEPT !.pending = (journal # None)]
               /\ Goto("gui", "decide")
               /\ UNCHANGED <<package, holder, op, record, cache, completed, bounds>>

\* Items shows what is offered; Execute goes on if its action is.
Decide == /\ At("gui", "decide")
          /\ Goto("gui", IF item.for \in Offered(item) THEN "save" ELSE "idle")
          /\ item' = [NoItem EXCEPT !.for = IF item.for \in Offered(item) THEN item.for
                                                                    ELSE None]
          /\ UNCHANGED <<package, holder, op, record, cache, completed, bounds>>

-----------------------------------------------------------------------------
(* The rest of Service.Execute.                                                *)

\* RecordLifecycle, before anything is changed.
Save == /\ At("gui", "save")
        /\ record' = [op |-> item.for, failed |-> FALSE, force |-> FALSE]
        /\ op' = [op EXCEPT !["gui"] = [action |-> item.for, version |-> Latest]]
        /\ item' = NoItem
        /\ completed' = FALSE
        /\ Goto("gui", "apply")
        /\ UNCHANGED <<package, holder, cache, bounds>>

\* The record cannot be written, or is there and cannot be synced: nothing is done.
SaveFails == /\ At("gui", "save")
             /\ \/ UNCHANGED <<record, completed>>
                \/ /\ record' = [op |-> item.for, failed |-> FALSE, force |-> FALSE]
                   /\ completed' = FALSE
             /\ item' = NoItem
             /\ Goto("gui", "idle")
             /\ UNCHANGED <<package, holder, op, cache, bounds>>

\* The failure is recorded; an adoption that met an unexpected backup may be forced.
\* Or it cannot be recorded, and the record stays that of an operation begun.
SaveFailure == /\ At("gui", "failed")
               /\ \/ UNCHANGED record
                  \/ \E force \in BOOLEAN :
                       /\ force => record.op = "adopt"
                       /\ record' = [record EXCEPT !.failed = TRUE, !.force = force]
               /\ Goto("gui", "idle")
               /\ UNCHANGED <<package, holder, op, view, completed, bounds>>

\* ClearLifecycle, which may fail.
Clear == /\ At("gui", "clear")
         /\ record' \in {None, record}
         /\ completed' = (completed /\ record' # None)
         /\ Goto("gui", "idle")
         /\ UNCHANGED <<package, holder, op, view, bounds>>

-----------------------------------------------------------------------------
(* An operation of either process.                                             *)

\* The CLI runs anything but a force reinstall; what it uninstalls is what is there.
Command(action, version) ==
  /\ At("cli", "idle") /\ action # "force-reinstall"
  /\ action = "uninstall" => version = Latest
  /\ op' = [op EXCEPT !["cli"] = [action |-> action, version |-> version]]
  /\ Goto("cli", "apply")
  /\ UNCHANGED <<package, holder, record, view, completed, bounds>>

\* Mutant of Invalidated: the key of the cached check is trusted to tell every change.
InvalidatedByKey(p) == cache

Invalidated(p) == IF p = "gui" THEN None ELSE cache

\* Apply and Uninstall return: the GUI's drop the cached check, whatever the outcome.
\* They do after the lock is released, before the next check of the same process.
Ended(p, there) == /\ Goto(p, there)
                   /\ op' = [op EXCEPT ![p] = None]
                   /\ cache' = Invalidated(p)
                   /\ UNCHANGED item

Failed(p) == Ended(p, IF p = "gui" THEN "failed" ELSE "idle")

\* acquireLock does not wait.
Refused(p) == /\ At(p, "apply") /\ holder # None
              /\ Failed(p)
              /\ UNCHANGED <<package, holder, record, completed, bounds>>

\* Mutant of Acquire: the journal of a dead process is left for later.
AcquireOnly(p) == /\ At(p, "apply") /\ holder = None
                  /\ holder' = p
                  /\ Goto(p, "staging")
                  /\ UNCHANGED <<package, op, record, view, completed, bounds>>

Recovered == /\ IF journal = None
                THEN UNCHANGED <<dest, installed>>
                ELSE dest' = journal.dest /\ installed' = journal.installed
             /\ journal' = None
             /\ UNCHANGED leftover

\* A snapshot is not restored, or the directory not removed: the journal stays open.
\* The state file, the last one changed, is the first one restored.
RestoreFailed == /\ journal # None
                 /\ installed' \in {installed, journal.installed}
                 /\ UNCHANGED <<dest, leftover, journal>>

\* acquireManager: the lock, and what a dead process left is rolled back.
Acquire(p) == /\ At(p, "apply") /\ holder = None
              /\ holder' = p
              /\ Recovered
              /\ Goto(p, "staging")
              /\ UNCHANGED <<op, record, view, completed, bounds>>

\* Or it cannot be: the lock is let go, the operation has failed.
AcquireFails(p) == /\ At(p, "apply") /\ holder = None
                   /\ RestoreFailed
                   /\ Failed(p)
                   /\ UNCHANGED <<holder, record, completed, bounds>>

\* Preconditions of stage and uninstall.
Accepted(o) ==
  CASE o.action = "install"   -> installed = None /\ ~Existing
    [] o.action = "adopt"     -> installed = None /\ Existing
    [] o.action \in {"update", "uninstall"} -> installed # None
    [] o.action = "repair"    -> installed = o.version
    [] o.action = "force-reinstall" -> installed # None \/ Existing

Stage(p) == /\ At(p, "staging") /\ Accepted(op[p])
            /\ Goto(p, "staged")
            /\ UNCHANGED <<package, holder, op, record, view, completed, bounds>>

\* The preconditions or the download fail.
StageFails(p) == /\ At(p, "staging")
                 /\ holder' = None
                 /\ Failed(p)
                 /\ UNCHANGED <<package, record, completed, bounds>>

\* The first change of a destination file, after the download. An adoption backs up
\* what its inventory has seen, which must still be there.
Write(p) == /\ At(p, "staged")
            /\ op[p].action = "adopt" => Existing
            /\ journal' = [dest |-> dest, installed |-> installed] /\ dest' = "partial"
            /\ completed' = (completed /\ p = "gui")
            /\ Goto(p, "writing")
            /\ UNCHANGED <<leftover, installed, holder, op, record, view, bounds>>

\* The state file is the last one written or removed, and readable at once.
WriteState(p) == /\ At(p, "writing")
                 /\ installed' = IF op[p].action = "uninstall" THEN None ELSE op[p].version
                 /\ Goto(p, "written")
                 /\ UNCHANGED <<dest, leftover, journal, holder, op, record, view, completed, bounds>>

\* An uninstall leaves preserved files, originals or nothing; an adoption leaves the
\* files as they are. An error after the commit is that of removing the directory of
\* the committed transaction: the rollback that follows has nothing to do.
Commit(p) == /\ At(p, "written")
             /\ dest' \in CASE op[p].action = "uninstall" -> {"empty", "foreign"}
                            [] op[p].action = "adopt" -> {"managed", "differs"}
                            [] OTHER -> {"managed"}
             /\ journal' = None
             /\ holder' = None
             /\ completed' = (p = "gui")
             /\ Failed(p) \/ Ended(p, IF p = "gui" THEN "clear" ELSE "idle")
             /\ UNCHANGED <<leftover, installed, record, bounds>>

\* A step fails before the commit, and the transaction is rolled back, or that fails too.
Abort(p) == /\ pc[p] \in {"staged", "writing", "written"}
            /\ Recovered \/ RestoreFailed
            /\ holder' = None
            /\ Failed(p)
            /\ UNCHANGED <<record, completed, bounds>>

-----------------------------------------------------------------------------
(* Starts, deaths and the user.                                                *)

\* Mutant of Open: recovery that does not need the lock.
OpenUnlocked == /\ At("gui", "down")
                /\ Recovered
                /\ Goto("gui", "idle")
                /\ UNCHANGED <<holder, op, record, view, completed, bounds>>

\* appstore.Open recovers, which needs the lock; without it, or when the recovery
\* fails, the GUI does not start.
Open == /\ At("gui", "down") /\ holder = None
        /\ \/ Recovered /\ Goto("gui", "idle")
           \/ RestoreFailed /\ UNCHANGED pc
        /\ UNCHANGED <<holder, op, record, view, completed, bounds>>

\* The kernel releases the lock; journal and record stay, what is in memory is gone.
\* Who dies while copying to the destination, or back, leaves a temporary file there;
\* a death while undoing is one after RestoreFailed.
Die(p) == /\ deaths < MaxDeaths /\ deaths' = deaths + 1
          /\ pc[p] \notin {"idle", "down"}
          /\ Goto(p, IF p = "gui" THEN "down" ELSE "idle")
          /\ holder' = IF holder = p THEN None ELSE holder
          /\ op' = [op EXCEPT ![p] = None]
          /\ IF p = "gui" THEN item' = NoItem /\ cache' = None
                          ELSE UNCHANGED view
          /\ \/ UNCHANGED leftover
             \/ journal # None /\ holder \in {p, None} /\ leftover' = TRUE
          /\ UNCHANGED <<dest, installed, journal, record, completed, edits>>

\* Files the Store knows nothing about come and go, those of the package are changed.
Edit == /\ edits < MaxEdits /\ edits' = edits + 1
        /\ \/ /\ \/ dest = "empty" /\ dest' = "foreign"
                 \/ dest = "foreign" /\ dest' = "empty"
                 \/ dest = "managed" /\ dest' = "differs"
              /\ UNCHANGED leftover
           \/ leftover /\ leftover' = FALSE /\ UNCHANGED dest
        /\ completed' = FALSE
        /\ UNCHANGED <<installed, journal, holder, pc, op, record, view, deaths>>

-----------------------------------------------------------------------------
Gui == \/ \E action \in Action \cup {None} : Ask(action)
       \/ ReadStatus \/ Hash \/ ReadExisting \/ TryLock \/ LetGo \/ ReadPending \/ Decide
       \/ Save \/ SaveFails \/ SaveFailure \/ Clear \/ Open

Operate(p) == \/ Refused(p) \/ Acquire(p) \/ AcquireFails(p) \/ Stage(p) \/ StageFails(p)
              \/ Write(p) \/ WriteState(p) \/ Commit(p) \/ Abort(p)

Next == \/ Gui
        \/ \E action \in Action, version \in Version : Command(action, version)
        \/ \E p \in Process : Operate(p) \/ Die(p)
        \/ Edit

Spec == Init /\ [][Next]_vars

-----------------------------------------------------------------------------
(* Properties.                                                                 *)

\* Who writes to the destination holds the lock and has the one open journal, and
\* no process rolls it back under them. A destination in the middle of a transaction,
\* or of an undoing that failed, always has the journal that puts it back.
LiveIsExclusive ==
  /\ \A p \in Process :
       pc[p] \in {"staging", "staged", "writing", "written"} => holder = p
  /\ \A p \in Process : pc[p] \in {"writing", "written"} => journal # None
  /\ journal # None <=> dest = "partial"

\* Nothing of a release that an interrupted operation wrote or removed is ever taken
\* for an installation to adopt, whoever died when and however its undoing went: what
\* is adopted is the user's, or, where nothing is, the temporary file that a dead
\* process left ("never convert an absent fresh install into adoption" is not so for
\* that file).
AdoptsNoHalfInstall ==
  [][\A p \in Process : Write(p) /\ op[p].action = "adopt"
       => /\ installed = None /\ journal = None
          /\ dest = "foreign" \/ (dest = "empty" /\ leftover)]_vars

\* An operation that did complete, but whose record outlived it because the GUI
\* died or could not remove it, is not offered again as a retry; repairing twice
\* is harmless.
CurrentItem == [NoItem EXCEPT !.installed = installed, !.existing = Existing,
                              !.pending = journal # None]
CompletedIsNotRetried ==
  completed /\ holder = None /\ journal = None => Retry(CurrentItem) \subseteq {"repair"}

\* After an operation of the GUI has completed, a cached health check of the record
\* it left is one of the files it left, whatever was cached, and whatever check was
\* half done, while this or another operation was writing them.
CompletedIsVerified ==
  completed /\ cache # None /\ cache.of = installed
    => (cache.healthy <=> dest = "managed")

\* Not so in the code, which offers the recorded operation as a retry: "An active
\* transaction blocks all recovery actions".
ActiveBlocksRecovery == At("gui", "decide") /\ item.active => Offered(item) = {}
=============================================================================
