# Specifications of the Knulli App Store

TLA+ modules, TLC configurations and TLAPS proofs for the program in this
repository: a package manager for handheld consoles, made of a GUI
(`knulli-app-ui`), a command line tool (`knulli-app`) and a launcher script. It
installs reviewed packages below `/userdata`, keeps backups of what it replaces,
edits EmulationStation's `gamelist.xml`, and updates itself.

What can go wrong here is rarely in one function. It is in what a process that
dies leaves for the next start, in what a long sequence of legal operations does
to a user's files, in two processes looking at one package, and in a goroutine,
a channel and a mutex that a quitting user abandons. The modules are about that.

- [Components](#components): the system, its state and what makes it correct
- [Modules](#modules): how each specification corresponds to the code
- [Runs](#runs): what TLC checks, the bounds, the fairness
- [Proofs](#proofs): what TLAPS proves, from what, and how
- [Disagreements](#disagreements): where code and documents differ
- [Not modelled](#not-modelled), [Plan](#plan)

## Components

**File transaction and journal** (`internal/safefs/transaction.go`, `files.go`).
State: the destination files; a transaction directory with `journal.json`
(`open` or `committed`, and a list of snapshots) and the backups `%06d`; in
memory, the snapshots and the paths seen. Operations: `Begin`, `Write`, `Copy`,
`Chmod`, `Remove`, `Commit`, `Rollback`, and `Recover` at the next locked start.
Hard: a death between any two system calls, calls that take effect and report an
error, restores that fail, and removing a directory entry by entry. Correct when
an operation is all or nothing for whoever comes next, and what it reports about
its rollback is true.

**Package installer** (`internal/installer`: `stage.go`, `commit.go`, `adoption.go`,
`recovery.go`, `uninstall.go`, `state.go`, `status.go`). State: the package's files and
launcher, the backups below `originals/<id>`, the installed state (tracked files with hashes and
the flags preserved and unmanaged, the index of backups) and `recovery-backups/`. Operations:
install, adopt, update, repair, force reinstall, uninstall, each inside a file transaction; the
first, the second and the fifth inventory the destination before they download. Hard: which
backup is taken, listed, restored and removed by which operation over the life of a package
whose releases ship and declare different files, with the user writing to the same directory,
also during the download. Correct when uninstall gives back what was there first, nothing that
was not recorded is lost, data both releases declare survives, managed files are the recorded
ones and the index agrees with the disk.

**Menu entries** (`internal/gamelist`). State: the entries of `gamelist.xml`, and
`MenuOwned` in the installed state. Operations: `Derive` plans an edit from the old
and the new menu, `Apply` carries it out, `Missing` fills in blank fields. Hard:
EmulationStation and the user edit the same file, releases move, rename and drop
their entry. Correct when the Store never removes or rewrites an entry that is no
longer its own, and leaves none of its own behind.

**GUI session and worker** (`internal/ui/model.go`, `internal/sdlui/run.go`,
`cmd/knulli-app-ui/main.go`, `Service.Execute` and `FlushGameListRefresh`). State: `Busy`, a
channel of capacity one, the goroutine, `operationMu`, `refreshPending`. Hard: progress replaces
progress in the channel while the loop polls it or is gone, before an action, between its parts
and with its transaction open; the user quits at any moment. Correct when one operation runs at
a time, its result always arrives, no transaction is cut off by the end of the process, no
reload is lost, and nothing hangs.

**Controller and keyboard input** (`internal/input`, `handleEvent` of `sdlui/run.go`,
`sdlui/events.go`). State: the open controller or the keyboard, whether the session is
blocked, whether the quit chord is held. Hard: controllers come and go with their
anchor held, and the keyboard arms the same chord. Correct when Y quits only while
somebody holds an anchor that is listened to, and a session without a controller
starts nothing.

**Walkthrough** (`internal/sdlui/walk.go`). State: the keys left, a pending capture,
whether the last frame was busy, idle frames, a requested exit. Hard: a key may start an
operation that ends before the next frame or after many, and an exit may be asked for
before the last key. Correct when the evidence shows every screen, no key overtakes an
operation, and the run ends.

**Library navigation** (`internal/ui/model.go`, `tabs.go`, `sdlui/events.go`).
State: the catalogue and the rows shown, tab and category, what each view remembers,
the row and the action under the cursor, the screen. Hard: three indices into lists
that refreshes and tabs replace. Correct when what starts is what was confirmed and
the cursor stays with its package.

**Catalogue service and manager lock** (`internal/appstore/service.go`,
`verdict.go`, `internal/installer/lifecycle.go`, `status.go`, `stage.go`). State:
the manager's lock, the journal, the installed state, the lifecycle record of the
last operation, the GUI's cache of health checks (`cache.go`). Hard: the GUI reads all
of that in separate steps, without the lock, while the CLI operates; either dies; the
cache is keyed by the record, which a repair leaves as it was. Correct when
operations exclude each other, recovery never runs under a live one, a completed
operation is not offered again, no check of before an operation answers for what the
operation left, and adoption never takes what an interrupted install wrote for the
user's.

**Store self-update and launcher** (`internal/installer/selfupdate.go`,
`internal/appstore/selfupdate.go`, `packaging/knulli/Knulli App Store.sh`). State: the packaged
files on disk, the version in memory, the pending offer, the restart flag, the staging
directory. Hard: a binary holds the key of its catalogue, and both are being replaced; the
archive's sizes are its own word; staging outlives a process that dies. Correct when a binary
only ever meets its own catalogue, the Store comes up again after an update that was cut off,
staging stays within the limits of one release, and no release takes it back.

**Archive extraction, downloads, versions** (`internal/archive`,
`internal/installer/download.go`, `internal/version`). What self-update and the installer
stand on: what a download and an extraction may write, and which of two versions is newer.

**The rest**: diagnostics log, path guard, signatures, manifest and platform rules, the
maintainers' update check, rendering, argument parsing. See
[Not modelled](#not-modelled).

How they interact. The launcher runs `knulli-app recover`, then `register-store-menu`, then
execs the GUI. The GUI opens the service, which recovers again and loads the catalogue; the
event loop takes events of the open controller, the keyboard or a script and starts an operation
in a goroutine; the service checks once more that the action is offered, writes the lifecycle
record, and calls the installer; the installer takes the manager lock, recovers, stages, begins
a transaction, changes files, menu entry and installed state in it, and commits. The CLI enters
at the installer. Shared between the processes: the lock, the journal, the state files, the
destinations. Shared inside the GUI: the channel, `operationMu`, `refreshPending`.

## Modules

| module | models | state in the code |
| --- | --- | --- |
| `AtomicStore` | what operations need from `safefs`: all or nothing | the destinations before and after |
| `Transaction` | `safefs`, a system call per step, with failures and deaths | `disk`: destinations; `status`, `snaps`, `backup`: the transaction directory; `mem`: `Transaction.snapshots`/`seen`; `pc`, `target`, `todo`, `err`: the call in progress; `outcome`: what the caller is told |
| `Installer` | `installFiles`, `installMenuLauncher`, `adoptFiles`, `backupRecoveryDestination`, `Uninstall` | `pending` (`stagedRelease` with its inventory), `files`, `originals`, `installed` (`Installed`), `retained` (`recovery-backups`), `undo` (the open journal of an operation that was cut short) |
| `Gamelist` | `Derive`, `Apply`, and the edits of `xml.go` | `entries`, `installed` and `owned` (`MenuOwned`), `changed` (`GameListChanged`); each edit gives the list and the flag that its function returns |
| `Session` | `Model.start` and `Poll`, the goroutine, `Execute`, `FlushGameListRefresh`, `main` | `busy`, `events`, `worker` and `then` (where the goroutine is, and where it goes on after a message), `mutex`, `pending` (`refreshPending`) |
| `Input` | `input.Session`, `handleEvent`, `openController`: which device is listened to, and the chord | `keyboard` (`InputMode`), `attached`, `active` (`controller` of `Run`), `held`, `chord` (`ChordHeld`) |
| `Walk` | `WalkRunner` | `left`, `capture`, `wasBusy`, `idle`, `exiting` (`exitRequested`), `walk` |
| `EventLoop` | the loop of `Run`: `Session` with `Input` and `Walk` | `phase`, and the variables of the three |
| `Library` | `Move`, `Horizontal`, `CycleTab`, `Select`, `More`, `Back`, `Poll`, `filter` and `Tabs` | `catalogue`, `items`, `view`, `at`, `selected`, `action`, `focus`, `confirmFrom`, `busy` |
| `Service` | `Service.item`, `assess`, `validRetryAction`, `Execute`, the lifecycle record, `acquireLock`, `RecoveryStatus`, `Status` and its cache; GUI and CLI | `dest`, `leftover` (the temporary file of a copy), `installed`, `journal`, `holder`, `record`, `item`, `cache` (`StatusCache`) |
| `Staging` | `download`, `extractZIP` and `extractFile`, the sweep of `acquireManager` | `bytes` on disk, `total` declared, `unpacked` |
| `VersionOrder` | `Parse` and `CompareNumeric` | none: operators |
| `SelfUpdate` | the launcher, `Open`, `CheckStoreUpdate`, `UpdateStore`; `Staging` and `VersionOrder` in it | `files`, `journal`, `saved` (the snapshots), `lost` (backups that are gone), `gui`, `pending`, `restart` |
| `MC...` | constants of the runs | |
| `TransactionProofs`, `InstallerProofs`, `GamelistProofs`, `ServiceProofs`, `EventLoopProofs`, `LibraryProofs`, `SelfUpdateProofs`, `VersionProofs` | theorems about the module they are named after, `EventLoopProofs` about `Session` too | |

The modules are layered. `Transaction` has the steps between two system calls and is
shown to implement `AtomicStore`; `Installer`, `Gamelist` and `SelfUpdate` may
therefore treat a commit, or a copy with its snapshot, as one step, and say what
they do where it is cut off. An `Installer` operation that dies or fails and cannot roll
back leaves some of its files changed, a journal that remembers the others and the
temporary file of a copy (`CutShort`), and the next locked start puts them back (`Recover`);
`SelfUpdate` dies or fails between any two files and restores. The faults of
`Transaction` that its abstraction does not cover are steps of these modules where they
matter: a commit that takes effect and reports an error in `Installer`
(`ForceUnreported`), `Service` and `SelfUpdate`; a half-done `Commit` and a removal that
stops with some of the backups gone in `SelfUpdate` (`CommitFails`, `RemovalStops`).
`Session` and `Service` treat what an operation does to a package as one step and look at
what surrounds it, inside one process (with every message that is sent, also from
inside the transaction) and between two (with failing rollbacks and recoveries, and
records that cannot be saved).

`EventLoop` composes three modules. In `Session` alone the user may confirm and quit at
any moment; `EventLoop` says when: in the phase of the loop that takes events, through
`Input` if a person does it, through `Walk` if a script does. The order of the phases is
that of the code: events, poll, frame and capture, exit, next key, end of the
walkthrough. Every step of it is a step of `Session` or leaves `Session` alone, which
`EventLoopProofs` proves, so what is proved of `Session` holds of the loop. `SelfUpdate`
extends `Staging` and `VersionOrder` in the same way: they say what a step may write and
which release is newer, it says when.

Operators named `...` after a comment that starts with "Mutant of" are deliberately
wrong variants of the definition that follows them, each a plausible bug. They are not
part of any specification; putting one in place of its original must break the
property it is kept for.

## Runs

TLC with 2 workers; every run takes less than three minutes. The largest are `ServiceSafety`
with 12.3 million states, `InstallerLifecycle` and `SelfUpdateStarts` with 3.5 million each.

| run | asks | bounds |
| --- | --- | --- |
| `TransactionAtomic` | Does a transaction implement `AtomicStore`, is it write-ahead, is a commit final, and does a failed rollback keep what a retry needs? | 2 paths, 2 contents, 3 failures or deaths, of every kind but a half-done journal write in `Commit` |
| `TransactionOutcome` | Is a reported rollback true, and is every transaction directory settled in the end? | the same sizes; the half-done journal write included, failing directory removals excluded |
| `InstallerLifecycle` | Do backups, index, managed files and user data stay right over any sequence of operations, with an inventory that is stale when it is used, with an operation cut short, and a commit that reports an error? | 5 files (one the temporary file of a copy) and a launcher, 2 releases that differ in what they ship and declare, 1 user edit between or during operations, 1 operation cut short, 1 force reinstall |
| `GamelistOwnership` | Does the Store only remove and rewrite its own unedited entries, leave none, and report every change? | 3 slots, 2 fields, 2 texts, 4 releases (add, fill in, move, drop), 2 edits |
| `SessionWorker` | Can an operation, a walkthrough or a quit hang, lose a reload or cut a transaction? Can hotplug leave the chord armed, or a walkthrough miss a screen? | 2 controllers, 1 keyboard anchor, up to 3 keys of a script; any number of operations |
| `LibraryNavigation` | Can buttons, tabs and refreshes start something else than what was confirmed? | 2 packages, 4 listings, all tabs and categories; nothing else is bounded |
| `ServiceSafety` | Do two processes stay out of each other's way, and does a stale record or a stale check do harm? | GUI and CLI, 2 versions, 1 death, 1 user edit; failing rollbacks, recoveries and saves are not bounded |
| `SelfUpdateStarts` | Can a death or a failure during an update pair a binary with the wrong catalogue, lock the user out, fill the card or take the Store back a version? | 4 files and one that is not the Store's, 5 versions (one written in two ways, its prerelease, a later one, a hash build), an archive limit of 4 units with declared and real sizes that differ, 3 failures or deaths |
| `TransactionTornRemoval`, `TransactionRemovalFails`, `InstallerPreserveDropped`, `ServiceActiveRetry` | the [disagreements](#disagreements) | as small as the counterexample allows |

Why the bounds are enough. `Transaction` treats paths alike and a snapshot depends on its own
path only, so two paths show every order of "this one done, that one not"; three faults allow a
failing call, a failing rollback and a death in the recovery after it. The same three in
`SelfUpdateStarts` are a half-done commit, its rollback cut off and one more. In `Installer` the
files are chosen by the roles a path can have: shipped by both releases, by the first or by the
second only, declared by both or by one, present before or not, the launcher, a leftover. One
edit anywhere between any two operations reaches every combination of a recorded and an actual
file (`MCWritten` says what may be written where), and one between an inventory and its use
every way a single path of it can be stale: appeared, changed or gone; operations are not
bounded at all, but for force reinstalls, whose backups would accumulate. Two edits in
`Gamelist` allow an entry to be changed and put back or removed and re-created. In `Service` one
death with two processes covers every handover, and the number of operations is not bounded. In
`SessionWorker` two controllers are one that is open and one that is not, an anchor of the
keyboard and one of a controller allow to let go of one of two, and three keys are a key before,
one that starts an operation, and one after it; `Settle` is the program's 3. In
`SelfUpdateStarts` four units of space let two entries fit each alone and not together. A sample
of the versions is compared with the order of the numbers they would be if read as digits
(`AheadIsPositional` of `MCSelfUpdate`, an assumption TLC evaluates).

Fairness. `TransactionOutcome`: every system call returns, an operation makes finitely many
calls, and whoever finds the lock free eventually starts another operation (the launcher
recovers on every start); deaths and failures are bounded in number, as otherwise a device that
always fails never settles. `SessionWorker`: the loop goes round, a ticker waking it, both
threads are scheduled, a waiting `sync.Mutex.Lock` gets the mutex in the end (Go's mutex does
not starve a waiter), and staging reports progress finitely often; nothing makes the user touch
a key. A script does not depend on its deadline: `RunEnds` holds without it. `SelfUpdateStarts`:
the user keeps starting the Store and the launcher runs to its end. `Session` stops when the
process has ended, so its configuration does not check for deadlock; `RunEnds` and `BusyEnds`
say that it stops nowhere else. All other runs check for deadlock.

Deaths are deaths of a process. What was written is there afterwards, in the order in
which it was written; a power failure that loses unsynced directory entries is not modelled
(`Transaction.Remove` does not sync the directory it removed from).

## Proofs

`TransactionProofs` proves, for any set of paths, any contents, and any number of
failures and deaths:

| theorem | property | assumption on `Faults` |
| --- | --- | --- |
| `TypeCorrect` | `TypeOK` | none |
| `WriteAheadHolds` | `WriteAhead` | none |
| `CommitIsFinal` | `CommitSticks` | no half-done journal write in `Commit` |
| `RolledBackIsUnchanged` | `OutcomeTruthful` | directory removal does not fail |
| `FailedRollbackIsRetried` | `FailedRollbackKeepsEvidence` | no half-done journal write in `Commit` |
| `TransactionIsAtomic` | `ImplementsAtomicStore` | no half-done journal write in `Commit` |

The assumptions are not conveniences: without them the statements are false of the
code (see below).

The argument. `WriteAhead` says that a destination differs from what it was only if
the journal on disk can put it back. It is not inductive: it does not say that what the
journal will list after the next write is true, that the memory of the process and the
journal agree, nor that a backup which is already gone is no longer needed. The invariant
`IInv` adds that, in five parts: `DirInv`, what the transaction directory holds by where
the operation is; `MemInv`, that the snapshots in memory are those of the journal but
for the one call in progress; `SnapshotInv`, that while an operation works its own
snapshots are true of `base`; `JournalInv`, that the journal's are, whatever happened to
the process, and that a backup is missing only where the destination is back as it was;
`RestoredInv`, that restoring makes progress towards `base` and ends there unless it
failed. `JournalInv` is what survives the loss of memory in a death, `SnapshotInv` and
`MemInv` are what re-establish it at the next journal write. One lemma per part shows
that every step preserves it; the safety theorems follow from the conjunction.
`TransactionIsAtomic` maps every step to a step of `AtomicStore` or a stutter: `Begin`
to `ABegin`, `Mutate` to `AChange`, `Commit` to `ACommit`, a failing call or a death to
`AAbort`, and a journal write, a restore and a removal to nothing, because what
recovery would make of the files (`Logical`) does not change.

`SelfUpdateProofs`, for any packaged files, any versions, any limits and any number
of deaths and failures, from `SelfUpdateAssumption` (the GUI binary, the index and its
signature are packaged files), `StagingAssumption` (a release is no larger than what it
may expand to) and `VersionOrderAssumption`:

| theorem | property |
| --- | --- |
| `TypeCorrect` | `TypeOK` |
| `NeverMixed` | `StartsWhole` |
| `NeverBackwards` | `NoDowngrade` |
| `StagingIsBounded` | `StagingBounded` |

`StartsWhole` has one exception, and the code has it too. `Commit` may rename a journal that says
committed and fail in the sync after it (`transaction.go:171`); the deferred rollback then
restores from memory, and if that is cut off as well, recovery finds a journal it only
discards (`transaction.go:248`) over files of two versions. The history variable `stranded`
marks this until an update succeeds. Without the exception TLC finds the mixed start.
`OpensAgain` has a second: `RemoveAll` of an open journal that stops with a backup gone
leaves one that no start can restore, and `recover || exit 1` ends each start. No other
sequence of deaths and failures does either.

`StartsWhole` speaks of one moment of a start and says nothing of how the files got there.
`IInv` adds what holds in between: `Recoverable`, that each file either has the version last
installed or has it in the journal or in the process, through copies, rollbacks and recoveries
that are cut off; `LoadedWhole`, that the launcher reaches the binary only when the journal is
empty, and that nothing writes between that and the load; `CopiesOffer`, that the files already
copied are those of the pending release, which is what makes the commit whole. `NoDowngrade`
needs `OfferInv`: the running version and the offer compared with it are forgotten together.
`StagingBounded` needs `StagingInv`: a download starts in an empty place because the lock's
holder sweeps first, and while an archive is unpacked, what is on the card is the release and
what its entries have declared.

`VersionProofs`, for versions with any number of components: `NewerIsStrict`,
`NewerIsTransitive`, `SameIsInterchangeable` and `ZeroesDoNotCount`. `NoDowngrade` compares one
version with one other; these say that a chain of such steps never comes back. The argument is
about the first place where two lists of numbers differ, which exists because the places are
finitely many (`FirstDifference`).

`EventLoopProofs` begins with `Session` alone, from `SessionAssumption` (nobody is not one
of the threads):

| theorem | property |
| --- | --- |
| `TypeCorrect` | `TypeOK` |
| `OneAtATime` | `NoOverlap` |
| `EndsCleanly` | `ExitIsClean` |

The module has no size to vary; what the proof adds is the reason. The goroutine lives inside
the busy period and its result is its last word (`WorkerInv`). From the moment main has had the
mutex, the goroutine is outside of it or gets it with a cancelled context and reaches no
transaction (`QuitInv`); a message it is sending counts as the place it goes on to. A menu
change that was reported is either noted, or the goroutine that is about to note it holds the
mutex main waits for (`ReloadInv`).

And then the loop, for any controllers and anchors and scripts of any length, from
`InputAssumption` (a controller is not a key) and `WalkAssumption`:

| theorem | property |
| --- | --- |
| `LoopIsSession` | every behaviour of the loop is one of `Session` |
| `LoopIsSafe` | `NoOverlap`, `ExitIsClean`, from the theorems of `Session` |
| `LoopTypeCorrect` | `LoopTypeOK` |
| `ChordHeld` | `ChordIsHeld` |
| `EvidenceKept` | `EvidenceComplete`, if `Settle > 1` |

`EvidenceComplete` needs `EvidenceInv`, which says why the two conditions of
`WalkRunner.Capture` are enough: an operation that runs either started with the key whose
capture is still pending, however soon it ends, or was seen running by the last frame, so
that its end is noticed. With `Settle = 1` the statement is false: the walkthrough would
end in the pass of the loop that sends its last key.

`InstallerProofs`, for any paths, any contents, any releases, whatever they ship and
declare, and any number of operations, edits and operations cut short, from
`InstallerAssumption` (the launcher is not a file of the destination, a release ships no
temporary file of a copy and the user writes none):

| theorem | property | hypothesis |
| --- | --- | --- |
| `TypeCorrect` | `TypeOK` | none |
| `IndexIsExact` | `OriginalsIndexed` | none |
| `NothingUnrecordedIsLost` | `UnrecordedIsBackedUp` | none |
| `UserDataIsKept` | `DeclaredByBothIsKept` | none |
| `RecordsAreTrue` | `ManagedMatches` | none |
| `AgreedOriginalsReturn` | `UninstallRestores`, of the paths that are `AgreedOn` | none |
| `OriginalsReturn` | `UninstallRestores` | `DeclarationsAgree`: that is every path |

Each operation treats a path in one of several ways: it keeps, backs up, restores, removes or
writes it. The proofs first show that these exclude each other (`Disjoint`), then what an
operation does to one path of each kind. `IInv` is `TypeOK`, `OriginalsIndexed` and `StateInv`,
which says that the record of the installed release agrees with what that release ships and
declares; the action properties compare a path before and after with it. `OriginalsReturn` also
needs `FirstInv`: a backup is of what the path first held, and a tracked path without a backup
is the user's, or stands where there was nothing, or is in the backup of a force reinstall, or
is one of those the code took over without a copy (`missed`). `first` is what was at the path
when it was recorded, whether or not the operation had seen it; `missed` names the three ways of
not making a copy, which the [disagreements](#disagreements) describe, and without it TLC finds
`UninstallRestores` violated by each. `NothingUnrecordedIsLost` covers operations that are cut
short too (`CutIsKept`): what they wrote over is in the journal they leave. It needs
`TempIsJunk`, that what is at the path of a temporary file is never the user's. `FirstInv` is
inductive for a path only if the releases that ship it agree on whether it is the user's
(`AgreedOn`). That is not a convenience: with the releases of `InstallerPreserveDropped`, the
second of which ships a path that only the first declared, an update writes over the user's file
without a backup, and TLC finds `UninstallRestores` violated. The releases of
`InstallerLifecycle` agree on every path.

`GamelistProofs`, for any slots, fields, texts and releases and any number of edits, from
`GamelistAssumption` (a blank is not a text, the Store's own menu entry is in no package's slot):

| theorem | property |
| --- | --- |
| `TypeCorrect` | `TypeOK` |
| `LeavesNoOrphan` | `NoOrphan` |
| `EditsSurvive` | `EditedSurvives` |
| `ChangesAreReported` | `ChangeIsReported` |
| `OwnershipIsListed` | `OwnedIsListed` |

An operation is several edits of the list in a row, each with the flag that its function
returns, and the reported flag is any of them. `AppliedAt` works out once what they make of one
slot, and `FlagsAreTrue` that each flag is true of its own edit; that the flags are true of the
whole is `ChangesAreReported`, as two edits could undo each other. They do not, but where an
update writes the entry it owns again as it was. `NoOrphan` is inductive with the types alone,
because an entry the Store writes is owned in the same step; the others follow from that.

`ServiceProofs`, for any versions and any number of deaths and edits, from `ServiceAssumption`
(the catalogue's version is one of them; "none" is no version, record, snapshot or process):

| theorem | property |
| --- | --- |
| `TypeCorrect` | `TypeOK` |
| `WritersExclude` | `LiveIsExclusive` |
| `AdoptionIsForeign` | `AdoptsNoHalfInstall` |
| `NoRetryOfCompleted` | `CompletedIsNotRetried` |
| `VerdictIsCurrent` | `CompletedIsVerified` |

`IInv` has a part for each thing shared between the processes. `OperationInv`: what each process
holds in memory at each place, and that the GUI runs the operation of its record. `LockInv`:
besides `LiveIsExclusive`, that an operation which has the lock and does not write has already
recovered, so that no journal is open, and that a destination which is mixed has its journal,
also after a rollback or a recovery that failed. `PackageInv`: there is an installed state
exactly when the files at the destination are the Store's (as recorded or not), now and after a
rollback of the journal; this and the check that `stage` makes under the lock, carried through
to the commit, keep adoption away from what an interrupted install wrote. What they cannot keep
it away from is the temporary file of a copy, which no journal knows of: the property allows
adoption of an empty destination with one. `CompletedInv`: from the commit of a recorded
operation until the package is touched again, the installed version is the one it meant, so that
`ValidRetry` refuses it. `CompletedIsVerified` is inductive together with these: an operation of
the GUI drops the cached check when it returns, and whoever touches the package after that ends
`completed`.

`LibraryProofs`, for any catalogue that lists a package once, any lists of actions and any
categories, from `LibraryAssumption`:

| theorem | property |
| --- | --- |
| `TypeCorrect` | `TypeOK` |
| `StartsAsked` | `StartsWhatWasAsked` |
| `ActionStays` | `ActionIsThere` |
| `RefreshFollowsPackage` | `RefreshKeepsPackage` |
| `RoundTripsReturn` | `RoundTrips` |

`StartsAsked` needs `AskedIsShown`: an open confirmation screen is about the row and the action
under the cursor, and going back from it never leads to another one. The others need
`CursorInv`: the row cursor is on a row if there is one, the action cursor on an action or at
the start of a list, and a confirmation screen is open only over a list that is not empty. The
rows are what the loop of `Model.filter` collects, a recursive function over the index.
`RowsType` shows that they are packages, none twice, and exactly those that match, for an index
of any length. Induction over data is out of the prover's reach as a library theorem, so the
proof goes by descent: the least length for which the claim fails cannot be zero, and cannot be
the next after one for which it holds (`LeastMember`). `LandingType` then says where `filter`
puts the cursor, and `ComingBack` that two changes of view compose to none, also when both are
the same view.

Every safety property that a run checks is the property of a theorem. Only model-checked are:

- the liveness properties `InterruptedIsSettled`, `BusyEnds`, `RunEnds` and `OpensAgain`, as
  fairness is stated with ENABLED, of which TLAPS proves nothing;
- `AheadIsPositional`, which compares the order of versions with one on a sample of them;
- what the [disagreements](#disagreements) rest on: those are counterexamples.

Constants were given assumptions where a proof needs two values to be different that the code
keeps apart by their Go types: a nil pointer is no record (`None`, `NoEntry`), a menu is not its
absence. TLC evaluates all of them in every run.

## Disagreements

Four runs are expected to end in a counterexample.

- `TransactionTornRemoval`. Rollback removes the transaction directory while its journal
  still says open. A process that dies when a backup is gone and the journal is not
  leaves a journal that no start can roll back, and every later operation stops at
  recovery. `docs/architecture.md` promises that the next locked start rolls it back.
- `TransactionRemovalFails`. When `Commit` cannot remove the directory of a
  committed transaction, it returns that error with the transaction closed; the deferred rollback
  returns nil and the operation is reported as rolled back although it is committed. Its menu change
  is then not noted either, so no reload is asked for; `Session` leaves this out of `ExitIsClean`.
- `InstallerPreserveDropped`. A release that no longer declares a path overwrites the
  user data an earlier one recorded as preserved there; being tracked, it gets no backup.
  `CONTEXT.md` says that it is never overwritten by a later operation.
- `ServiceActiveRetry`. While another operation is active, a recorded install is still
  offered as a retry, although `docs/security-model.md` says that an active transaction
  blocks all recovery actions.

Met while reading and modelling, and not runs of their own:

- `Commit` whose journal is renamed but not synced returns an error; if the rollback
  that follows fails too, its journal says committed and recovery throws the backups away
  (`transaction.go:171`). Adding `commitSync` to the faults of `TransactionAtomic` shows it.
  In `SelfUpdate` it is a step, after which a start may pair a binary with the wrong catalogue or
  not get to the screen at all; `Installer` and `Service` leave it out.
- A removal of the open journal of a Store update that stops half way, as in
  `TransactionTornRemoval`, ends in a Store that does not start: the launcher gives up when
  recovery does (`OpensAgain`).
- `rollback` removes the recovery backup of a force reinstall after any error of the commit,
  also when the commit took effect and only its directory could not be removed
  (`commit.go:295`). Then the files that were there are nowhere; `docs/security-model.md:72`
  says that a failed operation removes its backup after the rollback restored the files.
  `ForceUnreported` is that step, an exception of `UnrecordedIsBackedUp` and
  `UninstallRestores`. The menu change of such a commit is not reported, so `Gamelist` and
  `Session` do not count it as one that was.
- An adoption backs up the files of its inventory. One that appears at a path of the release
  during the download is recorded as unmanaged without a backup (`commit.go:199`); a later
  update finds it tracked and writes over it without one, and uninstall removes it.
  `UninstallRestores` names it (`missed`); `docs/architecture.md:43` promises the files that
  existed before first ownership, and that adoption "marks uncertain files unmanaged, and backs
  them up before later replacement".
- While an open journal waits for the next start, the user may use the files; recovery then puts
  back what it has and takes what was written in between.
- A file that adoption backed up and a later release ships is overwritten without a new
  backup, whatever the user has put there since (`commit.go:117-123`): one backup per path.
- An update that drops a path removes the file there even if it is recorded as unmanaged
  (`commit.go:142`), and `Status` compares unmanaged files with the release
  (`status.go:133`); `CONTEXT.md` says unmanaged files are never removed or verified.
- A force reinstall backs up the files of its inventory, taken before the download. One that
  appears meanwhile is overwritten without a backup (`installFiles` makes none for a force
  reinstall), and one that changes is backed up as it is under the hash it had;
  `docs/security-model.md:72` calls the backup complete. `UnrecordedIsBackedUp` names this
  file as an exception; without that disjunct TLC finds it lost in a few steps. In
  the same way an adoption records a release file that changed during the download as
  matching (`commit.go:180`), which `ManagedMatches` names; it is in the backup as it was.
- A path that a new release declares as the user's and does not ship is removed as stale.
- Adoption backs up exact matches too, so uninstall restores them instead of removing them.
- A fresh install that dies while copying leaves a temporary file (`files.go:64`), which makes
  the next start see an existing installation: install is refused and adoption offered over it,
  although `docs/security-model.md:53` says that recovery never converts an absent fresh install
  into adoption. `AdoptsNoHalfInstall` allows this file and nothing else of an interrupted
  install.
- A menu entry that gained play history but has its declared fields unchanged is removed
  with it (`xml.go:195`).
- Repair is offered for an installed version other than the catalogue's and refused by
  `stage`; `RecoveryStatus` reads the journal after it let go of the lock, so that a
  journal of an operation that has just begun looks stale; and it takes the lock to see whether
  it is free, so that an operation of the CLI may be refused at that moment.

- The cache of health checks is dropped by the operations of the GUI only. One of the CLI that
  repairs the files under an unchanged record leaves the running GUI its old verdict until it
  operates on the package or is reopened; `docs/trimui-smart-pro.md` tells the user to reopen it.
  `StatusCache.InvalidateAll` has no caller.
- When the open controller is unplugged, another that was attached all along is not taken:
  controllers are looked for when one is added (`run.go:422`). The session is blocked until then.
- Letting go of Tab, F5 or Select disarms the chord whichever of the others is still held.
- A walkthrough with a settling time of one frame, which the program does not use, loses the
  screen of its last key.
- `version.Compare`, which decides about firmware and library minimums, compares a run of digits
  that is too long for an int as text, and is not transitive then. Two different prereleases of
  one version have no order, so self-update offers each over the other.

## Not modelled

- *Bindings, labels and key repeat*: which button is which action, and that a held direction
  repeats; `Library` allows its actions in every order, so a repeat is one of them.
- *Diagnostics log*: lines are appended and the file rotated; nothing reads it back.
- *Path guard, archive formats, signatures, manifest, platform*: sequential checks of data that
  give the reviewed bytes or an error; the modules take the error as a failing step or as an
  operation that does not happen.
- *Lenient version comparison*: a pure function on text, used for minimums only.
- *Update check*: a batch tool of the maintainers, run under version control. Stopped half way it
  leaves some proposals on disk and no report.
- *Rendering, notices, argument parsing*: no state that outlives a call.

Inside the modelled parts: file modes, XML syntax, messages, the hashes in the manifest of a
recovery backup and the paging of text are left out. A commit of `Installer` sees one state of
the destination: a write between two of its own copies is not modelled, and neither is one whose
half-done `Commit` (`transaction.go:171`) is followed by a rollback that fails; what
that does to a set of files is shown in `SelfUpdate`. During a
walkthrough nobody touches the machine.

## Plan

Done, in the order of importance: transaction, installer, menu entries, session, service with
its cache, self-update with staging and versions, library, event loop with devices and
walkthrough. What is next:

1. `Transaction` and `Installer` composed: one package operation as a transaction of
   several writes, with the commit of `Installer` as its abstract specification.
2. `UninstallRestores` for paths that releases disagree about, as long as none of those
   that were installed did.
3. The parts of the platform and manifest rules that decide what is offered, as operators
   of `Service`.
