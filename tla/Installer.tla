------------------------------ MODULE Installer ------------------------------
(* What the operations of internal/installer do to one package's files, to the *)
(* backups of the files they replace, and to the installed-state record, over  *)
(* long sequences of operations with the user and the package itself writing   *)
(* to the destination in between.                                              *)
(*                                                                             *)
(* An install, an adoption and a force reinstall take two steps: stage()       *)
(* inventories the destination and then downloads for as long as it takes, and *)
(* commit() applies the release to what is there by then, using the inventory  *)
(* in some places and looking again in others. The other operations read at    *)
(* the start only what the manager lock protects and are one step. A commit    *)
(* changes everything it changes in a transaction of internal/safefs and       *)
(* writes the installed state last (Transaction.tla). One cut short, by        *)
(* a death or by a rollback that fails, leaves an open journal, which the next *)
(* locked start rolls back; until then the user has the files half done, and   *)
(* the temporary file of a copy stays for good (safefs/files.go). What only    *)
(* locked operations read, the backups and the record, is shown as the journal *)
(* will leave it. A commit that takes effect and reports an error is the step  *)
(* of its operation, but for the force reinstall, which then drops its backup. *)
(* The one fault left out is a commit whose journal says "committed" on disk,  *)
(* while the operation rolls back and does not get to the end (README).        *)
(*                                                                             *)
(* Simplifications. A file is its bytes: the modes that Copy and Chmod apply   *)
(* are left out. Downloading, extraction, patches and file mappings end in the *)
(* release's inventory, Ships. The menu entry is in Gamelist.tla.              *)

EXTENDS Naturals, FiniteSets

CONSTANTS
  File,      \* files below the package's destination
  Launcher,  \* the menu launcher, outside the destination
  Temp,      \* a temporary file of safefs.Copy in the destination
  Content,   \* contents of a file
  Written,   \* Written[p]: what the user or the package may put at p
  Junk,      \* what Temp holds
  Absent,    \* no file
  Release,   \* the releases of the package
  Ships,     \* Ships[r][p]: what release r holds at p, or Absent
  Preserve,  \* Preserve[r]: the paths release r declares as the user's
  None,      \* no installed state
  MaxEdits,  \* bound on what the user and the package write
  MaxCrashes, \* bound on operations that are cut short
  MaxBackups \* bound on the recovery backups of force reinstalls

Path == File \cup {Launcher}
Value == Content \cup {Absent}

ASSUME InstallerAssumption ==
  /\ Launcher \notin File /\ Temp \in File
  /\ Absent \notin Content /\ Junk \in Content
  /\ None \notin Release
  /\ Ships \in [Release -> [Path -> Value]]
  /\ Preserve \in [Release -> SUBSET File]
  /\ \A r \in Release : Ships[r][Temp] = Absent
  /\ Written \in [Path -> SUBSET Content] /\ Written[Temp] = {}
  /\ MaxEdits \in Nat /\ MaxCrashes \in Nat /\ MaxBackups \in Nat

VARIABLES
  pending,    \* the staged operation and its inventory: see Staged
  files,      \* the package's files and its menu launcher
  originals,  \* the backup of each path below originals/<id>/
  installed,  \* the installed state: see Installed
  retained,   \* recovery-backups/: what each force reinstall found
  undo,       \* an open journal: what an operation cut short found where it got to
  first,      \* history: what each path held when the Store first recorded it
  missed,     \* history: the paths of which it then made no copy; see Taken
  edits,      \* writes of the user so far
  crashes     \* operations that were cut short so far

vars == <<pending, files, originals, installed, retained, undo, first, missed,
          edits, crashes>>

\* InstalledFile: sha is the content whose hash was recorded.
FileRecord == [sha : Value, preserved : BOOLEAN, unmanaged : BOOLEAN]
Untracked == [sha |-> Absent, preserved |-> FALSE, unmanaged |-> FALSE]

Installed == [release : Release, files : [Path -> FileRecord], originals : SUBSET Path]
NotInstalled == [release |-> None, files |-> [p \in Path |-> Untracked], originals |-> {}]

IsInstalled == installed.release # None
Tracked == {p \in Path : installed.files[p] # Untracked}

\* stagedRelease.existing: inventory[p] is what p held, Absent if it was not there.
Staged == [op : {"install", "adopt", "force"}, release : Release,
           inventory : [File -> Value]]
Idle == [op |-> "none", release |-> None, inventory |-> [p \in File |-> Absent]]

NoJournal == [p \in {} |-> Absent]

TypeOK == /\ pending \in Staged \cup {Idle}
          /\ files \in [Path -> Value]
          /\ originals \in [Path -> Value]
          /\ installed \in Installed \cup {NotInstalled}
          /\ retained \in SUBSET [File -> Value]
          /\ DOMAIN undo \subseteq Path /\ undo \in [DOMAIN undo -> Value]
          /\ first \in [Path -> Value] /\ missed \subseteq Path
          /\ edits \in Nat /\ crashes \in Nat

\* The destination and the launcher's path hold nothing or what others left there.
Init == /\ pending = Idle
        /\ files \in [Path -> Value]
        /\ \A p \in Path : files[p] \in Written[p] \cup {Absent}
        /\ originals = [p \in Path |-> Absent]
        /\ installed = NotInstalled
        /\ retained = {}
        /\ undo = NoJournal
        /\ first = files /\ missed = {}
        /\ edits = 0 /\ crashes = 0

-----------------------------------------------------------------------------
(* stage(), under the manager lock: one operation at a time.                   *)

\* inventoryExisting, and PreExisting: the regular files below the destination.
Existing == {p \in File : files[p] # Absent}

MayInstall   == ~IsInstalled /\ Existing = {}
MayAdopt     == ~IsInstalled /\ Existing # {}
MayUpdate    == IsInstalled
MayRepair(r) == IsInstalled /\ installed.release = r
MayForce     == IsInstalled \/ Existing # {}

\* The release is downloaded and extracted after this.
Begin(op, r) ==
  /\ pending = Idle /\ undo = NoJournal
  /\ pending' = [op |-> op, release |-> r, inventory |-> [p \in File |-> files[p]]]
  /\ UNCHANGED <<files, originals, installed, retained, undo, first, missed, edits,
                 crashes>>

Stage(r) == \/ MayInstall /\ Begin("install", r)
            \/ MayAdopt /\ Begin("adopt", r)
            \/ MayForce /\ Cardinality(retained) < MaxBackups /\ Begin("force", r)

\* The download or the extraction fails, or the commit does and is rolled back, or
\* the process dies before.
Abandon == /\ pending # Idle
           /\ pending' = Idle
           /\ UNCHANGED <<files, originals, installed, retained, undo, first, missed,
                          edits, crashes>>

Inventoried == {p \in File : pending.inventory[p] # Absent}

-----------------------------------------------------------------------------
(* installFiles and installMenuLauncher over the installed state there was.    *)

Shipped(r) == {p \in Path : Ships[r][p] # Absent}

\* Mutant of Kept: only what an earlier operation recorded as the user's is left.
KeptRecorded(r) == {p \in Shipped(r) \cap Preserve[r] :
                      files[p] # Absent /\ installed.files[p].preserved}

\* A declared user file that exists is left as it is.
Kept(r) == {p \in Shipped(r) \cap Preserve[r] : files[p] # Absent}

\* Mutant of BackedUp: the Store's own files are taken for someone else's.
BackedUpIfTracked(r, recovery) ==
  {p \in Shipped(r) \ Kept(r) :
     /\ files[p] # Absent
     /\ p = Launcher \/ (~recovery /\ p \notin installed.originals)}

\* Mutant of BackedUp: an install trusts that its destination is still empty.
BackedUpUnlessInstalling(r, recovery) ==
  {p \in Shipped(r) \ Kept(r) :
     /\ p \notin Tracked /\ files[p] # Absent
     /\ \/ p = Launcher
        \/ ~recovery /\ pending.op # "install" /\ p \notin installed.originals}

\* Files of the release that stand on something the package does not track get a
\* backup, unless one was recorded earlier; a force reinstall only backs up what is
\* at the launcher's path.
BackedUp(r, recovery) ==
  {p \in Shipped(r) \ Kept(r) :
     /\ p \notin Tracked /\ files[p] # Absent
     /\ p = Launcher \/ (~recovery /\ p \notin installed.originals)}

\* Tracked files the new release does not have, the user's excepted.
Stale(r) == {p \in Tracked \ Shipped(r) : ~installed.files[p].preserved}

\* Stale files give way to the original there was, whose backup is then removed.
Restored(r) == Stale(r) \cap installed.originals

\* Mutant of InstalledFiles: a launcher that exists is taken to be the Store's.
InstalledFilesOldLauncher(r) ==
  [p \in Path |-> IF p \in Kept(r) \/ (p = Launcher /\ p \in Shipped(r) /\ files[p] # Absent)
                  THEN files[p]
                  ELSE IF p \in Shipped(r) THEN Ships[r][p]
                  ELSE IF p \in Restored(r) THEN originals[p]
                  ELSE IF p \in Stale(r) THEN Absent
                  ELSE files[p]]

InstalledFiles(r) ==
  LET kept == Kept(r)
      stale == Stale(r)
      restored == Restored(r)
  IN [p \in Path |-> IF p \in kept THEN files[p]
                     ELSE IF Ships[r][p] # Absent THEN Ships[r][p]
                     ELSE IF p \in restored THEN originals[p]
                     ELSE IF p \in stale THEN Absent
                     ELSE files[p]]

\* The paths of the package that it copies to or removes.
Writes(r) == (Shipped(r) \ Kept(r)) \cup Stale(r)

InstalledOriginals(r, recovery) ==
  LET backedUp == BackedUp(r, recovery)
      restored == Restored(r)
  IN [p \in Path |-> IF p \in backedUp THEN files[p]
                     ELSE IF p \in restored THEN Absent
                     ELSE originals[p]]

\* Mutant of InstalledState: the index still lists the backups that were restored.
InstalledStateStaleIndex(r, recovery) ==
  [release   |-> r,
   files     |-> [p \in Path |->
                    IF p \in Shipped(r)
                    THEN [sha |-> IF p \in Kept(r) THEN files[p] ELSE Ships[r][p],
                          preserved |-> p \in Preserve[r],
                          unmanaged |-> FALSE]
                    ELSE Untracked],
   originals |-> installed.originals \cup BackedUp(r, recovery)]

\* The installed state, written last.
InstalledState(r, recovery) ==
  LET kept == Kept(r)
  IN [release   |-> r,
      files     |-> [p \in Path |->
                       IF Ships[r][p] # Absent
                       THEN [sha |-> IF p \in kept THEN files[p] ELSE Ships[r][p],
                             preserved |-> p \in Preserve[r],
                             unmanaged |-> FALSE]
                       ELSE Untracked],
      originals |-> (installed.originals \cup BackedUp(r, recovery)) \ Restored(r)]

\* History: a path is first recorded when it becomes tracked or backed up.
Recorded == Tracked \cup installed.originals
RecordedIn(state) == {p \in Path : state.files[p] # Untracked} \cup state.originals

FirstRecorded(state) ==
  [p \in Path |-> IF p \in RecordedIn(state) \ Recorded THEN files[p] ELSE first[p]]

\* What an operation takes over without a copy, of the paths it cannot have seen; it
\* counts for as long as the path is recorded.
Taken(state, unseen) ==
  (missed \cup {p \in unseen \ Recorded : files[p] # Absent}) \cap RecordedIn(state)

\* backupExisting refuses to write over a backup, and a recorded backup must be
\* there to be restored; the operation fails otherwise.
CanApply(r, recovery) ==
  /\ Launcher \in BackedUp(r, recovery) => originals[Launcher] = Absent
  /\ \A p \in Restored(r) : originals[p] # Absent

ApplyRelease(r, recovery) ==
  /\ CanApply(r, recovery)
  /\ files' = InstalledFiles(r)
  /\ originals' = InstalledOriginals(r, recovery)
  /\ installed' = InstalledState(r, recovery)
  /\ first' = FirstRecorded(InstalledState(r, recovery))
  /\ UNCHANGED <<undo, edits, crashes>>

\* installFiles looks at each path again, whatever the inventory said: it has seen
\* every one.
Install == /\ pending.op = "install"
           /\ ApplyRelease(pending.release, FALSE)
           /\ missed' = Taken(installed', {})
           /\ pending' = Idle
           /\ UNCHANGED retained

Update(r) == /\ pending = Idle /\ undo = NoJournal /\ MayUpdate
             /\ ApplyRelease(r, FALSE)
             /\ missed' = Taken(installed', {})
             /\ UNCHANGED <<pending, retained>>

Repair(r) == /\ pending = Idle /\ undo = NoJournal /\ MayRepair(r)
             /\ ApplyRelease(r, FALSE)
             /\ missed' = Taken(installed', {})
             /\ UNCHANGED <<pending, retained>>

\* backupRecoveryDestination copies every inventoried file as it is by now, and
\* fails when one is gone.
ForceReinstall ==
  /\ pending.op = "force"
  /\ Inventoried \subseteq Existing
  /\ retained' = retained \cup
       {[p \in File |-> IF p \in Inventoried THEN files[p] ELSE Absent]}
  /\ ApplyRelease(pending.release, TRUE)
  /\ missed' = Taken(installed', File \ Inventoried)
  /\ pending' = Idle

\* The commit takes effect, removing the journal fails, and the error makes the
\* operation remove its recovery backup: rollback() does not tell a transaction that
\* was rolled back from one that was committed.
ForceUnreported ==
  /\ pending.op = "force"
  /\ Inventoried \subseteq Existing
  /\ ApplyRelease(pending.release, TRUE)
  /\ missed' = Taken(installed', File)
  /\ pending' = Idle
  /\ UNCHANGED retained

-----------------------------------------------------------------------------
(* adoptFiles and installMenuLauncher(adopting): nothing below the destination *)
(* is rewritten, whatever is there is backed up, and what is not exactly the   *)
(* release's is recorded as unmanaged.                                         *)

\* The inventory decides what is the release's; a launcher is read again, written
\* when there is none, and adopted when it is the one the Store would write.
AdoptsAs(r, p) ==
  [sha       |-> Ships[r][p],
   preserved |-> p \in Preserve[r],
   unmanaged |-> IF p = Launcher THEN files[p] \notin {Ships[r][p], Absent}
                 ELSE pending.inventory[p] # Ships[r][p] \/ p \in Preserve[r]]

AdoptedOriginals(r) ==
  Inventoried \cup {p \in Shipped(r) \cap {Launcher} : files[p] # Absent}

AdoptedState(r) ==
  [release   |-> r,
   files     |-> [p \in Path |-> IF p \in Shipped(r) THEN AdoptsAs(r, p) ELSE Untracked],
   originals |-> AdoptedOriginals(r)]

AdoptionWrites(r) ==
  {p \in Shipped(r) \cap {Launcher} : files[p] \in {Ships[r][p], Absent}}
AdoptedFiles(r) == [p \in Path |-> IF p \in AdoptionWrites(r) THEN Ships[r][p] ELSE files[p]]

\* backupExisting copies the file of today, which must still be there, and refuses
\* to write over a backup (AdoptionConflictError).
Adopt ==
  LET r == pending.release
      backedUp == AdoptedOriginals(r)
      state == AdoptedState(r)
  IN /\ pending.op = "adopt"
     /\ \A p \in backedUp : files[p] # Absent /\ originals[p] = Absent
     /\ files' = AdoptedFiles(r)
     /\ originals' = [p \in Path |-> IF p \in backedUp THEN files[p] ELSE originals[p]]
     /\ installed' = state
     /\ first' = FirstRecorded(state)
     /\ missed' = Taken(state, File \ Inventoried)
     /\ pending' = Idle
     /\ UNCHANGED <<retained, undo, edits, crashes>>

-----------------------------------------------------------------------------
(* Uninstall.                                                                  *)

\* What the package owns: the user's files and unmanaged ones stay.
Owned == {p \in Tracked : ~installed.files[p].preserved /\ ~installed.files[p].unmanaged}

UninstalledFiles == [p \in Path |-> IF p \notin Owned THEN files[p]
                                    ELSE IF p \in installed.originals THEN originals[p]
                                    ELSE Absent]

\* Mutant of Uninstall: the record of the backups outlives the package.
UninstallKeepsIndex ==
  /\ pending = Idle /\ undo = NoJournal /\ IsInstalled
  /\ files' = UninstalledFiles
  /\ installed' = [NotInstalled EXCEPT !.originals = installed.originals]
  /\ missed' = {}
  /\ UNCHANGED <<pending, originals, retained, undo, first, edits, crashes>>

Uninstall ==
  /\ pending = Idle /\ undo = NoJournal /\ IsInstalled
  /\ \A p \in Owned \cap installed.originals : originals[p] # Absent
  /\ files' = UninstalledFiles
  /\ originals' = [p \in Path |-> IF p \in installed.originals THEN Absent
                                  ELSE originals[p]]
  /\ installed' = NotInstalled
  /\ missed' = {}
  /\ UNCHANGED <<pending, retained, undo, first, edits, crashes>>

-----------------------------------------------------------------------------
(* What happens between operations, and while one downloads.                   *)

\* The user, the running package or its own updater writes or removes a file.
Edit(p, v) == /\ edits < MaxEdits
              /\ v # files[p]
              /\ files' = [files EXCEPT ![p] = v]
              /\ edits' = edits + 1
              /\ UNCHANGED <<pending, originals, installed, retained, undo, first, missed,
                             crashes>>

\* An operation that writes at these paths, in some order, and would leave them as in
\* after, is cut short: a write or a restore of the journal may be missing at each
\* path it got to. A process that dies may leave the temporary file of its copy.
CutShort(writes, after) ==
  /\ crashes < MaxCrashes
  /\ \E reached \in SUBSET writes :
       \E done \in SUBSET reached,
          temp \in {files[Temp]} \cup {Junk : p \in writes \cap File} :
         /\ undo' = [p \in reached |-> files[p]]
         /\ files' = [p \in Path |-> IF p \in done THEN after[p]
                                    ELSE IF p = Temp THEN temp ELSE files[p]]
  /\ crashes' = crashes + 1
  /\ pending' = Idle
  /\ UNCHANGED <<originals, installed, retained, first, missed, edits>>

Interrupted ==
  \/ /\ pending.op \in {"install", "force"}
     /\ CutShort(Writes(pending.release), InstalledFiles(pending.release))
  \/ /\ pending.op = "adopt"
     /\ CutShort(AdoptionWrites(pending.release), AdoptedFiles(pending.release))
  \/ /\ pending = Idle /\ undo = NoJournal /\ IsInstalled
     /\ \/ \E r \in Release : CutShort(Writes(r), InstalledFiles(r))
        \/ CutShort(Owned, UninstalledFiles)

\* The next locked start rolls the open journal back, whatever was written since.
Recover == /\ undo # NoJournal
           /\ files' = [p \in Path |-> IF p \in DOMAIN undo THEN undo[p] ELSE files[p]]
           /\ undo' = NoJournal
           /\ UNCHANGED <<pending, originals, installed, retained, first, missed, edits,
                          crashes>>

Operation == \/ \E r \in Release : Update(r) \/ Repair(r)
             \/ Install \/ Adopt \/ ForceReinstall \/ ForceUnreported
             \/ Uninstall

Next == \/ Operation
        \/ \E r \in Release : Stage(r)
        \/ Abandon \/ Interrupted \/ Recover
        \/ \E p \in Path : \E v \in Written[p] \cup {Absent} : Edit(p, v)

Spec == Init /\ [][Next]_vars

-----------------------------------------------------------------------------
(* Properties. An operation's step is the one that completes it: not the       *)
(* user's, nor one cut short, a recovery, a staging or a failure.              *)

OperationStep == pending' = Idle /\ ~Abandon /\ UNCHANGED <<undo, edits, crashes>>
Uninstalling == IsInstalled /\ ~IsInstalled'

\* A force reinstall kept content c of p.
Retained(p, c) == p \in File /\ \E b \in retained : b[p] = c

\* The backups on disk are exactly those the installed state lists: none is lost,
\* none is left behind to make a later adoption or launcher install refuse.
OriginalsIndexed == installed.originals = {p \in Path : originals[p] # Absent}

\* Uninstall puts back what each owned path held when the Store first recorded it,
\* whatever updates, repairs and adoptions came in between ("restores files that
\* existed before first ownership"). A force reinstall keeps what it replaced in a
\* recovery backup instead. Not so for the paths of which no copy was made, because
\* a file appeared there after the inventory of an adoption, which records the path as
\* unmanaged so that a later update writes over it, or of a force reinstall, or because
\* the commit of a force reinstall reported an error.
UninstallRestores ==
  [][Uninstalling => \A p \in Owned : \/ files'[p] = first[p]
                                      \/ Retained(p, first[p])
                                      \/ p \in missed]_vars

\* What an operation changes and the Store had no record of is kept somewhere, also
\* when it appeared or changed while the release was downloading, and when the
\* operation is cut short: then the journal has it. Two things are lost, both by a
\* force reinstall: what appeared below the destination after it took its inventory,
\* and everything when its commit takes effect and reports an error.
UnrecordedIsBackedUp ==
  [][OperationStep \/ crashes' # crashes =>
       \A p \in Path \ Recorded :
         files[p] # Absent /\ files'[p] # files[p] =>
           \/ originals'[p] = files[p]
           \/ p \in File /\ \E b \in retained' : b[p] = files[p]
           \/ p \in DOMAIN undo' /\ undo'[p] = files[p]
           \/ pending.op = "force" /\ p \in File \ Inventoried
           \/ ForceUnreported /\ p \in File]_vars

\* User data that the release before and the release after both declare survives
\* every operation.
DeclaredByBothIsKept ==
  [][OperationStep =>
       \A p \in File :
         /\ files[p] # Absent
         /\ IsInstalled => p \in Preserve[installed.release]
         /\ IsInstalled' => p \in Preserve[installed'.release]
         => files'[p] = files[p]]_vars

\* After any operation the managed files are the recorded ones, in every sequence
\* of releases: nothing the operation does last undoes what it did first. Only an
\* adoption may record a file as the release's that is no longer, when it changed
\* after the inventory; the file there is in its backup.
ManagedMatches ==
  [][OperationStep =>
       \A p \in Path :
         installed'.files[p] # Untracked /\ ~installed'.files[p].preserved
           /\ ~installed'.files[p].unmanaged
         => \/ files'[p] = installed'.files[p].sha
            \/ /\ pending.op = "adopt" /\ p \in Inventoried
               /\ pending.inventory[p] # files[p]
               /\ originals'[p] = files[p]]_vars

\* Not so in the code: "Written once, never overwritten by a later operation", of
\* preserved files. What is kept is decided from the new release's manifest.
PreservedIsNeverOverwritten ==
  [][OperationStep =>
       \A p \in Path : installed.files[p].preserved /\ files[p] # Absent =>
         files'[p] = files[p]]_vars
=============================================================================
