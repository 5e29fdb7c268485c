------------------------------ MODULE SelfUpdate ------------------------------
(* The Store replacing itself, and every start after that: the launcher script *)
(* recovers, loads the GUI binary and execs it; the GUI recovers again and     *)
(* loads the signed catalogue with the key in its binary; it checks for a      *)
(* release, downloads and unpacks it (Staging.tla), copies its files over its  *)
(* own in one transaction, and keeps running the old binary until the user     *)
(* reopens it.                                                                 *)
(*                                                                             *)
(* Every build has a key of its own, so a catalogue opens only with the binary *)
(* of its version. Simplifications. One GUI runs at a time. A file is the      *)
(* version it belongs to, and changes with its snapshot journaled (Transaction *)
(* has the steps in between). A call that fails after its effect is the call   *)
(* and then a failure.                                                         *)

EXTENDS Staging, VersionOrder

CONSTANTS
  StoreFile,       \* the packaged files; ui, index and sig are among them
  ui, index, sig,
  Version,         \* release tags, see VersionOrder
  None,
  MaxFaults        \* bound on deaths and failing steps

ASSUME SelfUpdateAssumption ==
  /\ {ui, index, sig} \subseteq StoreFile /\ StoreFile \subseteq Name
  /\ None \notin Version /\ MaxFaults \in Nat

VARIABLES
  files,     \* the version of each file on disk
  journal,   \* none, open, or committed: a directory only to be discarded
  saved,     \* the snapshots of the transaction, None where there is none
  lost,      \* the files whose backup an open journal lists and no longer has
  pc,        \* where the Store is: see PC
  gui,       \* the version of the GUI binary that runs
  pending,   \* selfUpdate.pending
  restart,   \* selfUpdate.restart
  installed, \* history: the version last installed
  stranded,  \* history: nothing is left to put back the files of a failed update
  faults     \* deaths and failures so far

disk  == <<files, journal, saved, lost>>
history == <<installed, stranded>>
offer == <<pending, restart>>
vars == <<disk, staging, pc, gui, offer, history, faults>>

\* down: not running. recover, exec: in the launcher. reopen, load: in Open.
\* idle: waits for the user. The others: in UpdateStore.
PC == {"down", "recover", "exec", "reopen", "load", "idle",
       "lock", "download", "unpack", "copy", "rollback", "discard"}

NoSnapshots == [f \in StoreFile |-> None]

TypeOK == /\ files \in [StoreFile -> Version]
          /\ journal \in {"none", "open", "committed"}
          /\ saved \in [StoreFile -> Version \cup {None}]
          /\ journal # "open" /\ pc # "rollback" => saved = NoSnapshots
          /\ lost \subseteq StoreFile /\ (journal # "open" => lost = {})
          /\ StagingType
          /\ pc \in PC
          /\ gui \in Version \cup {None}
          /\ pending \in Version \cup {None} /\ restart \in BOOLEAN
          /\ installed \in Version /\ stranded \in BOOLEAN
          /\ faults \in Nat

Init == /\ installed \in Version
        /\ files = [f \in StoreFile |-> installed]
        /\ journal = "none" /\ saved = NoSnapshots /\ lost = {}
        /\ stranded = FALSE
        /\ NothingStaged
        /\ pc = "down" /\ gui = None
        /\ pending = None /\ restart = FALSE
        /\ faults = 0

Goto(from, to) == pc = from /\ pc' = to

Fault == faults < MaxFaults /\ faults' = faults + 1

-----------------------------------------------------------------------------
(* Recovery, of the launcher, of Open, and of every operation's lock, and the  *)
(* rollback of an update that failed.                                          *)

Restoring == pc \in {"recover", "reopen", "lock", "rollback"}

\* Every snapshot is restored.
AllBack == \A f \in StoreFile : saved[f] \in {None, files[f]}

RestoreFile(f) == /\ Restoring /\ f \notin lost
                  /\ saved[f] \notin {None, files[f]}
                  /\ files' = [files EXCEPT ![f] = saved[f]]
                  /\ UNCHANGED <<journal, saved, lost, staging, pc, gui, offer, history, faults>>

Back == [recover |-> "exec", reopen |-> "load", lock |-> "download", rollback |-> "discard"]

\* Mutant of Swept: staging is left to the process that made it.
NothingSwept == UNCHANGED staging

\* "Only the lock holder can own staging": a lock that was just taken removes the rest.
Swept == IF pc = "rollback" THEN UNCHANGED staging ELSE Removed

\* Mutant of Restored: the snapshots are taken for those of the next transaction.
RestoredKeeps ==
  /\ Restoring /\ AllBack /\ lost = {}
  /\ journal' = "none"
  /\ Swept
  /\ pc' = Back[pc]
  /\ UNCHANGED <<files, saved, lost, gui, offer, history, faults>>

Restored == /\ Restoring /\ AllBack /\ lost = {}
            /\ journal' = "none" /\ saved' = NoSnapshots
            /\ Swept
            /\ pc' = Back[pc]
            /\ UNCHANGED <<files, lost, gui, offer, history, faults>>

\* The removal of the directory, in no set order, is cut off with the journal still
\* open or with the journal gone first: what is left is found by the next recovery.
RemovalStops == /\ Restoring /\ journal = "open" /\ AllBack /\ lost = {} /\ Fault
                /\ \/ /\ lost' \in SUBSET {f \in StoreFile : saved[f] # None} /\ lost' # {}
                      /\ UNCHANGED <<journal, saved>>
                   \/ /\ journal' = "committed" /\ saved' = NoSnapshots
                      /\ UNCHANGED lost
                /\ UNCHANGED <<files, staging, pc, gui, offer, history>>

\* The snapshots of an open journal stay on disk. Those of a rollback under a journal
\* that says committed are gone with the operation, and what it had not restored by
\* then nothing will.
Abandoned == /\ saved' = IF journal = "open" THEN saved ELSE NoSnapshots
             /\ stranded' = (stranded \/ (journal # "open" /\ ~AllBack))

\* Another operation has the lock, a restore fails, or a backup is missing: the
\* launcher and Open give up, an update is an error.
RestoreFails == /\ Restoring
                /\ Fault \/ (lost # {} /\ UNCHANGED faults)
                /\ pc' = CASE pc = "lock" -> "idle" [] pc = "rollback" -> "discard"
                            [] OTHER -> "down"
                /\ gui' = IF pc' = "down" THEN None ELSE gui
                /\ Abandoned
                /\ UNCHANGED <<files, journal, lost, staging, offer, installed>>

-----------------------------------------------------------------------------
(* A start.                                                                    *)

\* Mutant of Launch: the script execs the GUI, which recovers by itself.
LaunchAtOnce == /\ Goto("down", "exec")
                /\ UNCHANGED <<disk, staging, gui, offer, history, faults>>

\* "Run it in a separate CLI process before loading the UI binary."
Launch == /\ Goto("down", "recover")
          /\ UNCHANGED <<disk, staging, gui, offer, history, faults>>

Exec == /\ Goto("exec", "reopen")
        /\ gui' = files[ui]
        /\ UNCHANGED <<disk, staging, offer, history, faults>>

\* catalog.Load: the index must verify with the key in the binary.
Load == /\ pc = "load"
        /\ IF files[index] = gui /\ files[sig] = gui
           THEN pc' = "idle" /\ UNCHANGED gui
           ELSE pc' = "down" /\ gui' = None
        /\ UNCHANGED <<disk, staging, offer, history, faults>>

\* The user leaves the GUI.
Quit == /\ Goto("idle", "down")
        /\ gui' = None /\ pending' = None /\ restart' = FALSE
        /\ UNCHANGED <<disk, staging, history, faults>>

\* The process dies, or the device is switched off.
Die == /\ pc # "down" /\ pc' = "down"
       /\ Fault
       /\ Forgotten
       /\ gui' = None /\ pending' = None /\ restart' = FALSE
       /\ Abandoned
       /\ UNCHANGED <<files, journal, lost, installed>>

-----------------------------------------------------------------------------
(* executeStore.                                                               *)

\* Mutant of CheckUpdate: every release but the one that runs is an update.
CheckAnyOther(listed) ==
  /\ pc = "idle" /\ ~restart
  /\ pending' = IF listed = gui THEN None ELSE listed
  /\ UNCHANGED <<disk, staging, pc, gui, restart, history, faults>>

\* CheckStoreUpdate takes the first release the API lists, which need not be the
\* newest.
CheckUpdate(listed) ==
  /\ pc = "idle" /\ ~restart
  /\ pending' = IF listed = gui \/ NotNewer(listed, gui) THEN None ELSE listed
  /\ UNCHANGED <<disk, staging, pc, gui, restart, history, faults>>

\* "A failed recheck must not leave an older offer enabled."
CheckFails == /\ pc = "idle" /\ ~restart
              /\ pending' = None
              /\ UNCHANGED <<disk, staging, pc, gui, restart, history, faults>>

\* The offer is confirmed. UpdateStore takes the lock and recovers first.
Update == /\ pending # None /\ ~restart
          /\ Goto("idle", "lock")
          /\ UNCHANGED <<disk, staging, gui, offer, history, faults>>

\* Size and digest are checked when the body ends.
Download == /\ pc = "download" /\ pc' \in {"unpack", "discard"}
            /\ \E got \in 0..(ReleaseSize + 1) :
                 Receive(got) /\ (pc' = "unpack" => got = ReleaseSize)
            /\ UNCHANGED <<disk, gui, offer, history, faults>>

\* The next entry of the archive, which holds what it declares, less or more.
Unpack(name) == /\ pc = "unpack"
                /\ \E declared \in 0..(MaxBytes + 1) : \E written \in 0..(declared + 1) :
                     /\ Extract(name, declared, written)
                     /\ pc' = IF written = declared THEN "unpack" ELSE "discard"
                /\ UNCHANGED <<disk, gui, offer, history, faults>>

\* A read fails or is cancelled, an entry is refused, or there is not enough space.
Refuse == /\ pc \in {"download", "unpack"} /\ pc' = "discard"
          /\ UNCHANGED <<disk, staging, gui, offer, history, faults>>

\* Mutant of Inventory: an archive without some of the files is installed as well.
SomeInventory == unpacked # {} /\ unpacked \subseteq StoreFile

\* No path came twice, so as many as there are packaged files, each one of them.
Inventory == unpacked = StoreFile

Unpacked == /\ Goto("unpack", "copy")
            /\ Inventory
            /\ UNCHANGED <<disk, staging, gui, offer, history, faults>>

\* One Copy of the transaction, in any order.
Copy(f) == /\ pc = "copy" /\ f \in unpacked /\ saved[f] = None
           /\ journal' = "open"
           /\ saved' = [saved EXCEPT ![f] = files[f]]
           /\ files' = [files EXCEPT ![f] = pending]
           /\ UNCHANGED <<lost, staging, pc, gui, offer, history, faults>>

CopyFails == /\ Goto("copy", "rollback") /\ Fault
             /\ UNCHANGED <<disk, staging, gui, offer, history>>

Copied == \A f \in unpacked : saved[f] # None

\* The transaction commits. Its directory may stay, for the next start to discard;
\* when it could not be removed that is the error of UpdateStore.
Commit == /\ Goto("copy", "discard")
          /\ Copied
          /\ \/ journal' = "none" /\ restart' = TRUE /\ UNCHANGED faults
             \/ journal' = "committed" /\ UNCHANGED restart /\ Fault
          /\ saved' = NoSnapshots
          /\ installed' = pending /\ stranded' = FALSE
          /\ UNCHANGED <<files, lost, staging, gui, pending>>

\* The journal says committed and the sync after that fails. Commit is an error, and
\* the deferred rollback restores from memory under a journal no recovery rolls back.
CommitFails == /\ Goto("copy", "rollback")
               /\ Copied /\ Fault
               /\ journal' = "committed"
               /\ UNCHANGED <<files, saved, lost, staging, gui, offer, history>>

\* The deferred removal of the staging directory, whose error is ignored.
Discard == /\ Goto("discard", "idle")
           /\ \/ Removed /\ UNCHANGED faults
              \/ Forgotten /\ Fault
           /\ UNCHANGED <<disk, gui, offer, history>>

-----------------------------------------------------------------------------
Start == Launch \/ Exec \/ Load

Restore == Restored \/ RemovalStops \/ RestoreFails \/ \E f \in StoreFile : RestoreFile(f)

Updating == \/ Update \/ Download \/ Refuse \/ Unpacked \/ CopyFails \/ Commit
            \/ CommitFails \/ Discard
            \/ \E name \in Name : Unpack(name)
            \/ \E f \in StoreFile : Copy(f)

Next == \/ Start \/ Restore \/ Updating \/ Quit \/ Die \/ CheckFails
        \/ \E v \in Version : CheckUpdate(v)

Spec == Init /\ [][Next]_vars

\* The user keeps starting the Store, and the launcher and Open run to their end.
FairSpec == Spec /\ WF_vars(Start) /\ WF_vars(Restore)

-----------------------------------------------------------------------------
(* Properties.                                                                 *)

\* The GUI that reads the catalogue is the version last installed, and so is the
\* catalogue: an update that died or failed in the copying, in its rollback or in a
\* recovery never pairs a binary with the catalogue of another ("the next launch uses
\* the new binary/key pair"). The exception is a half-done Commit whose rollback is
\* cut off as well: until an update succeeds its files stay as they are.
StartsWhole == pc = "load" /\ ~stranded => /\ gui = installed
                                          /\ files[index] = gui /\ files[sig] = gui

\* The Store comes up again after an interrupted update. Two interruptions are not
\* survived: the one above, and a removal of the open journal that stops with some of
\* the backups gone, after which "recover || exit 1" ends every start.
OpensAgain == pc = "down" ~> (pc = "idle" \/ stranded \/ lost # {})

\* An update never goes behind the version that runs, when the two are numeric:
\* not by a release that was published again, nor by an offer made before.
NoDowngrade == [][installed' # installed => ~NotNewer(installed', gui)]_vars

\* All staging together, that of processes that died over it included, never takes
\* more of the card than one release and what it may expand to, whatever an archive
\* declares and holds: at most the byte that tells that an entry is too long.
StagingBounded == bytes <= ReleaseSize + MaxBytes + 1
=============================================================================
