--------------------------- MODULE SelfUpdateProofs ---------------------------
(* Theorems about SelfUpdate, for any files, any versions in any order, and any*)
(* number of deaths and failures.                                              *)

EXTENDS SelfUpdate, TLAPS

\* Wherever an update stands, the version last installed is whole: each file has it,
\* or the journal or the process has it.
Recoverable == ~stranded =>
  \A f \in StoreFile : IF saved[f] = None THEN files[f] = installed ELSE saved[f] = installed

\* A binary is loaded, and its catalogue read, only from files that are restored.
LoadedWhole == /\ pc \in {"exec", "reopen", "load"} => saved = NoSnapshots
               /\ pc \in {"reopen", "load"} /\ ~stranded => gui = installed

\* An update in progress copies the release that was offered, all of it.
CopiesOffer == /\ pc \in {"lock", "download", "unpack", "copy"} => pending # None
               /\ pc \in {"download", "unpack"} => saved = NoSnapshots
               /\ pc \in {"download", "unpack", "copy"} => lost = {}
               /\ pc = "copy" => unpacked = StoreFile
               /\ pc = "copy" => \A f \in StoreFile : saved[f] # None => files[f] = pending

\* StartsWhole is not inductive: this is what makes it so.
IInv == Recoverable /\ LoadedWhole /\ CopiesOffer

\* Only a GUI that runs has an offer, and it is not one to go back to.
OfferInv == /\ pc \in {"down", "recover", "exec", "reopen", "load"} => pending = None
            /\ pending # None => ~NotNewer(pending, gui)

\* While an archive is unpacked, what is on the card is the release and what its
\* entries declared, so that only the entry that ends it can be too long.
StagingInv == /\ pc = "download" => bytes = 0 /\ total = 0
              /\ pc = "unpack" => bytes = ReleaseSize + total /\ total <= MaxBytes
              /\ StagingBounded

\* The Store as it was first copied to the card is well typed and whole.
LEMMA InvInit ==
  ASSUME Init
  PROVE  TypeOK /\ IInv /\ OfferInv /\ StagingInv
<1> USE SelfUpdateAssumption, StagingAssumption DEF Init, NothingStaged, NoSnapshots
<1>1. StagingType /\ StagingInv
  BY DEF StagingType, StagingInv, StagingBounded
<1>2. TypeOK
  BY <1>1 DEF TypeOK, PC
<1>3. IInv /\ OfferInv
  BY DEF IInv, Recoverable, LoadedWhole, CopiesOffer, OfferInv
<1> QED
  BY <1>1, <1>2, <1>3

\* Every step of a start, an update, a recovery, and a death keeps the types.
LEMMA TypeStep ==
  ASSUME TypeOK, CopiesOffer, [Next]_vars
  PROVE  TypeOK'
<1> USE SelfUpdateAssumption, StagingAssumption
    DEF TypeOK, PC, NoSnapshots, offer, disk, history, staging, StagingType, Removed, Forgotten,
        Goto, Fault
<1>1. CASE Start
  BY <1>1 DEF Start, Launch, Exec, Load
<1>2. CASE Restored
  BY <1>2 DEF Restored, Restoring, Back, Swept
<1>14. CASE RemovalStops
  BY <1>14 DEF RemovalStops
<1>3. CASE RestoreFails
  <2>1. stranded' \in BOOLEAN
    BY <1>3, Zenon DEF RestoreFails, Abandoned
  <2> QED
    BY <1>3, <2>1 DEF RestoreFails, Restoring, Abandoned
<1>4. ASSUME NEW f \in StoreFile, RestoreFile(f)
      PROVE  TypeOK'
  BY <1>4 DEF RestoreFile
<1>5. CASE Update
  BY <1>5 DEF Update
<1>6. CASE Download \/ Refuse \/ Unpacked \/ CopyFails \/ Discard
  BY <1>6 DEF Download, Receive, Refuse, Unpacked, CopyFails, Discard
<1>15. CASE CommitFails
  BY <1>15 DEF CommitFails, CopiesOffer
<1>7. CASE Commit
  <2>1. installed' \in Version /\ saved' = NoSnapshots /\ pc' = "discard" /\ lost' = {}
    BY <1>7 DEF Commit, CopiesOffer
  <2>2. journal' \in {"none", "committed"} /\ faults' \in Nat /\ UNCHANGED staging
    BY <1>7 DEF Commit
  <2>3. restart' \in BOOLEAN
    BY <1>7, Zenon DEF Commit
  <2> QED
    BY <1>7, <2>1, <2>2, <2>3 DEF Commit
<1>8. ASSUME NEW f \in StoreFile, Copy(f)
      PROVE  TypeOK'
  <2>1. pending \in Version /\ files[f] \in Version
    BY <1>8 DEF Copy, CopiesOffer
  <2>2. files' \in [StoreFile -> Version] /\ saved' \in [StoreFile -> Version \cup {None}]
    BY <1>8, <2>1 DEF Copy
  <2> QED
    BY <1>8, <2>2 DEF Copy
<1>9. CASE Quit \/ Die
  <2>1. restart' \in BOOLEAN /\ stranded' \in BOOLEAN /\ pending' = None /\ gui' = None
    BY <1>9, Zenon DEF Quit, Die, Abandoned
  <2>3. StagingType'
    BY <1>9 DEF Quit, Die
  <2>2. pc' = "down" /\ installed' = installed /\ faults' \in Nat
    BY <1>9 DEF Quit, Die
  <2>4. /\ UNCHANGED <<files, journal, lost>>
        /\ saved' \in {saved, NoSnapshots} /\ (journal # "open" => saved' = NoSnapshots)
    BY <1>9 DEF Quit, Die, Abandoned
  <2> QED
    BY <2>1, <2>2, <2>3, <2>4
<1>10. CASE CheckFails
  BY <1>10 DEF CheckFails
<1>11. ASSUME NEW v \in Version, CheckUpdate(v)
       PROVE  TypeOK'
  BY <1>11 DEF CheckUpdate
<1>12. ASSUME NEW name \in Name, Unpack(name)
       PROVE  TypeOK'
  <2>1. StagingType' /\ pc' \in {"unpack", "discard"}
    BY <1>12 DEF Unpack, Extract, Fits
  <2> QED
    BY <1>12, <2>1 DEF Unpack
<1>13. CASE UNCHANGED vars
  BY <1>13 DEF vars
<1> QED
  BY <1>1, <1>2, <1>3, <1>4, <1>5, <1>6, <1>7, <1>8, <1>9, <1>10, <1>11, <1>12, <1>13,
     <1>14, <1>15
  DEF Next, Restore, Updating

\* A recovery ends with every file of the version last installed, an update with
\* every file of the one it copied, and nothing else forgets a snapshot.
LEMMA WholeStep ==
  ASSUME TypeOK, IInv, [Next]_vars
  PROVE  IInv'
<1> USE SelfUpdateAssumption
    DEF TypeOK, IInv, Recoverable, LoadedWhole, CopiesOffer, NoSnapshots, offer, disk, history,
        staging, Goto
<1>1. CASE Start
  BY <1>1 DEF Start, Launch, Exec, Load
<1>2. CASE Restored
  <2>1. ~stranded => \A f \in StoreFile : files[f] = installed
    BY <1>2 DEF Restored, AllBack
  <2> QED
    BY <1>2, <2>1 DEF Restored, Restoring, Back
<1>13. CASE RemovalStops
  BY <1>13 DEF RemovalStops, Restoring, AllBack
<1>3. CASE RestoreFails
  BY <1>3 DEF RestoreFails, Restoring, Abandoned, AllBack
<1>4. ASSUME NEW f \in StoreFile, RestoreFile(f)
      PROVE  IInv'
  BY <1>4 DEF RestoreFile, Restoring
<1>5. CASE Update \/ Download \/ Refuse \/ CopyFails \/ CommitFails \/ Discard
  BY <1>5 DEF Update, Download, Refuse, CopyFails, CommitFails, Discard
<1>6. CASE Commit
  BY <1>6 DEF Commit, Copied
<1>7. ASSUME NEW f \in StoreFile, Copy(f)
      PROVE  IInv'
  BY <1>7 DEF Copy
<1>8. CASE Quit \/ Die \/ CheckFails
  BY <1>8 DEF Quit, Die, CheckFails, Abandoned, AllBack
<1>9. ASSUME NEW v \in Version, CheckUpdate(v)
      PROVE  IInv'
  BY <1>9 DEF CheckUpdate
<1>10. ASSUME NEW name \in Name, Unpack(name)
       PROVE  IInv'
  BY <1>10 DEF Unpack
<1>11. CASE Unpacked
  BY <1>11 DEF Unpacked, Inventory
<1>12. CASE UNCHANGED vars
  BY <1>12 DEF vars
<1> QED
  BY <1>1, <1>2, <1>3, <1>4, <1>5, <1>6, <1>7, <1>8, <1>9, <1>10, <1>11, <1>12,
     <1>13
  DEF Next, Restore, Updating

\* The binary that runs and the offer it made change together.
LEMMA OfferStep ==
  ASSUME TypeOK, OfferInv, [Next]_vars
  PROVE  OfferInv'
<1> USE SelfUpdateAssumption DEF TypeOK, OfferInv, offer, disk, history, Goto
<1>1. CASE Start
  BY <1>1 DEF Start, Launch, Exec, Load
<1>2. CASE Restored \/ RemovalStops
  BY <1>2 DEF Restored, RemovalStops, Restoring, Back
<1>3. CASE RestoreFails
  BY <1>3 DEF RestoreFails, Restoring
<1>4. ASSUME NEW f \in StoreFile, RestoreFile(f)
      PROVE  OfferInv'
  BY <1>4 DEF RestoreFile
<1>5. CASE Update \/ Download \/ Refuse \/ Unpacked \/ CopyFails \/ Commit
           \/ CommitFails \/ Discard
  BY <1>5 DEF Update, Download, Refuse, Unpacked, CopyFails, Commit, CommitFails,
              Discard
<1>6. ASSUME NEW f \in StoreFile, Copy(f)
      PROVE  OfferInv'
  BY <1>6 DEF Copy
<1>7. CASE Quit \/ Die \/ CheckFails
  BY <1>7 DEF Quit, Die, CheckFails
<1>8. ASSUME NEW v \in Version, CheckUpdate(v)
      PROVE  OfferInv'
  BY <1>8 DEF CheckUpdate
<1>9. ASSUME NEW name \in Name, Unpack(name)
      PROVE  OfferInv'
  BY <1>9 DEF Unpack
<1>10. CASE UNCHANGED vars
  BY <1>10 DEF vars
<1> QED
  BY <1>1, <1>2, <1>3, <1>4, <1>5, <1>6, <1>7, <1>8, <1>9, <1>10
  DEF Next, Restore, Updating

\* Nothing is downloaded before the lock has removed what was left, and an archive is
\* measured before each entry.
LEMMA StagingStep ==
  ASSUME TypeOK, StagingInv, [Next]_vars
  PROVE  StagingInv'
<1> USE StagingAssumption
    DEF TypeOK, StagingType, StagingInv, StagingBounded, Removed, Forgotten, staging, Goto
<1>1. CASE Start \/ Quit \/ Die \/ CheckFails
  BY <1>1 DEF Start, Launch, Exec, Load, Quit, Die, CheckFails
<1>2. CASE Restored \/ RemovalStops
  BY <1>2 DEF Restored, RemovalStops, Restoring, Back, Swept
<1>3. CASE RestoreFails
  BY <1>3 DEF RestoreFails, Restoring
<1>4. ASSUME NEW f \in StoreFile, RestoreFile(f) \/ Copy(f)
      PROVE  StagingInv'
  BY <1>4 DEF RestoreFile, Copy
<1>5. CASE Update \/ Refuse \/ Unpacked \/ CopyFails \/ Commit \/ CommitFails \/ Discard
  BY <1>5 DEF Update, Refuse, Unpacked, CopyFails, Commit, CommitFails, Discard
<1>6. CASE Download
  <2>1. PICK got \in 0..(ReleaseSize + 1) :
          Receive(got) /\ (pc' = "unpack" => got = ReleaseSize)
    BY <1>6 DEF Download
  <2>2. bytes' = got /\ total' = 0 /\ pc' \in {"unpack", "discard"}
    BY <1>6, <2>1 DEF Download, Receive
  <2> QED
    BY <2>1, <2>2
<1>7. ASSUME NEW name \in Name, Unpack(name)
      PROVE  StagingInv'
  <2>1. PICK declared \in 0..(MaxBytes + 1), written \in Nat :
          /\ Extract(name, declared, written)
          /\ pc' = IF written = declared THEN "unpack" ELSE "discard"
    BY <1>7 DEF Unpack
  <2>2. /\ total + declared <= MaxBytes /\ written <= declared + 1
        /\ total' = total + declared
        /\ bytes' = ReleaseSize + total + written
    BY <1>7, <2>1 DEF Unpack, Extract, Fits
  <2> QED
    BY <2>1, <2>2
<1>8. ASSUME NEW v \in Version, CheckUpdate(v)
      PROVE  StagingInv'
  BY <1>8 DEF CheckUpdate
<1>9. CASE UNCHANGED vars
  BY <1>9 DEF vars
<1> QED
  BY <1>1, <1>2, <1>3, <1>4, <1>5, <1>6, <1>7, <1>8, <1>9 DEF Next, Restore, Updating

\* The files, the journal and the binary in memory are always versions, and a
\* journal that is not open has no snapshots.
THEOREM TypeCorrect == Spec => []TypeOK
<1>1. Init => TypeOK /\ IInv
  BY InvInit
<1>2. TypeOK /\ IInv /\ [Next]_vars => (TypeOK /\ IInv)'
  BY TypeStep, WholeStep DEF IInv
<1> QED
  BY <1>1, <1>2, PTL DEF Spec

\* However often an update or a recovery is cut off, the GUI that reads the catalogue
\* is the version last installed and so is the catalogue, unless the rollback of a
\* half-done Commit was cut off as well and no update has succeeded since.
THEOREM NeverMixed == Spec => []StartsWhole
<1>1. Init => TypeOK /\ IInv
  BY InvInit
<1>2. TypeOK /\ IInv /\ [Next]_vars => (TypeOK /\ IInv)'
  BY TypeStep, WholeStep DEF IInv
<1>3. IInv => StartsWhole
  BY SelfUpdateAssumption
  DEF IInv, Recoverable, LoadedWhole, StartsWhole, NoSnapshots
<1> QED
  BY <1>1, <1>2, <1>3, PTL DEF Spec

\* No sequence of checks, offers, failures and restarts installs a numeric version
\* over one that is the same or newer.
THEOREM NeverBackwards == Spec => NoDowngrade
<1>1. Init => TypeOK /\ IInv /\ OfferInv
  BY InvInit
<1>2. TypeOK /\ IInv /\ OfferInv /\ [Next]_vars => (TypeOK /\ IInv /\ OfferInv)'
  BY TypeStep, WholeStep, OfferStep DEF IInv
<1>3. ASSUME IInv, OfferInv, [Next]_vars
      PROVE  installed' # installed => ~NotNewer(installed', gui)
  <2>1. CASE Commit
    BY <1>3, <2>1 DEF Commit, Goto, IInv, CopiesOffer, OfferInv
  <2>2. CASE ~Commit
    BY <1>3, <2>2 DEF Next, Start, Launch, Exec, Load, Restore, Restored, RemovalStops,
                      RestoreFails, Abandoned, RestoreFile, history, disk, Updating, Update, Download, Unpack, Refuse, Unpacked,
                      CopyFails, CommitFails, Copy, Discard, Quit, Die, CheckFails, CheckUpdate, vars
  <2> QED
    BY <2>1, <2>2
<1>4. IInv /\ OfferInv /\ [Next]_vars
        => [installed' # installed => ~NotNewer(installed', gui)]_vars
  BY <1>3
<1> QED
  BY <1>1, <1>2, <1>4, PTL DEF Spec, NoDowngrade

\* Whatever archives declare and hold, and however many processes die over one, the
\* staging directories never take more than one release and what it may expand to.
THEOREM StagingIsBounded == Spec => []StagingBounded
<1>1. Init => TypeOK /\ IInv /\ StagingInv
  BY InvInit
<1>2. TypeOK /\ IInv /\ StagingInv /\ [Next]_vars => (TypeOK /\ IInv /\ StagingInv)'
  BY TypeStep, WholeStep, StagingStep DEF IInv
<1>3. StagingInv => StagingBounded
  BY DEF StagingInv
<1> QED
  BY <1>1, <1>2, <1>3, PTL DEF Spec
=============================================================================
