---------------------------- MODULE InstallerProofs ---------------------------
(* Theorems about Installer, for any releases, whatever they ship and declare, *)
(* any contents and any number of operations, edits and crashes.               *)

EXTENDS Installer, TLAPS

\* A record of the release that is installed: what is tracked is what it ships, and
\* what is preserved what it declares. An install or an adoption is only staged for a
\* package that is not installed.
StateInv ==
  /\ IsInstalled =>
       \A p \in Tracked :
         /\ Ships[installed.release][p] # Absent
         /\ installed.files[p].preserved = (p \in Preserve[installed.release])
  /\ pending.op \in {"install", "adopt"} => ~IsInstalled

IInv == TypeOK /\ StateInv /\ OriginalsIndexed

\* Nothing is tracked and nothing is listed without an installed state.
LEMMA NothingRecorded ==
  ASSUME TypeOK, ~IsInstalled
  PROVE  installed = NotInstalled /\ Tracked = {} /\ installed.originals = {}
<1>1. installed = NotInstalled
  BY InstallerAssumption DEF TypeOK, IsInstalled, Installed
<1> QED
  BY <1>1 DEF NotInstalled, Tracked

\* Paths are kept, backed up, restored, removed or written, and none is two of these.
LEMMA Disjoint ==
  ASSUME NEW r, NEW recovery
  PROVE  /\ Kept(r) \subseteq Shipped(r)
         /\ BackedUp(r, recovery) \subseteq Shipped(r) \ Kept(r)
         /\ Restored(r) \subseteq Stale(r)
         /\ Stale(r) \cap Shipped(r) = {} /\ Stale(r) \subseteq Tracked
         /\ Shipped(r) = {p \in Path : Ships[r][p] # Absent}
BY DEF Kept, BackedUp, Restored, Stale, Shipped, Path

\* What ApplyRelease writes has its type, and is installed.
LEMMA AppliedType ==
  ASSUME TypeOK, NEW r \in Release, NEW recovery \in BOOLEAN, ApplyRelease(r, recovery)
  PROVE  /\ files' \in [Path -> Value]
         /\ originals' \in [Path -> Value]
         /\ installed' \in Installed /\ installed'.release = r
         /\ first' \in [Path -> Value] /\ undo' = undo
<1> USE InstallerAssumption DEF TypeOK, ApplyRelease
<1>1. files' \in [Path -> Value]
  BY DEF InstalledFiles, Value
<1>2. originals' \in [Path -> Value]
  BY DEF InstalledOriginals, Value
<1>3. installed' \in Installed /\ installed'.release = r
  <2>1. installed.originals \subseteq Path
    BY DEF Installed, NotInstalled
  <2>2. \A p \in Path :
          (IF Ships[r][p] # Absent
           THEN [sha |-> IF p \in Kept(r) THEN files[p] ELSE Ships[r][p],
                 preserved |-> p \in Preserve[r],
                 unmanaged |-> FALSE]
           ELSE Untracked) \in FileRecord
    BY DEF FileRecord, Untracked, Value
  <2>3. (installed.originals \cup BackedUp(r, recovery)) \ Restored(r) \subseteq Path
    BY <2>1 DEF BackedUp, Shipped
  <2> QED
    BY <2>2, <2>3 DEF InstalledState, Installed
<1>4. first' \in [Path -> Value]
  BY DEF FirstRecorded, Value
<1> QED
  BY <1>1, <1>2, <1>3, <1>4

\* So does what an adoption writes.
LEMMA AdoptedType ==
  ASSUME TypeOK, Adopt
  PROVE  /\ files' \in [Path -> Value]
         /\ originals' \in [Path -> Value]
         /\ installed' \in Installed /\ installed' = AdoptedState(pending.release)
         /\ first' \in [Path -> Value]
<1> USE InstallerAssumption DEF TypeOK
<1>1. pending.release \in Release /\ pending.inventory \in [File -> Value]
  BY DEF Adopt, Staged, Idle
<1>2. files' \in [Path -> Value]
  <2>1. Ships[pending.release][Launcher] \in Value /\ Launcher \in Path
    BY <1>1 DEF Path
  <2> QED
    BY <2>1 DEF Adopt, AdoptedFiles, AdoptionWrites, Shipped
<1>3. originals' \in [Path -> Value]
  BY DEF Adopt
<1>4. installed' \in Installed /\ installed' = AdoptedState(pending.release)
  <2> DEFINE r == pending.release
  <2>1. ASSUME NEW p \in Path
        PROVE  (IF p \in Shipped(r) THEN AdoptsAs(r, p) ELSE Untracked) \in FileRecord
    <3>1. (IF p = Launcher THEN files[p] \notin {Ships[r][p], Absent}
           ELSE pending.inventory[p] # Ships[r][p] \/ p \in Preserve[r]) \in BOOLEAN
      BY Zenon
    <3>2. Ships[r][p] \in Value
      BY <1>1
    <3>3. AdoptsAs(r, p) \in FileRecord
      BY <3>1, <3>2 DEF AdoptsAs, FileRecord
    <3>4. Untracked \in FileRecord
      BY DEF Untracked, FileRecord, Value
    <3> QED
      BY <3>3, <3>4
  <2>2. AdoptedOriginals(r) \subseteq Path
    BY DEF AdoptedOriginals, Inventoried, Shipped, Path
  <2> HIDE DEF r
  <2>3. AdoptedState(r) \in Installed
    BY <1>1, <2>1, <2>2 DEF AdoptedState, Installed, r
  <2> QED
    BY <2>3 DEF Adopt, r
<1>5. first' \in [Path -> Value]
  BY DEF Adopt, FirstRecorded, Value
<1> QED
  BY <1>2, <1>3, <1>4, <1>5

\* What an operation takes over is recorded, and was there unseen unless it was taken
\* over before.
LEMMA TakenAt ==
  ASSUME NEW state, NEW unseen \in SUBSET File, missed \subseteq Path
  PROVE  /\ Taken(state, unseen) \subseteq Path \cap RecordedIn(state)
         /\ \A p \in RecordedIn(state) :
              /\ p \in missed => p \in Taken(state, unseen)
              /\ p \in unseen \ Recorded /\ files[p] # Absent => p \in Taken(state, unseen)
BY DEF Taken, Path

\* Every step keeps the types.
LEMMA TypeStep ==
  ASSUME TypeOK, [Next]_vars
  PROVE  TypeOK'
<1> USE InstallerAssumption
<1>1. ASSUME NEW op \in {"install", "adopt", "force"}, NEW r \in Release, Begin(op, r)
      PROVE  TypeOK'
  <2>1. pending' \in Staged
    BY <1>1 DEF Begin, TypeOK, Staged, Path
  <2> QED
    BY <1>1, <2>1 DEF Begin, TypeOK
<1>2. ASSUME NEW r \in Release, NEW recovery \in BOOLEAN, ApplyRelease(r, recovery),
             pending' \in {pending, Idle}, retained' \in SUBSET [File -> Value],
             NEW unseen \in SUBSET File, missed' = Taken(installed', unseen)
      PROVE  TypeOK'
  <2>1. missed' \subseteq Path
    BY <1>2, TakenAt DEF TypeOK
  <2> QED
    BY <1>2, <2>1, AppliedType DEF ApplyRelease, TypeOK
<1>3. CASE Install
  <2>1. pending.release \in Release /\ retained' \in SUBSET [File -> Value]
    BY <1>3 DEF Install, TypeOK, Staged, Idle
  <2> QED
    BY <1>2, <1>3, <2>1 DEF Install
<1>4. ASSUME NEW r \in Release, Update(r) \/ Repair(r)
      PROVE  TypeOK'
  BY <1>2, <1>4 DEF Update, Repair, TypeOK
<1>12. CASE ForceUnreported
  <2>1. pending.release \in Release /\ retained' \in SUBSET [File -> Value]
    BY <1>12 DEF ForceUnreported, TypeOK, Staged, Idle
  <2> QED
    BY <1>2, <1>12, <2>1 DEF ForceUnreported
<1>5. CASE ForceReinstall
  <2>1. [p \in File |-> IF p \in Inventoried THEN files[p] ELSE Absent] \in [File -> Value]
    BY DEF TypeOK, Value, Path
  <2>2. retained' \in SUBSET [File -> Value]
    BY <1>5, <2>1 DEF ForceReinstall, TypeOK
  <2>3. pending.release \in Release
    BY <1>5 DEF ForceReinstall, TypeOK, Staged, Idle
  <2> QED
    BY <1>2, <1>5, <2>2, <2>3, File \ Inventoried \in SUBSET File DEF ForceReinstall
<1>6. CASE Adopt
  <2>1. missed' \subseteq Path
    BY <1>6, TakenAt DEF Adopt, TypeOK
  <2> QED
    BY <1>6, <2>1, AdoptedType DEF Adopt, TypeOK
<1>7. CASE Abandon
  BY <1>7 DEF Abandon, TypeOK
<1>8. CASE Uninstall
  <2>1. files' \in [Path -> Value] /\ originals' \in [Path -> Value]
    BY <1>8 DEF Uninstall, UninstalledFiles, TypeOK, Value
  <2> QED
    BY <1>8, <2>1 DEF Uninstall, TypeOK
<1>9. ASSUME NEW p \in Path, NEW v \in Written[p] \cup {Absent}, Edit(p, v)
      PROVE  TypeOK'
  <2>1. files' \in [Path -> Value]
    BY <1>9 DEF Edit, TypeOK, Value
  <2> QED
    BY <1>9, <2>1 DEF Edit, TypeOK
<1>10. CASE Interrupted
  <2>1. ASSUME NEW writes \in SUBSET Path, NEW after \in [Path -> Value],
               CutShort(writes, after)
        PROVE  TypeOK'
    <3>1. \E reached \in SUBSET writes :
            \E done \in SUBSET reached,
               temp \in {files[Temp]} \cup {Junk : p \in writes \cap File} :
              /\ undo' = [p \in reached |-> files[p]]
              /\ files' = [p \in Path |-> IF p \in done THEN after[p]
                                         ELSE IF p = Temp THEN temp ELSE files[p]]
      BY <2>1, Zenon DEF CutShort
    <3>2. {files[Temp]} \cup {Junk : p \in writes \cap File} \subseteq Value
      BY DEF TypeOK, Value, Path
    <3>3. files' \in [Path -> Value] /\ DOMAIN undo' \subseteq Path
            /\ undo' \in [DOMAIN undo' -> Value]
      BY <3>1, <3>2, <2>1 DEF TypeOK
    <3> QED
      BY <2>1, <3>3 DEF CutShort, TypeOK
  <2>2. \A r \in Release : Writes(r) \subseteq Path /\ InstalledFiles(r) \in [Path -> Value]
    BY DEF Writes, Shipped, Stale, Tracked, InstalledFiles, TypeOK, Value
  <2>3. \A r \in Release : AdoptionWrites(r) \subseteq Path /\ AdoptedFiles(r) \in [Path -> Value]
    BY DEF AdoptionWrites, Shipped, AdoptedFiles, TypeOK
  <2>4. Owned \subseteq Path /\ UninstalledFiles \in [Path -> Value]
    BY DEF Owned, Tracked, UninstalledFiles, TypeOK, Value
  <2>5. pending.op # "none" => pending.release \in Release
    BY DEF TypeOK, Staged, Idle
  <2> QED
    BY <1>10, <2>1, <2>2, <2>3, <2>4, <2>5 DEF Interrupted
<1>13. CASE Recover
  <2>1. files' \in [Path -> Value]
    BY <1>13 DEF Recover, TypeOK
  <2>2. DOMAIN undo' = {} /\ undo' \in [DOMAIN undo' -> Value]
    BY <1>13 DEF Recover, NoJournal
  <2> QED
    BY <1>13, <2>1, <2>2 DEF Recover, TypeOK
<1>11. CASE UNCHANGED vars
  BY <1>11 DEF vars, TypeOK
<1> QED
  BY <1>1, <1>3, <1>4, <1>5, <1>6, <1>7, <1>8, <1>9, <1>10, <1>11, <1>12, <1>13
     DEF Next, Operation, Stage

\* What a release that is applied makes of one path.
LEMMA AppliedAt ==
  ASSUME TypeOK, NEW r \in Release, NEW recovery \in BOOLEAN, ApplyRelease(r, recovery),
         NEW p \in Path
  PROVE  /\ p \in Kept(r) => files'[p] = files[p]
         /\ p \in Shipped(r) \ Kept(r) => files'[p] = Ships[r][p]
         /\ p \in Shipped(r) =>
              installed'.files[p] = [sha       |-> IF p \in Kept(r) THEN files[p]
                                                   ELSE Ships[r][p],
                                     preserved |-> p \in Preserve[r],
                                     unmanaged |-> FALSE]
         /\ p \notin Shipped(r) =>
              /\ installed'.files[p] = Untracked
              /\ p \notin Stale(r) => files'[p] = files[p]
         /\ originals'[p] = IF p \in BackedUp(r, recovery) THEN files[p]
                            ELSE IF p \in Restored(r) THEN Absent ELSE originals[p]
         /\ p \in Kept(r) => files[p] # Absent
<1>1. /\ Kept(r) \subseteq Shipped(r) /\ Restored(r) \subseteq Stale(r)
      /\ Stale(r) \cap Shipped(r) = {} /\ (p \in Shipped(r) <=> Ships[r][p] # Absent)
      /\ (p \in Kept(r) => files[p] # Absent)
  BY Disjoint DEF Kept
<1>2. files' = InstalledFiles(r) /\ originals' = InstalledOriginals(r, recovery)
        /\ installed' = InstalledState(r, recovery)
  BY DEF ApplyRelease
<1> QED
  BY <1>1, <1>2 DEF InstalledFiles, InstalledOriginals, InstalledState

\* What is tracked is what the installed release ships.
LEMMA AppliedState ==
  ASSUME TypeOK, NEW r \in Release, NEW recovery \in BOOLEAN, ApplyRelease(r, recovery)
  PROVE  /\ IsInstalled'
         /\ \A p \in Tracked' :
              /\ Ships[installed'.release][p] # Absent
              /\ installed'.files[p].preserved = (p \in Preserve[installed'.release])
<1>1. installed'.release = r /\ IsInstalled'
  BY AppliedType, InstallerAssumption DEF IsInstalled
<1>2. ASSUME NEW p \in Path, installed'.files[p] # Untracked
      PROVE  Ships[r][p] # Absent /\ installed'.files[p].preserved = (p \in Preserve[r])
  <2>1. p \in Shipped(r)
    BY <1>2, AppliedAt
  <2>2. installed'.files[p] = [sha       |-> IF p \in Kept(r) THEN files[p] ELSE Ships[r][p],
                               preserved |-> p \in Preserve[r],
                               unmanaged |-> FALSE]
    BY <2>1, AppliedAt
  <2> QED
    BY <2>1, <2>2, SMT DEF Shipped
<1> QED
  BY <1>1, <1>2 DEF Tracked

\* The state is of the release it names, and only a package that is not installed is
\* installed or adopted.
LEMMA StateStep ==
  ASSUME IInv, [Next]_vars
  PROVE  StateInv'
<1> USE InstallerAssumption
<1>1. ASSUME NEW r \in Release, Stage(r)
      PROVE  StateInv'
  BY <1>1 DEF Stage, Begin, MayInstall, MayAdopt, IInv, StateInv, IsInstalled, Tracked
<1>2. ASSUME NEW r \in Release, NEW recovery \in BOOLEAN, ApplyRelease(r, recovery),
             pending' = Idle
      PROVE  StateInv'
  BY <1>2, AppliedState DEF IInv, StateInv, Idle
<1>3. CASE Install \/ ForceReinstall \/ ForceUnreported
  <2>1. pending.release \in Release
    <3>1. pending.op \in {"install", "force"}
      BY <1>3 DEF Install, ForceReinstall, ForceUnreported
    <3> QED
      BY <3>1 DEF IInv, TypeOK, Staged, Idle
  <2> QED
    BY <1>2, <1>3, <2>1 DEF Install, ForceReinstall, ForceUnreported
<1>4. ASSUME NEW r \in Release, Update(r) \/ Repair(r)
      PROVE  StateInv'
  BY <1>2, <1>4 DEF Update, Repair
<1>5. CASE Adopt
  <2> DEFINE r == pending.release
  <2>1. r \in Release /\ pending' = Idle /\ installed' = AdoptedState(r)
    BY <1>5 DEF Adopt, IInv, TypeOK, Staged, Idle
  <2> HIDE DEF r
  <2>2. installed'.release = r
    BY <2>1 DEF AdoptedState
  <2>3. ASSUME NEW p \in Path, installed'.files[p] # Untracked
        PROVE  Ships[r][p] # Absent /\ installed'.files[p].preserved = (p \in Preserve[r])
    <3>1. p \in Shipped(r) /\ installed'.files[p] = AdoptsAs(r, p)
      BY <2>1, <2>3 DEF AdoptedState
    <3> QED
      BY <3>1, SMT DEF AdoptsAs, Shipped
  <2> QED
    BY <2>1, <2>2, <2>3 DEF StateInv, Tracked, Idle
<1>6. CASE Abandon \/ Interrupted \/ Recover
  BY <1>6 DEF Abandon, Interrupted, CutShort, Recover, Idle, IInv, StateInv, IsInstalled,
              Tracked
<1>7. CASE Uninstall
  BY <1>7 DEF Uninstall, NotInstalled, Idle, StateInv, IsInstalled
<1>8. ASSUME NEW p \in Path, NEW v \in Written[p] \cup {Absent}, Edit(p, v)
      PROVE  StateInv'
  BY <1>8 DEF Edit, IInv, StateInv, IsInstalled, Tracked
<1>9. CASE UNCHANGED vars
  BY <1>9 DEF vars, IInv, StateInv, IsInstalled, Tracked
<1> QED
  BY <1>1, <1>3, <1>4, <1>5, <1>6, <1>7, <1>8, <1>9 DEF Next, Operation

\* The index follows the backups: what a release backs up is there to be, and what it
\* restores it does not also back up.
LEMMA IndexStep ==
  ASSUME IInv, [Next]_vars
  PROVE  OriginalsIndexed'
<1> USE InstallerAssumption
<1>1. ASSUME NEW r \in Release, NEW recovery \in BOOLEAN, ApplyRelease(r, recovery)
      PROVE  OriginalsIndexed'
  <2>1. installed'.originals
          = (installed.originals \cup BackedUp(r, recovery)) \ Restored(r)
    BY <1>1 DEF ApplyRelease, InstalledState
  <2>2. installed.originals = {p \in Path : originals[p] # Absent}
    BY DEF IInv, OriginalsIndexed
  <2>3. \A p \in Path :
          originals'[p] = IF p \in BackedUp(r, recovery) THEN files[p]
                          ELSE IF p \in Restored(r) THEN Absent ELSE originals[p]
    BY <1>1, AppliedAt DEF IInv
  <2>4. /\ BackedUp(r, recovery) \subseteq {p \in Path : files[p] # Absent}
        /\ BackedUp(r, recovery) \cap Restored(r) = {}
    BY Disjoint DEF BackedUp, Shipped
  <2> QED
    BY <2>1, <2>2, <2>3, <2>4 DEF OriginalsIndexed
<1>2. CASE Install \/ ForceReinstall \/ ForceUnreported
  <2>1. pending.op \in {"install", "force"}
    BY <1>2 DEF Install, ForceReinstall, ForceUnreported
  <2>2. pending.release \in Release
    BY <2>1 DEF IInv, TypeOK, Staged, Idle
  <2> QED
    BY <1>1, <1>2, <2>2 DEF Install, ForceReinstall, ForceUnreported
<1>3. ASSUME NEW r \in Release, Update(r) \/ Repair(r)
      PROVE  OriginalsIndexed'
  BY <1>1, <1>3 DEF Update, Repair
<1>4. CASE Adopt
  <2> DEFINE backedUp == AdoptedOriginals(pending.release)
  <2>1. installed'.originals = backedUp /\ backedUp \subseteq Path
    BY <1>4 DEF Adopt, AdoptedState, AdoptedOriginals, Inventoried, Shipped, Path
  <2>2. /\ \A p \in backedUp : files[p] # Absent
        /\ originals' = [p \in Path |-> IF p \in backedUp THEN files[p] ELSE originals[p]]
    BY <1>4 DEF Adopt
  <2>3. \A p \in Path : originals[p] = Absent
    BY <1>4, NothingRecorded DEF Adopt, IInv, StateInv, OriginalsIndexed
  <2> HIDE DEF backedUp
  <2> QED
    BY <2>1, <2>2, <2>3 DEF OriginalsIndexed
<1>5. CASE Uninstall
  BY <1>5 DEF Uninstall, NotInstalled, IInv, OriginalsIndexed
<1>6. ASSUME NEW r \in Release, Stage(r)
      PROVE  OriginalsIndexed'
  BY <1>6 DEF Stage, Begin, IInv, OriginalsIndexed
<1>7. CASE Abandon \/ Interrupted \/ Recover
  BY <1>7 DEF Abandon, Interrupted, CutShort, Recover, IInv, OriginalsIndexed
<1>8. ASSUME NEW p \in Path, NEW v \in Written[p] \cup {Absent}, Edit(p, v)
      PROVE  OriginalsIndexed'
  BY <1>8 DEF Edit, IInv, OriginalsIndexed
<1>9. CASE UNCHANGED vars
  BY <1>9 DEF vars, IInv, OriginalsIndexed
<1> QED
  BY <1>2, <1>3, <1>4, <1>5, <1>6, <1>7, <1>8, <1>9 DEF Next, Operation

LEMMA IInvInductive == Spec => []IInv
<1>1. Init => IInv
  <2> SUFFICES ASSUME Init PROVE IInv
    OBVIOUS
  <2>1. ~IsInstalled /\ pending = Idle /\ installed = NotInstalled
    BY DEF Init, IsInstalled, NotInstalled
  <2>2. TypeOK
    BY <2>1, InstallerAssumption DEF Init, TypeOK, Value, NoJournal
  <2>3. StateInv
    BY <2>1 DEF StateInv, Idle
  <2>4. OriginalsIndexed
    BY <2>1 DEF Init, OriginalsIndexed, NotInstalled
  <2> QED
    BY <2>2, <2>3, <2>4 DEF IInv
<1>2. IInv /\ [Next]_vars => IInv'
  BY TypeStep, StateStep, IndexStep DEF IInv
<1> QED
  BY <1>1, <1>2, PTL DEF Spec

\* The device's files, the backups, the installed state and the staged operation always
\* have their types.
THEOREM TypeCorrect == Spec => []TypeOK
<1>1. IInv => TypeOK
  BY DEF IInv
<1> QED
  BY <1>1, IInvInductive, PTL

\* The backups on disk are those the installed state lists, after any operations of any
\* releases.
THEOREM IndexIsExact == Spec => []OriginalsIndexed
<1>1. IInv => OriginalsIndexed
  BY DEF IInv
<1> QED
  BY <1>1, IInvInductive, PTL

\* The steps that change the device: a release applied over what there is, by an
\* install, an update or a repair, or by a force reinstall; an adoption; an uninstall.
LEMMA OperationCases ==
  ASSUME IInv, [Next]_vars, OperationStep
  PROVE  \/ \E r \in Release : /\ ApplyRelease(r, FALSE) /\ pending.op \in {"none", "install"}
                               /\ missed' = Taken(installed', {}) /\ retained' = retained
         \/ /\ ForceReinstall \/ ForceUnreported
            /\ pending.op = "force" /\ pending.release \in Release
            /\ ApplyRelease(pending.release, TRUE)
         \/ Adopt
         \/ Uninstall
         \/ UNCHANGED vars
<1>1. ASSUME NEW r \in Release, Stage(r)
      PROVE  FALSE
  BY <1>1 DEF OperationStep, Stage, Begin, Idle
<1>2. ASSUME NEW r \in Release, Update(r) \/ Repair(r)
      PROVE  /\ ApplyRelease(r, FALSE) /\ pending.op = "none"
             /\ missed' = Taken(installed', {}) /\ retained' = retained
  <2>1. /\ ApplyRelease(r, FALSE) /\ pending = Idle
        /\ missed' = Taken(installed', {}) /\ retained' = retained
    BY <1>2, Zenon DEF Update, Repair
  <2> QED
    BY <2>1 DEF Idle
<1>3. CASE Install
  <2>1. pending.release \in Release
    BY <1>3 DEF Install, IInv, TypeOK, Staged, Idle
  <2> QED
    BY <1>3, <2>1 DEF Install
<1>4. CASE ForceReinstall \/ ForceUnreported
  <2>1. pending.op = "force" /\ ApplyRelease(pending.release, TRUE)
    BY <1>4 DEF ForceReinstall, ForceUnreported
  <2>2. pending.release \in Release
    BY <2>1 DEF IInv, TypeOK, Staged, Idle
  <2> QED
    BY <1>4, <2>1, <2>2
<1>5. ASSUME NEW p \in Path, NEW v \in Written[p] \cup {Absent}, Edit(p, v)
      PROVE  FALSE
  BY <1>5 DEF Edit, OperationStep, IInv, TypeOK
<1>6. ~Abandon
  BY DEF OperationStep
<1>7. ~Interrupted /\ ~Recover
  BY DEF Interrupted, CutShort, Recover, OperationStep, IInv, TypeOK
<1> QED
  BY <1>1, <1>2, <1>3, <1>4, <1>5, <1>6, <1>7 DEF Next, Operation

\* An adoption changes no file but an absent launcher.
LEMMA AdoptedAt ==
  ASSUME IInv, Adopt, NEW p \in Path
  PROVE  /\ files[p] # Absent => files'[p] = files[p]
         /\ p \in File => files'[p] = files[p]
BY InstallerAssumption DEF Adopt, AdoptedFiles, AdoptionWrites, IInv, TypeOK, Path

\* What is not recorded and gives way is kept: for a release that is applied, an adoption
\* and an uninstall alike.
LEMMA GivesWay ==
  ASSUME IInv, [Next]_vars, OperationStep, NEW p \in Path \ Recorded,
         files[p] # Absent, files'[p] # files[p]
  PROVE  \/ originals'[p] = files[p]
         \/ p \in File /\ \E b \in retained' : b[p] = files[p]
         \/ pending.op = "force" /\ p \in File \ Inventoried
         \/ ForceUnreported /\ p \in File
<1>1. p \in Path /\ p \notin Tracked /\ p \notin installed.originals
  BY DEF Recorded
<1>2. ASSUME NEW r \in Release, NEW recovery \in BOOLEAN, ApplyRelease(r, recovery)
      PROVE  p \in Shipped(r) \ Kept(r) /\ (p \in BackedUp(r, recovery) => originals'[p] = files[p])
  BY <1>1, <1>2, AppliedAt, Disjoint DEF IInv
<1>3. ASSUME NEW r \in Release, ApplyRelease(r, FALSE)
      PROVE  originals'[p] = files[p]
  <2>1. p \in BackedUp(r, FALSE)
    BY <1>1, <1>2, <1>3 DEF BackedUp
  <2> QED
    BY <1>2, <1>3, <2>1
<1>4. CASE /\ ForceReinstall \/ ForceUnreported
           /\ pending.op = "force" /\ pending.release \in Release
           /\ ApplyRelease(pending.release, TRUE)
  <2>1. CASE p = Launcher
    <3>1. p \in BackedUp(pending.release, TRUE)
      BY <1>1, <1>2, <1>4, <2>1 DEF BackedUp
    <3> QED
      BY <1>2, <1>4, <3>1
  <2>2. CASE p \in Inventoried /\ ForceReinstall
    <3> DEFINE b == [q \in File |-> IF q \in Inventoried THEN files[q] ELSE Absent]
    <3>1. b \in retained' /\ p \in File /\ b[p] = files[p]
      BY <1>4, <2>2 DEF ForceReinstall, Inventoried
    <3> QED
      BY <3>1
  <2>3. p # Launcher => p \in File
    BY <1>1 DEF Path
  <2> QED
    BY <1>4, <2>1, <2>2, <2>3
<1>5. ~Adopt
  BY <1>1, AdoptedAt
<1>6. ~Uninstall
  BY <1>1 DEF Uninstall, UninstalledFiles, Owned
<1>7. ~(UNCHANGED vars)
  BY DEF vars
<1> QED
  BY OperationCases, <1>3, <1>4, <1>5, <1>6, <1>7

\* No release and no user has anything at the name of a temporary file.
TempInv == /\ files[Temp] \in {Junk, Absent}
           /\ Temp \notin Tracked
           /\ Temp \in DOMAIN undo => undo[Temp] \in {Junk, Absent}

\* A cut-short copy only ever leaves Junk there, and no operation backs it up but an
\* adoption, which moves nothing.
LEMMA TempIsJunk == Spec => []TempInv
<1> USE InstallerAssumption
<1>1. Init => TempInv
  BY DEF Init, TempInv, NotInstalled, Tracked, NoJournal, Path
<1>2. ASSUME IInv, TempInv, [Next]_vars
      PROVE  TempInv'
  <2> USE <1>2
  <2>1. Temp \in Path /\ Temp # Launcher /\ \A r \in Release : Temp \notin Shipped(r)
    BY DEF Path, Shipped
  <2>2. \A r \in Release : Temp \notin Writes(r) /\ Temp \notin Stale(r)
    BY <2>1 DEF Writes, Stale, TempInv
  <2>3. ASSUME NEW r \in Release, NEW recovery \in BOOLEAN, ApplyRelease(r, recovery)
        PROVE  TempInv'
    <3>1. files'[Temp] = files[Temp] /\ installed'.files[Temp] = Untracked /\ undo' = undo
      BY <2>1, <2>2, <2>3, AppliedAt, AppliedType DEF IInv
    <3> QED
      BY <3>1 DEF TempInv, Tracked
  <2>4. ASSUME OperationStep
        PROVE  TempInv'
    <3>1. CASE Adopt
      <4>1. files'[Temp] = files[Temp] /\ undo' = undo
        BY <2>1, <3>1 DEF Adopt, AdoptedFiles, AdoptionWrites
      <4>2. installed'.files[Temp] = Untracked
        BY <2>1, <3>1 DEF Adopt, AdoptedState, IInv, TypeOK, Staged, Idle
      <4> QED
        BY <4>1, <4>2 DEF TempInv, Tracked
    <3>2. CASE Uninstall
      BY <2>1, <3>2 DEF Uninstall, UninstalledFiles, Owned, NotInstalled, TempInv, Tracked
    <3>3. CASE UNCHANGED vars
      BY <3>3 DEF vars, TempInv, Tracked
    <3> QED
      BY <2>3, <2>4, <3>1, <3>2, <3>3, OperationCases
  <2>5. CASE Interrupted
    <3>1. ASSUME NEW writes \in SUBSET Path, NEW after, CutShort(writes, after), Temp \notin writes
          PROVE  TempInv'
      <4>1. \E reached \in SUBSET writes :
              \E done \in SUBSET reached,
                 temp \in {files[Temp]} \cup {Junk : q \in writes \cap File} :
                /\ undo' = [q \in reached |-> files[q]]
                /\ files' = [q \in Path |-> IF q \in done THEN after[q]
                                           ELSE IF q = Temp THEN temp ELSE files[q]]
        BY <3>1, Zenon DEF CutShort
      <4>2. files'[Temp] \in {Junk, Absent} /\ Temp \notin DOMAIN undo'
        BY <4>1, <3>1, <2>1 DEF TempInv
      <4>3. UNCHANGED installed
        BY <3>1 DEF CutShort
      <4> QED
        BY <4>2, <4>3 DEF TempInv, Tracked
    <3>2. \A r \in Release : /\ Writes(r) \subseteq Path
                             /\ AdoptionWrites(r) \subseteq Path /\ Temp \notin AdoptionWrites(r)
      BY <2>1 DEF Writes, Shipped, Stale, Tracked, AdoptionWrites, Path
    <3>3. Owned \subseteq Path /\ Temp \notin Owned
      BY DEF Owned, Tracked, TempInv
    <3>4. pending.op # "none" => pending.release \in Release
      BY DEF IInv, TypeOK, Staged, Idle
    <3> QED
      BY <2>2, <2>5, <3>1, <3>2, <3>3, <3>4 DEF Interrupted
  <2>6. CASE Recover
    <3>1. files'[Temp] = IF Temp \in DOMAIN undo THEN undo[Temp] ELSE files[Temp]
      BY <2>1, <2>6 DEF Recover
    <3> QED
      BY <2>6, <3>1 DEF Recover, TempInv, Tracked, NoJournal
  <2>7. ASSUME NEW p \in Path, NEW v \in Written[p] \cup {Absent}, Edit(p, v)
        PROVE  TempInv'
    BY <2>7, <2>1 DEF Edit, TempInv, Tracked, IInv, TypeOK
  <2>8. ASSUME ~OperationStep, ~Interrupted, ~Recover,
               ~\E p \in Path : \E v \in Written[p] \cup {Absent} : Edit(p, v)
        PROVE  UNCHANGED <<files, installed, undo>>
    BY <2>8 DEF Next, Operation, Stage, Begin, Install, Update, Repair, Adopt,
                ForceReinstall, ForceUnreported, Uninstall, Abandon, vars, ApplyRelease,
                OperationStep
  <2> QED
    BY <2>4, <2>5, <2>6, <2>7, <2>8 DEF TempInv, Tracked
<1> QED
  BY <1>1, <1>2, IInvInductive, PTL DEF Spec

\* What an operation that is cut short writes over is in its journal: it has written at
\* no path that it had not reached, and Temp holds nothing of anyone's.
LEMMA CutIsKept ==
  ASSUME IInv, TempInv, [Next]_vars, crashes' # crashes, NEW p \in Path,
         files[p] # Absent, files'[p] # files[p]
  PROVE  p \in DOMAIN undo' /\ undo'[p] = files[p]
<1>1. Interrupted
  BY DEF Next, Operation, Stage, Begin, Install, Update, Repair, Adopt, ForceReinstall,
         ForceUnreported, Uninstall, Abandon, Edit, Recover, vars, ApplyRelease
<1>2. ASSUME NEW writes, NEW after, CutShort(writes, after)
      PROVE  p \in DOMAIN undo' /\ undo'[p] = files[p]
  <2>1. \E reached \in SUBSET writes :
          \E done \in SUBSET reached,
             temp \in {files[Temp]} \cup {Junk : q \in writes \cap File} :
            /\ undo' = [q \in reached |-> files[q]]
            /\ files' = [q \in Path |-> IF q \in done THEN after[q]
                                       ELSE IF q = Temp THEN temp ELSE files[q]]
    BY <1>2, Zenon DEF CutShort
  <2> QED
    BY <2>1 DEF TempInv
<1> QED
  BY <1>1, <1>2 DEF Interrupted

\* What an operation changes and the Store had no record of is kept somewhere, whatever
\* the release ships, whenever it appeared and wherever the operation is cut short, but
\* for what a force reinstall could not have seen or reports as failed.
THEOREM NothingUnrecordedIsLost == Spec => UnrecordedIsBackedUp
<1>1. IInv /\ TempInv /\ [Next]_vars
        => [OperationStep \/ crashes' # crashes =>
              \A p \in Path \ Recorded :
                files[p] # Absent /\ files'[p] # files[p] =>
                  \/ originals'[p] = files[p]
                  \/ p \in File /\ \E b \in retained' : b[p] = files[p]
                  \/ p \in DOMAIN undo' /\ undo'[p] = files[p]
                  \/ pending.op = "force" /\ p \in File \ Inventoried
                  \/ ForceUnreported /\ p \in File]_vars
  BY GivesWay, CutIsKept
<1> QED
  BY <1>1, IInvInductive, TempIsJunk, PTL DEF Spec, UnrecordedIsBackedUp

\* What the release before declares is preserved if it is tracked, so no operation
\* restores, removes or writes over it.
LEMMA DeclaredStays ==
  ASSUME IInv, [Next]_vars, OperationStep, NEW p \in File, files[p] # Absent,
         IsInstalled => p \in Preserve[installed.release],
         IsInstalled' => p \in Preserve[installed'.release]
  PROVE  files'[p] = files[p]
<1>1. p \in Path /\ (p \in Tracked => installed.files[p].preserved)
  <2>1. ASSUME p \in Tracked
        PROVE  installed.files[p].preserved
    <3>1. IsInstalled
      BY <2>1, NothingRecorded DEF IInv
    <3>2. installed.files[p].preserved = (p \in Preserve[installed.release])
      BY <2>1, <3>1 DEF IInv, StateInv
    <3> QED
      BY <3>1, <3>2, Zenon
  <2> QED
    BY <2>1 DEF Path
<1>2. ASSUME NEW r \in Release, NEW recovery \in BOOLEAN, ApplyRelease(r, recovery)
      PROVE  files'[p] = files[p]
  <2>1. p \in Preserve[r]
    BY <1>2, AppliedState, AppliedType DEF IInv
  <2>2. p \notin Stale(r)
    BY <1>1 DEF Stale
  <2>3. p \in Shipped(r) => p \in Kept(r)
    BY <2>1 DEF Kept
  <2> QED
    BY <1>1, <1>2, <2>2, <2>3, AppliedAt DEF IInv
<1>3. CASE Adopt
  BY <1>1, <1>3, AdoptedAt
<1>4. CASE Uninstall
  <2>1. p \notin Owned
    BY <1>1 DEF Owned
  <2> QED
    BY <1>1, <1>4, <2>1 DEF Uninstall, UninstalledFiles
<1>5. CASE UNCHANGED vars
  BY <1>5 DEF vars
<1> QED
  BY OperationCases, <1>2, <1>3, <1>4, <1>5

\* User data that the release before and the release after both declare survives every
\* operation.
THEOREM UserDataIsKept == Spec => DeclaredByBothIsKept
<1>1. IInv /\ [Next]_vars
        => [OperationStep =>
              \A p \in File :
                /\ files[p] # Absent
                /\ IsInstalled => p \in Preserve[installed.release]
                /\ IsInstalled' => p \in Preserve[installed'.release]
                => files'[p] = files[p]]_vars
  BY DeclaredStays
<1> QED
  BY <1>1, IInvInductive, PTL DEF Spec, DeclaredByBothIsKept

\* What an operation records as the release's is the release's, unless an adoption
\* recorded what its inventory saw.
LEMMA RecordIsTrue ==
  ASSUME IInv, [Next]_vars, OperationStep, ~(UNCHANGED vars), NEW p \in Path,
         installed'.files[p] # Untracked,
         ~installed'.files[p].preserved, ~installed'.files[p].unmanaged
  PROVE  \/ files'[p] = installed'.files[p].sha
         \/ /\ pending.op = "adopt" /\ p \in Inventoried
            /\ pending.inventory[p] # files[p]
            /\ originals'[p] = files[p]
<1>1. ASSUME NEW r \in Release, NEW recovery \in BOOLEAN, ApplyRelease(r, recovery)
      PROVE  files'[p] = installed'.files[p].sha
  <2>1. p \in Shipped(r)
    BY <1>1, AppliedAt DEF IInv
  <2>2. installed'.files[p] = [sha       |-> IF p \in Kept(r) THEN files[p] ELSE Ships[r][p],
                               preserved |-> p \in Preserve[r],
                               unmanaged |-> FALSE]
    BY <1>1, <2>1, AppliedAt DEF IInv
  <2>3. installed'.files[p].sha = IF p \in Kept(r) THEN files[p] ELSE Ships[r][p]
    BY <2>2
  <2> QED
    BY <1>1, <2>1, <2>3, AppliedAt DEF IInv
<1>2. CASE Adopt
  <2> DEFINE r == pending.release
  <2>1. /\ installed' = AdoptedState(r)
        /\ \A q \in AdoptedOriginals(r) : originals'[q] = files[q]
        /\ pending.op = "adopt"
    BY <1>2 DEF Adopt, AdoptedOriginals, Inventoried, Shipped, Path
  <2>2. p \in Shipped(r) /\ installed'.files[p] = AdoptsAs(r, p)
    BY <2>1 DEF AdoptedState
  <2>3. installed'.files[p].sha = Ships[r][p] /\ Ships[r][p] # Absent
    BY <2>2 DEF AdoptsAs, Shipped
  <2>4. ~(IF p = Launcher THEN files[p] \notin {Ships[r][p], Absent}
          ELSE pending.inventory[p] # Ships[r][p] \/ p \in Preserve[r])
    <3>1. installed'.files[p].unmanaged
            = (IF p = Launcher THEN files[p] \notin {Ships[r][p], Absent}
               ELSE pending.inventory[p] # Ships[r][p] \/ p \in Preserve[r])
      BY <2>2 DEF AdoptsAs
    <3> QED
      BY <3>1, Zenon
  <2>5. CASE p = Launcher
    BY <1>2, <2>3, <2>4, <2>5, InstallerAssumption
       DEF Adopt, AdoptedFiles, AdoptionWrites, Shipped, IInv, TypeOK
  <2>6. CASE p # Launcher
    <3>1. p \in File /\ pending.inventory[p] = Ships[r][p]
      BY <2>4, <2>6 DEF Path
    <3>2. p \in Inventoried /\ p \in AdoptedOriginals(r)
      BY <3>1, <2>3 DEF Inventoried, AdoptedOriginals
    <3> QED
      BY <2>1, <2>3, <3>1, <3>2, <1>2, AdoptedAt
  <2> QED
    BY <2>5, <2>6
<1>3. ~Uninstall
  BY DEF Uninstall, NotInstalled
<1> QED
  BY OperationCases, <1>1, <1>2, <1>3

\* After any operation the managed files are the recorded ones, for any sequence of
\* releases; only an adoption may record a file that changed under it.
THEOREM RecordsAreTrue == Spec => ManagedMatches
<1>1. IInv /\ [Next]_vars
        => [OperationStep =>
              \A p \in Path :
                installed'.files[p] # Untracked /\ ~installed'.files[p].preserved
                  /\ ~installed'.files[p].unmanaged
                => \/ files'[p] = installed'.files[p].sha
                   \/ /\ pending.op = "adopt" /\ p \in Inventoried
                      /\ pending.inventory[p] # files[p]
                      /\ originals'[p] = files[p]]_vars
  BY RecordIsTrue
<1> QED
  BY <1>1, IInvInductive, PTL DEF Spec, ManagedMatches

\* The releases that ship a file agree on whether it is the user's. Where they do not,
\* the code overwrites what it had kept (run InstallerPreserveDropped), and an uninstall
\* cannot put back what no backup was made of.
AgreedOn(p) ==
  \A r, s \in Release :
    p \in Preserve[r] /\ Ships[r][p] # Absent /\ Ships[s][p] # Absent => p \in Preserve[s]

DeclarationsAgree == \A p \in Path : AgreedOn(p)

\* One of these recovery backups has content c of p.
KeptIn(backups, p, c) == p \in File /\ \E b \in backups : b[p] = c

\* A backup is of what the path held when the Store first saw it; a tracked file without
\* one is the user's, or stands where there was nothing, or a force reinstall kept what
\* was there, unless the Store could not see it or releases disagree about it.
FirstInv ==
  /\ \A p \in installed.originals : originals[p] = first[p]
  /\ \A p \in Tracked \ installed.originals :
       \/ ~AgreedOn(p)
       \/ installed.files[p].preserved
       \/ first[p] = Absent
       \/ KeptIn(retained, p, first[p])
       \/ p \in missed

\* A release that is applied by an install, an update or a repair, which have seen every
\* path, or by a force reinstall, which keeps what it saw.
LEMMA FirstApplied ==
  ASSUME IInv, FirstInv, NEW r \in Release, NEW recovery \in BOOLEAN,
         ApplyRelease(r, recovery), retained \subseteq retained',
         NEW unseen \in SUBSET File, missed' = Taken(installed', unseen),
         recovery => \A p \in File \ unseen : files[p] # Absent => KeptIn(retained', p, files[p])
  PROVE  FirstInv'
<1>1. /\ installed'.originals = (installed.originals \cup BackedUp(r, recovery)) \ Restored(r)
      /\ installed.originals = {p \in Path : originals[p] # Absent}
      /\ Launcher \in BackedUp(r, recovery) => originals[Launcher] = Absent
  BY DEF ApplyRelease, InstalledState, CanApply, IInv, OriginalsIndexed
<1>2. ASSUME NEW p \in Path
      PROVE  first'[p] =
               IF (installed'.files[p] # Untracked \/ p \in installed'.originals)
                  /\ p \notin Recorded
               THEN files[p] ELSE first[p]
  BY DEF ApplyRelease, FirstRecorded, RecordedIn
<1>3. \A p \in Path : installed'.files[p] # Untracked =>
        /\ p \in missed => p \in missed'
        /\ p \in unseen \ Recorded /\ files[p] # Absent => p \in missed'
  BY TakenAt DEF IInv, TypeOK, RecordedIn
<1>4. ASSUME NEW p \in installed'.originals
      PROVE  originals'[p] = first'[p]
  <2>1. p \in Path /\ p \notin Restored(r)
    BY <1>1, <1>4 DEF BackedUp, Shipped
  <2>2. CASE p \in BackedUp(r, recovery)
    <3>1. p \notin installed.originals /\ (p = Launcher \/ ~recovery) /\ p \notin Tracked
      BY <1>1, <2>1, <2>2 DEF BackedUp
    <3>3. first'[p] = files[p]
      BY <1>2, <1>4, <2>1, <3>1 DEF Recorded
    <3> QED
      BY <2>1, <2>2, <3>3, AppliedAt DEF IInv
  <2>3. CASE p \notin BackedUp(r, recovery)
    <3>1. p \in installed.originals
      BY <1>1, <1>4, <2>3
    <3>2. first'[p] = first[p] /\ originals'[p] = originals[p]
      BY <1>2, <2>1, <2>3, <3>1, AppliedAt DEF Recorded, IInv
    <3> QED
      BY <3>1, <3>2 DEF FirstInv
  <2> QED
    BY <2>2, <2>3
<1>5. ASSUME NEW p \in Path, installed'.files[p] # Untracked, p \notin installed'.originals,
             ~installed'.files[p].preserved, AgreedOn(p)
      PROVE  first'[p] = Absent \/ KeptIn(retained', p, first'[p]) \/ p \in missed'
  <2>1. /\ p \in Shipped(r) /\ p \notin Preserve[r] /\ p \notin Kept(r)
        /\ p \notin installed.originals /\ p \notin BackedUp(r, recovery)
    <3>1. p \in Shipped(r)
      BY <1>5, AppliedAt DEF IInv
    <3>2. p \notin Restored(r)
      BY <3>1, Disjoint
    <3>3. installed'.files[p] = [sha       |-> IF p \in Kept(r) THEN files[p] ELSE Ships[r][p],
                                 preserved |-> p \in Preserve[r],
                                 unmanaged |-> FALSE]
      BY <3>1, AppliedAt DEF IInv
    <3>4. installed'.files[p].preserved = (p \in Preserve[r])
      BY <3>3
    <3>5. p \notin Preserve[r]
      BY <1>5, <3>4, Zenon
    <3> QED
      BY <1>1, <1>5, <3>1, <3>2, <3>5 DEF Kept
  <2>2. CASE p \in Tracked
    <3>1. Ships[installed.release][p] # Absent /\ IsInstalled
            /\ installed.files[p].preserved = (p \in Preserve[installed.release])
      BY <2>2, NothingRecorded DEF IInv, StateInv
    <3>2. installed.release \in Release
      BY <3>1, InstallerAssumption DEF IInv, TypeOK, Installed, NotInstalled, IsInstalled
    <3>3. p \notin Preserve[installed.release]
      BY <1>5, <2>1, <3>1, <3>2 DEF AgreedOn, Shipped
    <3>4. ~installed.files[p].preserved
      BY <3>1, <3>3, Zenon
    <3>5. first'[p] = first[p]
      BY <1>2, <2>2 DEF Recorded
    <3> QED
      BY <1>3, <1>5, <2>1, <2>2, <3>4, <3>5 DEF FirstInv, KeptIn
  <2>3. CASE p \notin Tracked
    <3>1. first'[p] = files[p] /\ p \notin Recorded
      BY <1>2, <1>5, <2>1, <2>3 DEF Recorded
    <3>2. files[p] = Absent \/ (recovery /\ p \in File)
      BY <2>1, <2>3 DEF BackedUp, Path
    <3> QED
      BY <1>3, <1>5, <3>1, <3>2
  <2> QED
    BY <2>2, <2>3
<1> QED
  BY <1>4, <1>5 DEF FirstInv, Tracked

\* What each operation backs up is what it found, and an edit changes no backup.
LEMMA FirstStep ==
  ASSUME IInv, FirstInv, [Next]_vars
  PROVE  FirstInv'
<1> USE InstallerAssumption
<1>1. CASE OperationStep
  <2>1. ASSUME NEW r \in Release, ApplyRelease(r, FALSE),
               missed' = Taken(installed', {}), retained' = retained
        PROVE  FirstInv'
    BY <2>1, FirstApplied
  <2>2. CASE /\ ForceReinstall \/ ForceUnreported
             /\ pending.op = "force" /\ pending.release \in Release
             /\ ApplyRelease(pending.release, TRUE)
    <3>1. CASE ForceReinstall
      <4> DEFINE b == [p \in File |-> IF p \in Inventoried THEN files[p] ELSE Absent]
      <4>1. retained' = retained \cup {b} /\ missed' = Taken(installed', File \ Inventoried)
        BY <3>1 DEF ForceReinstall
      <4>2. \A p \in Inventoried : p \in File /\ b[p] = files[p]
        BY DEF Inventoried
      <4>3. \A p \in File \ (File \ Inventoried) : KeptIn(retained', p, files[p])
        BY <4>1, <4>2 DEF KeptIn
      <4> QED
        BY <2>2, <4>1, <4>3, FirstApplied
    <3>2. CASE ForceUnreported
      <4>1. retained' = retained /\ missed' = Taken(installed', File)
        BY <3>2 DEF ForceUnreported
      <4> QED
        BY <2>2, <4>1, FirstApplied
    <3> QED
      BY <2>2, <3>1, <3>2
  <2>3. CASE Adopt
    <3> DEFINE r == pending.release
               backedUp == AdoptedOriginals(r)
    <3>1. /\ installed' = AdoptedState(r) /\ first' = FirstRecorded(AdoptedState(r))
          /\ originals' = [p \in Path |-> IF p \in backedUp THEN files[p] ELSE originals[p]]
          /\ missed' = Taken(installed', File \ Inventoried)
          /\ pending.op = "adopt"
      BY <2>3 DEF Adopt
    <3>2. Recorded = {}
      BY <3>1, NothingRecorded DEF IInv, StateInv, Recorded
    <3>4. installed'.originals = backedUp
      BY <3>1 DEF AdoptedState
    <3>5. ASSUME NEW p \in Path
          PROVE  first'[p] =
                   IF installed'.files[p] # Untracked \/ p \in installed'.originals
                   THEN files[p] ELSE first[p]
      BY <3>1, <3>2 DEF FirstRecorded, RecordedIn
    <3> HIDE DEF r, backedUp
    <3>6. ASSUME NEW p \in backedUp
          PROVE  originals'[p] = first'[p]
      <4>1. p \in Path
        BY DEF backedUp, AdoptedOriginals, Inventoried, Shipped, Path
      <4> QED
        BY <3>1, <3>4, <3>5, <4>1
    <3>7. ASSUME NEW p \in Path \ backedUp, installed'.files[p] # Untracked
          PROVE  first'[p] = Absent \/ p \in missed'
      <4>1. p \in Shipped(r)
        BY <3>1, <3>7 DEF AdoptedState
      <4>2. p \in File \ Inventoried \/ files[p] = Absent
        BY <4>1 DEF backedUp, AdoptedOriginals, Path
      <4>3. first'[p] = files[p] /\ p \in RecordedIn(installed')
        BY <3>5, <3>7 DEF RecordedIn
      <4> QED
        BY <3>1, <3>2, <4>2, <4>3, TakenAt DEF IInv, TypeOK
    <3> QED
      BY <3>4, <3>6, <3>7 DEF FirstInv, Tracked
  <2>4. CASE Uninstall
    <3>1. installed'.originals = {} /\ \A p \in Path : installed'.files[p] = Untracked
      BY <2>4 DEF Uninstall, NotInstalled
    <3> QED
      BY <3>1 DEF FirstInv, Tracked
  <2>5. CASE UNCHANGED vars
    BY <2>5 DEF vars, FirstInv, Tracked
  <2> QED
    BY <1>1, <2>1, <2>2, <2>3, <2>4, <2>5, OperationCases
<1>2. CASE ~OperationStep
  <2>1. UNCHANGED <<originals, installed, retained, first, missed>>
    BY <1>2 DEF Next, Operation, Stage, Begin, Install, Update, Repair, Adopt,
                ForceReinstall, ForceUnreported, Uninstall, Abandon, Edit, Interrupted,
                CutShort, Recover, vars, ApplyRelease, OperationStep
  <2> QED
    BY <2>1 DEF FirstInv, Tracked
<1> QED
  BY <1>1, <1>2

\* UninstallRestores, of the paths that releases agree about.
AgreedReturn == Uninstalling =>
                  \A p \in Owned : AgreedOn(p) => \/ files'[p] = first[p]
                                                  \/ Retained(p, first[p])
                                                  \/ p \in missed

\* Uninstall puts back what an owned path held when the Store first recorded it, or a
\* recovery backup has it: for any sequence of operations, edits and operations cut
\* short, path by path, wherever the releases agree on whether the path is the user's;
\* but for the paths where no copy was made (Taken).
THEOREM AgreedOriginalsReturn == Spec => [][AgreedReturn]_vars
<1>1. Init => FirstInv
  BY DEF Init, FirstInv, NotInstalled, Tracked
<1>2. IInv /\ FirstInv /\ [Next]_vars => FirstInv'
  BY FirstStep
<1>3. IInv /\ FirstInv /\ [Next]_vars
        => [AgreedReturn]_vars
  <2> SUFFICES ASSUME IInv, FirstInv, [Next]_vars, Uninstalling, NEW p \in Owned, AgreedOn(p)
               PROVE  files'[p] = first[p] \/ Retained(p, first[p]) \/ p \in missed
    BY DEF AgreedReturn
  <2>1. Uninstall
    <3>1. ~(UNCHANGED vars) /\ \A r \in Release, recovery \in BOOLEAN : ~ApplyRelease(r, recovery)
      BY AppliedState DEF vars, Uninstalling, IsInstalled, IInv
    <3>2. ~Adopt
      BY DEF Uninstalling, IInv, StateInv, Adopt
    <3>3. OperationStep \/ UNCHANGED installed
      BY DEF Next, Operation, Stage, Begin, Install, Update, Repair, Adopt,
             ForceReinstall, ForceUnreported, Uninstall, Abandon, Edit, Interrupted,
             CutShort, Recover, vars, ApplyRelease, OperationStep
    <3> QED
      BY <3>1, <3>2, <3>3, OperationCases DEF Uninstalling, IsInstalled
  <2>2. p \in Tracked /\ p \in Path /\ ~installed.files[p].preserved
    BY DEF Owned, Tracked
  <2>3. files'[p] = IF p \in installed.originals THEN originals[p] ELSE Absent
    BY <2>1, <2>2 DEF Uninstall, UninstalledFiles
  <2> QED
    BY <2>2, <2>3 DEF FirstInv, KeptIn, Retained
<1> QED
  BY <1>1, <1>2, <1>3, IInvInductive, PTL DEF Spec

\* On releases that agree about every path, uninstall puts everything back.
THEOREM OriginalsReturn == ASSUME DeclarationsAgree PROVE Spec => UninstallRestores
<1>1. [AgreedReturn]_vars
        => [Uninstalling => \A p \in Owned : \/ files'[p] = first[p]
                                             \/ Retained(p, first[p])
                                             \/ p \in missed]_vars
  <2>1. \A p \in Owned : AgreedOn(p)
    BY DEF DeclarationsAgree, Owned, Tracked
  <2> QED
    BY <2>1 DEF AgreedReturn
<1> QED
  BY <1>1, AgreedOriginalsReturn, PTL DEF UninstallRestores
=============================================================================
