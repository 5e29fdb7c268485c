-------------------------------- MODULE Staging -------------------------------
(* The directory a release is downloaded to and unpacked in, before anything   *)
(* else is changed (installer/download.go, archive/archive.go), and its end: an*)
(* operation removes it, and the next holder of the manager's lock removes what*)
(* a dead process left (installer/stage.go). The digest of the release vouches *)
(* for its bytes, not for what they unpack to.                                 *)
(*                                                                             *)
(* Sizes are in units of the bytes at stake. The modules that use this one say *)
(* when each step is taken; entries the archive may not have (links, paths that*)
(* leave the directory) and reads that fail or are cancelled are theirs, too:  *)
(* nothing more is written.                                                    *)

EXTENDS Naturals

CONSTANTS
  Name,        \* paths in an archive
  MaxBytes,    \* what a release may expand to
  ReleaseSize  \* its own pinned size

ASSUME StagingAssumption == MaxBytes \in Nat /\ ReleaseSize \in 1..MaxBytes

VARIABLES
  bytes,    \* in staging directories, those of dead processes included
  total,    \* declared by the entries so far
  unpacked  \* the paths extracted so far

staging == <<bytes, total, unpacked>>

StagingType == bytes \in Nat /\ total \in Nat /\ unpacked \in SUBSET Name

NothingStaged == bytes = 0 /\ total = 0 /\ unpacked = {}

\* What the process knew of its staging is gone, what it wrote is not.
Forgotten == total' = 0 /\ unpacked' = {} /\ UNCHANGED bytes

Removed == total' = 0 /\ unpacked' = {} /\ bytes' = 0

\* The body is read up to one byte beyond the pinned size.
Receive(got) == /\ got <= ReleaseSize + 1
                /\ bytes' = bytes + got
                /\ UNCHANGED <<total, unpacked>>

\* Mutant of Fits: each entry is measured for itself.
FitsAlone(declared) == declared <= MaxBytes

Fits(declared) == declared <= MaxBytes /\ total <= MaxBytes - declared

\* extractFile: the entry is read up to one byte beyond what it declared.
Extract(name, declared, written) ==
  /\ name \notin unpacked
  /\ Fits(declared)
  /\ written <= declared + 1
  /\ total' = total + declared
  /\ bytes' = bytes + written
  /\ unpacked' = unpacked \cup {name}
=============================================================================
