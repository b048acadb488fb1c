------------------------------ MODULE FileSystem ------------------------------
(***************************************************************************)
(* The directory a vault file lives in, as the save protocols use it.      *)
(*                                                                         *)
(* A file is named by the number of the save that wrote it, 0 being "no    *)
(* entry".  dir is the directory the process sees.  disks is every         *)
(* directory the disk may hold after a power loss: each entry change made  *)
(* since the last SyncParentDir may or may not have reached it.            *)
(***************************************************************************)
EXTENDS Naturals

CONSTANT
  Faults  \* what may go wrong besides a crash of the process: "read" and
          \* "write" calls may fail, the machine may lose "power"

ASSUME FaultsAssumption == Faults \subseteq {"read", "write", "power"}

VARIABLES
  dir,   \* name -> file, as the running process sees it
  disks  \* the directories a power loss may leave

fs == <<dir, disks>>

(* Directory operations.  A rename or a removal that reaches the disk late  *)
(* still concerns the file it was issued for: on a directory whose entry is *)
(* another file it does nothing.                                            *)

Moved(d, a, b)  == IF d[a] = dir[a] THEN [d EXCEPT ![a] = 0, ![b] = d[a]] ELSE d
Removed(d, a)   == IF d[a] = dir[a] THEN [d EXCEPT ![a] = 0] ELSE d
Placed(d, a, n) == [d EXCEPT ![a] = n]

Rename(a, b) ==
  /\ dir[a] # 0
  /\ dir'   = Moved(dir, a, b)
  /\ disks' = disks \cup {Moved(d, a, b) : d \in disks}

Remove(a) ==
  /\ dir'   = Removed(dir, a)
  /\ disks' = disks \cup {Removed(d, a) : d \in disks}

\* O_CREATE|O_EXCL: the caller has checked that the name is free
Create(a, n) ==
  /\ dir'   = Placed(dir, a, n)
  /\ disks' = disks \cup {Placed(d, a, n) : d \in disks}

\* mutant: the directory is never synced
SyncNothing == UNCHANGED fs

SyncParentDir == dir' = dir /\ disks' = {dir}

\* A call that may fail: ok ranges over its possible outcomes
WriteOutcomes == IF "write" \in Faults THEN BOOLEAN ELSE {TRUE}
ReadOutcomes  == IF "read"  \in Faults THEN BOOLEAN ELSE {TRUE}

\* Removal whose error is ignored, as in `_ = fileOps.remove(...)`
TryRemove(a) == \E ok \in WriteOutcomes : IF ok THEN Remove(a) ELSE UNCHANGED fs

LosePower ==
  /\ "power" \in Faults
  /\ dir' \in disks
  /\ disks' = {dir'}

\* What the directory d holds as "the vault": the primary, or the backup while
\* a save has moved the primary away
Logical(d) == IF d["primary"] # 0 THEN d["primary"] ELSE d["bak"]
=============================================================================
