---------------------------- MODULE VaultStorage ----------------------------
(***************************************************************************)
(* The main-vault file protocol of internal/storage/storage.go:            *)
(* SaveFileAtomic, LoadBytes, recoverInterruptedSave and the clean-up of   *)
(* the transaction marker.  One command runs at a time (module VaultLock); *)
(* the adversary is the file system: the process may die between any two   *)
(* system calls, the machine may lose power, and calls may fail.           *)
(*                                                                         *)
(* A vault file is named by the number of the save that wrote it, which    *)
(* stands for the whole encrypted payload.                                 *)
(***************************************************************************)
EXTENDS FileSystem

CONSTANTS
  Passwords,   \* what a user may type at the master-password prompt
  MaxVersions  \* bound: how many saves are attempted

ASSUME VersionsAssumption == MaxVersions \in Nat \ {0}

VARIABLES
  flushed,     \* files whose bytes were written and fsynced completely
  sealedWith,  \* the password each save encrypts under
  issued,      \* the last save attempted
  acked,       \* the last save that returned nil
  pc,          \* the next system call of the running command
  pw,          \* the password it was given
  opened,      \* the vault LoadBytes returned to it: 0 for a new empty one
  primaryErr,  \* why LoadFileBytes(primary) failed
  hadPrimary   \* SaveFileAtomic's local of that name

saves   == <<flushed, sealedWith, issued, acked>>
command == <<pw, opened, primaryErr, hadPrimary>>
vars    == <<fs, saves, pc, command>>

Versions    == 1..MaxVersions
Names       == {"primary", "bak", "tmp", "marker"}
Directories == [Names -> 0..MaxVersions]

LoadSteps == {"openPrimary", "statMarker", "openBackup", "restoreBackup",
              "syncRestored", "cleanMarker", "cleanTmp", "openFallback"}
SaveSteps == {"createMarker", "syncMarker", "createTmp", "writeTmp",
              "parkPrimary", "syncParked", "publish", "syncPublished",
              "dropMarker", "syncDropped"}
FailSteps == {"unmark", "undoPark", "discardTmp", "abortMarker", "syncAborted"}

Steps == {"idle", "ready"} \cup LoadSteps \cup SaveSteps \cup FailSteps

\* The file decrypts: complete bytes, and the password it was sealed with
Readable(n, p) == n \in flushed /\ sealedWith[n] = p

Goto(from, to) == pc = from /\ pc' = to
Fail(from)     == Goto(from, "idle")

-----------------------------------------------------------------------------
(* LoadBytes                                                                *)

BeginLoad(p) ==
  /\ Goto("idle", "openPrimary")
  /\ pw' = p
  /\ opened' = 0
  /\ UNCHANGED <<fs, saves, primaryErr, hadPrimary>>

\* mutant: the early return without cleanupInterruptedSaveMarker
OpenPrimaryLeavesMarker ==
  /\ \/ /\ Readable(dir["primary"], pw)
        /\ Goto("openPrimary", "ready")
        /\ opened' = dir["primary"]
        /\ primaryErr' = "none"
     \/ /\ ~Readable(dir["primary"], pw)
        /\ Goto("openPrimary", "statMarker")
        /\ primaryErr' = IF dir["primary"] = 0 THEN "missing" ELSE "unreadable"
        /\ UNCHANGED opened
  /\ UNCHANGED <<fs, saves, pw, hadPrimary>>

OpenPrimary ==
  /\ \E ok \in ReadOutcomes :
       \/ /\ ok
          /\ Readable(dir["primary"], pw)
          /\ Goto("openPrimary", "cleanMarker")
          /\ opened' = dir["primary"]
          /\ primaryErr' = "none"
       \/ /\ ~ok \/ ~Readable(dir["primary"], pw)
          /\ Goto("openPrimary", "statMarker")
          /\ primaryErr' = IF dir["primary"] = 0 THEN "missing" ELSE "unreadable"
          /\ UNCHANGED opened
  /\ UNCHANGED <<fs, saves, pw, hadPrimary>>

StatMarker ==
  /\ \/ dir["marker"] # 0 /\ Goto("statMarker", "openBackup")
     \/ dir["marker"] = 0 /\ primaryErr = "missing" /\ Goto("statMarker", "openFallback")
     \/ dir["marker"] = 0 /\ primaryErr # "missing" /\ Fail("statMarker")
     \/ FALSE \in ReadOutcomes /\ Fail("statMarker")
  /\ UNCHANGED <<fs, saves, command>>

\* mutant: the backup is restored without being opened first
OpenBackupUnchecked ==
  /\ \/ dir["bak"] # 0 /\ Goto("openBackup", "restoreBackup")
     \/ dir["bak"] = 0 /\ primaryErr = "missing" /\ Goto("openBackup", "cleanMarker")
     \/ dir["bak"] = 0 /\ primaryErr # "missing" /\ Fail("openBackup")
  /\ UNCHANGED <<fs, saves, command>>

\* recoverInterruptedSave: restore the backup, start from an empty vault, or fail
OpenBackup ==
  /\ \E ok \in ReadOutcomes :
       \/ /\ ok /\ Readable(dir["bak"], pw)
          /\ Goto("openBackup", "restoreBackup")
       \/ /\ ~ok \/ ~Readable(dir["bak"], pw)
          /\ \/ primaryErr = "missing" /\ Goto("openBackup", "cleanMarker")
             \/ primaryErr # "missing" /\ Fail("openBackup")
  /\ UNCHANGED <<fs, saves, command>>

RestoreBackup ==
  /\ \/ /\ Goto("restoreBackup", "syncRestored")
        /\ opened' = dir["bak"]
        /\ Rename("bak", "primary")
     \/ /\ FALSE \in WriteOutcomes
        /\ Fail("restoreBackup")
        /\ UNCHANGED <<fs, opened>>
  /\ UNCHANGED <<saves, pw, primaryErr, hadPrimary>>

SyncRestored ==
  /\ \/ Goto("syncRestored", "cleanMarker") /\ SyncParentDir
     \/ FALSE \in WriteOutcomes /\ Fail("syncRestored") /\ UNCHANGED fs
  /\ UNCHANGED <<saves, command>>

\* cleanupInterruptedSaveMarker: two removals, neither checked nor synced
CleanMarker ==
  /\ Goto("cleanMarker", "cleanTmp")
  /\ TryRemove("marker")
  /\ UNCHANGED <<saves, command>>

CleanTmp ==
  /\ Goto("cleanTmp", "ready")
  /\ TryRemove("tmp")
  /\ UNCHANGED <<saves, command>>

\* mutant: a missing primary is a new vault, whatever .bak holds
OpenFallbackEmpty ==
  /\ Goto("openFallback", "ready")
  /\ opened' = 0
  /\ UNCHANGED <<fs, saves, pw, primaryErr, hadPrimary>>

\* The .bak fallback, and the new empty vault when it does not open either
OpenFallback ==
  /\ Goto("openFallback", "ready")
  /\ \E ok \in ReadOutcomes :
       opened' = IF ok /\ Readable(dir["bak"], pw) THEN dir["bak"] ELSE 0
  /\ UNCHANGED <<fs, saves, pw, primaryErr, hadPrimary>>

EndCommand == Goto("ready", "idle") /\ UNCHANGED <<fs, saves, command>>

-----------------------------------------------------------------------------
(* SaveFileAtomic                                                           *)

\* A loaded command saves, under its own password or (change-password) another.
\* The vault it opened may be the new empty one.
BeginSave(p) ==
  /\ Goto("ready", "createMarker")
  /\ issued < MaxVersions
  /\ issued' = issued + 1
  /\ sealedWith' = [sealedWith EXCEPT ![issued + 1] = p]
  /\ UNCHANGED <<fs, flushed, acked, command>>

\* O_EXCL: an existing marker is an error.  When the write or the close after
\* a successful create fails, the new marker stays behind.
CreateMarker ==
  /\ \/ dir["marker"] = 0 /\ Goto("createMarker", "syncMarker") /\ Create("marker", issued)
     \/ /\ FALSE \in WriteOutcomes /\ dir["marker"] = 0
        /\ Fail("createMarker") /\ Create("marker", issued)
     \/ /\ FALSE \in WriteOutcomes \/ dir["marker"] # 0
        /\ Fail("createMarker") /\ UNCHANGED fs
  /\ UNCHANGED <<saves, command>>

SyncMarker ==
  /\ \/ Goto("syncMarker", "createTmp") /\ SyncParentDir
     \/ FALSE \in WriteOutcomes /\ Goto("syncMarker", "unmark") /\ UNCHANGED fs
  /\ UNCHANGED <<saves, command>>

Unmark ==
  /\ Fail("unmark")
  /\ TryRemove("marker")
  /\ UNCHANGED <<saves, command>>

CreateTmp ==
  /\ \/ dir["tmp"] = 0 /\ Goto("createTmp", "writeTmp") /\ Create("tmp", issued)
     \/ /\ FALSE \in WriteOutcomes \/ dir["tmp"] # 0
        /\ Goto("createTmp", "abortMarker") /\ UNCHANGED fs
  /\ UNCHANGED <<saves, command>>

\* mutant: the error of Write or Sync is dropped
WriteTmpUnchecked ==
  /\ Goto("writeTmp", "parkPrimary")
  /\ flushed' \in {flushed, flushed \cup {issued}}
  /\ UNCHANGED <<fs, sealedWith, issued, acked, command>>

\* Wrap, Write, Sync, Close
WriteTmp ==
  /\ \/ Goto("writeTmp", "parkPrimary") /\ flushed' = flushed \cup {issued}
     \/ FALSE \in WriteOutcomes /\ Goto("writeTmp", "discardTmp") /\ UNCHANGED flushed
  /\ UNCHANGED <<fs, sealedWith, issued, acked, command>>

\* Stat the primary and move it to .bak if there is one
ParkPrimary ==
  /\ \/ /\ Goto("parkPrimary", "syncParked")
        /\ Rename("primary", "bak")
        /\ hadPrimary' = TRUE
     \/ /\ dir["primary"] = 0
        /\ Goto("parkPrimary", "publish")
        /\ hadPrimary' = FALSE
        /\ UNCHANGED fs
     \/ /\ FALSE \in WriteOutcomes
        /\ Goto("parkPrimary", "discardTmp")
        /\ hadPrimary' = (dir["primary"] # 0)
        /\ UNCHANGED fs
  /\ UNCHANGED <<saves, pw, opened, primaryErr>>

\* SyncParentDir, then chmod of .bak; a failure of either moves it back
SyncParked ==
  /\ \/ Goto("syncParked", "publish") /\ SyncParentDir
     \/ FALSE \in WriteOutcomes /\ Goto("syncParked", "undoPark") /\ UNCHANGED fs
     \/ FALSE \in WriteOutcomes /\ Goto("syncParked", "undoPark") /\ SyncParentDir
  /\ UNCHANGED <<saves, command>>

Publish ==
  /\ \/ Goto("publish", "syncPublished") /\ Rename("tmp", "primary")
     \/ /\ FALSE \in WriteOutcomes
        /\ Goto("publish", IF hadPrimary THEN "undoPark" ELSE "discardTmp")
        /\ UNCHANGED fs
  /\ UNCHANGED <<saves, command>>

\* A failed sync moves the old primary back; a failed chmod only returns
SyncPublished ==
  /\ \/ Goto("syncPublished", "dropMarker") /\ SyncParentDir
     \/ /\ FALSE \in WriteOutcomes
        /\ Goto("syncPublished", IF hadPrimary THEN "undoPark" ELSE "discardTmp")
        /\ UNCHANGED fs
     \/ FALSE \in WriteOutcomes /\ Goto("syncPublished", "abortMarker") /\ SyncParentDir
  /\ UNCHANGED <<saves, command>>

DropMarker ==
  /\ \/ Goto("dropMarker", "syncDropped") /\ Remove("marker")
     \/ FALSE \in WriteOutcomes /\ Fail("dropMarker") /\ UNCHANGED fs
  /\ UNCHANGED <<saves, command>>

\* The last sync decides what the caller is told
SyncDropped ==
  /\ \/ /\ Goto("syncDropped", "ready")
        /\ SyncParentDir
        /\ acked' = issued
        /\ opened' = issued
     \/ /\ FALSE \in WriteOutcomes
        /\ Fail("syncDropped")
        /\ UNCHANGED <<fs, acked, opened>>
  /\ UNCHANGED <<flushed, sealedWith, issued, pw, primaryErr, hadPrimary>>

\* The error paths.  Each ignores the result of its own calls.
UndoPark ==
  /\ Goto("undoPark", "discardTmp")
  /\ \/ Rename("bak", "primary")
     \/ FALSE \in WriteOutcomes /\ UNCHANGED fs
  /\ UNCHANGED <<saves, command>>

DiscardTmp ==
  /\ Goto("discardTmp", "abortMarker")
  /\ TryRemove("tmp")
  /\ UNCHANGED <<saves, command>>

AbortMarker ==
  /\ Goto("abortMarker", "syncAborted")
  /\ TryRemove("marker")
  /\ UNCHANGED <<saves, command>>

SyncAborted ==
  /\ Fail("syncAborted")
  /\ \/ SyncParentDir
     \/ FALSE \in WriteOutcomes /\ UNCHANGED fs
  /\ UNCHANGED <<saves, command>>

-----------------------------------------------------------------------------
(* The environment                                                          *)

\* The process is killed, or panics; the kernel keeps every completed call
Crash ==
  /\ pc # "idle"
  /\ pc' = "idle"
  /\ UNCHANGED <<fs, saves, command>>

PowerLoss ==
  /\ LosePower
  /\ pc' = "idle"
  /\ UNCHANGED <<saves, command>>

-----------------------------------------------------------------------------
Init ==
  /\ dir = [n \in Names |-> 0]
  /\ disks = {dir}
  /\ flushed = {}
  /\ sealedWith \in [Versions -> Passwords]
  /\ issued = 0
  /\ acked = 0
  /\ pc = "idle"
  /\ pw \in Passwords
  /\ opened = 0
  /\ primaryErr = "none"
  /\ hadPrimary = FALSE

Load ==
  \/ \E p \in Passwords : BeginLoad(p)
  \/ OpenPrimary \/ StatMarker \/ OpenBackup \/ RestoreBackup \/ SyncRestored
  \/ CleanMarker \/ CleanTmp \/ OpenFallback \/ EndCommand

Save ==
  \/ \E p \in Passwords : BeginSave(p)
  \/ CreateMarker \/ SyncMarker \/ CreateTmp \/ WriteTmp \/ ParkPrimary
  \/ SyncParked \/ Publish \/ SyncPublished \/ DropMarker \/ SyncDropped

HandleFailure == Unmark \/ UndoPark \/ DiscardTmp \/ AbortMarker \/ SyncAborted

Next == Load \/ Save \/ HandleFailure \/ Crash \/ PowerLoss

Spec == Init /\ [][Next]_vars

-----------------------------------------------------------------------------
(* Properties                                                               *)

\* Only completely written files are ever called vault.db or vault.db.bak
WholeFiles == \A d \in disks : {d["primary"], d["bak"]} \subseteq flushed \cup {0}

Types ==
  /\ dir \in Directories
  /\ disks \in SUBSET Directories
  /\ flushed \subseteq 0..MaxVersions
  /\ sealedWith \in [Versions -> Passwords]
  /\ issued \in 0..MaxVersions
  /\ acked \in 0..issued
  /\ pc \in Steps
  /\ pw \in Passwords
  /\ opened \in 0..MaxVersions
  /\ primaryErr \in {"none", "missing", "unreadable"}
  /\ hadPrimary \in BOOLEAN

\* What each variable may hold.  Of the directories, those the disk may be left
\* with included: no incomplete file is ever called vault.db or vault.db.bak,
\* although a save may fail or be cut short while it writes
\* (SaveFileAtomic's Write, Sync and Close before its renames).
TypeOK == Types /\ WholeFiles

\* Every save so far was made under the password p; under one and the same
AllSealedWith(p) == \A n \in 1..issued : sealedWith[n] = p
OnePassword      == \A m, n \in 1..issued : sealedWith[m] = sealedWith[n]

\* Whatever the disk holds after a crash or a power loss, at any point of a
\* save, of its error paths or of a recovery, there is a complete vault in it as
\* soon as one was acknowledged, and as long as all saves were made under one
\* password it is the last acknowledged one or a later one (SaveFileAtomic's
\* renames and SyncParentDir calls, recoverInterruptedSave's restore).
AckedSurvives ==
  acked > 0 => \A d \in disks :
    /\ Logical(d) \in flushed
    /\ OnePassword => Logical(d) >= acked

\* A command given the password of all saves so far, to which LoadBytes returned a
\* vault, works on the last acknowledged save or a later one, never on a stale
\* backup and never on a new empty vault while a saved one exists.
NoStaleOpen == pc = "ready" /\ AllSealedWith(pw) => opened >= acked

\* The file protocol implements the durable register, as long as all saves are
\* made under one password: its commit point is the rename of the temporary file
\* (or its undo), and an open that returns an existing vault returns the one the
\* register holds.
Register == INSTANCE VaultRegister WITH stored <- Logical(dir), answer <- opened

IsRegister == Register!Init /\ [][OnePassword' => Register!Next]_(Register!vars)
=============================================================================
