-------------------------- MODULE SharedVaultFile --------------------------
(***************************************************************************)
(* The file protocol of shared-token-vault.json: LoadEncryptedVault and    *)
(* SaveVaultFileAtomic of internal/token/token.go.  It has the two renames *)
(* of the main vault's protocol and neither its marker nor its recovery:   *)
(* a load looks at the primary only.                                       *)
(*                                                                         *)
(* Every save starts from what a load returned (syncMainVaultToSharedVault *)
(* and the token commands), under the vault lock; the token key stays the  *)
(* same (TokenSync replaces it).                                           *)
(***************************************************************************)
EXTENDS FileSystem

CONSTANT MaxVersions  \* bound: how many saves are attempted

ASSUME VersionsAssumption == MaxVersions \in Nat \ {0}

VARIABLES
  flushed,     \* files whose bytes were written and fsynced completely
  issued,      \* the last save attempted
  acked,       \* the last save that returned nil
  pc,          \* the next system call of the running command
  base,        \* the vault its load returned: 0 if there was none
  hadPrimary,  \* SaveVaultFileAtomic's local of that name
  hurt         \* power was lost, an undo itself failed, or a save whose chmod
               \* failed was taken back

saves   == <<flushed, issued, acked>>
command == <<base, hadPrimary>>
vars    == <<fs, saves, pc, command, hurt>>

Names       == {"primary", "bak", "tmp"}
Directories == [Names -> 0..MaxVersions]

SaveSteps == {"createTmp", "writeTmp", "parkPrimary", "syncParked", "publish",
              "syncPublished", "secure"}
FailSteps == {"undoPark", "discardTmp", "dropPrimary", "restoreBackup"}
Steps     == {"idle", "loaded"} \cup SaveSteps \cup FailSteps

Goto(from, to) == pc = from /\ pc' = to

\* A system call fails: the outcome every step may have when writes can fail
Fails(from, to) == "write" \in Faults /\ Goto(from, to) /\ UNCHANGED fs

-----------------------------------------------------------------------------
\* A missing file is os.IsNotExist to the caller, an incomplete one an error
Load ==
  /\ Goto("idle", "loaded")
  /\ dir["primary"] \in flushed \cup {0}
  /\ base' = dir["primary"]
  /\ UNCHANGED <<fs, saves, hadPrimary, hurt>>

EndCommand == Goto("loaded", "idle") /\ UNCHANGED <<fs, saves, command, hurt>>

BeginSave ==
  /\ Goto("loaded", "createTmp")
  /\ issued < MaxVersions
  /\ issued' = issued + 1
  /\ UNCHANGED <<fs, flushed, acked, command, hurt>>

\* mutant: a leftover temporary file is overwritten
CreateTmpAnyway ==
  /\ Goto("createTmp", "writeTmp") /\ Create("tmp", issued)
  /\ UNCHANGED <<saves, command, hurt>>

\* O_EXCL: a leftover temporary file is an error
CreateTmp ==
  /\ \/ dir["tmp"] = 0 /\ Goto("createTmp", "writeTmp") /\ Create("tmp", issued)
     \/ dir["tmp"] # 0 /\ Goto("createTmp", "idle") /\ UNCHANGED fs
     \/ Fails("createTmp", "idle")
  /\ UNCHANGED <<saves, command, hurt>>

\* mutant: the error of Write or Sync is dropped
WriteTmpUnchecked ==
  /\ Goto("writeTmp", "parkPrimary")
  /\ flushed' \in {flushed, flushed \cup {issued}}
  /\ UNCHANGED <<fs, issued, acked, command, hurt>>

\* Wrap, Write, Sync, Close
WriteTmp ==
  /\ \/ Goto("writeTmp", "parkPrimary") /\ flushed' = flushed \cup {issued} /\ UNCHANGED fs
     \/ Fails("writeTmp", "discardTmp") /\ UNCHANGED flushed
  /\ UNCHANGED <<issued, acked, command, hurt>>

ParkPrimary ==
  /\ \/ Goto("parkPrimary", "syncParked") /\ Rename("primary", "bak")
     \/ dir["primary"] = 0 /\ Goto("parkPrimary", "publish") /\ UNCHANGED fs
     \/ Fails("parkPrimary", "discardTmp")
  /\ hadPrimary' = (dir["primary"] # 0)
  /\ UNCHANGED <<saves, base, hurt>>

\* SyncParentDir, then chmod of .bak; a failure of either moves it back
SyncParked ==
  /\ \/ Goto("syncParked", "publish") /\ SyncParentDir
     \/ Fails("syncParked", "undoPark")
     \/ "write" \in Faults /\ Goto("syncParked", "undoPark") /\ SyncParentDir
  /\ UNCHANGED <<saves, command, hurt>>

\* Where a failed rename or sync of the new primary leads
Undo == IF hadPrimary THEN "undoPark" ELSE "discardTmp"

\* mutant: the error of the last rename is dropped
PublishUnchecked ==
  /\ \/ Goto("publish", "syncPublished") /\ Rename("tmp", "primary")
     \/ Fails("publish", "syncPublished")
  /\ UNCHANGED <<saves, command, hurt>>

Publish ==
  /\ \/ Goto("publish", "syncPublished") /\ Rename("tmp", "primary")
     \/ Fails("publish", Undo)
  /\ UNCHANGED <<saves, command, hurt>>

SyncPublished ==
  /\ \/ Goto("syncPublished", "secure") /\ SyncParentDir
     \/ Fails("syncPublished", Undo)
  /\ UNCHANGED <<saves, command, hurt>>

\* The chmod of the new primary.  Its failure is an error even when there is no
\* previous version to go back to.
Secure ==
  /\ \/ /\ Goto("secure", "idle")
        /\ acked' = issued /\ base' = issued
        /\ UNCHANGED fs
     \/ /\ Fails("secure", IF hadPrimary THEN "dropPrimary" ELSE "idle")
        /\ UNCHANGED <<acked, base>>
  /\ UNCHANGED <<flushed, issued, hadPrimary, hurt>>

-----------------------------------------------------------------------------
(* The error paths.  Each ignores the result of its own calls.              *)

UndoPark ==
  /\ \/ Goto("undoPark", "discardTmp") /\ Rename("bak", "primary") /\ UNCHANGED hurt
     \/ Fails("undoPark", "discardTmp") /\ hurt' = TRUE
  /\ UNCHANGED <<saves, command>>

DiscardTmp ==
  /\ Goto("discardTmp", "idle")
  /\ TryRemove("tmp")
  /\ UNCHANGED <<saves, command, hurt>>

DropPrimary ==
  /\ Goto("dropPrimary", "restoreBackup")
  /\ TryRemove("primary")
  /\ hurt' = TRUE
  /\ UNCHANGED <<saves, command>>

RestoreBackup ==
  /\ \/ Goto("restoreBackup", "idle") /\ Rename("bak", "primary")
     \/ Fails("restoreBackup", "idle")
  /\ UNCHANGED <<saves, command, hurt>>

-----------------------------------------------------------------------------
(* The environment                                                          *)

Crash ==
  /\ pc # "idle"
  /\ pc' = "idle"
  /\ UNCHANGED <<fs, saves, command, hurt>>

PowerLoss ==
  /\ LosePower
  /\ pc' = "idle"
  /\ hurt' = TRUE
  /\ UNCHANGED <<saves, command>>

-----------------------------------------------------------------------------
Init ==
  /\ dir = [n \in Names |-> 0]
  /\ disks = {dir}
  /\ flushed = {} /\ issued = 0 /\ acked = 0
  /\ pc = "idle"
  /\ base = 0
  /\ hadPrimary = FALSE
  /\ hurt = FALSE

Save ==
  \/ BeginSave \/ CreateTmp \/ WriteTmp \/ ParkPrimary \/ SyncParked
  \/ Publish \/ SyncPublished \/ Secure

HandleFailure == UndoPark \/ DiscardTmp \/ DropPrimary \/ RestoreBackup

Next == Load \/ EndCommand \/ Save \/ HandleFailure \/ Crash \/ PowerLoss

Spec == Init /\ [][Next]_vars

-----------------------------------------------------------------------------
(* Properties                                                               *)

Types ==
  /\ dir \in Directories
  /\ disks \subseteq Directories
  /\ flushed \subseteq 0..MaxVersions
  /\ issued \in 0..MaxVersions
  /\ acked \in 0..issued
  /\ pc \in Steps
  /\ base \in 0..MaxVersions
  /\ hadPrimary \in BOOLEAN /\ hurt \in BOOLEAN

\* The primary and the backup are files that were completely written
WholeFiles == \A d \in disks : {d["primary"], d["bak"]} \subseteq flushed \cup {0}

\* Every variable has its type: only a temporary file may be partly written, the
\* primary and the backup never are, on any disk a power loss may leave
\* (SaveVaultFileAtomic's Write and Sync, before either rename).
TypeOK == Types /\ WholeFiles

\* Whatever the disk holds after a crash or a power loss, the last acknowledged
\* shared vault or a later one is complete, under its own name or as .bak, at any
\* point of a save and of its error paths.
AckedSurvives ==
  acked > 0 => \A d \in disks : Logical(d) \in flushed /\ Logical(d) >= acked

\* However processes die, a save that gets as far as its temporary file was made
\* from the last acknowledged shared vault or a later one, so it forgets no staged
\* value and no use count.  A load does not look at .bak: what stops a save made
\* from nothing is the temporary file the dead process left.
BuildsOnLatest ==
  pc \in SaveSteps \ {"createTmp"} /\ ~hurt => base >= acked

\* The file protocol implements the durable register, with reads that may find
\* nothing while the primary is away.
Register == INSTANCE VaultRegister WITH stored <- Logical(dir), answer <- base

IsRegister == Register!Spec
=============================================================================
