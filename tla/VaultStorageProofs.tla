------------------------- MODULE VaultStorageProofs -------------------------
(***************************************************************************)
(* Proofs about the main-vault file protocol, for any set of passwords,    *)
(* any number of saves and any mix of crashes, failing writes and power    *)
(* losses.  What concerns the age of a vault is proved of reads that do    *)
(* not fail, and says itself that saves under another password end it: the *)
(* counterexamples need no less.  That no incomplete file is called a      *)
(* vault, and that an open makes way for the next save, assume nothing.    *)
(***************************************************************************)
EXTENDS MCVaultStorageFaults, FileSystemProofs

\* A read of an existing file succeeds
ReliableReads == "read" \notin Faults

\* Nothing has happened yet after which an older vault may be opened; the password
\* of the running command is that of all saves
Trusted == ReliableReads /\ OnePassword
Opens   == ReliableReads /\ AllSealedWith(pw)

(* The inductive invariant.                                                *)

\* A complete file, as new as the last acknowledged save if that can be promised
Current(n) == acked > 0 => n \in flushed /\ (Trusted => n >= acked)

\* Only complete files are ever called vault.db or vault.db.bak
FilesComplete ==
  /\ dir \in disks
  /\ flushed \subseteq 1..issued
  /\ \A d \in disks : \A a \in {"primary", "bak"} : d[a] # 0 => d[a] \in flushed

DisksCurrent == \A d \in disks : Current(Logical(d))

\* What a load in progress has found out
LoadState ==
  /\ pc \in {"statMarker", "openBackup", "openFallback"} =>
       /\ primaryErr = "missing" => dir["primary"] = 0
       /\ primaryErr # "missing" =>
            dir["primary"] # 0 /\ (ReliableReads => ~Readable(dir["primary"], pw))
  /\ pc = "openFallback" => primaryErr = "missing"
  /\ pc = "restoreBackup" => /\ Trusted => dir["primary"] = 0
                             /\ dir["bak"] # 0 /\ Current(dir["bak"])
  /\ pc \in {"syncRestored", "cleanMarker", "cleanTmp", "ready"} /\ Opens =>
       opened >= acked

\* What a save in progress has put in place
SaveState ==
  /\ pc \in {"writeTmp", "parkPrimary", "syncParked", "publish"} => dir["tmp"] = issued
  /\ pc \in SaveSteps => issued > 0
  /\ pc \in {"parkPrimary", "syncParked", "publish", "syncPublished", "dropMarker",
             "syncDropped"} => issued \in flushed
  /\ pc \in {"syncParked", "undoPark"} => Current(dir["bak"])
  /\ pc \in {"publish", "syncPublished"} /\ hadPrimary => Current(dir["bak"])
  /\ pc \in {"syncPublished", "dropMarker", "syncDropped"} => dir["primary"] = issued

-----------------------------------------------------------------------------
(* Type correctness                                                         *)

FsTypes == dir \in Directories /\ disks \in SUBSET Directories

\* Every directory operation of the protocol, performed or lost, leaves
\* directories: used by each action that touches the file system.
LEMMA FsType ==
  ASSUME FsTypes, NEW a \in Names, NEW b \in Names, NEW n \in 0..MaxVersions
  PROVE  /\ Rename(a, b) => FsTypes'
         /\ Remove(a) => FsTypes'
         /\ TryRemove(a) => FsTypes'
         /\ Create(a, n) => FsTypes'
         /\ SyncParentDir => FsTypes'
         /\ UNCHANGED fs => FsTypes'
<1>1. 0 \in 0..MaxVersions /\ Typed(Names, 0..MaxVersions)
  BY VersionsAssumption DEF FsTypes, Directories, Typed
<1>2. Typed(Names, 0..MaxVersions)' => FsTypes'
  BY DEF FsTypes, Directories, Typed
<1> QED BY <1>1, <1>2, DirectoriesStay

\* What each variable may hold.
LEMMA TypesCorrect == Spec => []Types
<1>1. Init => Types
  <2> SUFFICES ASSUME Init PROVE Types
    OBVIOUS
  <2>1. FsTypes
    BY VersionsAssumption DEF Init, FsTypes, Directories
  <2>2. /\ issued \in 0..MaxVersions /\ acked \in 0..issued /\ opened \in 0..MaxVersions
        /\ flushed \subseteq 0..MaxVersions
    BY VersionsAssumption DEF Init
  <2>3. pc \in Steps /\ primaryErr \in {"none", "missing", "unreadable"}
    BY DEF Init, Steps
  <2> QED
    BY <2>1, <2>2, <2>3 DEF Init, Types, FsTypes
<1>2. Types /\ [Next]_vars => Types'
  <2> SUFFICES ASSUME Types, [Next]_vars PROVE Types'
    OBVIOUS
  <2> USE VersionsAssumption DEF Goto, Fail, saves, command
  <2>f. ASSUME NEW a \in Names, NEW b \in Names, NEW n \in 0..MaxVersions
        PROVE  /\ Rename(a, b) => FsTypes'
               /\ Remove(a) => FsTypes'
               /\ TryRemove(a) => FsTypes'
               /\ Create(a, n) => FsTypes'
               /\ SyncParentDir => FsTypes'
               /\ UNCHANGED fs => FsTypes'
    BY FsType DEF Types, FsTypes
  <2> USE DEF Types, FsTypes, Names, Steps, LoadSteps, SaveSteps, FailSteps
<2>1. CASE OpenPrimary
  BY <2>1, <2>f DEF OpenPrimary, fs, Directories
<2>2. CASE StatMarker
  BY <2>2, <2>f DEF StatMarker
<2>3. CASE OpenBackup
  BY <2>3, <2>f DEF OpenBackup
<2>4. CASE RestoreBackup
  BY <2>4, <2>f DEF RestoreBackup, fs, Directories
<2>5. CASE SyncRestored
  BY <2>5, <2>f DEF SyncRestored
<2>6. CASE CleanMarker
  BY <2>6, <2>f DEF CleanMarker
<2>7. CASE CleanTmp
  BY <2>7, <2>f DEF CleanTmp
<2>8. CASE OpenFallback
  <3>1. opened' \in {0, dir["bak"]}
    BY <2>8 DEF OpenFallback
  <3>2. opened' \in 0..MaxVersions
    BY <3>1 DEF Directories
  <3> QED
    BY <2>8, <3>2 DEF OpenFallback, fs
<2>9. CASE EndCommand
  BY <2>9, <2>f DEF EndCommand
<2>10. CASE CreateMarker
  BY <2>10, <2>f DEF CreateMarker
<2>11. CASE SyncMarker
  BY <2>11, <2>f DEF SyncMarker
<2>12. CASE CreateTmp
  BY <2>12, <2>f DEF CreateTmp
<2>13. CASE WriteTmp
  BY <2>13, <2>f DEF WriteTmp, fs
<2>14. CASE ParkPrimary
  BY <2>14, <2>f DEF ParkPrimary
<2>15. CASE SyncParked
  BY <2>15, <2>f DEF SyncParked
<2>16. CASE Publish
  BY <2>16, <2>f DEF Publish
<2>17. CASE SyncPublished
  BY <2>17, <2>f DEF SyncPublished
<2>18. CASE DropMarker
  BY <2>18, <2>f DEF DropMarker
<2>19. CASE SyncDropped
  <3>1. FsTypes'
    BY <2>19, <2>f DEF SyncDropped, fs
  <3>2. /\ acked' \in {acked, issued} /\ opened' \in {opened, issued}
        /\ issued' = issued
    BY <2>19 DEF SyncDropped, fs
  <3>3. acked' \in 0..issued' /\ opened' \in 0..MaxVersions
    BY <3>2
  <3>4. pc' \in Steps
    BY <2>19 DEF SyncDropped
  <3> QED
    BY <2>19, <3>1, <3>3, <3>4 DEF SyncDropped
<2>20. CASE Unmark
  BY <2>20, <2>f DEF Unmark
<2>21. CASE UndoPark
  BY <2>21, <2>f DEF UndoPark
<2>22. CASE DiscardTmp
  BY <2>22, <2>f DEF DiscardTmp
<2>23. CASE AbortMarker
  BY <2>23, <2>f DEF AbortMarker
<2>24. CASE SyncAborted
  BY <2>24, <2>f DEF SyncAborted
  <2>b. ASSUME NEW p \in Passwords, BeginLoad(p) PROVE Types'
    BY <2>b DEF BeginLoad, fs
  <2>s. ASSUME NEW p \in Passwords, BeginSave(p) PROVE Types'
    BY <2>s DEF BeginSave, fs, Versions
  <2>c. CASE Crash
    BY <2>c DEF Crash, fs
  <2>p. CASE PowerLoss
    BY <2>p DEF PowerLoss, LosePower
  <2>v. CASE UNCHANGED vars
    BY <2>v DEF vars, fs
  <2> QED
    BY <2>1, <2>2, <2>3, <2>4, <2>5, <2>6, <2>7, <2>8, <2>9, <2>10, <2>11, <2>12, <2>13, <2>14, <2>15, <2>16, <2>17, <2>18, <2>19, <2>20, <2>21, <2>22, <2>23, <2>24, <2>b, <2>s, <2>c, <2>p, <2>v
       DEF Next, Load, Save, HandleFailure
<1> QED BY <1>1, <1>2, PTL DEF Spec

-----------------------------------------------------------------------------
(* Safety                                                                   *)

\* The operations on the marker and the temporary file do not touch the vault.
LEMMA SideFilesKept ==
  ASSUME FsTypes, dir \in disks, NEW a \in {"tmp", "marker"}, NEW n \in 0..MaxVersions
  PROVE  /\ Remove(a) => Kept
         /\ TryRemove(a) => Kept
         /\ Create(a, n) => Kept
         /\ SyncParentDir => Kept
         /\ UNCHANGED fs => Kept
<1>1. Typed(Names, 0..MaxVersions) /\ {"primary", "bak"} \subseteq Names
  BY DEF FsTypes, Directories, Typed, Names
<1>2. a \in Names \ {"primary", "bak"}
  BY DEF Names
<1> QED BY <1>1, <1>2, OthersKept

\* A step that keeps the vault files, and the history of saves, keeps what the
\* invariant says of them.
LEMMA KeptSuffices ==
  ASSUME FilesComplete, DisksCurrent, Kept, UNCHANGED saves
  PROVE  FilesComplete' /\ DisksCurrent'
<1>1. FilesComplete'
  BY DEF FilesComplete, Kept, saves
<1>2. ASSUME NEW d \in disks' PROVE Current(Logical(d))'
  <2>1. PICK e \in disks : \A a \in {"primary", "bak"} : d[a] = e[a]
    BY DEF Kept
  <2>2. Logical(d) = Logical(e)
    BY <2>1 DEF Logical
  <2> QED BY <2>2 DEF DisksCurrent, Current, Logical, saves, Trusted, OnePassword
<1> QED BY <1>1, <1>2 DEF DisksCurrent, Logical

\* The three renames of the protocol: whatever directory the rename reaches,
\* the vault in it becomes the renamed file or stays what it was.
LEMMA RenameSafe ==
  ASSUME FsTypes, FilesComplete, DisksCurrent, UNCHANGED saves,
         NEW a \in Names, NEW b \in Names,
         <<a, b>> \in {<<"primary", "bak">>, <<"bak", "primary">>, <<"tmp", "primary">>},
         Rename(a, b), dir[a] \in flushed, Current(dir[a])
  PROVE  /\ FilesComplete' /\ DisksCurrent'
         /\ dir'[b] = dir[a]
<1> DEFINE E == flushed \cup {0}
           G == {n \in E : Current(n)}
<1>1. Typed(Names, 0..MaxVersions) /\ {"primary", "bak", "tmp"} \subseteq Names
  BY DEF FsTypes, Directories, Typed, Names
<1>2. VaultsIn(E, G)
  BY <1>1 DEF FilesComplete, DisksCurrent, VaultsIn, Logical
<1>3. <<a, b>> \in VaultRenames /\ dir[a] \in E /\ dir[a] \in G
  BY DEF VaultRenames
<1>4. \A S, T : /\ 0 \in S /\ dir[a] \in S /\ dir[a] \in T /\ VaultsIn(S, T)
                => VaultsIn(S, T)' /\ dir'[b] = dir[a]
  BY <1>1, <1>3, RenameVaults
<1>5. E' = E /\ G' = G
  BY DEF Current, saves, Trusted, OnePassword
<1>6. VaultsIn(E, G)' /\ dir'[b] = dir[a]
  BY <1>2, <1>3, <1>4, <1>5 DEF VaultsIn
<1>7. FilesComplete'
  BY <1>6 DEF VaultsIn, FilesComplete, saves
<1>8. DisksCurrent'
  BY <1>6 DEF VaultsIn, DisksCurrent
<1> QED BY <1>6, <1>7, <1>8

\* What the proof of a step adds to the type invariant
StepInv == FilesComplete /\ DisksCurrent /\ LoadState /\ SaveState

\* When the primary is missing and the password of all saves opens no backup, no
\* save was ever acknowledged: the empty vault is then the right answer.
LEMMA NothingReadable ==
  ASSUME Opens, Types, FilesComplete, DisksCurrent,
         dir["primary"] = 0, ~Readable(dir["bak"], pw)
  PROVE  acked = 0
<1> SUFFICES ASSUME acked > 0 PROVE FALSE
  BY DEF Types
<1>1. dir["bak"] \in flushed
  BY DEF FilesComplete, DisksCurrent, Current, Logical
<1>2. sealedWith[dir["bak"]] = pw
  BY <1>1 DEF FilesComplete, Opens, AllSealedWith
<1> QED BY <1>1, <1>2 DEF Readable

\* What was promised can only be lost: by a save under another password.
LEMMA PromisesEnd ==
  ASSUME Types, [Next]_vars
  PROVE  /\ Opens => Trusted
         /\ Trusted' => Trusted
         /\ UNCHANGED pw => (Opens' => Opens)
<1>1. /\ issued' \in Nat /\ issued <= issued'
      /\ \A n \in 1..issued : sealedWith'[n] = sealedWith[n]
  <2>1. CASE UNCHANGED <<issued, sealedWith>>
    BY <2>1 DEF Types
  <2>2. ASSUME NEW p \in Passwords, BeginSave(p)
        PROVE  /\ issued' \in Nat /\ issued <= issued'
               /\ \A n \in 1..issued : sealedWith'[n] = sealedWith[n]
    BY <2>2 DEF BeginSave, Types, Versions
  <2>3. Next \/ UNCHANGED vars =>
          UNCHANGED <<issued, sealedWith>> \/ \E p \in Passwords : BeginSave(p)
    BY DEF Next, Load, Save, HandleFailure, vars, saves, BeginLoad, OpenPrimary, StatMarker,
           OpenBackup, RestoreBackup, SyncRestored, CleanMarker, CleanTmp, OpenFallback, EndCommand,
           CreateMarker, SyncMarker, CreateTmp, WriteTmp, ParkPrimary, SyncParked, Publish,
           SyncPublished, DropMarker, SyncDropped, Unmark, UndoPark, DiscardTmp, AbortMarker,
           SyncAborted, Crash, PowerLoss
  <2> QED BY <2>1, <2>2, <2>3
<1>2. \A n \in 1..issued : n \in 1..issued'
  BY <1>1 DEF Types
<1>3. OnePassword' => OnePassword
  BY <1>1, <1>2 DEF OnePassword
<1>4. UNCHANGED pw => (AllSealedWith(pw)' => AllSealedWith(pw))
  BY <1>1, <1>2 DEF AllSealedWith
<1>5. AllSealedWith(pw) => OnePassword
  BY DEF AllSealedWith, OnePassword
<1> QED BY <1>3, <1>4, <1>5 DEF Trusted, Opens, ReliableReads

\* Every step of the protocol keeps the inductive invariant: the renames by
\* RenameSafe, the steps around them by KeptSuffices.
LEMMA StepKeepsInvariant ==
  ASSUME Types, Types', StepInv, [Next]_vars
  PROVE  StepInv'
<1>p. /\ Opens => Trusted
      /\ Trusted' => Trusted
      /\ UNCHANGED pw => (Opens' => Opens)
  BY PromisesEnd
<1> USE <1>p DEF Goto, Fail, command, Steps, LoadSteps, SaveSteps, FailSteps
<1>k. ASSUME NEW a \in {"tmp", "marker"}
      PROVE  /\ Remove(a) => Kept
             /\ TryRemove(a) => Kept
             /\ Create(a, issued) => Kept
             /\ SyncParentDir => Kept
             /\ UNCHANGED fs => Kept
  BY SideFilesKept, VersionsAssumption DEF Types, FsTypes, StepInv, FilesComplete
<1>1. CASE OpenPrimary
  <2>1. Kept /\ UNCHANGED saves
    BY <1>1, <1>k DEF OpenPrimary, fs
  <2>2. FilesComplete' /\ DisksCurrent'
    BY <2>1, KeptSuffices DEF StepInv
  <2>3. CASE /\ Readable(dir["primary"], pw)
             /\ pc' = "cleanMarker"
             /\ opened' = dir["primary"]
    <3>1. Current(dir["primary"]) /\ dir["primary"] \in 1..issued
      BY <2>3 DEF StepInv, FilesComplete, DisksCurrent, Logical, Readable, Types
    <3>2. Opens' => opened' >= acked'
      BY <1>1, <2>1, <2>3, <3>1 DEF OpenPrimary, Current, saves, Types
    <3>3. LoadState' /\ SaveState'
      BY <2>3, <3>2 DEF LoadState, SaveState
    <3> QED BY <2>2, <3>3 DEF StepInv
  <2>4. CASE /\ ReliableReads => ~Readable(dir["primary"], pw)
             /\ pc' = "statMarker"
             /\ primaryErr' = IF dir["primary"] = 0 THEN "missing" ELSE "unreadable"
             /\ pw' = pw
    <3>1. LoadState'
      BY <2>1, <2>4 DEF LoadState, Kept, Readable, saves, ReliableReads
    <3>2. SaveState'
      BY <2>4 DEF SaveState
    <3> QED BY <2>2, <3>1, <3>2 DEF StepInv
  <2> QED BY <1>1, <2>3, <2>4 DEF OpenPrimary, ReadOutcomes, ReliableReads
<1>2. CASE StatMarker
  <2>1. Kept /\ UNCHANGED saves
    BY <1>2, <1>k DEF StatMarker, fs
  <2>2. FilesComplete' /\ DisksCurrent'
    BY <2>1, KeptSuffices DEF StepInv
  <2>3. LoadState'
    BY <1>2, <2>1 DEF StatMarker, StepInv, LoadState, Kept, Current, Readable, saves, FilesComplete
  <2>4. SaveState'
    BY <1>2, <2>1 DEF StatMarker, StepInv, SaveState, Kept, Current, saves
  <2> QED BY <2>2, <2>3, <2>4 DEF StepInv
<1>3. CASE OpenBackup
  <2>1. Kept /\ UNCHANGED saves
    BY <1>3, <1>k DEF OpenBackup, fs
  <2>2. FilesComplete' /\ DisksCurrent'
    BY <2>1, KeptSuffices DEF StepInv
  <2>3. CASE Readable(dir["bak"], pw) /\ pc' = "restoreBackup"
    <3>1. dir["bak"] \in 1..issued /\ dir["bak"] \in flushed /\ sealedWith[dir["bak"]] = pw
      BY <2>3 DEF StepInv, FilesComplete, Readable
    <3>2. Trusted => dir["primary"] = 0
      <4>1. SUFFICES ASSUME Trusted, dir["primary"] # 0 PROVE FALSE
        OBVIOUS
      <4>2. ~Readable(dir["primary"], pw)
        BY <1>3, <4>1 DEF OpenBackup, StepInv, LoadState, Trusted
      <4>3. dir["primary"] \in flushed /\ dir["primary"] \in 1..issued
        BY <4>1 DEF StepInv, FilesComplete
      <4> QED BY <3>1, <4>1, <4>2, <4>3 DEF Trusted, OnePassword, Readable
    <3>3. Current(dir["bak"])
      BY <3>1, <3>2 DEF StepInv, FilesComplete, DisksCurrent, Logical, Current
    <3>4. dir["bak"] # 0
      BY <3>1
    <3>5. Current(dir["bak"])'
      BY <2>1, <3>3 DEF Current, Kept, saves
    <3>6. LoadState'
      BY <2>1, <2>3, <3>2, <3>4, <3>5 DEF LoadState, Kept
    <3>7. SaveState'
      BY <2>3 DEF SaveState
    <3> QED BY <2>2, <3>6, <3>7 DEF StepInv
  <2>4. CASE /\ ReliableReads => ~Readable(dir["bak"], pw)
             /\ primaryErr = "missing"
             /\ pc' = "cleanMarker"
             /\ UNCHANGED command
    <3>1. dir["primary"] = 0
      BY <1>3, <2>4 DEF OpenBackup, StepInv, LoadState
    <3>2. Opens => acked = 0
      BY <2>4, <3>1, NothingReadable DEF StepInv, Opens
    <3>3. LoadState' /\ SaveState'
      BY <2>1, <2>4, <3>2 DEF LoadState, SaveState, saves, Types
    <3> QED BY <2>2, <3>3 DEF StepInv
  <2>5. CASE pc' = "idle"
    BY <2>2, <2>5 DEF StepInv, LoadState, SaveState
  <2> QED BY <1>3, <2>3, <2>4, <2>5 DEF OpenBackup, ReadOutcomes, ReliableReads
<1>4. CASE RestoreBackup
  <2>1. CASE UNCHANGED fs /\ pc' = "idle"
    <3>1. Kept /\ UNCHANGED saves
      BY <1>4, <2>1, <1>k DEF RestoreBackup
    <3>2. FilesComplete' /\ DisksCurrent'
      BY <3>1, KeptSuffices DEF StepInv
    <3> QED BY <2>1, <3>2 DEF StepInv, LoadState, SaveState
  <2>2. CASE Rename("bak", "primary") /\ pc' = "syncRestored" /\ opened' = dir["bak"]
    <3>1. UNCHANGED saves /\ dir["bak"] \in flushed /\ Current(dir["bak"])
      BY <1>4 DEF RestoreBackup, StepInv, FilesComplete, LoadState
    <3>2. FilesComplete' /\ DisksCurrent'
      BY <3>1, <2>2, RenameSafe DEF Types, FsTypes, StepInv, Names
    <3>3. Opens' => opened' >= acked'
      BY <1>4, <2>2, <3>1 DEF RestoreBackup, Current, saves, Types
    <3>4. LoadState' /\ SaveState'
      BY <2>2, <3>3 DEF LoadState, SaveState
    <3> QED BY <3>2, <3>4 DEF StepInv
  <2> QED BY <1>4, <2>1, <2>2 DEF RestoreBackup
<1>5. CASE SyncRestored
  <2>1. Kept /\ UNCHANGED saves
    BY <1>5, <1>k DEF SyncRestored, fs
  <2>2. FilesComplete' /\ DisksCurrent'
    BY <2>1, KeptSuffices DEF StepInv
  <2>3. LoadState'
    BY <1>5, <2>1 DEF SyncRestored, StepInv, LoadState, Kept, Current, Readable, saves, FilesComplete
  <2>4. SaveState'
    BY <1>5, <2>1 DEF SyncRestored, StepInv, SaveState, Kept, Current, saves
  <2> QED BY <2>2, <2>3, <2>4 DEF StepInv
<1>6. CASE CleanMarker
  <2>1. Kept /\ UNCHANGED saves
    BY <1>6, <1>k DEF CleanMarker, fs
  <2>2. FilesComplete' /\ DisksCurrent'
    BY <2>1, KeptSuffices DEF StepInv
  <2>3. LoadState'
    BY <1>6, <2>1 DEF CleanMarker, StepInv, LoadState, Kept, Current, Readable, saves, FilesComplete
  <2>4. SaveState'
    BY <1>6, <2>1 DEF CleanMarker, StepInv, SaveState, Kept, Current, saves
  <2> QED BY <2>2, <2>3, <2>4 DEF StepInv
<1>7. CASE CleanTmp
  <2>1. Kept /\ UNCHANGED saves
    BY <1>7, <1>k DEF CleanTmp, fs
  <2>2. FilesComplete' /\ DisksCurrent'
    BY <2>1, KeptSuffices DEF StepInv
  <2>3. LoadState'
    BY <1>7, <2>1 DEF CleanTmp, StepInv, LoadState, Kept, Current, Readable, saves, FilesComplete
  <2>4. SaveState'
    BY <1>7, <2>1 DEF CleanTmp, StepInv, SaveState, Kept, Current, saves
  <2> QED BY <2>2, <2>3, <2>4 DEF StepInv
<1>8. CASE OpenFallback
  <2>1. Kept /\ UNCHANGED saves
    BY <1>8, <1>k DEF OpenFallback, fs
  <2>2. FilesComplete' /\ DisksCurrent'
    BY <2>1, KeptSuffices DEF StepInv
  <2>3. dir["primary"] = 0
    BY <1>8 DEF OpenFallback, StepInv, LoadState
  <2>4. Opens => opened' >= acked
    <3>1. CASE Readable(dir["bak"], pw) /\ opened' = dir["bak"]
      <4>1. Current(dir["bak"]) /\ dir["bak"] \in Nat
        BY <2>3 DEF StepInv, FilesComplete, DisksCurrent, Logical, Types, Directories, Names
      <4> QED BY <3>1, <4>1 DEF Current, Types
    <3>2. CASE (ReliableReads => ~Readable(dir["bak"], pw)) /\ opened' = 0
      BY <3>2, <2>3, NothingReadable DEF StepInv, Opens
    <3> QED BY <1>8, <3>1, <3>2 DEF OpenFallback, ReadOutcomes, ReliableReads
  <2>5. pc' = "ready" /\ pw' = pw
    BY <1>8 DEF OpenFallback
  <2>6. LoadState' /\ SaveState'
    BY <2>1, <2>4, <2>5 DEF LoadState, SaveState, saves
  <2> QED BY <2>2, <2>6 DEF StepInv
<1>9. CASE EndCommand
  <2>1. Kept /\ UNCHANGED saves
    BY <1>9, <1>k DEF EndCommand, fs
  <2>2. FilesComplete' /\ DisksCurrent'
    BY <2>1, KeptSuffices DEF StepInv
  <2>3. LoadState'
    BY <1>9, <2>1 DEF EndCommand, StepInv, LoadState, Kept, Current, Readable, saves, FilesComplete
  <2>4. SaveState'
    BY <1>9, <2>1 DEF EndCommand, StepInv, SaveState, Kept, Current, saves
  <2> QED BY <2>2, <2>3, <2>4 DEF StepInv
<1>10. CASE CreateMarker
  <2>1. Kept /\ UNCHANGED saves
    BY <1>10, <1>k DEF CreateMarker, fs
  <2>2. FilesComplete' /\ DisksCurrent'
    BY <2>1, KeptSuffices DEF StepInv
  <2>3. LoadState'
    BY <1>10, <2>1 DEF CreateMarker, StepInv, LoadState, Kept, Current, Readable, saves, FilesComplete
  <2>4. SaveState'
    BY <1>10, <2>1 DEF CreateMarker, StepInv, SaveState, Kept, Current, saves
  <2> QED BY <2>2, <2>3, <2>4 DEF StepInv
<1>11. CASE SyncMarker
  <2>1. Kept /\ UNCHANGED saves
    BY <1>11, <1>k DEF SyncMarker, fs
  <2>2. FilesComplete' /\ DisksCurrent'
    BY <2>1, KeptSuffices DEF StepInv
  <2>3. LoadState'
    BY <1>11, <2>1 DEF SyncMarker, StepInv, LoadState, Kept, Current, Readable, saves, FilesComplete
  <2>4. SaveState'
    BY <1>11, <2>1 DEF SyncMarker, StepInv, SaveState, Kept, Current, saves
  <2> QED BY <2>2, <2>3, <2>4 DEF StepInv
<1>12. CASE CreateTmp
  <2>1. Kept /\ UNCHANGED saves
    BY <1>12, <1>k DEF CreateTmp, fs
  <2>2. FilesComplete' /\ DisksCurrent'
    BY <2>1, KeptSuffices DEF StepInv
  <2>3. LoadState'
    BY <1>12, <2>1 DEF CreateTmp, StepInv, LoadState, Kept, Current, Readable, saves, FilesComplete
  <2>4. SaveState'
    BY <1>12, <2>1 DEF CreateTmp, Create, Placed, StepInv, SaveState, saves, Types,
                       Directories, Names
  <2> QED BY <2>2, <2>3, <2>4 DEF StepInv
<1>13. CASE WriteTmp
  <2>1. flushed \subseteq flushed' /\ flushed' \subseteq 1..issued
    <3>1. issued \in 1..issued /\ flushed \subseteq 1..issued
      <4>1. pc = "writeTmp"
        BY <1>13 DEF WriteTmp
      <4>2. issued \in Nat /\ issued > 0
        BY <4>1 DEF StepInv, SaveState, Types
      <4> QED BY <4>2 DEF StepInv, FilesComplete
    <3>2. flushed' \in {flushed, flushed \cup {issued}}
      BY <1>13 DEF WriteTmp
    <3> QED BY <3>1, <3>2
  <2>2. FilesComplete'
    BY <1>13, <2>1 DEF WriteTmp, fs, StepInv, FilesComplete
  <2>3. DisksCurrent'
    BY <1>13, <2>1 DEF WriteTmp, fs, StepInv, DisksCurrent, Current, Logical
  <2>4. LoadState' /\ SaveState'
    BY <1>13 DEF WriteTmp, fs, StepInv, LoadState, SaveState
  <2> QED BY <2>2, <2>3, <2>4 DEF StepInv
<1>14. CASE ParkPrimary
  <2>1. CASE UNCHANGED fs /\ pc' \in {"publish", "discardTmp"} /\ (pc' = "publish" => ~hadPrimary')
    <3>1. Kept /\ UNCHANGED saves
      BY <1>14, <2>1, <1>k DEF ParkPrimary
    <3>2. FilesComplete' /\ DisksCurrent'
      BY <3>1, KeptSuffices DEF StepInv
    <3>3. LoadState' /\ SaveState'
      BY <1>14, <2>1, <3>1 DEF ParkPrimary, fs, StepInv, LoadState, SaveState, saves
    <3> QED BY <3>2, <3>3 DEF StepInv
  <2>2. CASE Rename("primary", "bak") /\ pc' = "syncParked"
    <3>1. UNCHANGED saves /\ dir["primary"] \in flushed /\ Current(dir["primary"])
      BY <1>14, <2>2
         DEF ParkPrimary, Rename, StepInv, FilesComplete, DisksCurrent, Logical
    <3>2. FilesComplete' /\ DisksCurrent' /\ dir'["bak"] = dir["primary"]
      BY <3>1, <2>2, RenameSafe DEF Types, FsTypes, StepInv, Names
    <3>3. Current(dir["bak"])'
      BY <3>1, <3>2 DEF Current, saves
    <3>4. dir'["tmp"] = dir["tmp"]
      BY <2>2 DEF Rename, Moved, Types, Directories, Names
    <3>5. LoadState' /\ SaveState'
      BY <1>14, <2>2, <3>1, <3>3, <3>4
         DEF ParkPrimary, StepInv, LoadState, SaveState, saves
    <3> QED BY <3>2, <3>5 DEF StepInv
  <2> QED BY <1>14, <2>1, <2>2 DEF ParkPrimary
<1>15. CASE SyncParked
  <2>1. Kept /\ UNCHANGED saves
    BY <1>15, <1>k DEF SyncParked, fs
  <2>2. FilesComplete' /\ DisksCurrent'
    BY <2>1, KeptSuffices DEF StepInv
  <2>3. LoadState'
    BY <1>15, <2>1 DEF SyncParked, StepInv, LoadState, Kept, Current, Readable, saves, FilesComplete
  <2>4. SaveState'
    BY <1>15, <2>1 DEF SyncParked, SyncParentDir, fs, StepInv, SaveState, Current, saves
  <2> QED BY <2>2, <2>3, <2>4 DEF StepInv
<1>16. CASE Publish
  <2>1. CASE UNCHANGED fs /\ pc' = IF hadPrimary THEN "undoPark" ELSE "discardTmp"
    <3>1. Kept /\ UNCHANGED saves
      BY <1>16, <2>1, <1>k DEF Publish
    <3>2. FilesComplete' /\ DisksCurrent'
      BY <3>1, KeptSuffices DEF StepInv
    <3>3. LoadState' /\ SaveState'
      BY <1>16, <2>1, <3>1
         DEF Publish, fs, StepInv, LoadState, SaveState, Current, saves
    <3> QED BY <3>2, <3>3 DEF StepInv
  <2>2. CASE Rename("tmp", "primary") /\ pc' = "syncPublished"
    <3>1. UNCHANGED saves /\ dir["tmp"] = issued /\ issued \in flushed /\ Current(issued)
      <4>1. dir["tmp"] = issued /\ issued \in flushed
        BY <1>16 DEF Publish, StepInv, SaveState
      <4>2. issued >= acked
        BY DEF Types
      <4> QED BY <1>16, <4>1, <4>2 DEF Publish, Current
    <3>2. FilesComplete' /\ DisksCurrent' /\ dir'["primary"] = issued
      BY <3>1, <2>2, RenameSafe DEF Types, FsTypes, StepInv, Names
    <3>3. hadPrimary => Current(dir'["bak"])
      BY <1>16, <2>2 DEF Publish, StepInv, SaveState, Rename, Moved, Types, Directories, Names
    <3>4. LoadState' /\ SaveState'
      BY <1>16, <2>2, <3>1, <3>2, <3>3
         DEF Publish, StepInv, LoadState, SaveState, Current, saves
    <3> QED BY <3>2, <3>4 DEF StepInv
  <2> QED BY <1>16, <2>1, <2>2 DEF Publish
<1>17. CASE SyncPublished
  <2>1. Kept /\ UNCHANGED saves
    BY <1>17, <1>k DEF SyncPublished, fs
  <2>2. FilesComplete' /\ DisksCurrent'
    BY <2>1, KeptSuffices DEF StepInv
  <2>3. LoadState'
    BY <1>17, <2>1 DEF SyncPublished, StepInv, LoadState, Kept, Current, Readable, saves, FilesComplete
  <2>4. SaveState'
    BY <1>17, <2>1 DEF SyncPublished, StepInv, SaveState, Kept, Current, saves
  <2> QED BY <2>2, <2>3, <2>4 DEF StepInv
<1>18. CASE DropMarker
  <2>1. Kept /\ UNCHANGED saves
    BY <1>18, <1>k DEF DropMarker, fs
  <2>2. FilesComplete' /\ DisksCurrent'
    BY <2>1, KeptSuffices DEF StepInv
  <2>3. LoadState'
    BY <1>18, <2>1 DEF DropMarker, StepInv, LoadState, Kept, Current, Readable, saves, FilesComplete
  <2>4. SaveState'
    BY <1>18, <2>1 DEF DropMarker, StepInv, SaveState, Kept, Current, saves
  <2> QED BY <2>2, <2>3, <2>4 DEF StepInv
<1>19. CASE SyncDropped
  <2>1. CASE UNCHANGED <<fs, acked, opened>> /\ pc' = "idle"
    <3>1. Kept /\ UNCHANGED saves
      BY <1>19, <2>1, <1>k DEF SyncDropped, saves, fs
    <3>2. FilesComplete' /\ DisksCurrent'
      BY <3>1, KeptSuffices DEF StepInv
    <3>3. LoadState' /\ SaveState'
      BY <1>19, <2>1 DEF SyncDropped, LoadState, SaveState, fs
    <3> QED BY <3>2, <3>3 DEF StepInv
  <2>2. CASE SyncParentDir /\ acked' = issued /\ opened' = issued /\ pc' = "ready"
    <3>1. issued > 0 /\ dir["primary"] = issued /\ issued \in flushed
      BY <1>19 DEF SyncDropped, StepInv, SaveState, SaveSteps
    <3>2. FilesComplete'
      BY <1>19, <2>2 DEF SyncDropped, SyncParentDir, StepInv, FilesComplete
    <3>3. DisksCurrent'
      <4>1. disks' = {dir} /\ dir' = dir /\ flushed' = flushed /\ acked' = issued
        BY <1>19, <2>2 DEF SyncDropped, SyncParentDir
      <4>2. Logical(dir) = issued
        BY <3>1 DEF Logical
      <4>3. \A d \in disks' : d = dir
        BY <4>1
      <4> QED BY <4>1, <4>2, <4>3, <3>1 DEF DisksCurrent, Current, Logical, Types
    <3>4. LoadState' /\ SaveState'
      BY <1>19, <2>2 DEF SyncDropped, LoadState, SaveState, Types
    <3> QED BY <3>2, <3>3, <3>4 DEF StepInv
  <2> QED BY <1>19, <2>1, <2>2 DEF SyncDropped
<1>20. CASE Unmark
  <2>1. Kept /\ UNCHANGED saves
    BY <1>20, <1>k DEF Unmark, fs
  <2>2. FilesComplete' /\ DisksCurrent'
    BY <2>1, KeptSuffices DEF StepInv
  <2>3. LoadState'
    BY <1>20, <2>1 DEF Unmark, StepInv, LoadState, Kept, Current, Readable, saves, FilesComplete
  <2>4. SaveState'
    BY <1>20, <2>1 DEF Unmark, StepInv, SaveState, Kept, Current, saves
  <2> QED BY <2>2, <2>3, <2>4 DEF StepInv
<1>21. CASE UndoPark
  <2>1. CASE UNCHANGED fs
    <3>1. Kept /\ UNCHANGED saves
      BY <1>21, <2>1, <1>k DEF UndoPark
    <3>2. FilesComplete' /\ DisksCurrent'
      BY <3>1, KeptSuffices DEF StepInv
    <3>3. LoadState'
      BY <1>21, <3>1 DEF UndoPark, StepInv, LoadState, Kept, Current, Readable, saves
    <3>4. SaveState'
      BY <1>21, <3>1 DEF UndoPark, StepInv, SaveState, Kept, Current, saves
    <3> QED BY <3>2, <3>3, <3>4 DEF StepInv
  <2>2. CASE Rename("bak", "primary")
    <3>1. UNCHANGED saves /\ dir["bak"] \in flushed /\ Current(dir["bak"])
      BY <1>21, <2>2
         DEF UndoPark, Rename, StepInv, FilesComplete, DisksCurrent, LoadState, SaveState, Current, Logical,
             saves
    <3>2. FilesComplete' /\ DisksCurrent' /\ dir'["primary"] = dir["bak"]
      BY <3>1, <2>2, RenameSafe DEF Types, FsTypes, StepInv, Names
    <3>3. LoadState'
      BY <1>21, <3>1, <3>2 DEF UndoPark, StepInv, LoadState, Current, Readable, saves
    <3>4. SaveState'
      BY <1>21, <3>1, <3>2, <2>2 DEF UndoPark, StepInv, SaveState, Current, saves, Rename, Moved, Types,
                                   Directories, Names
    <3> QED BY <3>2, <3>3, <3>4 DEF StepInv
  <2> QED BY <1>21, <2>1, <2>2 DEF UndoPark
<1>22. CASE DiscardTmp
  <2>1. Kept /\ UNCHANGED saves
    BY <1>22, <1>k DEF DiscardTmp, fs
  <2>2. FilesComplete' /\ DisksCurrent'
    BY <2>1, KeptSuffices DEF StepInv
  <2>3. LoadState'
    BY <1>22, <2>1 DEF DiscardTmp, StepInv, LoadState, Kept, Current, Readable, saves, FilesComplete
  <2>4. SaveState'
    BY <1>22, <2>1 DEF DiscardTmp, StepInv, SaveState, Kept, Current, saves
  <2> QED BY <2>2, <2>3, <2>4 DEF StepInv
<1>23. CASE AbortMarker
  <2>1. Kept /\ UNCHANGED saves
    BY <1>23, <1>k DEF AbortMarker, fs
  <2>2. FilesComplete' /\ DisksCurrent'
    BY <2>1, KeptSuffices DEF StepInv
  <2>3. LoadState'
    BY <1>23, <2>1 DEF AbortMarker, StepInv, LoadState, Kept, Current, Readable, saves, FilesComplete
  <2>4. SaveState'
    BY <1>23, <2>1 DEF AbortMarker, StepInv, SaveState, Kept, Current, saves
  <2> QED BY <2>2, <2>3, <2>4 DEF StepInv
<1>24. CASE SyncAborted
  <2>1. Kept /\ UNCHANGED saves
    BY <1>24, <1>k DEF SyncAborted, fs
  <2>2. FilesComplete' /\ DisksCurrent'
    BY <2>1, KeptSuffices DEF StepInv
  <2>3. LoadState'
    BY <1>24, <2>1 DEF SyncAborted, StepInv, LoadState, Kept, Current, Readable, saves, FilesComplete
  <2>4. SaveState'
    BY <1>24, <2>1 DEF SyncAborted, StepInv, SaveState, Kept, Current, saves
  <2> QED BY <2>2, <2>3, <2>4 DEF StepInv
<1>25. CASE Crash
  <2>1. Kept /\ UNCHANGED saves
    BY <1>25, <1>k DEF Crash, fs
  <2>2. FilesComplete' /\ DisksCurrent'
    BY <2>1, KeptSuffices DEF StepInv
  <2>3. LoadState'
    BY <1>25, <2>1 DEF Crash, StepInv, LoadState, Kept, Current, Readable, saves, FilesComplete
  <2>4. SaveState'
    BY <1>25, <2>1 DEF Crash, StepInv, SaveState, Kept, Current, saves
  <2> QED BY <2>2, <2>3, <2>4 DEF StepInv
<1>26. CASE PowerLoss
  <2>1. FilesComplete' /\ DisksCurrent'
    BY <1>26 DEF PowerLoss, LosePower, saves, StepInv, FilesComplete, DisksCurrent, Current, Logical
  <2>2. LoadState' /\ SaveState'
    BY <1>26 DEF PowerLoss, LosePower, LoadState, SaveState
  <2> QED BY <2>1, <2>2 DEF StepInv
<1>b. ASSUME NEW p \in Passwords, BeginLoad(p) PROVE StepInv'
  <2>1. Kept /\ UNCHANGED saves
    BY <1>b, <1>k DEF BeginLoad, fs
  <2>2. FilesComplete' /\ DisksCurrent'
    BY <2>1, KeptSuffices DEF StepInv
  <2>3. LoadState' /\ SaveState'
    BY <1>b DEF BeginLoad, LoadState, SaveState
  <2> QED BY <2>2, <2>3 DEF StepInv
<1>s. ASSUME NEW p \in Passwords, BeginSave(p) PROVE StepInv'
  <2>1. FilesComplete'
    BY <1>s DEF BeginSave, fs, StepInv, FilesComplete, Types, Versions
  <2>2. DisksCurrent'
    BY <1>s DEF BeginSave, fs, StepInv, DisksCurrent, Current, Logical
  <2>3. LoadState' /\ SaveState'
    BY <1>s DEF BeginSave, LoadState, SaveState, Types
  <2> QED BY <2>1, <2>2, <2>3 DEF StepInv
<1>v. CASE UNCHANGED vars
  <2>1. Kept /\ UNCHANGED saves
    BY <1>v, <1>k DEF vars, fs
  <2>2. FilesComplete' /\ DisksCurrent'
    BY <2>1, KeptSuffices DEF StepInv
  <2>3. LoadState' /\ SaveState'
    BY <1>v DEF vars, fs, saves, StepInv, LoadState, SaveState, Current, Readable
  <2> QED BY <2>2, <2>3 DEF StepInv
<1> QED
  BY <1>1, <1>2, <1>3, <1>4, <1>5, <1>6, <1>7, <1>8, <1>9, <1>10, <1>11, <1>12, <1>13, <1>14, <1>15, <1>16, <1>17, <1>18, <1>19, <1>20, <1>21, <1>22, <1>23, <1>24, <1>25, <1>26,
     <1>b, <1>s, <1>v
     DEF Next, Load, Save, HandleFailure

\* The inductive invariant holds in every state.
LEMMA Invariance == Spec => [](Types /\ StepInv)
<1>1. Init => StepInv
  <2> SUFFICES ASSUME Init PROVE StepInv
    OBVIOUS
  <2>1. FilesComplete
    BY DEF Init, FilesComplete, Names
  <2>2. DisksCurrent
    BY DEF Init, DisksCurrent, Current
  <2>3. LoadState /\ SaveState
    BY DEF Init, LoadState, SaveState, SaveSteps
  <2> QED BY <2>1, <2>2, <2>3 DEF StepInv
<1>2. Types /\ Types' /\ StepInv /\ [Next]_vars => StepInv'
  BY StepKeepsInvariant
<1> QED BY TypesCorrect, <1>1, <1>2, PTL DEF Spec

\* The type invariant: what each variable may hold, and that no incomplete file is
\* ever called vault.db or vault.db.bak, whatever fails, crashes or loses power
\* (SaveFileAtomic renames only what it has written and synced).
THEOREM TypeCorrect == Spec => []TypeOK
<1>1. StepInv => WholeFiles
  BY DEF StepInv, FilesComplete, WholeFiles
<1> QED BY Invariance, <1>1, PTL DEF TypeOK

\* With reliable reads, whatever crashes, power losses and failing writes interrupt
\* saves and recoveries, the disk holds a complete vault once one was acknowledged,
\* and the last acknowledged one or a later one while all saves are made under one
\* password (SaveFileAtomic).
THEOREM SaveIsDurable ==
  ASSUME ReliableReads
  PROVE  Spec => []AckedSurvives
<1>1. StepInv => AckedSurvives
  BY DEF StepInv, DisksCurrent, Current, AckedSurvives, Trusted
<1> QED BY Invariance, <1>1, PTL

\* With reliable reads, a command given the password of all saves so far never works
\* on an older vault, nor on a new empty one (LoadBytes, recoverInterruptedSave).
THEOREM OpensAreCurrent ==
  ASSUME ReliableReads
  PROVE  Spec => []NoStaleOpen
<1>1. StepInv => NoStaleOpen
  BY DEF StepInv, LoadState, NoStaleOpen, Opens
<1> QED BY Invariance, <1>1, PTL

-----------------------------------------------------------------------------
(* Refinement of the durable register                                       *)

\* What the register holds is between the last acknowledged write and the last
\* one attempted.
StoredInRange == Trusted => Logical(dir) \in acked..issued

\* The file that counts is never behind an acknowledged save.
LEMMA InRange ==
  ASSUME Types, StepInv
  PROVE  StoredInRange
<1>1. Logical(dir) # 0 => Logical(dir) \in 1..issued
  BY DEF StepInv, FilesComplete, Logical
<1>2. Current(Logical(dir))
  BY DEF StepInv, FilesComplete, DisksCurrent
<1> QED BY <1>1, <1>2 DEF Current, Types, StoredInRange

\* Every step of the protocol, up to a save under another password, is a step of
\* the register or leaves it alone.
LEMMA StepRefines ==
  ASSUME Types, StepInv, StoredInRange', Trusted', [Next]_vars
  PROVE  [Register!Next]_Register!vars
<1>p. Trusted
  BY PromisesEnd
<1> USE <1>p DEF Register!vars, Register!Next, Goto, Fail, command, saves
\* Whatever a step does to the directory alone, it settles the write in doubt
<1>1. ASSUME UNCHANGED <<issued, acked, opened>>
      PROVE  [Register!Next]_Register!vars
  BY <1>1 DEF StoredInRange, Register!Settle
\* The register's reads: of nothing, of the primary, and of the backup in its place
<1>2. ASSUME NEW p \in Passwords, BeginLoad(p)
      PROVE  Register!Read
  BY <1>2 DEF BeginLoad, Register!Read, fs, Logical
<1>3. CASE OpenPrimary
  <2>1. CASE Readable(dir["primary"], pw) /\ opened' = dir["primary"]
    <3>1. dir["primary"] # 0
      BY <2>1 DEF Readable, StepInv, FilesComplete
    <3> QED BY <1>3, <2>1, <3>1 DEF OpenPrimary, Register!Read, fs, Logical
  <2>2. CASE UNCHANGED opened
    BY <1>1, <1>3, <2>2 DEF OpenPrimary
  <2> QED BY <1>3, <2>1, <2>2 DEF OpenPrimary
<1>4. CASE RestoreBackup
  <2>1. CASE Rename("bak", "primary") /\ opened' = dir["bak"]
    <3>1. dir["primary"] = 0 /\ dir["bak"] # 0
      BY <1>4 DEF RestoreBackup, StepInv, LoadState
    <3>2. dir'["primary"] = dir["bak"]
      BY <2>1 DEF Rename, Moved, Types, Directories, Names
    <3>3. Logical(dir) = dir["bak"] /\ Logical(dir)' = Logical(dir)
      BY <3>1, <3>2 DEF Logical
    <3> QED BY <1>4, <2>1, <3>3 DEF RestoreBackup, Register!Read
  <2>2. CASE UNCHANGED <<fs, opened>>
    BY <1>1, <1>4, <2>2 DEF RestoreBackup
  <2> QED BY <1>4, <2>1, <2>2 DEF RestoreBackup
<1>5. CASE OpenFallback
  <2>1. dir["primary"] = 0
    BY <1>5 DEF OpenFallback, StepInv, LoadState
  <2>2. opened' \in {0, dir["bak"]}
    BY <1>5 DEF OpenFallback
  <2> QED BY <1>5, <2>1, <2>2 DEF OpenFallback, Register!Read, fs, Logical
\* The register's writes
<1>6. ASSUME NEW p \in Passwords, BeginSave(p)
      PROVE  Register!StartWrite
  BY <1>6 DEF BeginSave, Register!StartWrite, fs, Logical
<1>7. CASE SyncDropped
  <2>1. CASE SyncParentDir /\ acked' = issued /\ opened' = issued
    <3>1. issued > 0 /\ dir["primary"] = issued
      BY <1>7 DEF SyncDropped, StepInv, SaveState, SaveSteps
    <3>2. Logical(dir) = issued /\ Logical(dir)' = issued
      BY <2>1, <3>1 DEF Logical, SyncParentDir, Types
    <3> QED BY <1>7, <2>1, <3>2 DEF SyncDropped, Register!Acknowledge
  <2>2. CASE UNCHANGED <<fs, acked, opened>>
    BY <1>1, <1>7, <2>2 DEF SyncDropped
  <2> QED BY <1>7, <2>1, <2>2 DEF SyncDropped
\* The other steps leave the answer and the history of writes alone
<1>8. CASE StatMarker \/ OpenBackup \/ SyncRestored \/ CleanMarker \/ CleanTmp \/ EndCommand
  BY <1>1, <1>8 DEF StatMarker, OpenBackup, SyncRestored, CleanMarker, CleanTmp, EndCommand
<1>9. CASE CreateMarker \/ SyncMarker \/ CreateTmp \/ WriteTmp
  BY <1>1, <1>9 DEF CreateMarker, SyncMarker, CreateTmp, WriteTmp
<1>10. CASE ParkPrimary \/ SyncParked \/ Publish \/ SyncPublished \/ DropMarker
  BY <1>1, <1>10 DEF ParkPrimary, SyncParked, Publish, SyncPublished, DropMarker
<1>11. CASE HandleFailure
  BY <1>1, <1>11 DEF HandleFailure, Unmark, UndoPark, DiscardTmp, AbortMarker, SyncAborted
<1>12. CASE Crash \/ PowerLoss \/ UNCHANGED vars
  BY <1>1, <1>12 DEF Crash, PowerLoss, vars
<1> QED
  BY <1>2, <1>3, <1>4, <1>5, <1>6, <1>7, <1>8, <1>9, <1>10, <1>11, <1>12 DEF Next, Load, Save

\* With reliable reads the file protocol implements a durable register while all
\* saves are made under one password, whatever crashes, power losses and failing
\* writes there are: its commit point is the rename of the temporary file, and
\* everything between two acknowledged saves (park, undo, recovery) looks like a
\* write still in doubt.
THEOREM Implements ==
  ASSUME ReliableReads
  PROVE  Spec => IsRegister
<1>1. Init => Register!Init
  BY DEF Init, Register!Init, Logical, Names
<1>2. Types /\ StepInv => StoredInRange
  BY InRange
<1>3. Types /\ StepInv /\ StoredInRange' /\ [Next]_vars
        => [OnePassword' => Register!Next]_(Register!vars)
  BY StepRefines DEF Trusted, ReliableReads
<1> QED BY Invariance, <1>1, <1>2, <1>3, PTL DEF Spec, IsRegister

-----------------------------------------------------------------------------
(* The clean-up: after an open, or an acknowledged save, the next save can  *)
(* go ahead.  The inductive invariant is what is out of the way at each     *)
(* step.                                                                    *)

\* A load that found no primary goes on without one until it restores the backup
MissingKnown ==
  /\ pc \in {"statMarker", "openBackup", "openFallback"} /\ primaryErr = "missing" =>
       dir["primary"] = 0
  /\ pc = "openFallback" => primaryErr = "missing"

\* The clean-up of a load, unless a removal has failed
LoadCleansUp ==
  ~stuck => /\ pc = "cleanTmp" => dir["marker"] = 0
            /\ pc = "ready" /\ dir["primary"] # 0 => dir["marker"] = 0 /\ dir["tmp"] = 0

\* The last steps of a save: its temporary file is the primary, its marker is gone
SaveCleansUp ==
  /\ pc \in {"syncPublished", "dropMarker", "syncDropped"} => dir["tmp"] = 0
  /\ pc = "syncDropped" => dir["marker"] = 0

CleanInv == MissingKnown /\ LoadCleansUp /\ SaveCleansUp

-----------------------------------------------------------------------------
\* stuck only watches: the specification with it is the specification.
LEMMA Watches == FaultySpec => Spec
<1>1. FaultyInit => Init
  BY DEF FaultyInit
<1>2. [FaultyNext]_<<vars, stuck>> => [Next]_vars
  BY DEF FaultyNext
<1> QED BY <1>1, <1>2, PTL DEF FaultySpec, Spec

\* Every step keeps the clean-up invariant: only the clean-up of a load, the last
\* rename and the removal of the marker have something to show.
LEMMA StepCleansUp ==
  ASSUME Types, CleanInv, [FaultyNext]_<<vars, stuck>>
  PROVE  CleanInv'
<1> USE DEF Goto, Fail, command, CleanInv, MissingKnown, LoadCleansUp, SaveCleansUp
<1>t. dir \in [Names -> 0..MaxVersions]
  BY DEF Types, Directories
<1>1. CASE UNCHANGED <<vars, stuck>>
  BY <1>1 DEF vars, fs
<1>2. ASSUME FaultyNext PROVE CleanInv'
  <2> USE <1>2, <1>t DEF FaultyNext
  <2>1. CASE OpenPrimary
    BY <2>1 DEF OpenPrimary, fs
  <2>2. CASE StatMarker
    BY <2>2 DEF StatMarker, fs
  <2>3. CASE OpenBackup
    BY <2>3 DEF OpenBackup, fs
  <2>4. CASE RestoreBackup \/ SyncRestored
    BY <2>4 DEF RestoreBackup, SyncRestored
  <2>5. CASE CleanMarker
    BY <2>5 DEF CleanMarker
  <2>6. CASE CleanTmp
    <3>1. dir'["marker"] = dir["marker"] /\ dir'["primary"] = dir["primary"]
      BY <2>6 DEF CleanTmp, TryRemove, Remove, Removed, fs, Names
    <3> QED BY <2>6, <3>1 DEF CleanTmp
  <2>7. CASE OpenFallback
    BY <2>7 DEF OpenFallback, fs
  <2>8. CASE CreateMarker \/ SyncMarker \/ CreateTmp \/ WriteTmp \/ ParkPrimary \/ SyncParked
    BY <2>8 DEF CreateMarker, SyncMarker, CreateTmp, WriteTmp, ParkPrimary, SyncParked
  <2>9. CASE Publish
    <3>1. CASE Rename("tmp", "primary") /\ pc' = "syncPublished"
      <4>1. dir'["tmp"] = 0
        BY <3>1 DEF Rename, Moved, Names
      <4> QED BY <3>1, <4>1
    <3>2. CASE pc' \in {"undoPark", "discardTmp"}
      BY <3>2
    <3> QED BY <2>9, <3>1, <3>2 DEF Publish
  <2>10. CASE SyncPublished
    BY <2>10 DEF SyncPublished, SyncParentDir, fs
  <2>11. CASE DropMarker
    <3>1. CASE Remove("marker") /\ pc' = "syncDropped"
      <4>1. dir'["marker"] = 0 /\ dir'["tmp"] = dir["tmp"]
        BY <3>1 DEF Remove, Removed, Names
      <4> QED BY <2>11, <3>1, <4>1 DEF DropMarker
    <3>2. CASE pc' = "idle"
      BY <3>2
    <3> QED BY <2>11, <3>1, <3>2 DEF DropMarker
  <2>12. CASE SyncDropped
    BY <2>12 DEF SyncDropped, SyncParentDir
  <2>13. CASE EndCommand \/ HandleFailure \/ Crash \/ PowerLoss
    BY <2>13 DEF EndCommand, HandleFailure, Unmark, UndoPark, DiscardTmp, AbortMarker, SyncAborted,
                 Crash, PowerLoss
  <2>14. ASSUME NEW p \in Passwords, BeginLoad(p) PROVE CleanInv'
    BY <2>14 DEF BeginLoad
  <2>15. ASSUME NEW p \in Passwords, BeginSave(p) PROVE CleanInv'
    BY <2>15 DEF BeginSave
  <2> QED
    BY <2>1, <2>2, <2>3, <2>4, <2>5, <2>6, <2>7, <2>8, <2>9, <2>10, <2>11, <2>12, <2>13, <2>14,
       <2>15 DEF Next, Load, Save
<1> QED BY <1>1, <1>2

\* After an open of an existing vault, or an acknowledged save, neither the marker
\* nor the temporary file of an interrupted save is in the way of the next
\* SaveFileAtomic, whatever faults there were, unless a removal of that very
\* open's cleanupInterruptedSaveMarker failed.
THEOREM OpensAreSavable == FaultySpec => []SavableAfterOpen
<1>1. FaultyInit => CleanInv
  BY DEF FaultyInit, Init, CleanInv, MissingKnown, LoadCleansUp, SaveCleansUp
<1>2. Types /\ CleanInv /\ [FaultyNext]_<<vars, stuck>> => CleanInv'
  BY StepCleansUp
<1>3. CleanInv => SavableAfterOpen
  BY DEF CleanInv, LoadCleansUp, SavableAfterOpen
<1> QED BY Watches, TypesCorrect, <1>1, <1>2, <1>3, PTL DEF FaultySpec
=============================================================================
