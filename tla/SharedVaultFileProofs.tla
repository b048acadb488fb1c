----------------------- MODULE SharedVaultFileProofs -----------------------
(***************************************************************************)
(* Proofs about the file protocol of the shared token vault, for any       *)
(* number of saves and any mix of crashes, failing writes and power losses. *)
(***************************************************************************)
EXTENDS SharedVaultFile, FileSystemProofs

(* The inductive invariant.                                                *)

\* The files that may be called vault or backup, and those that may be the vault
Complete == flushed \cup {0}
Current  == IF acked = 0 THEN Complete ELSE {n \in flushed : n >= acked}

\* What a save in progress has put in place
SaveState ==
  /\ pc \in SaveSteps => issued > 0
  /\ pc \in {"writeTmp", "parkPrimary", "syncParked", "publish"} => dir["tmp"] = issued
  /\ pc \in {"parkPrimary", "syncParked", "publish", "syncPublished", "secure"} =>
       issued \in flushed
  /\ pc \in {"syncPublished", "secure"} => dir["primary"] = issued
  /\ pc \in {"secure", "dropPrimary"} => disks = {dir}
  /\ pc \in {"syncParked", "undoPark", "dropPrimary", "restoreBackup"} =>
       dir["bak"] \in Current
  /\ pc \in {"publish", "syncPublished", "secure"} /\ hadPrimary => dir["bak"] \in Current

StepInv ==
  /\ flushed \subseteq 1..issued
  /\ VaultsIn(Complete, Current)
  /\ SaveState

-----------------------------------------------------------------------------
(* Type correctness                                                         *)

\* Every variable of the shared vault's file protocol has its type.
LEMMA TypesCorrect == Spec => []Types
<1> USE VersionsAssumption
<1>1. Init => Types
  <2> SUFFICES ASSUME Init PROVE Types
    OBVIOUS
  <2>1. dir \in Directories /\ disks \subseteq Directories
    BY DEF Init, Directories
  <2>2. flushed \subseteq 0..MaxVersions /\ issued \in 0..MaxVersions /\ acked \in 0..issued
    BY DEF Init
  <2>3. base \in 0..MaxVersions
    BY DEF Init
  <2> QED BY <2>1, <2>2, <2>3 DEF Init, Types, Steps
<1>2. Types /\ [Next]_vars => Types'
  <2> SUFFICES ASSUME Types, [Next]_vars PROVE Types'
    OBVIOUS
  <2> DEFINE FsOK == dir \in Directories /\ disks \subseteq Directories
  <2>1. Typed(Names, 0..MaxVersions) /\ (Typed(Names, 0..MaxVersions)' => FsOK')
    BY DEF Types, Typed, Directories
  <2>2. ASSUME NEW a \in Names, NEW b \in Names, NEW n \in 0..MaxVersions
        PROVE  /\ Rename(a, b) => FsOK'
               /\ TryRemove(a) => FsOK'
               /\ Create(a, n) => FsOK'
               /\ SyncParentDir => FsOK'
               /\ LosePower => FsOK'
               /\ UNCHANGED fs => FsOK'
    <3>1. 0 \in 0..MaxVersions
      OBVIOUS
    <3> HIDE DEF FsOK
    <3> QED BY <2>1, <3>1, DirectoriesStay
  <2>3. "primary" \in Names /\ "bak" \in Names /\ "tmp" \in Names /\ issued \in 0..MaxVersions
    BY DEF Names, Types
  <2> USE DEF Types, Goto, Fails, saves, command, Steps, SaveSteps, FailSteps
  <2>4. CASE Load
    <3>1. dir["primary"] \in 0..MaxVersions
      BY <2>3 DEF Directories
    <3> QED BY <2>2, <2>3, <2>4, <3>1 DEF Load
  <2>12. CASE EndCommand
    BY <2>2, <2>3, <2>12 DEF EndCommand
  <2>13. CASE BeginSave
    <3>1. issued' \in 0..MaxVersions /\ acked' \in 0..issued'
      BY <2>13 DEF BeginSave
    <3>2. UNCHANGED fs
      BY <2>13 DEF BeginSave
    <3> QED BY <2>2, <2>3, <2>13, <3>1, <3>2 DEF BeginSave
  <2>5. CASE CreateTmp \/ WriteTmp
    BY <2>2, <2>3, <2>5 DEF CreateTmp, WriteTmp
  <2>6. CASE ParkPrimary \/ SyncParked
    BY <2>2, <2>3, <2>6 DEF ParkPrimary, SyncParked
  <2>7. CASE Publish \/ SyncPublished
    BY <2>2, <2>3, <2>7 DEF Publish, SyncPublished, Undo
  <2>8. CASE Secure
    BY <2>2, <2>3, <2>8 DEF Secure
  <2>9. CASE HandleFailure
    BY <2>2, <2>3, <2>9 DEF HandleFailure, UndoPark, DiscardTmp, DropPrimary, RestoreBackup
  <2>10. CASE Crash \/ PowerLoss
    BY <2>2, <2>3, <2>10 DEF Crash, PowerLoss, fs
  <2>11. CASE UNCHANGED vars
    BY <2>11 DEF vars, fs
  <2> QED BY <2>4, <2>5, <2>6, <2>7, <2>8, <2>9, <2>10, <2>11, <2>12, <2>13 DEF Next, Save
<1> QED BY <1>1, <1>2, PTL DEF Spec

-----------------------------------------------------------------------------
(* Durability                                                               *)

\* A step that keeps the vault files and the history of saves keeps what the
\* invariant says of both.
LEMMA QuietStep ==
  ASSUME StepInv, Kept, UNCHANGED saves
  PROVE  /\ flushed' \subseteq 1..issued'
         /\ VaultsIn(Complete, Current)'
         /\ dir'["primary"] = dir["primary"] /\ dir'["bak"] = dir["bak"]
         /\ Current' = Current
<1>1. UNCHANGED <<Complete, Current, flushed, issued>>
  BY DEF saves, Complete, Current
<1>2. \A E, G : VaultsIn(E, G) => VaultsIn(E, G)'
  BY KeptVaults
<1> QED BY <1>1, <1>2 DEF StepInv, Kept, VaultsIn

\* A rename of a current file keeps what the invariant says of the vault files.
LEMMA RenameStep ==
  ASSUME Types, StepInv, UNCHANGED saves, NEW a \in Names, NEW b \in Names,
         <<a, b>> \in VaultRenames, Rename(a, b), dir[a] \in Current
  PROVE  /\ flushed' \subseteq 1..issued'
         /\ VaultsIn(Complete, Current)'
         /\ dir'[b] = dir[a]
         /\ \A c \in Names \ {a, b} : dir'[c] = dir[c]
         /\ Current' = Current
<1>1. UNCHANGED <<Complete, Current, flushed, issued>>
  BY DEF saves, Complete, Current
<1>2. Typed(Names, 0..MaxVersions) /\ {"primary", "bak", "tmp"} \subseteq Names
  BY DEF Types, Typed, Directories, Names
<1>3. 0 \in Complete /\ dir[a] \in Complete
  BY DEF Complete, Current
<1>4. \A E, G : /\ 0 \in E /\ dir[a] \in E /\ dir[a] \in G /\ VaultsIn(E, G)
                => VaultsIn(E, G)' /\ dir'[b] = dir[a]
  BY <1>2, RenameVaults
<1>5. \A c \in Names \ {a, b} : dir'[c] = dir[c]
  BY DEF Rename, Moved, Types, Directories
<1> QED BY <1>1, <1>3, <1>4, <1>5 DEF StepInv, VaultsIn

\* Every step keeps the inductive invariant: the renames by RenameStep, the rest,
\* except for a failed chmod's removal of the primary, by QuietStep.
LEMMA StepKeepsInvariant ==
  ASSUME Types, StepInv, [Next]_vars
  PROVE  StepInv'
<1> USE DEF Goto, Fails, command, SaveSteps, FailSteps
<1>k. ASSUME NEW n PROVE /\ TryRemove("tmp") => Kept
                         /\ Create("tmp", n) => Kept
                         /\ SyncParentDir => Kept
                         /\ UNCHANGED fs => Kept
  <2>1. Typed(Names, 0..MaxVersions) /\ {"primary", "bak"} \subseteq Names
    BY DEF Types, Typed, Directories, Names
  <2>2. "tmp" \in Names \ {"primary", "bak"} /\ dir \in disks
    BY DEF Names, StepInv, VaultsIn
  <2> QED BY <2>1, <2>2, OthersKept
<1>q. ASSUME Kept, UNCHANGED saves, SaveState' PROVE StepInv'
  BY <1>q, QuietStep DEF StepInv
<1>1. CASE Load \/ EndCommand \/ Crash \/ DiscardTmp
  <2>1. Kept /\ UNCHANGED saves
    BY <1>1, <1>k DEF Load, EndCommand, Crash, DiscardTmp
  <2>2. SaveState'
    BY <1>1 DEF Load, EndCommand, Crash, DiscardTmp, SaveState
  <2> QED BY <1>q, <2>1, <2>2
<1>2. CASE BeginSave
  <2>1. flushed' \subseteq 1..issued' /\ issued' > 0
    BY <1>2 DEF BeginSave, StepInv, Types
  <2>2. VaultsIn(Complete, Current)'
    BY <1>2 DEF BeginSave, StepInv, VaultsIn, Complete, Current, Logical, fs
  <2>3. SaveState'
    BY <1>2, <2>1 DEF BeginSave, SaveState
  <2> QED BY <2>1, <2>2, <2>3 DEF StepInv
<1>3. CASE CreateTmp
  <2>1. Kept /\ UNCHANGED saves
    BY <1>3, <1>k DEF CreateTmp
  <2>2. SaveState'
    BY <1>3 DEF CreateTmp, Create, Placed, StepInv, SaveState, saves, Types, Directories, Names
  <2> QED BY <1>q, <2>1, <2>2
<1>4. CASE WriteTmp
  <2>1. flushed \subseteq flushed' /\ flushed' \subseteq 1..issued'
    <3>1. issued > 0 /\ issued \in Nat
      BY <1>4 DEF WriteTmp, StepInv, SaveState, Types
    <3>2. issued' = issued /\ flushed' \in {flushed, flushed \cup {issued}}
      BY <1>4 DEF WriteTmp
    <3>3. issued \in 1..issued /\ flushed \subseteq 1..issued
      BY <3>1 DEF StepInv
    <3> QED BY <3>2, <3>3
  <2>2. Complete \subseteq Complete' /\ Current \subseteq Current'
    BY <1>4, <2>1 DEF WriteTmp, Complete, Current
  <2>3. VaultsIn(Complete, Current)'
    BY <1>4, <2>2 DEF WriteTmp, StepInv, VaultsIn, Logical, fs
  <2>4. SaveState'
    BY <1>4 DEF WriteTmp, fs, StepInv, SaveState
  <2> QED BY <2>1, <2>3, <2>4 DEF StepInv
<1>5. CASE ParkPrimary
  <2>1. CASE UNCHANGED fs
    <3>1. Kept /\ UNCHANGED saves
      BY <1>5, <2>1, <1>k DEF ParkPrimary
    <3>2. SaveState'
      BY <1>5, <2>1 DEF ParkPrimary, fs, Rename, Moved, StepInv, SaveState, saves, Types,
                        Directories, Names
    <3> QED BY <1>q, <3>1, <3>2
  <2>2. CASE Rename("primary", "bak") /\ pc' = "syncParked"
    <3>1. UNCHANGED saves /\ dir["primary"] \in Current
      BY <1>5, <2>2 DEF ParkPrimary, Rename, StepInv, VaultsIn, Logical
    <3>2. <<"primary", "bak">> \in VaultRenames /\ "primary" \in Names /\ "bak" \in Names
      BY DEF VaultRenames, Names
    <3>3. /\ flushed' \subseteq 1..issued' /\ VaultsIn(Complete, Current)'
          /\ dir'["bak"] \in Current' /\ dir'["tmp"] = dir["tmp"]
      BY <2>2, <3>1, <3>2, RenameStep DEF Names
    <3>4. SaveState'
      BY <1>5, <2>2, <3>1, <3>3 DEF ParkPrimary, StepInv, SaveState, saves
    <3> QED BY <3>3, <3>4 DEF StepInv
  <2> QED BY <1>5, <2>1, <2>2 DEF ParkPrimary
<1>6. CASE SyncParked
  <2>1. Kept /\ UNCHANGED saves
    BY <1>6, <1>k DEF SyncParked
  <2>2. SaveState'
    BY <1>6, <2>1, QuietStep DEF SyncParked, SyncParentDir, fs, StepInv, SaveState, saves
  <2> QED BY <1>q, <2>1, <2>2
<1>7. CASE Publish
  <2>1. CASE UNCHANGED fs /\ pc' = Undo
    <3>1. Kept /\ UNCHANGED saves
      BY <1>7, <2>1, <1>k DEF Publish
    <3>2. SaveState'
      BY <1>7, <2>1, <3>1, QuietStep DEF Publish, Undo, fs, StepInv, SaveState, saves
    <3> QED BY <1>q, <3>1, <3>2
  <2>2. CASE Rename("tmp", "primary") /\ pc' = "syncPublished"
    <3>1. UNCHANGED saves /\ dir["tmp"] = issued /\ issued \in flushed /\ pc = "publish"
      BY <1>7, <2>2 DEF Publish, StepInv, SaveState
    <3>2. dir["tmp"] \in Current
      BY <3>1 DEF Current, Complete, Types
    <3>3. <<"tmp", "primary">> \in VaultRenames /\ "primary" \in Names /\ "tmp" \in Names
      BY DEF VaultRenames, Names
    <3>4. /\ flushed' \subseteq 1..issued' /\ VaultsIn(Complete, Current)'
          /\ dir'["primary"] = dir["tmp"] /\ dir'["bak"] = dir["bak"] /\ Current' = Current
      BY <2>2, <3>1, <3>2, <3>3, RenameStep DEF Names
    <3>5. SaveState'
      BY <1>7, <2>2, <3>1, <3>4 DEF Publish, StepInv, SaveState, saves
    <3> QED BY <3>4, <3>5 DEF StepInv
  <2> QED BY <1>7, <2>1, <2>2 DEF Publish
<1>8. CASE SyncPublished
  <2>1. Kept /\ UNCHANGED saves
    BY <1>8, <1>k DEF SyncPublished
  <2>2. SaveState'
    BY <1>8, <2>1, QuietStep DEF SyncPublished, SyncParentDir, Undo, fs, StepInv, SaveState, saves
  <2> QED BY <1>q, <2>1, <2>2
<1>9. CASE Secure
  <2>1. CASE acked' = issued /\ pc' = "idle"
    <3>1. /\ disks' = {dir} /\ dir' = dir /\ dir["primary"] = issued
          /\ issued \in flushed /\ issued > 0 /\ flushed' = flushed /\ issued' = issued
      BY <1>9, <2>1 DEF Secure, fs, StepInv, SaveState
    <3>2. issued \in Complete' /\ issued \in Current'
      BY <2>1, <3>1 DEF Complete, Current, Types
    <3>3. VaultsIn(Complete, Current)'
      BY <3>1, <3>2 DEF StepInv, VaultsIn, Complete, Logical
    <3>4. SaveState'
      BY <2>1 DEF SaveState
    <3> QED BY <3>1, <3>3, <3>4 DEF StepInv
  <2>2. CASE UNCHANGED fs /\ UNCHANGED saves /\ pc' = IF hadPrimary THEN "dropPrimary" ELSE "idle"
    <3>1. Kept
      BY <2>2, <1>k
    <3>2. SaveState'
      BY <1>9, <2>2, <3>1, QuietStep DEF Secure, fs, StepInv, SaveState
    <3> QED BY <1>q, <2>2, <3>1, <3>2
  <2> QED BY <1>9, <2>1, <2>2 DEF Secure, saves
<1>10. CASE DropPrimary
  <2>1. /\ disks = {dir} /\ dir["bak"] \in Current /\ UNCHANGED saves
        /\ pc' = "restoreBackup"
    BY <1>10 DEF DropPrimary, StepInv, SaveState
  <2>2. UNCHANGED <<Complete, Current, flushed, issued>>
    BY <2>1 DEF saves, Complete, Current
  <2>3. dir' \in disks' /\ \A d \in disks' : d = dir \/ d = [dir EXCEPT !["primary"] = 0]
    BY <1>10, <2>1 DEF DropPrimary, TryRemove, Remove, Removed, fs
  <2>4. \A d \in disks' : /\ d["bak"] = dir["bak"] /\ d["primary"] \in {0, dir["primary"]}
                           /\ Logical(d) \in {Logical(dir), dir["bak"]}
    BY <2>3 DEF Types, Directories, Names, Logical
  <2>5. VaultsIn(Complete, Current)'
    BY <2>1, <2>2, <2>3, <2>4 DEF StepInv, VaultsIn, Complete, Logical
  <2>6. SaveState'
    BY <2>1, <2>2, <2>3, <2>4 DEF SaveState
  <2> QED BY <2>2, <2>5, <2>6 DEF StepInv
<1>11. CASE UndoPark \/ RestoreBackup
  <2>0. pc \in {"undoPark", "restoreBackup"} /\ pc' \in {"discardTmp", "idle"} /\ UNCHANGED saves
    BY <1>11 DEF UndoPark, RestoreBackup
  <2>1. SaveState'
    BY <2>0 DEF SaveState
  <2>2. CASE UNCHANGED fs
    BY <2>0, <2>1, <2>2, <1>k, <1>q
  <2>3. CASE Rename("bak", "primary")
    <3>1. dir["bak"] \in Current
      BY <2>0 DEF StepInv, SaveState
    <3>2. <<"bak", "primary">> \in VaultRenames /\ "primary" \in Names /\ "bak" \in Names
      BY DEF VaultRenames, Names
    <3>3. flushed' \subseteq 1..issued' /\ VaultsIn(Complete, Current)'
      BY <2>0, <2>3, <3>1, <3>2, RenameStep
    <3> QED BY <2>1, <3>3 DEF StepInv
  <2> QED BY <1>11, <2>2, <2>3 DEF UndoPark, RestoreBackup
<1>12. CASE PowerLoss
  <2>1. UNCHANGED <<Complete, Current, flushed, issued>>
    BY <1>12 DEF PowerLoss, saves, Complete, Current
  <2>2. VaultsIn(Complete, Current)'
    BY <1>12, <2>1 DEF PowerLoss, LosePower, StepInv, VaultsIn, Logical
  <2>3. SaveState'
    BY <1>12 DEF PowerLoss, SaveState
  <2> QED BY <2>1, <2>2, <2>3 DEF StepInv
<1>13. CASE UNCHANGED vars
  <2>1. Kept /\ UNCHANGED saves
    BY <1>13, <1>k DEF vars
  <2>2. SaveState'
    BY <1>13, <2>1, QuietStep DEF vars, fs, StepInv, SaveState, saves
  <2> QED BY <1>q, <2>1, <2>2
<1> QED BY <1>1, <1>2, <1>3, <1>4, <1>5, <1>6, <1>7, <1>8, <1>9, <1>10, <1>11, <1>12, <1>13
        DEF Next, Save, HandleFailure

\* The inductive invariant holds in every state.
LEMMA Invariance == Spec => [](Types /\ StepInv)
<1>1. Init => StepInv
  <2> SUFFICES ASSUME Init PROVE StepInv
    OBVIOUS
  <2>1. flushed \subseteq 1..issued
    BY DEF Init
  <2>2. VaultsIn(Complete, Current)
    BY DEF Init, VaultsIn, Complete, Current, Logical, Names
  <2>3. SaveState
    BY DEF Init, SaveState, SaveSteps
  <2> QED BY <2>1, <2>2, <2>3 DEF StepInv
<1>2. Types /\ StepInv /\ [Next]_vars => StepInv'
  BY StepKeepsInvariant
<1> QED BY TypesCorrect, <1>1, <1>2, PTL DEF Spec

\* The type invariant of the shared vault's file protocol: no primary and no backup
\* is ever partly written, whatever crashes, fails or loses power.
THEOREM TypeCorrect == Spec => []TypeOK
<1>1. Types /\ StepInv => TypeOK
  BY DEF StepInv, VaultsIn, Complete, TypeOK, WholeFiles
<1> QED BY Invariance, <1>1, PTL

\* Whatever crashes, fails or loses power, in a save or in its error paths, the last
\* acknowledged shared vault or a later one is on the disk, complete.
THEOREM SaveIsDurable == Spec => []AckedSurvives
<1>1. Types /\ StepInv => AckedSurvives
  BY DEF StepInv, VaultsIn, Current, AckedSurvives, Types
<1> QED BY Invariance, <1>1, PTL

-----------------------------------------------------------------------------
(* What a save is made from                                                 *)

\* While nothing is hurt, the primary is the last acknowledged vault or a later
\* one, or a temporary file is there to stop the next save; a save that got past
\* O_EXCL had the former.
BaseState ==
  ~hurt =>
    /\ dir["primary"] >= acked \/ dir["tmp"] # 0
    /\ pc \in {"loaded", "createTmp"} => base = dir["primary"]
    /\ pc \in SaveSteps \ {"createTmp"} => base >= acked
    /\ pc \in {"writeTmp", "parkPrimary", "discardTmp"} => dir["primary"] >= acked
    /\ pc = "syncParked" => hadPrimary
    /\ pc = "publish" /\ ~hadPrimary => acked = 0
    /\ pc # "restoreBackup"

\* Every step keeps it: the undo puts a current backup back, and the temporary file
\* goes only when the primary is current.
LEMMA StepKeepsBase ==
  ASSUME Types, Types', StepInv, StepInv', BaseState, [Next]_vars
  PROVE  BaseState'
<1> USE DEF Goto, Fails, command, saves, SaveSteps, BaseState
<1>t. /\ dir \in [Names -> 0..MaxVersions] /\ acked \in Nat /\ issued \in Nat /\ acked <= issued
      /\ issued' \in Nat
  BY VersionsAssumption DEF Types, Directories
<1>c. \A n \in Current : n \in Nat /\ n >= acked
  BY <1>t DEF Current, Complete, StepInv
<1>1. CASE Load \/ EndCommand \/ BeginSave \/ Crash
  BY <1>1, <1>t DEF Load, EndCommand, BeginSave, Crash, fs
<1>2. CASE CreateTmp
  <2>1. CASE Create("tmp", issued) /\ dir["tmp"] = 0 /\ pc' = "writeTmp"
    <3>1. dir'["primary"] = dir["primary"]
      BY <2>1, <1>t DEF Create, Placed, Names
    <3>2. dir'["tmp"] = issued /\ issued > 0
      BY <1>2, <2>1, <1>t DEF CreateTmp, Create, Placed, Names, StepInv, SaveState
    <3> QED BY <1>2, <1>t, <2>1, <3>1, <3>2 DEF CreateTmp
  <2>2. CASE UNCHANGED fs /\ pc' = "idle"
    BY <1>2, <2>2 DEF CreateTmp, fs
  <2> QED BY <1>2, <2>1, <2>2 DEF CreateTmp
<1>3. CASE WriteTmp
  BY <1>3 DEF WriteTmp, fs
<1>4. CASE ParkPrimary
  <2>1. CASE Rename("primary", "bak") /\ pc' = "syncParked"
    <3>1. dir'["tmp"] # 0 /\ dir["primary"] # 0
      BY <1>4, <2>1, <1>t DEF ParkPrimary, Rename, Moved, Names, StepInv, SaveState
    <3> QED BY <1>4, <2>1, <3>1 DEF ParkPrimary
  <2>2. CASE UNCHANGED fs
    BY <1>4, <2>2, <1>t DEF ParkPrimary, fs, Rename, Moved, Names
  <2> QED BY <1>4, <2>1, <2>2 DEF ParkPrimary
<1>5. CASE SyncParked
  BY <1>5 DEF SyncParked, SyncParentDir, fs, StepInv, SaveState
<1>6. CASE Publish
  <2>1. CASE Rename("tmp", "primary") /\ pc' = "syncPublished"
    <3>1. dir'["primary"] >= acked
      BY <1>6, <2>1, <1>t DEF Publish, StepInv, SaveState
    <3> QED BY <1>6, <2>1, <3>1 DEF Publish
  <2>2. CASE UNCHANGED fs /\ pc' = Undo
    BY <1>6, <2>2, <1>t DEF Publish, Undo, fs, Names
  <2> QED BY <1>6, <2>1, <2>2 DEF Publish
<1>7. CASE SyncPublished
  <2>1. dir'["primary"] = issued /\ dir' = dir
    BY <1>7 DEF SyncPublished, SyncParentDir, fs, StepInv, SaveState
  <2> QED BY <1>7, <1>t, <2>1 DEF SyncPublished, Undo
<1>8. CASE Secure
  <2>1. dir'["primary"] = issued
    BY <1>8 DEF Secure, fs, StepInv, SaveState
  <2> QED BY <1>8, <1>t, <2>1 DEF Secure
<1>9. CASE UndoPark
  <2>1. CASE Rename("bak", "primary")
    <3>1. dir'["primary"] = dir["bak"] /\ dir["bak"] >= acked
      BY <1>9, <2>1, <1>t, <1>c DEF UndoPark, Rename, Moved, Names, StepInv, SaveState
    <3> QED BY <1>9, <3>1 DEF UndoPark
  <2>2. CASE hurt' = TRUE
    BY <2>2
  <2> QED BY <1>9, <2>1, <2>2 DEF UndoPark
<1>10. CASE DiscardTmp
  <2>1. dir'["primary"] = dir["primary"]
    BY <1>10, <1>t DEF DiscardTmp, TryRemove, Remove, Removed, fs, Names
  <2> QED BY <1>10, <2>1 DEF DiscardTmp
<1>11. CASE DropPrimary \/ RestoreBackup \/ PowerLoss
  BY <1>11 DEF DropPrimary, RestoreBackup, PowerLoss
<1>12. CASE UNCHANGED vars
  BY <1>12 DEF vars, fs
<1> QED BY <1>1, <1>2, <1>3, <1>4, <1>5, <1>6, <1>7, <1>8, <1>9, <1>10, <1>11, <1>12
        DEF Next, Save, HandleFailure

\* However processes die, a save of the shared vault that gets past its temporary
\* file was made from the last acknowledged vault or a later one: it forgets no
\* staged value and no use count (createTmp's O_EXCL, the undo of SaveVaultFileAtomic).
THEOREM SavesBuildOnLatest == Spec => []BuildsOnLatest
<1>1. Init => BaseState
  BY DEF Init, BaseState, SaveSteps, Names
<1>2. Types /\ Types' /\ StepInv /\ StepInv' /\ BaseState /\ [Next]_vars => BaseState'
  BY StepKeepsBase
<1>3. BaseState => BuildsOnLatest
  BY DEF BaseState, BuildsOnLatest
<1> QED BY Invariance, <1>1, <1>2, <1>3, PTL DEF Spec

-----------------------------------------------------------------------------
(* Refinement of the durable register                                       *)

\* What the register holds is between the last acknowledged write and the last
\* one attempted.
StoredInRange == Logical(dir) \in acked..issued

\* Every step of the protocol is a step of the register or leaves it alone.
LEMMA StepRefines ==
  ASSUME Types, StepInv, StoredInRange', [Next]_vars
  PROVE  [Register!Next]_Register!vars
<1> USE DEF Register!vars, Register!Next, Goto, Fails, command, saves
\* Whatever a step does to the directory alone, it settles the write in doubt
<1>1. ASSUME UNCHANGED <<issued, acked, base>>
      PROVE  [Register!Next]_Register!vars
  BY <1>1 DEF StoredInRange, Register!Settle
<1>2. CASE Load
  BY <1>2 DEF Load, Register!Read, fs, Logical
<1>3. CASE BeginSave
  BY <1>3 DEF BeginSave, Register!StartWrite, fs, Logical
<1>4. CASE Secure
  <2>1. CASE acked' = issued /\ base' = issued /\ UNCHANGED fs
    <3>1. issued > 0 /\ dir["primary"] = issued
      BY <1>4 DEF Secure, StepInv, SaveState, SaveSteps
    <3>2. Logical(dir) = issued /\ Logical(dir)' = issued
      BY <2>1, <3>1 DEF Logical, fs, Types
    <3> QED BY <1>4, <2>1, <3>2 DEF Secure, Register!Acknowledge
  <2>2. CASE UNCHANGED <<acked, base>>
    BY <1>1, <1>4, <2>2 DEF Secure
  <2> QED BY <1>4, <2>1, <2>2 DEF Secure
<1>5. CASE EndCommand \/ CreateTmp \/ WriteTmp \/ ParkPrimary \/ SyncParked \/ Publish \/ SyncPublished
  BY <1>1, <1>5 DEF EndCommand, CreateTmp, WriteTmp, ParkPrimary, SyncParked, Publish, SyncPublished
<1>6. CASE HandleFailure
  BY <1>1, <1>6 DEF HandleFailure, UndoPark, DiscardTmp, DropPrimary, RestoreBackup
<1>7. CASE Crash \/ PowerLoss \/ UNCHANGED vars
  BY <1>1, <1>7 DEF Crash, PowerLoss, vars
<1> QED BY <1>2, <1>3, <1>4, <1>5, <1>6, <1>7 DEF Next, Save

\* The file protocol of the shared vault implements a durable register, whatever
\* crashes, power losses and failing writes there are, with reads that may find
\* nothing while the primary is moved away.
THEOREM Implements == Spec => IsRegister
<1>1. Init => Register!Init
  BY DEF Init, Register!Init, Logical, Names
<1>2. Types /\ StepInv => StoredInRange
  <2> SUFFICES ASSUME Types, StepInv PROVE StoredInRange
    OBVIOUS
  <2>1. Logical(dir) \in Current
    BY DEF StepInv, VaultsIn
  <2>2. Logical(dir) = 0 \/ Logical(dir) \in 1..issued
    BY <2>1 DEF Current, Complete, StepInv
  <2> QED BY <2>1, <2>2 DEF Types, Current, StoredInRange
<1>3. Types /\ StepInv /\ StoredInRange' /\ [Next]_vars => [Register!Next]_Register!vars
  BY StepRefines
<1> QED BY Invariance, <1>1, <1>2, <1>3, PTL DEF Spec, IsRegister, Register!Spec
=============================================================================
