------------------------------ MODULE Rollback ------------------------------
(***************************************************************************)
(* Revision numbers and the trusted rollback state: internal/rollback,     *)
(* saveExtendedVaultBytes (cmd/vault/storage_bridge.go), the check before  *)
(* every password command, rollback-accept, restore, and recovery from the *)
(* snapshot, with the copies of vault.db that `backup` and `restore` make  *)
(* and prune (cmd/vault/commands.go, restore_cli.go).  The commands are    *)
(* serialised by the vault lock; a process may die between any two of      *)
(* their file updates, and somebody may put an old copy of vault.db back,  *)
(* or delete or damage rollback-state.json, at any time between two        *)
(* commands.                                                               *)
(*                                                                         *)
(* One save of one file is one step (VaultStorage opens up that of the     *)
(* main vault).  A vault file is a record: its VaultID, its Revision, the  *)
(* number of the save that wrote it, which stands for its contents, the    *)
(* revision its recovery metadata gives for the recovery snapshot, and     *)
(* the recovery key of its verifier.  A recovery key is named by the       *)
(* number of the save that set it up.                                      *)
(***************************************************************************)
EXTENDS Integers, Sequences, SequencesExt

CONSTANTS
  Modes,     \* the rollback_mode settings considered
  MaxBackups,  \* the max_backups setting
  MaxSaves,  \* bound: saves attempted; also bounds revisions and vault IDs
  MaxCopies  \* bound: copies of vault.db beside it

ASSUME ModesAssumption == Modes \subseteq {"off", "warn", "block"}
ASSUME SavesAssumption == MaxSaves \in Nat \ {0}
ASSUME BackupsAssumption == MaxBackups \in Nat \ {0} /\ MaxCopies \in Nat /\ MaxCopies >= MaxBackups

VARIABLES
  mode,      \* rollback_mode
  vault,     \* vault.db
  dated,     \* vault.db.<time>.bak, made by `backup`, in the order of their names
  pre,       \* vault.db.pre-restore-<time>.bak, likewise; their names come after
  snapshot,  \* vault.db.recovery
  trusted,   \* rollback-state.json
  left,      \* which fixed temporary names an interrupted command left behind
  pc,        \* the next step of the running command
  mem,       \* the vault it has in memory
  withKey,   \* the recovery key is in memory, so the save refreshes the snapshot
  saves,     \* saves attempted
  ids,       \* vault IDs drawn
  fresh,     \* the save last acknowledged or explicitly accepted
  top,       \* per vault ID, the highest revision ever stored in vault.db
  reused,    \* a revision was stored twice with different contents
  excused,   \* the trusted state lost track of a revision: a save was cut short
             \* before it, it moved to another vault, the user accepted a lower
             \* revision, or the state itself was lost
  kept,      \* the vault of the last complete backup, if it was made with fewer
             \* than MaxBackups pre-restore copies present
  parted     \* vault.db and the snapshot may be of different recovery keys: a
             \* save with a key was cut short, or an old vault.db came back

copies  == <<dated, pre>>
store   == <<vault, copies, snapshot>>
state   == <<trusted, left>>
command == <<mem, withKey>>
ghosts  == <<fresh, top, reused, excused, kept, parted>>
vars    == <<mode, store, state, pc, command, saves, ids, ghosts>>

\* A VaultID and a revision come together (EnsureMetadata)
Revisions == 0..MaxSaves
VaultIDs  == 0..MaxSaves
Together(f) == f.id = 0 <=> f.rev = 0
Files  == {f \in [id : VaultIDs, rev : Revisions, n : 0..MaxSaves,
                   snap : Revisions, key : 0..MaxSaves] : Together(f)}
States == {s \in [id : VaultIDs, rev : Revisions] : Together(s)}

\* No VaultID and revision 0: a vault from before revisions, or a new empty one
NewVault == [id |-> 0, rev |-> 0, n |-> 0, snap |-> 0, key |-> 0]
NoState  == [id |-> 0, rev |-> 0]

\* A state that LoadState refuses: it is of no vault, and it is not missing
Unreadable == [id |-> 0, rev |-> 1]

\* A copy cut short: it holds no vault, but its name counts
Torn == NewVault
Copies == (ToSet(dated) \cup ToSet(pre)) \ {Torn}

\* The fixed names that are created with O_EXCL and only then renamed
TempNames == {"state", "snapshot", "restore"}
Legacy(f) == f.id = 0 \/ f.rev < 1

Goto(from, to) == pc = from /\ pc' = to
Larger(a, b)   == IF a > b THEN a ELSE b

-----------------------------------------------------------------------------
(* internal/rollback                                                        *)

\* mutant: a legacy vault gets a VaultID and keeps revision 0
NextWithoutRevision(f, s) ==
  IF Legacy(f) THEN [f EXCEPT !.id = ids + 1]
  ELSE [f EXCEPT !.rev = IF s.id = f.id THEN Larger(f.rev, s.rev) + 1 ELSE f.rev + 1]

\* mutant: the trusted revision is not consulted
NextFromVaultOnly(f, s) ==
  IF Legacy(f) THEN [f EXCEPT !.id = ids + 1, !.rev = 1] ELSE [f EXCEPT !.rev = @ + 1]

\* PrepareNextRevision, on a loaded vault and the state (none if missing or unreadable).
\* A legacy vault gets a new random ID and revision 1; any other goes above both
\* its own revision and the trusted one.
PrepareNextRevision(f, s) ==
  IF Legacy(f) THEN [f EXCEPT !.id = ids + 1, !.rev = 1]
  ELSE [f EXCEPT !.rev = IF s.id = f.id THEN Larger(f.rev, s.rev) + 1 ELSE f.rev + 1]

\* mutant: a lower revision of the right vault passes
SuspiciousIdOnly(f, s) ==
  IF s = NoState THEN ~Legacy(f) ELSE Legacy(f) \/ s.id # f.id

\* CheckWithMode: everything but status OK
Suspicious(f, s) ==
  IF s = NoState THEN ~Legacy(f)
  ELSE Legacy(f) \/ s.id # f.id \/ f.rev < s.rev

\* enforceRollbackState
Blocked(f) == mode = "block" /\ Suspicious(f, trusted)

\* SaveState needs complete metadata, and O_EXCL on its temporary file
SaveStateSucceeds(f) ==
  /\ ~Legacy(f) /\ "state" \notin left
  /\ trusted' = [id |-> f.id, rev |-> f.rev]
  /\ UNCHANGED left

\* The state now speaks of another vault than it did, or of an older revision
LosesTrack(f) == (trusted # NoState /\ trusted.id # f.id) \/ f.rev < top[f.id]

-----------------------------------------------------------------------------
(* Commands                                                                 *)

Return == pc' = "idle" /\ mem' = NewVault /\ withKey' = FALSE

\* runPasswordCommandBytes up to the check
Load ==
  /\ Goto("idle", "loaded")
  /\ ~Blocked(vault)
  /\ mem' = vault
  /\ UNCHANGED <<mode, store, state, withKey, saves, ids, ghosts>>

\* recoverMasterPassword reads the snapshot, and makes no rollback check
Recover ==
  /\ Goto("idle", "loaded")
  /\ snapshot # NewVault
  /\ mem' = snapshot
  /\ withKey' = TRUE
  /\ UNCHANGED <<mode, store, state, saves, ids, ghosts>>

\* A command that saves nothing
EndWithoutSave ==
  /\ pc = "loaded"
  /\ Return
  /\ UNCHANGED <<mode, store, state, saves, ids, ghosts>>

\* mutant: the copies are sorted newest first, and the newest pruned
PruneNewest(d, p, limit) ==
  LET excess == Larger(Len(d) + Len(p) - limit, 0)
  IN /\ pre'   = SubSeq(p, 1, Len(p) - excess)
     /\ dated' = SubSeq(d, 1, Len(d) - Larger(excess - Len(p), 0))

\* pruneTimestampedBackups: of all copies in the order of their names, the first
\* go.  A time comes before "pre-restore", so dated backups go first.
Prune(d, p, limit) ==
  LET excess == Larger(Len(d) + Len(p) - limit, 0)
  IN /\ dated' = SubSeq(d, excess + 1, Len(d))
     /\ pre'   = SubSeq(p, Larger(excess - Len(d), 0) + 1, Len(p))

RoomForCopy == Len(dated) + Len(pre) < MaxCopies

\* vault.db is copied as it is, and old copies are removed down to the limit
CopyVault(limit) ==
  /\ pc = "loaded"
  /\ vault # NewVault /\ RoomForCopy
  /\ Prune(Append(dated, vault), pre, limit)
  /\ kept' = IF Len(pre) < MaxBackups THEN vault ELSE NewVault
  /\ UNCHANGED <<mode, vault, snapshot, trusted, left, saves, ids,
                 fresh, top, reused, excused, parted>>

\* `backup`, which may still have an import to save.  It changes nothing when the
\* name is taken, by a backup of the same second.
Backup == CopyVault(MaxBackups) /\ UNCHANGED <<pc, command>>

\* It dies, or fails, in the copy or in the prune
BackupInterrupted ==
  \/ \E limit \in MaxBackups..MaxCopies : CopyVault(limit) /\ Return
  \/ /\ pc = "loaded"
     /\ vault # NewVault /\ RoomForCopy
     /\ dated' = Append(dated, Torn)
     /\ Return
     /\ UNCHANGED <<mode, vault, pre, snapshot, state, saves, ids, ghosts>>

\* saveExtendedVaultBytes.  The recovery key is in memory after `recover`, and
\* in `refresh-recovery` and `setup-recovery`, which draws a new one.
Prepare ==
  /\ pc = "loaded"
  /\ saves < MaxSaves
  /\ saves' = saves + 1
  /\ \E key \in {mem.key} \cup (IF withKey THEN {} ELSE {saves'}) :
     \E refresh \in IF withKey \/ key # mem.key THEN {TRUE} ELSE {FALSE, mem.key # 0} :
       LET f == PrepareNextRevision(mem, trusted)
       IN /\ mem' = [f EXCEPT !.n = saves', !.snap = IF refresh THEN f.rev ELSE @, !.key = key]
          /\ withKey' = refresh
          /\ ids' = Larger(ids, f.id)
          /\ pc' = IF refresh THEN "snapshot" ELSE "store"
  /\ UNCHANGED <<mode, store, state, ghosts>>

\* mutant: the snapshot is skipped, its revision recorded all the same
SnapshotSkipped ==
  /\ Goto("snapshot", "store")
  /\ UNCHANGED <<mode, store, state, command, saves, ids, ghosts>>

\* The recovery snapshot is replaced before the main vault, and tells the keys
\* apart until that has the new one too
SaveSnapshot ==
  /\ Goto("snapshot", "store")
  /\ "snapshot" \notin left
  /\ snapshot' = mem
  /\ parted' = TRUE
  /\ UNCHANGED <<mode, vault, copies, state, command, saves, ids,
                 fresh, top, reused, excused, kept>>

StoreVault ==
  /\ Goto("store", "trust")
  /\ vault' = mem
  /\ reused' = (reused \/ mem.rev <= top[mem.id])
  /\ top' = [top EXCEPT ![mem.id] = Larger(@, mem.rev)]
  /\ parted' = (parted /\ ~withKey)
  /\ UNCHANGED <<mode, copies, snapshot, state, command, saves, ids, fresh, excused, kept>>

\* The trusted state last: the command reports an error if it cannot be saved
SaveTrusted ==
  /\ pc = "trust"
  /\ SaveStateSucceeds(mem)
  /\ fresh' = mem.n
  /\ excused' = (excused \/ LosesTrack(mem))
  /\ Return
  /\ UNCHANGED <<mode, store, saves, ids, top, reused, kept, parted>>

\* SaveState fails in the chmod or the directory sync that follow its rename: the
\* command reports an error, and the state is stored, as the user asked for if it is
\* `rollback-accept` or `restore`.
SaveStateFailsLate ==
  /\ pc \in {"trust", "accept"}
  /\ SaveStateSucceeds(mem)
  /\ fresh' = IF pc = "accept" THEN mem.n ELSE fresh
  /\ excused' = (excused \/ LosesTrack(mem))
  /\ Return
  /\ UNCHANGED <<mode, store, saves, ids, top, reused, kept, parted>>

\* One of the writes fails, by itself or because SaveState refuses
SaveFails ==
  /\ pc \in {"snapshot", "store", "trust", "stage", "swap", "accept"}
  /\ Return
  /\ excused' = (excused \/ pc = "trust")
  /\ left' = IF pc = "swap" THEN left \ {"restore"} ELSE left
  /\ UNCHANGED <<mode, store, trusted, saves, ids, fresh, top, reused, kept, parted>>

\* `rollback-accept` loads the vault and makes no check
RollbackAccept ==
  /\ Goto("idle", "accept")
  /\ mem' = vault
  /\ UNCHANGED <<mode, store, state, withKey, saves, ids, ghosts>>

\* `restore` copies the current vault aside, and prunes nothing
Restore ==
  /\ Goto("idle", "stage")
  /\ RoomForCopy
  /\ mem' \in Copies
  /\ pre' = IF vault = NewVault THEN pre ELSE Append(pre, vault)
  /\ UNCHANGED <<mode, vault, dated, snapshot, state, withKey, saves, ids, ghosts>>

RestoreInterrupted ==
  /\ pc = "idle"
  /\ vault # NewVault /\ RoomForCopy /\ Copies # {}
  /\ \E f \in {vault, Torn} : pre' = Append(pre, f)
  /\ UNCHANGED <<mode, vault, dated, snapshot, state, pc, command, saves, ids, ghosts>>

\* replaceVaultWithBackupData writes vault.db.restore.tmp and renames it
StageRestored ==
  /\ Goto("stage", "swap")
  /\ "restore" \notin left
  /\ left' = left \cup {"restore"}
  /\ UNCHANGED <<mode, store, trusted, command, saves, ids, ghosts>>

SwapRestored ==
  /\ Goto("swap", "accept")
  /\ vault' = mem
  /\ left' = left \ {"restore"}
  /\ parted' = (parted \/ mem.key # vault.key)
  /\ UNCHANGED <<mode, copies, snapshot, trusted, command, saves, ids,
                 fresh, top, reused, excused, kept>>

\* The end of `rollback-accept` and of `restore`
Accept ==
  /\ pc = "accept"
  /\ SaveStateSucceeds(mem)
  /\ fresh' = mem.n
  /\ excused' = (excused \/ LosesTrack(mem))
  /\ Return
  /\ UNCHANGED <<mode, store, saves, ids, top, reused, kept, parted>>

\* `config set rollback_mode`
SetMode ==
  /\ pc = "idle"
  /\ mode' \in Modes
  /\ UNCHANGED <<store, state, pc, command, saves, ids, ghosts>>

-----------------------------------------------------------------------------
(* The environment                                                          *)

\* The file a step writes before it renames it
Temp == CASE pc = "snapshot" -> {"snapshot"}
          [] pc \in {"trust", "accept"} -> {"state"}
          [] pc = "stage" -> {"restore"}
          [] OTHER -> {}

\* The process dies.  Nothing ever removes what it leaves in SaveState,
\* SaveFile or replaceVaultWithBackupData.
Crash ==
  /\ pc # "idle"
  /\ Return
  /\ left' \in {left, left \cup Temp}
  /\ excused' = (excused \/ pc = "trust")
  /\ UNCHANGED <<mode, store, trusted, saves, ids, fresh, top, reused, kept, parted>>

\* Somebody copies an old vault.db back, without the program
PutBack ==
  /\ pc = "idle"
  /\ vault' \in Copies
  /\ parted' = (parted \/ vault'.key # vault.key)
  /\ UNCHANGED <<mode, copies, snapshot, state, pc, command, saves, ids,
                 fresh, top, reused, excused, kept>>

\* Somebody deletes rollback-state.json, or damages it
LoseState ==
  /\ pc = "idle" /\ trusted # NoState
  /\ trusted' \in {NoState, Unreadable}
  /\ excused' = TRUE
  /\ UNCHANGED <<mode, store, left, pc, command, saves, ids, fresh, top, reused, kept, parted>>

-----------------------------------------------------------------------------
\* No vault yet, or one from before revision metadata
Init ==
  /\ mode \in Modes
  /\ saves \in {0, 1}
  /\ vault = [NewVault EXCEPT !.n = saves]
  /\ dated = IF saves = 0 THEN <<>> ELSE <<vault>>
  /\ pre = <<>>
  /\ snapshot = NewVault
  /\ trusted = NoState /\ left = {}
  /\ pc = "idle" /\ mem = NewVault /\ withKey = FALSE
  /\ ids = 0
  /\ fresh = saves
  /\ top = [i \in VaultIDs |-> 0]
  /\ reused = FALSE /\ excused = FALSE
  /\ kept = NewVault /\ parted = FALSE

SaveVault == Prepare \/ SaveSnapshot \/ StoreVault \/ SaveTrusted \/ SaveStateFailsLate \/ SaveFails

Next ==
  \/ Load \/ Recover \/ EndWithoutSave \/ Backup \/ BackupInterrupted \/ SaveVault
  \/ RollbackAccept \/ Restore \/ RestoreInterrupted \/ StageRestored \/ SwapRestored
  \/ Accept \/ SetMode
  \/ Crash \/ PutBack \/ LoseState

Spec == Init /\ [][Next]_vars

-----------------------------------------------------------------------------
(* Properties                                                               *)

TypeOK ==
  /\ mode \in Modes
  /\ vault \in Files /\ snapshot \in Files /\ mem \in Files
  /\ Copies \subseteq Files
  /\ Len(dated) + Len(pre) <= MaxCopies
  /\ trusted \in States \cup {Unreadable}
  /\ left \subseteq TempNames /\ withKey \in BOOLEAN
  /\ pc \in {"idle", "loaded", "snapshot", "store", "trust", "stage", "swap", "accept"}
  /\ saves \in 0..MaxSaves /\ ids \in VaultIDs
  /\ fresh \in 0..MaxSaves
  /\ top \in [VaultIDs -> Revisions]
  /\ reused \in BOOLEAN /\ excused \in BOOLEAN /\ parted \in BOOLEAN
  /\ kept \in Files

\* In block mode, and as long as no revision was used twice, a password command
\* that passes the check works on the last acknowledged or accepted vault or a
\* later one, whatever old copies were put back and whatever crashed before: also
\* when the trusted state was lost, unless it is gone and the vault is from before
\* revisions, which is what a first run looks like (CheckWithMode).
NoUnnoticedRollback ==
  pc = "loaded" /\ mode = "block" /\ ~reused /\ ~withKey =>
    mem.n >= fresh \/ (trusted = NoState /\ Legacy(mem))

\* A revision number is stored twice, with different contents, only after the
\* trusted state lost track of it: a save was cut short between vault.db and
\* rollback-state.json, the state moved to another vault or was lost, or the user
\* accepted a lower revision.  Old copies put back and old snapshots recovered are not enough
\* (PrepareNextRevision goes above the trusted revision).
RevisionsUnique == reused => excused

\* When `stats` and `security-audit` call the recovery snapshot current, a
\* recovery from it loses no later save (recoveryRevisionFreshness).
FreshnessIsHonest ==
  pc = "idle" /\ ~Legacy(vault) /\ vault.snap >= vault.rev => snapshot.n >= vault.n

\* The vault of the last complete backup is among the dated backups, however
\* many restores and interrupted backups there were since, provided that fewer
\* than MaxBackups pre-restore copies were there when it was made.  (With more,
\* the prune removes the very backup it follows, and `backup` reports success.)
BackupKept == kept # NewVault => kept \in ToSet(dated)

\* When `test-recovery` calls a recovery key valid, which it decides from
\* vault.db alone, that key opens the snapshot, unless a save with a key was cut
\* short between the two files or an old vault.db came back.
TestRecoveryIsHonest ==
  pc = "idle" /\ vault.key # 0 /\ ~parted => snapshot.key = vault.key
=============================================================================
