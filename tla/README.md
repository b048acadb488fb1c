# MyMiniVault in TLA+

MyMiniVault is a command-line password vault: an encrypted main vault opened
with a master password, and a second, shared copy of it opened with a token
master key, through which scripts read and stage values with short-lived tokens.
Each command is one process. What is hard about it is therefore not a server's
concurrency but what happens *between* file operations and *between* commands:
processes that die half-way, writes that fail, old files that are put back, two
copies of the data that must be merged, and several processes started at once.

These modules model that part of the code, check it with TLC, and prove with TLAPS
all but a few of the properties TLC checks, for every value of the constants: an
acknowledged save of either vault is never lost, both files implement a durable
register, the two copies are merged without losing a write, a revoked token stays
revoked, an old vault does not pass the rollback check, commands exclude each other,
what was saved can be opened under later settings, by the program and by its
reference decryptor, the token key survives its move between two stores, and an
export comes back as it was, or damages one key at most when it was cut short.

Source paths below are relative to the repository root (`cmd/...`,
`internal/...`).

## 1. The system

| component | state | operations | what is hard | what makes it correct |
|---|---|---|---|---|
| **main vault storage** (`internal/storage/storage.go`, `internal/paths`) | `vault.db`, `.bak`, `.tmp`, the transaction marker | `LoadBytes`, `SaveFileAtomic`, `recoverInterruptedSave`, the clean-up | crash, power loss or failure between any two file operations; error paths that fail themselves; a wrong or former password on a half-finished save | no acknowledged save is lost; an open never serves older data; an interrupted save does not block the next |
| **token sync policy** (`internal/sync`) | per key: value, `UpdatedAt`, `DeletedAt` | `ImportSharedVault`, `PreviewSharedVault`, `MarkKeysUpdated/Deleted` | which of two copies wins; ties; missing stamps | the last acknowledged write wins; import is idempotent; the preview tells what the import does |
| **password commands and the shared token vault** (`cmd/vault/main.go`, `sync.go`, `commands.go`, `token_manage_cli.go`) | main vault, shared vault, the vault in memory | import, cleanup, the command, save, mirror | two files updated one after the other; failures that are only logged | acknowledged writes survive; revoked tokens stay revoked; usable tokens are listed |
| **token use** (`internal/token`, `cmd/vault/token_execute_cli.go`) | the shared vault's token manager; the compact token the user holds | validate, read or stage a value, count the use | use counts in one file, token lists in two; fields joined by colons into one text, patterns translated to regular expressions | a token is not used past its limit or after revocation; a live one is accepted, for the keys its pattern says |
| **rollback protection** (`internal/rollback`, `storage_bridge.go`) | `VaultID`/`Revision` in the vault, `rollback-state.json` | `PrepareNextRevision`, `CheckWithMode`, `SaveState`, `rollback-accept` | the vault and the state are saved in two steps; old copies put back | an old vault does not pass unnoticed; a revision names one vault |
| **restore and recovery** (`restore_cli.go`, `recovery_cli.go`) | `vault.db.recovery`, the verifier in the vault, `vault.db.restore.tmp` | `restore`, `recover`, `setup-`, `test-` and `refresh-recovery` | the snapshot is written before the vault; temporary names nobody cleans | a snapshot called current loses nothing; a key called valid opens the snapshot |
| **vault lock** (`internal/lock`, `cmd/vault/lock.go`) | the lock file and its `flock` | `WithFileTimeout` | processes, timeouts, a dying holder | one command at a time; nobody waits forever |
| **runtime paths and migration** (`internal/paths`, `config_cli.go`) | the runtime home, files in the old directory | `migrateLegacyRuntimeFiles` | runs before the lock is taken | the migration does not disturb a running command |
| **timestamped backups** (`commands.go`, `restore_cli.go`) | `vault.db.<time>.bak`, `vault.db.pre-restore-<time>.bak` | `backup`, pruning | two kinds of names in one list; copies cut short | the last backup stays |
| **configuration, KDF policy** (`internal/config`, `internal/crypto/kdf_policy.go`) | `vault-config.json`; the derivation each file was sealed under | `Validate`, `KDFConfigForContainer` | two policies that should agree; settings edited after files were written | what can be saved can be opened, and later edits do not change that |
| **token master key, keychain** (`token_key_cli.go`, `internal/keychain`) | `vault-token.key`, the Keychain's entry | load, migrate, regenerate | a move between two stores; a file written in place | the key is not lost on the way, and goes on being found |
| **clipboard** (`internal/clipboard`, `commands.go`) | the system clipboard | `copy`: write, sleep, read, compare, clear | other writers in between | only the program's own value is cleared, and it is |
| **import and export codec** (`internal/commands`, `internal/export`) | the export file | `export --output`, `import` | quotes, backslashes and newlines; a file written in place | what was exported comes back; a cut file damages little |
| **reference decryptor** (`tools/reference-decryptor`) | none | reads a container without the program | a second reading of the format | it derives the key the program sealed under |
| **containers and cryptography; health, doctor, inspect, audit log; command table; migrate report; other tools and docs** | none, or append-only | formatting, parsing, reports | – | not protocols |

How they interact: every command process first migrates old runtime files
(no lock), then takes the vault lock, then loads. A password command checks the
rollback state, imports staged token writes into memory, cleans up expired
tokens (which may already mirror), runs, saves the main vault (snapshot, then
`vault.db`, then `rollback-state.json`) and mirrors the result into the shared
vault. A token command uses the shared vault only. `backup` and `restore` copy
`vault.db` beside itself, the recovery commands write and read a snapshot of it
under a second key, and `export` and `copy` take values out of it in plaintext.

## 2. Modules

| module | what it models | in the code |
|---|---|---|
| `FileSystem` | file operations over directories a power loss may undo | the `fileOps` of `storage.go`, `paths.go` creation and `SyncParentDir` |
| `VaultStorage` (extends `FileSystem`) | the save, load and recovery of the main vault, one action per system call, over a directory that may be lost back to any unsynced state | `storage.go` `LoadBytes`, `recoverInterruptedSave`, `cleanupInterruptedSaveMarker`, `SaveFileAtomic`; `paths.go` marker creation and `SyncParentDir` |
| `SharedVaultFile` (extends `FileSystem`) | the shared token vault's load and save, which has neither marker nor fallback | `token.go` `LoadEncryptedVault`, `SaveEncryptedVault`, `SaveVaultFileAtomic` |
| `VaultRegister` | what both protocols promise: one durable register | the abstract specification of both |
| `SyncPolicy` | the merge policy as operators | `internal/sync/sync.go` |
| `TokenCodec` | the compact token's text, signature and claims, and the matching of key patterns, as operators | `token.go` `CreateShortSignedTokenV2`, `ParseAndValidateProductionToken`, `MatchKeyPattern`; `token_manage_cli.go` option checks |
| `TokenSync` (extends `SyncPolicy`) | password and token commands over the two vaults, step by step | `main.go` `runPasswordCommandBytes`, `cmd/vault/sync.go`, the command functions, `token.go` |
| `Rollback` | revisions, the trusted state, the modes, accept; backups and their pruning; restore; recovery keys and the snapshot; temporary files left behind | `internal/rollback/rollback.go`, `storage_bridge.go`, `commands.go`, `restore_cli.go`, `recovery_cli.go` |
| `VaultLock` | processes that migrate, wait, run and die | `lock.go`, `config_cli.go` |
| `KdfPolicy` | which settings may be written, which metadata may be read, and which derivation a file is sealed and read with, by the program and by the reference decryptor, as operators | `config.go`, `kdf_policy.go`, the metadata functions of `storage.go`, `tools/reference-decryptor/main.go` |
| `TokenKey` | the token master key's file, the Keychain and the move between them, one action per call | `token_key_cli.go`, `keychain.go`, `SaveMasterKey` and `LoadMasterKey` |
| `Configuration` (extends `KdfPolicy`, `TokenKey`) | three files and the key under settings that are edited between commands | `config.go` `LoadFile`, the saves and loads of the three files |
| `ExportCodec` | the export text and its reading back, symbol by symbol, as operators | `internal/commands/commands.go` |
| `Plaintext` (extends `ExportCodec`) | export, import and `copy` over the vault, the export file and the clipboard | `commands.go`, `internal/export`, `internal/clipboard` |
| `MC…` | constants and symmetry; what the documents say and the code does not keep; `MCVaultStorageFaults` an auxiliary variable; `MCTokenSync` the tokens and patterns `TokenCodec` is checked over | – |
| `FileSystemProofs`, `VaultStorageProofs`, `SharedVaultFileProofs`, `TokenSyncProofs`, `RollbackProofs`, `VaultLockProofs`, `ConfigurationProofs`, `PlaintextProofs` | lemmas and theorems about the module they are named after | – |

The modules are layers of one system and each rests on the next. `VaultLock`
justifies that the others let one command run at a time. `VaultStorage`
justifies that `TokenSync`, `Rollback` and `Configuration` save the main vault in
one step: `VaultRegister`, which `VaultStorage` implements, is that step, with an
unacknowledged save either stored or not. `SharedVaultFile` implements the same
register and justifies the shared vault's one-step save in the same way.
`TokenKey` says where the key comes from that the shared vault is opened with, and
why `TokenSync` may take it as given until it is regenerated.

**FileSystem.** The directory maps names to files, and `disks` holds every
directory a power loss may leave: each rename, creation or removal adds the
directories in which it also happened, and `SyncParentDir` collapses the set.

**VaultStorage.** `dir` maps the four names to files; a file is the number of the
save that wrote it. `flushed` is the files whose bytes were
written and fsynced. `pc` is the next call of the running command, so an action
is a system call with its outcomes, and its error outcomes lead to the code's
own undo steps. `Faults` says what may fail besides the process. The cipher and
the payload formats are one predicate, `Readable(file, password)`. A save may be
under any password, whatever the one the load was given: that covers later saves of
one command, `change-password`, and the save of the empty vault that a load with a
wrong password may return. What is said of a vault's age is said of saves under one
password (`OnePassword`, `AllSealedWith`); what is said of its being whole is not.

**SharedVaultFile.** The same vocabulary without a marker: a temporary file created
exclusively, two renames with a directory sync after each, and a final `chmod`
whose failure undoes the publish. A load that finds no file starts an empty vault
and does not look at `.bak`, so a process that dies between the renames could make
the next command save a vault built from nothing. `BuildsOnLatest` says that a dying
process never does: what prevents it is the leftover temporary file, on which every
later save fails. That is safe, and it also means that the shared vault stays unusable
until the file is removed by hand. A power loss may undo the creation of the
temporary file but not the first rename, so the property is about dying
processes only; durability (`AckedSurvives`) covers both.

**TokenSync.** A vault is its per-key data and stamps, whether it has a token
manager, and a use count per token. Between `BeginCommand` and the end of a
command, `pc` follows `runPasswordCommandBytes`. Failures that the code only
logs (`MirrorFails`, `ImportSkipped`) are actions, and so is a mirror or an
import that cannot work because `sharedState` is `absent` or `unreadable`. A save
or a mirror that fails, and a token command that returns an error, may have stored
its file all the same (`MirrorStores`, `StoredInDoubt`): the error may come from a
call after the rename, and a process may die there.
History variables hold what the user was told: `allowed` (per key, the last
acknowledged value and those of later attempts that returned an error),
`revoked`, `used`, and `trouble`, the worst thing that has gone wrong:
`tolerated` for a failure the properties withstand, `lossy` for one that
legitimately drops staged writes (the shared vault could not be read, or its
key was replaced).

`MCTokenSync` adds `TokenCodec`: wherever `TokenSync` has a token that can be used,
its text is accepted and its pattern means what it says (`TextsMeanWhatTheySay`). A text is a sequence of
symbols in which only `:` and `,` are told apart, a signature is the pair of key and
payload, and base64 counts only by its length, since the padding the program strips
must be restored from it. `MatchKeyPattern` is modelled by what it does (quote,
replace `\*` by `.*`, match anchored) and compared with a definition without regular
expressions, `Admits`. How a command line is split into options, and how lines are
printed, are left out.

Stamps are readings of one clock that does not go back. All keys of one command
share a reading, as they share a `now` in the code; two commands never do. The
system starts without a vault, or with vaults of a release before sync metadata,
whose values have no stamps (`UnstampedVaults`), perhaps with a staged value.

**Rollback.** `saves` numbers the contents. `fresh` is the save last
acknowledged or accepted; `top` and `reused` tell whether a revision was stored
twice; `excused` records how the trusted state can lose track: a save cut short
before it, a state of another vault or of a lower revision, and a state that
somebody deletes or damages (`LoseState`; a damaged one is `Unreadable`). A state save
that fails after its rename reports an error and is in force (`SaveStateFailsLate`).
Old copies can be put back outside the program (`PutBack`). `dated` and `pre` are the two
kinds of copies in the order of their names, which is the order `backup` prunes in:
a time sorts before "pre-restore", so dated copies go first. A copy cut short
(`Torn`) holds no vault and still counts. `left` is the fixed temporary names that an
interrupted command left; each is created exclusively and blocks whatever needs it
next. A recovery key is named by the save that set it up: the vault's `key` is its
verifier, the snapshot's the key that opens it. A restore is three steps, the
pre-restore copy, `vault.db.restore.tmp`, the rename, and then the acceptance.

**ExportCodec, Plaintext.** A text is a sequence of symbols, one for each kind of
character that quoting, line splitting and trimming tell apart, so that `RoundTrip`
is about the real functions and not about an identity. The loops of
`SplitImportLines` and `ParseImportValue` are functions from the number of passes to
the variables of the code, with one operator for what a symbol does (`SplitSymbol`,
`UnquoteSymbol`). The keys are closed under the trimming that import does to them
(`KeysAssumption`): an export lists every key of the vault, and what is left of a
trimmed one may be the vault's next. `export` truncates its file in
place and may stop at any symbol. The clipboard is told by whose text it holds:
`secret` while a `copy` has still to clear it, `left` when none will, `other`.
`OtherCopies` is always possible, between the read and the write of
`ClearIfUnchanged` too.

**KdfPolicy, TokenKey, Configuration.** A derivation is the record of its parameters
and stands for the key it yields. A file carries the derivation it was sealed under
(`kdf`) and what it says about it (`meta`); it opens if reading it under today's
settings arrives at the same derivation. Files of earlier releases say nothing and
are read with the scrypt settings. What the reference decryptor refuses and derives
(`ReferenceAllows`, `ReferenceDerivation`) is translated from its own source, which
shares no code with the program. `EditConfig` replaces the settings by any
others, acceptable or not, between commands: commands do nothing while they are not.
`ChangeSession` makes the Keychain come and go, as another login or `PATH` does.
The key file is truncated and then written, as `SaveMasterKey` does; a key that was
generated and is not stored anywhere is never used to seal a vault. Nothing syncs
that file: `onDisk` holds what a power loss may leave of it, until the kernel writes
it back (`Flush`), and `hurt` records that a power loss took a key.

**VaultLock.** The lock file is an inode, because that is what `flock` locks:
renaming another file onto the name while a process has the old one open gives
two locks. `vault.db` and `vault.db.bak` hold the number of updates they contain, a
save is its two renames and a load falls back to the backup, enough to see an update
lost or a gap filled. The migration is modelled for these two and the lock file, in
the order of the list, since the protocol reads no others; the list's other names (the
same loop over files that nothing in this module looks at), permission hardening and
the copy that replaces a rename across file systems are left out. A process with a finite sleep may oversleep.

## 3. Runs

Runs that pass:

| run | question | bounds |
|---|---|---|
| `VaultStorageFaults` | Does the store keep every acknowledged save, never open something older, implement the register, and let the next save start after an open that found a vault, when writes and directory syncs fail, the process dies and power is lost anywhere? | 4 saves and any loads, each under either of two passwords, `Faults = {write, power}` |
| `TokenSync` | Is the merge right, does it settle, does the preview agree, do revoked tokens stay revoked and usable ones listed, with every failure; do live tokens stay usable, and are they accepted for the right keys? | 1 key, 2 values, 1 token with one use, 5 clock readings; patterns and keys of up to 3 symbols |
| `SharedVaultFile` | Does the shared vault's file keep every acknowledged save, is every save built on the latest one, and does it implement the register? | 4 saves, `Faults = {write, power}` |
| `Rollback` | What does passing the rollback check mean; can a revision name two vaults; is a "current" snapshot current and a "valid" recovery key valid; is the last backup kept? | 4 saves, `max_backups` 1, 2 copies, modes warn and block |
| `Configuration` | Can what was saved be opened under any later settings; by the reference decryptor too; is the shared vault's key kept and found through every move, failure and change of session? | 2 values of scrypt N, an allowed and a refused Argon2 memory, both KDFs, all storage settings, 2 keys |
| `Plaintext` | Does an export come back, what does a cut one do, is the clipboard cleared of the secret and of nothing else? | 3 keys, 9 values, 2 values set |
| `VaultLock` | One command at a time, no update lost, no giving up without cause, no waiting forever | 2 processes, timeout 3, retry delay 1, updates up to the fifth (the old vault has two) |

*VaultStorage.* Two saves make a stale backup possible, a third lets an
interrupted save meet the leftovers of an earlier one, the fourth is a margin.
Two passwords are one that opens a file and one that does not; any save may change
which is which. The theorems cover any number of both. Once saves were under two
passwords, a load may fall back to an older vault or an empty one (see
below), so `NoStaleOpen`, `IsRegister` and the second half of
`AckedSurvives` speak of histories under one; the first half of `AckedSurvives`, that a
complete vault is there, and the part of `TypeOK` that no incomplete file is ever called
a vault, speak of all. `read` faults are excluded from the passing run:
a read that fails once on an intact `vault.db`, with a marker present, restores
the older backup. `SavableAfterOpen` is stated with an auxiliary variable, `stuck`:
a clean-up whose own removals fail may of course leave files.

*TokenSync.* A command's import and its own change may each read the clock, so
five readings are two full master mutations and a token write, or one with three,
in any order. Four are what a conflict takes: a value in both vaults, a newer change of one,
and a merge; unstamped vaults start at the first reading, and what an import makes of
an unstamped value after a failed mirror shows only at the fifth. One key is
enough, since no operation relates two: what happens to a key while a command changes
another is the case in which it is not among the keys of `SetKeys` or `RemoveKeys`, which
may be none. One token is enough for the same reason. The theorems cover any number of
either. Values are interchangeable, hence the symmetry; no liveness is checked there.
Commands that change no stamp are not bounded. `CHECK_DEADLOCK FALSE`, since no command
is started once the clock has reached its bound. Patterns of three symbols put a wildcard, a dot or a backslash before, after
and between any others; keys are as long. The codec's operators are evaluated in the
states that have a token to which they apply.

*Rollback.* Reusing a revision takes two saves and an old copy; a snapshot that
lies takes a save with the key, one without, and a crash; two recovery keys and a
cut save between them take three; the fourth meets what a lost state or a reused
revision leaves. A vault from before revision metadata is one
of the initial states, and counts as a save. With one backup to keep and two copies
in all, every split of the two between dated, pre-restore and cut copies occurs, and
a second dated copy is what makes `backup` prune.
The mode `off` is left out of the instance: it differs from `warn` in what is printed
and not in what a command does.

*Plaintext.* The keys are a plain one, one that reads as a comment, and one whose last
character import trims; the values put quotes, backslashes, newlines, `#`, `=` and
spaces at the edges and next to one another. Two values set are two entries whose
texts meet in one file, or a value changed after the export.

*SharedVaultFile.* As for `VaultStorage`: a leftover of one save, met by a second,
and its effect on a third, with one to spare.

*Configuration.* Two values of a parameter tell an edit from none, and a refused one
the settings that stop the program. `scrypt_r` has the one value 8 here, because
the two policies differ above it, which `ConfigurationScryptR` shows with 16; the
same assumption is `LimitsAgree` of the theorem. Two keys are one to move, and one
generated in another store, or after a short file, or to replace the first. Power may
be lost at any step.

*VaultLock.* Two processes suffice for every race between a holder and a waiter
and between two migrations. The theorems cover any number. In this run there is
neither `vault.db` nor `vault.db.bak` in the home at the start and every process is run
from the old directory, so that the migration runs under its safe conditions, which
are assumptions of the theorems.

### Disagreements found

Each of these runs checks one statement of the repository's documents, and TLC
shows the code not keeping it.

- `VaultStorageRekey` (`BadPasswordKeepsPrimary`): "A bad password against an
  existing vault must fail instead of trying stale data" (`storage.go:63-64`).
  After `change-password` dies past its last rename and before it removes the
  marker, opening with the *former* password fails on the new vault, opens the
  backup, and renames it over the intact new vault.
- `TokenSyncUsesBounded` (`UsesBounded`): a token with `--max-uses=1` is said to
  be rejected on its next use (`CHANGELOG.md:522`). Uses are counted in the shared
  vault only, and the mirror after a master change replaces its token manager by
  the main vault's, whose counts never move.
- `TokenSyncDeletesStayDeleted` (`DeletesStayDeleted`): mirroring is said to keep
  deletes deleted (`docs/user-manual.md:525`). If the mirror after a delete fails,
  which is only logged, the next import brings the key back: it does not look at
  the main vault's `DeletedAt`.
- `ConfigurationScryptR` (`ScryptVaultsReadable`): `scrypt_r` may be 1 to 16
  (`docs/user-manual.md:582`, `config.go:97`) and scrypt vaults are said to remain
  readable (`docs/security.md:180`). The loading policy refuses `r` above 8
  (`kdf_policy.go:127`), so with `kdf` set to `scrypt` and a larger `r` every save
  succeeds and none of the saved vaults can be opened again.
- `VaultLockSerialized` (`Serialized`): the lock is said to serialise processes
  while they access runtime files (`docs/user-manual.md:531`). The migration runs
  without it, and can rename an old `vault.db` into the gap between the two
  renames of another process's save.

Met while modelling, and not runs of their own:

- `Load` is said to create "an empty vault when no persisted vault exists"
  (`storage.go:43-45`). After a process died between the two renames of a save,
  `vault.db.bak` is the vault, and a load with a wrong password returns a new empty one
  without an error. A command may save it: the leftovers of the interrupted save are
  all that is in its way, and the load removes them. The save after that replaces
  `vault.db.bak` too.
- A load that falls back to `vault.db.bak`, because `vault.db` is missing, returns
  before the clean-up, and a leftover `vault.db.tmp` then makes the save that follows
  fail (`SavableAfterOpen` is about opens that found `vault.db`).
- A process that dies between the two removals of the clean-up leaves
  `vault.db.tmp` without its marker; if there is no vault yet, nothing removes it and
  every save fails on its exclusive create, although an interrupted first run is
  said to be cleaned (`CHANGELOG.md:254`).
- After `regenerate-token-key` tokens are to be recreated
  (`docs/security.md:329-331`), but the mirror in `create-token` must first open the
  shared vault of the old key, and cannot.
- In block mode `rollback-accept` is said to end the blocking
  (`docs/rollback-policy.md:154-155`); for a vault without revision metadata
  `SaveState` refuses, so nothing does.
- With `rollback-state.json` gone, a vault from before revision metadata passes in block
  mode too: it looks like the first run after an upgrade (`NoUnnoticedRollback` says so).
- The token key's file is written without a sync, the shared vault sealed under it with
  one. A power loss soon after the first token command may leave the vault and not its
  key; `hurt` marks it, and `KeyKept` and `KeyStable` hold otherwise.
- `create-token` and `revoke-token` save the shared vault before the main one: until the
  next mirror, a process that dies between the two leaves a token that can be used and
  is not listed, or the other way round (`trouble` excuses it).
- The import is skipped with a warning when the shared vault cannot be read; if it can
  be at the end of the same command, the mirror overwrites what was staged there.
- A token key generated in one store while the shared vault is sealed under that of
  the other, after an edit of `token_key_storage` or in another session, makes the
  shared vault unreadable until the setting is put back; the old key is still there.
- `max_backups` counts pre-restore copies, and dated ones are pruned first: with that
  many pre-restore copies, `backup` makes a backup, prunes it and reports it created,
  although the newest backups are said to be kept (`docs/user-manual.md:593`).
  `restore` never prunes, and one that fails later still adds its copy.
- A restore interrupted before its rename leaves `vault.db.restore.tmp`, on which every
  later restore fails; a save with the recovery key interrupted in the snapshot leaves
  `vault.db.recovery.tmp`, on which every such save fails, `recover` included; a state
  save interrupted leaves `rollback-state.json.tmp`, on which every save reports an
  error. Nothing in the program removes them.
- After a `setup-recovery` cut between the snapshot and the vault, `test-recovery`
  accepts the former key, which no longer opens the snapshot.
- A shared value without a stamp always wins, also over a main value that a later
  command has stamped. So with a vault of an earlier release, a `set` whose mirror fails
  is undone by the next import, although the next successful save is said to make
  later decisions timestamp-based (`docs/token-sync-policy.md:122`): a save stamps the
  keys it changes, in the main vault only. `Uncompared` names these values, and
  `NoStaleImport` takes them as they come. The attempt to prove `NoStaleImport` found
  this one: it takes five clock readings, one more than the run had.
- A restored vault is older than the shared one, so the next command imports from it
  some of what the restore was to take back.
- `key_size` may be 16 or 24 (`docs/user-manual.md:584`). The reference decryptor refuses
  such containers, so `ReferenceReads` is about 32, the only size the format document
  shows (`docs/format.md:65`).
- A key may begin or end with white space that `ValidateKey` allows and import trims (a
  vertical tab, a no-break space), and then comes back under another name; hence
  `Importable`. The import of a cut export reports success.
- `ClearIfUnchanged` says that it clears only what still is the copied value
  (`clipboard.go:52`); a text copied between its read and its write is cleared too. A
  killed `copy` or a failing tool leaves the secret, and `copy` holds the vault lock
  for its whole time to live.

Besides, `docs/rollback-policy.md` says a
missing trusted state is initialised from the loaded vault, and the code never
does that, so in block mode a lost `rollback-state.json` blocks; read-only
commands do save when their import changed something; a staged empty value is
never imported into a vault without the key, since a missing key reads as empty;
the automatic clean-up compares the main vault's use counts, which stay 0, so it
removes expired tokens but never used-up ones. And if only one of two processes is
run from a directory that has an old lock file, while the home has none, mutual
exclusion itself fails: the lock file is renamed over one already held. `doctor`'s
freshness checks compare modification times (`doctor_cli.go:267`, `:341`): a save with
the recovery key writes the snapshot before the vault and a mirror writes the shared
vault after it, so right after either, with nothing out of date, `doctor` may warn of
an old snapshot or of token writes to be synchronised.

## 4. Fairness

`VaultLock` and `Plaintext` state liveness. `VaultLock`'s `FairSpec` assumes that time
passes while someone waits (`WF(Tick)`) and that a process that is waiting for the lock
is scheduled (`WF(TakeLock(p))` for each process: it wakes, tries, gives up). Nothing
is assumed of the process that holds the lock, nor of a process that is migrating:
commands ask the user questions under the lock and `copy` sleeps under it, so
neither need ever move. `StopsWaiting` holds because of the timeout, and not
because the lock is released.

`Plaintext`'s `Spec` assumes weak fairness of `ReadClipboard` and `ClearIfUnchanged`: the
sleep of a running `copy` ends, and the process then goes on. That its tool may fail
instead, or that the process is killed, is the action `CopyAborts`, after which the
secret counts as left behind. Nothing makes the user enter a command, another program
use the clipboard, or an export be written. `SecretLeavesClipboard` follows because what
is read is what was written, unless somebody else has written since.

The other modules are about what must never happen, and a process may stop at any step
there.

## 5. Proofs

Checked by TLAPS for every value of the constants. `FileSystemProofs` holds the
lemmas on the file operations that the two storage protocols share: what a rename,
a creation, a removal and a directory sync leave on every possible disk.

**`VaultStorageProofs!TypeCorrect`**: `Spec => []TypeOK`, with no assumption. That no
incomplete file is ever called a vault (`WholeFiles`) comes out of `StepInv` below.

**`VaultStorageProofs!SaveIsDurable`** and **`OpensAreCurrent`**: given `ReliableReads`
(reading an existing file does not fail), `Spec => []AckedSurvives` and
`Spec => []NoStaleOpen`, for any number of saves under any passwords and any mixture of
crashes, power loss and failing writes. That the saves are under one password is not
assumed but a condition in the properties, on what is said of a vault's age. Both are
needed: `VaultStorageRekey` is a counterexample without the condition, and a failing read
with a marker present is one without the assumption. `AckedSurvives` is not
inductive: it does not say what a recovery has found, or why the two-rename publish
never exposes an incomplete file. `StepInv` adds

- `FilesComplete`: whatever the disk holds, `vault.db` and `vault.db.bak` are
  absent or complete;
- `DisksCurrent`: the vault of every possible disk is complete and, while the saves are
  under one password, at least as new as the last acknowledged save;
- `LoadState`: what the load's local variables mean, in particular that a backup
  about to be restored is current;
- `SaveState`: what is in place at each step of a save, in particular that the
  temporary file is complete before it is renamed.

Lemma `RenameSafe` treats the protocol's three renames on every possible disk, and
`KeptSuffices` the steps that touch neither the vault nor the backup.

**`VaultStorageProofs!Implements`**: under the same assumption `Spec => IsRegister`.
The refinement mapping is `Logical(dir)`, the file that counts as the vault. The commit
point is the rename of the temporary file; a park, its undo, a recovery or a power loss
may each change which file counts, and `StepRefines` shows that the register's `Settle`
allows each of those changes, because `StepInv` keeps what is stored between the last
acknowledged save and the last one begun (`InRange`).

**`VaultStorageProofs!OpensAreSavable`**: `FaultySpec => []SavableAfterOpen`, for
any passwords and faults, reads included. `CleanInv` follows the clean-up of a load
(`LoadCleansUp`) and the last steps of a save (`SaveCleansUp`), and says that a load which
found no `vault.db` goes on without one until it restores the backup (`MissingKnown`).

**`SharedVaultFileProofs!TypeCorrect`** (no incomplete file under the vault's name or the
backup's, again) and **`SharedVaultFileProofs!SaveIsDurable`**: `Spec => []TypeOK` and `Spec => []AckedSurvives`, for any number of saves and any
faults. `StepInv` is again in three parts: on every possible disk the vault and its
backup are absent or complete (the set `Complete`), the vault that a disk amounts to
is at least as new as the last acknowledged save (the set `Current`), and
`SaveState` says what is in place at each step, including the undo after the failed
`chmod`. **`SavesBuildOnLatest`**: `Spec => []BuildsOnLatest`, from a second invariant
(`BaseState`): while no power is lost and no undo fails itself, the shared vault's file is
the last acknowledged one or a later one, or a temporary file is there that stops the next
save. **`Implements`**: `Spec => IsRegister`, with no assumption.

**`TokenSyncProofs`**, for any keys, values, tokens, limits and number of commands:

- **`TypeCorrect`**: `Spec => []TypeOK`. `Base` strengthens it by what a vault can be:
  no stamp is of the future, a deleted key has no value, a listed token was created; and
  the clock is far enough from its bound for the running command to finish.
- **`ImportsAreComplete`** and **`PreviewsAreExact`**: `Spec => []ImportSettles` and
  `Spec => []PreviewAgrees`, from `Base` and the operators of `SyncPolicy` alone.
- **`RevocationHolds`**: `Spec => []RevokedStaysRevoked`. `RevokedInv` says that a revoked
  token is in none of the three copies (main, shared, memory), any of which may be saved
  or mirrored, and what is already so while the revocation is under way.
- **`TokensAreListed`** and **`LiveTokensStay`**: `Spec => []UsableTokensAreListed` and
  `Spec => []LiveTokensAreUsable`. `ListedInv` and `LiveInv` relate the three copies of the
  registry and their use counts at each step, while nothing fails. That a cleanup
  loses no live token rests on the main vault's counts never moving.
- **`LastWriteHolds`** and **`ImportsAreFresh`**, given `NoEmptyValue` (the empty text is
  not among the values): `Spec => []LastWriteWins` and `Spec => []NoStaleImport`. The
  invariant is per key (`KeyInv`): what the next import would make of the two vaults may be
  there (`Fresh`), and so may what the running command has in memory (`Held`); a change
  that the command has still to mirror is newer than everything else (`Staged`), and the
  next import leaves every other key as it is (`Settled`). Neither property is
  inductive: they say nothing of stamps, nor of the shared vault. The assumption is
  needed: the code accepts an empty value, and a staged one is never imported into a vault
  without the key, because a missing key reads as empty (see above). **`LastWritesAreRead`** is what holds without it: a reader who cannot tell a
  missing key from an empty value reads the last acknowledged one.
- **`TextsAreMeant`**: `Spec => []TextsMeanWhatTheySay`, from two theorems about `TokenCodec`
  alone, for texts of any symbols and of any length.
  **`CreatedTextsAreAccepted`**: the text of any token whose options were accepted is
  accepted under the same key; `SplitJoin` gives back the fields that are joined, as long as
  none has the separator in it, and the list of permissions, a text of its own, has no `:`.
  **`PatternsMeanWhatTheySay`**: `MatchKeyPattern(pattern, key) <=> Admits(pattern, key)`.
  The expression is a sequence of blocks, one for each symbol of the pattern (`QuoteBlocks`);
  only the block of a star has a backslash before a star, for no block begins with one
  (`WildBlocks`); and from its end on, the expression matches block by block where the
  pattern admits symbol by symbol (`MatchesBlock`).

**`RollbackProofs`**, for any number of saves, copies and kept backups, and any modes:

- **`TypeCorrect`**: `Spec => []TypeOK`. `TypeInv` says that no number in a file is newer
  than the saves attempted, whatever old files come back (`PastFiles`), and where the file
  in hand at each step comes from.
- **`RevisionsStayUnique`**: `Spec => []RevisionsUnique`, a lost or damaged trusted state
  being one of the excuses. Until something is excused, the
  trusted revision is behind none that was stored of its vault, but for the step between
  `vault.db` and `rollback-state.json` (`Tracks`).
- **`RollbackNoticed`**: `Spec => []NoUnnoticedRollback`. Until a revision is used twice, a
  higher one is of a later save, and one no lower than the trusted revision is no older
  than the last acknowledged or accepted vault (`Ordered`). This needs no excuse for a
  lost state: in block mode the check lets nothing pass without one, but a vault without
  revisions, which the property names.
- **`FreshnessHolds`** and **`KeysHold`**: `Spec => []FreshnessIsHonest` and
  `Spec => []TestRecoveryIsHonest`. `SnapshotCurrent` speaks of every file that may come
  back, and both it and `KeysAgree` of the steps between snapshot and vault.
- **`BackupsStay`**: `Spec => []BackupKept`, inductive as it stands; the work is in the
  sequences: what a prune of names in order leaves (`SequenceTheorems`).

**`ConfigurationProofs!TypeCorrect`**: `Spec => []TypeOK`, with the strengthening that a
key found in the key file was generated.

**`ConfigurationProofs!SavedOpens`** and **`OpeningHolds`**: given `LimitsAgree` (no
value of `scrypt_r` that the settings may take is above the loading policy's 8),
`Spec => []SavedFilesOpen` and `Spec => KeepsOpening`. `FilesInv` says that each file's
metadata is allowed and names the derivation it was sealed under, whatever the settings
were; the theorem then needs nothing about edits, and `KeepsOpening` rests on `OpensAlike`: reading
depends on the settings only through those of scrypt. Without `LimitsAgree` both are
false, as `ConfigurationScryptR` shows of the first. **`ReferenceAgrees`**:
`Spec => []ReferenceReads`, a main vault saved with a `key_size` of 32 is
accepted by the reference decryptor, which derives the key it was sealed under;
`LimitsAgree` is not needed there. **`TokenKeyKept`** and **`TokenKeyStable`**:
`Spec => []KeyKept` and `Spec => KeyStable`, for any number of keys and edits.
`KeyInv` says what each step of the move leaves in both stores, and that the key a
command holds is one that is stored. Power may be lost anywhere; `hurt` excuses a key
that was only in the file and not yet on the disk.

**`VaultLockProofs!TypeCorrect`**, **`MutualExclusion`** (given `SameLockFile`:
there is no old lock file to move in, or every process is run from the directory
that has it) and **`UpdatesKept`** (given also `SameVaultFile`: there is no old
`vault.db` or `vault.db.bak` to move in, or they are the only ones and every process
moves them in first), for
any set of processes, timeout and number of updates. `LockInv` says that every
process that waits or runs has the file now named as the lock open, and that a
running one holds it; `VaultInv` that nobody is past the migration while an old
vault waits to be moved, and what a running command knows about the file.
**`TimeoutsAreHonest`**: `Spec => GivesUpOnlyWhenBusy`, with no assumption on where the
lock files come from. `HolderInv` says that a lock is held only by a process between
lock and unlock that has that very file open, so that a process that died never makes
another one give up.

**`PlaintextProofs`**, for any keys and values (`KeysAssumption`, `ValuesAssumption`: they
are texts, the keys allowed ones, closed under trimming) and any number of commands.
Most of the module is about the codec alone, where nothing but the texts is involved:

- The loops of the code are runs of steps (`Splitting`, `Unquoting`, `ImportRun`), which
  `Recursion` shows to exist; what holds after each pass goes by induction over positions
  (`UpTo`, from the well-foundedness of the natural numbers).
- `Quoting` and `LineLayout` say at which position of a line each symbol of key and value
  stands; an escape takes four.
- `QuoteIsRead` is the heart. Both readers keep track of open quotes and escapes in the
  same way (`ModeRun`). Reading a text that shows a quoted value, as far as it goes, they
  find an escape where one was written, and nowhere else: no backslash of the value can
  complete one, since what follows a value's quote is always the escape's own backslash. So
  the quote stays open up to its last symbol.
- Hence `UnquoteCut` (of a beginning of a quoted value, `ParseImportValue` makes a beginning
  of the value or an error; of the whole, the value), `SplitEntry` (no newline of a value
  ends its line) and `EntryOfCut` (what a beginning of a line sets).
- `ImportOfCut` puts the lines together: the import of the first c symbols of an export sets
  the keys of the lines before the cut, and the one at the cut at most.

The state machine adds little. `Inv` says that the export file is a beginning of the export
of the vault that it was opened for, and all of it when it is complete (`FileInv`), and the
theorems are **`TypeCorrect`** (`Spec => []TypeOK`: vaults stay vaults, whatever part of an
export is imported), **`RoundTrips`** (`Spec => []RoundTrip`) and
**`InterruptionsAreContained`** (`Spec => []InterruptedExport`). **`ClipboardHolds`**:
`Spec => ClearsOwnText`, from `ClipInv`: where `copy` has read its own text and another one
is there now, that one came after the read.

Only model-checked: liveness (`StopsWaiting`, `SecretLeavesClipboard`), which is out of
the prover's reach. The statements that runs refute are, of course, not theorems.

## 6. Not modelled, and what comes next

Not modelled because they are not protocols: byte formats and ciphers, terminal
output, the audit log (appended to and never read back), help texts and the command
table (beyond which commands mirror), the `migrate` report, build tools and the
documentation site. `health`, `doctor`, `inspect` and `stats` change no file and keep no
state: each looks once at each file and prints. What one of their statements depends
on is in the module of the state it speaks of (`FreshnessIsHonest`,
`TestRecoveryIsHonest`), and the modification times of `doctor` are discussed above.

In the modelled components, these are left out: legacy payload formats; the arguments of commands; permissions;
local-time backup names when the clock steps back, and characters of glob patterns in
the vault's path; the copy that replaces a rename across file systems in the migration
(`config_cli.go:280-305`: if it dies in the middle, a part of `vault.db` in the home
hides the intact old one).

Built so far, in this order: `VaultStorage` with `VaultRegister`, `SyncPolicy` and
`TokenSync`, `Rollback`, `VaultLock`, `SharedVaultFile` (which moved the file
operations into `FileSystem`), `KdfPolicy`, `TokenKey` and `Configuration`, `ExportCodec`
and `Plaintext`, backups and recovery keys in `Rollback`, the reference decryptor in
`KdfPolicy`, `TokenCodec`, vaults without sync metadata in `TokenSync`. Next in the
models: the migration's copy in `VaultLock`, and with it the names of the list that only
other modules read.

Proofs next: what `VaultStorageProofs` says of a vault's age after `change-password`, if
no recovery is ever given a former password.
