------------------------------- MODULE TokenKey -------------------------------
(***************************************************************************)
(* Where the token master key lives: cmd/vault/token_key_cli.go over the   *)
(* key file of internal/token/token.go and the macOS Keychain of           *)
(* internal/keychain.  The key moves from the file to the Keychain at its  *)
(* first use there.  Keys are numbered in the order they are generated.    *)
(***************************************************************************)
EXTENDS Naturals

CONSTANT MaxKeys  \* bound: how many keys are generated

ASSUME MaxKeysAssumption == MaxKeys \in Nat \ {0}

VARIABLES
  config,     \* vault-config.json; its field storage is token_key_storage
  available,  \* the macOS Keychain can be used (keychain.Detect)
  keyFile,    \* vault-token.key: a key, Absent, or Short: truncated
  onDisk,     \* what a power loss may leave of it
  keychain,   \* the Keychain's entry: a key or Absent
  issued,     \* the last key generated
  rotated,    \* regenerate-token-key was confirmed
  hurt,       \* power was lost before a key in the file was on the disk
  pc,         \* the next call of the running command
  key         \* the key it holds

file    == <<keyFile, onDisk>>
stores  == <<file, keychain>>
ghosts  == <<rotated, hurt>>
keyVars == <<available, stores, issued, ghosts, pc, key>>

Keys   == 1..MaxKeys
Absent == 0
Short  == MaxKeys + 1

KeySteps == {"loadKeychain", "migrate", "saveMigrated", "removeFile", "saveGenerated",
             "loadFile", "truncateFile", "writeFile", "haveKey",
             "rewriteFile", "writeRotated", "saveRotated"}

Goto(from, to) == pc = from /\ pc' = to

UseKeychain == config.storage # "file" /\ available

\* token_key_storage="keychain" is an error where there is none
StorageUsable == config.storage = "keychain" => available

\* mutant: the new key is not the one that is stored
GenerateTwice ==
  /\ issued < MaxKeys
  /\ issued' = issued + 1
  /\ key' = issued + 2

Generate ==
  /\ issued < MaxKeys
  /\ issued' = issued + 1
  /\ key' = issued + 1

-----------------------------------------------------------------------------
(* getOrCreateTokenMasterKey: the key file                                  *)

BeginGetKey ==
  /\ StorageUsable
  /\ Goto("idle", IF UseKeychain THEN "loadKeychain" ELSE "loadFile")
  /\ UNCHANGED <<available, stores, issued, ghosts, key>>

\* A key of the wrong length is an error, and so is a file that cannot be read
LoadFile ==
  /\ \/ keyFile \in Keys /\ Goto("loadFile", "haveKey") /\ key' = keyFile /\ UNCHANGED issued
     \/ keyFile = Absent /\ Goto("loadFile", "truncateFile") /\ Generate
     \/ keyFile # Absent /\ Goto("loadFile", "idle") /\ UNCHANGED <<issued, key>>
  /\ UNCHANGED <<available, stores, ghosts>>

\* Neither the file nor its directory is synced
Put(content) == keyFile' = content /\ onDisk' = onDisk \cup {content}

\* SaveMasterKey truncates the file it writes: open, write, close, chmod
TruncateFile ==
  /\ Goto("truncateFile", "writeFile") \/ Goto("rewriteFile", "writeRotated")
  /\ Put(Short)
  /\ UNCHANGED <<available, keychain, issued, ghosts, key>>

WriteFile ==
  /\ \/ Goto("writeFile", "haveKey") /\ Put(key)
     \/ Goto("writeRotated", "idle") /\ Put(key)
     \/ pc \in {"writeFile", "writeRotated"} /\ pc' = "idle" /\ (Put(keyFile) \/ Put(key))
  /\ UNCHANGED <<available, keychain, issued, ghosts, key>>

-----------------------------------------------------------------------------
(* getOrCreateKeychainTokenMasterKey                                        *)

\* Anything but "not found" is an error, a locked Keychain for one
LoadKeychain ==
  /\ \/ keychain \in Keys /\ Goto("loadKeychain", "haveKey") /\ key' = keychain
     \/ keychain = Absent /\ Goto("loadKeychain", "migrate") /\ UNCHANGED key
     \/ Goto("loadKeychain", "idle") /\ UNCHANGED key
  /\ UNCHANGED <<available, stores, issued, ghosts>>

\* mutant: the file's key is not looked for
MigrateNothing ==
  /\ Goto("migrate", "saveGenerated") /\ Generate
  /\ UNCHANGED <<available, stores, ghosts>>

Migrate ==
  /\ \/ keyFile \in Keys /\ Goto("migrate", "saveMigrated") /\ key' = keyFile /\ UNCHANGED issued
     \/ keyFile = Absent /\ Goto("migrate", "saveGenerated") /\ Generate
     \/ keyFile # Absent /\ Goto("migrate", "idle") /\ UNCHANGED <<issued, key>>
  /\ UNCHANGED <<available, stores, ghosts>>

\* mutant: the error of the Keychain is dropped
SaveMigratedUnchecked ==
  /\ Goto("saveMigrated", "removeFile")
  /\ keychain' \in {keychain, key}
  /\ UNCHANGED <<available, file, issued, ghosts, key>>

SaveMigrated ==
  /\ \/ Goto("saveMigrated", "removeFile") /\ keychain' = key
     \/ Goto("saveMigrated", "idle") /\ UNCHANGED keychain
  /\ UNCHANGED <<available, file, issued, ghosts, key>>

\* A failed removal is a warning
RemoveFile ==
  /\ Goto("removeFile", "haveKey")
  /\ Put(keyFile) \/ Put(Absent)
  /\ UNCHANGED <<available, keychain, issued, ghosts, key>>

SaveGenerated ==
  /\ \/ Goto("saveGenerated", "haveKey") /\ keychain' = key
     \/ Goto("saveRotated", "idle") /\ keychain' = key
     \/ pc \in {"saveGenerated", "saveRotated"} /\ pc' = "idle" /\ UNCHANGED keychain
  /\ UNCHANGED <<available, file, issued, ghosts, key>>

-----------------------------------------------------------------------------
\* regenerate-token-key: saveTokenMasterKey of a new key, in the store in use
BeginRotate ==
  /\ StorageUsable
  /\ Goto("idle", IF UseKeychain THEN "saveRotated" ELSE "rewriteFile")
  /\ Generate
  /\ rotated' = TRUE
  /\ UNCHANGED <<available, stores, hurt>>

Crash ==
  /\ pc # "idle"
  /\ pc' = "idle"
  /\ UNCHANGED <<available, stores, issued, ghosts, key>>

\* The kernel writes the file back in its own time
Flush ==
  /\ onDisk' = {keyFile}
  /\ UNCHANGED <<available, keyFile, keychain, issued, ghosts, pc, key>>

\* The Keychain keeps what it stored
PowerLoss ==
  /\ keyFile' \in onDisk
  /\ onDisk' = {keyFile'}
  /\ pc' = "idle"
  /\ hurt' = (hurt \/ (keyFile \in Keys /\ keyFile' # keyFile))
  /\ UNCHANGED <<available, keychain, issued, rotated, key>>

\* Another session, another PATH: the Keychain comes and goes between commands
ChangeSession ==
  /\ pc = "idle"
  /\ available' = ~available
  /\ UNCHANGED <<stores, issued, ghosts, pc, key>>

GetKey ==
  \/ LoadFile \/ TruncateFile \/ WriteFile
  \/ LoadKeychain \/ Migrate \/ SaveMigrated \/ RemoveFile \/ SaveGenerated

\* The key a command would be given now
KeyInUse == IF UseKeychain /\ keychain # Absent THEN keychain ELSE keyFile
=============================================================================
