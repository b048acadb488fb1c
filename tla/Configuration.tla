---------------------------- MODULE Configuration ----------------------------
(***************************************************************************)
(* What editing vault-config.json, or running in another session, does to  *)
(* files already written: the vault, its recovery snapshot and the shared  *)
(* vault, each with the derivation it was sealed under (KdfPolicy), and    *)
(* the token master key the shared vault needs (TokenKey).                 *)
(*                                                                         *)
(* Saves are one step (VaultStorage, SharedVaultFile), and the passwords   *)
(* are right.  A command uses the configuration it started with, so edits  *)
(* come between commands.                                                  *)
(***************************************************************************)
EXTENDS KdfPolicy, TokenKey

VARIABLES
  main,      \* vault.db
  recovery,  \* vault.db.recovery
  shared,    \* shared-token-vault.json
  sealedKey  \* the token master key shared is sealed under, Absent if there is none

files == <<main, recovery, shared, sealedKey>>
vars  == <<config, keyVars, files>>

-----------------------------------------------------------------------------
\* A password command that saves.  The snapshot is renewed if the recovery key
\* is at hand.
SaveVault ==
  /\ pc = "idle" /\ Validate(config)
  /\ main = NoFile \/ Opens(main, config)
  /\ main' = File(KDFConfig(config), config)
  /\ recovery' \in {recovery, File(HKDF, config)}
  /\ UNCHANGED <<config, keyVars, shared, sealedKey>>

Recover ==
  /\ pc = "idle" /\ Validate(config)
  /\ Opens(recovery, config)
  /\ main' = File(KDFConfig(config), config)
  /\ recovery' = File(HKDF, config)
  /\ UNCHANGED <<config, keyVars, shared, sealedKey>>

\* The mirror and the token commands read the shared vault before they replace it
SaveShared ==
  /\ Goto("haveKey", "idle")
  /\ \/ /\ shared = NoFile \/ (Opens(shared, config) /\ sealedKey = key)
        /\ shared' = File(HKDF, config)
        /\ sealedKey' = key
     \/ /\ shared # NoFile /\ ~(Opens(shared, config) /\ sealedKey = key)
        /\ UNCHANGED <<shared, sealedKey>>
  /\ UNCHANGED <<config, available, stores, issued, ghosts, key, main, recovery>>

TokenKeyStep ==
  /\ \/ Validate(config) /\ (BeginGetKey \/ BeginRotate)
     \/ GetKey \/ Crash \/ Flush \/ PowerLoss \/ ChangeSession
  /\ UNCHANGED <<config, files>>

EditConfig ==
  /\ pc = "idle"
  /\ config' \in Configs
  /\ UNCHANGED <<keyVars, files>>

\* A new installation, or one written by an earlier release
Init ==
  /\ config \in {c \in Configs : Validate(c)}
  /\ available \in BOOLEAN
  /\ main \in {NoFile} \cup {OldFile(f, config) : f \in {"legacy", "v1"}}
  /\ recovery \in {NoFile, OldFile("v1", config)}
  /\ shared \in {NoFile, OldFile("v1", config)}
  /\ sealedKey = IF shared = NoFile THEN Absent ELSE 1
  /\ keyFile = sealedKey /\ onDisk = {keyFile} /\ issued = sealedKey
  /\ keychain = Absent
  /\ rotated = FALSE /\ hurt = FALSE
  /\ pc = "idle"
  /\ key = Absent

Next == SaveVault \/ Recover \/ SaveShared \/ TokenKeyStep \/ EditConfig

Spec == Init /\ [][Next]_vars

-----------------------------------------------------------------------------
(* Properties                                                               *)

TypeOK ==
  /\ config \in Configs
  /\ {available, rotated, hurt} \subseteq BOOLEAN
  /\ keyFile \in onDisk /\ onDisk \subseteq 0..Short
  /\ {keychain, key, sealedKey} \subseteq 0..issued
  /\ issued \in 0..MaxKeys
  /\ pc \in KeySteps \cup {"idle"}
  /\ {main.format, recovery.format, shared.format} \subseteq Formats \cup {"none"}

\* What the program saved it can open under every later configuration it accepts:
\* the settings' limits and the loading policy's agree, and a file's own metadata,
\* not the settings of the day, decide how it is read.
SavedFilesOpen ==
  Validate(config) =>
    \A f \in {main, recovery, shared} : f.format = "v2" => Opens(f, config)

\* An independent reader of the documented format opens every vault the program
\* saves with a key of 32 bytes, the only size it knows, under any settings
\* (tools/reference-decryptor against KDFConfig and kdfConfigFromMetadata).
ReferenceReads ==
  main.format = "v2" /\ main.meta.keySize = ReferenceKeySize
    => ReferenceDerivation(main) = main.kdf

\* Files of earlier releases depend on the scrypt settings and on nothing else: no
\* other edit, and no save, makes a file unreadable that could be opened before.
KeepsOpening ==
  [][ScryptConfig(config') = ScryptConfig(config) =>
       /\ Opens(main, config)     => Opens(main', config')
       /\ Opens(recovery, config) => Opens(recovery', config')
       /\ Opens(shared, config)   => Opens(shared', config')]_vars

\* Until it is regenerated, the key that the shared vault is sealed under is in one
\* of the two stores, at every step of its move between them and of any failure, at
\* any power loss once the file's key is on the disk, whatever is edited and wherever
\* commands are run.
KeyKept == shared # NoFile /\ ~rotated /\ ~hurt => sealedKey \in {keyFile, keychain}

\* Under one storage setting in one session, commands that found the shared vault's
\* key go on finding it.
KeyStable ==
  [][shared # NoFile /\ KeyInUse = sealedKey /\ ~rotated' /\ ~hurt' /\ UNCHANGED <<config, available>>
       => KeyInUse' = sealedKey']_vars
=============================================================================
