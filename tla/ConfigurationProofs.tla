-------------------------- MODULE ConfigurationProofs --------------------------
(***************************************************************************)
(* Configuration for any settings a user may write and any number of keys: *)
(* what is saved can be opened and what could be opened still can, where   *)
(* the limits for writing and for reading agree, by the program and by the *)
(* reference decryptor, and the token key is never lost.                   *)
(***************************************************************************)
EXTENDS Configuration, TLAPS

\* The settings in reach that config.go accepts are within kdf_policy.go's limit
LimitsAgree == \A r \in ScryptRs : r \in 1..16 => r <= 8

-----------------------------------------------------------------------------
(* Saved files                                                              *)

\* The derivation of a file is the one its metadata names, and may be read
WellSaved(f) == f.format = "v2" => f.kdf = f.meta /\ MetadataAllowed(f.meta)

FilesInv ==
  /\ config \in Configs
  /\ WellSaved(main) /\ WellSaved(recovery) /\ WellSaved(shared)

\* The two limits of scrypt N are numbers, whatever their values
LEMMA ScryptLimits == MinScryptN \in Nat /\ MaxScryptN \in Nat /\ MinScryptN > 1
BY SMT DEF MinScryptN, MaxScryptN

\* Whatever an accepted configuration writes, the loading policy reads
LEMMA ProfileAllowed ==
  ASSUME LimitsAgree, NEW c \in Configs, Validate(c)
  PROVE  MetadataAllowed(KDFConfig(c)) /\ KdfConfigFromMetadata(KDFConfig(c), c) = KDFConfig(c)
<1>1. c.r \in 1..8
  BY DEF LimitsAgree, Configs, Validate
<1>2. CASE c.kdf = "scrypt"
  BY <1>1, <1>2, ScryptLimits DEF Validate, KDFConfig, ScryptConfig, MetadataAllowed,
     ValidateScryptConfig, KdfConfigFromMetadata
<1>3. CASE c.kdf = "argon2id"
  BY <1>3 DEF Validate, KDFConfig, MetadataAllowed, ValidateArgon2idConfig,
     KdfConfigFromMetadata
<1> QED
  BY <1>2, <1>3 DEF Configs

\* A save under an accepted configuration is one that can be opened
LEMMA NewFilesWellSaved ==
  ASSUME LimitsAgree, NEW c \in Configs, Validate(c)
  PROVE  WellSaved(File(KDFConfig(c), c)) /\ WellSaved(File(HKDF, c))
<1>1. WellSaved(File(KDFConfig(c), c))
  BY ProfileAllowed DEF WellSaved, File
<1>2. WellSaved(File(HKDF, c))
  BY DEF WellSaved, File, HKDF, KdfConfigFromMetadata, MetadataAllowed
<1> QED
  BY <1>1, <1>2

\* Nothing is asked of files of earlier releases
LEMMA OldFilesWellSaved ==
  /\ WellSaved(NoFile)
  /\ \A f \in {"legacy", "v1"}, c \in Configs : WellSaved(OldFile(f, c))
BY DEF WellSaved, NoFile, OldFile

\* A file sealed under its own metadata opens whatever the settings are by now
LEMMA WellSavedOpens ==
  ASSUME NEW f, NEW c, WellSaved(f), f.format = "v2"
  PROVE  Opens(f, c)
BY DEF WellSaved, Opens, NoFile, KDFConfigForContainer

\* No file of the current format exists at first
LEMMA FilesInit == Init => FilesInv
BY OldFilesWellSaved DEF Init, FilesInv

\* Every save keeps the files readable, and an edit leaves them alone
LEMMA FilesStep ==
  ASSUME LimitsAgree, FilesInv, [Next]_vars
  PROVE  FilesInv'
<1>0. config \in Configs
  BY DEF FilesInv
<1>1. CASE SaveVault
  BY <1>0, <1>1, NewFilesWellSaved DEF SaveVault, FilesInv
<1>2. CASE Recover
  BY <1>0, <1>2, NewFilesWellSaved DEF Recover, FilesInv
<1>3. CASE SaveShared
  <2>1. WellSaved(File(HKDF, config))
    BY DEF WellSaved, File, HKDF, KdfConfigFromMetadata, MetadataAllowed
  <2> QED
    BY <1>3, <2>1 DEF SaveShared, FilesInv
<1>4. CASE TokenKeyStep
  BY <1>4 DEF TokenKeyStep, files, FilesInv
<1>5. CASE EditConfig
  BY <1>5 DEF EditConfig, files, FilesInv
<1>6. CASE UNCHANGED vars
  BY <1>6 DEF vars, files, FilesInv
<1> QED
  BY <1>1, <1>2, <1>3, <1>4, <1>5, <1>6 DEF Next

\* What the program saved it can open under every later configuration it accepts,
\* provided the settings for writing are within the limits for reading.
THEOREM SavedOpens ==
  ASSUME LimitsAgree
  PROVE  Spec => []SavedFilesOpen
<1>1. FilesInv /\ [Next]_vars => FilesInv'
  BY FilesStep
<1>2. FilesInv => SavedFilesOpen
  BY WellSavedOpens DEF FilesInv, SavedFilesOpen
<1> QED
  BY FilesInit, <1>1, <1>2, PTL DEF Spec

-----------------------------------------------------------------------------
(* The reference decryptor                                                  *)

\* The main vault is sealed under its metadata, which the tool accepts
ReferenceInv ==
  /\ config \in Configs
  /\ main.format = "v2" =>
       /\ main.kdf = main.meta
       /\ main.meta.keySize = ReferenceKeySize => ReferenceAllows(main.meta)

\* An accepted profile is sealed under what its metadata says, within the tool's limits
LEMMA ProfileReferenceReads ==
  ASSUME NEW c \in Configs, Validate(c)
  PROVE  LET f == File(KDFConfig(c), c)
         IN /\ f.kdf = f.meta
            /\ f.meta.keySize = ReferenceKeySize => ReferenceAllows(f.meta)
<1>1. CASE c.kdf = "scrypt"
  <2>1. c.n > 1 /\ IsPowerOfTwo(c.n) /\ c.r >= 1 /\ c.p >= 1
    BY ScryptLimits DEF Validate
  <2> QED
    BY <1>1, <2>1 DEF File, KDFConfig, ScryptConfig, KdfConfigFromMetadata, ReferenceAllows
<1>2. CASE c.kdf = "argon2id"
  BY <1>2 DEF File, Validate, KDFConfig, KdfConfigFromMetadata, ReferenceAllows,
     ValidateArgon2idConfig
<1> QED
  BY <1>1, <1>2 DEF Configs

\* A new or old installation has no vault that the tool would read
LEMMA ReferenceInit == Init => ReferenceInv
BY DEF Init, ReferenceInv, NoFile, OldFile

\* Only a save of the main vault matters to the tool, and it is one it reads
LEMMA ReferenceStep ==
  ASSUME ReferenceInv, [Next]_vars
  PROVE  ReferenceInv'
<1>0. config \in Configs
  BY DEF ReferenceInv
<1>1. CASE SaveVault
  BY <1>0, <1>1, ProfileReferenceReads DEF SaveVault, ReferenceInv
<1>2. CASE Recover
  BY <1>0, <1>2, ProfileReferenceReads DEF Recover, ReferenceInv
<1>3. CASE SaveShared
  BY <1>3 DEF SaveShared, ReferenceInv
<1>4. CASE TokenKeyStep
  BY <1>4 DEF TokenKeyStep, files, ReferenceInv
<1>5. CASE EditConfig
  BY <1>5 DEF EditConfig, files, ReferenceInv
<1>6. CASE UNCHANGED vars
  BY <1>6 DEF vars, files, ReferenceInv
<1> QED
  BY <1>1, <1>2, <1>3, <1>4, <1>5, <1>6 DEF Next

\* The independent reader opens every vault saved with a key of 32 bytes, whatever
\* settings were accepted: here the limits need not agree.
THEOREM ReferenceAgrees == Spec => []ReferenceReads
<1>1. ReferenceInv => ReferenceReads
  BY DEF ReferenceInv, ReferenceReads, ReferenceDerivation
<1>2. ReferenceInv /\ [Next]_vars => ReferenceInv'
  BY ReferenceStep
<1> QED
  BY ReferenceInit, <1>1, <1>2, PTL DEF Spec

-----------------------------------------------------------------------------
(* The token key                                                            *)

\* What is in the stores at each step of a command, as long as no key was rotated
StepInv ==
  /\ pc \in {"truncateFile", "writeFile"} => keyFile \notin Keys
  /\ pc \in {"loadKeychain", "migrate", "saveMigrated", "removeFile"} => UseKeychain
  /\ pc = "migrate"       => keychain = Absent
  /\ pc = "saveMigrated"  => keychain = Absent /\ key = keyFile
  /\ pc = "removeFile"    => keychain = key /\ key = keyFile
  /\ pc = "saveGenerated" => keychain = Absent /\ keyFile = Absent
  /\ pc = "haveKey"       => key \in Keys /\ key \in {keyFile, keychain}
  /\ pc \in {"truncateFile", "writeFile", "saveMigrated", "removeFile", "saveGenerated"}
       => key \in Keys

KeyInv ==
  /\ issued \in 0..MaxKeys
  /\ shared # NoFile /\ ~rotated =>
       sealedKey \in Keys /\ (~hurt => sealedKey \in {keyFile, keychain})
  /\ pc \in {"rewriteFile", "writeRotated", "saveRotated"} => rotated
  /\ ~rotated => StepInv

\* A step of the files: the shared vault is sealed under the key in hand
LEMMA KeySealed ==
  ASSUME KeyInv, SaveShared
  PROVE  KeyInv'
BY DEF KeyInv, StepInv, UseKeychain, SaveShared, Goto, stores, file, ghosts, Keys, Absent, NoFile

\* The key file: it is only ever overwritten when it holds no key
LEMMA KeyFromFile ==
  ASSUME KeyInv, UNCHANGED <<config, files>>, LoadFile \/ TruncateFile \/ WriteFile
  PROVE  KeyInv'
<1>1. CASE LoadFile
  BY <1>1, MaxKeysAssumption DEF KeyInv, StepInv, UseKeychain, LoadFile, Generate, Goto, stores, file, ghosts, files, Keys, Absent, Short
<1>2. CASE TruncateFile
  BY <1>2, MaxKeysAssumption DEF KeyInv, StepInv, UseKeychain, TruncateFile, Put, Goto, stores, file, ghosts, files, Keys, Absent, Short
<1>3. CASE WriteFile
  BY <1>3, MaxKeysAssumption DEF KeyInv, StepInv, UseKeychain, WriteFile, Put, Goto, stores, file, ghosts, files, Keys, Absent, Short
<1> QED
  BY <1>1, <1>2, <1>3

\* The Keychain: the key is in it before the file goes
LEMMA KeyFromKeychain ==
  ASSUME KeyInv, UNCHANGED <<config, files>>,
         LoadKeychain \/ Migrate \/ SaveMigrated \/ RemoveFile \/ SaveGenerated
  PROVE  KeyInv'
<1>1. CASE LoadKeychain
  BY <1>1, MaxKeysAssumption DEF KeyInv, StepInv, UseKeychain, LoadKeychain, Goto, stores, file, ghosts, files, Keys, Absent
<1>2. CASE Migrate
  BY <1>2, MaxKeysAssumption DEF KeyInv, StepInv, UseKeychain, Migrate, Generate, Goto, stores, file, ghosts, files, Keys, Absent, Short
<1>3. CASE SaveMigrated
  BY <1>3, MaxKeysAssumption DEF KeyInv, StepInv, UseKeychain, SaveMigrated, Goto, stores, file, ghosts, files, Keys, Absent
<1>4. CASE RemoveFile
  BY <1>4, MaxKeysAssumption DEF KeyInv, StepInv, UseKeychain, RemoveFile, Put, Goto, stores, file, ghosts, files, Keys, Absent
<1>5. CASE SaveGenerated
  BY <1>5, MaxKeysAssumption DEF KeyInv, StepInv, UseKeychain, SaveGenerated, Goto, stores, file, ghosts, files, Keys, Absent
<1> QED
  BY <1>1, <1>2, <1>3, <1>4, <1>5

\* Every step keeps the key of the shared vault in one of the stores
LEMMA KeyStep ==
  ASSUME KeyInv, [Next]_vars
  PROVE  KeyInv'
<1>1. CASE SaveVault
  BY <1>1 DEF SaveVault, KeyInv, StepInv, UseKeychain, keyVars, stores, file, ghosts
<1>2. CASE Recover
  BY <1>2 DEF Recover, KeyInv, StepInv, UseKeychain, keyVars, stores, file, ghosts
<1>3. CASE SaveShared
  BY <1>3, KeySealed
<1>4. CASE TokenKeyStep
  <2>1. UNCHANGED <<config, files>>
    BY <1>4 DEF TokenKeyStep
  <2>2. CASE BeginGetKey
    BY <2>1, <2>2 DEF BeginGetKey, Goto, KeyInv, StepInv, UseKeychain, stores, file, ghosts, files
  <2>3. CASE BeginRotate
    BY <2>1, <2>3, MaxKeysAssumption DEF BeginRotate, Generate, Goto, KeyInv, StepInv, UseKeychain, stores, file, ghosts, files
  <2>4. CASE GetKey
    BY <2>1, <2>4, KeyFromFile, KeyFromKeychain DEF GetKey
  <2>5. CASE Crash
    BY <2>1, <2>5 DEF Crash, KeyInv, StepInv, UseKeychain, stores, file, ghosts, files
  <2>7. CASE Flush
    BY <2>1, <2>7 DEF Flush, KeyInv, StepInv, UseKeychain, ghosts, files
  <2>8. CASE PowerLoss
    BY <2>1, <2>8 DEF PowerLoss, KeyInv, StepInv, files, KeySteps
  <2>6. CASE ChangeSession
    BY <2>1, <2>6 DEF ChangeSession, KeyInv, StepInv, UseKeychain, stores, file, ghosts, files
  <2> QED
    BY <1>4, <2>2, <2>3, <2>4, <2>5, <2>6, <2>7, <2>8 DEF TokenKeyStep
<1>5. CASE EditConfig
  BY <1>5 DEF EditConfig, KeyInv, StepInv, UseKeychain, keyVars, stores, file, ghosts, files
<1>6. CASE UNCHANGED vars
  BY <1>6 DEF vars, KeyInv, StepInv, UseKeychain, keyVars, stores, file, ghosts, files
<1> QED
  BY <1>1, <1>2, <1>3, <1>4, <1>5, <1>6 DEF Next

\* An earlier release left the key in the key file
LEMMA KeyInit == Init => KeyInv
BY MaxKeysAssumption DEF Init, KeyInv, StepInv, Keys, Absent

\* Until it is regenerated, the key that the shared vault is sealed under stays in
\* one of the two stores, through its move from the key file to the Keychain, any
\* failure, any edit of the configuration, and for any number of keys.
THEOREM TokenKeyKept == Spec => []KeyKept
<1>1. KeyInv /\ [Next]_vars => KeyInv'
  BY KeyStep
<1>2. KeyInv => KeyKept
  BY DEF KeyInv, KeyKept
<1> QED
  BY KeyInit, <1>1, <1>2, PTL DEF Spec

Found == shared # NoFile /\ KeyInUse = sealedKey

\* A call on its way leaves the key that is found as it is
LEMMA FoundAgain ==
  ASSUME KeyInv, Found, GetKey, ~rotated', ~hurt', UNCHANGED <<config, available, files>>
  PROVE  KeyInUse' = sealedKey'
<1>1. ~rotated /\ sealedKey \in Keys /\ sealedKey \in {keyFile, keychain}
  BY DEF KeyInv, Found, GetKey, LoadFile, TruncateFile, WriteFile, LoadKeychain, Migrate,
     SaveMigrated, RemoveFile, SaveGenerated, ghosts
<1>2. StepInv
  BY <1>1 DEF KeyInv
<1>3. Absent \notin Keys
  BY MaxKeysAssumption DEF Keys, Absent
<1>4. CASE UNCHANGED stores
  BY <1>4 DEF Found, KeyInUse, UseKeychain, stores, file, ghosts, files
<1>5. CASE TruncateFile \/ WriteFile
  <2>1. pc \in {"truncateFile", "writeFile"}
    BY <1>1, <1>5 DEF KeyInv, TruncateFile, WriteFile, Goto
  <2>2. keyFile \notin Keys
    BY <1>2, <2>1 DEF StepInv
  <2>3. UseKeychain /\ keychain # Absent /\ keychain = sealedKey
    BY <1>1, <2>2 DEF Found, KeyInUse
  <2>4. keychain' = keychain
    BY <1>5 DEF TruncateFile, WriteFile
  <2>5. UseKeychain' /\ sealedKey' = sealedKey
    BY <2>3 DEF UseKeychain, files
  <2> QED
    BY <2>3, <2>4, <2>5 DEF KeyInUse
<1>6. CASE SaveMigrated
  <2>1. keyFile = sealedKey /\ key = sealedKey /\ keychain = Absent
    BY <1>1, <1>2, <1>3, <1>6 DEF StepInv, SaveMigrated, Goto
  <2>2. keyFile' = sealedKey' /\ keychain' \in {Absent, sealedKey'}
    BY <1>6, <2>1 DEF SaveMigrated, file, files
  <2> QED
    BY <2>2 DEF KeyInUse
<1>7. CASE RemoveFile
  BY <1>1, <1>2, <1>3, <1>7 DEF StepInv, KeyInUse, UseKeychain, RemoveFile, Put, Goto, files
<1>8. CASE SaveGenerated
  BY <1>1, <1>2, <1>3, <1>8 DEF StepInv, KeyInv, SaveGenerated, Goto
<1> QED
  BY <1>4, <1>5, <1>6, <1>7, <1>8 DEF GetKey, LoadFile, LoadKeychain, Migrate

\* Under one storage setting in one session, commands that found the shared vault's
\* key go on finding it, whichever of them die and whatever fails.
THEOREM TokenKeyStable == Spec => KeyStable
<1>1. ASSUME KeyInv, Next, Found, ~rotated', ~hurt', UNCHANGED <<config, available>>
      PROVE  KeyInUse' = sealedKey'
  <2>1. CASE GetKey /\ UNCHANGED files
    BY <1>1, <2>1, FoundAgain
  <2>2. CASE UNCHANGED <<stores, sealedKey>>
    BY <1>1, <2>2 DEF Found, KeyInUse, UseKeychain, stores, file
  <2>3. CASE SaveShared
    BY <1>1, <2>3 DEF SaveShared, Found, KeyInUse, UseKeychain, stores, file
  <2>4. CASE PowerLoss /\ UNCHANGED files
    <3>1. sealedKey \in Keys /\ sealedKey # Absent
      BY <1>1, <2>4, MaxKeysAssumption DEF KeyInv, Found, PowerLoss, Keys, Absent
    <3>2. keyFile \in Keys => keyFile' = keyFile
      BY <1>1, <2>4 DEF PowerLoss
    <3>3. UNCHANGED <<keychain, sealedKey, config, available>>
      BY <1>1, <2>4 DEF PowerLoss, files
    <3> QED
      BY <1>1, <3>1, <3>2, <3>3 DEF Found, KeyInUse, UseKeychain
  <2>5. CASE Flush /\ UNCHANGED files
    BY <1>1, <2>5 DEF Flush, Found, KeyInUse, UseKeychain, files
  <2> QED
    BY <1>1, <2>1, <2>2, <2>3, <2>4, <2>5 DEF Next, SaveVault, Recover, EditConfig, TokenKeyStep,
       BeginGetKey, BeginRotate, Crash, ChangeSession, keyVars, files
<1>2. ASSUME KeyInv, [Next]_vars, Found, ~rotated', ~hurt', UNCHANGED <<config, available>>
      PROVE  KeyInUse' = sealedKey'
  <2>1. CASE UNCHANGED vars
    BY <1>2, <2>1 DEF vars, keyVars, stores, file, files, Found, KeyInUse, UseKeychain
  <2> QED
    BY <1>1, <1>2, <2>1
<1>3. KeyInv /\ [Next]_vars => KeyInv'
  BY KeyStep
<1>4. KeyInv /\ [Next]_vars =>
        [shared # NoFile /\ KeyInUse = sealedKey /\ ~rotated' /\ ~hurt' /\ UNCHANGED <<config, available>>
           => KeyInUse' = sealedKey']_vars
  BY <1>2 DEF Found
<1> QED
  BY KeyInit, <1>3, <1>4, PTL DEF Spec, KeyStable


-----------------------------------------------------------------------------
(* Types                                                                    *)

\* TypeOK, with what a key read from the key file needs: it was generated
TypeInv == TypeOK /\ \A k \in onDisk : k \in Keys => k <= issued

\* Whatever is generated, moved or read is a key generated before, and nothing when
\* a call fails.
LEMMA KeyTypes ==
  ASSUME TypeInv, GetKey \/ BeginGetKey \/ BeginRotate \/ Crash \/ Flush \/ PowerLoss \/ ChangeSession,
         UNCHANGED <<config, files>>
  PROVE  TypeInv'
<1> USE MaxKeysAssumption DEF TypeInv, TypeOK, files, file, stores, ghosts, Put, Goto, KeySteps, Keys, Absent, Short
<1>1. CASE LoadFile
  BY <1>1 DEF LoadFile, Generate
<1>p. ASSUME NEW k \in {Short, Absent, key, keyFile}, Put(k), issued' = issued
      PROVE  /\ keyFile' \in onDisk' /\ onDisk' \subseteq 0..Short
             /\ \A x \in onDisk' : x \in Keys => x <= issued'
  <2>1. k \in 0..Short /\ (k \in Keys => k <= issued)
    BY <1>p
  <2> QED
    BY <1>p, <2>1
<1>2. CASE TruncateFile \/ WriteFile
  <2>1. /\ Put(Short) \/ Put(key) \/ Put(keyFile)
        /\ UNCHANGED <<available, rotated, hurt, keychain, issued, key, sealedKey>>
        /\ pc' \in KeySteps \cup {"idle"}
    BY <1>2 DEF TruncateFile, WriteFile
  <2> HIDE DEF Put
  <2> QED
    BY <1>p, <2>1
<1>3. CASE LoadKeychain
  BY <1>3 DEF LoadKeychain
<1>4. CASE Migrate
  BY <1>4 DEF Migrate, Generate
<1>5. CASE SaveMigrated \/ SaveGenerated
  BY <1>5 DEF SaveMigrated, SaveGenerated
<1>9. CASE RemoveFile
  <2>1. /\ Put(Absent) \/ Put(keyFile)
        /\ UNCHANGED <<available, rotated, hurt, keychain, issued, key, sealedKey>>
        /\ pc' \in KeySteps \cup {"idle"}
    BY <1>9 DEF RemoveFile
  <2> HIDE DEF Put
  <2> QED
    BY <1>p, <2>1
<1>6. CASE BeginGetKey
  BY <1>6 DEF BeginGetKey
<1>7. CASE BeginRotate
  BY <1>7 DEF BeginRotate, Generate
<1>8. CASE Crash \/ Flush \/ PowerLoss \/ ChangeSession
  BY <1>8 DEF Crash, Flush, PowerLoss, ChangeSession
<1> QED
  BY <1>1, <1>2, <1>3, <1>4, <1>5, <1>6, <1>7, <1>8, <1>9 DEF GetKey

\* The type invariant: no step holds, stores or seals with a key that was never
\* generated, and the settings and files stay within their formats.
THEOREM TypeCorrect == Spec => []TypeOK
<1>1. ASSUME Init PROVE TypeInv
  <2>1. {main.format, recovery.format, shared.format} \subseteq Formats \cup {"none"}
    BY <1>1 DEF Init, NoFile, OldFile, Formats
  <2>2. /\ sealedKey \in {0, 1} /\ keyFile = sealedKey /\ issued = sealedKey
        /\ onDisk = {keyFile}
    BY <1>1 DEF Init, Absent
  <2>3. /\ {keychain, key, sealedKey} \subseteq 0..issued
        /\ issued \in 0..MaxKeys
        /\ keyFile \in onDisk /\ onDisk \subseteq 0..Short /\ \A k \in onDisk : k <= issued
    BY <1>1, <2>2, MaxKeysAssumption DEF Init, Absent, Short
  <2>4. config \in Configs /\ {available, rotated, hurt} \subseteq BOOLEAN
        /\ pc \in KeySteps \cup {"idle"}
    BY <1>1 DEF Init
  <2> QED
    BY <2>1, <2>3, <2>4 DEF TypeInv, TypeOK
<1>2. TypeInv /\ [Next]_vars => TypeInv'
  <2> SUFFICES ASSUME TypeInv, [Next]_vars PROVE TypeInv'
    OBVIOUS
  <2>1. CASE SaveVault \/ Recover
    <3>1. {main'.format, recovery'.format, shared'.format} \subseteq Formats \cup {"none"}
      BY <2>1 DEF SaveVault, Recover, TypeInv, TypeOK, File, Formats
    <3>2. UNCHANGED <<config, available, keyFile, onDisk, keychain, issued, rotated, hurt, pc, key,
                      sealedKey>>
      BY <2>1 DEF SaveVault, Recover, keyVars, stores, file, ghosts
    <3> QED
      BY <3>1, <3>2 DEF TypeInv, TypeOK
  <2>2. CASE SaveShared
    BY <2>2 DEF SaveShared, Goto, TypeInv, TypeOK, stores, file, ghosts, File, Formats
  <2>3. CASE TokenKeyStep
    BY <2>3, KeyTypes DEF TokenKeyStep
  <2>4. CASE EditConfig
    BY <2>4 DEF EditConfig, TypeInv, TypeOK, keyVars, stores, file, ghosts, files
  <2>5. CASE UNCHANGED vars
    BY <2>5 DEF vars, TypeInv, TypeOK, keyVars, stores, file, ghosts, files
  <2> QED
    BY <2>1, <2>2, <2>3, <2>4, <2>5 DEF Next
<1>3. TypeInv => TypeOK
  BY DEF TypeInv
<1> QED
  BY <1>1, <1>2, <1>3, PTL DEF Spec

-----------------------------------------------------------------------------
(* Files of earlier releases                                                *)

\* Reading depends on the settings only through those of scrypt
LEMMA OpensAlike ==
  ASSUME NEW f, NEW c, NEW d, ScryptConfig(c) = ScryptConfig(d), Opens(f, c)
  PROVE  Opens(f, d)
BY DEF Opens, KDFConfigForContainer

\* What an accepted configuration has just saved opens under it
LEMMA NewFilesOpen ==
  ASSUME LimitsAgree, NEW c \in Configs, Validate(c)
  PROVE  Opens(File(KDFConfig(c), c), c) /\ Opens(File(HKDF, c), c)
BY NewFilesWellSaved, WellSavedOpens DEF File

LEMMA SharedFileOpens ==
  ASSUME NEW c
  PROVE  Opens(File(HKDF, c), c)
BY DEF Opens, File, HKDF, NoFile, KDFConfigForContainer, KdfConfigFromMetadata, MetadataAllowed

\* Unless the scrypt settings are edited, no edit of another setting and no save
\* makes unreadable a file that could be opened, one of an earlier release included,
\* provided the settings for writing are within the limits for reading.
THEOREM OpeningHolds ==
  ASSUME LimitsAgree
  PROVE  Spec => KeepsOpening
<1>1. TypeOK /\ [Next]_vars =>
        [ScryptConfig(config') = ScryptConfig(config) =>
           /\ Opens(main, config)     => Opens(main', config')
           /\ Opens(recovery, config) => Opens(recovery', config')
           /\ Opens(shared, config)   => Opens(shared', config')]_vars
  <2> SUFFICES ASSUME TypeOK, Next, ScryptConfig(config') = ScryptConfig(config)
               PROVE  /\ Opens(main, config)     => Opens(main', config')
                      /\ Opens(recovery, config) => Opens(recovery', config')
                      /\ Opens(shared, config)   => Opens(shared', config')
    OBVIOUS
  <2>0. config \in Configs
    BY DEF TypeOK
  <2>1. CASE SaveVault \/ Recover
    BY <2>0, <2>1, NewFilesOpen DEF SaveVault, Recover
  <2>2. CASE SaveShared
    BY <2>2, SharedFileOpens DEF SaveShared
  <2>3. CASE TokenKeyStep
    BY <2>3 DEF TokenKeyStep, files
  <2>4. CASE EditConfig
    <3>1. UNCHANGED <<main, recovery, shared>>
      BY <2>4 DEF EditConfig, files
    <3> QED BY <3>1, OpensAlike
  <2> QED
    BY <2>1, <2>2, <2>3, <2>4 DEF Next
<1> QED
  BY <1>1, TypeCorrect, PTL DEF Spec, KeepsOpening
=============================================================================
