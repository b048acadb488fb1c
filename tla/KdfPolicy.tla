------------------------------ MODULE KdfPolicy ------------------------------
(***************************************************************************)
(* Which key derivation a file is saved with and opened with: the limits   *)
(* of internal/config/config.go, which decide what may be written, and     *)
(* those of internal/crypto/kdf_policy.go, which decide what may be read.  *)
(*                                                                         *)
(* A derivation is a record of its parameters, which stands for the key it *)
(* yields: two derivations of one password agree only if they are equal.   *)
(***************************************************************************)
EXTENDS Integers

CONSTANTS  \* the values a user may write in vault-config.json, in range or not
  ScryptNs, ScryptRs, ScryptPs, KeySizes, Memories, Times, Threads

Formats == {"legacy", "v1", "v2"}

Configs ==
  [n : ScryptNs, r : ScryptRs, p : ScryptPs, keySize : KeySizes,
   memory : Memories, time : Times, threads : Threads,
   kdf : {"argon2id", "scrypt"}, storage : {"auto", "file", "keychain"}]

\* Limits that config.go and kdf_policy.go state alike.  Those of scrypt r, scrypt p
\* and the key size differ, and are spelled out below.
MinScryptN == 32768
MaxScryptN == 1048576
MinMemory  == 19 * 1024
MaxMemory  == 256 * 1024

IsPowerOfTwo(n) == \E k \in 0..30 : n = 2^k

-----------------------------------------------------------------------------
(* Writing: what a configuration may ask for, and what it makes of a save   *)

Validate(c) ==
  /\ c.n \in MinScryptN..MaxScryptN /\ IsPowerOfTwo(c.n)
  /\ c.r \in 1..16
  /\ c.p \in 1..8
  /\ c.keySize \in {16, 24, 32}
  /\ c.kdf = "argon2id" =>
       c.memory \in MinMemory..MaxMemory /\ c.time \in 1..8 /\ c.threads \in 1..8

ScryptConfig(c) ==
  [name |-> "scrypt", n |-> c.n, r |-> c.r, p |-> c.p, keySize |-> c.keySize]

KDFConfig(c) ==
  IF c.kdf = "scrypt"
    THEN ScryptConfig(c)
    ELSE [name |-> "argon2id", memory |-> c.memory, time |-> c.time,
          threads |-> c.threads, keySize |-> c.keySize]

HKDF == [name |-> "hkdf-sha256", keySize |-> 32]

\* mutant: every file is sealed under the scrypt settings
KdfConfigFromSettings(meta, c) == ScryptConfig(c)

\* The metadata written with a file, and the derivation its bytes are sealed
\* under: for scrypt the settings', for the others the metadata's
KdfConfigFromMetadata(meta, c) == IF meta.name = "scrypt" THEN ScryptConfig(c) ELSE meta

File(meta, c) == [format |-> "v2", meta |-> meta, kdf |-> KdfConfigFromMetadata(meta, c)]

\* A file of a release that wrote no metadata
OldFile(format, c) == [format |-> format, meta |-> HKDF, kdf |-> ScryptConfig(c)]

NoFile == [format |-> "none"]

-----------------------------------------------------------------------------
(* Reading                                                                  *)

ValidateScryptConfig(k) ==
  /\ k.n > 1 /\ IsPowerOfTwo(k.n) /\ k.n <= MaxScryptN
  /\ k.r \in 1..8
  /\ k.p \in 1..16
  /\ k.keySize \in 1..32

ValidateArgon2idConfig(k) ==
  /\ k.memory \in MinMemory..MaxMemory
  /\ k.time \in 1..8
  /\ k.threads \in 1..8
  /\ k.keySize \in 1..32

MetadataAllowed(meta) ==
  \/ meta.name = "scrypt"      /\ ValidateScryptConfig(meta)
  \/ meta.name = "argon2id"    /\ ValidateArgon2idConfig(meta)
  \/ meta.name = "hkdf-sha256" /\ meta.keySize \in 1..32

Refused == [name |-> "refused"]

\* mutant: files without metadata are read with the write profile
KDFConfigOfProfile(file, c) ==
  CASE file.format \in {"legacy", "v1"} -> KDFConfig(c)
    [] MetadataAllowed(file.meta)       -> file.meta
    [] OTHER                            -> Refused

\* mutant: the scrypt settings win over the metadata
KDFConfigOfSettings(file, c) ==
  CASE file.format \in {"legacy", "v1"} -> ScryptConfig(c)
    [] file.meta.name = "scrypt"        -> ScryptConfig(c)
    [] MetadataAllowed(file.meta)       -> file.meta
    [] OTHER                            -> Refused

KDFConfigForContainer(file, c) ==
  CASE file.format \in {"legacy", "v1"} -> ScryptConfig(c)
    [] MetadataAllowed(file.meta)       -> file.meta
    [] OTHER                            -> Refused

\* The right password opens the file under the settings c
Opens(file, c) == file # NoFile /\ KDFConfigForContainer(file, c) = file.kdf

-----------------------------------------------------------------------------
(* Reading by tools/reference-decryptor, which shares no code with the      *)
(* program, knows main vaults of the current format only, and has no upper  *)
(* limits for scrypt                                                        *)

ReferenceKeySize == 32

\* validateMetadata, and scrypt.Key's own condition on N
ReferenceAllows(meta) ==
  /\ meta.keySize = ReferenceKeySize
  /\ \/ meta.name = "argon2id" /\ ValidateArgon2idConfig(meta)
     \/ meta.name = "scrypt" /\ meta.n > 1 /\ IsPowerOfTwo(meta.n) /\ meta.r >= 1 /\ meta.p >= 1

ReferenceDerivation(file) ==
  IF file.format = "v2" /\ ReferenceAllows(file.meta) THEN file.meta ELSE Refused
=============================================================================
