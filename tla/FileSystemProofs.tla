-------------------------- MODULE FileSystemProofs --------------------------
(***************************************************************************)
(* Lemmas about the directory operations, for any set of names and of      *)
(* files: what VaultStorageProofs and SharedVaultFileProofs have in common. *)
(***************************************************************************)
EXTENDS FileSystem, TLAPS

Typed(Ns, F) == dir \in [Ns -> F] /\ disks \subseteq [Ns -> F]

\* The vault and its backup are the same files after a step as before it, on
\* every directory the disk may hold
Kept ==
  /\ dir' \in disks'
  /\ \A a \in {"primary", "bak"} : dir'[a] = dir[a]
  /\ \A d \in disks' : \E e \in disks :
       \A a \in {"primary", "bak"} : d[a] = e[a]

\* Whatever the disk holds, the vault and its backup are in E, and what counts as
\* the vault is in G
VaultsIn(E, G) ==
  /\ dir \in disks
  /\ \A d \in disks : Logical(d) \in G /\ \A a \in {"primary", "bak"} : d[a] \in E

VaultRenames == {<<"primary", "bak">>, <<"bak", "primary">>, <<"tmp", "primary">>}

-----------------------------------------------------------------------------
\* Every operation, performed or lost, leaves directories over the same names
\* and files.
LEMMA DirectoriesStay ==
  ASSUME NEW Ns, NEW F, 0 \in F, Typed(Ns, F), NEW a \in Ns, NEW b \in Ns, NEW n \in F
  PROVE  /\ Rename(a, b) => Typed(Ns, F)'
         /\ Remove(a) => Typed(Ns, F)'
         /\ TryRemove(a) => Typed(Ns, F)'
         /\ Create(a, n) => Typed(Ns, F)'
         /\ SyncParentDir => Typed(Ns, F)'
         /\ LosePower => Typed(Ns, F)'
         /\ UNCHANGED fs => Typed(Ns, F)'
<1> USE DEF Typed
<1>1. \A d \in [Ns -> F] : Moved(d, a, b) \in [Ns -> F]
  BY DEF Moved
<1>2. \A d \in [Ns -> F] : Removed(d, a) \in [Ns -> F]
  BY DEF Removed
<1>3. \A d \in [Ns -> F] : Placed(d, a, n) \in [Ns -> F]
  BY DEF Placed
<1>4. Rename(a, b) => Typed(Ns, F)'
  BY <1>1 DEF Rename
<1>5. Remove(a) => Typed(Ns, F)'
  BY <1>2 DEF Remove
<1>6. UNCHANGED fs => Typed(Ns, F)'
  BY DEF fs
<1>7. TryRemove(a) => Typed(Ns, F)'
  BY <1>5, <1>6 DEF TryRemove
<1>8. Create(a, n) => Typed(Ns, F)'
  BY <1>3 DEF Create
<1>9. SyncParentDir => Typed(Ns, F)'
  BY DEF SyncParentDir
<1>10. LosePower => Typed(Ns, F)'
  BY DEF LosePower
<1> QED BY <1>4, <1>5, <1>6, <1>7, <1>8, <1>9, <1>10

\* The operations on other names do not touch the vault and its backup.
LEMMA OthersKept ==
  ASSUME NEW Ns, NEW F, Typed(Ns, F), {"primary", "bak"} \subseteq Ns, dir \in disks,
         NEW n, NEW a \in Ns \ {"primary", "bak"}
  PROVE  /\ Remove(a) => Kept
         /\ TryRemove(a) => Kept
         /\ Create(a, n) => Kept
         /\ SyncParentDir => Kept
         /\ UNCHANGED fs => Kept
<1> USE DEF Typed, Kept
<1>1. Remove(a) => Kept
  <2>1. \A d \in disks : \A c \in {"primary", "bak"} : Removed(d, a)[c] = d[c]
    BY DEF Removed
  <2>2. \A c \in {"primary", "bak"} : Removed(dir, a)[c] = dir[c]
    BY <2>1
  <2> QED BY <2>1, <2>2 DEF Remove
<1>2. UNCHANGED fs => Kept
  BY DEF fs
<1>3. TryRemove(a) => Kept
  BY <1>1, <1>2 DEF TryRemove
<1>4. Create(a, n) => Kept
  <2>1. \A d \in disks : \A c \in {"primary", "bak"} : Placed(d, a, n)[c] = d[c]
    BY DEF Placed
  <2>2. \A c \in {"primary", "bak"} : Placed(dir, a, n)[c] = dir[c]
    BY <2>1
  <2> QED BY <2>1, <2>2 DEF Create
<1>5. SyncParentDir => Kept
  BY DEF SyncParentDir
<1> QED BY <1>1, <1>2, <1>3, <1>4, <1>5

\* A step that keeps the vault and its backup keeps what is known of them.
LEMMA KeptVaults ==
  ASSUME NEW E, NEW G, VaultsIn(E, G), Kept
  PROVE  VaultsIn(E, G)'
<1> SUFFICES ASSUME NEW d \in disks'
             PROVE  Logical(d) \in G /\ \A a \in {"primary", "bak"} : d[a] \in E
  BY DEF VaultsIn, Kept, Logical
<1>1. PICK e \in disks : \A a \in {"primary", "bak"} : d[a] = e[a]
  BY DEF Kept
<1> QED BY <1>1 DEF VaultsIn, Logical

\* The three renames of a save and of its undoing: on whatever directory the
\* rename reaches, the vault becomes the renamed file or stays what it was.
LEMMA RenameVaults ==
  ASSUME NEW Ns, NEW F, Typed(Ns, F), NEW E, NEW G, 0 \in E, VaultsIn(E, G),
         {"primary", "bak", "tmp"} \subseteq Ns,
         NEW a, NEW b, <<a, b>> \in VaultRenames,
         Rename(a, b), dir[a] \in E, dir[a] \in G
  PROVE  /\ VaultsIn(E, G)'
         /\ dir'[b] = dir[a]
<1>1. /\ dir[a] # 0
      /\ dir' = Moved(dir, a, b)
      /\ disks' = disks \cup {Moved(d, a, b) : d \in disks}
  BY DEF Rename
<1>2. a \in Ns /\ b \in Ns /\ a # b
  BY DEF VaultRenames
<1>3. ASSUME NEW d \in disks
      PROVE  /\ Logical(Moved(d, a, b)) \in G
             /\ \A c \in {"primary", "bak"} : Moved(d, a, b)[c] \in E
  <2>1. Logical(Moved(d, a, b)) \in {Logical(d), dir[a]}
    BY <1>1, <1>2 DEF Typed, Moved, Logical, VaultRenames
  <2>2. \A c \in {"primary", "bak"} : Moved(d, a, b)[c] \in E
    BY <1>1, <1>2 DEF Typed, Moved, VaultsIn
  <2> QED BY <2>1, <2>2 DEF VaultsIn
<1>4. dir' \in disks' /\ dir'[b] = dir[a]
  BY <1>1, <1>2 DEF Typed, Moved, VaultsIn
<1> QED BY <1>1, <1>3, <1>4 DEF VaultsIn, Logical
=============================================================================
