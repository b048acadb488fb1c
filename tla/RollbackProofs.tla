--------------------------- MODULE RollbackProofs ---------------------------
(***************************************************************************)
(* Proofs about revisions, the trusted state, the recovery snapshot and    *)
(* the timestamped backups, for any number of saves, copies and backups    *)
(* kept, and any rollback modes.                                           *)
(***************************************************************************)
EXTENDS Rollback, SequenceTheorems, TLAPS

(* The inductive invariants, one for each question.                        *)

\* What vault.db holds, and what may come back into it
Stored == {vault} \cup Copies

\* The files there can be by now: no number in one is newer than the saves attempted,
\* and its snapshot's revision is not above its own
PastFiles ==
  {f \in Files : /\ f.id <= ids /\ f.rev <= saves /\ f.n <= saves /\ f.key <= saves
                 /\ f.snap <= f.rev}

TypeInv ==
  /\ TypeOK
  /\ dated \in Seq(Files) /\ pre \in Seq(Files)
  /\ Stored \cup {snapshot, mem} \subseteq PastFiles
  /\ ids <= saves /\ fresh <= saves
  /\ trusted.id <= ids /\ trusted.rev <= saves
  /\ \A i \in VaultIDs : top[i] # 0 => i \in 1..ids
  /\ pc \in {"snapshot", "store", "trust"} => ~Legacy(mem) /\ mem.n = saves
  /\ pc \in {"trust", "accept"} => mem = vault
  /\ pc \in {"stage", "swap"} => mem \in Copies

\* Until something is excused, the trusted state speaks of the one vault there is,
\* and is behind it only between the save of vault.db and its own
Tracks ==
  /\ pc \in {"snapshot", "store"} /\ ~excused => mem.rev > top[mem.id]
  /\ pc = "trust" => mem.rev <= top[mem.id]
  /\ ~excused =>
       \A i \in VaultIDs : top[i] # 0 =>
         \/ trusted.id = i /\ trusted.rev >= top[i]
         \/ pc = "trust" /\ mem.id = i /\ mem.rev = top[i]

\* Until a revision is used twice, a higher one is of a later save
Ordered ==
  ~reused =>
    /\ \A f \in Stored : ~Legacy(f) => f.rev <= top[f.id]
    /\ \A f, g \in Stored : ~Legacy(f) /\ f.id = g.id /\ f.rev >= g.rev => f.n >= g.n
    /\ \A f \in Stored :
         trusted # NoState /\ f.id = trusted.id /\ f.rev >= trusted.rev => f.n >= fresh

\* A vault whose metadata calls the snapshot current is not newer than it
SnapshotCurrent ==
  /\ \A f \in Stored : ~Legacy(f) /\ f.snap >= f.rev => snapshot.n >= f.n
  /\ pc = "store" => snapshot = mem \/ mem.snap < mem.rev

\* The main vault and the snapshot are of one recovery key
KeysAgree ==
  /\ ~parted /\ vault.key # 0 => snapshot.key = vault.key
  /\ pc \in {"loaded", "store"} /\ ~withKey => mem.key = vault.key
  /\ pc = "store" /\ withKey => snapshot = mem
  /\ pc = "snapshot" => withKey

-----------------------------------------------------------------------------
(* The copies beside vault.db                                               *)

\* What a suffix of a sequence is made of.
LEMMA Suffix ==
  ASSUME NEW S, NEW s \in Seq(S), NEW m \in Nat \ {0}
  PROVE  /\ SubSeq(s, m, Len(s)) \in Seq(S)
         /\ ToSet(SubSeq(s, m, Len(s))) \subseteq ToSet(s)
         /\ Len(SubSeq(s, m, Len(s))) <= Len(s)
         /\ m <= Len(s) => s[Len(s)] \in ToSet(SubSeq(s, m, Len(s)))
<1> DEFINE t == SubSeq(s, m, Len(s))
<1>1. Len(s) \in Nat /\ DOMAIN s = 1..Len(s) /\ \A i \in 1..Len(s) : s[i] \in S
  BY ElementOfSeq, LenProperties
<1>2. /\ t \in Seq(S)
      /\ Len(t) = IF m <= Len(s) THEN Len(s) - m + 1 ELSE 0
      /\ \A i \in 1..(Len(s) - m + 1) : t[i] = s[m + i - 1]
  BY <1>1, SubSeqProperties
<1>3. DOMAIN t = 1..Len(t)
  BY <1>2, LenProperties
<1>4. ToSet(t) \subseteq ToSet(s)
  <2> SUFFICES ASSUME NEW i \in 1..Len(t) PROVE \E j \in 1..Len(s) : t[i] = s[j]
    BY <1>1, <1>3 DEF ToSet
  <2>1. t[i] = s[m + i - 1] /\ m + i - 1 \in 1..Len(s)
    BY <1>1, <1>2
  <2> QED BY <2>1
<1>5. m <= Len(s) => s[Len(s)] \in ToSet(t)
  <2> SUFFICES ASSUME m <= Len(s) PROVE s[Len(s)] \in ToSet(t)
    OBVIOUS
  <2>1. Len(t) \in 1..Len(t) /\ Len(t) = Len(s) - m + 1
    BY <1>1, <1>2
  <2>2. t[Len(t)] = s[Len(s)]
    BY <1>1, <1>2, <2>1
  <2> QED BY <1>3, <2>1, <2>2 DEF ToSet
<1> QED BY <1>1, <1>2, <1>4, <1>5

\* What one more copy adds.
LEMMA OneMore ==
  ASSUME NEW S, NEW s \in Seq(S), NEW e \in S
  PROVE  /\ Append(s, e) \in Seq(S)
         /\ Len(Append(s, e)) = Len(s) + 1
         /\ ToSet(Append(s, e)) = ToSet(s) \cup {e}
         /\ Append(s, e)[Len(Append(s, e))] = e
<1> DEFINE t == Append(s, e)
<1>1. /\ t \in Seq(S) /\ Len(t) = Len(s) + 1 /\ t[Len(s) + 1] = e
      /\ \A i \in 1..Len(s) : t[i] = s[i]
  BY AppendProperties
<1>2. Len(s) \in Nat /\ DOMAIN s = 1..Len(s) /\ DOMAIN t = 1..(Len(s) + 1)
  BY <1>1, LenProperties
<1> HIDE DEF t
<1>3. ToSet(t) = ToSet(s) \cup {e}
  <2>1. \A i \in 1..(Len(s) + 1) : i \in 1..Len(s) \/ i = Len(s) + 1
    BY <1>2
  <2>2. Len(s) + 1 \in 1..(Len(s) + 1) /\ 1..Len(s) \subseteq 1..(Len(s) + 1)
    BY <1>2
  <2> QED BY <1>1, <1>2, <2>1, <2>2 DEF ToSet
<1> QED BY <1>1, <1>3 DEF t

\* pruneTimestampedBackups only removes, and the dated backups first: the newest
\* of them stays if there is room for it beside the pre-restore copies.
LEMMA PruneKeeps ==
  ASSUME NEW S, NEW d \in Seq(S), NEW p \in Seq(S), NEW limit \in Nat, Prune(d, p, limit)
  PROVE  /\ dated' \in Seq(S) /\ pre' \in Seq(S)
         /\ ToSet(dated') \subseteq ToSet(d) /\ ToSet(pre') \subseteq ToSet(p)
         /\ Len(dated') + Len(pre') <= Len(d) + Len(p)
         /\ Len(p) < limit /\ d # <<>> => d[Len(d)] \in ToSet(dated')
<1>1. Len(d) \in Nat /\ Len(p) \in Nat
  BY LenProperties
<1> DEFINE excess == Larger(Len(d) + Len(p) - limit, 0)
           rest   == Larger(excess - Len(d), 0)
<1>2. excess + 1 \in Nat \ {0} /\ rest + 1 \in Nat \ {0}
  BY <1>1 DEF Larger
<1>3. dated' = SubSeq(d, excess + 1, Len(d)) /\ pre' = SubSeq(p, rest + 1, Len(p))
  BY DEF Prune
<1>4. Len(p) < limit /\ d # <<>> => excess + 1 <= Len(d)
  <2>1. d # <<>> => Len(d) >= 1
    BY <1>1, EmptySeq
  <2> QED BY <1>1, <2>1 DEF Larger
<1> HIDE DEF excess, rest
<1>5. /\ dated' \in Seq(S) /\ ToSet(dated') \subseteq ToSet(d) /\ Len(dated') <= Len(d)
      /\ excess + 1 <= Len(d) => d[Len(d)] \in ToSet(dated')
  BY <1>2, <1>3, Suffix
<1>6. pre' \in Seq(S) /\ ToSet(pre') \subseteq ToSet(p) /\ Len(pre') <= Len(p)
  BY <1>2, <1>3, Suffix
<1>7. Len(dated') \in Nat /\ Len(pre') \in Nat
  BY <1>5, <1>6, LenProperties
<1> QED BY <1>1, <1>4, <1>5, <1>6, <1>7

\* Every copy is of a vault.db of some time, whole or cut short, and there are never
\* more than MaxCopies.
LEMMA CopiesStep ==
  ASSUME TypeInv, [Next]_vars
  PROVE  /\ dated' \in Seq(Files) /\ pre' \in Seq(Files)
         /\ Len(dated') + Len(pre') <= MaxCopies
         /\ Copies' \subseteq Stored
         /\ pc # "idle" /\ pc # "loaded" => UNCHANGED copies
         /\ pc' \in {"stage", "swap"} => Copies \subseteq Copies'
<1> USE BackupsAssumption DEF RoomForCopy, Goto
<1>t. /\ dated \in Seq(Files) /\ pre \in Seq(Files) /\ vault \in Files /\ Torn \in Files
      /\ Len(dated) + Len(pre) <= MaxCopies /\ Len(dated) \in Nat /\ Len(pre) \in Nat
  <2>1. NewVault \in Files
    BY SavesAssumption DEF NewVault, Files, VaultIDs, Revisions, Together
  <2> QED BY <2>1, LenProperties DEF TypeInv, TypeOK, Torn
<1>1. CASE UNCHANGED copies
  BY <1>1, <1>t DEF copies, Copies, Stored
<1>2. ASSUME NEW limit \in Nat, CopyVault(limit), pc' # "stage", pc' # "swap"
      PROVE  /\ dated' \in Seq(Files) /\ pre' \in Seq(Files)
             /\ Len(dated') + Len(pre') <= MaxCopies
             /\ Copies' \subseteq Stored
  <2>1. Prune(Append(dated, vault), pre, limit) /\ Len(dated) + Len(pre) < MaxCopies
    BY <1>2 DEF CopyVault
  <2>2. /\ Append(dated, vault) \in Seq(Files) /\ Len(Append(dated, vault)) = Len(dated) + 1
        /\ ToSet(Append(dated, vault)) = ToSet(dated) \cup {vault}
    BY <1>t, OneMore
  <2>3. /\ dated' \in Seq(Files) /\ pre' \in Seq(Files)
        /\ ToSet(dated') \subseteq ToSet(dated) \cup {vault} /\ ToSet(pre') \subseteq ToSet(pre)
        /\ Len(dated') + Len(pre') <= Len(dated) + 1 + Len(pre)
    BY <1>t, <2>1, <2>2, PruneKeeps
  <2>4. Len(dated') \in Nat /\ Len(pre') \in Nat
    BY <2>3, LenProperties
  <2>5. Copies' \subseteq Stored
    BY <2>3 DEF Copies, Stored
  <2> QED BY <1>t, <2>1, <2>3, <2>4, <2>5
<1>3. CASE Backup
  BY <1>2, <1>3 DEF Backup, CopyVault
<1>4. CASE BackupInterrupted
  <2>1. CASE \E limit \in MaxBackups..MaxCopies : CopyVault(limit) /\ Return
    <3>1. PICK limit \in MaxBackups..MaxCopies : CopyVault(limit) /\ Return
      BY <2>1
    <3>2. limit \in Nat /\ pc' = "idle" /\ pc = "loaded"
      BY <3>1 DEF Return, CopyVault
    <3> QED BY <1>2, <3>1, <3>2
  <2>2. CASE /\ Len(dated) + Len(pre) < MaxCopies
             /\ dated' = Append(dated, Torn) /\ pre' = pre
             /\ pc = "loaded" /\ pc' = "idle"
    <3>1. /\ dated' \in Seq(Files) /\ Len(dated') = Len(dated) + 1
          /\ ToSet(dated') = ToSet(dated) \cup {Torn}
      BY <1>t, <2>2, OneMore
    <3>2. Copies' \subseteq Stored
      BY <2>2, <3>1 DEF Copies, Stored
    <3> QED BY <1>t, <2>2, <3>1, <3>2
  <2> QED BY <1>4, <2>1, <2>2 DEF BackupInterrupted, Return
\* The copy aside that a restore makes, and one that it does not finish
<1>5. ASSUME NEW f \in {vault, Torn}, pre' = Append(pre, f), dated' = dated, RoomForCopy
      PROVE  /\ dated' \in Seq(Files) /\ pre' \in Seq(Files)
             /\ Len(dated') + Len(pre') <= MaxCopies
             /\ Copies \subseteq Copies' /\ Copies' \subseteq Stored
  <2>1. /\ pre' \in Seq(Files) /\ Len(pre') = Len(pre) + 1
        /\ ToSet(pre') = ToSet(pre) \cup {f}
    BY <1>t, <1>5, OneMore
  <2> QED BY <1>t, <1>5, <2>1 DEF Copies, Stored
<1>6. CASE Restore
  <2>1. CASE pre' = pre
    BY <1>1, <1>6, <2>1 DEF Restore, copies
  <2>2. CASE pre' = Append(pre, vault)
    BY <1>5, <1>6, <2>2 DEF Restore
  <2> QED BY <1>6, <2>1, <2>2 DEF Restore
<1>7. CASE RestoreInterrupted
  BY <1>5, <1>7 DEF RestoreInterrupted
<1>8. CASE Load \/ Recover \/ EndWithoutSave \/ SaveVault \/ RollbackAccept
  BY <1>1, <1>8 DEF Load, Recover, EndWithoutSave, SaveVault, Prepare, SaveSnapshot, StoreVault,
                    SaveTrusted, SaveStateFailsLate, SaveFails, RollbackAccept, store
<1>9. CASE StageRestored \/ SwapRestored \/ Accept \/ SetMode \/ Crash \/ PutBack \/ LoseState
  BY <1>1, <1>9 DEF StageRestored, SwapRestored, Accept, SetMode, Crash, PutBack, LoseState, store
<1>10. CASE UNCHANGED vars
  BY <1>1, <1>10 DEF vars, store
<1> QED BY <1>3, <1>4, <1>6, <1>7, <1>8, <1>9, <1>10 DEF Next

\* Nothing comes into vault.db, or beside it, that was not there, except by a save.
LEMMA StoredStep ==
  ASSUME TypeInv, [Next]_vars
  PROVE  \/ Stored' \subseteq Stored /\ ~StoreVault
         \/ StoreVault /\ Stored' \subseteq Stored \cup {mem}
<1> USE DEF Goto
<1>1. Copies' \subseteq Stored
  BY CopiesStep
<1>2. vault' \in Stored \/ StoreVault
  BY DEF Next, vars, store, Stored, Load, Recover, EndWithoutSave, Backup, BackupInterrupted,
         CopyVault, SaveVault, Prepare, SaveSnapshot, SaveTrusted, SaveStateFailsLate, SaveFails,
         RollbackAccept, Restore, RestoreInterrupted, StageRestored, SwapRestored, Accept, SetMode,
         Crash, PutBack, LoseState, TypeInv
<1>3. StoreVault => vault' = mem
  BY DEF StoreVault
<1> QED BY <1>1, <1>2, <1>3 DEF Stored

-----------------------------------------------------------------------------
(* Type correctness                                                         *)

\* The trusted state, read or not, is of a number and a revision, and one that is
\* there is of revision 1 at least.
LEMMA TrustedNumbers ==
  ASSUME TypeInv
  PROVE  /\ trusted.id \in Nat /\ trusted.rev \in Nat
         /\ trusted # NoState => trusted.rev >= 1
<1>1. CASE trusted \in States
  <2>1. /\ trusted = [id |-> trusted.id, rev |-> trusted.rev]
        /\ trusted.id \in VaultIDs /\ trusted.rev \in Revisions
        /\ trusted.id = 0 <=> trusted.rev = 0
    BY <1>1 DEF States, Together
  <2>2. trusted.id \in Nat /\ trusted.rev \in Nat
    BY <2>1 DEF VaultIDs, Revisions
  <2> QED BY <2>1, <2>2 DEF NoState
<1>2. CASE trusted = Unreadable
  BY <1>2 DEF Unreadable
<1> QED BY <1>1, <1>2 DEF TypeInv, TypeOK

\* What PrepareNextRevision and the rest of saveExtendedVaultBytes do to the vault
\* in memory: a new ID, or a revision above its own and above the trusted one.
LEMMA PrepareFacts ==
  ASSUME TypeInv, Prepare
  PROVE  /\ saves' = saves + 1 /\ saves' \in 0..MaxSaves
         /\ mem' \in PastFiles' /\ mem'.n = saves' /\ ~Legacy(mem') /\ ids' <= saves' /\ ids <= ids'
         /\ \/ mem'.id = ids + 1
            \/ /\ mem'.id = mem.id /\ mem'.rev > mem.rev
               /\ trusted.id = mem.id => mem'.rev > trusted.rev
         /\ \/ pc' = "snapshot" /\ withKey'
            \/ /\ pc' = "store" /\ ~withKey' /\ ~withKey
               /\ mem'.snap < mem'.rev /\ mem'.key = mem.key
<1> USE SavesAssumption
<1> DEFINE f == PrepareNextRevision(mem, trusted)
<1>1. /\ pc = "loaded" /\ saves \in 0..MaxSaves /\ saves < MaxSaves /\ saves' = saves + 1
      /\ saves + 1 \in 1..MaxSaves
      /\ ids \in Nat /\ ids <= saves
      /\ trusted.id \in Nat /\ trusted.rev \in Nat /\ trusted.rev <= saves
    BY TrustedNumbers DEF Prepare, TypeInv, TypeOK, VaultIDs
<1>2. /\ mem \in PastFiles
      /\ mem \in [id : VaultIDs, rev : Revisions, n : 0..MaxSaves, snap : Revisions, key : 0..MaxSaves]
      /\ Together(mem)
  BY DEF TypeInv, PastFiles, Files
<1>3. /\ mem.id \in Nat /\ mem.rev \in Nat /\ mem.snap \in Nat /\ mem.key \in Nat
      /\ mem.id <= ids /\ mem.rev <= saves /\ mem.snap <= mem.rev /\ mem.key <= saves
      /\ mem.id = 0 <=> mem.rev = 0
  BY <1>2, SavesAssumption DEF PastFiles, VaultIDs, Revisions, Together
<1>k. PICK key \in {mem.key} \cup (IF withKey THEN {} ELSE {saves'}) :
        \E refresh \in IF withKey \/ key # mem.key THEN {TRUE} ELSE {FALSE, mem.key # 0} :
          /\ mem' = [f EXCEPT !.n = saves', !.snap = IF refresh THEN f.rev ELSE @, !.key = key]
          /\ withKey' = refresh
          /\ ids' = Larger(ids, f.id)
          /\ pc' = IF refresh THEN "snapshot" ELSE "store"
  BY DEF Prepare
<1>4. PICK refresh \in IF withKey \/ key # mem.key THEN {TRUE} ELSE {FALSE, mem.key # 0} :
        /\ mem' = [f EXCEPT !.n = saves', !.snap = IF refresh THEN f.rev ELSE @, !.key = key]
        /\ withKey' = refresh
        /\ ids' = Larger(ids, f.id)
        /\ pc' = IF refresh THEN "snapshot" ELSE "store"
  BY <1>k
<1>b. \/ pc' = "snapshot" /\ withKey'
      \/ pc' = "store" /\ ~withKey' /\ ~withKey /\ ~refresh /\ key = mem.key
  <2>1. CASE refresh
    BY <1>4, <2>1
  <2>2. CASE ~refresh
    <3>1. ~withKey /\ key = mem.key
      BY <1>4, <2>2
    <3>2. ~withKey' /\ pc' = "store"
      BY <1>4, <2>2
    <3> QED BY <2>2, <3>1, <3>2
  <2> QED BY <2>1, <2>2
<1>5. CASE Legacy(mem)
  <2>1. f = [mem EXCEPT !.id = ids + 1, !.rev = 1] /\ mem.rev = 0 /\ mem.snap = 0
    BY <1>3, <1>5 DEF PrepareNextRevision, Legacy
  <2>2. /\ mem' = [id |-> ids + 1, rev |-> 1, n |-> saves + 1,
                   snap |-> IF refresh THEN 1 ELSE 0, key |-> key]
        /\ f.id = ids + 1
    BY <1>1, <1>2, <1>4, <2>1
  <2> HIDE DEF f
  <2>3. key \in 0..MaxSaves /\ key <= saves + 1
    BY <1>1, <1>3, <1>k
  <2>4. ids' = ids + 1 /\ ids + 1 \in 1..MaxSaves /\ saves + 1 \in 1..MaxSaves /\ 1 \in 0..MaxSaves
    BY <1>1, <1>4, <2>2, SavesAssumption DEF Larger
  <2>5. mem' \in PastFiles'
    BY <1>1, <2>2, <2>3, <2>4 DEF PastFiles, Files, VaultIDs, Revisions, Together
  <2>6. ~Legacy(mem') /\ mem'.n = saves' /\ ids' <= saves' /\ mem'.id = ids + 1
    BY <1>1, <2>2, <2>4 DEF Legacy
  <2>7. ~refresh /\ key = mem.key => mem'.snap < mem'.rev /\ mem'.key = mem.key
    BY <2>2
  <2> QED BY <1>1, <1>b, <2>4, <2>5, <2>6, <2>7
<1>6. CASE ~Legacy(mem)
  <2> DEFINE r == IF trusted.id = mem.id THEN Larger(mem.rev, trusted.rev) + 1 ELSE mem.rev + 1
  <2>1. f = [mem EXCEPT !.rev = r] /\ mem.id # 0
    BY <1>3, <1>6 DEF PrepareNextRevision, Legacy
  <2>2. /\ mem' = [id |-> mem.id, rev |-> r, n |-> saves + 1,
                   snap |-> IF refresh THEN r ELSE mem.snap, key |-> key]
        /\ f.id = mem.id
    BY <1>1, <1>2, <1>4, <2>1
  <2>3. r \in 1..(saves + 1) /\ r > mem.rev /\ (trusted.id = mem.id => r > trusted.rev)
    BY <1>1, <1>3 DEF Larger
  <2> HIDE DEF f, r
  <2>4. key \in 0..MaxSaves /\ key <= saves + 1 /\ ids' = ids
    BY <1>1, <1>3, <1>k, <1>4, <2>2 DEF Larger
  <2>5. /\ r \in 0..MaxSaves /\ saves + 1 \in 0..MaxSaves /\ mem.id \in 0..MaxSaves
        /\ mem.snap \in 0..MaxSaves
    BY <1>1, <1>3, <2>3
  <2>6. mem' \in PastFiles'
    BY <1>1, <1>3, <2>1, <2>2, <2>3, <2>4, <2>5 DEF PastFiles, Files, VaultIDs, Revisions, Together
  <2>7. ~Legacy(mem') /\ mem'.n = saves' /\ ids' <= saves'
    BY <1>1, <2>1, <2>2, <2>3, <2>4 DEF Legacy
  <2>8. ~refresh /\ key = mem.key => mem'.snap < mem'.rev /\ mem'.key = mem.key
    BY <1>1, <1>3, <2>2, <2>3
  <2>9. mem'.id = mem.id /\ mem'.rev > mem.rev /\ (trusted.id = mem.id => mem'.rev > trusted.rev)
    BY <2>2, <2>3
  <2> QED BY <1>1, <1>b, <2>4, <2>6, <2>7, <2>8, <2>9
<1> QED BY <1>5, <1>6

\* How a step may change each variable.
LEMMA Changes ==
  ASSUME TypeInv, [Next]_vars
  PROVE  /\ mode' = mode \/ (mode' \in Modes /\ pc = "idle")
         /\ snapshot' = snapshot \/ SaveSnapshot
         /\ UNCHANGED <<trusted, fresh>> \/ SaveTrusted \/ SaveStateFailsLate \/ Accept \/ LoseState
         /\ UNCHANGED <<top, reused>> \/ StoreVault
         /\ UNCHANGED <<saves, ids>> \/ Prepare
         /\ kept' \in {kept, vault, NewVault}
         /\ left' \subseteq left \cup TempNames
         /\ withKey' \in BOOLEAN /\ excused' \in BOOLEAN /\ parted' \in BOOLEAN
         /\ mem' \in {mem, vault, snapshot, NewVault} \cup Copies \/ Prepare
<1> USE DEF Next, vars, store, copies, state, command, ghosts, SaveVault, TypeInv, TypeOK, Return
<1>1. CASE Load \/ Recover \/ EndWithoutSave \/ RollbackAccept \/ Restore \/ RestoreInterrupted
           \/ SetMode \/ PutBack \/ LoseState
  BY <1>1 DEF Load, Recover, EndWithoutSave, RollbackAccept, Restore, RestoreInterrupted, SetMode,
              PutBack, LoseState
<1>2. CASE Backup \/ BackupInterrupted
  BY <1>2 DEF Backup, BackupInterrupted, CopyVault
<1>3. CASE Prepare
  BY <1>3 DEF Prepare
<1>4. CASE SaveSnapshot \/ StoreVault \/ SaveTrusted \/ SaveStateFailsLate \/ SaveFails
  BY <1>4 DEF SaveSnapshot, StoreVault, SaveTrusted, SaveStateFailsLate, SaveFails,
              SaveStateSucceeds
<1>5. CASE StageRestored \/ SwapRestored \/ Accept \/ Crash
  BY <1>5 DEF StageRestored, SwapRestored, Accept, SaveStateSucceeds, Crash, Temp, TempNames
<1>6. CASE UNCHANGED vars
  BY <1>6
<1> QED BY <1>1, <1>2, <1>3, <1>4, <1>5, <1>6

\* Where the steps of a save, of an acceptance and of a restore come from.
LEMMA Arrivals ==
  ASSUME TypeInv, [Next]_vars, ~UNCHANGED vars
  PROVE  /\ pc' = "loaded" => (Load \/ Recover \/ Backup)
         /\ pc' = "snapshot" => Prepare
         /\ pc' = "store" => (Prepare \/ SaveSnapshot)
         /\ pc' = "trust" => StoreVault
         /\ pc' = "accept" => (RollbackAccept \/ SwapRestored)
         /\ pc' = "stage" => Restore
         /\ pc' = "swap" => StageRestored
         /\ pc' \in {"idle", "loaded", "snapshot", "store", "trust", "stage", "swap", "accept"}
<1> USE DEF Next, SaveVault, Return, Goto
<1>1. CASE Load \/ Recover \/ EndWithoutSave \/ RollbackAccept \/ Restore \/ StageRestored
           \/ SwapRestored
  BY <1>1 DEF Load, Recover, EndWithoutSave, RollbackAccept, Restore, StageRestored, SwapRestored
<1>2. CASE Backup \/ BackupInterrupted
  BY <1>2 DEF Backup, BackupInterrupted, CopyVault
<1>3. CASE Prepare
  BY <1>3, PrepareFacts
<1>4. CASE SaveSnapshot \/ StoreVault \/ SaveTrusted \/ SaveStateFailsLate \/ SaveFails \/ Accept
           \/ Crash
  BY <1>4 DEF SaveSnapshot, StoreVault, SaveTrusted, SaveStateFailsLate, SaveFails, Accept, Crash
<1>5. CASE RestoreInterrupted \/ SetMode \/ PutBack \/ LoseState
  BY <1>5 DEF RestoreInterrupted, SetMode, PutBack, LoseState
<1> QED BY <1>1, <1>2, <1>3, <1>4, <1>5

\* Every step keeps the type invariant: the files only get numbers of their time.
LEMMA TypeStep ==
  ASSUME TypeInv, [Next]_vars
  PROVE  TypeInv'
<1> USE SavesAssumption
<1>1. /\ saves \in 0..MaxSaves /\ ids \in 0..MaxSaves /\ ids <= saves
      /\ saves' \in 0..MaxSaves /\ ids' \in 0..MaxSaves /\ ids' <= saves'
      /\ saves <= saves' /\ ids <= ids'
  <2>0. saves \in 0..MaxSaves /\ ids \in 0..MaxSaves /\ ids <= saves
    BY DEF TypeInv, TypeOK, VaultIDs
  <2>1. CASE UNCHANGED <<saves, ids>>
    BY <2>0, <2>1
  <2>2. CASE Prepare
    <3>1. saves' = saves + 1 /\ saves' \in 0..MaxSaves /\ ids' <= saves' /\ ids <= ids'
      BY <2>2, PrepareFacts
    <3>2. ids' \in Nat
      <4>1. ids' = Larger(ids, PrepareNextRevision(mem, trusted).id)
        BY <2>2 DEF Prepare
      <4>2. mem.id \in Nat
        BY DEF TypeInv, TypeOK, Files, VaultIDs
      <4>3. ids + 1 \in Nat
        BY <2>0
      <4>4. PrepareNextRevision(mem, trusted).id \in {mem.id, ids + 1}
        BY DEF TypeInv, TypeOK, Files, PrepareNextRevision
      <4> QED BY <2>0, <4>1, <4>2, <4>3, <4>4 DEF Larger
    <3> QED BY <2>0, <3>1, <3>2
  <2> QED BY <2>1, <2>2, Changes
<1>2. PastFiles \subseteq PastFiles'
  <2>1. ASSUME NEW f \in Files
        PROVE  f.id \in Nat /\ f.rev \in Nat /\ f.n \in Nat /\ f.key \in Nat /\ f.snap \in Nat
    BY DEF Files, VaultIDs, Revisions
  <2> QED BY <1>1, <2>1 DEF PastFiles
<1>3. NewVault \in PastFiles
  BY <1>1 DEF PastFiles, NewVault, Files, VaultIDs, Revisions, Together
<1>4. Stored' \cup {snapshot', mem'} \subseteq PastFiles'
  <2>1. Stored' \subseteq Stored \cup {mem} /\ snapshot' \in {snapshot, mem}
    BY StoredStep, Changes DEF SaveSnapshot
  <2>2. Stored \cup {mem, snapshot, NewVault} \subseteq PastFiles'
    BY <1>2, <1>3 DEF TypeInv
  <2>3. mem' \in PastFiles'
    <3>1. CASE mem' \in {mem, vault, snapshot, NewVault} \cup Copies
      BY <2>2, <3>1 DEF Stored
    <3>2. CASE Prepare
      BY <3>2, PrepareFacts
    <3> QED BY <3>1, <3>2, Changes
  <2> QED BY <2>1, <2>2, <2>3
<1>5. /\ dated' \in Seq(Files) /\ pre' \in Seq(Files)
      /\ Len(dated') + Len(pre') <= MaxCopies /\ Copies' \subseteq Files
  BY <1>4, CopiesStep DEF Stored, PastFiles
<1>m. mem \in Files /\ mem.id \in VaultIDs /\ mem.rev \in Revisions /\ mem.n \in 0..MaxSaves
      /\ mem.id <= ids /\ mem.rev <= saves /\ mem.n <= saves
  BY DEF TypeInv, PastFiles, Files
<1>6. /\ trusted' \in States \cup {Unreadable} /\ trusted'.id <= ids' /\ trusted'.rev <= saves'
      /\ fresh' \in 0..MaxSaves /\ fresh' <= saves'
  <2>0. /\ trusted \in States \cup {Unreadable} /\ trusted.id \in Nat /\ trusted.rev \in Nat
        /\ trusted.id <= ids /\ trusted.rev <= saves
        /\ fresh \in 0..MaxSaves /\ fresh <= saves
    BY TrustedNumbers DEF TypeInv, TypeOK
  <2>1. CASE UNCHANGED <<trusted, fresh>>
    BY <1>1, <2>0, <2>1
  <2>2. CASE SaveTrusted \/ SaveStateFailsLate \/ Accept
    <3>1. /\ ~Legacy(mem) /\ trusted' = [id |-> mem.id, rev |-> mem.rev] /\ fresh' \in {fresh, mem.n}
          /\ UNCHANGED <<saves, ids>>
      BY <2>2 DEF SaveTrusted, SaveStateFailsLate, Accept, SaveStateSucceeds
    <3>2. trusted' \in States
      BY <1>m, <3>1 DEF States, Together, Legacy, Revisions
    <3> QED BY <1>m, <2>0, <3>1, <3>2
  <2>3. CASE LoseState
    <3>1. /\ trusted # NoState /\ trusted' \in {NoState, Unreadable}
          /\ UNCHANGED <<saves, ids, fresh>>
      BY <2>3 DEF LoseState
    <3>2. trusted.rev >= 1
      BY <3>1, TrustedNumbers
    <3>3. NoState \in States
      BY DEF NoState, States, VaultIDs, Revisions, Together
    <3>4. trusted'.id = 0 /\ trusted'.rev \in {0, 1}
      BY <3>1 DEF NoState, Unreadable
    <3> QED BY <1>1, <2>0, <3>1, <3>2, <3>3, <3>4
  <2> QED BY <2>1, <2>2, <2>3, Changes
<1>7. /\ top' \in [VaultIDs -> Revisions] /\ reused' \in BOOLEAN
      /\ \A i \in VaultIDs : top'[i] # 0 => i \in 1..ids'
  <2>1. CASE UNCHANGED <<top, reused>>
    BY <1>1, <2>1 DEF TypeInv, TypeOK, VaultIDs
  <2>2. CASE StoreVault
    <3>1. /\ ~Legacy(mem) /\ top' = [top EXCEPT ![mem.id] = Larger(@, mem.rev)]
          /\ reused' = (reused \/ mem.rev <= top[mem.id])
          /\ top \in [VaultIDs -> Revisions] /\ UNCHANGED <<saves, ids>>
      BY <2>2 DEF StoreVault, Goto, TypeInv, TypeOK
    <3>2. Larger(top[mem.id], mem.rev) \in Revisions /\ mem.id \in 1..ids
      BY <1>1, <1>m, <3>1 DEF Larger, Legacy, VaultIDs
    <3>3. top' \in [VaultIDs -> Revisions]
      BY <3>1, <3>2
    <3> QED BY <3>1, <3>2, <3>3, <1>m DEF TypeInv
  <2> QED BY <2>1, <2>2, Changes
<1>8. pc' \in {"snapshot", "store", "trust"} => ~Legacy(mem') /\ mem'.n = saves'
  <2>1. CASE UNCHANGED vars
    BY <2>1 DEF vars, command, TypeInv, Legacy
  <2>2. CASE Prepare
    BY <2>2, PrepareFacts
  <2>3. CASE SaveSnapshot \/ StoreVault
    BY <2>3 DEF SaveSnapshot, StoreVault, Goto, command, TypeInv, Legacy
  <2> QED BY <2>1, <2>2, <2>3, Arrivals
<1>9. pc' \in {"trust", "accept"} => mem' = vault'
  BY Arrivals DEF StoreVault, RollbackAccept, SwapRestored, vars, store, command, TypeInv
<1>10. pc' \in {"stage", "swap"} => mem' \in Copies'
  <2>1. CASE UNCHANGED vars
    BY <2>1 DEF vars, store, copies, command, TypeInv, Copies
  <2>2. CASE Restore
    BY <2>2, CopiesStep DEF Restore, Goto
  <2>3. CASE StageRestored
    BY <2>3 DEF StageRestored, Goto, store, copies, command, TypeInv, Copies
  <2> QED BY <2>1, <2>2, <2>3, Arrivals
<1>11. TypeOK'
  <2>1. mode' \in Modes /\ left' \subseteq TempNames
    BY Changes DEF TypeInv, TypeOK
  <2>2. withKey' \in BOOLEAN /\ excused' \in BOOLEAN /\ parted' \in BOOLEAN
    BY Changes
  <2>3. pc' \in {"idle", "loaded", "snapshot", "store", "trust", "stage", "swap", "accept"}
    BY Arrivals DEF vars, TypeInv, TypeOK
  <2>4. vault' \in Files /\ snapshot' \in Files /\ mem' \in Files
    BY <1>4 DEF Stored, PastFiles
  <2>5. kept' \in Files
    BY <1>3, Changes DEF TypeInv, TypeOK, PastFiles
  <2> QED BY <1>1, <1>5, <1>6, <1>7, <2>1, <2>2, <2>3, <2>4, <2>5 DEF TypeOK, VaultIDs
<1> QED BY <1>1, <1>4, <1>5, <1>6, <1>7, <1>8, <1>9, <1>10, <1>11 DEF TypeInv

\* The types of the vault, its files and what an open has loaded, at every step.
LEMMA Typed == Spec => []TypeInv
<1>1. Init => TypeInv
  <2> SUFFICES ASSUME Init PROVE TypeInv
    OBVIOUS
  <2> USE SavesAssumption, BackupsAssumption
  <2>1. saves \in 0..MaxSaves /\ ids \in 0..MaxSaves /\ ids <= saves
    BY DEF Init
  <2>2. NewVault \in PastFiles
    BY <2>1 DEF PastFiles, NewVault, Files, VaultIDs, Revisions, Together
  <2>3. vault \in PastFiles
    <3>1. vault = [id |-> 0, rev |-> 0, n |-> saves, snap |-> 0, key |-> 0]
      BY DEF Init, NewVault
    <3> QED BY <2>1, <3>1 DEF PastFiles, Files, VaultIDs, Revisions, Together
  <2>4. /\ dated \in Seq(Files) /\ pre \in Seq(Files) /\ ToSet(dated) \subseteq {vault}
        /\ ToSet(pre) = {} /\ Len(dated) + Len(pre) <= MaxCopies
    <3>1. vault \in Files
      BY <2>3 DEF PastFiles
    <3>2. <<>> \in Seq(Files) /\ Len(<<>>) = 0 /\ ToSet(<<>>) = {}
      BY DEF ToSet
    <3>3. <<vault>> \in Seq(Files) /\ Len(<<vault>>) = 1 /\ ToSet(<<vault>>) = {vault}
      BY <3>1 DEF ToSet
    <3>4. dated \in {<<>>, <<vault>>} /\ pre = <<>>
      BY DEF Init
    <3>5. 1 <= MaxCopies
      OBVIOUS
    <3>6. CASE dated = <<>>
      BY <3>2, <3>4, <3>5, <3>6
    <3>7. CASE dated = <<vault>>
      BY <3>2, <3>3, <3>4, <3>5, <3>7
    <3> QED BY <3>4, <3>6, <3>7
  <2>5. Copies \subseteq {vault}
    BY <2>4 DEF Copies
  <2>6. trusted \in States /\ top \in [VaultIDs -> Revisions] /\ fresh \in 0..MaxSaves
    BY <2>1 DEF Init, NoState, States, VaultIDs, Revisions, Together
  <2>7. TypeOK
    BY <2>1, <2>2, <2>3, <2>4, <2>5, <2>6 DEF Init, TypeOK, PastFiles, VaultIDs, TempNames
  <2>8. Stored \cup {snapshot, mem} \subseteq PastFiles
    BY <2>2, <2>3, <2>5 DEF Init, Stored
  <2> QED BY <2>1, <2>4, <2>7, <2>8 DEF Init, TypeInv, NoState
<1>2. TypeInv /\ [Next]_vars => TypeInv'
  BY TypeStep
<1> QED BY <1>1, <1>2, PTL DEF Spec

\* The type invariant: revisions, vault IDs and save numbers stay in their ranges,
\* whatever old files come back and are saved again, and there are never more
\* copies than MaxCopies.
THEOREM TypeCorrect == Spec => []TypeOK
<1>1. TypeInv => TypeOK
  BY DEF TypeInv
<1> QED BY Typed, <1>1, PTL

-----------------------------------------------------------------------------
(* Revisions                                                                *)

\* A save cut short before the trusted state, or an acceptance that gives up on
\* revisions, is excused; everything else keeps the trusted state in step.
LEMMA TracksStep ==
  ASSUME TypeInv, TypeInv', Tracks, [Next]_vars
  PROVE  Tracks'
<1> USE DEF Goto
<1>m. /\ mem.id \in VaultIDs /\ mem.rev \in Nat /\ trusted.rev \in Nat
      /\ top \in [VaultIDs -> Revisions] /\ \A i \in VaultIDs : top[i] \in Nat
      /\ mem.id = 0 <=> mem.rev = 0
  <2>1. mem \in Files /\ top \in [VaultIDs -> Revisions]
    BY DEF TypeInv, TypeOK
  <2>2. mem.id \in VaultIDs /\ mem.rev \in Nat /\ (mem.id = 0 <=> mem.rev = 0)
    BY <2>1 DEF Files, Revisions, Together
  <2>3. trusted.rev \in Nat
    BY TrustedNumbers
  <2>4. \A i \in VaultIDs : top[i] \in Nat
    BY <2>1 DEF Revisions
  <2> QED BY <2>1, <2>2, <2>3, <2>4
<1>1. CASE Prepare
  <2>1. /\ pc = "loaded" /\ pc' \in {"snapshot", "store"}
        /\ UNCHANGED <<trusted, top, excused>>
    BY <1>1, PrepareFacts DEF Prepare, state, ghosts
  <2>2. ~excused => mem'.rev > top[mem'.id]
    <3> SUFFICES ASSUME ~excused PROVE mem'.rev > top[mem'.id]
      OBVIOUS
    <3>1. mem'.id \in VaultIDs /\ mem'.rev \in Nat /\ mem'.rev > 0
      BY <1>1, PrepareFacts DEF PastFiles, Files, VaultIDs, Revisions, Legacy
    <3>2. CASE top[mem'.id] = 0
      BY <3>1, <3>2
    <3>3. CASE top[mem'.id] # 0
      <4>1. mem'.id \in 1..ids
        BY <3>1, <3>3 DEF TypeInv
      <4>2. mem'.id # ids + 1
        BY <4>1 DEF TypeInv, TypeOK, VaultIDs
      <4>3. trusted.id = mem'.id /\ trusted.rev >= top[mem'.id]
        BY <2>1, <3>1, <3>3 DEF Tracks
      <4>4. mem'.rev > trusted.rev
        BY <1>1, <4>2, <4>3, PrepareFacts
      <4> QED BY <1>m, <3>1, <4>3, <4>4
    <3> QED BY <3>2, <3>3
  <2> QED BY <2>1, <2>2 DEF Tracks
<1>2. CASE StoreVault
  <2>1. /\ pc = "store" /\ pc' = "trust" /\ UNCHANGED <<mem, trusted, excused>>
        /\ top' = [top EXCEPT ![mem.id] = Larger(@, mem.rev)]
        /\ mem.id # 0
    BY <1>2 DEF StoreVault, state, command, TypeInv, Legacy
  <2>2. top'[mem.id] = Larger(top[mem.id], mem.rev) /\ mem.rev <= top'[mem.id]
    BY <1>m, <2>1 DEF Larger
  <2>3. ~excused => top'[mem.id] = mem.rev
    BY <1>m, <2>1, <2>2 DEF Tracks, Larger
  <2>4. \A i \in VaultIDs : i # mem.id => top'[i] = top[i]
    BY <1>m, <2>1
  <2> QED BY <2>1, <2>2, <2>3, <2>4 DEF Tracks
<1>3. CASE SaveTrusted \/ SaveStateFailsLate \/ Accept
  <2>1. /\ ~Legacy(mem) /\ trusted' = [id |-> mem.id, rev |-> mem.rev] /\ pc' = "idle"
        /\ excused' = (excused \/ LosesTrack(mem)) /\ top' = top
    BY <1>3 DEF SaveTrusted, SaveStateFailsLate, Accept, SaveStateSucceeds, Return
  <2>2. SUFFICES ASSUME ~excused, ~LosesTrack(mem), NEW i \in VaultIDs, top[i] # 0
                 PROVE  mem.id = i /\ mem.rev >= top[i]
    BY <2>1 DEF Tracks
  <2>3. mem.rev >= top[mem.id] /\ (trusted = NoState \/ trusted.id = mem.id)
    BY <1>m, <2>2 DEF LosesTrack
  <2>4. trusted.id = i \/ mem.id = i
    BY <2>2 DEF Tracks
  <2>5. i # 0
    BY <2>2 DEF TypeInv
  <2> QED BY <2>3, <2>4, <2>5 DEF NoState
<1>4. CASE SaveFails \/ Crash
  BY <1>4 DEF SaveFails, Crash, Return, Tracks
<1>5. CASE SaveSnapshot
  BY <1>5 DEF SaveSnapshot, command, state, Tracks
<1>6. CASE UNCHANGED vars
  BY <1>6 DEF vars, command, state, ghosts, Tracks
<1>7. CASE UNCHANGED <<trusted, top, excused>> /\ pc # "trust" /\ pc' \notin {"snapshot", "store", "trust"}
  BY <1>7 DEF Tracks
<1>8. CASE Load \/ Recover \/ EndWithoutSave \/ RollbackAccept \/ Restore \/ RestoreInterrupted
           \/ SetMode \/ PutBack
  BY <1>7, <1>8 DEF Load, Recover, EndWithoutSave, RollbackAccept, Restore, RestoreInterrupted,
                    SetMode, PutBack, state, ghosts, Return
<1>9. CASE Backup \/ BackupInterrupted \/ StageRestored \/ SwapRestored
  BY <1>7, <1>9 DEF Backup, BackupInterrupted, CopyVault, StageRestored, SwapRestored, state,
                    ghosts, Return
<1>10. CASE LoseState
  BY <1>10 DEF LoseState, Tracks
<1> QED BY <1>1, <1>2, <1>3, <1>4, <1>5, <1>6, <1>8, <1>9, <1>10 DEF Next, SaveVault

\* A revision is stored twice only after the trusted state lost track of one: a save
\* cut short before rollback-state.json, a move to another vault, a lower revision
\* accepted, or the state itself lost.  Old copies put back and old snapshots recovered are not
\* enough (PrepareNextRevision).
THEOREM RevisionsStayUnique == Spec => []RevisionsUnique
<1>1. Init => Tracks /\ RevisionsUnique
  BY DEF Init, Tracks, RevisionsUnique
<1>2. TypeInv /\ TypeInv' /\ Tracks /\ [Next]_vars => Tracks'
  BY TracksStep
<1>3. TypeInv /\ Tracks /\ RevisionsUnique /\ [Next]_vars => RevisionsUnique'
  <2> SUFFICES ASSUME TypeInv, Tracks, RevisionsUnique, [Next]_vars, ~excused' PROVE ~reused'
    BY DEF RevisionsUnique, TypeInv, TypeOK
  <2>1. ~excused
    BY DEF Next, vars, ghosts, SaveVault, Load, Recover, EndWithoutSave, Backup, BackupInterrupted,
           CopyVault, Prepare, SaveSnapshot, StoreVault, SaveTrusted, SaveStateFailsLate, SaveFails,
           RollbackAccept, Restore, RestoreInterrupted, StageRestored, SwapRestored, Accept, SetMode,
           Crash, PutBack, LoseState
  <2>2. CASE StoreVault
    <3>1. mem.rev > top[mem.id] /\ ~reused /\ reused' = (reused \/ mem.rev <= top[mem.id])
      BY <2>1, <2>2 DEF StoreVault, Goto, Tracks, RevisionsUnique
    <3>2. mem.id \in VaultIDs /\ mem.rev \in Revisions /\ top \in [VaultIDs -> Revisions]
      BY DEF TypeInv, TypeOK, Files
    <3>3. mem.rev \in Nat /\ top[mem.id] \in Nat
      BY <3>2 DEF Revisions
    <3>4. ~(mem.rev <= top[mem.id])
      BY <3>1, <3>3
    <3> QED BY <3>1, <3>4
  <2>3. CASE UNCHANGED <<top, reused>>
    BY <2>1, <2>3 DEF RevisionsUnique
  <2> QED BY <2>2, <2>3, Changes
<1> QED BY Typed, <1>1, <1>2, <1>3, PTL DEF Spec

-----------------------------------------------------------------------------
(* The check before a password command                                      *)

\* Until a revision is used twice, revisions order the saves of a vault: a new
\* save is above everything stored, and the trusted state names one of the stored.
LEMMA OrderedStep ==
  ASSUME TypeInv, TypeInv', Ordered, [Next]_vars
  PROVE  Ordered'
<1> SUFFICES ASSUME ~reused'
             PROVE  /\ \A f \in Stored' : ~Legacy(f) => f.rev <= top'[f.id]
                    /\ \A f, g \in Stored' :
                         ~Legacy(f) /\ f.id = g.id /\ f.rev >= g.rev => f.n >= g.n
                    /\ \A f \in Stored' :
                         trusted' # NoState /\ f.id = trusted'.id /\ f.rev >= trusted'.rev
                           => f.n >= fresh'
  BY DEF Ordered, Legacy
<1>1. /\ \A f \in Stored \cup {mem} : /\ f.id \in VaultIDs /\ f.rev \in Nat /\ f.n \in Nat
                                     /\ f.n <= saves /\ (f.id = 0 <=> f.rev = 0)
      /\ top \in [VaultIDs -> Revisions] /\ \A i \in VaultIDs : top[i] \in Nat
      /\ fresh \in Nat /\ fresh <= saves /\ saves \in Nat
  <2>1. Stored \cup {mem} \subseteq PastFiles /\ \A i \in VaultIDs : top[i] \in Revisions
    BY DEF TypeInv, TypeOK
  <2>2. \A f \in PastFiles : /\ f.id \in VaultIDs /\ f.rev \in Nat /\ f.n \in Nat
                             /\ f.n <= saves /\ (f.id = 0 <=> f.rev = 0)
    BY DEF PastFiles, Files, Revisions, Together
  <2> QED BY <2>1, <2>2 DEF TypeInv, TypeOK, Revisions
<1>2. CASE StoreVault
  <2>1. /\ mem.n = saves /\ ~Legacy(mem) /\ UNCHANGED <<trusted, fresh>>
        /\ reused' = (reused \/ mem.rev <= top[mem.id])
        /\ top' = [top EXCEPT ![mem.id] = Larger(@, mem.rev)]
    BY <1>2 DEF StoreVault, Goto, TypeInv, state, ghosts
  <2>2. ~reused /\ ~(mem.rev <= top[mem.id])
    BY <2>1
  <2>3. mem.rev > top[mem.id]
    BY <1>1, <2>2
  <2>4. Stored' \subseteq Stored \cup {mem}
    BY StoredStep
  <2>5. \A i \in VaultIDs : top'[i] = IF i = mem.id THEN mem.rev ELSE top[i]
    BY <1>1, <2>1, <2>3 DEF Larger
  <2>6. ASSUME NEW f \in Stored, ~Legacy(f)
        PROVE  f.rev <= top[f.id] /\ ~(f.id = mem.id /\ f.rev >= mem.rev)
    <3>1. f.rev <= top[f.id]
      BY <2>2, <2>6 DEF Ordered
    <3> QED BY <1>1, <2>3, <3>1
  <2>7. \A f \in Stored' : ~Legacy(f) => f.rev <= top'[f.id]
    BY <1>1, <2>3, <2>4, <2>5, <2>6
  <2>8. ASSUME NEW f \in Stored', NEW g \in Stored',
               ~Legacy(f), f.id = g.id, f.rev >= g.rev
        PROVE  f.n >= g.n
    <3>1. CASE f = mem
      BY <1>1, <2>1, <2>4, <3>1
    <3>2. CASE f \in Stored /\ g \in Stored
      BY <2>2, <2>8, <3>2 DEF Ordered
    <3>3. CASE f \in Stored /\ g = mem
      BY <2>6, <2>8, <3>3
    <3> QED BY <2>4, <3>1, <3>2, <3>3
  <2>10. \A f \in Stored' : trusted' # NoState /\ f.id = trusted'.id /\ f.rev >= trusted'.rev
                              => f.n >= fresh'
    BY <1>1, <2>1, <2>2, <2>4 DEF Ordered
  <2> QED BY <2>7, <2>8, <2>10
<1>3. CASE SaveTrusted \/ SaveStateFailsLate \/ Accept
  <2>1. /\ ~Legacy(mem) /\ mem = vault /\ trusted' = [id |-> mem.id, rev |-> mem.rev]
        /\ fresh' <= mem.n /\ fresh' \in Nat /\ UNCHANGED <<top, reused>>
    <3>1. pc = "trust" => mem.n = saves
      BY DEF TypeInv
    <3>2. mem.n \in Nat
      BY <1>1
    <3>3. fresh' = mem.n \/ (pc = "trust" /\ fresh' = fresh)
      BY <1>3 DEF SaveTrusted, SaveStateFailsLate, Accept
    <3> QED BY <1>1, <1>3, <3>1, <3>2, <3>3
        DEF SaveTrusted, SaveStateFailsLate, Accept, SaveStateSucceeds, Goto, TypeInv
  <2>2. Stored' \subseteq Stored /\ mem \in Stored
    BY <1>3, <2>1, StoredStep
    DEF SaveTrusted, SaveStateFailsLate, Accept, StoreVault, Goto, Stored
  <2>3. trusted' # NoState
    BY <1>1, <2>1 DEF NoState, Legacy
  <2>4. \A f \in Stored' : f.id = trusted'.id /\ f.rev >= trusted'.rev => f.n >= fresh'
    <3> SUFFICES ASSUME NEW f \in Stored', f.id = mem.id, f.rev >= mem.rev PROVE f.n >= fresh'
      BY <2>1
    <3>1. ~Legacy(f)
      BY <1>1, <2>1, <2>2 DEF Legacy
    <3>2. f.n >= mem.n
      BY <2>1, <2>2, <3>1 DEF Ordered
    <3> QED BY <1>1, <2>1, <2>2, <3>2
  <2> QED BY <2>1, <2>2, <2>3, <2>4 DEF Ordered
<1>4. CASE UNCHANGED <<trusted, fresh, top, reused>> /\ Stored' \subseteq Stored
  BY <1>4 DEF Ordered
<1>5. ~StoreVault => Stored' \subseteq Stored
  BY StoredStep
\* No vault is of a state that is gone or cannot be read
<1>6. CASE LoseState
  <2>1. /\ trusted' \in {NoState, Unreadable} /\ Stored' \subseteq Stored
        /\ UNCHANGED <<fresh, top, reused>>
    BY <1>5, <1>6 DEF LoseState, StoreVault, Goto
  <2>2. trusted' # NoState => trusted'.id = 0 /\ trusted'.rev = 1
    BY <2>1 DEF Unreadable
  <2>3. \A f \in Stored' : ~(trusted' # NoState /\ f.id = trusted'.id /\ f.rev >= trusted'.rev)
    BY <1>1, <2>1, <2>2
  <2> QED BY <2>1, <2>3 DEF Ordered
<1> QED BY <1>2, <1>3, <1>4, <1>5, <1>6, Changes

\* A vault that passes the check in block mode is not older than the last one
\* acknowledged or accepted, or it is one from before revisions with no state.
LEMMA CheckSuffices ==
  ASSUME TypeInv, Ordered, ~reused, mode = "block", ~Blocked(vault)
  PROVE  vault.n >= fresh \/ (trusted = NoState /\ Legacy(vault))
<1>1. ~Suspicious(vault, trusted) /\ vault \in Stored
  BY DEF Blocked, Stored
<1>2. vault.rev \in Nat /\ trusted.rev \in Nat
  <2>1. vault \in Files
    BY DEF TypeInv, TypeOK
  <2> QED BY <2>1, TrustedNumbers DEF Files, Revisions
<1>3. CASE trusted = NoState
  BY <1>1, <1>3 DEF Suspicious
<1>4. CASE trusted # NoState
  BY <1>1, <1>2, <1>4 DEF Suspicious, Ordered
<1> QED BY <1>3, <1>4

\* In block mode, as long as no revision was used twice, a password command that
\* passes enforceRollbackState works on the last acknowledged or accepted vault or a
\* later one, whatever old copies were put back, whatever crashed before and whatever
\* became of the trusted state, unless that is gone and the vault is from before
\* revisions.
THEOREM RollbackNoticed == Spec => []NoUnnoticedRollback
<1>1. Init => Ordered /\ NoUnnoticedRollback
  <2> SUFFICES ASSUME Init PROVE Ordered /\ NoUnnoticedRollback
    OBVIOUS
  <2>1. ToSet(dated) \subseteq {vault} /\ ToSet(pre) = {}
    BY DEF Init, ToSet
  <2>2. Stored \subseteq {vault}
    BY <2>1 DEF Stored, Copies
  <2>3. Legacy(vault) /\ vault.n = fresh /\ fresh \in Nat /\ trusted = NoState /\ pc = "idle"
    BY DEF Init, NewVault, Legacy
  <2> QED BY <2>2, <2>3 DEF Ordered, NoUnnoticedRollback
<1>2. TypeInv /\ TypeInv' /\ Ordered /\ [Next]_vars => Ordered'
  BY OrderedStep
<1>3. TypeInv /\ Ordered /\ NoUnnoticedRollback /\ [Next]_vars => NoUnnoticedRollback'
  <2> SUFFICES ASSUME TypeInv, Ordered, NoUnnoticedRollback, [Next]_vars,
                      pc' = "loaded", mode' = "block", ~reused', ~withKey'
               PROVE  mem'.n >= fresh' \/ (trusted' = NoState /\ Legacy(mem'))
    BY DEF NoUnnoticedRollback
  <2>1. CASE UNCHANGED vars
    BY <2>1 DEF vars, command, state, ghosts, NoUnnoticedRollback, Legacy
  <2>2. CASE Load
    <3>1. mem' = vault /\ ~Blocked(vault) /\ UNCHANGED <<mode, trusted, fresh, reused>>
      BY <2>2 DEF Load, state, ghosts
    <3> QED BY <3>1, CheckSuffices DEF Legacy
  <2>3. CASE Recover
    BY <2>3 DEF Recover
  <2>4. CASE Backup
    BY <2>4 DEF Backup, CopyVault, command, NoUnnoticedRollback, Legacy
  <2> QED BY <2>1, <2>2, <2>3, <2>4, Arrivals
<1> QED BY Typed, <1>1, <1>2, <1>3, PTL DEF Spec

-----------------------------------------------------------------------------
(* The recovery snapshot                                                    *)

\* A save that renews the snapshot writes it first, and one that does not leaves its
\* own metadata behind.
THEOREM FreshnessHolds == Spec => []FreshnessIsHonest
<1>1. Init => SnapshotCurrent
  <2> SUFFICES ASSUME Init PROVE SnapshotCurrent
    OBVIOUS
  <2>1. ToSet(dated) \subseteq {vault} /\ ToSet(pre) = {}
    BY DEF Init, ToSet
  <2>2. \A f \in Stored : Legacy(f)
    BY <2>1 DEF Stored, Copies, Init, NewVault, Legacy
  <2> QED BY <2>2 DEF Init, SnapshotCurrent
<1>2. TypeInv /\ TypeInv' /\ SnapshotCurrent /\ [Next]_vars => SnapshotCurrent'
  <2> SUFFICES ASSUME TypeInv, TypeInv', SnapshotCurrent, [Next]_vars PROVE SnapshotCurrent'
    OBVIOUS
  <2>1. \A f \in Stored : f.n \in Nat /\ f.n <= saves
    BY DEF TypeInv, PastFiles, Files
  <2>2. CASE StoreVault
    <3>1. pc = "store" /\ pc' = "trust" /\ UNCHANGED snapshot
      BY <2>2 DEF StoreVault, Goto
    <3>2. Stored' \subseteq Stored \cup {mem}
      BY StoredStep
    <3>3. mem.n \in Nat /\ mem.snap \in Nat /\ mem.rev \in Nat
      BY DEF TypeInv, TypeOK, Files, Revisions
    <3>4. snapshot = mem \/ ~(mem.snap >= mem.rev)
      BY <3>1, <3>3 DEF SnapshotCurrent
    <3> QED BY <3>1, <3>2, <3>3, <3>4 DEF SnapshotCurrent, Legacy
  <2>3. CASE SaveSnapshot
    <3>1. snapshot' = mem /\ mem' = mem /\ mem.n = saves
      BY <2>3 DEF SaveSnapshot, Goto, command, TypeInv
    <3>2. Stored' \subseteq Stored
      BY <2>3, StoredStep DEF SaveSnapshot, StoreVault, Goto
    <3> QED BY <2>1, <3>1, <3>2 DEF SnapshotCurrent, Legacy, TypeInv, TypeOK
  <2>4. CASE ~StoreVault /\ ~SaveSnapshot
    <3>1. UNCHANGED snapshot /\ Stored' \subseteq Stored
      BY <2>4, Changes, StoredStep
    <3>2. pc' = "store" => snapshot' = mem' \/ mem'.snap < mem'.rev
      <4>1. CASE UNCHANGED vars
        BY <4>1 DEF vars, store, command, SnapshotCurrent
      <4>2. CASE Prepare
        BY <4>2, PrepareFacts
      <4> QED BY <2>4, <4>1, <4>2, Arrivals
    <3> QED BY <3>1, <3>2 DEF SnapshotCurrent, Legacy
  <2> QED BY <2>2, <2>3, <2>4
<1>3. SnapshotCurrent => FreshnessIsHonest
  BY DEF SnapshotCurrent, FreshnessIsHonest, Stored
<1> QED BY Typed, <1>1, <1>2, <1>3, PTL DEF Spec

\* The recovery key of vault.db opens the snapshot, unless a save with a key was cut
\* short between the two files or an old vault.db came back, so test-recovery, which
\* looks at vault.db alone, is right to call the key valid.
THEOREM KeysHold == Spec => []TestRecoveryIsHonest
<1>1. Init => KeysAgree
  BY DEF Init, KeysAgree, NewVault
<1>2. TypeInv /\ KeysAgree /\ [Next]_vars => KeysAgree'
  <2> SUFFICES ASSUME TypeInv, KeysAgree, [Next]_vars PROVE KeysAgree'
    OBVIOUS
  <2> USE DEF Goto, KeysAgree
  <2>1. CASE Load \/ Recover \/ EndWithoutSave \/ RollbackAccept \/ Restore \/ RestoreInterrupted
             \/ SetMode \/ PutBack \/ LoseState
    BY <2>1 DEF Load, Recover, EndWithoutSave, RollbackAccept, Restore, RestoreInterrupted,
                SetMode, PutBack, LoseState, Return, store, command, ghosts
  <2>2. CASE Backup \/ BackupInterrupted
    BY <2>2 DEF Backup, BackupInterrupted, CopyVault, Return, store, command, ghosts
  <2>3. CASE Prepare
    BY <2>3, PrepareFacts DEF Prepare, store, ghosts
  <2>4. CASE SaveSnapshot
    BY <2>4 DEF SaveSnapshot, command
  <2>5. CASE StoreVault
    <3>1. /\ pc = "store" /\ pc' = "trust" /\ vault' = mem /\ snapshot' = snapshot
          /\ parted' = (parted /\ ~withKey)
      BY <2>5 DEF StoreVault
    <3>2. CASE withKey
      BY <3>1, <3>2
    <3>3. CASE ~withKey
      BY <3>1, <3>3
    <3> QED BY <3>2, <3>3
  <2>6. CASE SaveTrusted \/ SaveStateFailsLate \/ SaveFails \/ Accept \/ Crash
    BY <2>6 DEF SaveTrusted, SaveStateFailsLate, SaveFails, Accept, Crash, Return, store
  <2>7. CASE StageRestored
    BY <2>7 DEF StageRestored, store, ghosts
  <2>8. CASE SwapRestored
    <3>1. /\ pc' = "accept" /\ vault' = mem /\ snapshot' = snapshot
          /\ parted' = (parted \/ mem.key # vault.key)
      BY <2>8 DEF SwapRestored
    <3>2. CASE mem.key # vault.key
      BY <3>1, <3>2
    <3>3. CASE mem.key = vault.key
      BY <3>1, <3>3
    <3> QED BY <3>2, <3>3
  <2>9. CASE UNCHANGED vars
    BY <2>9 DEF vars, store, command, ghosts
  <2> QED BY <2>1, <2>2, <2>3, <2>4, <2>5, <2>6, <2>7, <2>8, <2>9 DEF Next, SaveVault
<1>3. KeysAgree => TestRecoveryIsHonest
  BY DEF KeysAgree, TestRecoveryIsHonest
<1> QED BY Typed, <1>1, <1>2, <1>3, PTL DEF Spec

-----------------------------------------------------------------------------
(* The timestamped backups                                                  *)

\* A backup made with fewer than MaxBackups pre-restore copies beside it survives its
\* own prune, and nothing but the prune of a later backup removes it.
THEOREM BackupsStay == Spec => []BackupKept
<1>1. Init => BackupKept
  BY DEF Init, BackupKept
<1>2. TypeInv /\ BackupKept /\ [Next]_vars => BackupKept'
  <2> SUFFICES ASSUME TypeInv, BackupKept, [Next]_vars PROVE BackupKept'
    OBVIOUS
  <2> USE DEF BackupKept
  <2>t. dated \in Seq(Files) /\ vault \in Files /\ pre \in Seq(Files) /\ Torn \in Files
    <3>1. NewVault \in Files
      BY SavesAssumption DEF NewVault, Files, VaultIDs, Revisions, Together
    <3> QED BY <3>1 DEF TypeInv, TypeOK, Torn
  <2>1. ASSUME NEW limit \in Nat, limit >= MaxBackups, CopyVault(limit) PROVE BackupKept'
    <3>1. /\ Prune(Append(dated, vault), pre, limit)
          /\ kept' = IF Len(pre) < MaxBackups THEN vault ELSE NewVault
      BY <2>1 DEF CopyVault
    <3>2. SUFFICES ASSUME Len(pre) < MaxBackups PROVE vault \in ToSet(dated')
      BY <3>1
    <3>3. Len(pre) < limit
      BY <2>1, <2>t, <3>2, BackupsAssumption, LenProperties
    <3>4. /\ Append(dated, vault) \in Seq(Files) /\ Append(dated, vault) # <<>>
          /\ Append(dated, vault)[Len(Append(dated, vault))] = vault
      BY <2>t, OneMore, AppendProperties
    <3> QED BY <2>t, <3>1, <3>3, <3>4, PruneKeeps
  <2>2. CASE Backup
    BY <2>1, <2>2, BackupsAssumption DEF Backup
  <2>3. CASE BackupInterrupted
    <3>1. CASE \E limit \in MaxBackups..MaxCopies : CopyVault(limit) /\ Return
      BY <2>1, <3>1, BackupsAssumption
    <3>2. CASE dated' = Append(dated, Torn) /\ UNCHANGED kept
      <4>1. ToSet(dated') = ToSet(dated) \cup {Torn}
        BY <2>t, <3>2, OneMore
      <4> QED BY <3>2, <4>1
    <3> QED BY <2>3, <3>1, <3>2 DEF BackupInterrupted, ghosts
  <2>4. CASE UNCHANGED <<dated, kept>>
    BY <2>4
  <2>5. CASE Load \/ Recover \/ EndWithoutSave \/ SaveVault \/ RollbackAccept \/ Restore
    BY <2>4, <2>5 DEF Load, Recover, EndWithoutSave, SaveVault, Prepare, SaveSnapshot, StoreVault,
                      SaveTrusted, SaveStateFailsLate, SaveFails, RollbackAccept, Restore, store,
                      copies, ghosts
  <2>6. CASE RestoreInterrupted \/ StageRestored \/ SwapRestored \/ Accept \/ SetMode \/ Crash
             \/ PutBack \/ LoseState
    BY <2>4, <2>6 DEF RestoreInterrupted, StageRestored, SwapRestored, Accept, SetMode, Crash,
                      PutBack, LoseState, store, copies, ghosts
  <2>7. CASE UNCHANGED vars
    BY <2>4, <2>7 DEF vars, store, copies, ghosts
  <2> QED BY <2>2, <2>3, <2>5, <2>6, <2>7 DEF Next
<1> QED BY Typed, <1>1, <1>2, PTL DEF Spec
=============================================================================
