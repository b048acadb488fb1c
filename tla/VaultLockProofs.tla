--------------------------- MODULE VaultLockProofs ---------------------------
(***************************************************************************)
(* Mutual exclusion and the absence of lost updates in VaultLock, for any  *)
(* set of processes, any timeout and any number of updates.                *)
(***************************************************************************)
EXTENDS VaultLock, TLAPS

\* Every process that may move a lock file into the home is run from the one
\* legacy directory, or there is no lock file to move.
SameLockFile == InLegacyDir = Processes \/ "lock" \notin LegacyHas

\* There is no legacy vault or .bak to move in, or they are the only ones at the
\* start and every process moves them in before anything else.
SameVaultFile ==
  \/ VaultNames \cap LegacyHas = {}
  \/ VaultNames \cap HomeHas = {} /\ InLegacyDir = Processes

\* The lock file is in place, and nobody replaces it, once a process has it open;
\* a command runs only with its lock.
LockInv ==
  /\ InLegacyDir = Processes \/ legacy["lock"] = 0
  /\ \A p \in Processes :
       /\ pc[p] = "moveLock" => legacy["lock"] = 0 \/ home["lock"] = 0
       /\ pc[p] = "open" => legacy["lock"] = 0 \/ home["lock"] # 0
       /\ pc[p] \in Waiting \cup Body => home["lock"] # 0 /\ fd[p] = home["lock"]
       /\ pc[p] \in Body => holder[fd[p]] = p

\* Nobody is past the migration of a file while it waits to be moved; the command
\* that runs has in memory what is stored.
VaultInv ==
  /\ legacy["vault"] # 0 =>
       /\ InLegacyDir = Processes
       /\ home["vault"] = 0 /\ home["bak"] = 0
       /\ \A p \in Processes : pc[p] \in {"idle", "migrateVault", "moveVault"}
  /\ legacy["bak"] # 0 =>
       /\ InLegacyDir = Processes
       /\ home["bak"] = 0
       /\ \A p \in Processes :
            pc[p] \in {"idle", "migrateVault", "moveVault", "migrateBak", "moveBak"}
  /\ \A p \in Processes :
       /\ pc[p] = "loaded" =>
            mem[p] = home["vault"] /\ (home["vault"] = 0 => home["bak"] = 0)
       /\ pc[p] = "publish" => home["vault"] = 0 /\ mem[p] = home["bak"]
       /\ pc[p] = "finish" => mem[p] = home["vault"] /\ mem[p] # 0

-----------------------------------------------------------------------------
\* A process that ends leaves every variable it writes within its type.
LEMMA LeaveType ==
  ASSUME TypeOK, NEW p \in Processes, Leave(p), UNCHANGED <<files, acked>>
  PROVE  TypeOK'
BY ProcessAssumption, TimeAssumption
DEF TypeOK, Leave, Goto, files, Inodes, Waiting, Body, Migrated

\* The type invariant of the lock and of the files it protects: in particular a
\* process waits or runs only with the lock file open.
THEOREM TypeCorrect == Spec => []TypeOK
<1>1. Init => TypeOK
  BY TimeAssumption, NamesAssumption
  DEF Init, TypeOK, Found, Stored, StoredIn, Names, Inodes, Waiting, Body, Migrated
<1>2. TypeOK /\ [Next]_vars => TypeOK'
  <2> SUFFICES ASSUME TypeOK, [Next]_vars PROVE TypeOK'
    OBVIOUS
  <2> USE ProcessAssumption, TimeAssumption
  <2>1. CASE Tick
    BY <2>1 DEF Tick, TypeOK, files, Waiting, Body
  <2>2. CASE UNCHANGED vars
    BY <2>2 DEF vars, TypeOK, files, time, Waiting, Body
  <2>3. ASSUME NEW p \in Processes, Step(p)
        PROVE  TypeOK'
    <3> USE DEF TypeOK, files, time, At, Goto, Put, Names, Inodes, Waiting, Body, Migrated
    <3>1. CASE Begin(p)
      BY <3>1 DEF Begin
    <3>2. CASE MigrateFiles(p)
      <4>1. ASSUME NEW n \in Names, NEW to \in {"migrateBak", "migrateLock", "open"},
                   NEW here \in {"moveVault", "moveBak", "moveLock"}, Move(p, n, here, to)
            PROVE  TypeOK'
        BY <4>1 DEF Move
      <4>2. ASSUME NEW n \in Names, NEW here \in {"moveVault", "moveBak", "moveLock"},
                   MoveFails(p, n, here)
            PROVE  TypeOK'
        <5>1. Leave(p) /\ UNCHANGED <<files, acked>>
          BY <4>2 DEF MoveFails
        <5> QED BY <5>1, LeaveType
      <4>3. ASSUME NEW n \in Names, NEW here \in {"migrateVault", "migrateBak", "migrateLock"},
                   NEW move \in {"moveVault", "moveBak", "moveLock"},
                   NEW to \in {"migrateBak", "migrateLock", "open"}, Migrate(p, n, here, move, to)
            PROVE  TypeOK'
        BY <4>3 DEF Migrate
      <4> QED BY <3>2, <4>1, <4>2, <4>3 DEF MigrateFiles
    <3>3. CASE OpenLock(p)
      BY <3>3 DEF OpenLock
    <3>4. CASE Acquire(p)
      BY <3>4 DEF Acquire
    <3>5. CASE GiveUp(p)
      BY <3>5, LeaveType DEF GiveUp
    <3>6. CASE Sleep(p)
      BY <3>6 DEF Sleep
    <3>7. CASE Wake(p)
      BY <3>7 DEF Wake
    <3>8. CASE Load(p)
      BY <3>8 DEF Load, Stored, StoredIn
    <3>9. CASE Park(p)
      BY <3>9 DEF Park
    <3>10. CASE Publish(p)
      BY <3>10 DEF Publish
    <3>11. CASE Finish(p)
      <4>1. acked' \in Nat
        BY <3>11 DEF Finish
      <4> QED BY <3>11, <4>1 DEF Finish, Leave
    <3>12. CASE Crash(p)
      BY <3>12, LeaveType DEF Crash
    <3> QED
      BY <2>3, <3>1, <3>2, <3>3, <3>4, <3>5, <3>6, <3>7, <3>8, <3>9, <3>10, <3>11, <3>12
      DEF Step, TakeLock, Run
  <2> QED
    BY <2>1, <2>2, <2>3 DEF Next
<1> QED
  BY <1>1, <1>2, PTL DEF Spec

-----------------------------------------------------------------------------
\* A process that ends takes its own lock with it and no other.
LEMMA LeaveLock ==
  ASSUME TypeOK, LockInv, NEW p \in Processes, Leave(p), UNCHANGED <<files, acked>>
  PROVE  LockInv'
BY ProcessAssumption
DEF TypeOK, LockInv, Leave, Goto, files, Inodes, Waiting, Body, Migrated

\* The lock file stays the same from the first time it is opened.
LEMMA LockStep ==
  ASSUME TypeOK, LockInv, [Next]_vars
  PROVE  LockInv'
<1> USE ProcessAssumption
<1>1. CASE Tick
  BY <1>1 DEF Tick, TypeOK, LockInv, files, Waiting, Body
<1>2. CASE UNCHANGED vars
  BY <1>2 DEF vars, TypeOK, LockInv, files, time, Waiting, Body
<1>3. ASSUME NEW p \in Processes, Step(p)
      PROVE  LockInv'
  <2> USE DEF TypeOK, LockInv, files, time, At, Goto, Put, Names, Inodes, Waiting, Body, Migrated
  <2>1. CASE Begin(p)
    BY <2>1 DEF Begin
  <2>2. CASE MigrateFiles(p)
    <3>1. CASE \/ Migrate(p, "vault", "migrateVault", "moveVault", "migrateBak")
               \/ Migrate(p, "bak", "migrateBak", "moveBak", "migrateLock")
      BY <3>1 DEF Migrate
    <3>2. CASE \/ Move(p, "vault", "moveVault", "migrateBak")
               \/ Move(p, "bak", "moveBak", "migrateLock")
      BY <3>2 DEF Move
    <3>3. CASE \/ MoveFails(p, "vault", "moveVault") \/ MoveFails(p, "bak", "moveBak")
               \/ MoveFails(p, "lock", "moveLock")
      BY <3>3, LeaveLock DEF MoveFails
    <3>4. CASE Migrate(p, "lock", "migrateLock", "moveLock", "open")
      BY <3>4 DEF Migrate, NeedsMoving
    <3>5. CASE Move(p, "lock", "moveLock", "open")
      <4>1. /\ home["lock"] = 0 /\ legacy["lock"] # 0
            /\ home'["lock"] = legacy["lock"] /\ legacy'["lock"] = 0
        BY <3>5 DEF Move
      <4>2. \A q \in Processes : pc[q] \notin Waiting \cup Body
        BY <4>1
      <4>3. pc' = [pc EXCEPT ![p] = "open"]
        BY <3>5 DEF Move
      <4> QED BY <4>1, <4>2, <4>3
    <3> QED BY <2>2, <3>1, <3>2, <3>3, <3>4, <3>5 DEF MigrateFiles
  <2>3. CASE OpenLock(p)
    <3>1. /\ home'["lock"] # 0 /\ (home["lock"] # 0 => home'["lock"] = home["lock"])
          /\ home["lock"] # 0 \/ legacy["lock"] = 0
      BY <2>3 DEF OpenLock
    <3>2. /\ pc' = [pc EXCEPT ![p] = "try"] /\ fd' = [fd EXCEPT ![p] = home'["lock"]]
          /\ UNCHANGED <<legacy, holder>>
      BY <2>3 DEF OpenLock
    <3> QED BY <3>1, <3>2
  <2>4. CASE Acquire(p)
    <3>1. /\ fd[p] \in Inodes /\ holder[fd[p]] = NoProcess
          /\ holder' = [holder EXCEPT ![fd[p]] = p]
          /\ pc' = [pc EXCEPT ![p] = "load"] /\ UNCHANGED <<home, legacy, fd>>
      BY <2>4 DEF Acquire, IsFree
    <3>2. \A q \in Processes : pc[q] \notin Body
      BY <2>4, <3>1 DEF Acquire
    <3>3. \A q \in Processes : pc'[q] \in Body => q = p /\ holder'[fd'[q]] = p
      BY <3>1, <3>2
    <3>4. home["lock"] # 0 /\ fd[p] = home["lock"]
      BY <2>4 DEF Acquire
    <3>5. \A q \in Processes : q # p => pc'[q] = pc[q]
      BY <3>1
    <3>6. pc'[p] = "load"
      BY <3>1
    <3> QED BY <3>1, <3>3, <3>4, <3>5, <3>6
  <2>5. CASE GiveUp(p)
    BY <2>5, LeaveLock DEF GiveUp
  <2>6. CASE Sleep(p)
    BY <2>6 DEF Sleep
  <2>7. CASE Wake(p)
    BY <2>7 DEF Wake
  <2>8. CASE Load(p)
    BY <2>8 DEF Load
  <2>9. CASE Park(p)
    BY <2>9 DEF Park
  <2>10. CASE Publish(p)
    BY <2>10 DEF Publish
  <2>11. CASE Finish(p)
    BY <2>11 DEF Finish, Leave
  <2>12. CASE Crash(p)
    BY <2>12, LeaveLock DEF Crash
  <2> QED
    BY <1>3, <2>1, <2>2, <2>3, <2>4, <2>5, <2>6, <2>7, <2>8, <2>9, <2>10, <2>11, <2>12
    DEF Step, TakeLock, Run
<1> QED
  BY <1>1, <1>2, <1>3 DEF Next

\* LockInv is enough for mutual exclusion: all who run have the same lock.
LEMMA OneHolder ==
  ASSUME LockInv
  PROVE  Exclusive
BY DEF LockInv, Exclusive

\* Two commands are never between lock and unlock at once, however many processes
\* there are, unless a lock file may come from a directory only some are run from.
THEOREM MutualExclusion ==
  ASSUME SameLockFile
  PROVE  Spec => []Exclusive
<1>1. Init => LockInv
  BY DEF Init, LockInv, SameLockFile, Names, Waiting, Body
<1>2. TypeOK /\ LockInv /\ [Next]_vars => LockInv'
  BY LockStep
<1> QED
  BY <1>1, <1>2, TypeCorrect, OneHolder, PTL DEF Spec

-----------------------------------------------------------------------------
\* A step keeps what the running command knows of the vault, and every update
\* reported, given that no other command runs.
LEMMA VaultStep ==
  ASSUME TypeOK, Exclusive, VaultInv, NoLostUpdate, [Next]_vars
  PROVE  VaultInv' /\ NoLostUpdate'
<1> USE DEF VaultInv, NoLostUpdate, Found, Stored, StoredIn
<1>1. CASE Tick
  BY <1>1 DEF Tick, files
<1>2. CASE UNCHANGED vars
  BY <1>2 DEF vars, files
<1>3. ASSUME NEW p \in Processes, Leave(p), UNCHANGED files, acked' \in {acked, home["vault"]},
             acked' = acked \/ home["vault"] # 0
      PROVE  VaultInv' /\ NoLostUpdate'
  BY <1>3 DEF Leave, Goto, files, TypeOK, Names, Waiting, Body, Migrated
<1>4. ASSUME NEW p \in Processes, Step(p)
      PROVE  VaultInv' /\ NoLostUpdate'
  <2> USE DEF TypeOK, Exclusive, files, At, Goto, Put, Names, Waiting, Body, Migrated
  <2>1. CASE Begin(p)
    BY <2>1 DEF Begin
  <2>2. CASE MigrateFiles(p)
    <3>1. CASE Migrate(p, "vault", "migrateVault", "moveVault", "migrateBak")
      <4>1. legacy["vault"] # 0 => NeedsMoving(p, "vault")
        BY DEF NeedsMoving
      <4> QED BY <3>1, <4>1 DEF Migrate
    <3>2. CASE Move(p, "vault", "moveVault", "migrateBak")
      <4>1. /\ home["vault"] = 0 /\ home["bak"] = 0 /\ legacy["vault"] >= acked
            /\ \A q \in Processes : pc[q] \in {"idle", "migrateVault", "moveVault"}
        BY <3>2 DEF Move
      <4>2. /\ home' = [home EXCEPT !["vault"] = legacy["vault"]]
            /\ legacy' = [legacy EXCEPT !["vault"] = 0] /\ legacy["vault"] # 0
            /\ pc' = [pc EXCEPT ![p] = "migrateBak"] /\ UNCHANGED <<mem, acked>>
        BY <3>2 DEF Move
      <4> QED BY <4>1, <4>2
    <3>3. CASE \/ MoveFails(p, "vault", "moveVault") \/ MoveFails(p, "bak", "moveBak")
               \/ MoveFails(p, "lock", "moveLock")
      BY <3>3, <1>3 DEF MoveFails
    <3>6. CASE Migrate(p, "bak", "migrateBak", "moveBak", "migrateLock")
      <4>1. legacy["bak"] # 0 => NeedsMoving(p, "bak")
        BY DEF NeedsMoving
      <4> QED BY <3>6, <4>1 DEF Migrate
    <3>7. CASE Move(p, "bak", "moveBak", "migrateLock")
      <4>1. /\ home["bak"] = 0 /\ legacy["vault"] = 0
            /\ home["vault"] = 0 => legacy["bak"] >= acked
            /\ \A q \in Processes :
                 pc[q] \in {"idle", "migrateVault", "moveVault", "migrateBak", "moveBak"}
        BY <3>7 DEF Move
      <4>2. /\ home' = [home EXCEPT !["bak"] = legacy["bak"]]
            /\ legacy' = [legacy EXCEPT !["bak"] = 0] /\ legacy["bak"] # 0
            /\ pc' = [pc EXCEPT ![p] = "migrateLock"] /\ UNCHANGED <<mem, acked>>
        BY <3>7 DEF Move
      <4> QED BY <4>1, <4>2
    <3>4. CASE Migrate(p, "lock", "migrateLock", "moveLock", "open")
      BY <3>4 DEF Migrate
    <3>5. CASE Move(p, "lock", "moveLock", "open")
      BY <3>5 DEF Move
    <3> QED BY <2>2, <3>1, <3>2, <3>3, <3>4, <3>5, <3>6, <3>7 DEF MigrateFiles
  <2>3. CASE OpenLock(p)
    BY <2>3 DEF OpenLock
  <2>4. CASE Acquire(p)
    BY <2>4 DEF Acquire
  <2>5. CASE GiveUp(p)
    BY <2>5, <1>3 DEF GiveUp
  <2>6. CASE Sleep(p)
    BY <2>6 DEF Sleep
  <2>7. CASE Wake(p)
    BY <2>7 DEF Wake
  <2>8. CASE Load(p)
    BY <2>8 DEF Load
  <2>9. CASE Park(p)
    BY <2>9 DEF Park
  <2>10. CASE Publish(p)
    <3>1. /\ home["vault"] = 0 /\ mem[p] = home["bak"] /\ mem[p] >= acked
          /\ legacy["vault"] = 0 /\ legacy["bak"] = 0
          /\ \A q \in Processes : q # p => pc[q] \notin Body
      BY <2>10 DEF Publish
    <3>2. /\ mem' = [mem EXCEPT ![p] = mem[p] + 1]
          /\ home' = [home EXCEPT !["vault"] = mem[p] + 1]
          /\ pc' = [pc EXCEPT ![p] = "finish"] /\ UNCHANGED <<legacy, acked>>
      BY <2>10 DEF Publish
    <3> QED BY <3>1, <3>2
  <2>11. CASE Finish(p)
    BY <2>11, <1>3 DEF Finish
  <2>12. CASE Crash(p)
    BY <2>12, <1>3 DEF Crash
  <2> QED
    BY <1>4, <2>1, <2>2, <2>3, <2>4, <2>5, <2>6, <2>7, <2>8, <2>9, <2>10, <2>11, <2>12
    DEF Step, TakeLock, Run
<1> QED
  BY <1>1, <1>2, <1>4 DEF Next

\* An update reported as saved is in the vault the next command loads, however many
\* processes load, change and save it and wherever they die, unless an old vault.db
\* may be moved in beside the one in use.
THEOREM UpdatesKept ==
  ASSUME SameLockFile, SameVaultFile
  PROVE  Spec => []NoLostUpdate
<1>1. Init => VaultInv /\ NoLostUpdate
  <2> SUFFICES ASSUME Init PROVE VaultInv /\ NoLostUpdate
    OBVIOUS
  <2>1. TypeOK
    BY TimeAssumption, NamesAssumption
    DEF Init, TypeOK, Found, Stored, StoredIn, Names, Inodes, Waiting, Body, Migrated
  <2>2. NoLostUpdate
    BY <2>1 DEF Init, NoLostUpdate, TypeOK
  <2>3. VaultInv
    BY DEF Init, VaultInv, SameVaultFile, VaultNames, Names
  <2> QED BY <2>2, <2>3
<1>2. TypeOK /\ Exclusive /\ (VaultInv /\ NoLostUpdate) /\ [Next]_vars
        => (VaultInv /\ NoLostUpdate)'
  BY VaultStep
<1>3. Spec => []Exclusive
  BY MutualExclusion
<1> QED
  BY <1>1, <1>2, <1>3, TypeCorrect, PTL DEF Spec


-----------------------------------------------------------------------------
\* Only commands between lock and unlock hold a lock, that of the file they opened:
\* a process that fails, times out or dies leaves none behind.
HolderInv ==
  \A i \in Inodes : holder[i] # NoProcess => pc[holder[i]] \in Body /\ fd[holder[i]] = i

\* No step leaves a lock with a process that does not run under it.
LEMMA HolderStep ==
  ASSUME TypeOK, HolderInv, [Next]_vars
  PROVE  HolderInv'
<1> USE ProcessAssumption
<1>1. CASE Tick
  BY <1>1 DEF Tick, HolderInv
<1>2. CASE UNCHANGED vars
  BY <1>2 DEF vars, HolderInv
<1>3. ASSUME NEW p \in Processes, Leave(p)
      PROVE  HolderInv'
  BY <1>3 DEF Leave, Goto, HolderInv, TypeOK
<1>4. ASSUME NEW p \in Processes, Step(p)
      PROVE  HolderInv'
  <2> USE DEF At, Goto, Body, Inodes
  <2>1. CASE Begin(p)
    BY <2>1 DEF Begin, HolderInv, TypeOK
  <2>2. CASE MigrateFiles(p)
    BY <2>2, <1>3 DEF MigrateFiles, Migrate, Move, MoveFails, HolderInv, TypeOK
  <2>3. CASE OpenLock(p)
    BY <2>3 DEF OpenLock, HolderInv, TypeOK
  <2>4. CASE Acquire(p)
    BY <2>4 DEF Acquire, HolderInv, TypeOK
  <2>5. CASE GiveUp(p) \/ Finish(p) \/ Crash(p)
    BY <2>5, <1>3 DEF GiveUp, Finish, Crash
  <2>6. CASE Sleep(p) \/ Wake(p)
    BY <2>6 DEF Sleep, Wake, HolderInv, TypeOK
  <2>7. CASE Load(p) \/ Park(p) \/ Publish(p)
    BY <2>7 DEF Load, Park, Publish, HolderInv, TypeOK
  <2> QED
    BY <1>4, <2>1, <2>2, <2>3, <2>4, <2>5, <2>6, <2>7 DEF Step, TakeLock, Run
<1> QED
  BY <1>1, <1>2, <1>4 DEF Next

\* "timed out waiting for vault lock" is only ever reported to a command that has
\* waited until no attempt fits in the timeout, and while another command runs: the
\* lock of one that died never keeps the next one out.  Nothing is assumed of where
\* the lock file comes from.
THEOREM TimeoutsAreHonest == Spec => GivesUpOnlyWhenBusy
<1>1. Init => HolderInv
  BY DEF Init, HolderInv
<1>2. TypeOK /\ HolderInv /\ [Next]_vars => HolderInv'
  BY HolderStep
<1>3. ASSUME TypeOK, HolderInv, NEW p \in Processes, At(p, "try"), GiveUp(p)
      PROVE  /\ waited[p] > Timeout - RetryDelay
             /\ \E q \in Processes \ {p} : pc[q] \in Body
  <2>1. waited[p] \in Nat /\ waited[p] + RetryDelay > Timeout
    BY <1>3 DEF TypeOK, GiveUp, TooLate
  <2>2. waited[p] > Timeout - RetryDelay
    BY <2>1, TimeAssumption
  <2>3. fd[p] \in Inodes /\ holder[fd[p]] \in Processes
    BY <1>3 DEF TypeOK, At, GiveUp, IsFree, Waiting
  <2>4. pc[holder[fd[p]]] \in Body
    BY <1>3, <2>3, ProcessAssumption DEF HolderInv
  <2>5. holder[fd[p]] # p
    BY <1>3, <2>4 DEF At, Body
  <2> QED BY <2>2, <2>3, <2>4, <2>5
<1>4. TypeOK /\ HolderInv =>
        [\A p \in Processes :
           At(p, "try") /\ GiveUp(p) =>
             /\ waited[p] > Timeout - RetryDelay
             /\ \E q \in Processes \ {p} : pc[q] \in Body]_vars
  BY <1>3
<1> QED
  BY <1>1, <1>2, <1>4, TypeCorrect, PTL DEF Spec, GivesUpOnlyWhenBusy
=============================================================================
