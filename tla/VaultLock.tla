------------------------------ MODULE VaultLock ------------------------------
(***************************************************************************)
(* Concurrent vault processes: the advisory lock (internal/lock) every     *)
(* command takes around its load and save, and the migration of runtime    *)
(* files from the current directory (cmd/vault/config_cli.go) that every   *)
(* process runs before it takes the lock.                                  *)
(*                                                                         *)
(* Files are inodes under names; the lock belongs to the inode a process   *)
(* has opened, and the kernel drops it when the process dies.  The content *)
(* of vault.db and of vault.db.bak is the number of updates it holds; a    *)
(* save is its two renames (VaultStorage has the rest).  A command may     *)
(* stay in its body for as long as it likes: some ask the user there,      *)
(* `copy` sleeps there.                                                    *)
(***************************************************************************)
EXTENDS Integers

CONSTANTS
  Processes,
  NoProcess,
  Timeout,     \* vaultLockTimeout, in units of time
  RetryDelay,  \* the sleep between two attempts
  HomeHas,     \* the names that may exist in the runtime home at the start
  LegacyHas,   \* and in a directory from before runtime homes
  InLegacyDir, \* the processes that are run from that directory
  MaxUpdates   \* bound: updates ever made to vault.db

\* vault.db, vault.db.bak and .myminivault.lock
Names      == {"vault", "bak", "lock"}
VaultNames == {"vault", "bak"}

ASSUME ProcessAssumption == NoProcess \notin Processes
ASSUME TimeAssumption ==
  Timeout \in Nat /\ RetryDelay \in Nat \ {0} /\ MaxUpdates \in Nat
ASSUME NamesAssumption ==
  HomeHas \subseteq Names /\ LegacyHas \subseteq Names /\ InLegacyDir \subseteq Processes

VARIABLES
  home,     \* per name, the file in the runtime home, 0 if there is none
  legacy,   \* per name, the file in the legacy directory
  holder,   \* per lock inode, the process with the flock
  pc,       \* the next step of each process
  fd,       \* the lock inode it has open, 0 if none
  mem,      \* the vault it has loaded
  nap,      \* the rest of its sleep
  waited,   \* time since it first tried the lock, up to Timeout + 1
  acked     \* updates in the vault last reported as saved

files == <<home, legacy>>
time  == <<nap, waited>>
vars  == <<files, holder, pc, fd, mem, time, acked>>

\* The lock file of the legacy directory is inode 2, one made in the home inode 1
Inodes   == {1, 2}
Migrated == {"migrateVault", "moveVault", "migrateBak", "moveBak", "migrateLock", "moveLock"}
Waiting  == {"try", "sleep"}
Body     == {"load", "loaded", "publish", "finish"}

\* What a load finds: vault.db, or vault.db.bak when a save was cut short
StoredIn(f) == IF f["vault"] = 0 THEN f["bak"] ELSE f["vault"]

Stored == StoredIn(home)

\* What the next command finds: a first one moves the legacy files in
Found == IF Stored = 0 THEN StoredIn(legacy) ELSE Stored

At(p, from)     == pc[p] = from
Goto(p, to)     == pc' = [pc EXCEPT ![p] = to]
Put(f, n, file) == [f EXCEPT ![n] = file]

\* The process ends: its descriptor goes, and with it the lock it may hold
Leave(p) ==
  /\ Goto(p, "idle")
  /\ holder' = [i \in Inodes |-> IF holder[i] = p THEN NoProcess ELSE holder[i]]
  /\ fd' = [fd EXCEPT ![p] = 0]
  /\ mem' = [mem EXCEPT ![p] = 0]
  /\ nap' = [nap EXCEPT ![p] = 0]
  /\ waited' = [waited EXCEPT ![p] = 0]

-----------------------------------------------------------------------------
(* migrateLegacyRuntimeFiles: for vault.db, for vault.db.bak and then for   *)
(* the lock file, look at the target and, if there is none, rename the      *)
(* legacy file onto it                                                      *)

Begin(p) ==
  /\ At(p, "idle")
  /\ Goto(p, "migrateVault")
  /\ UNCHANGED <<files, holder, fd, mem, time, acked>>

NeedsMoving(p, n) == p \in InLegacyDir /\ legacy[n] # 0 /\ home[n] = 0

Migrate(p, n, here, move, next) ==
  /\ At(p, here)
  /\ Goto(p, IF NeedsMoving(p, n) THEN move ELSE next)
  /\ UNCHANGED <<files, holder, fd, mem, time, acked>>

\* moveRuntimeFile
Move(p, n, here, next) ==
  /\ At(p, here)
  /\ legacy[n] # 0
  /\ home' = Put(home, n, legacy[n])
  /\ legacy' = Put(legacy, n, 0)
  /\ Goto(p, next)
  /\ UNCHANGED <<holder, fd, mem, time, acked>>

\* The command fails if another process has moved the file by now
MoveFails(p, n, here) ==
  /\ At(p, here)
  /\ legacy[n] = 0
  /\ Leave(p)
  /\ UNCHANGED <<files, acked>>

MigrateFiles(p) ==
  \/ Migrate(p, "vault", "migrateVault", "moveVault", "migrateBak")
  \/ Move(p, "vault", "moveVault", "migrateBak") \/ MoveFails(p, "vault", "moveVault")
  \/ Migrate(p, "bak", "migrateBak", "moveBak", "migrateLock")
  \/ Move(p, "bak", "moveBak", "migrateLock") \/ MoveFails(p, "bak", "moveBak")
  \/ Migrate(p, "lock", "migrateLock", "moveLock", "open")
  \/ Move(p, "lock", "moveLock", "open") \/ MoveFails(p, "lock", "moveLock")

-----------------------------------------------------------------------------
(* WithFileTimeout                                                          *)

\* mutant: the lock file is opened without being created
OpenLockOnly(p) ==
  /\ At(p, "open")
  /\ fd' = [fd EXCEPT ![p] = home["lock"]]
  /\ Goto(p, "try")
  /\ UNCHANGED <<files, holder, mem, time, acked>>

\* O_CREATE without O_EXCL
OpenLock(p) ==
  /\ At(p, "open")
  /\ home' = IF home["lock"] = 0 THEN Put(home, "lock", 1) ELSE home
  /\ fd' = [fd EXCEPT ![p] = home'["lock"]]
  /\ Goto(p, "try")
  /\ UNCHANGED <<legacy, holder, mem, time, acked>>

\* mutant: a shared lock
IsFreeShared(p) == TRUE

IsFree(p) == holder[fd[p]] = NoProcess

Acquire(p) ==
  /\ At(p, "try")
  /\ IsFree(p)
  /\ holder' = [holder EXCEPT ![fd[p]] = p]
  /\ Goto(p, "load")
  /\ UNCHANGED <<files, fd, mem, time, acked>>

\* mutant: every failed attempt starts the timeout again
TooLateNever(p) == FALSE

\* mutant: a command that has waited at all gives up
TooLateAtOnce(p) == TRUE

\* No other attempt fits before the deadline
TooLate(p) == waited[p] + RetryDelay > Timeout

\* Back to "idle" with an error: the command has not run
GiveUp(p) ==
  /\ At(p, "try")
  /\ ~IsFree(p)
  /\ TooLate(p)
  /\ Leave(p)
  /\ UNCHANGED <<files, acked>>

Sleep(p) ==
  /\ At(p, "try")
  /\ ~IsFree(p)
  /\ ~TooLate(p)
  /\ nap' = [nap EXCEPT ![p] = RetryDelay]
  /\ Goto(p, "sleep")
  /\ UNCHANGED <<files, holder, fd, mem, waited, acked>>

\* A sleeper wakes at the end of its sleep or any time later
Wake(p) ==
  /\ At(p, "sleep")
  /\ nap[p] = 0
  /\ Goto(p, "try")
  /\ UNCHANGED <<files, holder, fd, mem, time, acked>>

TakeLock(p) == OpenLock(p) \/ Acquire(p) \/ GiveUp(p) \/ Sleep(p) \/ Wake(p)

-----------------------------------------------------------------------------
(* The command, under the lock                                              *)

\* mutant: a parked vault is not put back
LoadIgnoresBackup(p) ==
  /\ At(p, "load")
  /\ mem' = [mem EXCEPT ![p] = home["vault"]]
  /\ Goto(p, "loaded")
  /\ UNCHANGED <<files, holder, fd, time, acked>>

\* LoadBytes puts a parked vault back
Load(p) ==
  /\ At(p, "load")
  /\ mem' = [mem EXCEPT ![p] = Stored]
  /\ IF home["vault"] = 0
       THEN home' = Put(Put(home, "vault", home["bak"]), "bak", 0)
       ELSE UNCHANGED home
  /\ Goto(p, "loaded")
  /\ UNCHANGED <<legacy, holder, fd, time, acked>>

\* SaveFileAtomic: vault.db becomes vault.db.bak, if it exists ...
Park(p) ==
  /\ At(p, "loaded")
  /\ mem[p] < MaxUpdates
  /\ IF home["vault"] # 0
       THEN home' = Put(Put(home, "bak", home["vault"]), "vault", 0)
       ELSE UNCHANGED home
  /\ Goto(p, "publish")
  /\ UNCHANGED <<legacy, holder, fd, mem, time, acked>>

\* ... and the new vault becomes vault.db
Publish(p) ==
  /\ At(p, "publish")
  /\ mem' = [mem EXCEPT ![p] = @ + 1]
  /\ home' = Put(home, "vault", mem'[p])
  /\ Goto(p, "finish")
  /\ UNCHANGED <<legacy, holder, fd, time, acked>>

\* The command reports its update, if it made one, and unlocks
Finish(p) ==
  /\ \/ At(p, "loaded") /\ UNCHANGED acked
     \/ At(p, "finish") /\ acked' = mem[p]
  /\ Leave(p)
  /\ UNCHANGED files

Run(p) == Load(p) \/ Park(p) \/ Publish(p) \/ Finish(p)

-----------------------------------------------------------------------------
(* The environment                                                          *)

Crash(p) ==
  /\ ~At(p, "idle")
  /\ Leave(p)
  /\ UNCHANGED <<files, acked>>

Tick ==
  /\ \E p \in Processes : pc[p] \in Waiting
  /\ nap' = [p \in Processes |-> IF nap[p] > 0 THEN nap[p] - 1 ELSE 0]
  /\ waited' = [p \in Processes |->
                  IF pc[p] \in Waiting /\ waited[p] <= Timeout
                    THEN waited[p] + 1 ELSE waited[p]]
  /\ UNCHANGED <<files, holder, pc, fd, mem, acked>>

-----------------------------------------------------------------------------
\* Each vault is one update ahead of its .bak, and the home ahead of the files
\* left behind
Init ==
  /\ \E there \in SUBSET HomeHas :
       home = [n \in Names |-> IF n \notin there THEN 0
                              ELSE CASE n = "vault" -> 4 [] n = "bak" -> 3 [] n = "lock" -> 1]
  /\ \E there \in SUBSET LegacyHas :
       legacy = [n \in Names |-> IF n \notin there THEN 0
                                ELSE CASE n = "vault" -> 2 [] n = "bak" -> 1 [] n = "lock" -> 2]
  /\ holder = [i \in Inodes |-> NoProcess]
  /\ pc = [p \in Processes |-> "idle"]
  /\ fd = [p \in Processes |-> 0]
  /\ mem = [p \in Processes |-> 0]
  /\ nap = [p \in Processes |-> 0]
  /\ waited = [p \in Processes |-> 0]
  /\ acked = Found

Step(p) == Begin(p) \/ MigrateFiles(p) \/ TakeLock(p) \/ Run(p) \/ Crash(p)

Next == Tick \/ \E p \in Processes : Step(p)

Spec == Init /\ [][Next]_vars

\* Time passes, and a process that waits for the lock is scheduled.  Nothing is
\* assumed of the process that holds it.
Fairness ==
  /\ WF_vars(Tick)
  /\ \A p \in Processes : WF_vars(TakeLock(p))

FairSpec == Spec /\ Fairness

-----------------------------------------------------------------------------
(* Properties                                                               *)

TypeOK ==
  /\ home \in [Names -> Nat] /\ home["lock"] \in {0} \cup Inodes
  /\ legacy \in [Names -> Nat] /\ legacy["lock"] \in {0} \cup Inodes
  /\ holder \in [Inodes -> Processes \cup {NoProcess}]
  /\ pc \in [Processes -> {"idle", "open"} \cup Migrated \cup Waiting \cup Body]
  /\ fd \in [Processes -> {0} \cup Inodes]
  /\ \A p \in Processes : pc[p] \in Waiting \cup Body => fd[p] # 0
  /\ mem \in [Processes -> Nat]
  /\ nap \in [Processes -> 0..RetryDelay]
  /\ waited \in [Processes -> 0..Timeout + 1]
  /\ acked \in Nat

\* Two commands are never between lock and unlock at once (WithFileTimeout), as
\* long as the lock file is not replaced while they run.
Exclusive ==
  \A p, q \in Processes : pc[p] \in Body /\ pc[q] \in Body => p = q

\* What a command reported as saved is in the vault the next one loads, whatever
\* the interleaving of commands and wherever they die (withVaultLock around the
\* whole load, change and save).
NoLostUpdate == Found >= acked

\* A command that reports "timed out waiting for vault lock" has tried until no
\* further attempt fits in the timeout, and the last one met a live holder.
GivesUpOnlyWhenBusy ==
  [][\A p \in Processes :
       At(p, "try") /\ GiveUp(p) =>
         /\ waited[p] > Timeout - RetryDelay
         /\ \E q \in Processes \ {p} : pc[q] \in Body]_vars

\* A command does not wait forever, even behind one that never finishes: it gets
\* the lock, times out, or dies.
StopsWaiting ==
  \A p \in Processes : pc[p] \in Waiting ~> pc[p] \notin Waiting
=============================================================================
