------------------------------ MODULE TokenSync ------------------------------
(***************************************************************************)
(* The main vault, the shared token vault and the commands that move data  *)
(* between them: runPasswordCommandBytes (cmd/vault/main.go), the import   *)
(* and the mirror (cmd/vault/sync.go), token management and token use.     *)
(*                                                                         *)
(* The vault lock admits one command at a time (module VaultLock), so the  *)
(* adversary is not another command but a failure between two steps of     *)
(* one: the process dies, a save fails, the mirror fails, the shared vault *)
(* cannot be read, the token key was replaced, an old backup is restored.  *)
(*                                                                         *)
(* Saving one vault file is one step here; VaultStorage opens it up for    *)
(* the main vault.                                                         *)
(***************************************************************************)
EXTENDS Integers, SyncPolicy

CONSTANTS
  Tokens,
  MaxUses,  \* --max-uses of every token
  Trouble   \* what may go wrong: "crash", "save", "mirror", "import", "rotate",
            \* "restore"

ASSUME MaxUsesAssumption == MaxUses \in Nat \ {0}
ASSUME TroubleAssumption ==
  Trouble \subseteq {"crash", "save", "mirror", "import", "rotate", "restore"}

VARIABLES
  main,         \* vault.db
  backups,      \* the last timestamped backup, if any
  shared,       \* shared-token-vault.json
  sharedState,  \* "absent", "open", or "unreadable" under the current token key
  clock,        \* the last wall-clock reading stored in a vault
  expired,      \* tokens past their ExpiresAt
  pc,           \* the next step of the running password command
  mem,          \* its decrypted vault
  imported,     \* its tokenImportChanged
  pending,      \* the key changes it will have made when it returns nil
  revoking,     \* the token it will have revoked
  allowed,      \* per key, what may be there: the last acknowledged value, those
                \* of later commands that failed, and what Uncompared let in
  created,      \* token IDs drawn so far
  revoked,      \* tokens whose revocation was acknowledged
  used,         \* how often each token's commands succeeded
  trouble       \* "none", "tolerated" or "lossy": the worst failure so far

files   == <<main, backups, shared, sharedState>>
command == <<mem, imported, pending, revoking>>
ghosts  == <<allowed, created, revoked, used, trouble>>
vars    == <<files, clock, expired, pc, command, ghosts>>

Gone == -1
Vaults == [data: [Keys -> Stored], updated: [Keys -> Times], deleted: [Keys -> Times],
           managed: BOOLEAN, uses: [Tokens -> {Gone} \cup 0..MaxUses]]

\* managed is TokenManager # nil; a token's use count is Gone when it is not in it
EmptyVault == [data |-> Everywhere(Absent), updated |-> Everywhere(0),
               deleted |-> Everywhere(0), managed |-> FALSE,
               uses |-> [t \in Tokens |-> Gone]]

NoChange == [k \in {} |-> Absent]
Steps == {"idle", "import", "cleanup", "execute", "save", "saveAndMirror", "mirror"}

Goto(from, to) == pc = from /\ pc' = to
Worse(t) == trouble' = IF "lossy" \in {t, trouble} THEN "lossy" ELSE t

DropTokens(v, T) == [v EXCEPT !.uses = [t \in Tokens |-> IF t \in T THEN Gone ELSE @[t]]]

Forget == mem' = EmptyVault /\ imported' = FALSE /\ pending' = NoChange /\ revoking' = {}

\* The command returns: with nil its changes are acknowledged
ReturnNil ==
  /\ pc' = "idle"
  /\ allowed' = [k \in Keys |-> IF k \in DOMAIN pending THEN {pending[k]} ELSE allowed[k]]
  /\ revoked' = revoked \cup revoking
  /\ Forget

ReturnError == pc' = "idle" /\ Forget /\ UNCHANGED <<allowed, revoked>>

-----------------------------------------------------------------------------
(* syncMainVaultToSharedVault                                               *)

\* mutant: the token manager of the existing shared vault is kept
MirrorKeepsTokens(v) ==
  /\ sharedState = "open" \/ v.managed
  /\ sharedState' = "open"
  /\ shared' = [v EXCEPT !.managed = @ \/ shared.managed,
                         !.uses = IF shared.managed THEN shared.uses ELSE v.uses]
  /\ UNCHANGED trouble

\* The main vault's token manager, if it has one, replaces the shared one
MirrorStores(v) ==
  \/ /\ sharedState = "absent" /\ ~v.managed
     /\ UNCHANGED <<shared, sharedState>>
  \/ /\ sharedState = "open" \/ (sharedState = "absent" /\ v.managed)
     /\ sharedState' = "open"
     /\ shared' = IF v.managed THEN v
                  ELSE [v EXCEPT !.managed = shared.managed, !.uses = shared.uses]

MirrorSucceeds(v) == MirrorStores(v) /\ UNCHANGED trouble

\* A save may return an error after it has renamed its file into place
MirrorFails(v) ==
  \/ sharedState = "unreadable" /\ UNCHANGED <<shared, sharedState, trouble>>
  \/ /\ sharedState # "unreadable" /\ "mirror" \in Trouble
     /\ MirrorStores(v) \/ UNCHANGED <<shared, sharedState>>
     /\ Worse("tolerated")

MirrorShared(v) == MirrorSucceeds(v) \/ MirrorFails(v)

-----------------------------------------------------------------------------
(* runPasswordCommandBytes                                                  *)

\* A command reads the clock at most twice: for its import and for its own change
BeginCommand ==
  /\ Goto("idle", "import")
  /\ clock + 2 <= MaxTime
  /\ mem' = main
  /\ UNCHANGED <<files, clock, expired, imported, pending, revoking, ghosts>>

\* A shared value from before sync metadata wins over a main value that has a stamp
Uncompared == {k \in ImportKeys(mem, shared) : shared.updated[k] = 0 /\ mem.updated[k] # 0}

\* importSharedVaultToMainVault: what a successful load leads to
Import ==
  LET changes == ImportChanges(mem, shared)
  IN /\ sharedState = "open"
     /\ clock' = IF changes THEN clock + 1 ELSE clock
     /\ mem' = ImportSharedVault(mem, shared, clock + 1)
     /\ imported' = (imported \/ changes)
     /\ allowed' = [k \in Keys |-> IF trouble # "none" /\ k \in Uncompared
                                   THEN allowed[k] \cup {shared.data[k]} ELSE allowed[k]]
     /\ UNCHANGED trouble

\* A shared vault that cannot be loaded is logged and ignored
ImportSkipped ==
  /\ \/ sharedState # "open" /\ UNCHANGED trouble
     \/ sharedState = "open" /\ "import" \in Trouble /\ Worse("lossy")
  /\ UNCHANGED <<clock, mem, imported, allowed>>

ImportTokenChanges ==
  /\ Goto("import", "cleanup")
  /\ Import \/ ImportSkipped
  /\ UNCHANGED <<files, expired, pending, revoking, created, revoked, used>>

\* mutant: a token with one use left is cleaned up
StaleBeforeLastUse(v) ==
  {t \in Tokens : v.uses[t] # Gone /\ (t \in expired \/ v.uses[t] + 1 >= MaxUses)}

\* The use counts compared here are the main vault's own, which nothing raises
Stale(v) == {t \in Tokens : v.uses[t] # Gone /\ (t \in expired \/ v.uses[t] >= MaxUses)}

CleanupExpiredTokens ==
  /\ Goto("cleanup", "execute")
  /\ mem' = DropTokens(mem, Stale(mem))
  /\ IF Stale(mem) = {} THEN UNCHANGED <<shared, sharedState, trouble>>
     ELSE MirrorShared(mem')
  /\ UNCHANGED <<main, backups, clock, expired, imported, pending, revoking,
                 allowed, created, revoked, used>>

\* Changes to the vault in memory; its own file is saved afterwards
Change(changed, effect) ==
  /\ Goto("execute", "saveAndMirror")
  /\ mem' = changed
  /\ pending' = effect
  /\ allowed' = [k \in Keys |-> IF k \in DOMAIN effect THEN allowed[k] \cup {effect[k]}
                                ELSE allowed[k]]
  /\ clock' = IF effect = NoChange THEN clock ELSE clock + 1
  /\ UNCHANGED <<files, expired, imported, revoking, created, revoked, used, trouble>>

\* `set` and `import`; an import of nothing and a delete of nothing save as well
SetKeys(S, v) ==
  Change(MarkKeysUpdated([mem EXCEPT !.data = Overwrite(@, S, Everywhere(v))], S, clock + 1),
         [k \in S |-> v])

\* `delete` and `clear`
RemoveKeys(S) ==
  Change(MarkKeysDeleted([mem EXCEPT !.data = Overwrite(@, S, Everywhere(Absent))], S, clock + 1),
         [k \in S |-> Absent])

\* mutant: a new token is mirrored and the command ends without saving
CreateTokenUnsaved(t) ==
  /\ Goto("execute", "idle")
  /\ t \notin created
  /\ created' = created \cup {t}
  /\ MirrorShared([mem EXCEPT !.managed = TRUE, !.uses[t] = 0])
  /\ Forget
  /\ UNCHANGED <<main, backups, clock, expired, allowed, revoked, used>>

\* The mirror comes before the main vault's save, and its failure does not stop it
CreateToken(t) ==
  /\ Goto("execute", "save")
  /\ t \notin created
  /\ created' = created \cup {t}
  /\ mem' = [mem EXCEPT !.managed = TRUE, !.uses[t] = 0]
  /\ MirrorShared(mem')
  /\ UNCHANGED <<main, backups, clock, expired, imported, pending, revoking, allowed, revoked, used>>

RevokeToken(t) ==
  /\ Goto("execute", "save")
  /\ mem.uses[t] # Gone
  /\ mem' = DropTokens(mem, {t})
  /\ \/ MirrorSucceeds(mem') /\ revoking' = {t}
     \/ MirrorFails(mem') /\ UNCHANGED revoking
  /\ UNCHANGED <<main, backups, clock, expired, imported, pending, allowed, created, revoked, used>>

\* `sync-tokens` imports a second time
SyncTokens ==
  /\ Goto("execute", "save")
  /\ Import \/ ImportSkipped
  /\ UNCHANGED <<files, expired, pending, revoking, created, revoked, used>>

\* `setup-recovery`, `change-password`, `cleanup-tokens`, a refused token command
SaveUnchanged == Goto("execute", "save") /\ UNCHANGED <<files, clock, expired, command, ghosts>>

\* `get`, `list`, `export`, `backup`...: saveImportedTokenChanges
ReadOnly ==
  /\ \/ imported /\ Goto("execute", "save") /\ UNCHANGED <<command, allowed, revoked>>
     \/ ~imported /\ pc = "execute" /\ ReturnNil
  /\ UNCHANGED <<main, shared, sharedState, clock, expired, created, used, trouble>>
  /\ backups' \in {backups, {main}}

\* An unknown command, or one that gives up: the import is not saved
GiveUp ==
  /\ pc = "execute"
  /\ ReturnError
  /\ UNCHANGED <<files, clock, expired, created, used, trouble>>

\* saveExtendedVaultBytes, and the end of a command that does not mirror
Save ==
  /\ main' = mem
  /\ \/ pc = "save" /\ ReturnNil
     \/ Goto("saveAndMirror", "mirror") /\ UNCHANGED <<command, allowed, revoked>>
  /\ UNCHANGED <<backups, shared, sharedState, clock, expired, created, used, trouble>>

\* The save returns an error, before or after it has renamed its file into place
SaveFails ==
  /\ pc \in {"save", "saveAndMirror"}
  /\ "save" \in Trouble
  /\ main' \in {main, mem}
  /\ ReturnError
  /\ Worse("tolerated")
  /\ UNCHANGED <<backups, shared, sharedState, clock, expired, created, used>>

\* A failed mirror is only logged
MirrorBack ==
  /\ pc = "mirror"
  /\ MirrorShared(mem)
  /\ ReturnNil
  /\ UNCHANGED <<main, backups, clock, expired, created, used>>

Crash ==
  /\ pc # "idle"
  /\ "crash" \in Trouble
  /\ \/ UNCHANGED <<main, shared, sharedState>>
     \/ pc \in {"save", "saveAndMirror"} /\ main' = mem /\ UNCHANGED <<shared, sharedState>>
     \/ pc = "mirror" /\ MirrorStores(mem) /\ UNCHANGED main
  /\ ReturnError
  /\ Worse("tolerated")
  /\ UNCHANGED <<backups, clock, expired, created, used>>

-----------------------------------------------------------------------------
(* Commands that do not go through runPasswordCommandBytes                  *)

\* mutant: the last use is not the last
UsableOnceMore(t) ==
  sharedState = "open" /\ shared.uses[t] \in 0..MaxUses /\ t \notin expired

\* ParseAndValidateProductionToken on a token the CLI handed out
Usable(t) ==
  /\ sharedState = "open" /\ shared.managed
  /\ shared.uses[t] # Gone /\ shared.uses[t] < MaxUses
  /\ t \notin expired

\* saveSuccessfulTokenUse
CountUse(t) == used' = [used EXCEPT ![t] = IF @ > MaxUses THEN @ ELSE @ + 1]

\* The shared vault was stored, but its save returned an error or the process died:
\* the command does not succeed
StoredInDoubt == {"save", "crash"} \cap Trouble # {} /\ Worse("tolerated")

\* `use-token ... get`, `list` and `search`
UseTokenRead(t) ==
  /\ pc = "idle" /\ Usable(t)
  /\ shared' = [shared EXCEPT !.uses[t] = @ + 1]
  /\ \/ CountUse(t) /\ UNCHANGED trouble
     \/ StoredInDoubt /\ UNCHANGED used
  /\ UNCHANGED <<main, backups, sharedState, clock, expired, pc, command,
                 allowed, created, revoked>>

\* `use-token ... set`: staged in the shared vault, and acknowledged
UseTokenSet(t, k, v) ==
  /\ pc = "idle" /\ Usable(t)
  /\ clock < MaxTime
  /\ clock' = clock + 1
  /\ shared' = LET written == [shared EXCEPT !.data[k] = v, !.uses[t] = @ + 1]
               IN MarkKeysUpdated(written, {k}, clock')
  /\ \/ CountUse(t) /\ allowed' = [allowed EXCEPT ![k] = {v}] /\ UNCHANGED trouble
     \/ StoredInDoubt /\ allowed' = [allowed EXCEPT ![k] = @ \cup {v}] /\ UNCHANGED used
  /\ UNCHANGED <<main, backups, sharedState, expired, pc, command, created, revoked>>

\* `regenerate-token-key`: the shared vault stays encrypted under the old key
RegenerateTokenKey ==
  /\ pc = "idle" /\ "rotate" \in Trouble
  /\ sharedState = "open"
  /\ sharedState' = "unreadable"
  /\ Worse("lossy")
  /\ UNCHANGED <<main, backups, shared, clock, expired, pc, command, allowed, created, revoked, used>>

\* `restore`: replaces vault.db and nothing else.  The old state is asked for, so
\* any value may be there and the tokens it lists are valid again.
Restore ==
  /\ pc = "idle" /\ "restore" \in Trouble
  /\ \E v \in backups :
       /\ main' = v
       /\ revoked' = {t \in revoked : v.uses[t] = Gone}
  /\ allowed' = Everywhere(Stored)
  /\ Worse("tolerated")
  /\ UNCHANGED <<backups, shared, sharedState, clock, expired, pc, command, created, used>>

\* Time passes a token's ExpiresAt
Expire(t) ==
  /\ t \in created \ expired
  /\ expired' = expired \cup {t}
  /\ UNCHANGED <<files, clock, pc, command, ghosts>>

-----------------------------------------------------------------------------
\* No vault yet
NewVaults ==
  /\ main = EmptyVault /\ shared = EmptyVault
  /\ sharedState = "absent"
  /\ clock = 0
  /\ allowed = Everywhere({Absent})

\* The vaults of a release before sync metadata: no stamps, and if there are tokens
\* a shared copy, perhaps with a value that one of them has staged
UnstampedVaults ==
  \E v, w \in Values, k \in Keys, managed \in BOOLEAN :
    /\ main = [EmptyVault EXCEPT !.data = Everywhere(v), !.managed = managed]
    /\ shared = IF managed THEN [main EXCEPT !.data[k] = w] ELSE EmptyVault
    /\ sharedState = IF managed THEN "open" ELSE "absent"
    /\ clock = 1
    /\ allowed = [x \in Keys |-> {IF managed THEN shared.data[x] ELSE v}]

Init ==
  /\ NewVaults \/ UnstampedVaults
  /\ backups = {}
  /\ expired = {}
  /\ pc = "idle"
  /\ mem = EmptyVault /\ imported = FALSE /\ pending = NoChange /\ revoking = {}
  /\ created = {}
  /\ revoked = {}
  /\ used = [t \in Tokens |-> 0]
  /\ trouble = "none"

Execute ==
  \/ \E S \in SUBSET Keys, v \in Values : SetKeys(S, v)
  \/ \E S \in {Present(mem)} \cup {{k} : k \in Present(mem)} : RemoveKeys(S)
  \/ \E t \in Tokens : CreateToken(t) \/ RevokeToken(t)
  \/ SyncTokens \/ SaveUnchanged \/ ReadOnly \/ GiveUp

PasswordCommand ==
  \/ BeginCommand \/ ImportTokenChanges \/ CleanupExpiredTokens \/ Execute
  \/ Save \/ SaveFails \/ MirrorBack \/ Crash

TokenCommand ==
  \/ \E t \in Tokens : UseTokenRead(t) \/ Expire(t)
  \/ \E t \in Tokens, k \in Keys, v \in Values : UseTokenSet(t, k, v)

Next == PasswordCommand \/ TokenCommand \/ RegenerateTokenKey \/ Restore

Spec == Init /\ [][Next]_vars

-----------------------------------------------------------------------------
(* Properties                                                               *)

TypeOK ==
  /\ main \in Vaults /\ shared \in Vaults /\ mem \in Vaults
  /\ backups \subseteq Vaults
  /\ sharedState \in {"absent", "open", "unreadable"}
  /\ clock \in Times
  /\ pc \in Steps
  /\ imported \in BOOLEAN
  /\ DOMAIN pending \subseteq Keys /\ \A k \in DOMAIN pending : pending[k] \in Stored
  /\ allowed \in [Keys -> SUBSET Stored]
  /\ expired \subseteq created /\ revoked \subseteq created
  /\ revoking \subseteq created /\ created \subseteq Tokens
  /\ used \in [Tokens -> 0..MaxUses + 1]
  /\ trouble \in {"none", "tolerated", "lossy"}

\* While nothing fails, a password command sees, for every key, exactly the last
\* write or delete that any command acknowledged: master writes and token writes
\* are merged by timestamp without losing either.
LastWriteWins ==
  pc = "cleanup" /\ trouble = "none" => \A k \in Keys : mem.data[k] \in allowed[k]

\* Crashes, failed saves, failed mirrors and restores in any order never make a
\* password command see, for a key that was last set, an older value than the
\* one acknowledged: what the import brings is that value or a newer attempt
\* (timestamps in ShouldImportSharedValue), or, if a failed mirror left it there, a
\* value from before there were any.
NoStaleImport ==
  pc = "cleanup" /\ trouble # "lossy"
    => \A k \in Keys : Absent \in allowed[k] \/ mem.data[k] \in allowed[k]

\* An import leaves nothing for the next one to do: the second import of
\* `sync-tokens`, or of the next command, reports no changes.
ImportSettles ==
  pc = "import" /\ sharedState = "open"
    => ~ImportChanges(ImportSharedVault(mem, shared, clock + 1), shared)

\* `sync-tokens --dry-run` announces exactly the keys whose value an import changes.
PreviewAgrees ==
  pc = "import" /\ sharedState = "open"
    => LET preview == PreviewSharedVault(mem, shared)
           result  == ImportSharedVault(mem, shared, clock + 1)
       IN preview.imports \cup preview.deletes = {k \in Keys : result.data[k] # mem.data[k]}

\* Once a revocation is acknowledged, no mirror, import or failure makes the token
\* usable again; only restoring a main vault that still lists it does.
RevokedStaysRevoked == \A t \in revoked : ~Usable(t)

\* While nothing fails, every token that can be used is in the main vault between
\* two commands, where `list-tokens` shows it and `revoke-token` finds it.
UsableTokensAreListed ==
  pc = "idle" /\ trouble = "none" => \A t \in Tokens : Usable(t) => main.uses[t] # Gone

\* While nothing fails, a token that was handed out can be used until it expires, is
\* revoked or has had its uses: no import, mirror or cleanup loses it from the shared
\* registry or takes uses from it.
LiveTokensAreUsable ==
  pc = "idle" /\ trouble = "none"
    => \A t \in created \ (revoked \cup expired) : used[t] < MaxUses => Usable(t)
=============================================================================
