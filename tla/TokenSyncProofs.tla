--------------------------- MODULE TokenSyncProofs ---------------------------
(***************************************************************************)
(* The safety properties of TokenSync, for any keys, values and tokens,    *)
(* any number of commands and any trouble between them: tokens stay        *)
(* revoked and listed, an import settles and is what was previewed, and    *)
(* no import brings an older value than the one acknowledged.  The last    *)
(* sections are about TokenCodec alone, for texts of any symbols and of    *)
(* any length: a text is accepted as it was made, and a pattern admits the *)
(* keys it says.                                                           *)
(***************************************************************************)
EXTENDS MCTokenSync, WellFoundedInduction, NaturalsInduction, SequenceTheorems, TLAPS

\* A key that is missing reads as the empty string, and an import takes the two for
\* the same: the values that are set are not empty.
NoEmptyValue == Empty \notin Values

-----------------------------------------------------------------------------
(* The invariants                                                           *)

\* The vaults that can be there at time c when T are the tokens created: no stamp is
\* of the future, a key is deleted or present, a token was created and has a manager.
Sound(c, T) ==
  {v \in Vaults :
     /\ \A k \in Keys : /\ v.updated[k] <= c /\ v.deleted[k] <= c
                        /\ v.deleted[k] # 0 => v.data[k] = Absent
     /\ \A t \in Tokens : v.uses[t] # Gone => t \in T /\ v.managed}

\* What a command has in hand at each of its steps
StepInv ==
  /\ pc = "import" => mem = main /\ clock + 2 <= MaxTime
  /\ pc \in {"cleanup", "execute"} => clock + 1 <= MaxTime
  /\ pc = "mirror" => mem = main
  /\ pc \notin {"saveAndMirror", "mirror"} => pending = NoChange
  /\ revoking # {} => pc = "save"

\* All of TypeOK but the vaults
Scalars ==
  /\ sharedState \in {"absent", "open", "unreadable"}
  /\ clock \in Times
  /\ pc \in Steps
  /\ imported \in BOOLEAN
  /\ DOMAIN pending \subseteq Keys /\ \A k \in DOMAIN pending : pending[k] \in Stored
  /\ allowed \in [Keys -> SUBSET Stored]
  /\ expired \subseteq created /\ revoked \subseteq created
  /\ revoking \subseteq created /\ created \subseteq Tokens
  /\ used \in [Tokens -> 0..MaxUses + 1]
  /\ trouble \in {"none", "tolerated", "lossy"}

SoundVaults ==
  /\ main \in Sound(clock, created) /\ shared \in Sound(clock, created)
  /\ mem \in Sound(clock, created) /\ backups \subseteq Sound(clock, created)

SharedInv ==
  /\ sharedState = "absent" => shared = EmptyVault
  /\ sharedState = "unreadable" => trouble = "lossy"

Base == Scalars /\ SoundVaults /\ SharedInv /\ StepInv

\* A revoked token is in no vault that a command may save or mirror
RevokedInv ==
  /\ \A t \in revoked : main.uses[t] = Gone /\ mem.uses[t] = Gone /\ shared.uses[t] = Gone
  /\ \A t \in revoking : mem.uses[t] = Gone /\ shared.uses[t] = Gone

\* While nothing fails, a shared token is in the vault that the main one is or becomes
ListedInv ==
  \A t \in Tokens :
    /\ pc \in {"import", "cleanup", "execute"} =>
         (mem.uses[t] # Gone => main.uses[t] # Gone)
    /\ trouble = "none" /\ shared.uses[t] # Gone =>
         /\ pc # "idle" => mem.uses[t] # Gone
         /\ pc \in {"idle", "import", "cleanup", "execute"} => main.uses[t] # Gone

\* Main vaults do not count uses
Unused(v) == \A t \in Tokens : v.uses[t] \in {Gone, 0}

\* While nothing fails, a token that was handed out is in the shared vault with no
\* more uses than it has had, and in the main vault of this command or the last
Lives(t) ==
  /\ sharedState = "open" /\ shared.uses[t] \in 0..used[t]
  /\ pc # "idle" => mem.uses[t] = 0
  /\ pc \in {"idle", "import", "cleanup", "execute"} => main.uses[t] = 0

LiveInv ==
  /\ Unused(main) /\ Unused(mem) /\ \A v \in backups : Unused(v)
  /\ trouble = "none" =>
       \A t \in created \ (revoked \cup revoking \cup expired) : Lives(t)

\* What an import of s leaves at k in m
Merged(m, s, k) ==
  IF k \in ImportKeys(m, s) THEN s.data[k]
  ELSE IF k \in DeleteKeys(m, s) THEN Absent ELSE m.data[k]

Settled(m, s, k) == k \notin ImportKeys(m, s) \cup DeleteKeys(m, s)

\* What a lookup of a key makes of what is there, and the values that read alike
Reads(x)    == IF x = Absent THEN Empty ELSE x
Alike(x, y) == Reads(x) = Reads(y)

\* x is what may be there, or a failure has made way for a delete that is not honoured
Held(x, allow, level) ==
  (\E a \in allow : Alike(a, x)) \/ (level = "tolerated" /\ Absent \in allow)

\* A failure has made way for a shared value from before sync metadata
Unstamped(m, s, k, allow, level) ==
  /\ level = "tolerated"
  /\ k \in Present(s) /\ s.updated[k] = 0
  /\ m.updated[k] # 0 /\ m.data[k] \in allow

\* The next command will see what may be there
Fresh(m, s, k, allow, level) ==
  Held(Merged(m, s, k), allow, level) \/ Unstamped(m, s, k, allow, level)

\* The change of k to x is newer than anything else
Staged(v, k, x, allow, now) ==
  /\ v.data[k] = x /\ x \in allow
  /\ x # Absent => v.updated[k] = now /\ now # 0

KeyInv(k) ==
  /\ pc # "mirror" => Fresh(main, shared, k, allowed[k], trouble)
  /\ pc \notin {"idle", "import"} => Held(mem.data[k], allowed[k], trouble)
  /\ pc \in {"cleanup", "execute"} => Alike(Merged(main, mem, k), mem.data[k])
  /\ pc \notin {"idle", "import"} =>
       IF k \in DOMAIN pending THEN Staged(mem, k, pending[k], allowed[k], clock)
       ELSE Settled(mem, shared, k)

ValueInv == trouble # "lossy" => \A k \in Keys : KeyInv(k)

-----------------------------------------------------------------------------
(* Vaults and the operators on them                                         *)

\* A vault goes on being sound as time passes and tokens are created.
LEMMA SoundGrows ==
  ASSUME NEW c \in Times, NEW d \in Times, c <= d, NEW T, NEW U, T \subseteq U,
         NEW v \in Sound(c, T)
  PROVE  v \in Sound(d, U)
BY DEF Sound, Vaults, Times

\* The vault of a new installation is sound.
LEMMA EmptyIsSound ==
  ASSUME NEW c \in Times, NEW T
  PROVE  EmptyVault \in Sound(c, T)
BY TimeAssumption DEF Sound, Vaults, EmptyVault, Everywhere, Times, Stored, Gone

\* What a sound vault is made of.
LEMMA SoundFields ==
  ASSUME NEW c \in Times, NEW T, NEW v \in Sound(c, T)
  PROVE  /\ v \in Vaults
         /\ v = [data |-> v.data, updated |-> v.updated, deleted |-> v.deleted,
                 managed |-> v.managed, uses |-> v.uses]
         /\ v.data \in [Keys -> Stored] /\ v.updated \in [Keys -> Times]
         /\ v.deleted \in [Keys -> Times] /\ v.managed \in BOOLEAN
         /\ v.uses \in [Tokens -> {Gone} \cup 0..MaxUses]
BY DEF Sound, Vaults

\* The order of the clock readings.
LEMMA TimesAreOrdered ==
  /\ Times \subseteq Int /\ 0 \in Times
  /\ \A a, b, c \in Times : a <= b /\ b <= c => a <= c
BY TimeAssumption DEF Times

Rewritten(v, S, f, u, d) ==
  [v EXCEPT !.data = Overwrite(@, S, f), !.updated = Overwrite(@, S, Everywhere(u)),
            !.deleted = Overwrite(@, S, Everywhere(d))]

RewrittenOf(w, v, S, f, u, d) ==
  /\ w.uses = v.uses /\ w.managed = v.managed
  /\ \A k \in S : w.data[k] = f[k] /\ w.updated[k] = u /\ w.deleted[k] = d
  /\ \A k \in Keys \ S : /\ w.data[k] = v.data[k]
                         /\ w.updated[k] = v.updated[k] /\ w.deleted[k] = v.deleted[k]

\* New values and stamps of now on some keys of a sound vault leave it sound.
LEMMA Changes ==
  ASSUME NEW c \in Times, NEW now \in Times, c <= now, NEW T, NEW v \in Sound(c, T),
         NEW S \in SUBSET Keys, NEW f \in [Keys -> Stored],
         NEW u \in Times, NEW d \in Times, u <= now, d <= now,
         d # 0 => \A k \in S : f[k] = Absent,
         NEW w, w = Rewritten(v, S, f, u, d)
  PROVE  RewrittenOf(w, v, S, f, u, d) /\ w \in Sound(now, T)
<1> DEFINE data    == Overwrite(v.data, S, f)
           updated == Overwrite(v.updated, S, Everywhere(u))
           deleted == Overwrite(v.deleted, S, Everywhere(d))
<1>1. /\ v = [data |-> v.data, updated |-> v.updated, deleted |-> v.deleted,
              managed |-> v.managed, uses |-> v.uses]
      /\ v.data \in [Keys -> Stored] /\ v.updated \in [Keys -> Times]
      /\ v.deleted \in [Keys -> Times] /\ v.managed \in BOOLEAN
      /\ v.uses \in [Tokens -> {Gone} \cup 0..MaxUses]
  BY SoundFields
<1>2. w = [data |-> data, updated |-> updated, deleted |-> deleted,
           managed |-> v.managed, uses |-> v.uses]
  BY <1>1 DEF Rewritten
<1>3. /\ data \in [Keys -> Stored] /\ updated \in [Keys -> Times] /\ deleted \in [Keys -> Times]
      /\ \A k \in S : data[k] = f[k] /\ updated[k] = u /\ deleted[k] = d
      /\ \A k \in Keys \ S : /\ data[k] = v.data[k]
                             /\ updated[k] = v.updated[k] /\ deleted[k] = v.deleted[k]
  BY <1>1 DEF Overwrite, Everywhere
<1> HIDE DEF data, updated, deleted
<1>4. w \in Vaults
  BY <1>1, <1>2, <1>3 DEF Vaults
<1>5. \A k \in Keys : v.updated[k] <= now /\ v.deleted[k] <= now
  BY <1>1, TimesAreOrdered DEF Sound
<1>6. \A k \in Keys : /\ updated[k] <= now /\ deleted[k] <= now
                      /\ deleted[k] # 0 => data[k] = Absent
  BY <1>3, <1>5 DEF Sound
<1>7. w \in Sound(now, T)
  BY <1>2, <1>4, <1>6 DEF Sound
<1>8. /\ w.data = data /\ w.updated = updated /\ w.deleted = deleted
      /\ w.uses = v.uses /\ w.managed = v.managed
  BY ONLY <1>2
<1> QED
  BY ONLY <1>3, <1>7, <1>8 DEF RewrittenOf

\* What a write of some keys makes of a vault.
LEMMA Writes ==
  ASSUME NEW c \in Times, NEW now \in Times, c <= now, NEW T, NEW v \in Sound(c, T),
         NEW S \in SUBSET Keys, NEW f \in [Keys -> Stored],
         NEW w, w = MarkKeysUpdated([v EXCEPT !.data = Overwrite(@, S, f)], S, now)
  PROVE  RewrittenOf(w, v, S, f, now, 0) /\ w \in Sound(now, T)
<1>1. w = Rewritten(v, S, f, now, 0)
  BY SoundFields DEF MarkKeysUpdated, Rewritten
<1>2. 0 \in Times /\ 0 <= now /\ now <= now
  BY TimesAreOrdered DEF Times
<1> QED
  BY <1>1, <1>2, Changes

\* What a delete of some keys makes of a vault.
LEMMA Deletes ==
  ASSUME NEW c \in Times, NEW now \in Times, c <= now, NEW T, NEW v \in Sound(c, T),
         NEW S \in SUBSET Keys,
         NEW w, w = MarkKeysDeleted([v EXCEPT !.data = Overwrite(@, S, Everywhere(Absent))], S, now)
  PROVE  RewrittenOf(w, v, S, Everywhere(Absent), 0, now) /\ w \in Sound(now, T)
<1>1. w = Rewritten(v, S, Everywhere(Absent), 0, now)
  BY SoundFields DEF MarkKeysDeleted, Rewritten
<1>2. 0 \in Times /\ 0 <= now /\ now <= now
  BY TimesAreOrdered DEF Times
<1>3. Everywhere(Absent) \in [Keys -> Stored] /\ \A k \in S : Everywhere(Absent)[k] = Absent
  BY DEF Everywhere, Stored
<1> QED
  BY <1>1, <1>2, <1>3, Changes

\* Writing to no key changes nothing.
LEMMA NothingWritten ==
  ASSUME NEW v \in Vaults, NEW f, NEW now
  PROVE  /\ MarkKeysUpdated([v EXCEPT !.data = Overwrite(@, {}, f)], {}, now) = v
         /\ MarkKeysDeleted([v EXCEPT !.data = Overwrite(@, {}, f)], {}, now) = v
<1>1. /\ Overwrite(v.data, {}, f) = v.data
      /\ \A g : Overwrite(v.updated, {}, g) = v.updated /\ Overwrite(v.deleted, {}, g) = v.deleted
  BY DEF Vaults, Overwrite
<1> QED
  BY <1>1 DEF Vaults, MarkKeysUpdated, MarkKeysDeleted

\* Dropping tokens and creating one leave a vault sound, and its keys alone.
LEMMA Drops ==
  ASSUME NEW c \in Times, NEW T, NEW v \in Sound(c, T), NEW D,
         NEW w, w = DropTokens(v, D)
  PROVE  /\ w \in Sound(c, T)
         /\ w.data = v.data /\ w.updated = v.updated /\ w.deleted = v.deleted
         /\ w.managed = v.managed
         /\ \A t \in Tokens : w.uses[t] = IF t \in D THEN Gone ELSE v.uses[t]
<1>1. /\ v \in Vaults
      /\ w = [data |-> v.data, updated |-> v.updated, deleted |-> v.deleted,
              managed |-> v.managed, uses |-> [t \in Tokens |-> IF t \in D THEN Gone ELSE v.uses[t]]]
  BY DEF DropTokens, Sound, Vaults
<1> QED
  BY <1>1 DEF Sound, Vaults

WithToken(v, t)    == [v EXCEPT !.managed = TRUE, !.uses[t] = 0]
WithTokensOf(v, s) == [v EXCEPT !.managed = s.managed, !.uses = s.uses]

\* A new token in a vault that has a manager, or is given one.
LEMMA Creates ==
  ASSUME NEW c \in Times, NEW T, NEW v \in Sound(c, T), NEW t \in Tokens,
         NEW w, w = WithToken(v, t)
  PROVE  /\ w \in Sound(c, T \cup {t})
         /\ w.data = v.data /\ w.updated = v.updated /\ w.deleted = v.deleted
         /\ w.managed
         /\ \A u \in Tokens : w.uses[u] = IF u = t THEN 0 ELSE v.uses[u]
<1>1. /\ v \in Vaults
      /\ w = [data |-> v.data, updated |-> v.updated, deleted |-> v.deleted,
              managed |-> TRUE, uses |-> [v.uses EXCEPT ![t] = 0]]
  BY DEF Sound, Vaults, WithToken
<1>2. [v.uses EXCEPT ![t] = 0] \in [Tokens -> {Gone} \cup 0..MaxUses]
  BY SoundFields, MaxUsesAssumption
<1>3. w \in Vaults
  BY <1>1, <1>2, SoundFields DEF Vaults
<1> QED
  BY <1>1, <1>3 DEF Sound, Vaults

\* A vault with the tokens of another.
LEMMA KeepsTokens ==
  ASSUME NEW c \in Times, NEW T, NEW v \in Sound(c, T), NEW s \in Sound(c, T),
         NEW w, w = WithTokensOf(v, s)
  PROVE  /\ w \in Sound(c, T)
         /\ w.data = v.data /\ w.updated = v.updated /\ w.deleted = v.deleted
         /\ w.managed = s.managed /\ w.uses = s.uses
<1>0. v = [data |-> v.data, updated |-> v.updated, deleted |-> v.deleted,
           managed |-> v.managed, uses |-> v.uses]
  BY SoundFields
<1>1. w = [data |-> v.data, updated |-> v.updated, deleted |-> v.deleted,
           managed |-> s.managed, uses |-> s.uses]
  BY <1>0 DEF WithTokensOf
<1>2. /\ w.data = v.data /\ w.updated = v.updated /\ w.deleted = v.deleted
      /\ w.managed = s.managed /\ w.uses = s.uses
  BY ONLY <1>1
<1>3. /\ v.data \in [Keys -> Stored] /\ v.updated \in [Keys -> Times]
      /\ v.deleted \in [Keys -> Times] /\ s.managed \in BOOLEAN
      /\ s.uses \in [Tokens -> {Gone} \cup 0..MaxUses]
  BY SoundFields
<1>4. w \in Vaults
  BY <1>1, <1>3 DEF Vaults
<1> QED
  BY <1>2, <1>4 DEF Sound

Used(v, t) == [v EXCEPT !.uses[t] = @ + 1]
Written(v, t, k, x, now) ==
  MarkKeysUpdated([v EXCEPT !.data[k] = x, !.uses[t] = @ + 1], {k}, now)

\* A token that can be used once more is counted.
LEMMA Uses ==
  ASSUME NEW c \in Times, NEW T, NEW v \in Sound(c, T), NEW t \in Tokens,
         v.uses[t] # Gone, v.uses[t] < MaxUses,
         NEW w, w = Used(v, t)
  PROVE  /\ w \in Sound(c, T)
         /\ w.data = v.data /\ w.updated = v.updated /\ w.deleted = v.deleted
         /\ w.managed = v.managed
         /\ \A u \in Tokens : w.uses[u] = IF u = t THEN v.uses[u] + 1 ELSE v.uses[u]
<1>0. v = [data |-> v.data, updated |-> v.updated, deleted |-> v.deleted,
           managed |-> v.managed, uses |-> v.uses]
  BY SoundFields
<1>1. w = [data |-> v.data, updated |-> v.updated, deleted |-> v.deleted,
           managed |-> v.managed, uses |-> [v.uses EXCEPT ![t] = @ + 1]]
  BY <1>0 DEF Used
<1>2. /\ w.data = v.data /\ w.updated = v.updated /\ w.deleted = v.deleted
      /\ w.managed = v.managed /\ w.uses = [v.uses EXCEPT ![t] = @ + 1]
  BY ONLY <1>1
<1>3. /\ v.data \in [Keys -> Stored] /\ v.updated \in [Keys -> Times]
      /\ v.deleted \in [Keys -> Times] /\ v.managed \in BOOLEAN
      /\ v.uses \in [Tokens -> {Gone} \cup 0..MaxUses]
  BY SoundFields
<1>4. [v.uses EXCEPT ![t] = @ + 1] \in [Tokens -> {Gone} \cup 0..MaxUses]
  BY <1>3, MaxUsesAssumption
<1>5. w \in Vaults
  BY <1>1, <1>3, <1>4 DEF Vaults
<1>6. \A u \in Tokens : w.uses[u] = IF u = t THEN v.uses[u] + 1 ELSE v.uses[u]
  BY <1>2, <1>3
<1>7. \A u \in Tokens : w.uses[u] # Gone => v.uses[u] # Gone
  BY <1>6
<1>8. w \in Sound(c, T)
  BY <1>2, <1>5, <1>7 DEF Sound
<1> QED
  BY <1>2, <1>6, <1>8

\* A token that writes a key is counted too.
LEMMA TokenWrites ==
  ASSUME NEW c \in Times, NEW now \in Times, c <= now, NEW T, NEW v \in Sound(c, T),
         NEW t \in Tokens, v.uses[t] # Gone, v.uses[t] < MaxUses,
         NEW k \in Keys, NEW x \in Stored,
         NEW w, w = Written(v, t, k, x, now)
  PROVE  /\ w \in Sound(now, T) /\ w.managed = v.managed
         /\ \A u \in Tokens : w.uses[u] = IF u = t THEN v.uses[u] + 1 ELSE v.uses[u]
         /\ w.data[k] = x /\ w.updated[k] = now /\ w.deleted[k] = 0
         /\ \A i \in Keys \ {k} : /\ w.data[i] = v.data[i]
                                  /\ w.updated[i] = v.updated[i] /\ w.deleted[i] = v.deleted[i]
<1>1. PICK u : u = Used(v, t)
  OBVIOUS
<1>2. /\ u \in Sound(c, T)
      /\ u.data = v.data /\ u.updated = v.updated /\ u.deleted = v.deleted
      /\ u.managed = v.managed
      /\ \A i \in Tokens : u.uses[i] = IF i = t THEN v.uses[i] + 1 ELSE v.uses[i]
  BY <1>1, Uses
<1>3. PICK y : y = MarkKeysUpdated([u EXCEPT !.data = Overwrite(@, {k}, Everywhere(x))], {k}, now)
  OBVIOUS
<1>4. RewrittenOf(y, u, {k}, Everywhere(x), now, 0) /\ y \in Sound(now, T)
  <2>1. Everywhere(x) \in [Keys -> Stored] /\ {k} \in SUBSET Keys
    BY DEF Everywhere
  <2> QED
    BY <1>2, <1>3, <2>1, Writes
<1>5. w = y
  <2>1. v = [data |-> v.data, updated |-> v.updated, deleted |-> v.deleted,
             managed |-> v.managed, uses |-> v.uses]
    BY SoundFields
  <2>2. w = [data |-> [v.data EXCEPT ![k] = x],
             updated |-> Overwrite(v.updated, {k}, Everywhere(now)),
             deleted |-> Overwrite(v.deleted, {k}, Everywhere(0)),
             managed |-> v.managed, uses |-> [v.uses EXCEPT ![t] = @ + 1]]
    BY <2>1 DEF Written, MarkKeysUpdated
  <2>3. u = [data |-> v.data, updated |-> v.updated, deleted |-> v.deleted,
             managed |-> v.managed, uses |-> [v.uses EXCEPT ![t] = @ + 1]]
    BY <1>1, <2>1 DEF Used
  <2>4. y = [data |-> Overwrite(v.data, {k}, Everywhere(x)),
             updated |-> Overwrite(v.updated, {k}, Everywhere(now)),
             deleted |-> Overwrite(v.deleted, {k}, Everywhere(0)),
             managed |-> v.managed, uses |-> [v.uses EXCEPT ![t] = @ + 1]]
    BY <1>3, <2>3 DEF MarkKeysUpdated
  <2>5. v.data \in [Keys -> Stored]
    BY SoundFields
  <2>6. Overwrite(v.data, {k}, Everywhere(x)) = [v.data EXCEPT ![k] = x]
    BY <2>5 DEF Overwrite, Everywhere
  <2> QED
    BY ONLY <2>2, <2>4, <2>6
<1>6. Everywhere(x)[k] = x
  BY DEF Everywhere
<1> QED
  BY <1>2, <1>4, <1>5, <1>6 DEF RewrittenOf

-----------------------------------------------------------------------------
(* Imports                                                                  *)

\* What an import of s makes of m
ImportOf(w, m, s, now) ==
  /\ w.uses = m.uses /\ w.managed = m.managed
  /\ \A k \in Keys :
       /\ k \in ImportKeys(m, s) =>
            w.data[k] = s.data[k] /\ w.updated[k] = now /\ w.deleted[k] = 0
       /\ k \in DeleteKeys(m, s) =>
            w.data[k] = Absent /\ w.updated[k] = 0 /\ w.deleted[k] = now
       /\ Settled(m, s, k) => /\ w.data[k] = m.data[k]
                              /\ w.updated[k] = m.updated[k] /\ w.deleted[k] = m.deleted[k]

\* No key is both imported and deleted: the shared vault has it or not.
LEMMA Disjoint ==
  ASSUME NEW c \in Times, NEW T, NEW m, NEW s \in Sound(c, T), NEW k \in Keys
  PROVE  ~(k \in ImportKeys(m, s) /\ k \in DeleteKeys(m, s))
BY DEF ImportKeys, DeleteKeys, Present, Sound

\* The first loop leaves to the second what was there for it.
LEMMA SecondLoop ==
  ASSUME NEW c \in Times, NEW now \in Times, c <= now, NEW T,
         NEW m \in Sound(c, T), NEW s \in Sound(c, T)
  PROVE  DeleteKeys(TakeUpdates(m, s, now), s) = DeleteKeys(m, s)
<1> DEFINE u == TakeUpdates(m, s, now)
           S == ImportKeys(m, s)
<1>1. S \in SUBSET Keys /\ s.data \in [Keys -> Stored]
  BY SoundFields DEF ImportKeys, Present
<1>2. RewrittenOf(u, m, S, s.data, now, 0)
  BY <1>1, Writes DEF TakeUpdates
<1> SUFFICES ASSUME NEW k \in Keys
             PROVE  k \in DeleteKeys(u, s) <=> k \in DeleteKeys(m, s)
  BY DEF DeleteKeys, Present
<1>3. CASE k \in S
  BY <1>3 DEF ImportKeys, DeleteKeys, Present, Sound
<1>4. CASE k \notin S
  BY <1>2, <1>4 DEF RewrittenOf, DeleteKeys, Present
<1> QED
  BY <1>3, <1>4

\* ImportSharedVault, key by key.
LEMMA Imports ==
  ASSUME NEW c \in Times, NEW now \in Times, c <= now, NEW T,
         NEW m \in Sound(c, T), NEW s \in Sound(c, T),
         NEW w, w = ImportSharedVault(m, s, now)
  PROVE  ImportOf(w, m, s, now) /\ w \in Sound(now, T)
<1> DEFINE u == TakeUpdates(m, s, now)
           S == ImportKeys(m, s)
           D == DeleteKeys(m, s)
<1>1. S \in SUBSET Keys /\ D \in SUBSET Keys /\ s.data \in [Keys -> Stored]
  BY SoundFields DEF ImportKeys, DeleteKeys, Present
<1>2. RewrittenOf(u, m, S, s.data, now, 0) /\ u \in Sound(now, T)
  BY <1>1, Writes DEF TakeUpdates
<1>3. w = MarkKeysDeleted([u EXCEPT !.data = Overwrite(@, D, Everywhere(Absent))], D, now)
  BY SecondLoop DEF ImportSharedVault, TakeDeletes
<1>4. now <= now
  BY DEF Times
<1>5. RewrittenOf(w, u, D, Everywhere(Absent), 0, now) /\ w \in Sound(now, T)
  BY <1>1, <1>2, <1>3, <1>4, Deletes
<1>6. \A k \in Keys : Everywhere(Absent)[k] = Absent /\ (k \in S => k \notin D)
  BY Disjoint DEF Everywhere
<1> HIDE DEF u, S, D
<1>7. \A k \in Keys :
        /\ k \in S => w.data[k] = s.data[k] /\ w.updated[k] = now /\ w.deleted[k] = 0
        /\ k \in D => w.data[k] = Absent /\ w.updated[k] = 0 /\ w.deleted[k] = now
        /\ k \notin S \cup D => /\ w.data[k] = m.data[k]
                                /\ w.updated[k] = m.updated[k] /\ w.deleted[k] = m.deleted[k]
  BY <1>1, <1>2, <1>5, <1>6 DEF RewrittenOf
<1>8. w.uses = m.uses /\ w.managed = m.managed
  BY <1>2, <1>5 DEF RewrittenOf
<1> QED
  BY <1>5, <1>7, <1>8 DEF ImportOf, Settled, S, D

\* An import reports no changes when there is no key to change, and then makes none.
LEMMA NothingToImport ==
  ASSUME NEW c \in Times, NEW now \in Times, c <= now, NEW T,
         NEW m \in Sound(c, T), NEW s \in Sound(c, T)
  PROVE  /\ ImportChanges(m, s) <=> \E k \in Keys : ~Settled(m, s, k)
         /\ ~ImportChanges(m, s) => ImportSharedVault(m, s, now) = m
<1>1. MaxTime \in Times /\ c <= MaxTime /\ m \in Vaults
  BY TimeAssumption, SoundFields DEF Times
<1>2. DeleteKeys(TakeUpdates(m, s, MaxTime), s) = DeleteKeys(m, s)
  BY <1>1, SecondLoop
<1>3. ImportChanges(m, s) <=> \E k \in Keys : ~Settled(m, s, k)
  BY <1>2 DEF ImportChanges, Settled, ImportKeys, DeleteKeys, Present
<1>4. ASSUME ~ImportChanges(m, s) PROVE ImportSharedVault(m, s, now) = m
  <2>1. ImportKeys(m, s) = {} /\ DeleteKeys(m, s) = {}
    BY <1>2, <1>4 DEF ImportChanges
  <2>2. TakeUpdates(m, s, now) = m
    BY <1>1, <2>1, NothingWritten DEF TakeUpdates
  <2> QED
    BY <1>1, <2>1, <2>2, NothingWritten DEF ImportSharedVault, TakeDeletes
<1> QED
  BY <1>3, <1>4

\* After an import the shared vault has nothing more to say.
LEMMA ImportsSettle ==
  ASSUME NEW c \in Times, NEW T, NEW m \in Sound(c, T), NEW s \in Sound(c, T),
         NEW now, NEW w, ImportOf(w, m, s, now), NEW k \in Keys
  PROVE  Settled(w, s, k)
<1>1. CASE k \in ImportKeys(m, s)
  BY <1>1 DEF ImportOf, Settled, ImportKeys, DeleteKeys, Present, Lookup,
     ShouldImportSharedValue, Sound
<1>2. CASE k \in DeleteKeys(m, s)
  BY <1>2 DEF ImportOf, Settled, ImportKeys, DeleteKeys, Present, Sound
<1>3. CASE Settled(m, s, k)
  BY <1>3 DEF ImportOf, Settled, ImportKeys, DeleteKeys, Present, Lookup,
     ShouldImportSharedValue
<1> QED
  BY <1>1, <1>2, <1>3 DEF Settled

\* What is merged, and that it is new where the shared vault has something to say.
LEMMA ImportsMerge ==
  ASSUME NEW c \in Times, NEW T, NEW m \in Sound(c, T), NEW s \in Sound(c, T),
         NEW now, NEW w, ImportOf(w, m, s, now), NEW k \in Keys
  PROVE  /\ w.data[k] = Merged(m, s, k)
         /\ w.data[k] # m.data[k] <=> ~Settled(m, s, k)
<1>1. CASE k \in ImportKeys(m, s)
  BY <1>1 DEF ImportOf, Merged, Settled, ImportKeys, Present, Lookup, ShouldImportSharedValue
<1>2. CASE k \in DeleteKeys(m, s)
  BY <1>2, Disjoint DEF ImportOf, Merged, Settled, DeleteKeys, Present
<1>3. CASE Settled(m, s, k)
  BY <1>3 DEF ImportOf, Merged, Settled
<1> QED
  BY <1>1, <1>2, <1>3 DEF Settled

-----------------------------------------------------------------------------
(* The type invariant                                                       *)

\* The base invariant gives every variable its type.
LEMMA BaseIsTyped == Base => TypeOK
BY SoundFields DEF Base, Scalars, SoundVaults, TypeOK, Sound

\* A new vault, and one from before sync metadata, are sound.
LEMMA BaseInit == Init => Base
<1> SUFFICES ASSUME Init PROVE Base
  OBVIOUS
<1>1. /\ clock \in Times /\ EmptyVault \in Sound(clock, created)
      /\ pending = NoChange /\ allowed \in [Keys -> SUBSET Stored]
  <2>1. CASE NewVaults
    BY <2>1, TimesAreOrdered, EmptyIsSound
    DEF Init, NewVaults, Everywhere, Stored
  <2>2. CASE UnstampedVaults
    <3> PICK v \in Values, w \in Values, k \in Keys, managed \in BOOLEAN :
               /\ main = [EmptyVault EXCEPT !.data = Everywhere(v), !.managed = managed]
               /\ shared = IF managed THEN [main EXCEPT !.data[k] = w] ELSE EmptyVault
               /\ clock = 1
               /\ allowed = [x \in Keys |-> {IF managed THEN shared.data[x] ELSE v}]
      BY <2>2 DEF UnstampedVaults
    <3>1. clock \in Times
      BY TimeAssumption DEF Times
    <3>2. managed => \A x \in Keys : shared.data[x] \in Stored
      BY DEF EmptyVault, Everywhere, Stored
    <3> QED
      BY <3>1, <3>2, EmptyIsSound DEF Init, Stored
  <2> QED
    BY <2>1, <2>2 DEF Init
<1>2. main \in Sound(clock, created) /\ shared \in Sound(clock, created)
  <2>1. CASE NewVaults
    BY <1>1, <2>1 DEF NewVaults
  <2>2. CASE UnstampedVaults
    <3> PICK v \in Values, w \in Values, k \in Keys, managed \in BOOLEAN :
               /\ main = [EmptyVault EXCEPT !.data = Everywhere(v), !.managed = managed]
               /\ shared = IF managed THEN [main EXCEPT !.data[k] = w] ELSE EmptyVault
               /\ clock = 1
               /\ allowed = [x \in Keys |-> {IF managed THEN shared.data[x] ELSE v}]
      BY <2>2 DEF UnstampedVaults
    <3>1. main = [EmptyVault EXCEPT !.data = Everywhere(v), !.managed = managed]
      OBVIOUS
    <3>a. main = [data |-> Everywhere(v), updated |-> Everywhere(0), deleted |-> Everywhere(0),
                  managed |-> managed, uses |-> EmptyVault.uses]
      BY <3>1 DEF EmptyVault
    <3>b. Everywhere(v) \in [Keys -> Stored]
      BY DEF Everywhere, Stored
    <3>2. /\ main.data \in [Keys -> Stored] /\ main.managed \in BOOLEAN
          /\ main = [data |-> main.data, updated |-> Everywhere(0), deleted |-> Everywhere(0),
                     managed |-> main.managed, uses |-> EmptyVault.uses]
      BY <3>a, <3>b
    <3>3. ASSUME NEW f \in [Keys -> Stored], NEW b \in BOOLEAN
          PROVE  [data |-> f, updated |-> Everywhere(0), deleted |-> Everywhere(0),
                  managed |-> b, uses |-> EmptyVault.uses] \in Sound(clock, created)
      <4> DEFINE x == [data |-> f, updated |-> Everywhere(0), deleted |-> Everywhere(0),
                       managed |-> b, uses |-> EmptyVault.uses]
      <4>1. /\ EmptyVault.uses \in [Tokens -> {Gone} \cup 0..MaxUses]
            /\ \A t \in Tokens : EmptyVault.uses[t] = Gone
        BY DEF EmptyVault
      <4>2. /\ Everywhere(0) \in [Keys -> Times] /\ 0 <= clock
            /\ \A k2 \in Keys : Everywhere(0)[k2] = 0
        BY <1>1, TimesAreOrdered DEF Everywhere, Times
      <4>3. x \in Vaults
        BY <4>1, <4>2 DEF Vaults
      <4> QED
        BY <4>1, <4>2, <4>3 DEF Sound
    <3>4. main \in Sound(clock, created)
      BY <3>2, <3>3
    <3>5. CASE managed
      <4>1. [main.data EXCEPT ![k] = w] \in [Keys -> Stored]
        BY <3>2 DEF Stored
      <4>2. shared = [data |-> [main.data EXCEPT ![k] = w], updated |-> Everywhere(0),
                      deleted |-> Everywhere(0), managed |-> main.managed,
                      uses |-> EmptyVault.uses]
        BY <3>2, <3>5
      <4> QED
        BY <3>2, <3>3, <3>4, <4>1, <4>2
    <3>6. CASE ~managed
      BY <1>1, <3>4, <3>6
    <3> QED
      BY <3>5, <3>6
  <2> QED
    BY <2>1, <2>2 DEF Init
<1>3. sharedState \in {"absent", "open"} /\ (sharedState = "absent" => shared = EmptyVault)
  BY DEF Init, NewVaults, UnstampedVaults
<1>4. used \in [Tokens -> 0..MaxUses + 1]
  BY MaxUsesAssumption DEF Init
<1> QED
  BY <1>1, <1>2, <1>3, <1>4
  DEF Init, Base, Scalars, SoundVaults, SharedInv, StepInv, NoChange, Steps

\* What a mirror of v stores is sound.
LEMMA MirrorStored ==
  ASSUME Base, NEW T, created \subseteq T, NEW v \in Sound(clock, T), MirrorStores(v)
  PROVE  /\ shared' \in Sound(clock, T)
         /\ sharedState # "unreadable" /\ sharedState' \in {"absent", "open"}
         /\ sharedState' = "absent" => shared' = EmptyVault
<1>1. shared \in Sound(clock, T) /\ clock \in Times
  <2>1. clock \in Times /\ clock <= clock
    BY DEF Base, Scalars, Times
  <2> QED
    BY <2>1, SoundGrows DEF Base, SoundVaults
<1>2. shared' \in Sound(clock, T)
  <2>1. CASE shared' \in {shared, v}
    BY <1>1, <2>1
  <2>2. CASE shared' = WithTokensOf(v, shared)
    BY <1>1, <2>2, KeepsTokens
  <2> QED
    BY <2>1, <2>2 DEF MirrorStores, WithTokensOf
<1> QED
  BY <1>2 DEF MirrorStores, Base, SharedInv

\* Whatever becomes of a mirror, the shared vault is sound after it.
LEMMA Mirrors ==
  ASSUME Base, NEW T, created \subseteq T, NEW v \in Sound(clock, T), MirrorShared(v)
  PROVE  /\ shared' \in Sound(clock, T) /\ SharedInv'
         /\ sharedState' \in {"absent", "open", "unreadable"}
         /\ trouble' \in {"none", "tolerated", "lossy"}
<1>1. shared \in Sound(clock, T)
  <2>1. clock \in Times /\ clock <= clock
    BY DEF Base, Scalars, Times
  <2> QED
    BY <2>1, SoundGrows DEF Base, SoundVaults
<1>2. trouble' \in {"none", "tolerated", "lossy"} /\ (trouble = "lossy" => trouble' = "lossy")
  BY DEF MirrorShared, MirrorSucceeds, MirrorFails, Worse, Base, Scalars
<1>3. CASE MirrorStores(v)
  BY <1>2, <1>3, MirrorStored DEF SharedInv
<1>4. CASE UNCHANGED <<shared, sharedState>>
  BY <1>1, <1>2, <1>4 DEF Base, Scalars, SharedInv
<1> QED
  BY <1>3, <1>4 DEF MirrorShared, MirrorSucceeds, MirrorFails

\* What an import, or skipping one, leaves.
LEMMA ImportSteps ==
  ASSUME Base, clock + 1 <= MaxTime, Import \/ ImportSkipped
  PROVE  /\ clock' \in {clock, clock + 1} /\ clock' \in Times /\ clock <= clock'
         /\ mem' \in Sound(clock', created)
         /\ imported' \in BOOLEAN /\ allowed' \in [Keys -> SUBSET Stored]
         /\ trouble' \in {"none", "tolerated", "lossy"}
         /\ trouble = "lossy" => trouble' = "lossy"
<1>1. clock \in Times /\ clock + 1 \in Times /\ clock <= clock /\ clock <= clock + 1
  BY TimeAssumption DEF Base, Scalars, Times
<1>2. CASE Import
  <2>1. ImportSharedVault(mem, shared, clock + 1) \in Sound(clock + 1, created)
    BY <1>1, Imports DEF Base, SoundVaults
  <2>2. ~ImportChanges(mem, shared) => ImportSharedVault(mem, shared, clock + 1) = mem
    BY <1>1, NothingToImport DEF Base, SoundVaults
  <2>3. mem' \in Sound(clock', created)
    BY <1>2, <2>1, <2>2 DEF Import, Base, SoundVaults
  <2>4. shared.data \in [Keys -> Stored]
    BY <1>1, SoundFields DEF Base, SoundVaults
  <2>5. allowed' \in [Keys -> SUBSET Stored]
    BY <1>2, <2>4 DEF Import, Base, Scalars
  <2> QED
    BY <1>1, <1>2, <2>3, <2>5 DEF Import, Base, Scalars
<1>3. CASE ImportSkipped
  BY <1>1, <1>3 DEF ImportSkipped, Worse, Base, Scalars, SoundVaults
<1> QED
  BY <1>2, <1>3

\* The parts of a password command that run before its own change.
LEMMA BaseOpens ==
  ASSUME Base, BeginCommand \/ ImportTokenChanges \/ CleanupExpiredTokens
  PROVE  Base'
<1>1. CASE BeginCommand
  BY <1>1 DEF BeginCommand, Goto, Base, Scalars, SoundVaults, SharedInv, StepInv, Steps,
     files, ghosts
<1>2. CASE ImportTokenChanges
  <2>1. clock + 1 <= MaxTime /\ (clock' = clock + 1 => clock' + 1 <= MaxTime)
    BY <1>2, TimeAssumption DEF ImportTokenChanges, Goto, Base, Scalars, StepInv, Times
  <2>2. /\ clock' \in {clock, clock + 1} /\ clock' \in Times /\ clock <= clock'
        /\ mem' \in Sound(clock', created)
        /\ imported' \in BOOLEAN /\ allowed' \in [Keys -> SUBSET Stored]
        /\ trouble' \in {"none", "tolerated", "lossy"}
        /\ trouble = "lossy" => trouble' = "lossy"
    BY <1>2, <2>1, ImportSteps DEF ImportTokenChanges
  <2>3. \A v \in Sound(clock, created) : v \in Sound(clock', created)
    BY <2>2, SoundGrows DEF Base, Scalars
  <2>4. SoundVaults'
    BY <1>2, <2>2, <2>3 DEF ImportTokenChanges, Base, SoundVaults, files
  <2> QED
    BY <1>2, <2>1, <2>2, <2>4
    DEF ImportTokenChanges, Goto, Base, Scalars, SharedInv, StepInv, Steps, files
<1>3. CASE CleanupExpiredTokens
  <2>1. mem' \in Sound(clock, created)
    BY <1>3, Drops DEF CleanupExpiredTokens, Base, Scalars, SoundVaults
  <2>2. /\ shared' \in Sound(clock, created) /\ SharedInv'
        /\ sharedState' \in {"absent", "open", "unreadable"}
        /\ trouble' \in {"none", "tolerated", "lossy"}
    <3>1. CASE MirrorShared(mem')
      BY <2>1, <3>1, Mirrors
    <3>2. CASE UNCHANGED <<shared, sharedState, trouble>>
      BY <3>2 DEF Base, Scalars, SoundVaults, SharedInv
    <3> QED
      BY <1>3, <3>1, <3>2 DEF CleanupExpiredTokens
  <2> QED
    BY <1>3, <2>1, <2>2
    DEF CleanupExpiredTokens, Goto, Base, Scalars, SoundVaults, StepInv, Steps
<1> QED
  BY <1>1, <1>2, <1>3

\* `set`, `import`, `delete` and `clear`.
LEMMA BaseChanges ==
  ASSUME Base, NEW S \in SUBSET Keys, NEW x \in Stored,
         \/ x \in Values /\ SetKeys(S, x)
         \/ x = Absent /\ RemoveKeys(S)
  PROVE  Base'
<1>1. /\ pc = "execute" /\ pc' = "saveAndMirror"
      /\ UNCHANGED <<files, expired, imported, revoking, created, revoked, used, trouble>>
      /\ pending' = [k \in S |-> x]
      /\ clock' = IF pending' = NoChange THEN clock ELSE clock + 1
      /\ allowed' = [k \in Keys |-> IF k \in S THEN allowed[k] \cup {x} ELSE allowed[k]]
  BY DEF SetKeys, RemoveKeys, Change, Goto
<1>2. clock \in Times /\ clock + 1 \in Times /\ clock <= clock + 1 /\ clock <= clock
  BY <1>1, TimeAssumption DEF Base, Scalars, StepInv, Times
<1>3. S = {} => pending' = NoChange
  BY <1>1 DEF NoChange
<1>4. mem \in Sound(clock, created) /\ Everywhere(x) \in [Keys -> Stored]
  BY DEF Base, SoundVaults, Everywhere
<1>5. mem' \in Sound(clock + 1, created) /\ (S = {} => mem' = mem)
  <2>1. CASE SetKeys(S, x)
    <3>1. mem' = MarkKeysUpdated([mem EXCEPT !.data = Overwrite(@, S, Everywhere(x))], S, clock + 1)
      BY <2>1 DEF SetKeys, Change
    <3> QED
      BY <1>2, <1>4, <3>1, Writes, NothingWritten, SoundFields
  <2>2. CASE x = Absent /\ RemoveKeys(S)
    <3>1. mem' = MarkKeysDeleted([mem EXCEPT !.data = Overwrite(@, S, Everywhere(x))], S, clock + 1)
      BY <2>2 DEF RemoveKeys, Change
    <3> QED
      BY <1>2, <1>4, <2>2, <3>1, Deletes, NothingWritten, SoundFields
  <2> QED
    BY <2>1, <2>2
<1>6. clock' \in {clock, clock + 1} /\ clock' \in Times /\ mem' \in Sound(clock', created)
  <2>1. CASE pending' = NoChange
    <3>1. S = {}
      <4>1. DOMAIN pending' = S /\ DOMAIN pending' = {}
        BY <1>1, <2>1 DEF NoChange
      <4> QED
        BY <4>1
    <3> QED
      BY <1>1, <1>2, <1>4, <1>5, <2>1, <3>1
  <2>2. CASE pending' # NoChange
    BY <1>1, <1>2, <1>5, <2>2
  <2> QED
    BY <2>1, <2>2
<1>7. SoundVaults'
  <2>1. \A v \in Sound(clock, created) : v \in Sound(clock', created)
    BY <1>2, <1>6, SoundGrows
  <2> QED
    BY <1>1, <1>6, <2>1 DEF Base, SoundVaults, files
<1> QED
  BY <1>1, <1>6, <1>7 DEF Base, Scalars, SharedInv, StepInv, Steps, files, NoChange

\* What else a password command may do.
LEMMA BaseExecutes ==
  ASSUME Base, \/ \E t \in Tokens : CreateToken(t) \/ RevokeToken(t)
               \/ SyncTokens \/ SaveUnchanged \/ ReadOnly \/ GiveUp
  PROVE  Base'
<1>0. clock \in Times /\ clock <= clock /\ EmptyVault \in Sound(clock, created)
  BY EmptyIsSound DEF Base, Scalars, Times
<1>1. ASSUME NEW t \in Tokens, CreateToken(t) PROVE Base'
  <2>1. mem' \in Sound(clock, created') /\ created \subseteq created' /\ created' \subseteq Tokens
    BY <1>0, <1>1, Creates DEF CreateToken, WithToken, Base, SoundVaults, Scalars
  <2>2. /\ shared' \in Sound(clock, created') /\ SharedInv'
        /\ sharedState' \in {"absent", "open", "unreadable"}
        /\ trouble' \in {"none", "tolerated", "lossy"}
    BY <1>1, <2>1, Mirrors DEF CreateToken
  <2>3. \A v \in Sound(clock, created) : v \in Sound(clock, created')
    BY <1>0, <2>1, SoundGrows
  <2> QED
    BY <1>1, <2>1, <2>2, <2>3
    DEF CreateToken, Goto, Base, Scalars, SoundVaults, StepInv, Steps
<1>2. ASSUME NEW t \in Tokens, RevokeToken(t) PROVE Base'
  <2>1. mem' \in Sound(clock, created)
    BY <1>0, <1>2, Drops DEF RevokeToken, Base, SoundVaults
  <2>2. MirrorShared(mem')
    BY <1>2 DEF RevokeToken, MirrorShared
  <2>3. /\ shared' \in Sound(clock, created) /\ SharedInv'
        /\ sharedState' \in {"absent", "open", "unreadable"}
        /\ trouble' \in {"none", "tolerated", "lossy"}
    BY <2>1, <2>2, Mirrors
  <2>4. t \in created
    BY <1>2 DEF RevokeToken, Base, SoundVaults, Sound
  <2> QED
    BY <1>2, <2>1, <2>3, <2>4
    DEF RevokeToken, Goto, Base, Scalars, SoundVaults, StepInv, Steps
<1>3. CASE SyncTokens
  <2>1. clock + 1 <= MaxTime
    BY <1>3 DEF SyncTokens, Goto, Base, StepInv
  <2>2. /\ clock' \in Times /\ clock <= clock'
        /\ mem' \in Sound(clock', created)
        /\ imported' \in BOOLEAN /\ allowed' \in [Keys -> SUBSET Stored]
        /\ trouble' \in {"none", "tolerated", "lossy"}
        /\ trouble = "lossy" => trouble' = "lossy"
    BY <1>3, <2>1, ImportSteps DEF SyncTokens
  <2>3. \A v \in Sound(clock, created) : v \in Sound(clock', created)
    BY <1>0, <2>2, SoundGrows
  <2> QED
    BY <1>3, <2>2, <2>3
    DEF SyncTokens, Goto, Base, Scalars, SoundVaults, SharedInv, StepInv, Steps, files
<1>4. CASE SaveUnchanged
  BY <1>4 DEF SaveUnchanged, Goto, Base, Scalars, SoundVaults, SharedInv, StepInv, Steps,
     files, command, ghosts
<1>5. CASE ReadOnly
  <2>1. /\ pc' \in {"save", "idle"} /\ mem' \in Sound(clock, created)
        /\ imported' \in BOOLEAN /\ pending' = NoChange /\ revoking' = {}
        /\ allowed' \in [Keys -> SUBSET Stored] /\ revoked' \subseteq created
    <3>1. pending = NoChange /\ revoking = {}
      BY <1>5 DEF ReadOnly, Goto, Base, StepInv
    <3> QED
      BY <1>0, <1>5, <3>1 DEF ReadOnly, ReturnNil, Forget, Goto, command, NoChange, Base,
         Scalars, SoundVaults
  <2>2. backups' \subseteq Sound(clock, created)
    BY <1>5 DEF ReadOnly, Base, SoundVaults
  <2> QED
    BY <1>0, <1>5, <2>1, <2>2
    DEF ReadOnly, Base, Scalars, SoundVaults, SharedInv, StepInv, Steps, NoChange
<1>6. CASE GiveUp
  BY <1>0, <1>6 DEF GiveUp, ReturnError, Forget, Base, Scalars, SoundVaults, SharedInv,
     StepInv, Steps, NoChange, files
<1> QED
  BY <1>1, <1>2, <1>3, <1>4, <1>5, <1>6

\* The end of a password command, with nil or with an error.
LEMMA BaseEnds ==
  ASSUME Base, Save \/ SaveFails \/ MirrorBack \/ Crash
  PROVE  Base'
<1>0. clock \in Times /\ clock <= clock /\ EmptyVault \in Sound(clock, created)
  BY EmptyIsSound DEF Base, Scalars, Times
<1>1. CASE Save
  <2>1. CASE pc = "save" /\ ReturnNil
    BY <1>0, <1>1, <2>1 DEF Save, ReturnNil, Forget, Base, Scalars, SoundVaults,
       SharedInv, StepInv, Steps, NoChange
  <2>2. CASE Goto("saveAndMirror", "mirror") /\ UNCHANGED <<command, allowed, revoked>>
    BY <1>1, <2>2 DEF Save, Goto, command, Base, Scalars, SoundVaults,
       SharedInv, StepInv, Steps
  <2> QED
    BY <1>1, <2>1, <2>2 DEF Save
<1>2. CASE SaveFails
  BY <1>0, <1>2 DEF SaveFails, ReturnError, Forget, Worse, Base, Scalars, SoundVaults,
     SharedInv, StepInv, Steps, NoChange, files
<1>3. CASE MirrorBack
  <2>1. /\ shared' \in Sound(clock, created) /\ SharedInv'
        /\ sharedState' \in {"absent", "open", "unreadable"}
        /\ trouble' \in {"none", "tolerated", "lossy"}
    BY <1>3, Mirrors DEF MirrorBack, Base, SoundVaults
  <2> QED
    BY <1>0, <1>3, <2>1 DEF MirrorBack, ReturnNil, Forget, Base, Scalars, SoundVaults,
       StepInv, Steps, NoChange
<1>4. CASE Crash
  <2>1. /\ main' \in Sound(clock, created) /\ shared' \in Sound(clock, created) /\ SharedInv'
        /\ sharedState' \in {"absent", "open", "unreadable"}
    <3>1. trouble' \in {"tolerated", "lossy"} /\ (trouble = "lossy" => trouble' = "lossy")
      BY <1>4 DEF Crash, Worse
    <3>2. CASE MirrorStores(mem) /\ UNCHANGED main
      BY <3>1, <3>2, MirrorStored DEF Base, SoundVaults, SharedInv
    <3>3. CASE main' \in {main, mem} /\ UNCHANGED <<shared, sharedState>>
      BY <3>1, <3>3 DEF Base, Scalars, SoundVaults, SharedInv
    <3> QED
      BY <1>4, <3>2, <3>3 DEF Crash
  <2> QED
    BY <1>0, <1>4, <2>1 DEF Crash, ReturnError, Forget, Worse, Base, Scalars, SoundVaults,
       StepInv, Steps, NoChange
<1> QED
  BY <1>1, <1>2, <1>3, <1>4

\* Token commands, and what happens between commands.
LEMMA BaseBetween ==
  ASSUME Base, TokenCommand \/ RegenerateTokenKey \/ Restore
  PROVE  Base'
<1>0. clock \in Times /\ clock <= clock
  BY DEF Base, Scalars, Times
<1>1. ASSUME NEW t \in Tokens, UseTokenRead(t) PROVE Base'
  <2>1. shared' \in Sound(clock, created)
    BY <1>0, <1>1, Uses DEF UseTokenRead, Usable, Used, Base, SoundVaults
  <2>2. used' \in [Tokens -> 0..MaxUses + 1]
    BY <1>1, MaxUsesAssumption DEF UseTokenRead, CountUse, Base, Scalars
  <2> QED
    BY <1>1, <2>1, <2>2 DEF UseTokenRead, StoredInDoubt, Worse, Usable, command, Base, Scalars,
       SoundVaults, SharedInv, StepInv
<1>2. ASSUME NEW t \in Tokens, NEW k \in Keys, NEW v \in Values, UseTokenSet(t, k, v) PROVE Base'
  <2>1. clock' \in Times /\ clock <= clock'
    BY <1>0, <1>2, TimeAssumption DEF UseTokenSet, Times
  <2>2. shared' \in Sound(clock', created)
    <3>1. shared' = Written(shared, t, k, v, clock') /\ shared.uses[t] # Gone /\ shared.uses[t] < MaxUses
      BY <1>2 DEF UseTokenSet, Usable, Written
    <3>2. v \in Stored /\ shared \in Sound(clock, created)
      BY DEF Base, SoundVaults, Stored
    <3> QED
      BY <1>0, <2>1, <3>1, <3>2, TokenWrites
  <2>3. used' \in [Tokens -> 0..MaxUses + 1]
    BY <1>2, MaxUsesAssumption DEF UseTokenSet, CountUse, Base, Scalars
  <2>4. \A x \in Sound(clock, created) : x \in Sound(clock', created)
    BY <1>0, <2>1, SoundGrows
  <2>5. allowed' \in [Keys -> SUBSET Stored]
    BY <1>2 DEF UseTokenSet, Base, Scalars, Stored
  <2> QED
    BY <1>2, <2>1, <2>2, <2>3, <2>4, <2>5
    DEF UseTokenSet, StoredInDoubt, Worse, Usable, command, Base, Scalars,
       SoundVaults, SharedInv, StepInv
<1>3. ASSUME NEW t \in Tokens, Expire(t) PROVE Base'
  BY <1>3 DEF Expire, Base, Scalars, SoundVaults, SharedInv, StepInv, files, command, ghosts
<1>4. CASE RegenerateTokenKey
  BY <1>4 DEF RegenerateTokenKey, Worse, Base, Scalars, SoundVaults, SharedInv, StepInv, command
<1>5. CASE Restore
  <2>1. allowed' \in [Keys -> SUBSET Stored]
    BY <1>5 DEF Restore, Everywhere
  <2> QED
    BY <1>5, <2>1 DEF Restore, Worse, Base, Scalars, SoundVaults, SharedInv, StepInv, command
<1> QED
  BY <1>1, <1>2, <1>3, <1>4, <1>5 DEF TokenCommand

\* Every step keeps the base invariant.
LEMMA BaseStep ==
  ASSUME Base, [Next]_vars
  PROVE  Base'
<1>1. CASE \E S \in SUBSET Keys, v \in Values : SetKeys(S, v)
  BY <1>1, BaseChanges DEF Stored
<1>2. CASE \E S \in {Present(mem)} \cup {{k} : k \in Present(mem)} : RemoveKeys(S)
  BY <1>2, BaseChanges DEF Stored, Present
<1>3. CASE UNCHANGED vars
  BY <1>3 DEF vars, files, command, ghosts, Base, Scalars, SoundVaults, SharedInv, StepInv
<1> QED
  BY <1>1, <1>2, <1>3, BaseOpens, BaseExecutes, BaseEnds, BaseBetween
  DEF Next, PasswordCommand, Execute

\* The invariant on which everything below rests.
LEMMA BaseHolds == Spec => []Base
<1>1. Base /\ [Next]_vars => Base'
  BY BaseStep
<1> QED
  BY BaseInit, <1>1, PTL DEF Spec

\* The type invariant of the vaults, the commands and the counters, for any number of
\* keys, values, tokens and uses: the clock stays within its bound because a command
\* reads it at most twice.
THEOREM TypeCorrect == Spec => []TypeOK
BY BaseHolds, BaseIsTyped, PTL

\* An import leaves nothing for the next one to do, for any vaults that can be there.
THEOREM ImportsAreComplete == Spec => []ImportSettles
<1>1. Base => ImportSettles
  <2> SUFFICES ASSUME Base, pc = "import"
               PROVE  ~ImportChanges(ImportSharedVault(mem, shared, clock + 1), shared)
    BY DEF ImportSettles
  <2> DEFINE w == ImportSharedVault(mem, shared, clock + 1)
  <2>1. /\ clock \in Times /\ clock + 1 \in Times /\ clock <= clock + 1 /\ clock + 1 <= clock + 1
        /\ mem \in Sound(clock, created) /\ shared \in Sound(clock, created)
    BY TimeAssumption DEF Base, Scalars, SoundVaults, StepInv, Times
  <2>2. ImportOf(w, mem, shared, clock + 1) /\ w \in Sound(clock + 1, created)
    BY <2>1, Imports
  <2> HIDE DEF w
  <2>3. \A k \in Keys : Settled(w, shared, k)
    BY <2>1, <2>2, ImportsSettle
  <2>4. shared \in Sound(clock + 1, created)
    BY <2>1, SoundGrows
  <2>5. ~ImportChanges(w, shared)
    BY <2>1, <2>2, <2>3, <2>4, NothingToImport
  <2> QED
    BY <2>5 DEF w
<1> QED
  BY <1>1, BaseHolds, PTL

\* The preview announces the keys an import changes, and no others.
THEOREM PreviewsAreExact == Spec => []PreviewAgrees
<1>1. Base => PreviewAgrees
  <2> SUFFICES ASSUME Base, pc = "import"
               PROVE  LET preview == PreviewSharedVault(mem, shared)
                          result  == ImportSharedVault(mem, shared, clock + 1)
                      IN preview.imports \cup preview.deletes
                           = {k \in Keys : result.data[k] # mem.data[k]}
    BY DEF PreviewAgrees
  <2> DEFINE w == ImportSharedVault(mem, shared, clock + 1)
  <2>1. /\ clock \in Times /\ clock + 1 \in Times /\ clock <= clock + 1
        /\ mem \in Sound(clock, created) /\ shared \in Sound(clock, created)
    BY TimeAssumption DEF Base, Scalars, SoundVaults, StepInv, Times
  <2>2. ImportOf(w, mem, shared, clock + 1)
    BY <2>1, Imports
  <2> HIDE DEF w
  <2>3. \A k \in Keys : w.data[k] # mem.data[k] <=> ~Settled(mem, shared, k)
    BY <2>1, <2>2, ImportsMerge
  <2>4. ImportKeys(mem, shared) \cup DeleteKeys(mem, shared) = {k \in Keys : w.data[k] # mem.data[k]}
    BY <2>3 DEF Settled, ImportKeys, DeleteKeys, Present
  <2> QED
    BY <2>4 DEF w, PreviewSharedVault
<1> QED
  BY <1>1, BaseHolds, PTL

-----------------------------------------------------------------------------
(* Tokens                                                                   *)

\* What a mirror of v makes of the tokens in the shared vault, and of its keys.
LEMMA MirrorsTokens ==
  ASSUME Base, NEW T, created \subseteq T, NEW v \in Sound(clock, T), MirrorStores(v)
  PROVE  /\ shared'.uses \in {v.uses, shared.uses}
         /\ v.managed => shared' = v
         /\ \/ ~v.managed /\ sharedState = "absent" /\ UNCHANGED <<shared, sharedState>>
            \/ shared'.data = v.data /\ shared'.updated = v.updated /\ shared'.deleted = v.deleted
<1>1. CASE ~v.managed /\ shared' = WithTokensOf(v, shared)
  <2>1. clock \in Times /\ clock <= clock
    BY DEF Base, Scalars, Times
  <2>2. shared \in Sound(clock, T)
    BY <2>1, SoundGrows DEF Base, SoundVaults
  <2>3. /\ shared'.data = v.data /\ shared'.updated = v.updated /\ shared'.deleted = v.deleted
        /\ shared'.uses = shared.uses
    BY <1>1, <2>1, <2>2, KeepsTokens
  <2> QED
    BY <1>1, <2>3
<1>2. CASE shared' = v
  BY <1>2
<1>3. CASE ~v.managed /\ sharedState = "absent" /\ UNCHANGED <<shared, sharedState>>
  BY <1>3
<1> QED
  BY <1>1, <1>2, <1>3 DEF MirrorStores, WithTokensOf

\* Imports, and changes to keys, leave the tokens alone.
LEMMA KeysOnly ==
  ASSUME Base,
         \/ clock + 1 <= MaxTime /\ (Import \/ ImportSkipped)
         \/ \E S \in SUBSET Keys, v \in Values : SetKeys(S, v)
         \/ \E S \in {Present(mem)} \cup {{k} : k \in Present(mem)} : RemoveKeys(S)
  PROVE  mem'.uses = mem.uses
<1>1. clock \in Times /\ mem \in Sound(clock, created) /\ shared \in Sound(clock, created)
  BY DEF Base, Scalars, SoundVaults
<1>2. pc = "execute" => clock + 1 <= MaxTime
  BY DEF Base, StepInv
<1>3. clock + 1 <= MaxTime => clock + 1 \in Times /\ clock <= clock + 1
  BY <1>1 DEF Times
<1>4. CASE clock + 1 <= MaxTime /\ Import
  BY <1>1, <1>3, <1>4, Imports DEF Import, ImportOf
<1>5. CASE ImportSkipped
  BY <1>5 DEF ImportSkipped
<1>6. ASSUME NEW S \in SUBSET Keys, NEW v \in Values, SetKeys(S, v)
      PROVE  mem'.uses = mem.uses
  <2>1. /\ pc = "execute" /\ Everywhere(v) \in [Keys -> Stored]
        /\ mem' = MarkKeysUpdated([mem EXCEPT !.data = Overwrite(@, S, Everywhere(v))], S, clock + 1)
    BY <1>6 DEF SetKeys, Change, Goto, Everywhere, Stored
  <2> QED
    BY <1>1, <1>2, <1>3, <2>1, Writes DEF RewrittenOf
<1>7. ASSUME NEW S \in SUBSET Keys, RemoveKeys(S)
      PROVE  mem'.uses = mem.uses
  <2>1. /\ pc = "execute"
        /\ mem' = MarkKeysDeleted([mem EXCEPT !.data = Overwrite(@, S, Everywhere(Absent))], S, clock + 1)
    BY <1>7 DEF RemoveKeys, Change, Goto
  <2> QED
    BY <1>1, <1>2, <1>3, <2>1, Deletes DEF RewrittenOf
<1> QED
  BY <1>4, <1>5, <1>6, <1>7 DEF Present

\* No step brings a revoked token back into a vault, except the restore of one.
LEMMA RevokedStep ==
  ASSUME Base, RevokedInv, [Next]_vars
  PROVE  RevokedInv'
<1>0. /\ clock \in Times /\ revoked \subseteq created /\ revoking \subseteq created
      /\ created \subseteq Tokens
      /\ mem \in Sound(clock, created) /\ shared \in Sound(clock, created)
      /\ \A t \in Tokens : EmptyVault.uses[t] = Gone
  BY DEF Base, Scalars, SoundVaults, EmptyVault
<1>1. CASE BeginCommand
  <2>1. revoking = {}
    BY <1>1 DEF BeginCommand, Goto, Base, StepInv
  <2> QED
    BY <1>1, <2>1 DEF BeginCommand, RevokedInv, files, ghosts
<1>2. CASE ImportTokenChanges \/ SyncTokens
  <2>1. clock + 1 <= MaxTime /\ (Import \/ ImportSkipped)
    BY <1>0, <1>2, TimeAssumption DEF ImportTokenChanges, SyncTokens, Goto, Base, StepInv, Times
  <2>2. mem'.uses = mem.uses
    BY <2>1, KeysOnly
  <2> QED
    BY <1>2, <2>2 DEF ImportTokenChanges, SyncTokens, RevokedInv, files
<1>3. CASE CleanupExpiredTokens
  <2>1. /\ mem' \in Sound(clock, created)
        /\ \A t \in Tokens : mem'.uses[t] \in {Gone, mem.uses[t]}
    BY <1>0, <1>3, Drops DEF CleanupExpiredTokens
  <2>2. shared' = shared \/ MirrorStores(mem')
    BY <1>3 DEF CleanupExpiredTokens, MirrorShared, MirrorSucceeds, MirrorFails
  <2>3. shared'.uses \in {mem'.uses, shared.uses}
    BY <2>1, <2>2, MirrorsTokens
  <2>4. \A t \in Tokens : mem.uses[t] = Gone /\ shared.uses[t] = Gone =>
          mem'.uses[t] = Gone /\ shared'.uses[t] = Gone
    BY <2>1, <2>3
  <2> QED
    BY <1>0, <1>3, <2>4 DEF CleanupExpiredTokens, RevokedInv
<1>4. CASE \/ \E S \in SUBSET Keys, v \in Values : SetKeys(S, v)
           \/ \E S \in {Present(mem)} \cup {{k} : k \in Present(mem)} : RemoveKeys(S)
  <2>1. mem'.uses = mem.uses
    BY <1>4, KeysOnly
  <2> QED
    BY <1>4, <2>1 DEF SetKeys, RemoveKeys, Change, RevokedInv, files
<1>5. ASSUME NEW t \in Tokens, CreateToken(t) PROVE RevokedInv'
  <2>1. /\ mem' \in Sound(clock, created \cup {t}) /\ t \notin created
        /\ \A u \in Tokens \ {t} : mem'.uses[u] = mem.uses[u]
    <3>1. t \notin created /\ mem' = WithToken(mem, t)
      BY <1>5 DEF CreateToken, WithToken
    <3>2. /\ mem' \in Sound(clock, created \cup {t})
          /\ \A u \in Tokens : mem'.uses[u] = IF u = t THEN 0 ELSE mem.uses[u]
      BY <1>0, <3>1, Creates
    <3> QED
      BY <3>1, <3>2
  <2>2. shared' = shared \/ MirrorStores(mem')
    BY <1>5 DEF CreateToken, MirrorShared, MirrorSucceeds, MirrorFails
  <2>3. shared'.uses \in {mem'.uses, shared.uses}
    BY <2>1, <2>2, MirrorsTokens
  <2> QED
    BY <1>0, <1>5, <2>1, <2>3 DEF CreateToken, RevokedInv
<1>6. ASSUME NEW t \in Tokens, RevokeToken(t) PROVE RevokedInv'
  <2>1. /\ mem' \in Sound(clock, created) /\ mem'.managed /\ mem'.uses[t] = Gone
        /\ \A u \in Tokens : mem'.uses[u] \in {Gone, mem.uses[u]}
    <3>1. mem' = DropTokens(mem, {t}) /\ mem.uses[t] # Gone
      BY <1>6 DEF RevokeToken
    <3>2. /\ mem' \in Sound(clock, created) /\ mem'.managed = mem.managed
          /\ \A u \in Tokens : mem'.uses[u] = IF u \in {t} THEN Gone ELSE mem.uses[u]
      BY <1>0, <3>1, Drops
    <3>3. mem.managed
      BY <1>0, <3>1 DEF Sound
    <3> QED
      BY <3>2, <3>3
  <2>2. CASE MirrorStores(mem') /\ revoking' \in {{t}, revoking}
    <3>1. shared' = mem'
      BY <2>1, <2>2, MirrorsTokens
    <3> QED
      BY <1>0, <1>6, <2>1, <2>2, <3>1 DEF RevokeToken, RevokedInv
  <2>3. CASE UNCHANGED <<shared, revoking>>
    BY <1>0, <1>6, <2>1, <2>3 DEF RevokeToken, RevokedInv
  <2> QED
    BY <1>6, <2>2, <2>3 DEF RevokeToken, MirrorSucceeds, MirrorFails
<1>7. CASE SaveUnchanged
  BY <1>7 DEF SaveUnchanged, RevokedInv, files, command, ghosts
<1>8. CASE ReadOnly
  BY <1>0, <1>8 DEF ReadOnly, ReturnNil, Forget, Goto, command, Base, StepInv, RevokedInv
<1>9. CASE GiveUp \/ SaveFails \/ Crash
  <2>1. /\ main' \in {main, mem} /\ (shared' = shared \/ MirrorStores(mem))
        /\ ReturnError
    BY <1>9 DEF GiveUp, SaveFails, Crash, files
  <2>2. shared'.uses \in {mem.uses, shared.uses}
    BY <1>0, <2>1, MirrorsTokens
  <2> QED
    BY <1>0, <2>1, <2>2 DEF ReturnError, Forget, RevokedInv
<1>10. CASE Save
  <2>1. CASE pc = "save" /\ ReturnNil
    BY <1>0, <1>10, <2>1 DEF Save, ReturnNil, Forget, RevokedInv
  <2>2. CASE Goto("saveAndMirror", "mirror") /\ UNCHANGED <<command, allowed, revoked>>
    BY <1>0, <1>10, <2>2 DEF Save, command, RevokedInv
  <2> QED
    BY <1>10, <2>1, <2>2 DEF Save
<1>11. CASE MirrorBack
  <2>1. shared' = shared \/ MirrorStores(mem)
    BY <1>11 DEF MirrorBack, MirrorShared, MirrorSucceeds, MirrorFails
  <2>2. shared'.uses \in {mem.uses, shared.uses}
    BY <1>0, <2>1, MirrorsTokens
  <2>3. revoking = {}
    BY <1>11 DEF MirrorBack, Base, StepInv
  <2> QED
    BY <1>0, <1>11, <2>2, <2>3 DEF MirrorBack, ReturnNil, Forget, RevokedInv
<1>12. ASSUME NEW t \in Tokens, UseTokenRead(t) PROVE RevokedInv'
  <2>1. \A u \in Tokens : shared.uses[u] = Gone => shared'.uses[u] = Gone
    BY <1>0, <1>12, Uses DEF UseTokenRead, Usable, Used
  <2> QED
    BY <1>0, <1>12, <2>1 DEF UseTokenRead, RevokedInv, command
<1>13. ASSUME NEW t \in Tokens, NEW k \in Keys, NEW v \in Values, UseTokenSet(t, k, v)
       PROVE  RevokedInv'
  <2>1. /\ shared' = Written(shared, t, k, v, clock') /\ v \in Stored
        /\ shared.uses[t] # Gone /\ shared.uses[t] < MaxUses
        /\ clock' \in Times /\ clock <= clock'
    BY <1>0, <1>13, TimeAssumption DEF UseTokenSet, Usable, Written, Stored, Times
  <2>2. \A u \in Tokens : shared.uses[u] = Gone => shared'.uses[u] = Gone
    BY <1>0, <2>1, TokenWrites
  <2> QED
    BY <1>0, <1>13, <2>2 DEF UseTokenSet, RevokedInv, command
<1>14. ASSUME NEW t \in Tokens, Expire(t) PROVE RevokedInv'
  BY <1>14 DEF Expire, RevokedInv, files, command, ghosts
<1>15. CASE RegenerateTokenKey
  BY <1>15 DEF RegenerateTokenKey, RevokedInv, command
<1>16. CASE Restore
  BY <1>16 DEF Restore, RevokedInv, command
<1>17. CASE UNCHANGED vars
  BY <1>17 DEF vars, RevokedInv, files, command, ghosts
<1> QED
  BY <1>1, <1>2, <1>3, <1>4, <1>5, <1>6, <1>7, <1>8, <1>9, <1>10, <1>11, <1>12, <1>13,
     <1>14, <1>15, <1>16, <1>17
  DEF Next, PasswordCommand, TokenCommand, Execute

\* Once a revocation is acknowledged the token is in no vault that a command could
\* save or mirror, whatever fails in whichever order, until a main vault that lists
\* it is restored.
THEOREM RevocationHolds == Spec => []RevokedStaysRevoked
<1>1. Init => RevokedInv
  BY DEF Init, RevokedInv
<1>2. Base /\ RevokedInv /\ [Next]_vars => RevokedInv'
  BY RevokedStep
<1>3. Base /\ RevokedInv => RevokedStaysRevoked
  BY DEF Base, Scalars, RevokedInv, RevokedStaysRevoked, Usable
<1> QED
  BY BaseHolds, <1>1, <1>2, <1>3, PTL DEF Spec


\* A mirror fails only where there has been trouble, or is from now on.
LEMMA MirrorTrouble ==
  ASSUME Base, NEW v, MirrorFails(v)
  PROVE  (shared' = shared \/ MirrorStores(v)) /\ trouble' # "none"
BY DEF Base, SharedInv, Scalars, MirrorFails, Worse

\* No step hands out a token that the main vault does not list, while nothing fails.
LEMMA ListedStep ==
  ASSUME Base, ListedInv, [Next]_vars
  PROVE  ListedInv'
<1>0. /\ clock \in Times /\ created \subseteq Tokens
      /\ mem \in Sound(clock, created) /\ shared \in Sound(clock, created)
  BY DEF Base, Scalars, SoundVaults
<1>1. CASE BeginCommand
  BY <1>1 DEF BeginCommand, Goto, ListedInv, files, ghosts
<1>2. CASE ImportTokenChanges \/ SyncTokens
  <2>1. clock + 1 <= MaxTime /\ (Import \/ ImportSkipped)
    BY <1>0, <1>2, TimeAssumption DEF ImportTokenChanges, SyncTokens, Goto, Base, StepInv, Times
  <2>2. mem'.uses = mem.uses
    BY <2>1, KeysOnly
  <2>3. trouble' = "none" => trouble = "none"
    BY <2>1 DEF Import, ImportSkipped, Worse
  <2>4. \/ pc = "import" /\ pc' = "cleanup"
        \/ pc = "execute" /\ pc' = "save"
    BY <1>2 DEF ImportTokenChanges, SyncTokens, Goto
  <2>5. UNCHANGED <<main, shared>>
    BY <1>2 DEF ImportTokenChanges, SyncTokens, files
  <2> QED
    BY <2>2, <2>3, <2>4, <2>5 DEF ListedInv
<1>3. CASE CleanupExpiredTokens
  <2> DEFINE stale == Stale(mem)
  <2>1. /\ mem' = DropTokens(mem, stale)
        /\ IF stale = {} THEN UNCHANGED <<shared, sharedState, trouble>> ELSE MirrorShared(mem')
        /\ main' = main /\ pc = "cleanup" /\ pc' = "execute"
    BY <1>3 DEF CleanupExpiredTokens, Goto
  <2>2. stale # {} => mem.managed
    BY <1>0 DEF Sound, Stale
  <2> HIDE DEF stale
  <2>3. /\ mem' \in Sound(clock, created) /\ mem'.managed = mem.managed
        /\ \A t \in Tokens : mem'.uses[t] = IF t \in stale THEN Gone ELSE mem.uses[t]
    BY <1>0, <2>1, Drops
  <2>4. CASE stale = {}
    BY <2>1, <2>3, <2>4 DEF ListedInv
  <2>5. CASE stale # {} /\ MirrorSucceeds(mem')
    <3>1. shared' = mem'
      BY <2>2, <2>3, <2>5, MirrorsTokens DEF MirrorSucceeds
    <3>2. \A t \in Tokens : mem'.uses[t] # Gone => mem.uses[t] # Gone
      BY <2>3
    <3> QED
      BY <2>1, <3>1, <3>2 DEF ListedInv
  <2>6. CASE stale # {} /\ MirrorFails(mem')
    <3>1. trouble' # "none"
      BY <2>6, MirrorTrouble
    <3> QED
      BY <2>1, <2>3, <3>1 DEF ListedInv
  <2> QED
    BY <2>1, <2>4, <2>5, <2>6 DEF MirrorShared
<1>4. CASE \/ \E S \in SUBSET Keys, v \in Values : SetKeys(S, v)
           \/ \E S \in {Present(mem)} \cup {{k} : k \in Present(mem)} : RemoveKeys(S)
  <2>1. mem'.uses = mem.uses
    BY <1>4, KeysOnly
  <2> QED
    BY <1>4, <2>1 DEF SetKeys, RemoveKeys, Change, Goto, ListedInv, files
<1>5. ASSUME NEW t \in Tokens, CreateToken(t) PROVE ListedInv'
  <2>1. mem' = WithToken(mem, t) /\ pc' = "save"
    BY <1>5 DEF CreateToken, WithToken, Goto
  <2>2. mem' \in Sound(clock, created \cup {t}) /\ mem'.managed
    BY <1>0, <2>1, Creates
  <2>3. MirrorSucceeds(mem') \/ MirrorFails(mem')
    BY <1>5 DEF CreateToken, MirrorShared
  <2>4. MirrorSucceeds(mem') => shared' = mem'
    BY <2>2, MirrorsTokens DEF MirrorSucceeds
  <2>5. MirrorFails(mem') => trouble' # "none"
    BY MirrorTrouble
  <2> QED
    BY <2>1, <2>3, <2>4, <2>5 DEF ListedInv
<1>6. ASSUME NEW t \in Tokens, RevokeToken(t) PROVE ListedInv'
  <2>1. mem' = DropTokens(mem, {t}) /\ mem.uses[t] # Gone /\ pc' = "save"
    BY <1>6 DEF RevokeToken, Goto
  <2>2. mem' \in Sound(clock, created) /\ mem'.managed = mem.managed
    BY <1>0, <2>1, Drops
  <2>3. mem.managed
    BY <1>0, <2>1 DEF Sound
  <2>4. MirrorSucceeds(mem') \/ MirrorFails(mem')
    BY <1>6 DEF RevokeToken
  <2>5. MirrorSucceeds(mem') => shared' = mem'
    BY <2>2, <2>3, MirrorsTokens DEF MirrorSucceeds
  <2>6. MirrorFails(mem') => trouble' # "none"
    BY MirrorTrouble
  <2> QED
    BY <2>1, <2>4, <2>5, <2>6 DEF ListedInv
<1>7. CASE SaveUnchanged
  BY <1>7 DEF SaveUnchanged, Goto, ListedInv, files, command, ghosts
<1>8. CASE ReadOnly
  <2>1. pc = "execute" /\ ((pc' = "save" /\ mem' = mem) \/ pc' = "idle")
    BY <1>8 DEF ReadOnly, ReturnNil, Goto, command
  <2>2. UNCHANGED <<main, shared, trouble>>
    BY <1>8 DEF ReadOnly
  <2> QED
    BY <2>1, <2>2 DEF ListedInv
<1>9. CASE GiveUp
  BY <1>9 DEF GiveUp, ReturnError, ListedInv, files
<1>10. CASE SaveFails \/ Crash
  <2>1. pc' = "idle" /\ trouble' # "none"
    BY <1>10 DEF SaveFails, Crash, ReturnError, Worse
  <2> QED
    BY <2>1 DEF ListedInv
<1>11. CASE Save
  <2>1. /\ main' = mem /\ UNCHANGED <<shared, trouble>> /\ pc \in {"save", "saveAndMirror"}
        /\ pc' = "idle" \/ (pc' = "mirror" /\ mem' = mem)
    BY <1>11 DEF Save, ReturnNil, Goto, command
  <2> QED
    BY <2>1 DEF ListedInv
<1>12. CASE MirrorBack
  <2>1. pc = "mirror" /\ pc' = "idle" /\ mem = main /\ main' = main
    BY <1>12 DEF MirrorBack, ReturnNil, Base, StepInv
  <2>2. CASE MirrorSucceeds(mem)
    <3>1. shared'.uses \in {mem.uses, shared.uses}
      BY <1>0, <2>2, MirrorsTokens DEF MirrorSucceeds
    <3>2. trouble' = trouble
      BY <2>2 DEF MirrorSucceeds
    <3> QED
      BY <2>1, <3>1, <3>2 DEF ListedInv
  <2>3. CASE MirrorFails(mem)
    <3>1. trouble' # "none"
      BY <2>3, MirrorTrouble
    <3> QED
      BY <2>1, <3>1 DEF ListedInv
  <2> QED
    BY <1>12, <2>2, <2>3 DEF MirrorBack, MirrorShared
<1>13. ASSUME NEW t \in Tokens, UseTokenRead(t) PROVE ListedInv'
  <2>1. \A u \in Tokens : shared.uses[u] = Gone => shared'.uses[u] = Gone
    BY <1>0, <1>13, Uses DEF UseTokenRead, Usable, Used
  <2>2. pc = "idle" /\ UNCHANGED <<main, pc>> /\ (trouble' = "none" => trouble = "none")
    BY <1>13 DEF UseTokenRead, StoredInDoubt, Worse
  <2> QED
    BY <2>1, <2>2 DEF ListedInv
<1>14. ASSUME NEW t \in Tokens, NEW k \in Keys, NEW v \in Values, UseTokenSet(t, k, v)
       PROVE  ListedInv'
  <2>1. /\ shared' = Written(shared, t, k, v, clock') /\ v \in Stored
        /\ shared.uses[t] # Gone /\ shared.uses[t] < MaxUses
        /\ clock' \in Times /\ clock <= clock'
    BY <1>0, <1>14, TimeAssumption DEF UseTokenSet, Usable, Written, Stored, Times
  <2>2. \A u \in Tokens : shared.uses[u] = Gone => shared'.uses[u] = Gone
    BY <1>0, <2>1, TokenWrites
  <2>3. pc = "idle" /\ UNCHANGED <<main, pc>> /\ (trouble' = "none" => trouble = "none")
    BY <1>14 DEF UseTokenSet, StoredInDoubt, Worse
  <2> QED
    BY <2>2, <2>3 DEF ListedInv
<1>15. ASSUME NEW t \in Tokens, Expire(t) PROVE ListedInv'
  BY <1>15 DEF Expire, ListedInv, files, command, ghosts
<1>16. CASE RegenerateTokenKey \/ Restore
  <2>1. pc = "idle" /\ pc' = "idle" /\ trouble' # "none"
    BY <1>16 DEF RegenerateTokenKey, Restore, Worse
  <2> QED
    BY <2>1 DEF ListedInv
<1>17. CASE UNCHANGED vars
  BY <1>17 DEF vars, ListedInv, files, command, ghosts
<1> QED
  BY <1>1, <1>2, <1>3, <1>4, <1>5, <1>6, <1>7, <1>8, <1>9, <1>10, <1>11, <1>12, <1>13,
     <1>14, <1>15, <1>16, <1>17
  DEF Next, PasswordCommand, TokenCommand, Execute

\* While nothing fails, the main vault lists every token that can be used: a token
\* is mirrored before the save, and only a failure comes between the two.
THEOREM TokensAreListed == Spec => []UsableTokensAreListed
<1>1. Init => ListedInv
  BY DEF Init, NewVaults, UnstampedVaults, EmptyVault, ListedInv
<1>2. Base /\ ListedInv /\ [Next]_vars => ListedInv'
  BY ListedStep
<1>3. ListedInv => UsableTokensAreListed
  BY DEF ListedInv, UsableTokensAreListed, Usable
<1> QED
  BY BaseHolds, <1>1, <1>2, <1>3, PTL DEF Spec

-----------------------------------------------------------------------------
(* Values                                                                   *)

Agree(v, w, k) ==
  v.data[k] = w.data[k] /\ v.updated[k] = w.updated[k] /\ v.deleted[k] = w.deleted[k]

\* A merge at a key looks at nothing but the key.
LEMMA MergesFields ==
  ASSUME NEW k \in Keys, NEW m, NEW n, NEW s, NEW r, Agree(m, n, k), Agree(s, r, k)
  PROVE  /\ k \in ImportKeys(m, s) <=> k \in ImportKeys(n, r)
         /\ Settled(m, s, k) <=> Settled(n, r, k)
         /\ Merged(m, s, k) = Merged(n, r, k)
<1>1. k \in ImportKeys(m, s) <=> k \in ImportKeys(n, r)
  BY DEF Agree, ImportKeys, Present, Lookup, ShouldImportSharedValue
<1>2. k \in DeleteKeys(m, s) <=> k \in DeleteKeys(n, r)
  BY DEF Agree, DeleteKeys, Present
<1> QED
  BY <1>1, <1>2 DEF Agree, Merged, Settled

\* A merge of two vaults that agree on a key settles it, and so does that of an
\* empty one.
LEMMA MergesSelf ==
  ASSUME NEW k \in Keys, NEW m, NEW c, NEW T, NEW s \in Sound(c, T),
         Agree(m, s, k) \/ s = EmptyVault
  PROVE  Settled(m, s, k)
<1>1. CASE Agree(m, s, k)
  BY <1>1 DEF Agree, Settled, ImportKeys, DeleteKeys, Present, Lookup,
     ShouldImportSharedValue, Sound
<1>2. CASE s = EmptyVault
  BY <1>2 DEF Settled, ImportKeys, DeleteKeys, Present, EmptyVault, Everywhere
<1> QED
  BY <1>1, <1>2

\* A value with the latest stamp gives way only to one that has none.
LEMMA LatestStays ==
  ASSUME NEW k \in Keys, NEW m, NEW c \in Times, c # 0, NEW T, NEW s \in Sound(c, T),
         m.updated[k] = c
  PROVE  Settled(m, s, k) \/ (k \in Present(s) /\ s.updated[k] = 0)
<1>1. s.updated[k] \in Times /\ s.deleted[k] \in Times
  BY SoundFields
<1>2. s.updated[k] <= c /\ s.deleted[k] <= c
  BY DEF Sound
<1>3. ~(s.updated[k] > c) /\ ~(s.deleted[k] > c)
  BY <1>1, <1>2 DEF Times
<1> QED
  BY <1>3 DEF Settled, ImportKeys, DeleteKeys, Present, ShouldImportSharedValue

\* What an import brings wins over what was there, for whoever compares the two.
LEMMA ImportWins ==
  ASSUME NEW k \in Keys, NEW c \in Times, NEW now \in Times, c < now, NEW T,
         NEW m \in Sound(c, T), NEW s \in Sound(c, T), NEW w, ImportOf(w, m, s, now)
  PROVE  Alike(Merged(m, w, k), w.data[k])
<1>0. m.updated[k] \in Times
  BY SoundFields
<1>a. m.updated[k] <= c
  BY DEF Sound
<1>1. now > m.updated[k] /\ now # 0
  BY <1>0, <1>a DEF Times
<1>2. CASE k \in ImportKeys(m, s)
  <2>1. w.data[k] = s.data[k] /\ w.updated[k] = now
    BY <1>2 DEF ImportOf
  <2>2. s.data[k] # Absent /\ Lookup(m, k) # Lookup(s, k)
    BY <1>2 DEF ImportKeys, Present, ShouldImportSharedValue
  <2>3. k \in ImportKeys(m, w)
    BY <1>1, <2>1, <2>2 DEF ImportKeys, Present, Lookup, ShouldImportSharedValue
  <2> QED
    BY <2>3 DEF Merged, Alike
<1>3. CASE k \in DeleteKeys(m, s)
  <2>1. w.data[k] = Absent /\ w.deleted[k] = now
    BY <1>3 DEF ImportOf
  <2>2. k \in DeleteKeys(m, w) /\ k \notin ImportKeys(m, w)
    BY <1>1, <1>3, <2>1 DEF ImportKeys, DeleteKeys, Present
  <2> QED
    BY <2>1, <2>2 DEF Merged, Alike
<1>4. CASE Settled(m, s, k)
  <2>1. Agree(w, m, k)
    BY <1>4 DEF ImportOf, Agree
  <2>2. Settled(w, m, k) /\ Merged(m, w, k) = Merged(w, m, k)
    BY <2>1, MergesSelf, MergesFields DEF Agree
  <2> QED
    BY <2>2 DEF Merged, Settled, Alike
<1> QED
  BY <1>2, <1>3, <1>4 DEF Settled

\* A value staged now is what the next import makes of the key, as far as it can be read.
LEMMA StagedWins ==
  ASSUME NEW k \in Keys, NEW c \in Times, NEW now \in Times, c < now, NEW T,
         NEW m \in Sound(c, T), NEW s, NEW x \in Values,
         s.data[k] = x, s.updated[k] = now, s.deleted[k] = 0
  PROVE  Alike(Merged(m, s, k), x)
<1>0. m.updated[k] \in Times /\ m.updated[k] <= c
  BY SoundFields DEF Sound
<1>1. now > m.updated[k] /\ x # Absent
  BY <1>0, AbsentAssumption DEF Times
<1>2. CASE Lookup(m, k) # Lookup(s, k)
  BY <1>1, <1>2 DEF ImportKeys, Present, ShouldImportSharedValue, Merged, Alike
<1>3. CASE Lookup(m, k) = Lookup(s, k)
  <2>1. Merged(m, s, k) = m.data[k]
    BY <1>3 DEF ImportKeys, DeleteKeys, ShouldImportSharedValue, Merged
  <2> QED
    BY <1>1, <1>3, <2>1 DEF Lookup, Present, Alike, Reads
<1> QED
  BY <1>2, <1>3

\* What may be there goes on being so as more may be there and trouble comes.
LEMMA HeldGrows ==
  ASSUME NEW x, NEW A, NEW B, A \subseteq B, NEW p, NEW q, q \in {p, "tolerated"},
         Held(x, A, p)
  PROVE  Held(x, B, q)
BY DEF Held

\* So does what the next command will see.
LEMMA FreshGrows ==
  ASSUME NEW m, NEW s, NEW k, NEW A, NEW B, A \subseteq B, NEW p, NEW q,
         q \in {p, "tolerated"}, Fresh(m, s, k, A, p)
  PROVE  Fresh(m, s, k, B, q)
BY HeldGrows DEF Fresh, Unstamped

\* Two values that read alike are both what may be there, or neither is.
LEMMA HeldAlike ==
  ASSUME NEW x, NEW y, Alike(y, x), NEW A, NEW p, Held(x, A, p)
  PROVE  Held(y, A, p)
BY DEF Held, Alike

\* A mirror makes the shared vault agree with the main one on every key, or leaves
\* an absent one absent.
LEMMA MirrorsKeys ==
  ASSUME Base, NEW T, created \subseteq T, NEW v \in Sound(clock, T), MirrorStores(v),
         NEW k \in Keys
  PROVE  /\ Agree(v, shared', k) \/ (shared' = shared /\ shared = EmptyVault)
         /\ shared' \in Sound(clock, T)
<1>1. Agree(v, shared', k) \/ (shared' = shared /\ shared = EmptyVault)
  BY MirrorsTokens DEF Base, SharedInv, Agree
<1> QED
  BY <1>1, MirrorStored

\* What a mirror in the middle of a command leaves to the next one, if this one goes
\* no further.
LEMMA MirrorsEarly ==
  ASSUME Base, trouble # "lossy", trouble' # "lossy", pc \in {"cleanup", "execute"},
         NEW k \in Keys, KeyInv(k),
         NEW T, created \subseteq T, NEW v \in Sound(clock, T), Agree(v, mem, k),
         MirrorShared(v) \/ UNCHANGED <<shared, trouble>>
  PROVE  /\ Fresh(main, shared', k, allowed[k], trouble')
         /\ Held(mem.data[k], allowed[k], trouble')
         /\ Settled(v, shared', k)
<1>0. /\ Fresh(main, shared, k, allowed[k], trouble)
      /\ Held(mem.data[k], allowed[k], trouble)
      /\ Alike(Merged(main, mem, k), mem.data[k])
      /\ Settled(mem, shared, k)
  BY DEF KeyInv, Base, StepInv, NoChange
<1>1. CASE shared' = shared /\ trouble' \in {trouble, "tolerated"}
  <2>1. Settled(v, shared, k)
    BY <1>0, MergesFields DEF Agree
  <2>2. Held(mem.data[k], allowed[k], trouble')
    BY <1>0, <1>1, HeldGrows
  <2>3. Fresh(main, shared, k, allowed[k], trouble')
    BY <1>0, <1>1, FreshGrows
  <2> QED
    BY <1>1, <2>1, <2>2, <2>3
<1>2. CASE MirrorStores(v) /\ Agree(v, shared', k) /\ trouble' \in {trouble, "tolerated"}
  <2>1. shared' \in Sound(clock, T)
    BY <1>2, MirrorsKeys
  <2>2. Settled(v, shared', k)
    BY <1>2, <2>1, MergesSelf
  <2>3. Merged(main, shared', k) = Merged(main, mem, k)
    <3>1. Agree(main, main, k) /\ Agree(shared', mem, k)
      BY <1>2 DEF Agree
    <3> QED
      BY <3>1, MergesFields
  <2>4. Held(mem.data[k], allowed[k], trouble')
    BY <1>0, <1>2, HeldGrows
  <2>5. Held(Merged(main, shared', k), allowed[k], trouble')
    BY <1>0, <2>3, <2>4, HeldAlike
  <2> QED
    BY <2>2, <2>4, <2>5 DEF Fresh
<1>3. MirrorStores(v) => Agree(v, shared', k) \/ shared' = shared
  BY MirrorsKeys
<1>4. trouble' \in {trouble, "tolerated"} /\ (shared' = shared \/ MirrorStores(v))
  BY DEF MirrorShared, MirrorSucceeds, MirrorFails, Worse
<1> QED
  BY <1>1, <1>2, <1>3, <1>4


\* Trouble is not forgotten.
LEMMA TroubleStays ==
  ASSUME Base, [Next]_vars, trouble' # "lossy"
  PROVE  trouble # "lossy" /\ trouble' \in {trouble, "tolerated"}
<1>0. trouble \in {"none", "tolerated", "lossy"}
  BY DEF Base, Scalars
<1>1. ASSUME Worse("tolerated")
      PROVE  trouble # "lossy" /\ trouble' \in {trouble, "tolerated"}
  BY <1>1 DEF Worse
<1>2. ASSUME Worse("lossy") PROVE FALSE
  BY <1>2 DEF Worse
<1>3. \/ UNCHANGED trouble
      \/ MirrorShared(mem) \/ MirrorShared(mem') \/ Import \/ ImportSkipped
      \/ Worse("tolerated") \/ Worse("lossy")
  <2>1. CASE PasswordCommand
    BY <2>1 DEF PasswordCommand, Execute, BeginCommand, ImportTokenChanges, CleanupExpiredTokens,
       SetKeys, RemoveKeys, Change, CreateToken, RevokeToken, SyncTokens, SaveUnchanged,
       ReadOnly, GiveUp, Save, SaveFails, MirrorBack, Crash, MirrorShared, ghosts
  <2>2. CASE TokenCommand
    BY <2>2 DEF TokenCommand, UseTokenRead, UseTokenSet, StoredInDoubt, Expire, ghosts
  <2> QED
    BY <2>1, <2>2 DEF Next, RegenerateTokenKey, Restore, vars, ghosts
<1>4. \/ UNCHANGED trouble \/ Worse("tolerated") \/ Worse("lossy")
  BY <1>3 DEF MirrorShared, MirrorSucceeds, MirrorFails, Import, ImportSkipped
<1> QED
  BY <1>1, <1>2, <1>4

\* An import brings what may be there, and the next command would take it over again.
LEMMA ValueImports ==
  ASSUME Base, ImportTokenChanges, trouble # "lossy", trouble' # "lossy",
         NEW k \in Keys, KeyInv(k)
  PROVE  /\ Fresh(main, shared, k, allowed'[k], trouble')
         /\ Held(mem'.data[k], allowed'[k], trouble')
         /\ Alike(Merged(main, mem', k), mem'.data[k])
         /\ Settled(mem', shared, k)
<1>0. /\ clock \in Times /\ clock + 1 \in Times /\ clock < clock + 1 /\ clock <= clock + 1
      /\ mem \in Sound(clock, created) /\ shared \in Sound(clock, created)
      /\ pc = "import" /\ mem = main
      /\ Fresh(main, shared, k, allowed[k], trouble)
  BY TimeAssumption DEF ImportTokenChanges, Goto, KeyInv, Base, Scalars, SoundVaults, StepInv, Times
<1>1. CASE Import
  <2>1. ImportOf(mem', main, shared, clock + 1)
    BY <1>0, <1>1, Imports DEF Import
  <2>2. mem'.data[k] = Merged(main, shared, k) /\ Settled(mem', shared, k)
    BY <1>0, <2>1, ImportsMerge, ImportsSettle
  <2>3. Alike(Merged(main, mem', k), mem'.data[k])
    BY <1>0, <2>1, ImportWins
  <2>4. /\ allowed[k] \subseteq allowed'[k] /\ trouble' = trouble
        /\ trouble # "none" /\ k \in Uncompared => shared.data[k] \in allowed'[k]
    BY <1>1 DEF Import
  <2>5. Held(mem'.data[k], allowed'[k], trouble')
    <3>1. CASE Held(Merged(main, shared, k), allowed[k], trouble)
      BY <2>2, <2>4, <3>1, HeldGrows
    <3>2. CASE Unstamped(main, shared, k, allowed[k], trouble)
      <4>1. k \notin DeleteKeys(main, shared)
        BY <1>0, <3>2 DEF Unstamped, DeleteKeys, Present, Sound
      <4>2. k \in ImportKeys(main, shared) => k \in Uncompared
        BY <1>0, <3>2 DEF Unstamped, Uncompared
      <4>3. mem'.data[k] \in allowed'[k]
        BY <2>2, <2>4, <3>2, <4>1, <4>2 DEF Unstamped, Merged
      <4> QED
        BY <4>3 DEF Held, Alike
    <3> QED
      BY <1>0, <3>1, <3>2 DEF Fresh
  <2> QED
    BY <2>2, <2>3, <2>5 DEF Fresh
<1>2. CASE ImportSkipped
  <2>1. /\ shared = EmptyVault /\ trouble' = trouble
        /\ mem' = main /\ allowed' = allowed
    BY <1>0, <1>2 DEF ImportSkipped, Worse, Base, Scalars, SharedInv
  <2>2. Settled(main, shared, k)
    BY <1>0, <2>1, MergesSelf
  <2>3. Held(main.data[k], allowed[k], trouble)
    BY <1>0, <2>1, <2>2 DEF Fresh, Settled, Merged, Unstamped, EmptyVault, Everywhere, Present
  <2>4. Settled(main, main, k)
    BY <1>0, MergesSelf DEF Agree
  <2> QED
    BY <1>0, <2>1, <2>2, <2>3, <2>4 DEF Merged, Settled, Alike
<1> QED
  BY <1>1, <1>2 DEF ImportTokenChanges


\* A change in memory is newer than what is in the files, and may be there from now on.
LEMMA ValueChanges ==
  ASSUME Base, trouble # "lossy", NEW k \in Keys, KeyInv(k),
         NEW S \in SUBSET Keys, NEW x \in Stored,
         \/ x \in Values /\ SetKeys(S, x)
         \/ x = Absent /\ RemoveKeys(S)
  PROVE  /\ Fresh(main, shared, k, allowed'[k], trouble)
         /\ Held(mem'.data[k], allowed'[k], trouble)
         /\ IF k \in DOMAIN pending' THEN Staged(mem', k, pending'[k], allowed'[k], clock')
            ELSE Settled(mem', shared, k)
<1>0. /\ pc = "execute" /\ clock \in Times /\ clock + 1 \in Times
      /\ clock <= clock + 1 /\ clock + 1 # 0
      /\ mem \in Sound(clock, created)
      /\ Fresh(main, shared, k, allowed[k], trouble)
      /\ Held(mem.data[k], allowed[k], trouble)
      /\ Settled(mem, shared, k)
  <2>1. pc = "execute"
    BY DEF SetKeys, RemoveKeys, Change, Goto
  <2> QED
    BY <2>1, TimeAssumption DEF KeyInv, Base, Scalars, SoundVaults, StepInv, NoChange, Times
<1>1. /\ pending' = [i \in S |-> x]
      /\ clock' = IF pending' = NoChange THEN clock ELSE clock + 1
      /\ allowed'[k] = IF k \in S THEN allowed[k] \cup {x} ELSE allowed[k]
  BY DEF SetKeys, RemoveKeys, Change
<1>2. allowed[k] \subseteq allowed'[k] /\ DOMAIN pending' = S /\ (k \in S => x \in allowed'[k])
  BY <1>1
<1>3. \E u \in {0, clock + 1}, d \in {0, clock + 1} :
        RewrittenOf(mem', mem, S, Everywhere(x), u, d) /\ (x # Absent => u = clock + 1)
  <2>1. CASE x \in Values /\ SetKeys(S, x)
    <3>1. /\ mem' = MarkKeysUpdated([mem EXCEPT !.data = Overwrite(@, S, Everywhere(x))], S, clock + 1)
          /\ Everywhere(x) \in [Keys -> Stored]
      BY <2>1 DEF SetKeys, Change, Everywhere
    <3>2. RewrittenOf(mem', mem, S, Everywhere(x), clock + 1, 0)
      BY <1>0, <3>1, Writes
    <3> QED
      BY <3>2
  <2>2. CASE x = Absent /\ RemoveKeys(S)
    <3>1. mem' = MarkKeysDeleted([mem EXCEPT !.data = Overwrite(@, S, Everywhere(Absent))], S, clock + 1)
      BY <2>2 DEF RemoveKeys, Change
    <3>2. RewrittenOf(mem', mem, S, Everywhere(Absent), 0, clock + 1)
      BY <1>0, <3>1, Deletes
    <3> QED
      BY <2>2, <3>2
  <2> QED
    BY <2>1, <2>2
<1>4. Fresh(main, shared, k, allowed'[k], trouble)
  BY <1>0, <1>2, FreshGrows
<1>5. CASE k \in S
  <2>1. mem'.data[k] = x /\ (x # Absent => mem'.updated[k] = clock + 1)
    BY <1>3, <1>5 DEF RewrittenOf, Everywhere
  <2>2. pending' # NoChange
    BY <1>2, <1>5 DEF NoChange
  <2>3. Staged(mem', k, pending'[k], allowed'[k], clock')
    BY <1>0, <1>1, <1>2, <1>5, <2>1, <2>2 DEF Staged
  <2>4. Held(mem'.data[k], allowed'[k], trouble)
    BY <1>2, <1>5, <2>1 DEF Held, Alike
  <2> QED
    BY <1>2, <1>4, <1>5, <2>3, <2>4
<1>6. CASE k \notin S
  <2>1. Agree(mem', mem, k) /\ Agree(shared, shared, k)
    BY <1>3, <1>6 DEF RewrittenOf, Agree
  <2>2. Settled(mem', shared, k)
    BY <1>0, <2>1, MergesFields
  <2>3. Held(mem'.data[k], allowed'[k], trouble)
    BY <1>0, <1>2, <2>1, HeldGrows DEF Agree
  <2> QED
    BY <1>2, <1>4, <1>6, <2>2, <2>3
<1> QED
  BY <1>5, <1>6

\* The change a command is about to acknowledge is what the next one will see of it,
\* unless a value without a stamp is in its way.
LEMMA LatestIsFresh ==
  ASSUME Base, NEW k \in Keys, k \in DOMAIN pending, NEW A, NEW B,
         Staged(mem, k, pending[k], A, clock), pending[k] \in B
  PROVE  Fresh(mem, shared, k, B, "tolerated")
<1>0. clock \in Times /\ shared \in Sound(clock, created)
  BY DEF Base, Scalars, SoundVaults
<1>1. CASE pending[k] = Absent
  BY <1>1 DEF Fresh, Held
<1>2. CASE pending[k] # Absent
  <2>1. mem.data[k] = pending[k] /\ mem.updated[k] = clock /\ clock # 0
    BY <1>2 DEF Staged
  <2>2. CASE Settled(mem, shared, k)
    BY <2>1, <2>2 DEF Settled, Merged, Fresh, Held, Alike
  <2>3. CASE k \in Present(shared) /\ shared.updated[k] = 0
    BY <2>1, <2>3 DEF Fresh, Unstamped
  <2> QED
    BY <1>0, <2>1, <2>2, <2>3, LatestStays
<1> QED
  BY <1>1, <1>2

\* What the next command sees of one that stored its vault and was cut off.
LEMMA ValueStored ==
  ASSUME Base, pc \in {"save", "saveAndMirror", "mirror"}, NEW k \in Keys, KeyInv(k)
  PROVE  Fresh(mem, shared, k, allowed[k], "tolerated")
<1>1. CASE k \in DOMAIN pending
  <2>1. Staged(mem, k, pending[k], allowed[k], clock)
    BY <1>1 DEF KeyInv
  <2> QED
    BY <1>1, <2>1, LatestIsFresh DEF Staged
<1>2. CASE k \notin DOMAIN pending
  <2>1. Settled(mem, shared, k) /\ Held(mem.data[k], allowed[k], trouble)
    BY <1>2 DEF KeyInv
  <2>2. Held(Merged(mem, shared, k), allowed[k], trouble)
    BY <2>1 DEF Settled, Merged
  <2> QED
    BY <2>2, HeldGrows DEF Fresh
<1> QED
  BY <1>1, <1>2

\* What the next command sees of a command that was cut off.
LEMMA ValueLost ==
  ASSUME Base, NEW k \in Keys, KeyInv(k)
  PROVE  Fresh(main, shared, k, allowed[k], "tolerated")
<1>1. CASE pc # "mirror"
  BY <1>1, FreshGrows DEF KeyInv
<1>2. CASE pc = "mirror"
  BY <1>2, ValueStored DEF Base, StepInv
<1> QED
  BY <1>1, <1>2

\* What it sees once the last mirror is stored.
LEMMA ValueShared ==
  ASSUME Base, pc = "mirror", MirrorStores(mem), NEW k \in Keys, NEW A, NEW level,
         Held(mem.data[k], A, level)
  PROVE  Fresh(main, shared', k, A, level)
<1>0. mem = main /\ main \in Sound(clock, created)
  BY DEF Base, SoundVaults, StepInv
<1>1. /\ Agree(main, shared', k) \/ (shared' = shared /\ shared = EmptyVault)
      /\ shared' \in Sound(clock, created)
  BY <1>0, MirrorsKeys
<1>2. Settled(main, shared', k)
  BY <1>1, MergesSelf
<1> QED
  BY <1>0, <1>2 DEF Fresh, Settled, Merged

\* What it sees of one that came to its end.
LEMMA ValueMirrored ==
  ASSUME Base, MirrorBack, trouble # "lossy", trouble' # "lossy", NEW k \in Keys, KeyInv(k)
  PROVE  Fresh(main, shared', k, allowed'[k], trouble')
<1>0. /\ pc = "mirror" /\ mem = main
      /\ Held(main.data[k], allowed[k], trouble)
      /\ allowed'[k] = IF k \in DOMAIN pending THEN {pending[k]} ELSE allowed[k]
      /\ k \in DOMAIN pending => Staged(mem, k, pending[k], allowed[k], clock)
  BY DEF MirrorBack, ReturnNil, KeyInv, Base, Scalars, SoundVaults, StepInv
<1>1. CASE MirrorStores(mem) /\ trouble' \in {trouble, "tolerated"}
  <2>1. Held(main.data[k], allowed'[k], trouble')
    BY <1>0, <1>1 DEF Staged, Held, Alike
  <2> QED
    BY <1>0, <1>1, <2>1, ValueShared
<1>2. CASE shared' = shared /\ trouble' = "tolerated"
  <2>1. CASE k \in DOMAIN pending
    BY <1>0, <1>2, <2>1, LatestIsFresh
  <2>2. CASE k \notin DOMAIN pending
    <3>1. Fresh(main, shared, k, allowed[k], "tolerated")
      BY ValueLost
    <3> QED
      BY <1>0, <1>2, <2>2, <3>1
  <2> QED
    BY <2>1, <2>2
<1>3. sharedState # "unreadable"
  BY DEF Base, SharedInv
<1> QED
  BY <1>1, <1>2, <1>3 DEF MirrorBack, MirrorShared, MirrorSucceeds, MirrorFails, Worse


\* No step of any command, and no failure, makes the next command see an older value.
LEMMA ValueStep ==
  ASSUME Base, ValueInv, [Next]_vars
  PROVE  ValueInv'
<1> SUFFICES ASSUME trouble' # "lossy", NEW k \in Keys PROVE KeyInv(k)'
  BY DEF ValueInv
<1>0. /\ trouble # "lossy" /\ trouble' \in {trouble, "tolerated"} /\ KeyInv(k)
      /\ clock \in Times /\ clock <= clock /\ created \subseteq Tokens
      /\ mem \in Sound(clock, created) /\ shared \in Sound(clock, created)
      /\ main \in Sound(clock, created)
      /\ pc \in {"import", "cleanup", "execute", "save"} => pending = NoChange
      /\ DOMAIN NoChange = {}
  BY TroubleStays DEF ValueInv, Base, Scalars, SoundVaults, StepInv, NoChange, Times
\* A command that is over leaves what the next one will see
<1>a. ASSUME pc' = "idle", Fresh(main', shared', k, allowed'[k], trouble') PROVE KeyInv(k)'
  BY <1>a DEF KeyInv
<1>1. CASE BeginCommand
  BY <1>0, <1>1 DEF BeginCommand, Goto, KeyInv, files, ghosts
<1>2. CASE ImportTokenChanges
  <2>1. /\ Fresh(main, shared, k, allowed'[k], trouble')
        /\ Held(mem'.data[k], allowed'[k], trouble')
        /\ Alike(Merged(main, mem', k), mem'.data[k])
        /\ Settled(mem', shared, k)
    BY <1>0, <1>2, ValueImports
  <2>2. /\ pc' = "cleanup" /\ UNCHANGED <<main, shared>> /\ pending' = NoChange
    BY <1>0, <1>2 DEF ImportTokenChanges, Goto, files
  <2> QED
    BY <1>0, <2>1, <2>2 DEF KeyInv
<1>3. CASE CleanupExpiredTokens
  <2> DEFINE stale == Stale(mem)
  <2>1. /\ mem' = DropTokens(mem, stale)
        /\ MirrorShared(mem') \/ UNCHANGED <<shared, trouble>>
        /\ pc = "cleanup" /\ pc' = "execute" /\ UNCHANGED <<main, allowed, pending>>
    BY <1>3 DEF CleanupExpiredTokens, Goto
  <2> HIDE DEF stale
  <2>2. mem' \in Sound(clock, created) /\ Agree(mem', mem, k) /\ Agree(main, main, k)
    BY <1>0, <2>1, Drops DEF Agree
  <2>3. /\ Fresh(main, shared', k, allowed[k], trouble')
        /\ Held(mem.data[k], allowed[k], trouble')
        /\ Settled(mem', shared', k)
    BY <1>0, <2>1, <2>2, MirrorsEarly
  <2>4. Merged(main, mem', k) = Merged(main, mem, k)
    BY <2>2, MergesFields
  <2>5. Alike(Merged(main, mem, k), mem.data[k])
    BY <1>0, <2>1 DEF KeyInv
  <2> QED
    BY <1>0, <2>1, <2>2, <2>3, <2>4, <2>5 DEF KeyInv, Agree
<1>4. ASSUME NEW S \in SUBSET Keys, NEW x \in Stored,
             \/ x \in Values /\ SetKeys(S, x)
             \/ x = Absent /\ RemoveKeys(S)
      PROVE  KeyInv(k)'
  <2>1. /\ Fresh(main, shared, k, allowed'[k], trouble)
        /\ Held(mem'.data[k], allowed'[k], trouble)
        /\ IF k \in DOMAIN pending' THEN Staged(mem', k, pending'[k], allowed'[k], clock')
           ELSE Settled(mem', shared, k)
    BY <1>0, <1>4, ValueChanges
  <2>2. pc' = "saveAndMirror" /\ UNCHANGED <<main, shared, trouble>>
    BY <1>4 DEF SetKeys, RemoveKeys, Change, Goto, files
  <2> QED
    BY <2>1, <2>2 DEF KeyInv
<1>5. ASSUME NEW t \in Tokens, CreateToken(t) \/ RevokeToken(t) PROVE KeyInv(k)'
  <2> DEFINE T == created \cup {t}
  <2>1. /\ mem' \in {WithToken(mem, t), DropTokens(mem, {t})} /\ MirrorShared(mem')
        /\ pc = "execute" /\ pc' = "save" /\ UNCHANGED <<main, allowed, pending>>
    BY <1>5 DEF CreateToken, RevokeToken, WithToken, MirrorShared, Goto
  <2>2. mem' \in Sound(clock, T) /\ Agree(mem', mem, k)
    <3>1. CASE mem' = WithToken(mem, t)
      <4>1. /\ mem' \in Sound(clock, created \cup {t})
            /\ mem'.data = mem.data /\ mem'.updated = mem.updated /\ mem'.deleted = mem.deleted
        BY <1>0, <3>1, Creates
      <4> QED
        BY <4>1 DEF Agree
    <3>2. CASE mem' = DropTokens(mem, {t})
      <4>1. mem' \in Sound(clock, created) /\ Agree(mem', mem, k)
        BY <1>0, <3>2, Drops DEF Agree
      <4> QED
        BY <1>0, <4>1, SoundGrows
    <3> QED
      BY <2>1, <3>1, <3>2
  <2>3. created \subseteq T
    OBVIOUS
  <2> HIDE DEF T
  <2>4. /\ Fresh(main, shared', k, allowed[k], trouble')
        /\ Held(mem.data[k], allowed[k], trouble')
        /\ Settled(mem', shared', k)
    BY <1>0, <2>1, <2>2, <2>3, MirrorsEarly
  <2> QED
    BY <1>0, <2>1, <2>2, <2>4 DEF KeyInv, Agree
<1>6. CASE SyncTokens
  <2>1. /\ pc = "execute" /\ pc' = "save" /\ UNCHANGED <<main, shared, pending>>
        /\ Import \/ ImportSkipped
    BY <1>6 DEF SyncTokens, Goto, files
  <2>2. /\ Fresh(main, shared, k, allowed[k], trouble)
        /\ Held(mem.data[k], allowed[k], trouble) /\ Settled(mem, shared, k)
    BY <1>0, <2>1 DEF KeyInv
  <2>3. mem' = mem /\ allowed[k] \subseteq allowed'[k]
    <3>1. CASE Import
      <4>1. \A i \in Keys : Settled(mem, shared, i)
        BY <1>0, <2>1 DEF ValueInv, KeyInv
      <4>2. ~ImportChanges(mem, shared)
        BY <1>0, <4>1, NothingToImport
      <4>3. clock + 1 \in Times /\ clock <= clock + 1
        BY <1>0, <2>1, TimeAssumption DEF Base, StepInv, Times
      <4>4. ImportSharedVault(mem, shared, clock + 1) = mem
        BY <1>0, <4>2, <4>3, NothingToImport
      <4> QED
        BY <3>1, <4>4 DEF Import
    <3>2. CASE ImportSkipped
      BY <3>2 DEF ImportSkipped
    <3> QED
      BY <2>1, <3>1, <3>2
  <2>4. /\ Fresh(main, shared, k, allowed'[k], trouble')
        /\ Held(mem.data[k], allowed'[k], trouble')
    BY <1>0, <2>2, <2>3, HeldGrows, FreshGrows
  <2> QED
    BY <1>0, <2>1, <2>2, <2>3, <2>4 DEF KeyInv
<1>7. CASE SaveUnchanged
  BY <1>0, <1>7 DEF SaveUnchanged, Goto, KeyInv, files, command, ghosts
<1>8. CASE ReadOnly
  <2>1. /\ pc = "execute" /\ UNCHANGED <<main, shared, trouble>>
        /\ \/ pc' = "save" /\ UNCHANGED <<mem, pending, allowed>>
           \/ pc' = "idle" /\ allowed'[k] = IF k \in DOMAIN pending THEN {pending[k]} ELSE allowed[k]
    BY <1>8 DEF ReadOnly, ReturnNil, Goto, command
  <2>2. CASE pc' = "save" /\ UNCHANGED <<mem, pending, allowed>>
    BY <1>0, <2>1, <2>2 DEF KeyInv
  <2>3. CASE pc' = "idle" /\ allowed'[k] = IF k \in DOMAIN pending THEN {pending[k]} ELSE allowed[k]
    BY <1>0, <1>a, <2>1, <2>3 DEF KeyInv
  <2> QED
    BY <2>1, <2>2, <2>3
<1>9. CASE GiveUp
  <2>1. pc = "execute" /\ pc' = "idle" /\ UNCHANGED <<main, shared, allowed, trouble>>
    BY <1>9 DEF GiveUp, ReturnError, files
  <2> QED
    BY <1>0, <1>a, <2>1 DEF KeyInv
<1>10. CASE Save
  <2>1. CASE pc = "save" /\ ReturnNil
    <3>1. /\ main' = mem /\ UNCHANGED <<shared, trouble>> /\ pc' = "idle" /\ allowed'[k] = allowed[k]
      BY <1>0, <1>10, <2>1 DEF Save, ReturnNil
    <3>2. Held(mem.data[k], allowed[k], trouble) /\ Settled(mem, shared, k)
      BY <1>0, <2>1 DEF KeyInv
    <3>3. Fresh(mem, shared, k, allowed[k], trouble)
      BY <3>2 DEF Fresh, Settled, Merged
    <3> QED
      BY <1>a, <3>1, <3>3
  <2>2. CASE Goto("saveAndMirror", "mirror") /\ UNCHANGED <<command, allowed, revoked>>
    BY <1>0, <1>10, <2>2 DEF Save, Goto, KeyInv, command
  <2> QED
    BY <1>10, <2>1, <2>2 DEF Save
<1>11. CASE SaveFails \/ Crash
  <2>1. /\ allowed' = allowed /\ pc' = "idle" /\ trouble' = "tolerated"
        /\ \/ UNCHANGED <<main, shared>>
           \/ pc \in {"save", "saveAndMirror"} /\ main' = mem /\ UNCHANGED shared
           \/ pc = "mirror" /\ MirrorStores(mem) /\ UNCHANGED main
    BY <1>0, <1>11 DEF SaveFails, Crash, ReturnError, Worse
  <2>2. CASE UNCHANGED <<main, shared>>
    BY <1>0, <1>a, <2>1, <2>2, ValueLost
  <2>3. CASE pc \in {"save", "saveAndMirror"} /\ main' = mem /\ UNCHANGED shared
    BY <1>0, <1>a, <2>1, <2>3, ValueStored
  <2>4. CASE pc = "mirror" /\ MirrorStores(mem) /\ UNCHANGED main
    <3>1. Held(mem.data[k], allowed[k], trouble')
      BY <1>0, <2>1, <2>4, HeldGrows DEF KeyInv
    <3>2. Fresh(main, shared', k, allowed[k], trouble')
      BY <2>4, <3>1, ValueShared
    <3> QED
      BY <1>a, <2>1, <2>4, <3>2
  <2> QED
    BY <2>1, <2>2, <2>3, <2>4
<1>12. CASE MirrorBack
  <2>1. Fresh(main, shared', k, allowed'[k], trouble')
    BY <1>0, <1>12, ValueMirrored
  <2>2. main' = main /\ pc' = "idle"
    BY <1>12 DEF MirrorBack, ReturnNil
  <2> QED
    BY <1>a, <2>1, <2>2
<1>13. ASSUME NEW t \in Tokens, UseTokenRead(t) PROVE KeyInv(k)'
  <2>1. /\ shared' = Used(shared, t) /\ shared.uses[t] # Gone /\ shared.uses[t] < MaxUses
        /\ pc = "idle" /\ UNCHANGED <<main, pc, allowed>>
    BY <1>13 DEF UseTokenRead, Usable, Used
  <2>2. Agree(shared', shared, k) /\ Agree(main, main, k)
    BY <1>0, <2>1, Uses DEF Agree
  <2>3. Merged(main, shared', k) = Merged(main, shared, k)
    BY <2>2, MergesFields
  <2>4. Fresh(main, shared', k, allowed[k], trouble)
    BY <1>0, <2>1, <2>2, <2>3 DEF KeyInv, Fresh, Unstamped, Agree, Present
  <2>5. Fresh(main, shared', k, allowed[k], trouble')
    BY <1>0, <2>4, FreshGrows
  <2> QED
    BY <1>a, <2>1, <2>5
<1>14. ASSUME NEW t \in Tokens, NEW i \in Keys, NEW v \in Values, UseTokenSet(t, i, v)
       PROVE  KeyInv(k)'
  <2>1. /\ shared' = Written(shared, t, i, v, clock') /\ v \in Stored
        /\ shared.uses[t] # Gone /\ shared.uses[t] < MaxUses
        /\ clock' \in Times /\ clock < clock' /\ clock <= clock'
        /\ pc = "idle" /\ UNCHANGED <<main, pc>>
        /\ k = i => v \in allowed'[k]
        /\ k # i => allowed'[k] = allowed[k]
    BY <1>0, <1>14, TimeAssumption
    DEF UseTokenSet, Usable, Written, Stored, Times, Base, Scalars
  <2>2. /\ shared'.data[i] = v /\ shared'.updated[i] = clock' /\ shared'.deleted[i] = 0
        /\ k # i => Agree(shared', shared, k)
    BY <1>0, <2>1, TokenWrites DEF Agree
  <2>3. CASE k = i
    <3>1. Alike(Merged(main, shared', k), v)
      BY <1>0, <2>1, <2>2, <2>3, StagedWins
    <3>2. Fresh(main, shared', k, allowed'[k], trouble')
      BY <2>1, <2>3, <3>1 DEF Fresh, Held, Alike
    <3> QED
      BY <1>a, <2>1, <3>2
  <2>4. CASE k # i
    <3>1. Agree(shared', shared, k) /\ Agree(main, main, k)
      BY <2>2, <2>4 DEF Agree
    <3>2. Merged(main, shared', k) = Merged(main, shared, k)
      BY <3>1, MergesFields
    <3>3. Fresh(main, shared', k, allowed[k], trouble)
      BY <1>0, <2>1, <3>1, <3>2 DEF KeyInv, Fresh, Unstamped, Agree, Present
    <3>4. Fresh(main, shared', k, allowed[k], trouble')
      BY <1>0, <3>3, FreshGrows
    <3> QED
      BY <1>a, <2>1, <2>4, <3>4
  <2> QED
    BY <2>3, <2>4
<1>15. ASSUME NEW t \in Tokens, Expire(t) PROVE KeyInv(k)'
  BY <1>0, <1>15 DEF Expire, KeyInv, files, command, ghosts
<1>16. CASE RegenerateTokenKey
  BY <1>16 DEF RegenerateTokenKey, Worse
<1>17. CASE Restore
  <2>1. pc' = "idle" /\ allowed'[k] = Stored /\ trouble' = "tolerated"
    BY <1>0, <1>17 DEF Restore, Worse, Everywhere
  <2>2. Fresh(main', shared', k, allowed'[k], trouble')
    BY <2>1 DEF Fresh, Held, Stored
  <2> QED
    BY <1>a, <2>1, <2>2
<1>18. CASE UNCHANGED vars
  BY <1>0, <1>18 DEF vars, KeyInv, files, command, ghosts
<1>19. CASE \/ \E S \in SUBSET Keys, v \in Values : SetKeys(S, v)
            \/ \E S \in {Present(mem)} \cup {{i} : i \in Present(mem)} : RemoveKeys(S)
  BY <1>4, <1>19 DEF Present, Stored
<1> QED
  BY <1>1, <1>2, <1>3, <1>5, <1>6, <1>7, <1>8, <1>9, <1>10, <1>11, <1>12, <1>13,
     <1>14, <1>15, <1>16, <1>17, <1>18, <1>19
  DEF Next, PasswordCommand, TokenCommand, Execute


\* New vaults, and those of a release before sync metadata, start with what may be there.
LEMMA ValueInit == Init => ValueInv
<1> SUFFICES ASSUME Init, NEW k \in Keys PROVE KeyInv(k)
  BY DEF ValueInv
<1>0. pc = "idle"
  BY DEF Init
<1>1. CASE NewVaults
  <2>1. Merged(main, shared, k) = Absent /\ allowed[k] = {Absent}
    BY <1>1 DEF NewVaults, EmptyVault, Everywhere, Merged, ImportKeys, DeleteKeys, Present
  <2> QED
    BY <1>0, <2>1 DEF KeyInv, Fresh, Held, Alike
<1>2. CASE UnstampedVaults
  <2> PICK v \in Values, w \in Values, i \in Keys, managed \in BOOLEAN :
             /\ main = [EmptyVault EXCEPT !.data = Everywhere(v), !.managed = managed]
             /\ shared = IF managed THEN [main EXCEPT !.data[i] = w] ELSE EmptyVault
             /\ clock = 1
             /\ allowed = [x \in Keys |-> {IF managed THEN shared.data[x] ELSE v}]
    BY <1>2 DEF UnstampedVaults
  <2>1. main = [EmptyVault EXCEPT !.data = Everywhere(v), !.managed = managed]
    OBVIOUS
  <2>2. main.data[k] = v /\ main.updated[k] = 0 /\ v # Absent /\ w # Absent
    BY <2>1, AbsentAssumption DEF EmptyVault, Everywhere
  <2>3. CASE managed
    <3>1. allowed[k] = {shared.data[k]}
      BY <2>3
    <3>2. main = [data |-> Everywhere(v), updated |-> Everywhere(0), deleted |-> Everywhere(0),
                  managed |-> managed, uses |-> EmptyVault.uses]
      BY <2>1 DEF EmptyVault
    <3>3. main.data = Everywhere(v)
      BY <3>2
    <3>4. Everywhere(v) \in [Keys -> Stored]
      BY DEF Everywhere, Stored
    <3>5. /\ main.data \in [Keys -> Stored] /\ main.managed \in BOOLEAN
          /\ main = [data |-> main.data, updated |-> Everywhere(0), deleted |-> Everywhere(0),
                     managed |-> main.managed, uses |-> EmptyVault.uses]
      BY <3>2, <3>4
    <3>6. shared = [data |-> [main.data EXCEPT ![i] = w], updated |-> Everywhere(0),
                    deleted |-> Everywhere(0), managed |-> main.managed,
                    uses |-> EmptyVault.uses]
      BY <2>3, <3>5
    <3>7. /\ shared.data = [Everywhere(v) EXCEPT ![i] = w]
          /\ shared.updated = Everywhere(0) /\ shared.deleted = Everywhere(0)
      BY ONLY <3>6, <3>3
    <3>8. shared.updated[k] = 0 /\ shared.deleted[k] = 0 /\ shared.data[k] \in {v, w}
      BY <3>7 DEF Everywhere
    <3>9. Alike(Merged(main, shared, k), shared.data[k])
      <4>1. CASE Lookup(main, k) # Lookup(shared, k)
        BY <2>2, <3>8, <4>1 DEF Merged, ImportKeys, Present, ShouldImportSharedValue, Alike
      <4>2. CASE Lookup(main, k) = Lookup(shared, k)
        <5>1. Merged(main, shared, k) = main.data[k]
          BY <3>8, <4>2 DEF Merged, ImportKeys, DeleteKeys, ShouldImportSharedValue
        <5> QED
          BY <2>2, <3>8, <4>2, <5>1 DEF Lookup, Present, Alike, Reads
      <4> QED
        BY <4>1, <4>2
    <3>10. Fresh(main, shared, k, allowed[k], trouble)
      BY <3>9, <3>1 DEF Fresh, Held, Alike
    <3> QED
      BY <1>0, <3>10 DEF KeyInv
  <2>4. CASE ~managed
    <3>1. shared = EmptyVault /\ allowed[k] = {v}
      BY <2>4
    <3>2. Merged(main, shared, k) = v
      BY <2>2, <3>1 DEF Merged, ImportKeys, DeleteKeys, Present, EmptyVault, Everywhere
    <3> QED
      BY <1>0, <3>1, <3>2 DEF KeyInv, Fresh, Held, Alike
  <2> QED
    BY <2>3, <2>4
<1> QED
  BY <1>1, <1>2 DEF Init

\* No acknowledged value is lost or replaced by an older one, whatever values are set:
\* what a command reads of every key is what it may read.
LEMMA ValuesHold == Spec => []ValueInv
<1>1. Base /\ ValueInv /\ [Next]_vars => ValueInv'
  BY ValueStep
<1> QED
  BY ValueInit, BaseHolds, <1>1, PTL DEF Spec

\* LastWriteWins for whoever cannot tell a missing key from an empty value.
LastWriteIsRead ==
  pc = "cleanup" /\ trouble = "none"
    => \A k \in Keys : \E a \in allowed[k] : Alike(a, mem.data[k])

\* The merge of master writes and token writes by timestamp loses neither, for any
\* values, the empty one included: nobody reads anything but the last acknowledged one.
THEOREM LastWritesAreRead == Spec => []LastWriteIsRead
<1>1. Base /\ ValueInv => LastWriteIsRead
  BY DEF ValueInv, KeyInv, Held, LastWriteIsRead
<1> QED
  BY <1>1, BaseHolds, ValuesHold, PTL

\* Values that read alike are the same when none of them is empty.
LEMMA AlikeIsSame ==
  ASSUME NoEmptyValue, NEW x \in Stored, NEW y \in Stored, Alike(x, y)
  PROVE  x = y
BY AbsentAssumption DEF NoEmptyValue, Stored, Alike, Reads

\* What is in a vault may be there, when no value is empty.
LEMMA HeldIsAllowed ==
  ASSUME NoEmptyValue, Base, NEW k \in Keys, Held(mem.data[k], allowed[k], trouble)
  PROVE  \/ mem.data[k] \in allowed[k]
         \/ trouble = "tolerated" /\ Absent \in allowed[k]
<1>1. mem.data[k] \in Stored /\ allowed[k] \subseteq Stored
  BY SoundFields DEF Base, SoundVaults, Scalars
<1> QED
  BY <1>1, AlikeIsSame DEF Held

\* While nothing fails, every command finds exactly the last acknowledged write or
\* delete of every key, if the values that are set are not empty.
THEOREM LastWriteHolds ==
  ASSUME NoEmptyValue
  PROVE  Spec => []LastWriteWins
<1>1. Base /\ ValueInv => LastWriteWins
  <2> SUFFICES ASSUME Base, ValueInv, pc = "cleanup", trouble = "none", NEW k \in Keys
               PROVE  mem.data[k] \in allowed[k]
    BY DEF LastWriteWins
  <2>1. Held(mem.data[k], allowed[k], trouble)
    BY DEF ValueInv, KeyInv
  <2> QED
    BY <2>1, HeldIsAllowed
<1> QED
  BY <1>1, BaseHolds, ValuesHold, PTL

\* Crashes, failed saves, failed mirrors and restores never make a command take an
\* older value for an acknowledged one, if the values that are set are not empty.
THEOREM ImportsAreFresh ==
  ASSUME NoEmptyValue
  PROVE  Spec => []NoStaleImport
<1>1. Base /\ ValueInv => NoStaleImport
  <2> SUFFICES ASSUME Base, ValueInv, pc = "cleanup", trouble # "lossy", NEW k \in Keys
               PROVE  Absent \in allowed[k] \/ mem.data[k] \in allowed[k]
    BY DEF NoStaleImport
  <2>1. Held(mem.data[k], allowed[k], trouble)
    BY DEF ValueInv, KeyInv
  <2> QED
    BY <2>1, HeldIsAllowed
<1> QED
  BY <1>1, BaseHolds, ValuesHold, PTL

-----------------------------------------------------------------------------
(* Live tokens                                                              *)

\* Trouble there was is still there.
LEMMA NoTroubleBefore ==
  ASSUME Base, [Next]_vars, trouble' = "none"
  PROVE  trouble = "none"
<1>1. trouble' # "lossy"
  OBVIOUS
<1> QED
  BY <1>1, TroubleStays

\* The uses that a mirror leaves in the shared vault.
LEMMA MirrorsUses ==
  ASSUME Base, NEW T, created \subseteq T, NEW v \in Sound(clock, T), MirrorShared(v),
         trouble' = "none"
  PROVE  /\ shared'.uses \in {v.uses, shared.uses}
         /\ v.managed => shared' = v /\ sharedState' = "open"
         /\ sharedState = "open" => sharedState' = "open"
<1>1. MirrorSucceeds(v)
  BY MirrorTrouble DEF MirrorShared
<1> QED
  BY <1>1, MirrorsTokens DEF MirrorSucceeds, MirrorStores, Base, Scalars, SharedInv

\* Vaults without uses stay so, whatever a command does to them.
LEMMA UnusedStays ==
  ASSUME Base, LiveInv, [Next]_vars
  PROVE  Unused(main') /\ Unused(mem') /\ \A v \in backups' : Unused(v)
<1>0. /\ clock \in Times /\ created \subseteq Tokens
      /\ mem \in Sound(clock, created)
      /\ Unused(main) /\ Unused(mem) /\ Unused(EmptyVault) /\ \A v \in backups : Unused(v)
  BY DEF Base, Scalars, SoundVaults, LiveInv, Unused, EmptyVault
<1>1. ASSUME UNCHANGED backups \/ backups' \in {backups, {main}},
             main' \in {main, mem} \cup backups,
             mem' \in {main, mem, EmptyVault} \/ mem'.uses = mem.uses
      PROVE  Unused(main') /\ Unused(mem') /\ \A v \in backups' : Unused(v)
  BY <1>0, <1>1 DEF Unused
<1>2. CASE ImportTokenChanges \/ SyncTokens
  <2>1. clock + 1 <= MaxTime /\ (Import \/ ImportSkipped)
    BY <1>0, <1>2, TimeAssumption DEF ImportTokenChanges, SyncTokens, Goto, Base, StepInv, Times
  <2>2. mem'.uses = mem.uses
    BY <2>1, KeysOnly
  <2> QED
    BY <1>1, <1>2, <2>2 DEF ImportTokenChanges, SyncTokens, files
<1>3. CASE \/ \E S \in SUBSET Keys, v \in Values : SetKeys(S, v)
           \/ \E S \in {Present(mem)} \cup {{k} : k \in Present(mem)} : RemoveKeys(S)
  <2>1. mem'.uses = mem.uses
    BY <1>3, KeysOnly
  <2> QED
    BY <1>1, <1>3, <2>1 DEF SetKeys, RemoveKeys, Change, files
<1>4. ASSUME NEW D, mem' = DropTokens(mem, D), UNCHANGED <<main, backups>>
      PROVE  Unused(main') /\ Unused(mem') /\ \A v \in backups' : Unused(v)
  <2>1. \A t \in Tokens : mem'.uses[t] = IF t \in D THEN Gone ELSE mem.uses[t]
    BY <1>0, <1>4, Drops
  <2> QED
    BY <1>0, <1>4, <2>1 DEF Unused
<1>5. CASE CleanupExpiredTokens
  BY <1>4, <1>5 DEF CleanupExpiredTokens
<1>6. ASSUME NEW t \in Tokens, CreateToken(t)
      PROVE  Unused(main') /\ Unused(mem') /\ \A v \in backups' : Unused(v)
  <2>1. mem' = WithToken(mem, t) /\ UNCHANGED <<main, backups>>
    BY <1>6 DEF CreateToken, WithToken
  <2>2. /\ mem' \in Sound(clock, created \cup {t})
        /\ \A u \in Tokens : mem'.uses[u] = IF u = t THEN 0 ELSE mem.uses[u]
    BY <1>0, <2>1, Creates
  <2> QED
    BY <1>0, <2>1, <2>2 DEF Unused
<1>7. ASSUME NEW t \in Tokens, RevokeToken(t)
      PROVE  Unused(main') /\ Unused(mem') /\ \A v \in backups' : Unused(v)
  BY <1>4, <1>7 DEF RevokeToken
<1>8. CASE BeginCommand \/ SaveUnchanged \/ ReadOnly \/ GiveUp \/ Save \/ SaveFails
           \/ MirrorBack \/ Crash
  BY <1>1, <1>8 DEF BeginCommand, SaveUnchanged, ReadOnly, GiveUp, Save, SaveFails,
     MirrorBack, Crash, ReturnNil, ReturnError, Forget, files, command
<1>9. CASE TokenCommand \/ RegenerateTokenKey \/ Restore \/ UNCHANGED vars
  BY <1>1, <1>9 DEF TokenCommand, UseTokenRead, UseTokenSet, Expire, RegenerateTokenKey,
     Restore, vars, files, command
<1> QED
  BY <1>2, <1>3, <1>5, <1>6, <1>7, <1>8, <1>9
  DEF Next, PasswordCommand, Execute

\* No step of any command loses a live token, or takes uses from it, while nothing fails.
LEMMA LiveStep ==
  ASSUME Base, LiveInv, [Next]_vars
  PROVE  LiveInv'
<1>0. /\ clock \in Times /\ clock <= clock /\ created \subseteq Tokens
      /\ mem \in Sound(clock, created) /\ shared \in Sound(clock, created)
      /\ used \in [Tokens -> 0..MaxUses + 1] /\ Unused(mem)
      /\ revoking # {} => pc = "save"
  BY DEF Base, Scalars, SoundVaults, StepInv, LiveInv, Times
<1> DEFINE Live(t) == t \in created /\ t \notin revoked \cup revoking \cup expired
<1> SUFFICES ASSUME trouble' = "none", NEW t \in Tokens,
                    t \in created' \ (revoked' \cup revoking' \cup expired')
             PROVE  Lives(t)'
  <2>1. created' \subseteq Tokens
    BY BaseStep DEF Base, Scalars
  <2> QED
    BY <2>1, UnusedStays DEF LiveInv
<1>b. \A u \in Tokens : Live(u) => Lives(u)
  BY <1>0, NoTroubleBefore DEF LiveInv
<1>c. \A u \in Tokens : Live(u) => mem.managed \/ pc = "idle"
  BY <1>0, <1>b DEF Sound, Gone, Lives
<1> HIDE DEF Live
\* A step that leaves the shared vault and the tokens of the others alone
<1>d. ASSUME Live(t), UNCHANGED <<shared, sharedState, used>>,
             pc' # "idle" => mem'.uses[t] = 0,
             pc' \in {"idle", "import", "cleanup", "execute"} => main'.uses[t] = 0
      PROVE  Lives(t)'
  BY <1>b, <1>d DEF Lives
<1>1. CASE BeginCommand
  <2>1. Live(t)
    BY <1>1 DEF BeginCommand, Live, ghosts
  <2> QED
    BY <1>1, <1>b, <1>d, <2>1 DEF BeginCommand, Goto, Lives, files, ghosts
<1>2. CASE ImportTokenChanges \/ SyncTokens
  <2>1. clock + 1 <= MaxTime /\ (Import \/ ImportSkipped)
    BY <1>0, <1>2, TimeAssumption DEF ImportTokenChanges, SyncTokens, Goto, Base, StepInv, Times
  <2>2. mem'.uses = mem.uses
    BY <2>1, KeysOnly
  <2>3. /\ Live(t) /\ UNCHANGED <<main, shared, sharedState, used>>
        /\ \/ pc = "import" /\ pc' = "cleanup"
           \/ pc = "execute" /\ pc' = "save"
    BY <1>2 DEF ImportTokenChanges, SyncTokens, Goto, Live, files
  <2> QED
    BY <1>b, <1>d, <2>2, <2>3 DEF Lives
<1>3. CASE CleanupExpiredTokens
  <2>1. /\ mem' = DropTokens(mem, Stale(mem))
        /\ MirrorShared(mem') \/ UNCHANGED <<shared, sharedState>>
        /\ Live(t) /\ UNCHANGED <<main, used>> /\ pc = "cleanup" /\ t \notin expired
    BY <1>3 DEF CleanupExpiredTokens, Goto, Live
  <2>2. /\ mem' \in Sound(clock, created)
        /\ mem'.uses[t] = IF t \in Stale(mem) THEN Gone ELSE mem.uses[t]
    BY <1>0, <2>1, Drops
  <2>3. mem.uses[t] = 0 /\ main.uses[t] = 0 /\ sharedState = "open" /\ shared.uses[t] \in 0..used[t]
    BY <1>b, <2>1 DEF Lives
  <2>4. t \notin Stale(mem)
    BY <2>1, <2>3, MaxUsesAssumption DEF Stale
  <2>5. sharedState' = "open" /\ shared'.uses \in {mem'.uses, shared.uses}
    BY <2>1, <2>2, <2>3, MirrorsUses
  <2> QED
    BY <1>0, <2>1, <2>2, <2>3, <2>4, <2>5 DEF Lives
<1>4. CASE \/ \E S \in SUBSET Keys, v \in Values : SetKeys(S, v)
           \/ \E S \in {Present(mem)} \cup {{k} : k \in Present(mem)} : RemoveKeys(S)
  <2>1. mem'.uses = mem.uses
    BY <1>4, KeysOnly
  <2>2. /\ Live(t) /\ UNCHANGED <<main, shared, sharedState, used>>
        /\ pc = "execute" /\ pc' = "saveAndMirror"
    BY <1>4 DEF SetKeys, RemoveKeys, Change, Goto, Live, files
  <2> QED
    BY <1>b, <1>d, <2>1, <2>2 DEF Lives
<1>5. ASSUME NEW u \in Tokens, CreateToken(u)
      PROVE  Lives(t)'
  <2>1. /\ mem' = WithToken(mem, u) /\ MirrorShared(mem')
        /\ t # u => Live(t)
        /\ UNCHANGED used /\ pc = "execute" /\ pc' = "save"
    BY <1>5 DEF CreateToken, WithToken, Goto, Live
  <2>2. /\ mem' \in Sound(clock, created \cup {u}) /\ mem'.managed
        /\ mem'.uses[t] = IF t = u THEN 0 ELSE mem.uses[t]
    BY <1>0, <2>1, Creates
  <2>3. mem'.uses[t] = 0
    BY <1>b, <2>1, <2>2 DEF Lives
  <2>4. sharedState' = "open" /\ shared' = mem'
    BY <2>1, <2>2, MirrorsUses
  <2> QED
    BY <1>0, <2>1, <2>3, <2>4 DEF Lives
<1>6. ASSUME NEW u \in Tokens, RevokeToken(u)
      PROVE  Lives(t)'
  <2>1. /\ mem' = DropTokens(mem, {u}) /\ pc = "execute" /\ pc' = "save"
        /\ UNCHANGED <<used, created, revoked, expired>>
        /\ \/ MirrorSucceeds(mem') /\ revoking' = {u}
           \/ MirrorFails(mem')
    BY <1>6 DEF RevokeToken, Goto
  <2>2. MirrorSucceeds(mem') /\ revoking' = {u}
    BY <2>1, MirrorTrouble
  <2>3. t # u /\ Live(t)
    BY <1>0, <2>1, <2>2 DEF Live
  <2>4. /\ mem' \in Sound(clock, created)
        /\ mem'.uses[t] = IF t \in {u} THEN Gone ELSE mem.uses[t]
    BY <1>0, <2>1, Drops
  <2>5. mem.uses[t] = 0 /\ sharedState = "open" /\ shared.uses[t] \in 0..used[t]
    BY <1>b, <2>1, <2>3 DEF Lives
  <2>6. sharedState' = "open" /\ shared'.uses \in {mem'.uses, shared.uses}
    BY <2>2, <2>4, <2>5, MirrorsUses DEF MirrorShared
  <2> QED
    BY <1>0, <2>1, <2>3, <2>4, <2>5, <2>6 DEF Lives
<1>7. CASE SaveUnchanged \/ ReadOnly \/ GiveUp
  <2>1. /\ Live(t) /\ UNCHANGED <<main, shared, sharedState, used>>
        /\ pc = "execute" /\ (pc' = "idle" \/ (pc' = "save" /\ mem' = mem))
    BY <1>0, <1>7 DEF SaveUnchanged, ReadOnly, GiveUp, ReturnNil, ReturnError, Forget, Goto,
       Live, files, command, ghosts
  <2> QED
    BY <1>b, <1>d, <2>1 DEF Lives
<1>8. CASE Save
  <2>1. /\ Live(t) /\ main' = mem /\ UNCHANGED <<shared, sharedState, used>>
        /\ pc \in {"save", "saveAndMirror"}
        /\ pc' = "idle" \/ (pc' = "mirror" /\ mem' = mem)
    BY <1>8 DEF Save, ReturnNil, Forget, Goto, Live, command
  <2> QED
    BY <1>b, <1>d, <2>1 DEF Lives
<1>9. CASE SaveFails \/ Crash
  BY <1>9 DEF SaveFails, Crash, Worse
<1>10. CASE MirrorBack
  <2>1. /\ Live(t) /\ pc = "mirror" /\ pc' = "idle" /\ main = mem /\ UNCHANGED <<main, used>>
        /\ MirrorShared(mem)
    BY <1>10 DEF MirrorBack, ReturnNil, Forget, Live, Base, StepInv
  <2>2. mem.uses[t] = 0 /\ sharedState = "open" /\ shared.uses[t] \in 0..used[t]
    BY <1>b, <2>1 DEF Lives
  <2>3. sharedState' = "open" /\ shared'.uses \in {mem.uses, shared.uses}
    BY <1>0, <2>1, <2>2, MirrorsUses
  <2> QED
    BY <1>0, <2>1, <2>2, <2>3 DEF Lives
<1>11. ASSUME NEW u \in Tokens, Usable(u), CountUse(u), pc = "idle", UNCHANGED <<main, sharedState, pc>>,
              Live(t), shared'.uses[t] = IF t = u THEN shared.uses[t] + 1 ELSE shared.uses[t]
       PROVE  Lives(t)'
  <2>1. sharedState = "open" /\ shared.uses[t] \in 0..used[t] /\ main.uses[t] = 0
    BY <1>11, <1>b DEF Lives
  <2>2. t = u => shared.uses[t] < MaxUses
    BY <1>11 DEF Usable
  <2>3. used'[t] = IF t = u /\ used[t] <= MaxUses THEN used[t] + 1 ELSE used[t]
    BY <1>0, <1>11, MaxUsesAssumption DEF CountUse
  <2>4. shared'.uses[t] \in 0..used'[t]
    BY <1>0, <1>11, <2>1, <2>2, <2>3, MaxUsesAssumption
  <2> QED
    BY <1>11, <2>1, <2>4 DEF Lives
<1>12. ASSUME NEW u \in Tokens, UseTokenRead(u)
       PROVE  Lives(t)'
  <2>1. /\ shared' = Used(shared, u) /\ Usable(u) /\ CountUse(u) /\ pc = "idle"
        /\ UNCHANGED <<main, sharedState, pc>> /\ Live(t)
    BY <1>12 DEF UseTokenRead, StoredInDoubt, Worse, Used, Live, command
  <2>2. shared'.uses[t] = IF t = u THEN shared.uses[t] + 1 ELSE shared.uses[t]
    BY <1>0, <2>1, Uses DEF Usable
  <2> QED
    BY <1>11, <2>1, <2>2
<1>13. ASSUME NEW u \in Tokens, NEW k \in Keys, NEW v \in Values, UseTokenSet(u, k, v)
       PROVE  Lives(t)'
  <2>1. /\ shared' = Written(shared, u, k, v, clock') /\ v \in Stored
        /\ Usable(u) /\ CountUse(u) /\ pc = "idle"
        /\ UNCHANGED <<main, sharedState, pc>> /\ Live(t)
        /\ clock' \in Times /\ clock <= clock'
    BY <1>0, <1>13, TimeAssumption
    DEF UseTokenSet, StoredInDoubt, Worse, Written, Live, Stored, Times, command
  <2>2. shared'.uses[t] = IF t = u THEN shared.uses[t] + 1 ELSE shared.uses[t]
    BY <1>0, <2>1, TokenWrites DEF Usable
  <2> QED
    BY <1>11, <2>1, <2>2
<1>14. ASSUME NEW u \in Tokens, Expire(u)
       PROVE  Lives(t)'
  <2>1. Live(t) /\ UNCHANGED <<main, mem, shared, sharedState, used, pc>>
    BY <1>14 DEF Expire, Live, files, command, ghosts
  <2> QED
    BY <1>b, <1>d, <2>1 DEF Lives
<1>15. CASE RegenerateTokenKey \/ Restore
  BY <1>15 DEF RegenerateTokenKey, Restore, Worse
<1>16. CASE UNCHANGED vars
  <2>1. Live(t) /\ UNCHANGED <<main, mem, shared, sharedState, used, pc>>
    BY <1>16 DEF vars, Live, files, command, ghosts
  <2> QED
    BY <1>b, <1>d, <2>1 DEF Lives
<1> QED
  BY <1>1, <1>2, <1>3, <1>4, <1>5, <1>6, <1>7, <1>8, <1>9, <1>10, <1>12, <1>13, <1>14,
     <1>15, <1>16
  DEF Next, PasswordCommand, TokenCommand, Execute

\* While nothing fails, a token that was handed out stays usable until it expires, is
\* revoked or has had its uses, whatever commands run in between.
THEOREM LiveTokensStay == Spec => []LiveTokensAreUsable
<1>1. Init => LiveInv
  <2> SUFFICES ASSUME Init PROVE LiveInv
    OBVIOUS
  <2>1. Unused(EmptyVault) /\ main.uses = EmptyVault.uses
    BY DEF Init, NewVaults, UnstampedVaults, EmptyVault, Unused
  <2>2. Unused(main) /\ mem = EmptyVault /\ backups = {} /\ created = {}
    BY <2>1 DEF Init, Unused
  <2> QED
    BY <2>1, <2>2 DEF LiveInv
<1>2. Base /\ LiveInv /\ [Next]_vars => LiveInv'
  BY LiveStep
<1>3. Base /\ LiveInv => LiveTokensAreUsable
  <2> SUFFICES ASSUME Base, LiveInv, pc = "idle", trouble = "none",
                      NEW t \in created \ (revoked \cup expired), used[t] < MaxUses
               PROVE  Usable(t)
    BY DEF LiveTokensAreUsable
  <2>1. t \in Tokens /\ revoking = {} /\ used[t] \in 0..MaxUses + 1 /\ shared \in Sound(clock, created)
    BY DEF Base, Scalars, SoundVaults, StepInv
  <2>2. sharedState = "open" /\ shared.uses[t] \in 0..used[t]
    BY <2>1 DEF LiveInv, Lives
  <2>3. shared.uses[t] # Gone /\ shared.uses[t] < MaxUses
    BY <2>1, <2>2, MaxUsesAssumption DEF Gone
  <2>4. shared.managed
    BY <2>1, <2>3 DEF Sound
  <2> QED
    BY <2>2, <2>3, <2>4 DEF Usable
<1> QED
  BY BaseHolds, <1>1, <1>2, <1>3, PTL DEF Spec

-----------------------------------------------------------------------------
(* Numbers and functions                                                    *)

\* A set of numbers that is not empty has a least member, and with it
LEMMA Least ==
  ASSUME NEW T \in SUBSET Nat, T # {}
  PROVE  \E x \in T : \A y \in T : x <= y
<1> DEFINE R == {ss \in Nat \X Nat : ss[1] < ss[2]}
<1>1. IsWellFoundedOn(R, Nat)
  BY NatLessThanWellFounded DEF OpToRel
<1>2. \E x \in T : \A y \in T : ~(<<y, x>> \in R)
  <2> HIDE DEF R
  <2> QED BY <1>1, WFMin, Zenon
<1>3. PICK x \in T : \A y \in T : ~(<<y, x>> \in R)
  BY <1>2
<1>4. \A y \in T : ~(y < x)
  BY <1>3
<1> QED BY <1>4

\* induction,
LEMMA Induction ==
  ASSUME NEW S, 0 \in S, \A n \in Nat : n \in S => n + 1 \in S
  PROVE  \A n \in Nat : n \in S
<1> SUFFICES ASSUME Nat \ S # {} PROVE FALSE
  OBVIOUS
<1>1. PICK x \in Nat \ S : \A y \in Nat \ S : x <= y
  BY Least
<1>2. x # 0 /\ x - 1 \in Nat /\ ~(x <= x - 1)
  BY <1>1
<1> QED BY <1>1, <1>2

\* induction up to a bound: this is how the loops below are followed.
LEMMA UpTo ==
  ASSUME NEW N \in Nat, NEW S, 0 \in S, \A n \in 1..N : n - 1 \in S => n \in S
  PROVE  0..N \subseteq S
<1> DEFINE T == {n \in Nat : n <= N => n \in S}
<1>1. 0 \in T
  OBVIOUS
<1>2. ASSUME NEW n \in Nat, n \in T PROVE n + 1 \in T
  <2>1. (n + 1) - 1 = n /\ n + 1 \in Nat
    OBVIOUS
  <2>2. CASE n + 1 <= N
    <3>1. n + 1 \in 1..N /\ n \in S
      BY <1>2, <2>2
    <3>2. n + 1 \in S
      BY <2>1, <3>1
    <3> QED BY <2>1, <3>2
  <2> QED BY <2>1, <2>2
<1>3. \A n \in Nat : n \in T
  <2> HIDE DEF T
  <2> QED BY <1>1, <1>2, Induction
<1> QED BY <1>3

\* G[n] says from the values of f below n what f[n] is
Guarded(N, D, G) ==
  /\ D # {} /\ G \in [0..N -> [[0..N -> D] -> D]]
  /\ \A n \in 0..N : \A f, g \in [0..N -> D] :
       (\A m \in 0..N : m < n => f[m] = g[m]) => G[n][f] = G[n][g]
Unfolds(f, N, D, G) == f \in [0..N -> D] /\ \A n \in 0..N : f[n] = G[n][f]

\* A function whose value at each number is given by those below it exists.
LEMMA Unfolding ==
  ASSUME NEW N \in Nat, NEW D, NEW G, Guarded(N, D, G)
  PROVE  \E f : Unfolds(f, N, D, G)
<1>0. /\ D # {} /\ G \in [0..N -> [[0..N -> D] -> D]]
      /\ \A n \in 0..N : \A f, g \in [0..N -> D] :
           (\A m \in 0..N : m < n => f[m] = g[m]) => G[n][f] = G[n][g]
  BY Zenon DEF Guarded
<1> DEFINE Upto(f, n) == \A m \in 0..N : m <= n => f[m] = G[m][f]
           S == {n \in 0..N : \E f \in [0..N -> D] : Upto(f, n)}
<1>1. ASSUME NEW n \in 0..N, NEW f \in [0..N -> D], \A m \in 0..N : m < n => f[m] = G[m][f]
      PROVE  \E g \in [0..N -> D] : Upto(g, n)
  <2> DEFINE g == [f EXCEPT ![n] = G[n][f]]
  <2>1. G[n][f] \in D
    BY <1>0
  <2>2. g \in [0..N -> D] /\ g[n] = G[n][f] /\ \A m \in 0..N : m # n => g[m] = f[m]
    BY <2>1
  <2> HIDE DEF g
  <2>3. ASSUME NEW m \in 0..N, m <= n PROVE g[m] = G[m][g]
    <3>1. \A i \in 0..N : i < m => f[i] = g[i]
      BY <2>2, <2>3
    <3>2. G[m][f] = G[m][g]
      BY <1>0, <2>2, <3>1
    <3>3. g[m] = G[m][f]
      BY <1>1, <2>2, <2>3
    <3> QED BY <3>2, <3>3
  <2>4. Upto(g, n)
    BY <2>3
  <2> HIDE DEF Upto
  <2> QED BY <2>2, <2>4
<1>2. 0 \in S
  <2>1. PICK d \in D : TRUE
    BY <1>0
  <2> DEFINE f == [m \in 0..N |-> d]
  <2>2. f \in [0..N -> D] /\ 0 \in 0..N /\ \A m \in 0..N : m < 0 => f[m] = G[m][f]
    OBVIOUS
  <2>3. \E g \in [0..N -> D] : Upto(g, 0)
    <3> HIDE DEF Upto, f
    <3> QED BY <1>1, <2>2
  <2> HIDE DEF Upto
  <2> QED BY <2>3
<1>3. ASSUME NEW n \in 1..N, n - 1 \in S PROVE n \in S
  <2>1. PICK f \in [0..N -> D] : Upto(f, n - 1)
    BY <1>3
  <2>2. \A m \in 0..N : m < n => f[m] = G[m][f]
    BY <2>1
  <2>3. \E g \in [0..N -> D] : Upto(g, n)
    <3> HIDE DEF Upto
    <3> QED BY <1>1, <2>2
  <2> HIDE DEF Upto
  <2> QED BY <2>3
<1>4. 0..N \subseteq S
  <2> HIDE DEF S
  <2> QED BY <1>2, <1>3, UpTo
<1>5. PICK f \in [0..N -> D] : Upto(f, N)
  <2>1. N \in 0..N
    OBVIOUS
  <2> HIDE DEF Upto
  <2> QED BY <1>4, <2>1
<1>6. \A n \in 0..N : f[n] = G[n][f]
  <2>1. \A n \in 0..N : n <= N
    OBVIOUS
  <2> QED BY <1>5, <2>1
<1>7. Unfolds(f, N, D, G)
  BY <1>5, <1>6 DEF Unfolds
<1> QED BY <1>7, Zenon

-----------------------------------------------------------------------------
(* The parts of a text                                                      *)

\* g[n] is what Split makes of the first n symbols of text
Splits(S, text, sep, g) ==
  /\ g \in [0..Len(text) -> Seq(Seq(S))]
  /\ g[0] = << <<>> >>
  /\ \A n \in 1..Len(text) : g[n] = SplitSymbol(g[n - 1], text[n], sep)
  /\ Split(text, sep) = g[Len(text)]

\* Split is the end of such a run.
LEMMA Splitting ==
  ASSUME NEW S, NEW text \in Seq(S), NEW sep
  PROVE  \E g : Splits(S, text, sep, g)
<1> DEFINE N == Len(text)
           D == Seq(Seq(S))
           Body(f, n) == IF n = 0 THEN << <<>> >> ELSE SplitSymbol(f[n - 1], text[n], sep)
           G == [n \in 0..N |-> [f \in [0..N -> D] |-> Body(f, n)]]
           Is(f) == f = [n \in 0..N |-> Body(f, n)]
<1>1. N \in Nat /\ << <<>> >> \in D /\ \A n \in 1..N : n - 1 \in 0..N /\ text[n] \in S
  OBVIOUS
<1>2. ASSUME NEW parts \in D, NEW c \in S PROVE SplitSymbol(parts, c, sep) \in D
  <2>1. CASE c = sep
    BY <2>1 DEF SplitSymbol
  <2>2. CASE c # sep /\ Len(parts) \in DOMAIN parts
    <3>1. Append(parts[Len(parts)], c) \in Seq(S)
      BY <2>2
    <3> QED BY <2>2, <3>1 DEF SplitSymbol
  <2>3. CASE c # sep /\ Len(parts) \notin DOMAIN parts
    <3>1. SplitSymbol(parts, c, sep) = parts
      BY <2>3 DEF SplitSymbol
    <3> QED BY <3>1
  <2> QED BY <2>1, <2>2, <2>3
<1>3. \A n \in 0..N, f \in [0..N -> D] : Body(f, n) \in D
  <2> HIDE DEF D, N
  <2> QED BY <1>1, <1>2
<1>4. G \in [0..N -> [[0..N -> D] -> D]]
  <2> HIDE DEF D, N, Body
  <2> QED BY <1>3
<1>5. ASSUME NEW n \in 0..N, NEW f \in [0..N -> D], NEW g \in [0..N -> D],
             \A m \in 0..N : m < n => f[m] = g[m]
      PROVE  G[n][f] = G[n][g]
  <2>1. n # 0 => f[n - 1] = g[n - 1]
    <3> HIDE DEF D, N
    <3> QED BY <1>1, <1>5
  <2>2. Body(f, n) = Body(g, n)
    BY <2>1
  <2> HIDE DEF D, N, Body
  <2> QED BY <2>2
<1>6. PICK f : Unfolds(f, N, D, G)
  <2>1. D # {}
    BY <1>1
  <2>2. Guarded(N, D, G)
    <3> HIDE DEF D, N, G
    <3> QED BY <1>4, <1>5, <2>1 DEF Guarded
  <2> HIDE DEF D, N, G
  <2> QED BY <1>1, <2>2, Unfolding
<1>7. f \in [0..N -> D] /\ \A n \in 0..N : f[n] = Body(f, n)
  <2> HIDE DEF D, N, Body
  <2> QED BY <1>6 DEF Unfolds
<1>8. Is(f)
  <2> HIDE DEF D, N, Body
  <2> QED BY <1>7
<1> DEFINE h == CHOOSE h : Is(h)
<1>9. Is(h)
  BY <1>8, Zenon
<1>10. Split(text, sep) = h[N]
  BY DEF Split
<1> HIDE DEF h
<1>11. f[0] = << <<>> >> /\ \A n \in 1..N : f[n] = SplitSymbol(f[n - 1], text[n], sep)
  <2> HIDE DEF D, N, h
  <2> QED BY <1>1, <1>7
<1>12. h[N] = f[N]
  <2> DEFINE U == {n \in 0..N : h[n] = f[n]}
  <2> HIDE DEF D, N, h
  <2>1. \A n \in 0..N : h[n] = Body(h, n)
    BY <1>9
  <2>2. 0 \in U
    BY <1>1, <1>11, <2>1
  <2>3. ASSUME NEW n \in 1..N, n - 1 \in U PROVE n \in U
    <3>1. h[n] = SplitSymbol(h[n - 1], text[n], sep)
      BY <1>1, <2>1
    <3>2. h[n] = f[n]
      BY <1>11, <2>3, <3>1
    <3> QED BY <3>2
  <2>4. 0..N \subseteq U
    <3> HIDE DEF U
    <3> QED BY <1>1, <2>2, <2>3, UpTo
  <2> QED BY <1>1, <2>4
<1>13. Splits(S, text, sep, f)
  <2> HIDE DEF h
  <2> QED BY <1>7, <1>10, <1>11, <1>12 DEF Splits
<1> QED BY <1>13, Zenon

\* Avoids(text, c): c is none of the symbols of text
Avoids(text, c) == \A i \in DOMAIN text : text[i] # c

\* The empty text has one part, which is empty.
LEMMA SplitEmpty ==
  ASSUME NEW sep
  PROVE  Split(<<>>, sep) = << <<>> >>
<1>1. <<>> \in Seq(STRING) /\ Len(<<>>) = 0
  OBVIOUS
<1>2. PICK g : Splits(STRING, <<>>, sep, g)
  BY <1>1, Splitting, Zenon
<1> QED BY <1>1, <1>2 DEF Splits

\* A symbol at the end of a text ends its last part or makes it longer.
LEMMA SplitAppend ==
  ASSUME NEW S, NEW text \in Seq(S), NEW c \in S, NEW sep
  PROVE  Split(Append(text, c), sep) = SplitSymbol(Split(text, sep), c, sep)
<1> DEFINE N == Len(text)
           longer == Append(text, c)
<1>1. /\ N \in Nat /\ longer \in Seq(S) /\ Len(longer) = N + 1 /\ longer[N + 1] = c
      /\ \A n \in 1..N : longer[n] = text[n]
  OBVIOUS
<1>2. PICK f : Splits(S, text, sep, f)
  BY Splitting
<1>3. PICK g : Splits(S, longer, sep, g)
  <2> HIDE DEF longer
  <2> QED BY <1>1, Splitting
<1>4. /\ f[0] = << <<>> >> /\ \A n \in 1..N : f[n] = SplitSymbol(f[n - 1], text[n], sep)
      /\ Split(text, sep) = f[N]
  BY <1>2 DEF Splits
<1>5. /\ g[0] = << <<>> >>
      /\ \A n \in 1..Len(longer) : g[n] = SplitSymbol(g[n - 1], longer[n], sep)
      /\ Split(longer, sep) = g[Len(longer)]
  <2> HIDE DEF longer
  <2> QED BY <1>3 DEF Splits
<1> DEFINE U == {n \in 0..N : g[n] = f[n]}
<1> HIDE DEF N, longer
<1>6. 0 \in U
  <2>1. 0 \in 0..N /\ g[0] = f[0]
    BY <1>1, <1>4, <1>5
  <2> QED BY <2>1
<1>7. ASSUME NEW n \in 1..N, n - 1 \in U PROVE n \in U
  <2>1. n \in 1..Len(longer) /\ longer[n] = text[n]
    BY <1>1
  <2>2. g[n] = f[n]
    BY <1>4, <1>5, <1>7, <2>1
  <2> QED BY <1>1, <2>2
<1>8. 0..N \subseteq U
  <2> HIDE DEF U
  <2> QED BY <1>1, <1>6, <1>7, UpTo
<1>9. g[N] = f[N]
  BY <1>1, <1>8
<1>10. N + 1 \in 1..Len(longer) /\ (N + 1) - 1 = N
  BY <1>1
<1>11. g[N + 1] = SplitSymbol(g[N], c, sep)
  BY <1>1, <1>5, <1>10
<1>12. Split(longer, sep) = SplitSymbol(Split(text, sep), c, sep)
  BY <1>1, <1>4, <1>5, <1>9, <1>11
<1> QED BY <1>12 DEF longer

\* Split(text, sep) is a sequence of texts.
LEMMA SplitType ==
  ASSUME NEW S, NEW text \in Seq(S), NEW sep
  PROVE  Split(text, sep) \in Seq(Seq(S))
<1>1. PICK g : Splits(S, text, sep, g)
  BY Splitting
<1> QED BY <1>1 DEF Splits

\* The last part made longer by field
Lengthen(parts, field) == [parts EXCEPT ![Len(parts)] = @ \o field]

\* A field without separators goes to the last part.
LEMMA SplitField ==
  ASSUME NEW S, NEW text \in Seq(S), NEW sep, NEW field \in Seq(S), Avoids(field, sep),
         NEW parts, parts = Split(text, sep), parts # <<>>
  PROVE  Split(text \o field, sep) = Lengthen(parts, field)
<1> DEFINE L == Len(parts)
           N == Len(field)
           F(d) == SubSeq(field, 1, d)
           With(d) == [parts EXCEPT ![L] = parts[L] \o F(d)]
           U == {d \in 0..N : Split(text \o F(d), sep) = With(d)}
<1>1. parts \in Seq(Seq(S)) /\ parts # <<>> /\ N \in Nat /\ \A d \in 1..N : field[d] \in S
  BY SplitType
<1>2. L \in Nat \ {0} /\ L \in DOMAIN parts /\ parts[L] \in Seq(S)
  BY <1>1
<1>3. /\ F(0) = <<>> /\ F(N) = field /\ \A d \in 0..N : F(d) \in Seq(S)
      /\ \A d \in 1..N : F(d) = Append(F(d - 1), field[d])
  <2>1. F(0) = <<>> /\ F(N) = field /\ \A d \in 0..N : F(d) \in Seq(S)
    BY <1>1
  <2>2. ASSUME NEW d \in 1..N PROVE F(d) = Append(F(d - 1), field[d])
    BY <1>1
  <2> QED BY <2>1, <2>2
<1> HIDE DEF L, N, F
<1>4. 0 \in U
  <2>1. text \o F(0) = text /\ parts[L] \o F(0) = parts[L]
    BY <1>2, <1>3
  <2>2. With(0) = parts
    BY <1>1, <1>2, <2>1
  <2>3. Split(text \o F(0), sep) = With(0)
    BY <2>1, <2>2
  <2> QED BY <1>1, <2>3
<1>5. ASSUME NEW d \in 1..N, d - 1 \in U PROVE d \in U
  <2>1. d - 1 \in 0..N /\ d \in 0..N /\ field[d] \in S /\ field[d] # sep
    BY <1>1 DEF Avoids, N
  <2>2. F(d - 1) \in Seq(S) /\ F(d) = Append(F(d - 1), field[d])
    BY <1>3, <2>1
  <2>3. text \o F(d) = Append(text \o F(d - 1), field[d]) /\ text \o F(d - 1) \in Seq(S)
    BY <2>1, <2>2
  <2>4. parts[L] \o F(d) = Append(parts[L] \o F(d - 1), field[d]) /\ parts[L] \o F(d - 1) \in Seq(S)
    BY <1>2, <2>1, <2>2
  <2>5. Split(text \o F(d), sep) = SplitSymbol(With(d - 1), field[d], sep)
    <3>1. Split(text \o F(d - 1), sep) = With(d - 1)
      BY <1>5
    <3> HIDE DEF With
    <3> QED BY <2>1, <2>3, <3>1, SplitAppend
  <2>6. With(d - 1) \in Seq(Seq(S)) /\ Len(With(d - 1)) = L /\ With(d - 1)[L] = parts[L] \o F(d - 1)
    BY <1>1, <1>2, <2>4 DEF L
  <2>7. SplitSymbol(With(d - 1), field[d], sep) = With(d)
    <3>1. SplitSymbol(With(d - 1), field[d], sep)
            = [With(d - 1) EXCEPT ![L] = Append(With(d - 1)[L], field[d])]
      <4> HIDE DEF With
      <4> QED BY <2>1, <2>6 DEF SplitSymbol
    <3>2. [With(d - 1) EXCEPT ![L] = parts[L] \o F(d)] = With(d)
      BY <1>1, <1>2
    <3> HIDE DEF With
    <3> QED BY <2>4, <2>6, <3>1, <3>2
  <2> HIDE DEF With
  <2> QED BY <2>1, <2>5, <2>7
<1>6. N \in U
  <2>1. 0..N \subseteq U
    <3> HIDE DEF U
    <3> QED BY <1>1, <1>4, <1>5, UpTo
  <2> QED BY <1>1, <2>1
<1>7. Split(text \o field, sep) = [parts EXCEPT ![L] = parts[L] \o field]
  BY <1>3, <1>6
<1> QED BY <1>7 DEF L, Lengthen

\* A separator comes at the end of what is before it.
LEMMA Separated ==
  ASSUME NEW S, NEW a \in Seq(S), NEW sep \in S, NEW b \in Seq(S)
  PROVE  a \o <<sep>> \o b = Append(a, sep) \o b /\ a \o <<sep>> \o b \in Seq(S)
<1>1. <<sep>> \in Seq(S) /\ Append(a, sep) \in Seq(S)
  OBVIOUS
<1>2. a \o <<sep>> = Append(a, sep)
  OBVIOUS
<1>3. Append(a, sep) \o b \in Seq(S)
  BY <1>1
<1> QED BY <1>2, <1>3

\* A field without separators is the one part of itself
LEMMA SplitOne ==
  ASSUME NEW S, NEW sep, NEW field \in Seq(S), Avoids(field, sep)
  PROVE  Split(field, sep) = <<field>>
<1> DEFINE text == <<>>
           parts == << <<>> >>
<1>0. text \o field = field
  OBVIOUS
<1>1. text \in Seq(S) /\ parts # <<>> /\ Len(parts) = 1
  OBVIOUS
<1>2. parts = Split(text, sep)
  BY SplitEmpty
<1>3. [parts EXCEPT ![1] = @ \o field] = <<field>>
  BY <1>0
<1> HIDE DEF text, parts
<1>4. Split(text \o field, sep) = Lengthen(parts, field)
  BY <1>1, <1>2, SplitField
<1> QED BY <1>0, <1>1, <1>3, <1>4 DEF Lengthen

\* and one more part of what it comes after.
LEMMA SplitNext ==
  ASSUME NEW S, NEW text \in Seq(S), NEW sep \in S, NEW field \in Seq(S), Avoids(field, sep),
         NEW before \in Seq(Seq(S)), before = Split(text, sep)
  PROVE  Split(text \o <<sep>> \o field, sep) = Append(before, field)
<1> DEFINE longer == Append(text, sep)
           parts == Append(before, <<>>)
           L == Len(before) + 1
<1>1. L \in Nat /\ longer \in Seq(S) /\ <<>> \in Seq(S)
  OBVIOUS
<1>2. parts # <<>> /\ Len(parts) = L /\ parts[L] = <<>> /\ parts \in Seq(Seq(S))
  <2> HIDE DEF longer
  <2>1. Len(parts) = L /\ parts \in Seq(Seq(S))
    BY <1>1
  <2>2. parts[L] = <<>>
    BY <1>1
  <2>3. L # 0
    OBVIOUS
  <2> HIDE DEF parts, L
  <2> QED BY <2>1, <2>2, <2>3
<1>3. parts = Split(longer, sep)
  <2>1. Split(longer, sep) = SplitSymbol(before, sep, sep)
    BY SplitAppend
  <2> QED BY <2>1 DEF SplitSymbol
<1>4. [parts EXCEPT ![L] = field] = Append(before, field)
  <2> HIDE DEF longer, parts, L
  <2>1. DOMAIN parts = 1..L /\ DOMAIN Append(before, field) = 1..L
    BY <1>1, <1>2 DEF L
  <2>2. \A i \in 1..L : i # L => parts[i] = before[i] /\ Append(before, field)[i] = before[i]
    BY <1>1 DEF L, parts
  <2>3. Append(before, field)[L] = field
    BY DEF L
  <2>4. \A i \in 1..L : [parts EXCEPT ![L] = field][i] = Append(before, field)[i]
    BY <1>1, <2>1, <2>2, <2>3
  <2>5. Append(before, field) \in [1..L -> Seq(S)]
    <3> DEFINE z == Append(before, field)
    <3>1. z \in Seq(Seq(S)) /\ Len(z) = L
      BY <1>1 DEF L
    <3> HIDE DEF z
    <3>2. z \in [1..Len(z) -> Seq(S)]
      BY <3>1
    <3>3. z \in [1..L -> Seq(S)]
      BY <3>1, <3>2
    <3> QED BY <3>3 DEF z
  <2>6. parts \in [1..L -> Seq(S)]
    BY <1>1, <1>2
  <2>7. [parts EXCEPT ![L] = field] \in [1..L -> Seq(S)]
    BY <1>1, <2>6
  <2> QED BY <2>4, <2>5, <2>7
<1> HIDE DEF longer, parts, L
<1>5. Split(longer \o field, sep) = [parts EXCEPT ![L] = @ \o field]
  <2>1. Split(longer \o field, sep) = Lengthen(parts, field)
    BY <1>1, <1>2, <1>3, SplitField
  <2> QED BY <1>2, <2>1 DEF Lengthen
<1>6. parts[L] \o field = field
  BY <1>2
<1>7. text \o <<sep>> \o field = longer \o field
  BY Separated DEF longer
<1> QED BY <1>4, <1>5, <1>6, <1>7

\* What two texts avoid their concatenation avoids.
LEMMA AvoidsBoth ==
  ASSUME NEW S, NEW a \in Seq(S), NEW b \in Seq(S), NEW c, Avoids(a, c), Avoids(b, c)
  PROVE  Avoids(a \o b, c)
<1> SUFFICES ASSUME NEW i \in DOMAIN (a \o b) PROVE (a \o b)[i] # c
  BY DEF Avoids
<1> DEFINE L == Len(a)
           M == Len(b)
<1>1. L \in Nat /\ M \in Nat /\ i \in 1..L + M
  OBVIOUS
<1>2. CASE i <= L
  <2>1. (a \o b)[i] = a[i] /\ i \in DOMAIN a
    BY <1>1, <1>2
  <2> QED BY <2>1 DEF Avoids
<1>3. CASE i > L
  <2>1. (a \o b)[i] = b[i - L] /\ i - L \in DOMAIN b
    BY <1>1, <1>3
  <2> QED BY <2>1 DEF Avoids
<1> QED BY <1>1, <1>2, <1>3

\* g[n] is what Join makes of the first n fields
Joins(S, fields, sep, g) ==
  /\ g \in [0..Len(fields) -> Seq(S)]
  /\ g[1] = fields[1]
  /\ \A n \in 2..Len(fields) : g[n] = g[n - 1] \o <<sep>> \o fields[n]
  /\ Join(fields, sep) = g[Len(fields)]

\* Join is the end of such a run.
LEMMA Joining ==
  ASSUME NEW S, NEW fields \in Seq(Seq(S)), fields # <<>>, NEW sep \in S
  PROVE  \E g : Joins(S, fields, sep, g)
<1> DEFINE N == Len(fields)
           D == Seq(S)
           Body(f, n) == CASE n = 0 -> <<>>
                           [] n = 1 -> fields[1]
                           [] OTHER -> f[n - 1] \o <<sep>> \o fields[n]
           G == [n \in 0..N |-> [f \in [0..N -> D] |-> Body(f, n)]]
           Is(f) == f = [n \in 0..N |-> Body(f, n)]
<1>1. N \in Nat \ {0} /\ <<>> \in D /\ \A n \in 1..N : n - 1 \in 0..N /\ fields[n] \in D
  OBVIOUS
<1>2. \A n \in 0..N, f \in [0..N -> D] : Body(f, n) \in D
  <2> SUFFICES ASSUME NEW n \in 0..N, NEW f \in [0..N -> D] PROVE Body(f, n) \in D
    OBVIOUS
  <2>1. CASE n = 0
    BY <1>1, <2>1
  <2>2. CASE n = 1
    <3>1. fields[1] \in D
      BY <1>1
    <3> QED BY <2>2, <3>1
  <2>3. CASE n # 0 /\ n # 1
    <3>1. n - 1 \in 0..N /\ fields[n] \in D
      <4> HIDE DEF D, N
      <4> QED BY <1>1, <2>3
    <3>2. f[n - 1] \in Seq(S) /\ fields[n] \in Seq(S)
      <4> HIDE DEF N
      <4> QED BY <3>1
    <3>3. f[n - 1] \o <<sep>> \o fields[n] \in Seq(S)
      BY <3>2, Separated
    <3> QED BY <2>3, <3>3
  <2> QED BY <2>1, <2>2, <2>3
<1>3. G \in [0..N -> [[0..N -> D] -> D]]
  <2> HIDE DEF D, N, Body
  <2> QED BY <1>2
<1>4. ASSUME NEW n \in 0..N, NEW f \in [0..N -> D], NEW g \in [0..N -> D],
             \A m \in 0..N : m < n => f[m] = g[m]
      PROVE  G[n][f] = G[n][g]
  <2>1. n # 0 => f[n - 1] = g[n - 1]
    <3> HIDE DEF D, N
    <3> QED BY <1>1, <1>4
  <2>2. Body(f, n) = Body(g, n)
    BY <2>1
  <2> HIDE DEF D, N, Body
  <2> QED BY <2>2
<1>5. PICK f : Unfolds(f, N, D, G)
  <2>1. D # {}
    BY <1>1
  <2>2. Guarded(N, D, G)
    <3> HIDE DEF D, N, G
    <3> QED BY <1>3, <1>4, <2>1 DEF Guarded
  <2> HIDE DEF D, N, G
  <2> QED BY <1>1, <2>2, Unfolding
<1>6. f \in [0..N -> D] /\ \A n \in 0..N : f[n] = Body(f, n)
  <2> HIDE DEF D, N, Body
  <2> QED BY <1>5 DEF Unfolds
<1>7. Is(f)
  <2> HIDE DEF D, N, Body
  <2> QED BY <1>6
<1> DEFINE h == CHOOSE h : Is(h)
<1>8. Is(h)
  BY <1>7, Zenon
<1>9. Join(fields, sep) = h[N]
  BY DEF Join
<1> HIDE DEF h
<1>10. h[N] = f[N]
  <2> DEFINE U == {n \in 0..N : h[n] = f[n]}
  <2> HIDE DEF D, N, h
  <2>1. \A n \in 0..N : h[n] = Body(h, n)
    BY <1>8
  <2>2. 0 \in U
    <3>1. 0 \in 0..N
      BY <1>1
    <3>2. Body(h, 0) = <<>> /\ Body(f, 0) = <<>>
      OBVIOUS
    <3>3. h[0] = Body(h, 0) /\ f[0] = Body(f, 0)
      <4> HIDE DEF Body
      <4> QED BY <1>6, <2>1, <3>1
    <3> QED BY <3>1, <3>2, <3>3
  <2>3. ASSUME NEW n \in 1..N, n - 1 \in U PROVE n \in U
    <3>1. n \in 0..N /\ h[n - 1] = f[n - 1]
      BY <2>3
    <3>2. Body(h, n) = Body(f, n)
      BY <3>1
    <3>3. h[n] = f[n]
      <4> HIDE DEF Body
      <4> QED BY <1>6, <2>1, <3>1, <3>2
    <3> QED BY <3>1, <3>3
  <2>4. 0..N \subseteq U
    <3> HIDE DEF U
    <3> QED BY <1>1, <2>2, <2>3, UpTo
  <2> QED BY <1>1, <2>4
<1>11. f[1] = fields[1] /\ \A n \in 2..N : f[n] = f[n - 1] \o <<sep>> \o fields[n]
  <2> HIDE DEF D, N
  <2>1. 1 \in 0..N /\ \A n \in 2..N : n \in 0..N /\ n # 0 /\ n # 1
    BY <1>1
  <2> QED BY <1>6, <2>1
<1>12. Joins(S, fields, sep, f)
  <2> HIDE DEF h
  <2> QED BY <1>6, <1>9, <1>10, <1>11 DEF Joins
<1> QED BY <1>12, Zenon

\* Fields without separators are what the text made of them is split into.
LEMMA SplitJoin ==
  ASSUME NEW S, NEW fields \in Seq(Seq(S)), fields # <<>>, NEW sep \in S,
         \A n \in DOMAIN fields : Avoids(fields[n], sep)
  PROVE  Join(fields, sep) \in Seq(S) /\ Split(Join(fields, sep), sep) = fields
<1> DEFINE N == Len(fields)
           F(n) == SubSeq(fields, 1, n)
<1>1. /\ N \in Nat \ {0} /\ F(N) = fields
      /\ \A n \in 1..N : fields[n] \in Seq(S) /\ Avoids(fields[n], sep)
  OBVIOUS
<1>2. F(1) = <<fields[1]>>
  <2>1. N \in Nat /\ 1 <= N
    BY <1>1
  <2>2. Len(F(1)) = 1 /\ F(1)[1] = fields[1] /\ F(1) \in Seq(Seq(S))
    BY <2>1
  <2> HIDE DEF F
  <2> QED BY <2>2
<1>3. ASSUME NEW n \in 2..N
      PROVE  /\ n - 1 \in 1..N /\ n \in 1..N
             /\ F(n - 1) \in Seq(Seq(S)) /\ Len(F(n - 1)) = n - 1
             /\ Append(F(n - 1), fields[n]) = F(n)
  <2>1. n - 1 \in 1..N /\ n \in 1..N
    BY <1>1
  <2>2. F(n - 1) \in Seq(Seq(S)) /\ Len(F(n - 1)) = n - 1
    BY <2>1
  <2>3. Append(F(n - 1), fields[n]) = F(n)
    BY <2>1
  <2> QED BY <2>1, <2>2, <2>3
<1>4. PICK g : Joins(S, fields, sep, g)
  BY Joining
<1>5. /\ g \in [0..N -> Seq(S)] /\ g[1] = fields[1] /\ Join(fields, sep) = g[N]
      /\ \A n \in 2..N : g[n] = g[n - 1] \o <<sep>> \o fields[n]
  BY <1>4 DEF Joins
<1> HIDE DEF N, F
<1> DEFINE U == {n \in 0..N : n # 0 => Split(g[n], sep) = F(n)}
<1>6. 0 \in U
  BY <1>1
<1>7. ASSUME NEW n \in 1..N, n - 1 \in U PROVE n \in U
  <2>1. fields[n] \in Seq(S) /\ Avoids(fields[n], sep) /\ n \in 0..N
    BY <1>1
  <2>2. CASE n = 1
    <3>1. Split(fields[1], sep) = <<fields[1]>>
      BY <2>1, <2>2, SplitOne
    <3> QED BY <1>2, <1>5, <2>1, <2>2, <3>1
  <2>3. CASE n # 1
    <3>1. n \in 2..N
      BY <1>1, <2>3
    <3>2. n - 1 \in 1..N /\ n - 1 \in 0..N
      BY <1>1, <3>1
    <3> DEFINE text == g[n - 1]
               before == F(n - 1)
               field == fields[n]
    <3>3. text \in Seq(S) /\ before = Split(text, sep)
      <4>1. n - 1 # 0
        BY <3>1
      <4> QED BY <1>5, <1>7, <3>2, <4>1
    <3>4. field \in Seq(S) /\ Avoids(field, sep) /\ before \in Seq(Seq(S))
      BY <1>3, <2>1, <3>1
    <3>5. g[n] = text \o <<sep>> \o field /\ Append(before, field) = F(n)
      BY <1>3, <1>5, <3>1
    <3> HIDE DEF text, before, field
    <3>6. Split(text \o <<sep>> \o field, sep) = Append(before, field)
      BY <3>3, <3>4, SplitNext
    <3> QED BY <2>1, <3>5, <3>6
  <2> QED BY <2>2, <2>3
<1>8. 0..N \subseteq U
  <2> HIDE DEF U
  <2> QED BY <1>1, <1>6, <1>7, UpTo
<1>9. Split(g[N], sep) = F(N) /\ g[N] \in Seq(S)
  BY <1>1, <1>5, <1>8
<1> QED BY <1>1, <1>5, <1>9

\* A symbol that is in none of the fields is not in their text.
LEMMA JoinAvoids ==
  ASSUME NEW S, NEW fields \in Seq(Seq(S)), fields # <<>>, NEW sep \in S, NEW c, c # sep,
         \A n \in DOMAIN fields : Avoids(fields[n], c)
  PROVE  Avoids(Join(fields, sep), c)
<1> DEFINE N == Len(fields)
<1>1. N \in Nat \ {0} /\ \A n \in 1..N : fields[n] \in Seq(S) /\ Avoids(fields[n], c)
  OBVIOUS
<1>2. PICK g : Joins(S, fields, sep, g)
  BY Joining
<1>3. /\ g \in [0..N -> Seq(S)] /\ g[1] = fields[1] /\ Join(fields, sep) = g[N]
      /\ \A n \in 2..N : g[n] = g[n - 1] \o <<sep>> \o fields[n]
  BY <1>2 DEF Joins
<1> HIDE DEF N
<1> DEFINE U == {n \in 0..N : n # 0 => Avoids(g[n], c)}
<1>4. 0 \in U
  BY <1>1
<1>5. ASSUME NEW n \in 1..N, n - 1 \in U PROVE n \in U
  <2>1. fields[n] \in Seq(S) /\ Avoids(fields[n], c) /\ n \in 0..N
    BY <1>1
  <2>2. CASE n = 1
    BY <1>3, <2>1, <2>2
  <2>3. CASE n # 1
    <3>0. n \in 2..N /\ n - 1 \in 0..N /\ n - 1 # 0
      BY <1>1, <2>3
    <3> DEFINE text == g[n - 1]
               field == fields[n]
    <3>1. text \in Seq(S) /\ Avoids(text, c) /\ field \in Seq(S) /\ Avoids(field, c)
      BY <1>3, <1>5, <2>1, <3>0
    <3>2. g[n] = text \o <<sep>> \o field
      BY <1>3, <3>0
    <3> HIDE DEF text, field
    <3>3. Avoids(Append(text, sep), c) /\ Append(text, sep) \in Seq(S)
      BY <3>1 DEF Avoids
    <3>4. Avoids(g[n], c)
      <4>1. g[n] = Append(text, sep) \o field
        BY <3>1, <3>2, Separated
      <4> QED BY <3>1, <3>3, <4>1, AvoidsBoth
    <3> QED BY <2>1, <3>4
  <2> QED BY <2>2, <2>3
<1>6. 0..N \subseteq U
  <2> HIDE DEF U
  <2> QED BY <1>1, <1>4, <1>5, UpTo
<1>7. N \in U
  BY <1>1, <1>6
<1> QED BY <1>1, <1>3, <1>7

\* The symbols of its own that a text has
Marks == {"v2", ":", ","}

\* token is one whose texts are of S: its ID, time and number hold no ":"
IsToken(token, S) ==
  /\ token.id \in Seq(S) /\ token.pattern \in Seq(S) /\ token.expires \in Seq(S)
  /\ token.permissions \in Seq(S) /\ token.maxUses \in Seq(S)
  /\ Avoids(token.id, ":") /\ Avoids(token.expires, ":") /\ Avoids(token.maxUses, ":")

\* A text of one symbol avoids any other.
LEMMA AvoidsOne ==
  ASSUME NEW x, NEW c, x # c
  PROVE  Avoids(<<x>>, c)
<1> DEFINE text == <<x>>
<1>1. DOMAIN text = {1} /\ text[1] = x
  OBVIOUS
<1> HIDE DEF text
<1>2. Avoids(text, c)
  BY <1>1 DEF Avoids
<1> QED BY <1>2 DEF text

\* The text of a list of permissions is split into them, and fits in a token's text.
LEMMA PermissionsAreSplit ==
  ASSUME NEW S, Marks \subseteq S, NEW permissions \in Seq(S), permissions # <<>>,
         ToSet(permissions) \subseteq Permissions
  PROVE  /\ JoinPermissions(permissions) \in Seq(S)
         /\ Avoids(JoinPermissions(permissions), ":")
         /\ Split(JoinPermissions(permissions), ",") = [i \in DOMAIN permissions |-> <<permissions[i]>>]
<1> DEFINE fields == [i \in DOMAIN permissions |-> <<permissions[i]>>]
<1>1. \A i \in DOMAIN permissions : permissions[i] \in S /\ permissions[i] \in {"read", "write"}
  BY DEF ToSet, Permissions
<1>2. fields \in Seq(Seq(S)) /\ fields # <<>> /\ DOMAIN fields = DOMAIN permissions
  <2>1. Len(permissions) \in Nat /\ DOMAIN permissions = 1..Len(permissions) /\ Len(permissions) # 0
    OBVIOUS
  <2>2. \A i \in DOMAIN permissions : <<permissions[i]>> \in Seq(S)
    BY <1>1
  <2>3. fields \in [1..Len(permissions) -> Seq(S)] /\ DOMAIN fields = DOMAIN permissions
    BY <2>1, <2>2
  <2>4. 1 \in DOMAIN fields
    BY <2>1
  <2> HIDE DEF fields
  <2>5. fields \in Seq(Seq(S))
    BY <2>1, <2>3
  <2>6. fields # <<>>
    BY <2>4
  <2> QED BY <2>3, <2>5, <2>6
<1>3. ASSUME NEW i \in DOMAIN fields PROVE Avoids(fields[i], ",") /\ Avoids(fields[i], ":")
  <2>1. fields[i] = <<permissions[i]>> /\ permissions[i] \in {"read", "write"}
    BY <1>1, <1>2
  <2>2. permissions[i] # "," /\ permissions[i] # ":"
    BY <2>1
  <2> HIDE DEF fields
  <2> QED BY <2>1, <2>2, AvoidsOne
<1>4. "," \in S /\ ":" # ","
  BY DEF Marks
<1> HIDE DEF fields
<1>5. Join(fields, ",") \in Seq(S) /\ Split(Join(fields, ","), ",") = fields
  BY <1>2, <1>3, <1>4, SplitJoin
<1>6. Avoids(Join(fields, ","), ":")
  BY <1>2, <1>3, <1>4, JoinAvoids
<1> QED BY <1>5, <1>6 DEF JoinPermissions, fields

\* The text of a token is split into its fields.
LEMMA FieldsAreSplit ==
  ASSUME NEW S, Marks \subseteq S, NEW token, IsToken(token, S), OptionsAccepted(token), NEW key
  PROVE  Split(CreateShortSignedTokenV2(token, key).payload, ":")
           = << <<"v2">>, token.id, token.pattern, token.expires,
                JoinPermissions(token.permissions), token.maxUses >>
<1> DEFINE fields == << <<"v2">>, token.id, token.pattern, token.expires,
                        JoinPermissions(token.permissions), token.maxUses >>
<1>1. Avoids(token.pattern, ":")
  BY DEF OptionsAccepted, ToSet, Avoids
<1>2. JoinPermissions(token.permissions) \in Seq(S) /\ Avoids(JoinPermissions(token.permissions), ":")
  BY PermissionsAreSplit DEF IsToken, OptionsAccepted
<1>3. <<"v2">> \in Seq(S) /\ Avoids(<<"v2">>, ":") /\ ":" \in S
  <2>1. "v2" \in S /\ ":" \in S /\ "v2" # ":"
    BY DEF Marks
  <2>2. <<"v2">> \in Seq(S)
    BY <2>1
  <2>3. Avoids(<<"v2">>, ":")
    BY <2>1, AvoidsOne, Zenon
  <2> QED BY <2>1, <2>2, <2>3
<1>4. fields # <<>> /\ DOMAIN fields = 1..6
  OBVIOUS
<1>5. ASSUME NEW n \in 1..6 PROVE fields[n] \in Seq(S) /\ Avoids(fields[n], ":")
  <2>1. n = 1 \/ n = 2 \/ n = 3 \/ n = 4 \/ n = 5 \/ n = 6
    OBVIOUS
  <2>2. token.id \in Seq(S) /\ Avoids(token.id, ":") /\ token.pattern \in Seq(S)
    BY DEF IsToken
  <2>3. /\ token.expires \in Seq(S) /\ Avoids(token.expires, ":")
        /\ token.maxUses \in Seq(S) /\ Avoids(token.maxUses, ":")
    BY DEF IsToken
  <2>4. /\ fields[1] = <<"v2">> /\ fields[2] = token.id /\ fields[3] = token.pattern
        /\ fields[4] = token.expires /\ fields[5] = JoinPermissions(token.permissions)
        /\ fields[6] = token.maxUses
    OBVIOUS
  <2> HIDE DEF fields
  <2> QED BY <1>1, <1>2, <1>3, <2>1, <2>2, <2>3, <2>4
<1>6. fields \in Seq(Seq(S))
  BY <1>2, <1>3 DEF IsToken
<1>7. CreateShortSignedTokenV2(token, key).payload = Join(fields, ":")
  BY DEF CreateShortSignedTokenV2
<1> HIDE DEF fields
<1>8. Split(Join(fields, ":"), ":") = fields
  BY <1>3, <1>4, <1>5, <1>6, SplitJoin
<1> QED BY <1>7, <1>8 DEF fields

\* The text `create-token` prints is accepted by `use-token` under the same key, whatever
\* the token's pattern and permissions are: none of them breaks the text up, and what is
\* read back is what the registry has.
THEOREM CreatedTextsAreAccepted ==
  ASSUME NEW S, Marks \subseteq S, NEW token, IsToken(token, S), OptionsAccepted(token), NEW key, NEW secret
  PROVE  Accepted(CreateShortSignedTokenV2(token, key), {token}, key, secret)
<1> DEFINE text == CreateShortSignedTokenV2(token, key)
           parts == Split(text.payload, ":")
           permissions == [i \in DOMAIN token.permissions |-> <<token.permissions[i]>>]
<1>1. parts = << <<"v2">>, token.id, token.pattern, token.expires,
                 JoinPermissions(token.permissions), token.maxUses >>
  BY FieldsAreSplit
<1>2. text.signature = [key |-> key, of |-> text.payload]
  BY DEF CreateShortSignedTokenV2
<1> HIDE DEF text
<1>3. Versioned(parts)
  BY <1>1 DEF Versioned
<1>4. Split(JoinPermissions(token.permissions), ",") = permissions
  BY PermissionsAreSplit DEF IsToken, OptionsAccepted
<1>5. Claims(text) = [id |-> token.id, pattern |-> token.pattern, expires |-> token.expires,
                      permissions |-> permissions, maxUses |-> token.maxUses]
  <2>1. Tail(parts) = << token.id, token.pattern, token.expires,
                         JoinPermissions(token.permissions), token.maxUses >>
    <3> HIDE DEF parts
    <3> QED BY <1>1
  <2> HIDE DEF parts, permissions
  <2>2. Claims(text) = LET fields == Tail(parts)
                       IN [id |-> fields[1], pattern |-> fields[2], expires |-> fields[3],
                           permissions |-> Split(fields[4], ","), maxUses |-> fields[5]]
    BY <1>3 DEF Claims, parts
  <2> DEFINE rest == Tail(parts)
             five == << token.id, token.pattern, token.expires,
                        JoinPermissions(token.permissions), token.maxUses >>
  <2>3. /\ five[1] = token.id /\ five[2] = token.pattern /\ five[3] = token.expires
        /\ five[4] = JoinPermissions(token.permissions) /\ five[5] = token.maxUses
    OBVIOUS
  <2>5. rest = five
    BY <2>1
  <2> HIDE DEF rest, five
  <2>4. Claims(text) = [id |-> rest[1], pattern |-> rest[2], expires |-> rest[3],
                        permissions |-> Split(rest[4], ","), maxUses |-> rest[5]]
    BY <2>2 DEF rest
  <2> QED BY <1>4, <2>3, <2>4, <2>5
<1>6. TokenClaimsMatch(token, Claims(text))
  BY <1>5 DEF TokenClaimsMatch, JoinPermissions
<1>7. WellFormed(text) /\ ValidTokenSignature(text, key)
  BY <1>2, <1>3 DEF WellFormed, ValidTokenSignature
<1>8. token.id = Claims(text).id
  BY <1>5
<1> HIDE DEF parts
<1>9. Accepted(text, {token}, key, secret)
  BY <1>3, <1>6, <1>7, <1>8 DEF Accepted, parts
<1> QED BY <1>9 DEF text

\* The padding that `use-token` puts back is the one that was cut off.
LEMMA PaddingIsPutBack ==
  ASSUME NEW n \in Nat
  PROVE  PaddedLength(TrimmedLength(n)) = EncodedLength(n)
<1> DEFINE q == n \div 3
<1>1. q \in Nat /\ (n = 3 * q \/ n = 3 * q + 1 \/ n = 3 * q + 2)
  OBVIOUS
<1> HIDE DEF q
<1>2. CASE n = 3 * q
  <2>1. TrimmedLength(n) = 4 * q /\ EncodedLength(n) = 4 * q
    BY <1>1, <1>2 DEF TrimmedLength, EncodedLength
  <2>2. (4 * q) % 4 = 0
    BY <1>1
  <2> QED BY <1>1, <2>1, <2>2 DEF PaddedLength
<1>3. CASE n = 3 * q + 1
  <2>1. TrimmedLength(n) = 4 * q + 2 /\ EncodedLength(n) = 4 * q + 4
    BY <1>1, <1>3 DEF TrimmedLength, EncodedLength
  <2>2. (4 * q + 2) % 4 = 2
    BY <1>1
  <2> QED BY <1>1, <2>1, <2>2 DEF PaddedLength
<1>4. CASE n = 3 * q + 2
  <2>1. TrimmedLength(n) = 4 * q + 3 /\ EncodedLength(n) = 4 * q + 4
    BY <1>1, <1>4 DEF TrimmedLength, EncodedLength
  <2>2. (4 * q + 3) % 4 = 3
    BY <1>1
  <2> QED BY <1>1, <2>1, <2>2 DEF PaddedLength
<1> QED BY <1>1, <1>2, <1>3, <1>4

-----------------------------------------------------------------------------
(* What a pattern means                                                     *)

\* t[n] is the concatenation of the first n texts of s
Flattens(S, s, t) ==
  /\ t \in [0..Len(s) -> Seq(S)]
  /\ t[0] = <<>>
  /\ \A n \in 1..Len(s) : t[n] = t[n - 1] \o s[n]
  /\ FlattenSeq(s) = t[Len(s)]

\* FlattenSeq is the end of a sequence of concatenations.
LEMMA Flattening ==
  ASSUME NEW S, NEW s \in Seq(Seq(S))
  PROVE  \E t : Flattens(S, s, t)
<1> DEFINE N == Len(s)
           D == Seq(S)
           Body(f, n) == IF n = 0 THEN <<>> ELSE f[n - 1] \o s[n]
           G == [n \in 0..N |-> [f \in [0..N -> D] |-> Body(f, n)]]
           Is(h) == h = [i \in 1..N |-> IF i = 1 THEN s[i] ELSE h[i - 1] \o s[i]]
<1>1. N \in Nat /\ <<>> \in D /\ \A n \in 1..N : n - 1 \in 0..N /\ s[n] \in D
  OBVIOUS
<1>2. \A n \in 0..N, f \in [0..N -> D] : Body(f, n) \in D
  <2> SUFFICES ASSUME NEW n \in 0..N, NEW f \in [0..N -> D] PROVE Body(f, n) \in D
    OBVIOUS
  <2>1. CASE n = 0
    BY <2>1
  <2>2. CASE n # 0
    <3>1. n - 1 \in 0..N /\ s[n] \in D /\ f[n - 1] \in D
      <4> HIDE DEF D, N
      <4> QED BY <1>1, <2>2
    <3>2. f[n - 1] \o s[n] \in Seq(S)
      BY <3>1
    <3> QED BY <2>2, <3>2
  <2> QED BY <2>1, <2>2
<1>3. G \in [0..N -> [[0..N -> D] -> D]]
  <2> HIDE DEF D, N, Body
  <2> QED BY <1>2
<1>4. ASSUME NEW n \in 0..N, NEW f \in [0..N -> D], NEW g \in [0..N -> D],
             \A m \in 0..N : m < n => f[m] = g[m]
      PROVE  G[n][f] = G[n][g]
  <2>1. n # 0 => f[n - 1] = g[n - 1]
    <3> HIDE DEF D, N
    <3> QED BY <1>1, <1>4
  <2>2. Body(f, n) = Body(g, n)
    BY <2>1
  <2> HIDE DEF D, N, Body
  <2> QED BY <2>2
<1>5. PICK t : Unfolds(t, N, D, G)
  <2>1. D # {}
    BY <1>1
  <2>2. Guarded(N, D, G)
    <3> HIDE DEF D, N, G
    <3> QED BY <1>3, <1>4, <2>1 DEF Guarded
  <2> HIDE DEF D, N, G
  <2> QED BY <1>1, <2>2, Unfolding
<1>6. t \in [0..N -> D] /\ \A n \in 0..N : t[n] = Body(t, n)
  <2> HIDE DEF D, N, Body
  <2> QED BY <1>5 DEF Unfolds
<1>7. t[0] = <<>> /\ \A n \in 1..N : t[n] = t[n - 1] \o s[n]
  <2> HIDE DEF D, N
  <2>1. 0 \in 0..N /\ \A n \in 1..N : n \in 0..N /\ n # 0
    BY <1>1
  <2> QED BY <1>6, <2>1
<1>8. N # 0 => t[1] = s[1]
  <2> SUFFICES ASSUME N # 0 PROVE t[1] = s[1]
    OBVIOUS
  <2> HIDE DEF N
  <2>1. 1 \in 1..N /\ 1 - 1 = 0 /\ s[1] \in Seq(S)
    BY <1>1
  <2>2. t[1] = t[0] \o s[1]
    BY <1>7, <2>1
  <2>3. \A x \in Seq(S) : <<>> \o x = x
    OBVIOUS
  <2> QED BY <1>7, <2>1, <2>2, <2>3
<1> DEFINE f == [i \in 1..N |-> t[i]]
<1>9. Is(f)
  <2> DEFINE g == [i \in 1..N |-> IF i = 1 THEN s[i] ELSE f[i - 1] \o s[i]]
  <2>1. ASSUME NEW i \in 1..N PROVE g[i] = f[i]
    <3>1. CASE i = 1
      BY <1>8, <3>1
    <3>2. CASE i # 1
      <4>1. i - 1 \in 1..N
        BY <1>1, <3>2
      <4>2. f[i - 1] = t[i - 1]
        BY <4>1
      <4> QED BY <1>7, <3>2, <4>2
    <3> QED BY <3>1, <3>2
  <2>2. f = g
    BY <2>1
  <2> QED BY <2>2, Zenon
<1>10. ASSUME NEW h, Is(h), N # 0 PROVE h[N] = t[N]
  <2>1. \A i \in 1..N : h[i] = IF i = 1 THEN s[i] ELSE h[i - 1] \o s[i]
    BY <1>10, Zenon
  <2> DEFINE U == {i \in 0..N : i = 0 \/ h[i] = t[i]}
  <2>2. 0 \in U
    BY <1>1
  <2>3. ASSUME NEW i \in 1..N, i - 1 \in U PROVE i \in U
    <3>1. CASE i = 1
      BY <1>8, <2>1, <3>1
    <3>2. CASE i # 1
      <4>1. h[i] = h[i - 1] \o s[i] /\ t[i] = t[i - 1] \o s[i]
        BY <1>7, <2>1, <3>2
      <4>2. h[i - 1] = t[i - 1]
        BY <2>3, <3>2
      <4>3. h[i] = t[i]
        BY <4>1, <4>2, Zenon
      <4> QED BY <4>3
    <3> QED BY <3>1, <3>2
  <2>4. 0..N \subseteq U
    <3> HIDE DEF U, N
    <3> QED BY <1>1, <2>2, <2>3, UpTo
  <2>5. N \in U
    BY <1>1, <2>4
  <2> QED BY <1>10, <2>5, Zenon
<1>11. FlattenSeq(s) = t[N]
  <2>1. CASE N = 0
    BY <1>7, <2>1 DEF FlattenSeq
  <2>2. CASE N # 0
    <3> DEFINE h == CHOOSE h : Is(h)
    <3>1. Is(h)
      BY <1>9, Zenon
    <3>2. FlattenSeq(s) = h[N]
      BY <2>2 DEF FlattenSeq
    <3> HIDE DEF h, Is
    <3> QED BY <1>10, <2>2, <3>1, <3>2
  <2> QED BY <2>1, <2>2
<1>12. Flattens(S, s, t)
  BY <1>6, <1>7, <1>11 DEF Flattens
<1> QED BY <1>12, Zenon

\* regex is made of blocks, one for each symbol of the pattern: block n ends at at[n],
\* and is first and second where the symbol is special, the symbol itself otherwise
InBlocks(pattern, regex, at, first, second) ==
  /\ at[0] = 0 /\ at[Len(pattern)] = Len(regex)
  /\ \A n \in 0..Len(pattern) : at[n] \in Nat /\ at[n] <= Len(regex)
  /\ \A n \in 1..Len(pattern) :
       IF pattern[n] \in Special
       THEN /\ at[n] = at[n - 1] + 2
            /\ regex[at[n - 1] + 1] = first[pattern[n]] /\ regex[at[n - 1] + 2] = second[pattern[n]]
       ELSE at[n] = at[n - 1] + 1 /\ regex[at[n - 1] + 1] = pattern[n]

\* The blocks of QuoteMeta, and those of WithWildcards
QuoteFirst  == [c \in Special |-> "\\"]
QuoteSecond == [c \in Special |-> c]
WildFirst   == [c \in Special |-> IF c = "*" THEN "." ELSE "\\"]

\* QuoteMeta puts a backslash before every special symbol.
LEMMA QuoteBlocks ==
  ASSUME NEW S, Special \subseteq S, NEW pattern \in Seq(S)
  PROVE  \E at : /\ QuoteMeta(pattern) \in Seq(S)
                 /\ InBlocks(pattern, QuoteMeta(pattern), at, QuoteFirst, QuoteSecond)
<1> DEFINE P == Len(pattern)
           s == [i \in DOMAIN pattern |->
                   IF pattern[i] \in Special THEN <<"\\", pattern[i]>> ELSE <<pattern[i]>>]
           Q == QuoteMeta(pattern)
<1>1. P \in Nat /\ DOMAIN pattern = 1..P /\ "\\" \in S /\ \A n \in 1..P : pattern[n] \in S
  BY DEF Special
<1>2. ASSUME NEW n \in 1..P
      PROVE  /\ s[n] \in Seq(S)
             /\ pattern[n] \in Special => Len(s[n]) = 2 /\ s[n][1] = "\\" /\ s[n][2] = pattern[n]
             /\ pattern[n] \notin Special => Len(s[n]) = 1 /\ s[n][1] = pattern[n]
  <2>1. CASE pattern[n] \in Special
    <3>1. s[n] = <<"\\", pattern[n]>>
      BY <1>1, <2>1
    <3> HIDE DEF s, P
    <3> QED BY <1>1, <2>1, <3>1
  <2>2. CASE pattern[n] \notin Special
    <3>1. s[n] = <<pattern[n]>>
      BY <1>1, <2>2
    <3> HIDE DEF s, P
    <3> QED BY <1>1, <2>2, <3>1
  <2> QED BY <2>1, <2>2
<1>3. s \in Seq(Seq(S)) /\ Len(s) = P
  <2>1. s \in [1..P -> Seq(S)]
    <3> HIDE DEF P
    <3>1. DOMAIN s = 1..P
      BY <1>1
    <3>2. s = [n \in 1..P |-> s[n]]
      BY <1>1
    <3> HIDE DEF s
    <3> QED BY <1>2, <3>2
  <2> HIDE DEF s, P
  <2> QED BY <1>1, <2>1
<1>4. Q = FlattenSeq(s)
  BY DEF QuoteMeta
<1> HIDE DEF s, Q, P
<1>5. PICK t : Flattens(S, s, t)
  BY <1>3, Flattening
<1>6. /\ t \in [0..P -> Seq(S)] /\ t[0] = <<>> /\ \A n \in 1..P : t[n] = t[n - 1] \o s[n]
      /\ Q = t[P]
  BY <1>3, <1>4, <1>5 DEF Flattens
<1> DEFINE at == [n \in 0..P |-> Len(t[n])]
<1>7. ASSUME NEW n \in 1..P
      PROVE  /\ n - 1 \in 0..P /\ n \in 0..P /\ at[n - 1] \in Nat /\ at[n] = at[n - 1] + Len(s[n])
             /\ \A d \in 1..at[n - 1] : t[n][d] = t[n - 1][d]
             /\ \A d \in 1..Len(s[n]) : t[n][at[n - 1] + d] = s[n][d]
  <2>1. n - 1 \in 0..P /\ n \in 0..P
    BY <1>1
  <2> DEFINE a == t[n - 1]
             b == s[n]
  <2>2. a \in Seq(S) /\ b \in Seq(S) /\ t[n] = a \o b
    BY <1>2, <1>6, <2>1
  <2>3. at[n - 1] = Len(a) /\ at[n] = Len(t[n])
    BY <2>1
  <2> HIDE DEF a, b, at
  <2>4. Len(a) \in Nat /\ Len(t[n]) = Len(a) + Len(b)
    BY <2>2
  <2>5. \A d \in 1..Len(a) : t[n][d] = a[d]
    BY <2>2
  <2>6. \A d \in 1..Len(b) : t[n][Len(a) + d] = b[d]
    BY <2>2
  <2> QED BY <2>1, <2>3, <2>4, <2>5, <2>6 DEF a, b
<1>8. ASSUME NEW n \in 0..P
      PROVE  at[n] \in Nat /\ at[n] <= at[P] /\ \A d \in 1..at[n] : Q[d] = t[n][d]
  <2> DEFINE U == {m \in 0..P : n <= m => at[n] <= at[m] /\ \A d \in 1..at[n] : t[m][d] = t[n][d]}
  <2>1. at[n] \in Nat
    <3>1. Len(t[n]) \in Nat
      BY <1>6
    <3> QED BY <3>1
  <2>2. 0 \in U
    <3>1. 0 \in 0..P /\ (n <= 0 => n = 0)
      BY <1>1
    <3> HIDE DEF at
    <3> QED BY <2>1, <3>1
  <2>3. ASSUME NEW m \in 1..P, m - 1 \in U PROVE m \in U
    <3> HIDE DEF at
    <3>1. CASE n <= m - 1
      <4>1. at[n] <= at[m - 1] /\ \A d \in 1..at[n] : t[m - 1][d] = t[n][d]
        BY <2>3, <3>1
      <4>2. at[m - 1] \in Nat /\ at[m] = at[m - 1] + Len(s[m]) /\ Len(s[m]) \in Nat /\ m \in 0..P
        BY <1>2, <1>7
      <4>3. at[n] <= at[m]
        BY <2>1, <4>1, <4>2
      <4>4. ASSUME NEW d \in 1..at[n] PROVE t[m][d] = t[n][d]
        <5>1. d \in 1..at[m - 1]
          BY <2>1, <4>1, <4>2
        <5> QED BY <1>7, <4>1, <5>1
      <4> QED BY <4>2, <4>3, <4>4
    <3>2. CASE ~(n <= m - 1)
      <4>1. m \in 0..P /\ (n <= m => n = m)
        BY <1>1, <3>2
      <4> QED BY <2>1, <4>1
    <3> QED BY <3>1, <3>2
  <2>4. 0..P \subseteq U
    <3> HIDE DEF U, at
    <3> QED BY <1>1, <2>2, <2>3, UpTo
  <2>5. P \in U /\ n <= P
    BY <1>1, <2>4
  <2> HIDE DEF at
  <2> QED BY <1>6, <2>1, <2>5
<1>9. Q \in Seq(S) /\ at[0] = 0 /\ at[P] = Len(Q)
  <2>1. 0 \in 0..P /\ P \in 0..P /\ Len(<<>>) = 0
    BY <1>1
  <2> QED BY <1>6, <2>1
<1> HIDE DEF at
<1>10. ASSUME NEW n \in 1..P
       PROVE  IF pattern[n] \in Special
              THEN /\ at[n] = at[n - 1] + 2
                   /\ Q[at[n - 1] + 1] = QuoteFirst[pattern[n]]
                   /\ Q[at[n - 1] + 2] = QuoteSecond[pattern[n]]
              ELSE at[n] = at[n - 1] + 1 /\ Q[at[n - 1] + 1] = pattern[n]
  <2>1. n \in 0..P /\ at[n - 1] \in Nat /\ at[n] = at[n - 1] + Len(s[n])
    BY <1>7
  <2>2. \A d \in 1..Len(s[n]) : t[n][at[n - 1] + d] = s[n][d]
    BY <1>7
  <2>3. CASE pattern[n] \in Special
    <3>1. Len(s[n]) = 2 /\ s[n][1] = "\\" /\ s[n][2] = pattern[n]
      BY <1>2, <2>3
    <3>2. at[n] = at[n - 1] + 2 /\ at[n - 1] + 1 \in 1..at[n] /\ at[n - 1] + 2 \in 1..at[n]
      BY <2>1, <3>1
    <3>3. t[n][at[n - 1] + 1] = "\\" /\ t[n][at[n - 1] + 2] = pattern[n]
      BY <2>2, <3>1
    <3>4. Q[at[n - 1] + 1] = "\\" /\ Q[at[n - 1] + 2] = pattern[n]
      BY <1>8, <2>1, <3>2, <3>3
    <3> QED BY <2>3, <3>2, <3>4 DEF QuoteFirst, QuoteSecond
  <2>4. CASE pattern[n] \notin Special
    <3>1. Len(s[n]) = 1 /\ s[n][1] = pattern[n]
      BY <1>2, <2>4
    <3>2. at[n] = at[n - 1] + 1 /\ at[n - 1] + 1 \in 1..at[n]
      BY <2>1, <3>1
    <3>3. t[n][at[n - 1] + 1] = pattern[n]
      BY <2>2, <3>1
    <3>4. Q[at[n - 1] + 1] = pattern[n]
      BY <1>8, <2>1, <3>2, <3>3
    <3> QED BY <2>4, <3>2, <3>4
  <2> QED BY <2>3, <2>4
<1>11. InBlocks(pattern, Q, at, QuoteFirst, QuoteSecond)
  <2>1. \A n \in 0..P : at[n] \in Nat /\ at[n] <= Len(Q)
    BY <1>8, <1>9
  <2> QED BY <1>9, <1>10, <2>1 DEF InBlocks, P
<1> QED BY <1>9, <1>11 DEF Q

\* Its first symbol tells a block from a wildcard: none begins with "*".
LEMMA NoBareStar ==
  ASSUME NEW pattern, NEW regex, NEW at, InBlocks(pattern, regex, at, QuoteFirst, QuoteSecond),
         NEW n \in 1..Len(pattern)
  PROVE  regex[at[n - 1] + 1] # "*"
<1>1. CASE pattern[n] \in Special
  <2>1. QuoteFirst[pattern[n]] = "\\"
    BY <1>1 DEF QuoteFirst
  <2> QED BY <1>1, <2>1 DEF InBlocks
<1>2. CASE pattern[n] \notin Special
  BY <1>2 DEF InBlocks, Special
<1> QED BY <1>1, <1>2

\* A wildcard is what ReplaceAll makes of a quoted star, and of nothing else.
LEMMA WildBlocks ==
  ASSUME NEW S, NEW pattern \in Seq(S), NEW regex \in Seq(S), NEW at,
         InBlocks(pattern, regex, at, QuoteFirst, QuoteSecond)
  PROVE  /\ Len(WithWildcards(regex)) = Len(regex)
         /\ InBlocks(pattern, WithWildcards(regex), at, WildFirst, QuoteSecond)
<1> DEFINE P == Len(pattern)
           L == Len(regex)
           R == WithWildcards(regex)
<1>1. P \in Nat /\ L \in Nat /\ DOMAIN regex = 1..L
  OBVIOUS
<1>2. /\ Len(R) = L
      /\ \A i \in 1..L : R[i] = IF regex[i] = "\\" /\ i < L /\ regex[i + 1] = "*" THEN "." ELSE regex[i]
  <2>1. R = [i \in 1..L |-> IF regex[i] = "\\" /\ i < L /\ regex[i + 1] = "*" THEN "." ELSE regex[i]]
    BY <1>1 DEF WithWildcards
  <2> HIDE DEF R, L
  <2> QED BY <1>1, <2>1
<1> HIDE DEF R, L, P
<1>3. /\ at[0] = 0 /\ at[P] = L
      /\ \A n \in 0..P : at[n] \in Nat /\ at[n] <= L
      /\ \A n \in 1..P :
           IF pattern[n] \in Special
           THEN /\ at[n] = at[n - 1] + 2
                /\ regex[at[n - 1] + 1] = QuoteFirst[pattern[n]]
                /\ regex[at[n - 1] + 2] = QuoteSecond[pattern[n]]
           ELSE at[n] = at[n - 1] + 1 /\ regex[at[n - 1] + 1] = pattern[n]
  BY DEF InBlocks, P, L
<1>4. ASSUME NEW n \in 1..P
      PROVE  IF pattern[n] \in Special
             THEN /\ at[n] = at[n - 1] + 2
                  /\ R[at[n - 1] + 1] = WildFirst[pattern[n]]
                  /\ R[at[n - 1] + 2] = QuoteSecond[pattern[n]]
             ELSE at[n] = at[n - 1] + 1 /\ R[at[n - 1] + 1] = pattern[n]
  <2> DEFINE a == at[n - 1]
  <2>1. n \in 0..P /\ n - 1 \in 0..P /\ a \in Nat /\ at[n] \in Nat /\ at[n] <= L
    BY <1>1, <1>3
  <2>2. CASE pattern[n] \in Special
    <3>1. /\ at[n] = a + 2 /\ a + 1 \in 1..L /\ a + 2 \in 1..L /\ a + 1 < L
          /\ regex[a + 1] = "\\" /\ regex[a + 2] = pattern[n]
      <4>1. at[n] = a + 2 /\ regex[a + 1] = QuoteFirst[pattern[n]] /\ regex[a + 2] = QuoteSecond[pattern[n]]
        BY <1>3, <2>2
      <4>2. QuoteFirst[pattern[n]] = "\\" /\ QuoteSecond[pattern[n]] = pattern[n]
        BY <2>2 DEF QuoteFirst, QuoteSecond
      <4> HIDE DEF a
      <4> QED BY <1>1, <2>1, <4>1, <4>2
    <3>2. R[a + 1] = WildFirst[pattern[n]]
      <4>1. R[a + 1] = IF pattern[n] = "*" THEN "." ELSE "\\"
        <5>1. (a + 1) + 1 = a + 2
          BY <2>1
        <5> HIDE DEF a
        <5> QED BY <1>2, <3>1, <5>1
      <4> QED BY <2>2, <4>1 DEF WildFirst
    <3>3. R[a + 2] = pattern[n]
      <4>1. ~(regex[a + 2] = "\\" /\ a + 2 < L /\ regex[a + 3] = "*")
        <5> SUFFICES ASSUME a + 2 < L PROVE regex[a + 3] # "*"
          OBVIOUS
        <5>1. n # P
          BY <1>3, <3>1
        <5>2. n + 1 \in 1..P /\ (n + 1) - 1 = n
          BY <1>1, <5>1
        <5>3. regex[at[(n + 1) - 1] + 1] # "*"
          BY <5>2, NoBareStar DEF P
        <5>4. at[(n + 1) - 1] + 1 = a + 3
          BY <2>1, <3>1, <5>2
        <5> QED BY <5>3, <5>4
      <4>2. (a + 2) + 1 = a + 3
        BY <2>1
      <4> HIDE DEF a
      <4> QED BY <1>2, <3>1, <4>1, <4>2
    <3>4. QuoteSecond[pattern[n]] = pattern[n]
      BY <2>2 DEF QuoteSecond
    <3> QED BY <2>2, <3>1, <3>2, <3>3, <3>4
  <2>3. CASE pattern[n] \notin Special
    <3>1. at[n] = a + 1 /\ regex[a + 1] = pattern[n] /\ pattern[n] # "\\"
      BY <1>3, <2>3 DEF Special
    <3>2. a + 1 \in 1..L
      BY <1>1, <2>1, <3>1
    <3>3. R[a + 1] = pattern[n]
      BY <1>2, <3>1, <3>2
    <3> QED BY <2>3, <3>1, <3>3
  <2> QED BY <2>2, <2>3
<1>5. InBlocks(pattern, R, at, WildFirst, QuoteSecond)
  BY <1>2, <1>3, <1>4 DEF InBlocks, P
<1> QED BY <1>2, <1>5 DEF R, L

\* h[n] are the places from which the last n symbols of regex match
Matching(regex, key, h) ==
  /\ h[0] = {Len(key)}
  /\ \A n \in 1..Len(regex) : h[n] = Matches(regex, key, h, n)
  /\ MatchString(regex, key) <=> 0 \in h[Len(regex)]

\* MatchString is the end of a run over the symbols of regex.
LEMMA MatchingExists ==
  ASSUME NEW S, NEW regex \in Seq(S), NEW key \in Seq(S)
  PROVE  \E h : Matching(regex, key, h)
<1> DEFINE N == Len(regex)
           K == Len(key)
           D == SUBSET (0..K)
           Body(f, n) == IF n = 0 THEN {K} ELSE Matches(regex, key, f, n)
           G == [n \in 0..N |-> [f \in [0..N -> D] |-> Body(f, n)]]
           Is(f) == f = [n \in 0..N |-> Body(f, n)]
<1>1. N \in Nat /\ K \in Nat /\ {K} \in D
  OBVIOUS
<1>2. \A n, f : Matches(regex, key, f, n) \in D
  BY DEF Matches
<1>3. G \in [0..N -> [[0..N -> D] -> D]]
  <2> HIDE DEF D, N, K
  <2> QED BY <1>1, <1>2
<1>4. ASSUME NEW n \in 0..N, NEW f \in [0..N -> D], NEW g \in [0..N -> D],
             \A m \in 0..N : m < n => f[m] = g[m]
      PROVE  G[n][f] = G[n][g]
  <2>1. CASE n = 0
    <3> HIDE DEF D, N, K
    <3> QED BY <2>1
  <2>2. CASE n # 0
    <3>1. f[n - 1] = g[n - 1] /\ (n > 1 => f[n - 2] = g[n - 2])
      <4>1. n - 1 \in 0..N /\ (n > 1 => n - 2 \in 0..N)
        BY <1>1, <2>2
      <4> HIDE DEF D, N, K
      <4> QED BY <1>1, <1>4, <4>1
    <3>2. Matches(regex, key, f, n) = Matches(regex, key, g, n)
      BY <3>1 DEF Matches
    <3> HIDE DEF D, N, K
    <3> QED BY <3>2
  <2> QED BY <2>1, <2>2
<1>5. PICK f : Unfolds(f, N, D, G)
  <2>1. D # {}
    BY <1>1
  <2>2. Guarded(N, D, G)
    <3> HIDE DEF D, N, G
    <3> QED BY <1>3, <1>4, <2>1 DEF Guarded
  <2> HIDE DEF D, N, G
  <2> QED BY <1>1, <2>2, Unfolding
<1>6. f \in [0..N -> D] /\ \A n \in 0..N : f[n] = Body(f, n)
  <2> HIDE DEF D, N, Body
  <2> QED BY <1>5 DEF Unfolds
<1>7. Is(f)
  <2> HIDE DEF D, N, Body
  <2> QED BY <1>6
<1> DEFINE h == CHOOSE h : Is(h)
<1>8. Is(h)
  BY <1>7, Zenon
<1>9. MatchString(regex, key) <=> 0 \in h[N]
  BY DEF MatchString
<1> HIDE DEF h
<1>10. h[0] = {K} /\ \A n \in 1..N : h[n] = Matches(regex, key, h, n)
  <2> HIDE DEF D, N, K
  <2>1. \A n \in 0..N : h[n] = Body(h, n)
    BY <1>8
  <2>2. 0 \in 0..N /\ \A n \in 1..N : n \in 0..N /\ n # 0
    BY <1>1
  <2> QED BY <2>1, <2>2
<1>11. Matching(regex, key, h)
  BY <1>9, <1>10 DEF Matching
<1> QED BY <1>11, Zenon

\* at shows, from place j of the key on, that symbols n + 1, ... of the pattern admit it
Shows(pattern, key, n, j, at) ==
  /\ at \in [0..Len(pattern) -> 0..Len(key)]
  /\ at[n] = j /\ at[Len(pattern)] = Len(key)
  /\ \A i \in n + 1..Len(pattern) :
       IF pattern[i] = "*" THEN at[i - 1] <= at[i]
       ELSE at[i] = at[i - 1] + 1 /\ key[at[i]] = pattern[i]

\* The places in the key from which symbols n + 1, ... of the pattern admit it
Fits(pattern, key, n) == {j \in 0..Len(key) : \E at : Shows(pattern, key, n, j, at)}

\* One symbol more of the pattern: a star
LEMMA FitsStar ==
  ASSUME NEW S, NEW pattern \in Seq(S), NEW key \in Seq(S), NEW n \in 1..Len(pattern),
         pattern[n] = "*"
  PROVE  Fits(pattern, key, n - 1) = {j \in 0..Len(key) : \E m \in Fits(pattern, key, n) : j <= m}
<1> DEFINE P == Len(pattern)
           K == Len(key)
<1>1. P \in Nat /\ K \in Nat /\ n \in Nat /\ n <= P /\ n - 1 \in 0..P /\ n \in 0..P /\ (n - 1) + 1 = n
  OBVIOUS
<1> HIDE DEF P, K
<1>2. ASSUME NEW j \in 0..K, NEW at, Shows(pattern, key, n - 1, j, at)
      PROVE  \E m \in Fits(pattern, key, n) : j <= m
  <2>1. at \in [0..P -> 0..K] /\ at[n - 1] = j /\ at[P] = K /\ at[n - 1] <= at[n]
    BY <1>1, <1>2 DEF Shows, P, K
  <2>2. Shows(pattern, key, n, at[n], at)
    <3>1. \A i \in n + 1..P : i \in (n - 1) + 1..P
      BY <1>1
    <3> QED BY <1>2, <3>1 DEF Shows, P
  <2>3. at[n] \in 0..K
    BY <1>1, <2>1
  <2>4. at[n] \in Fits(pattern, key, n)
    BY <2>2, <2>3, Zenon DEF Fits, K
  <2> QED BY <2>1, <2>4
<1>3. ASSUME NEW j \in 0..K, NEW m \in 0..K, j <= m, NEW at, Shows(pattern, key, n, m, at)
      PROVE  \E f : Shows(pattern, key, n - 1, j, f)
  <2> DEFINE f == [at EXCEPT ![n - 1] = j]
  <2>1. /\ at \in [0..P -> 0..K] /\ at[n] = m /\ at[P] = K
        /\ \A i \in n + 1..P : IF pattern[i] = "*" THEN at[i - 1] <= at[i]
                               ELSE at[i] = at[i - 1] + 1 /\ key[at[i]] = pattern[i]
    BY <1>3 DEF Shows, P, K
  <2>2. f \in [0..P -> 0..K] /\ f[n - 1] = j /\ \A i \in 0..P : i # n - 1 => f[i] = at[i]
    BY <1>1, <2>1
  <2> HIDE DEF f
  <2>3. f[P] = K
    <3>1. P \in 0..P /\ P # n - 1
      BY <1>1
    <3> QED BY <2>1, <2>2, <3>1
  <2>4. ASSUME NEW i \in (n - 1) + 1..P
        PROVE  IF pattern[i] = "*" THEN f[i - 1] <= f[i]
               ELSE f[i] = f[i - 1] + 1 /\ key[f[i]] = pattern[i]
    <3>1. CASE i = n
      <4>1. f[i - 1] = j /\ f[i] = m
        BY <1>1, <2>1, <2>2, <3>1
      <4> QED BY <1>3, <3>1, <4>1
    <3>2. CASE i # n
      <4>1. i \in n + 1..P /\ i \in 0..P /\ i - 1 \in 0..P /\ i # n - 1 /\ i - 1 # n - 1
        BY <1>1, <3>2
      <4>2. f[i - 1] = at[i - 1] /\ f[i] = at[i]
        BY <2>2, <4>1
      <4> QED BY <2>1, <4>1, <4>2
    <3> QED BY <3>1, <3>2
  <2>5. Shows(pattern, key, n - 1, j, f)
    BY <2>2, <2>3, <2>4 DEF Shows, P, K
  <2> QED BY <2>5, Zenon
<1>4. ASSUME NEW j \in Fits(pattern, key, n - 1)
      PROVE  j \in 0..K /\ \E m \in Fits(pattern, key, n) : j <= m
  <2>1. PICK at : j \in 0..K /\ Shows(pattern, key, n - 1, j, at)
    BY Zenon DEF Fits, K
  <2> QED BY <1>2, <2>1
<1>5. ASSUME NEW j \in 0..K, NEW m \in Fits(pattern, key, n), j <= m
      PROVE  j \in Fits(pattern, key, n - 1)
  <2>1. PICK at : m \in 0..K /\ Shows(pattern, key, n, m, at)
    BY Zenon DEF Fits, K
  <2>2. \E f : Shows(pattern, key, n - 1, j, f)
    BY <1>3, <1>5, <2>1
  <2> QED BY <2>2, Zenon DEF Fits, K
<1> QED BY <1>4, <1>5 DEF K

\* and any other.
LEMMA FitsPlain ==
  ASSUME NEW S, NEW pattern \in Seq(S), NEW key \in Seq(S), NEW n \in 1..Len(pattern),
         pattern[n] # "*"
  PROVE  Fits(pattern, key, n - 1)
           = {j \in 0..Len(key) : j + 1 \in Fits(pattern, key, n) /\ key[j + 1] \in {pattern[n]}}
<1> DEFINE P == Len(pattern)
           K == Len(key)
<1>1. P \in Nat /\ K \in Nat /\ n \in Nat /\ n <= P /\ n - 1 \in 0..P /\ n \in 0..P /\ (n - 1) + 1 = n
  OBVIOUS
<1> HIDE DEF P, K
<1>2. ASSUME NEW j \in 0..K, NEW at, Shows(pattern, key, n - 1, j, at)
      PROVE  j + 1 \in Fits(pattern, key, n) /\ key[j + 1] = pattern[n]
  <2>1. /\ at \in [0..P -> 0..K] /\ at[n - 1] = j /\ at[P] = K
        /\ at[n] = at[n - 1] + 1 /\ key[at[n]] = pattern[n]
    BY <1>1, <1>2 DEF Shows, P, K
  <2>2. Shows(pattern, key, n, at[n], at)
    <3>1. \A i \in n + 1..P : i \in (n - 1) + 1..P
      BY <1>1
    <3> QED BY <1>2, <3>1 DEF Shows, P
  <2>3. at[n] \in 0..K
    BY <1>1, <2>1
  <2>4. at[n] \in Fits(pattern, key, n)
    BY <2>2, <2>3, Zenon DEF Fits, K
  <2> QED BY <2>1, <2>4
<1>3. ASSUME NEW j \in 0..K, j + 1 \in 0..K, key[j + 1] = pattern[n],
             NEW at, Shows(pattern, key, n, j + 1, at)
      PROVE  \E f : Shows(pattern, key, n - 1, j, f)
  <2> DEFINE f == [at EXCEPT ![n - 1] = j]
  <2>1. /\ at \in [0..P -> 0..K] /\ at[n] = j + 1 /\ at[P] = K
        /\ \A i \in n + 1..P : IF pattern[i] = "*" THEN at[i - 1] <= at[i]
                               ELSE at[i] = at[i - 1] + 1 /\ key[at[i]] = pattern[i]
    BY <1>3 DEF Shows, P, K
  <2>2. f \in [0..P -> 0..K] /\ f[n - 1] = j /\ \A i \in 0..P : i # n - 1 => f[i] = at[i]
    BY <1>1, <2>1
  <2> HIDE DEF f
  <2>3. f[P] = K
    <3>1. P \in 0..P /\ P # n - 1
      BY <1>1
    <3> QED BY <2>1, <2>2, <3>1
  <2>4. ASSUME NEW i \in (n - 1) + 1..P
        PROVE  IF pattern[i] = "*" THEN f[i - 1] <= f[i]
               ELSE f[i] = f[i - 1] + 1 /\ key[f[i]] = pattern[i]
    <3>1. CASE i = n
      <4>1. f[i - 1] = j /\ f[i] = j + 1
        BY <1>1, <2>1, <2>2, <3>1
      <4> QED BY <1>3, <3>1, <4>1
    <3>2. CASE i # n
      <4>1. i \in n + 1..P /\ i \in 0..P /\ i - 1 \in 0..P /\ i # n - 1 /\ i - 1 # n - 1
        BY <1>1, <3>2
      <4>2. f[i - 1] = at[i - 1] /\ f[i] = at[i]
        BY <2>2, <4>1
      <4> QED BY <2>1, <4>1, <4>2
    <3> QED BY <3>1, <3>2
  <2>5. Shows(pattern, key, n - 1, j, f)
    BY <2>2, <2>3, <2>4 DEF Shows, P, K
  <2> QED BY <2>5, Zenon
<1>4. ASSUME NEW j \in Fits(pattern, key, n - 1)
      PROVE  j \in 0..K /\ j + 1 \in Fits(pattern, key, n) /\ key[j + 1] = pattern[n]
  <2>1. PICK at : j \in 0..K /\ Shows(pattern, key, n - 1, j, at)
    BY Zenon DEF Fits, K
  <2> QED BY <1>2, <2>1
<1>5. ASSUME NEW j \in 0..K, j + 1 \in Fits(pattern, key, n), key[j + 1] = pattern[n]
      PROVE  j \in Fits(pattern, key, n - 1)
  <2>1. PICK at : j + 1 \in 0..K /\ Shows(pattern, key, n, j + 1, at)
    BY <1>5, Zenon DEF Fits, K
  <2>2. \E f : Shows(pattern, key, n - 1, j, f)
    BY <1>3, <1>5, <2>1
  <2> QED BY <2>2, Zenon DEF Fits, K
<1> QED BY <1>4, <1>5 DEF K

\* One block more of the expression is one symbol more of the pattern.
LEMMA MatchesBlock ==
  ASSUME NEW S, NEW pattern \in Seq(S), NEW key \in Seq(S), NEW regex \in Seq(S), NEW at,
         InBlocks(pattern, regex, at, WildFirst, QuoteSecond), NEW h, Matching(regex, key, h),
         NEW n \in 1..Len(pattern), h[Len(regex) - at[n]] = Fits(pattern, key, n)
  PROVE  h[Len(regex) - at[n - 1]] = Fits(pattern, key, n - 1)
<1> DEFINE P == Len(pattern)
           L == Len(regex)
           a == at[n - 1]
           m == L - a
           c == pattern[n]
<1>1. P \in Nat /\ L \in Nat /\ n \in 0..P /\ n - 1 \in 0..P
  OBVIOUS
<1>2. /\ a \in Nat /\ at[n] \in Nat /\ at[n] <= L
      /\ IF c \in Special
         THEN at[n] = a + 2 /\ regex[a + 1] = WildFirst[c] /\ regex[a + 2] = QuoteSecond[c]
         ELSE at[n] = a + 1 /\ regex[a + 1] = c
  <2>1. /\ \A i \in 0..P : at[i] \in Nat /\ at[i] <= L
        /\ \A i \in 1..P :
             IF pattern[i] \in Special
             THEN /\ at[i] = at[i - 1] + 2
                  /\ regex[at[i - 1] + 1] = WildFirst[pattern[i]]
                  /\ regex[at[i - 1] + 2] = QuoteSecond[pattern[i]]
             ELSE at[i] = at[i - 1] + 1 /\ regex[at[i - 1] + 1] = pattern[i]
    BY DEF InBlocks
  <2> QED BY <1>1, <2>1
<1>3. m \in 1..L /\ L - m + 1 = a + 1 /\ L - m + 2 = a + 2 /\ h[L - at[n]] = Fits(pattern, key, n)
  <2> HIDE DEF a, c
  <2> QED BY <1>1, <1>2
<1>4. h[m] = Matches(regex, key, h, m)
  <2> HIDE DEF m
  <2> QED BY <1>3 DEF Matching
<1> HIDE DEF P, L, a, m, c
<1>5. CASE c = "*"
  <2>1. at[n] = a + 2 /\ regex[a + 1] = "." /\ regex[a + 2] = "*"
    BY <1>2, <1>5 DEF Special, WildFirst, QuoteSecond
  <2>2. m > 1 /\ m - 2 = L - at[n]
    BY <1>1, <1>2, <2>1 DEF m
  <2>3. Matches(regex, key, h, m) = {i \in 0..Len(key) : \E j \in h[m - 2] : i <= j}
    BY <1>3, <2>1, <2>2 DEF Matches, L
  <2>4. Fits(pattern, key, n - 1) = {j \in 0..Len(key) : \E i \in Fits(pattern, key, n) : j <= i}
    BY <1>5, FitsStar DEF c
  <2>5. h[m] = Fits(pattern, key, n - 1)
    BY <1>3, <1>4, <2>2, <2>3, <2>4
  <2> QED BY <2>5 DEF m, L, a
<1>6. CASE c \in Special /\ c # "*"
  <2>1. at[n] = a + 2 /\ regex[a + 1] = "\\" /\ regex[a + 2] = c
    BY <1>2, <1>6 DEF WildFirst, QuoteSecond
  <2>2. m > 1 /\ m - 2 = L - at[n]
    BY <1>1, <1>2, <2>1 DEF m
  <2>3. Matches(regex, key, h, m)
          = {i \in 0..Len(key) : i + 1 \in h[m - 2] /\ key[i + 1] \in {c}}
    <3>1. regex[L - m + 1] = "\\" /\ regex[L - m + 1] # "." /\ regex[L - m + 2] = c
      BY <1>3, <2>1
    <3> QED BY <2>2, <3>1 DEF Matches, L
  <2>4. Fits(pattern, key, n - 1)
          = {j \in 0..Len(key) : j + 1 \in Fits(pattern, key, n) /\ key[j + 1] \in {c}}
    BY <1>6, FitsPlain DEF c
  <2>5. h[m] = Fits(pattern, key, n - 1)
    BY <1>3, <1>4, <2>2, <2>3, <2>4
  <2> QED BY <2>5 DEF m, L, a
<1>7. CASE c \notin Special
  <2>1. at[n] = a + 1 /\ regex[a + 1] = c /\ c # "." /\ c # "\\" /\ c # "*"
    BY <1>2, <1>7 DEF Special
  <2>2. m - 1 = L - at[n]
    BY <1>1, <1>2, <2>1 DEF m
  <2>3. Matches(regex, key, h, m)
          = {i \in 0..Len(key) : i + 1 \in h[m - 1] /\ key[i + 1] \in {c}}
    <3>1. regex[L - m + 1] = c
      BY <1>3, <2>1
    <3> QED BY <2>1, <3>1 DEF Matches, L
  <2>4. Fits(pattern, key, n - 1)
          = {j \in 0..Len(key) : j + 1 \in Fits(pattern, key, n) /\ key[j + 1] \in {c}}
    BY <2>1, FitsPlain DEF c
  <2>5. h[m] = Fits(pattern, key, n - 1)
    BY <1>3, <1>4, <2>2, <2>3, <2>4
  <2> QED BY <2>5 DEF m, L, a
<1> QED BY <1>5, <1>6, <1>7 DEF Special

\* Admits is what the whole pattern shows.
LEMMA AdmitsIsFits ==
  ASSUME NEW S, NEW pattern \in Seq(S), NEW key \in Seq(S)
  PROVE  Admits(pattern, key) <=> 0 \in Fits(pattern, key, 0)
<1>1. Len(key) \in Nat /\ 0 \in 0..Len(key) /\ 0 + 1 = 1
  OBVIOUS
<1>2. Admits(pattern, key) <=> \E at : Shows(pattern, key, 0, 0, at)
  BY <1>1 DEF Admits, Shows
<1> QED BY <1>1, <1>2, Zenon DEF Fits

\* MatchKeyPattern admits the keys its pattern says and no others, each star standing for
\* some symbols and any other symbol for itself: neither QuoteMeta nor the replacement of
\* the quoted stars gives a symbol of the pattern another meaning.
THEOREM PatternsMeanWhatTheySay ==
  ASSUME NEW S, Special \subseteq S, NEW pattern \in Seq(S), NEW key \in Seq(S)
  PROVE  MatchKeyPattern(pattern, key) <=> Admits(pattern, key)
<1> DEFINE P == Len(pattern)
           Q == QuoteMeta(pattern)
           R == WithWildcards(Q)
           L == Len(R)
<1>1. PICK at : Q \in Seq(S) /\ InBlocks(pattern, Q, at, QuoteFirst, QuoteSecond)
  BY QuoteBlocks
<1>2. L = Len(Q) /\ InBlocks(pattern, R, at, WildFirst, QuoteSecond)
  <2> HIDE DEF Q
  <2> QED BY <1>1, WildBlocks
<1>3. R \in Seq(S)
  <2>1. "." \in S
    BY DEF Special
  <2>2. R = [i \in DOMAIN Q |-> IF Q[i] = "\\" /\ i < Len(Q) /\ Q[i + 1] = "*" THEN "." ELSE Q[i]]
    BY DEF WithWildcards
  <2> HIDE DEF Q, R
  <2>3. DOMAIN Q = 1..Len(Q) /\ Len(Q) \in Nat /\ \A i \in 1..Len(Q) : Q[i] \in S
    BY <1>1
  <2>4. R \in [1..Len(Q) -> S]
    BY <2>1, <2>2, <2>3
  <2> QED BY <2>3, <2>4
<1> HIDE DEF Q, R
<1>4. PICK h : Matching(R, key, h)
  BY <1>3, MatchingExists
<1>5. /\ P \in Nat /\ L \in Nat /\ at[0] = 0 /\ at[P] = L
      /\ h[0] = {Len(key)} /\ (MatchString(R, key) <=> 0 \in h[L])
  BY <1>2, <1>3, <1>4 DEF InBlocks, Matching
<1> DEFINE U == {d \in 0..P : h[L - at[P - d]] = Fits(pattern, key, P - d)}
<1>6. 0 \in U
  <2>1. Fits(pattern, key, P) = {Len(key)}
    <3>1. ASSUME NEW j \in Fits(pattern, key, P) PROVE j = Len(key)
      <4>1. PICK f : Shows(pattern, key, P, j, f)
        BY Zenon DEF Fits
      <4> QED BY <4>1 DEF Shows
    <3> DEFINE f == [i \in 0..P |-> Len(key)]
    <3>2. Shows(pattern, key, P, Len(key), f)
      BY DEF Shows
    <3>3. Len(key) \in 0..Len(key)
      OBVIOUS
    <3> HIDE DEF f
    <3>4. Len(key) \in Fits(pattern, key, P)
      BY <3>2, <3>3, Zenon DEF Fits
    <3> QED BY <3>1, <3>4
  <2>2. P - 0 = P /\ L - at[P] = 0 /\ 0 \in 0..P
    <3> HIDE DEF P, L
    <3> QED BY <1>5
  <2> HIDE DEF P, L
  <2> QED BY <1>5, <2>1, <2>2
<1>7. ASSUME NEW d \in 1..P, d - 1 \in U PROVE d \in U
  <2> DEFINE n == P - (d - 1)
  <2>1. n \in 1..P /\ n - 1 = P - d /\ d \in 0..P
    BY <1>5
  <2>2. h[L - at[n]] = Fits(pattern, key, n)
    BY <1>7
  <2> HIDE DEF n
  <2>3. h[L - at[n - 1]] = Fits(pattern, key, n - 1)
    BY <1>2, <1>3, <1>4, <2>1, <2>2, MatchesBlock
  <2> QED BY <2>1, <2>3
<1>8. P \in U
  <2>1. 0..P \subseteq U
    <3> HIDE DEF U, P
    <3> QED BY <1>5, <1>6, <1>7, UpTo
  <2> QED BY <1>5, <2>1
<1>9. h[L] = Fits(pattern, key, 0)
  <2>1. P - P = 0 /\ L - at[0] = L
    BY <1>5
  <2> QED BY <1>8, <2>1
<1>10. MatchString(R, key) <=> Admits(pattern, key)
  BY <1>5, <1>9, AdmitsIsFits
<1>11. pattern = <<"*">> => Admits(pattern, key)
  <2> SUFFICES ASSUME pattern = <<"*">> PROVE Admits(pattern, key)
    OBVIOUS
  <2> DEFINE f == [i \in 0..1 |-> IF i = 0 THEN 0 ELSE Len(key)]
  <2>1. Len(pattern) = 1 /\ pattern[1] = "*" /\ Len(key) \in Nat
    OBVIOUS
  <2>2. f \in [0..1 -> 0..Len(key)] /\ f[0] = 0 /\ f[1] = Len(key)
    BY <2>1
  <2>3. \A i \in 1..1 : i = 1 /\ i - 1 = 0
    OBVIOUS
  <2> HIDE DEF f
  <2> QED BY <2>1, <2>2, <2>3 DEF Admits
<1> QED BY <1>10, <1>11 DEF MatchKeyPattern, Q, R

-----------------------------------------------------------------------------
(* The texts and the keys that TextsMeanWhatTheySay is about                *)

\* Texts are sequences that are not empty.
LEMMA TextsAreSequences ==
  ASSUME NEW symbols, NEW text \in Texts(symbols)
  PROVE  text \in Seq(symbols) /\ text # <<>>
<1>1. PICK n \in 1..MaxLength : text \in [1..n -> symbols]
  BY DEF Texts
<1>2. n \in Nat /\ n # 0
  BY <1>1 DEF MaxLength
<1> QED BY <1>1, <1>2

\* Wherever a token can be used, the texts of tokens are accepted and their patterns admit
\* the keys they say: both hold of any texts.
THEOREM TextsAreMeant == Spec => []TextsMeanWhatTheySay
<1>1. TextsAreAccepted
  <2> DEFINE S == Marks \cup {"id", "time", "n", "read", "write", "*", ".", "\\", ":", "a"}
  <2>1. ASSUME NEW token \in Created, OptionsAccepted(token)
        PROVE  Accepted(CreateShortSignedTokenV2(token, "key"), {token}, "key", "secret")
    <3>1. PICK p \in Patterns, q \in Texts(Permissions) :
            token = [id |-> <<"id">>, pattern |-> p, expires |-> <<"time">>,
                     permissions |-> q, maxUses |-> <<"n">>]
      BY DEF Created
    <3>2. p \in Seq({"*", ".", "\\", ":", "a"}) /\ q \in Seq(Permissions)
      BY TextsAreSequences DEF Patterns
    <3>3. p \in Seq(S) /\ q \in Seq(S)
      BY <3>2 DEF Permissions
    <3>4. <<"id">> \in Seq(S) /\ <<"time">> \in Seq(S) /\ <<"n">> \in Seq(S)
      OBVIOUS
    <3>5. Avoids(<<"id">>, ":") /\ Avoids(<<"time">>, ":") /\ Avoids(<<"n">>, ":")
      <4>1. "id" # ":" /\ "time" # ":" /\ "n" # ":"
        OBVIOUS
      <4> QED BY <4>1, AvoidsOne, Zenon
    <3>6. Marks \subseteq S
      OBVIOUS
    <3> HIDE DEF S
    <3>7. IsToken(token, S)
      BY <3>1, <3>3, <3>4, <3>5 DEF IsToken
    <3> QED BY <2>1, <3>6, <3>7, CreatedTextsAreAccepted
  <2>2. \A n \in 1..12 : PaddedLength(TrimmedLength(n)) = EncodedLength(n)
    BY PaddingIsPutBack
  <2> QED BY <2>1, <2>2 DEF TextsAreAccepted
<1>2. PatternsAgree
  <2> DEFINE S == {"*", ".", "\\", ":", "a", "b"}
  <2>1. ASSUME NEW p \in Patterns, NEW k \in TokenKeys PROVE MatchKeyPattern(p, k) <=> Admits(p, k)
    <3>1. p \in Seq({"*", ".", "\\", ":", "a"}) /\ k \in Seq({"a", "b", "."})
      BY TextsAreSequences DEF Patterns, TokenKeys
    <3>2. p \in Seq(S) /\ k \in Seq(S)
      BY <3>1
    <3>3. Special \subseteq S
      BY DEF Special
    <3> HIDE DEF S
    <3> QED BY <3>2, <3>3, PatternsMeanWhatTheySay
  <2> QED BY <2>1 DEF PatternsAgree
<1>3. TextsMeanWhatTheySay
  BY <1>1, <1>2 DEF TextsMeanWhatTheySay
<1> QED BY <1>3, PTL
=============================================================================
