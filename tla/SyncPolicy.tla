----------------------------- MODULE SyncPolicy -----------------------------
(***************************************************************************)
(* internal/sync/sync.go: the timestamp policy that decides what a main    *)
(* vault takes from the shared token vault.  A vault is a record whose     *)
(* fields are data, the per-key update times and the per-key delete times; *)
(* other fields are carried along.  Keys are independent of each other, so *)
(* the loops over a Go map are sets of keys.                               *)
(***************************************************************************)
EXTENDS Naturals

CONSTANTS
  Keys,
  Values,
  Absent,   \* a key that is not in the map
  Empty,    \* the empty string, which a missing key also reads as
  MaxTime   \* bound: the wall-clock readings; 0 is Go's zero time

ASSUME AbsentAssumption == Absent \notin Values \cup {Empty}
ASSUME TimeAssumption   == MaxTime \in Nat \ {0}

Times   == 0..MaxTime
Stored  == Values \cup {Absent}

Present(v)   == {k \in Keys : v.data[k] # Absent}
Lookup(v, k) == IF k \in Present(v) THEN v.data[k] ELSE Empty

\* f, with g instead on the keys in S
Overwrite(f, S, g) == [k \in Keys |-> IF k \in S THEN g[k] ELSE f[k]]
Everywhere(x)      == [k \in Keys |-> x]

MarkKeysUpdated(v, S, now) ==
  [v EXCEPT !.updated = Overwrite(@, S, Everywhere(now)),
            !.deleted = Overwrite(@, S, Everywhere(0))]

MarkKeysDeleted(v, S, now) ==
  [v EXCEPT !.updated = Overwrite(@, S, Everywhere(0)),
            !.deleted = Overwrite(@, S, Everywhere(now))]

\* mutant: a shared value as old as the main one, or older, wins
ShouldImportOlder(m, s, k) == Lookup(m, k) # Lookup(s, k)

\* mutant: a key without a main timestamp is left alone
ShouldImportKnown(m, s, k) ==
  Lookup(m, k) # Lookup(s, k) /\ m.updated[k] # 0 /\ s.updated[k] > m.updated[k]

ShouldImportSharedValue(m, s, k) ==
  /\ Lookup(m, k) # Lookup(s, k)
  /\ s.updated[k] = 0 \/ m.updated[k] = 0 \/ s.updated[k] > m.updated[k]

\* The first loop: shared values that win
ImportKeys(m, s) == {k \in Present(s) : ShouldImportSharedValue(m, s, k)}

\* The second loop: shared delete markers that win
DeleteKeys(m, s) ==
  {k \in Present(m) : /\ s.deleted[k] # 0
                      /\ m.updated[k] = 0 \/ s.deleted[k] > m.updated[k]}

TakeUpdates(m, s, now) ==
  LET S == ImportKeys(m, s)
  IN MarkKeysUpdated([m EXCEPT !.data = Overwrite(@, S, s.data)], S, now)

\* mutant: the delete marker is honoured but the key is kept
TakeDeletesKeepingData(m, s, now) == MarkKeysDeleted(m, DeleteKeys(m, s), now)

TakeDeletes(m, s, now) ==
  LET S == DeleteKeys(m, s)
  IN MarkKeysDeleted([m EXCEPT !.data = Overwrite(@, S, Everywhere(Absent))], S, now)

\* ImportSharedVault: updates first, then deletes against the updated vault
ImportSharedVault(m, s, now) == TakeDeletes(TakeUpdates(m, s, now), s, now)

\* ImportResult.Imported > 0 || ImportResult.Deleted > 0
ImportChanges(m, s) ==
  ImportKeys(m, s) # {} \/ DeleteKeys(TakeUpdates(m, s, MaxTime), s) # {}

\* mutant: the delete loop is missing from the preview
PreviewUpdatesOnly(m, s) == [imports |-> ImportKeys(m, s), deletes |-> {}]

\* PreviewSharedVault: the keys reported by `sync-tokens --dry-run`
PreviewSharedVault(m, s) ==
  [imports |-> ImportKeys(m, s), deletes |-> DeleteKeys(m, s)]
=============================================================================
