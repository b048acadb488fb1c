------------------------------ MODULE Plaintext ------------------------------
(***************************************************************************)
(* The commands that take secrets out of the vault in plaintext and bring  *)
(* them back: `export --output`, `import` and `copy` (cmd/vault/commands.go, *)
(* internal/export, internal/clipboard).  The vault lock admits one of     *)
(* them at a time (VaultLock); other programs use the clipboard whenever   *)
(* they like, and a command may die at any moment.                         *)
(***************************************************************************)
EXTENDS ExportCodec, FiniteSets

CONSTANTS
  SortedKeys,  \* the keys considered, in the order of sort.Strings
  Values,      \* the values considered
  MaxSets      \* bound: values set

Keys    == ToSet(SortedKeys)
Symbols == UNION {ToSet(v) : v \in Values}
Empty   == [k \in {} |-> <<>>]

\* The import of an export trims the keys: what is left of one is considered too
ASSUME KeysAssumption ==
  /\ SortedKeys \in Seq(Keys)
  /\ \A k \in Keys : /\ k \in Seq(ToSet(k)) /\ ValidKey(k)
                     /\ ValidKey(TrimSpace(k)) => TrimSpace(k) \in Keys
ASSUME ValuesAssumption ==
  /\ <<>> \in Values
  /\ \A v \in Values : v \in Seq(ToSet(v))
ASSUME MaxSetsAssumption == MaxSets \in Nat

VARIABLES
  vault,     \* the saved vault
  file,      \* the export file, a text
  exported,  \* ghost: the vault the file was last opened to export
  complete,  \* ghost: that export was written to its end
  clip,      \* whose text the clipboard holds: a "secret" that a running `copy`
             \* answers for, one "left" behind, that of an "other" program, none
  read,      \* what ClearIfUnchanged read from it
  raced,     \* ghost: another program wrote the clipboard since that read
  pc,        \* the next step of the running command
  sets       \* values set so far

data      == <<vault, sets>>
export    == <<file, exported, complete>>
clipboard == <<clip, read, raced>>
vars      == <<data, export, clipboard, pc>>

Goto(from, to) == pc = from /\ pc' = to

-----------------------------------------------------------------------------
(* The vault                                                                *)

\* `set` and a saved vault
SetKey ==
  /\ pc = "idle"
  /\ sets < MaxSets
  /\ sets' = sets + 1
  /\ \E k \in Keys, v \in Values :
       vault' = [x \in DOMAIN vault \cup {k} |-> IF x = k THEN v ELSE vault[x]]
  /\ UNCHANGED <<export, clipboard, pc>>

\* `delete` of a key that is there
DeleteKey ==
  /\ pc = "idle"
  /\ \E k \in DOMAIN vault : vault' = [x \in DOMAIN vault \ {k} |-> vault[x]]
  /\ UNCHANGED <<sets, export, clipboard, pc>>

\* `clear`, confirmed
Clear ==
  /\ pc = "idle"
  /\ vault' = Empty
  /\ UNCHANGED <<sets, export, clipboard, pc>>

-----------------------------------------------------------------------------
(* Export and import                                                        *)

\* os.WriteFile truncates the file in place
OpenExport ==
  /\ Goto("idle", "exporting")
  /\ file' = <<>>
  /\ exported' = vault
  /\ complete' = FALSE
  /\ UNCHANGED <<data, clipboard>>

WriteExport ==
  /\ Goto("exporting", "idle")
  /\ file' = RenderExport(vault, SortedKeys)
  /\ complete' = TRUE
  /\ UNCHANGED <<data, exported, clipboard>>

\* The process dies in the write, or the disk is full: a part of the text stays
InterruptExport ==
  /\ Goto("exporting", "idle")
  /\ \E n \in 0..Len(RenderExport(vault, SortedKeys)) :
       file' = SubSeq(RenderExport(vault, SortedKeys), 1, n)
  /\ UNCHANGED <<data, exported, complete, clipboard>>

\* `import` and its save, which may fail and then leaves the vault as it was
ImportFile ==
  /\ pc = "idle"
  /\ vault' = Import(vault, file)
  /\ UNCHANGED <<sets, export, clipboard, pc>>

-----------------------------------------------------------------------------
(* Copy.  Values are not told apart: no other program writes the same one.  *)

\* handleCopyCommand up to the sleep, or to its end with --ttl=0
Copy ==
  /\ pc = "idle"
  /\ vault # Empty
  /\ \/ pc' = "sleeping" /\ clip' = "secret"
     \/ pc' = pc /\ clip' = "left"
  /\ UNCHANGED <<data, export, read, raced>>

\* mutant: the tool that reads adds a newline of its own
ReadWithNewline ==
  /\ Goto("sleeping", "comparing")
  /\ read' = "altered"
  /\ UNCHANGED <<data, export, clip, raced>>

\* The time to live is over; ClearIfUnchanged reads
ReadClipboard ==
  /\ Goto("sleeping", "comparing")
  /\ read' = clip
  /\ UNCHANGED <<data, export, clip, raced>>

Finish == pc' = "idle" /\ read' = "empty" /\ raced' = FALSE

\* mutant: the clipboard is cleared whatever it holds
ClearAlways ==
  /\ pc = "comparing"
  /\ clip' = "empty"
  /\ Finish
  /\ UNCHANGED <<data, export>>

\* and clears what it found unchanged
ClearIfUnchanged ==
  /\ pc = "comparing"
  /\ clip' = IF read = "secret" THEN "empty" ELSE clip
  /\ Finish
  /\ UNCHANGED <<data, export>>

-----------------------------------------------------------------------------
(* The environment                                                          *)

\* The clipboard tool fails to read or to clear, or `copy` is killed
CopyAborts ==
  /\ pc \in {"sleeping", "comparing"}
  /\ clip' = IF clip = "secret" THEN "left" ELSE clip
  /\ Finish
  /\ UNCHANGED <<data, export>>

OtherCopies ==
  /\ clip' = "other"
  /\ raced' = (pc = "comparing")
  /\ UNCHANGED <<data, export, read, pc>>

-----------------------------------------------------------------------------
Init ==
  /\ vault = Empty
  /\ sets = 0
  /\ file = <<>> /\ exported = Empty /\ complete = FALSE
  /\ clip = "empty" /\ read = "empty" /\ raced = FALSE
  /\ pc = "idle"

Next ==
  \/ SetKey \/ DeleteKey \/ Clear
  \/ OpenExport \/ WriteExport \/ InterruptExport \/ ImportFile
  \/ Copy \/ ReadClipboard \/ ClearIfUnchanged
  \/ CopyAborts \/ OtherCopies

\* The process runs: its sleep ends and its clipboard tool returns.  Nothing
\* makes the user enter a command, the disk fail, or another program copy.
Spec == Init /\ [][Next]_vars /\ WF_vars(ReadClipboard) /\ WF_vars(ClearIfUnchanged)

-----------------------------------------------------------------------------
(* Properties                                                               *)

Texts  == {"empty", "secret", "left", "other"}

\* A value in a vault may be one that an import cut short
IsVault(v) == DOMAIN v \subseteq Keys /\ v \in [DOMAIN v -> Seq(Symbols)]

\* What an export is made of: the symbols of RenderExport and ShellQuote and
\* those of keys and values
Marks    == {"export ", "=", "nl", "'", "\\"}
Alphabet == Marks \cup Symbols \cup UNION {ToSet(k) : k \in Keys}

\* A vault holds allowed keys, with values made of the symbols that were set,
\* whatever was exported, cut short and imported.
TypeOK ==
  /\ IsVault(vault) /\ IsVault(exported)
  /\ file \in Seq(Alphabet)
  /\ complete \in BOOLEAN /\ raced \in BOOLEAN
  /\ clip \in Texts /\ read \in Texts
  /\ pc \in {"idle", "exporting", "sleeping", "comparing"}
  /\ sets \in 0..MaxSets

\* Keys that come back under their own name: ValidateKey lets a key begin or end
\* with white space that Import's TrimSpace removes
Importable(v) == \A k \in DOMAIN v : TrimSpace(k) = k

\* The import of a complete export brings back the vault it was made of, every
\* value to the last quote, backslash and newline, and leaves the other keys
\* as they are (ShellQuote against SplitImportLines and ParseImportValue).
RoundTrip ==
  complete /\ Importable(exported) => Import(vault, file) = Over(exported, vault)

\* The import of an export that was interrupted, which nothing marks as such,
\* sets keys to their exported values, but for one, which may get a beginning
\* of its value in place of the one the vault holds.
InterruptedExport ==
  LET got == Import(vault, file)
      Kept(k)   == k \in DOMAIN vault /\ got[k] = vault[k]
      Cut(k)    == k \in DOMAIN exported /\ IsPrefix(got[k], exported[k])
      Damaged   == {k \in DOMAIN got : ~Kept(k) /\ ~(Cut(k) /\ got[k] = exported[k])}
  IN Importable(exported) =>
       /\ DOMAIN vault \subseteq DOMAIN got
       /\ Cardinality(Damaged) <= 1
       /\ \A k \in Damaged : Cut(k)

\* `copy` clears another program's text only when that program wrote it between
\* the read and the write of ClearIfUnchanged.
ClearsOwnText == [][clip = "other" /\ clip' = "empty" => raced]_vars

\* A copied secret leaves the clipboard, unless its `copy` was told not to
\* clear it, failed to, or died.
SecretLeavesClipboard == clip = "secret" ~> clip # "secret"
=============================================================================
