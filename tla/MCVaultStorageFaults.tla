------------------------ MODULE MCVaultStorageFaults ------------------------
(***************************************************************************)
(* VaultStorage with failing calls and power losses, and one auxiliary     *)
(* variable, which tells whether a removal of the running command's own    *)
(* clean-up has failed.                                                    *)
(***************************************************************************)
EXTENDS VaultStorage

VARIABLE stuck  \* auxiliary: this command's clean-up could not remove a file

FaultyInit == Init /\ stuck = FALSE

FaultyNext ==
  /\ Next
  /\ stuck' = \/ stuck /\ pc' # "idle"
              \/ pc = "cleanMarker" /\ pc' = "cleanTmp" /\ dir'["marker"] # 0
              \/ pc = "cleanTmp" /\ pc' = "ready" /\ dir'["tmp"] # 0

FaultySpec == FaultyInit /\ [][FaultyNext]_<<vars, stuck>>

\* After an open of an existing vault, or an acknowledged save, nothing is left
\* that makes the next SaveFileAtomic fail on O_EXCL: neither the marker nor the
\* temporary file of a save that a crash, a power loss or a failing call cut
\* short, in its error paths or in a recovery.  The exception is a clean-up of
\* this very open that could not remove them (cleanupInterruptedSaveMarker in
\* the returns of LoadBytes).
SavableAfterOpen ==
  pc = "ready" /\ dir["primary"] # 0 /\ ~stuck => dir["marker"] = 0 /\ dir["tmp"] = 0
=============================================================================
