--------------------------- MODULE MCVaultStorage ---------------------------
(***************************************************************************)
(* What the comments of storage.go say of VaultStorage and the code does   *)
(* not keep.                                                               *)
(***************************************************************************)
EXTENDS VaultStorage

\* "A bad password against an existing vault must fail instead of trying stale
\* data" (storage.go:63-64): no step of an open replaces a primary vault that
\* is intact.
BadPasswordKeepsPrimary ==
  [][pc = "restoreBackup" /\ dir["primary"] \in flushed
       => dir'["primary"] = dir["primary"]]_vars
=============================================================================
