---------------------------- MODULE MCVaultLock ----------------------------
(***************************************************************************)
(* Instances of VaultLock for TLC, and what the user manual says of it     *)
(* that the code does not keep.                                            *)
(***************************************************************************)
EXTENDS VaultLock, TLC

\* "Vault commands use .myminivault.lock to serialize separate CLI processes while
\* they access runtime vault files" (user-manual.md:531): while a command runs,
\* no step of another process changes vault.db.
Serialized ==
  [][\A p \in Processes :
       pc[p] \in Body /\ pc'[p] = pc[p] => home'["vault"] = home["vault"]]_vars
=============================================================================
