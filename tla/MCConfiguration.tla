--------------------------- MODULE MCConfiguration ---------------------------
(***************************************************************************)
(* What the security document says of Configuration and the code does not  *)
(* keep, once scrypt_r ranges over everything config.go accepts.           *)
(***************************************************************************)
EXTENDS Configuration

\* "scrypt-based `MYMV v2` files ... also remain readable" (security.md:180): the
\* vault saved with kdf="scrypt" can be opened under the settings it was saved with.
ScryptVaultsReadable ==
  main.format = "v2" /\ main.meta = ScryptConfig(config) => Opens(main, config)
=============================================================================
