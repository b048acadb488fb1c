---------------------------- MODULE VaultRegister ----------------------------
(***************************************************************************)
(* What the main-vault store promises to the rest of the program: one      *)
(* durable register.  A write that was acknowledged is never lost; a write *)
(* that was not may or may not have happened, and while it is in doubt the *)
(* register may move between it and what it replaces; a read answers what  *)
(* the register holds, or nothing.                                         *)
(***************************************************************************)
EXTENDS Naturals

CONSTANT MaxVersions

VARIABLES
  stored,  \* the write the register holds, 0 for none
  issued,  \* writes attempted so far
  acked,   \* the last write acknowledged
  answer   \* the last read: 0 when it found nothing

vars == <<stored, issued, acked, answer>>

Init ==
  /\ stored = 0
  /\ issued = 0
  /\ acked = 0
  /\ answer = 0

StartWrite ==
  /\ issued < MaxVersions
  /\ issued' = issued + 1
  /\ UNCHANGED <<stored, acked, answer>>

\* A write in doubt takes effect, or is taken back by its own error handling
\* or by a crash: never past the last acknowledged one
Settle ==
  /\ stored' \in acked..issued
  /\ UNCHANGED <<issued, acked, answer>>

\* Only the newest write is acknowledged, and only once it is stored
Acknowledge ==
  /\ stored = issued
  /\ acked' = issued
  /\ answer' = issued
  /\ UNCHANGED <<stored, issued>>

Read ==
  /\ answer' \in {0, stored}
  /\ UNCHANGED <<stored, issued, acked>>

Next == StartWrite \/ Settle \/ Acknowledge \/ Read

Spec == Init /\ [][Next]_vars
=============================================================================
