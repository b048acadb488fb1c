----------------------------- MODULE MCPlaintext -----------------------------
(***************************************************************************)
(* Keys and values for Plaintext: each has a place in the codec where it   *)
(* could go wrong.                                                         *)
(***************************************************************************)
EXTENDS Plaintext

\* The second reads as a comment, the third is trimmed on import to the first
MCKeys == <<<<"x">>, <<"#", "x">>, <<"x", "ws">>>>

MCValues ==
  {<<>>, <<"x">>, <<"\\">>,
   <<"x", "'", "x">>, <<"\\", "'", "'">>, <<"'", "\\">>,
   <<"nl", "#", "=">>, <<"'", "nl", "\"">>, <<"sp", "x", "nl">>}
=============================================================================
