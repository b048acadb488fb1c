----------------------------- MODULE MCTokenSync -----------------------------
(***************************************************************************)
(* Instances of TokenSync for TLC, and what the repository's documents say *)
(* of it that the code does not keep; and the compact tokens of TokenCodec *)
(* over bounded texts.                                                     *)
(***************************************************************************)
EXTENDS TokenSync, TokenCodec, TLC

Symmetry == Permutations(Keys) \cup Permutations(Values) \cup Permutations(Tokens)

\* "a token with --max-uses=1 can complete its first allowed command and is
\* rejected on the next use" (CHANGELOG.md:522): no token completes more commands
\* than its --max-uses, whatever master commands run in between.
UsesBounded == \A t \in Tokens : used[t] <= MaxUses

\* "master mutations mirror the full main vault back ... so deletes remain deleted"
\* (user-manual.md:525): a key whose delete was acknowledged is not imported again.
DeletesStayDeleted ==
  pc = "cleanup" /\ trouble # "lossy"
    => \A k \in Keys : allowed[k] = {Absent} => mem.data[k] = Absent

-----------------------------------------------------------------------------
(* Compact tokens                                                           *)

MaxLength == 3
Texts(symbols) == UNION {[1..n -> symbols] : n \in 1..MaxLength}
Patterns  == Texts({"*", ".", "\\", ":", "a"})
TokenKeys == Texts({"a", "b", "."})

Created ==
  {[id |-> <<"id">>, pattern |-> p, expires |-> <<"time">>, permissions |-> q, maxUses |-> <<"n">>]
     : p \in Patterns, q \in Texts(Permissions)}

TextsAreAccepted ==
  /\ \A token \in {t \in Created : OptionsAccepted(t)} :
       Accepted(CreateShortSignedTokenV2(token, "key"), {token}, "key", "secret")
  /\ \A n \in 1..12 : PaddedLength(TrimmedLength(n)) = EncodedLength(n)

\* What a pattern means: each * stands for some symbols of the key, any other
\* symbol for itself; at[i] of the key's symbols match the first i of the pattern
Admits(pattern, key) ==
  \E at \in [0..Len(pattern) -> 0..Len(key)] :
    /\ at[0] = 0 /\ at[Len(pattern)] = Len(key)
    /\ \A i \in 1..Len(pattern) :
         IF pattern[i] = "*" THEN at[i - 1] <= at[i]
         ELSE at[i] = at[i - 1] + 1 /\ key[at[i]] = pattern[i]

PatternsAgree == \A p \in Patterns, k \in TokenKeys : MatchKeyPattern(p, k) <=> Admits(p, k)

\* The text of a token that can be used is accepted, for no pattern and no list of
\* permissions breaks it up (CreateShortSignedTokenV2 against
\* ParseAndValidateProductionToken), and its pattern admits the keys it says and no
\* others, whatever symbols of regular expressions are in it (MatchKeyPattern).
TextsMeanWhatTheySay == \A t \in Tokens : Usable(t) => TextsAreAccepted /\ PatternsAgree
=============================================================================
