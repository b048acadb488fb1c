----------------------------- MODULE TokenCodec -----------------------------
(***************************************************************************)
(* The compact token: how `create-token` writes a token's claims into one  *)
(* text and `use-token` reads them back (cmd/vault/token_manage_cli.go,    *)
(* CreateShortSignedTokenV2 and ParseAndValidateProductionToken of         *)
(* internal/token), and which keys its pattern admits (MatchKeyPattern).   *)
(*                                                                         *)
(* A text is a sequence of symbols: ":" and "," are told apart from the    *)
(* rest; "v2", a token ID, a time and a number are one symbol each, for    *)
(* none of them contains ":".  A compact token is its payload text and its *)
(* signature, which stands for the HMAC under a key and is one more field  *)
(* of the text.  A token's base64 form is exact once its padding is back;  *)
(* only its length is modelled.                                            *)
(***************************************************************************)
EXTENDS Naturals, Sequences, SequencesExt

Join(fields, sep) ==
  LET joined[n \in 0..Len(fields)] ==
        CASE n = 0 -> <<>>
          [] n = 1 -> fields[1]
          [] OTHER -> joined[n - 1] \o <<sep>> \o fields[n]
  IN joined[Len(fields)]

\* What the next symbol does to the parts so far
SplitSymbol(parts, symbol, sep) ==
  IF symbol = sep THEN Append(parts, <<>>)
  ELSE [parts EXCEPT ![Len(parts)] = Append(@, symbol)]

Split(text, sep) ==
  LET parts[n \in 0..Len(text)] ==
        IF n = 0 THEN << <<>> >> ELSE SplitSymbol(parts[n - 1], text[n], sep)
  IN parts[Len(text)]

-----------------------------------------------------------------------------
(* Creation.  A token is a record of its claims: the options of the command *)
(* and what the command adds.                                               *)

Permissions == {"read", "write"}

\* parseTokenCreationOptions; the limits of duration and uses are left out
OptionsAccepted(token) ==
  /\ token.pattern # <<>> /\ ":" \notin ToSet(token.pattern)
  /\ token.permissions # <<>> /\ ToSet(token.permissions) \subseteq Permissions

JoinPermissions(permissions) == Join([i \in DOMAIN permissions |-> <<permissions[i]>>], ",")

CreateShortSignedTokenV2(token, key) ==
  LET payload == Join(<< <<"v2">>, token.id, token.pattern, token.expires,
                         JoinPermissions(token.permissions), token.maxUses>>, ":")
  IN [payload |-> payload, signature |-> [key |-> key, of |-> payload]]

\* base64 of n bytes, without and with its padding
EncodedLength(n) == 4 * ((n + 2) \div 3)
TrimmedLength(n) == (8 * n + 5) \div 6

\* AddBase64Padding
PaddedLength(n) == n + CASE n % 4 = 2 -> 2 [] n % 4 = 3 -> 1 [] OTHER -> 0

-----------------------------------------------------------------------------
(* Use                                                                      *)

\* The signature is the field after those of the payload
Versioned(parts) == Len(parts) = 6 /\ parts[1] = <<"v2">>
WellFormed(text) ==
  LET parts == Split(text.payload, ":") IN Len(parts) = 5 \/ Versioned(parts)

\* What a well-formed text says of its token
Claims(text) ==
  LET parts  == Split(text.payload, ":")
      fields == IF Versioned(parts) THEN Tail(parts) ELSE parts
  IN [id |-> fields[1], pattern |-> fields[2], expires |-> fields[3],
      permissions |-> Split(fields[4], ","), maxUses |-> fields[5]]

\* tokenClaimsMatch compares the permissions as they were joined
TokenClaimsMatch(stored, claims) ==
  /\ stored.pattern = claims.pattern
  /\ stored.expires = claims.expires
  /\ JoinPermissions(stored.permissions) = Join(claims.permissions, ",")
  /\ stored.maxUses = claims.maxUses

ValidTokenSignature(text, key) == text.signature = [key |-> key, of |-> text.payload]

\* A text of the first release is signed with the shared vault's secretKey.  The
\* token is one of `registry`, neither expired nor used up (TokenSync has those).
Accepted(text, registry, masterKey, secretKey) ==
  /\ WellFormed(text)
  /\ ValidTokenSignature(text, IF Versioned(Split(text.payload, ":")) THEN masterKey ELSE secretKey)
  /\ \E stored \in registry :
       stored.id = Claims(text).id /\ TokenClaimsMatch(stored, Claims(text))

-----------------------------------------------------------------------------
(* MatchKeyPattern translates a pattern to a regular expression             *)

\* A dot and a backslash for all that have a meaning in regular expressions
Special == {"*", ".", "\\"}

\* mutant: dots are not quoted
QuoteMetaButDots(pattern) ==
  FlattenSeq([i \in DOMAIN pattern |->
    IF pattern[i] \in Special \ {"."} THEN <<"\\", pattern[i]>> ELSE <<pattern[i]>>])

QuoteMeta(pattern) ==
  FlattenSeq([i \in DOMAIN pattern |->
    IF pattern[i] \in Special THEN <<"\\", pattern[i]>> ELSE <<pattern[i]>>])

\* Every \* becomes .*
WithWildcards(regex) ==
  [i \in DOMAIN regex |->
     IF regex[i] = "\\" /\ i < Len(regex) /\ regex[i + 1] = "*" THEN "." ELSE regex[i]]

\* The places in the key from which the last n symbols of regex match the rest of it,
\* from[m] being those for the last m: .* and a quoted symbol are two symbols
Matches(regex, key, from, n) ==
  LET symbol == regex[Len(regex) - n + 1]
      next   == regex[Len(regex) - n + 2]
      Reads(symbols, left) ==
        {i \in 0..Len(key) : i + 1 \in from[left] /\ key[i + 1] \in symbols}
  IN CASE n > 1 /\ symbol = "." /\ next = "*" ->
            {i \in 0..Len(key) : \E j \in from[n - 2] : i <= j}
       [] n > 1 /\ symbol = "\\" -> Reads({next}, n - 2)
       [] OTHER -> Reads(IF symbol = "." THEN ToSet(key) ELSE {symbol}, n - 1)

\* Anchored at both ends
MatchString(regex, key) ==
  LET from[n \in 0..Len(regex)] ==
        IF n = 0 THEN {Len(key)} ELSE Matches(regex, key, from, n)
  IN 0 \in from[Len(regex)]

MatchKeyPattern(pattern, key) ==
  pattern = <<"*">> \/ MatchString(WithWildcards(QuoteMeta(pattern)), key)
=============================================================================
