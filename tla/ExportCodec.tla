----------------------------- MODULE ExportCodec -----------------------------
(***************************************************************************)
(* The text of an export and its reading back: RenderExport, ShellQuote,   *)
(* SplitImportLines, ParseImportValue and Import of internal/commands.     *)
(*                                                                         *)
(* A text is a sequence of symbols, one for each kind of character these   *)
(* functions tell apart: "'", "\\", "\"", "=", "#", newline "nl", space    *)
(* "sp", "ws" for the white space TrimSpace removes but ValidateKey allows *)
(* (vertical tab, form feed, the Unicode spaces), any other for a plain    *)
(* character.  The word "export " is one symbol.                           *)
(*                                                                         *)
(* A vault is a function from its keys to their values.  A loop is a       *)
(* function from the number of its passes to the variables of the code.    *)
(***************************************************************************)
EXTENDS Naturals, Sequences, SequencesExt

White == {"sp", "nl", "ws"}

\* Refused in a key (with "\t" "\r" "," ":" ";", which add no case; nor does
\* the limit of 255 bytes)
KeyForbids == {"sp", "nl", "'", "\\", "\"", "="}

ValidKey(key) == key # <<>> /\ ToSet(key) \cap KeyForbids = {}

Trim(s, chars) ==
  LET kept == {i \in DOMAIN s : s[i] \notin chars}
  IN IF kept = {} THEN <<>> ELSE SubSeq(s, Min(kept), Max(kept))
TrimSpace(s) == Trim(s, White)

\* Position of the first c in s, 0 if there is none
IndexOf(s, c) == IF c \in ToSet(s) THEN Min({i \in DOMAIN s : s[i] = c}) ELSE 0

\* How a single quote is written inside single quotes
Escape == <<"'", "\\", "'", "'">>

\* mutant: the escaped quote is not looked for
EscapeNowhere(text, i) == FALSE

\* An escape begins at position i of text
EscapeAt(text, i) == i + 3 <= Len(text) /\ \A d \in 0..3 : text[i + d] = Escape[d + 1]

-----------------------------------------------------------------------------
(* RenderExport                                                             *)

ShellQuote(value) ==
  <<"'">> \o FlattenSeq([i \in DOMAIN value |->
                          IF value[i] = "'" THEN Escape ELSE <<value[i]>>]) \o <<"'">>

ExportLine(key, value) == <<"export ">> \o key \o <<"=">> \o ShellQuote(value) \o <<"nl">>

\* One line per key, in the order of sort.Strings, which the caller gives
RenderExport(vault, sortedKeys) ==
  FlattenSeq([i \in DOMAIN sortedKeys |->
    IF sortedKeys[i] \in DOMAIN vault THEN ExportLine(sortedKeys[i], vault[sortedKeys[i]])
    ELSE <<>>])

-----------------------------------------------------------------------------
(* Import                                                                   *)

\* What symbol i of content does to the lines read, the current one, whether a
\* quote is open and the number of symbols of an escape still to be copied
SplitSymbol(s, content, i) ==
  LET copied == [s EXCEPT !.line = Append(@, content[i])]
  IN CASE s.skip > 0 -> [copied EXCEPT !.skip = @ - 1]
       [] s.skip = 0 /\ s.open /\ EscapeAt(content, i) -> [copied EXCEPT !.skip = 3]
       [] s.skip = 0 /\ ~s.open /\ content[i] = "nl" ->
            [s EXCEPT !.lines = Append(@, s.line), !.line = <<>>]
       [] OTHER -> [copied EXCEPT !.open = @ # (content[i] = "'")]

\* A newline inside single quotes does not end the line
SplitImportLines(content) ==
  LET after[i \in 0..Len(content)] ==
        IF i = 0 THEN [lines |-> <<>>, line |-> <<>>, open |-> FALSE, skip |-> 0]
        ELSE SplitSymbol(after[i - 1], content, i)
      end == after[Len(content)]
  IN IF end.line = <<>> THEN end.lines ELSE Append(end.lines, end.line)

\* What symbol i of a value does to what is parsed: between its quoted pieces
\* there may be white space (an end of the value was trimmed before)
UnquoteSymbol(s, value, i) ==
  CASE s.skip > 0 -> [s EXCEPT !.skip = @ - 1]
    [] s.skip = 0 /\ s.open /\ EscapeAt(value, i) ->
         [s EXCEPT !.parsed = Append(@, "'"), !.skip = 3]
    [] s.skip = 0 /\ value[i] = "'" /\ ~(s.open /\ EscapeAt(value, i)) -> [s EXCEPT !.open = ~@]
    [] s.skip = 0 /\ value[i] # "'" /\ s.open -> [s EXCEPT !.parsed = Append(@, value[i])]
    [] OTHER -> [s EXCEPT !.ok = @ /\ value[i] \in White]

\* A set of one result, or none where ParseImportValue returns an error
Unquote(value) ==
  LET after[i \in 0..Len(value)] ==
        IF i = 0 THEN [parsed |-> <<>>, open |-> FALSE, skip |-> 0, ok |-> TRUE]
        ELSE UnquoteSymbol(after[i - 1], value, i)
      end == after[Len(value)]
  IN IF end.ok /\ ~end.open THEN {end.parsed} ELSE {}

\* mutant: a value that does not parse is taken as it stands
ParseImportValueLenient(value) == IF Unquote(value) = {} THEN {value} ELSE Unquote(value)

\* Quoted values as ShellQuote writes them, and unquoted ones
ParseImportValue(value) ==
  IF value # <<>> /\ value[1] # "'" THEN {Trim(value, {"\""})} ELSE Unquote(value)

\* What one line sets: a set of at most one key and value
Entry(text) ==
  LET line == TrimSpace(text)
      body == IF IsPrefix(<<"export ">>, line) THEN Tail(line) ELSE line
      eq   == IndexOf(body, "=")
      key  == TrimSpace(SubSeq(body, 1, eq - 1))
  IN IF line = <<>> \/ line[1] = "#" \/ eq = 0 \/ ~ValidKey(key) THEN {}
     ELSE {[key |-> key, value |-> v] :
             v \in ParseImportValue(TrimSpace(SubSeq(body, eq + 1, Len(body))))}

\* Function f, and g where f is not defined
Over(f, g) == [k \in DOMAIN f \cup DOMAIN g |-> IF k \in DOMAIN f THEN f[k] ELSE g[k]]

\* A line wins over what the vault holds
ImportLine(vault, text) ==
  Over([k \in {e.key : e \in Entry(text)} |-> (CHOOSE e \in Entry(text) : TRUE).value], vault)

\* and over earlier lines
ImportLines(vault, lines) ==
  LET after[i \in 0..Len(lines)] ==
        IF i = 0 THEN vault ELSE ImportLine(after[i - 1], lines[i])
  IN after[Len(lines)]

Import(vault, content) == ImportLines(vault, SplitImportLines(content))
=============================================================================
