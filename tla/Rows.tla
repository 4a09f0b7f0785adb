-------------------------------- MODULE Rows --------------------------------
(***************************************************************************)
(* Lines and rows: what FormatSpec asks tmux to print for each object, the *)
(* text tmux prints, and how splitLines and ParseRows take it apart again. *)
(*                                                                         *)
(* Nothing escapes a value in a row.  A newline in one would end the row   *)
(* and a tab would begin another field, so Arg asks tmux to replace them,  *)
(* the tab everywhere but in the last column, where ParseRows can put it   *)
(* back.                                                                   *)
(*                                                                         *)
(* An entry of a spec is [var, kind]: a bare variable, a format            *)
(* expression, used as it stands, or another form, wrapped as it stands.   *)
(***************************************************************************)
EXTENDS Naturals, Sequences, SequencesExt

Tab == 9
Newline == 10
Return == 13
SpaceByte == 32

Entry(var, kind) == [var |-> var, kind |-> kind]
isBareVar(f) == f.kind = "bare"

(* The parts of s between the bytes sep, one more than there are of these: *)
(* a byte begins another part or continues the last one.                   *)
Parted(parts, b, sep) ==
  IF b = sep THEN Append(parts, <<>>) ELSE [parts EXCEPT ![Len(parts)] = Append(@, b)]

Split(s, sep) ==
  LET parts[n \in 0..Len(s)] ==
        IF n = 0 THEN << <<>> >> ELSE Parted(parts[n - 1], s[n], sep)
  IN parts[Len(s)]

Join(parts, sep) ==
  FlattenSeq([k \in 1..Len(parts) |-> (IF k > 1 THEN <<sep>> ELSE <<>>) \o parts[k]])

(* strings.Cut at a separator: what is before the first one and after it.  *)
CutAt(s, sep) ==
  LET at == {i \in 1..Len(s) : s[i] = sep}
      first == CHOOSE i \in at : \A j \in at : i <= j
  IN IF at = {} THEN [before |-> s, after |-> <<>>, found |-> FALSE]
     ELSE [before |-> SubSeq(s, 1, first - 1), after |-> SubSeq(s, first + 1, Len(s)),
           found |-> TRUE]

TrimSuffix(s, b) == IF s # <<>> /\ Last(s) = b THEN Front(s) ELSE s

-----------------------------------------------------------------------------
(* What is asked for: the bytes each column is to have replaced.           *)

(* Mutant: a newline is only kept out of the columns a tab is.             *)
rowSafeVarTabLike(dropTab) == IF dropTab THEN {Tab, Newline} ELSE {}

rowSafeVar(dropTab) == {Newline} \union (IF dropTab THEN {Tab} ELSE {})

Arg(spec) ==
  [i \in 1..Len(spec) |->
    IF isBareVar(spec[i]) THEN rowSafeVar(i < Len(spec)) ELSE {}]

-----------------------------------------------------------------------------
(* tmux, external: a line per object, a column per entry, the bytes it was *)
(* asked to replace turned into spaces.  An object maps variables to values.*)

Replaced(v, bytes) == [i \in 1..Len(v) |-> IF v[i] \in bytes THEN SpaceByte ELSE v[i]]

Lines(lines) == FlattenSeq([i \in 1..Len(lines) |-> lines[i] \o <<Newline>>])

Listing(spec, objects) ==
  LET asked == Arg(spec)
      Row(o) == Join([i \in 1..Len(spec) |-> Replaced(o[spec[i].var], asked[i])], Tab)
  IN Lines([k \in 1..Len(objects) |-> Row(objects[k])])

-----------------------------------------------------------------------------
(* What is made of the text *)

(* The last line loses a carriage return before the lines do.              *)
splitLines(text) ==
  IF text = <<>> THEN <<>>
  ELSE LET body == TrimSuffix(TrimSuffix(text, Newline), Return)
           lines == Split(body, Newline)
       IN [i \in 1..Len(lines) |-> TrimSuffix(lines[i], Return)]

(* A blank line is no row, unless the spec has one column.                 *)
skips(spec, line) == line = <<>> /\ Len(spec) > 1

TooFew == [ok |-> FALSE, rows |-> <<>>]

(* Fields beyond the last column belong to it.                             *)
Fields(spec, line) ==
  LET vals == Split(line, Tab)
      n == Len(spec)
  IN IF Len(vals) <= n THEN vals
     ELSE Append(SubSeq(vals, 1, n - 1), Join(SubSeq(vals, n, Len(vals)), Tab))

(* One line more; one that has too few fields fails the whole listing.     *)
TakeLine(spec, read, line) ==
  IF ~read.ok \/ skips(spec, line) THEN read
  ELSE IF Len(Split(line, Tab)) < Len(spec) THEN TooFew
  ELSE [ok |-> TRUE, rows |-> Append(read.rows, Fields(spec, line))]

ParseRows(spec, lines) ==
  LET read[n \in 0..Len(lines)] ==
        IF n = 0 THEN [ok |-> TRUE, rows |-> <<>>] ELSE TakeLine(spec, read[n - 1], lines[n])
  IN read[Len(lines)]

(* Row.Lookup: the first column of that entry.                             *)
Lookup(spec, row, f) ==
  LET columns == {i \in 1..Len(spec) : spec[i] = f}
  IN row[CHOOSE i \in columns : \A j \in columns : i <= j]
=============================================================================
