--------------------------- MODULE OptionReaders ----------------------------
(***************************************************************************)
(* Options: what SetOption and UnsetOption let through, and what ShowOption *)
(* and ShowOptions make of the lines of show-options.                      *)
(*                                                                         *)
(* show-options prints "name value" with the value escaped and the name    *)
(* as it is stored, and both readers split at the first space: that they   *)
(* split at the right one is a matter of which names the writers refuse.   *)
(*                                                                         *)
(* A table is the sequence of the lines there are to print, each an option *)
(* or an element of an array: [of: the option, name: what is printed, value]. *)
(***************************************************************************)
EXTENDS ValueCodecs, Rows

Open == 91
Close == 93
Digits == Zero..(Zero + 9)

-----------------------------------------------------------------------------
(* The writers *)

(* Mutant: only the space that separates the fields is refused.            *)
checkOptionNameSpaces(name) == name # <<>> /\ ~Contains(name, Space)

(* Refused: an empty name, and every byte at or below space.               *)
checkOptionName(name) == name # <<>> /\ \A i \in 1..Len(name) : name[i] > Space

(* tmux refuses "name[index]" for what is no array; external.              *)
Indexed(name) ==
  /\ name # <<>> /\ Last(name) = Close
  /\ \E i \in 2..(Len(name) - 2) :
       name[i] = Open /\ \A j \in (i + 1)..(Len(name) - 1) : name[j] \in Digits

(* The lines that are of an option, and those that are not.                *)
OnlyOf(table, stored) ==
  FlattenSeq([i \in 1..Len(table) |-> IF table[i].of = stored THEN <<table[i]>> ELSE <<>>])
Without(table, stored) ==
  FlattenSeq([i \in 1..Len(table) |-> IF table[i].of = stored THEN <<>> ELSE <<table[i]>>])

(* What set-option stores, with the fault of 3.4 in name and value.        *)
SetOptionScoped(faulty, table, name, value) ==
  LET stored == DollarFault(faulty, name)
  IN IF ~checkOptionName(name) \/ Indexed(name) THEN table
     ELSE Append(Without(table, stored),
                 [of |-> stored, name |-> stored, value |-> DollarFault(faulty, value)])

UnsetOption(faulty, table, name) ==
  IF checkOptionName(name) THEN Without(table, DollarFault(faulty, name)) ELSE table

-----------------------------------------------------------------------------
(* show-options, external: a line per option or element, the name alone,   *)
(* or a pair of quotes, where there is no value.                           *)

LineOf(o) ==
  {o.name \o <<Space>> \o p : p \in Printed(o.value)}
    \union (IF o.value = <<>> THEN {o.name} ELSE {})

(* Every way it may print the table.                                       *)
Listings(table) ==
  {lines \in [1..Len(table) -> UNION {LineOf(table[i]) : i \in 1..Len(table)}] :
     \A i \in 1..Len(table) : lines[i] \in LineOf(table[i])}

-----------------------------------------------------------------------------
(* The readers *)

(* "[index]" comes off only if the index is decimal and not empty; the     *)
(* bracket is the last one.                                                *)
splitArrayElement(printed) ==
  LET opens == {i \in 1..Len(printed) : printed[i] = Open}
      open == CHOOSE i \in opens : \A j \in opens : j <= i
      index == SubSeq(printed, open + 1, Len(printed) - 1)
  IN IF /\ opens # {} /\ open > 1 /\ Last(printed) = Close
        /\ index # <<>> /\ \A j \in 1..Len(index) : index[j] \in Digits
     THEN [base |-> SubSeq(printed, 1, open - 1), indexed |-> TRUE]
     ELSE [base |-> printed, indexed |-> FALSE]

isArrayElement(printed, name) ==
  splitArrayElement(printed).indexed /\ splitArrayElement(printed).base = name

NotSet == [is |-> "absent"]
IsArray == [is |-> "array"]
Refused == [is |-> "refused"]
SetTo(v) == [is |-> "set", value |-> v]

(* The answer for one name, from the lines tmux printed for it; an unknown *)
(* name, a missing target or server prints none and is an absence too.     *)
ShowOption(faulty, lines, name) ==
  IF ~checkOptionName(name) THEN Refused
  ELSE IF lines = <<>> \/ lines[1] = <<>> THEN NotSet
  ELSE LET field == CutAt(lines[1], Space)
       IN IF isArrayElement(field.before, name) THEN IsArray
          ELSE IF ~field.found THEN SetTo(<<>>)
          ELSE SetTo(decodeStored(faulty, unquoteOptionValue(field.after)))

(* The entry a line becomes; a later one replaces it under the same name.  *)
entryOf(faulty, line) ==
  LET field == CutAt(line, Space)
  IN [name |-> decodeStored(faulty, field.before),
      value |-> IF field.found
                THEN decodeStored(faulty, unquoteOptionValue(field.after)) ELSE <<>>]

ShowOptions(faulty, lines) ==
  LET used == {i \in 1..Len(lines) : lines[i] # <<>>}
      entry == [i \in used |-> entryOf(faulty, lines[i])]
  IN {entry[i] : i \in {j \in used : \A k \in used : k > j => entry[k].name # entry[j].name}}
=============================================================================
