------------------------------- MODULE Hooks --------------------------------
(***************************************************************************)
(* ShowHooks reads three option tables with a tmux command each and merges *)
(* what they print, while other programs set and unset hooks and the       *)
(* target may end.                                                         *)
(*                                                                         *)
(* A hook is an array: an element is a record of the hook's name (base),   *)
(* its index and its command, printed as "base[index] command".  The       *)
(* target is one object or, for ShowGlobalHooks, the server; either may    *)
(* end during the call.  Which window a target resolves to does not change *)
(* here.                                                                   *)
(***************************************************************************)
EXTENDS Naturals, Sequences, SequencesExt

CONSTANTS
  Base,        \* hook names
  TableOf,     \* the one table tmux keeps each in
  Command,     \* commands that are not empty
  Empty,       \* the empty command
  MaxIndex,    \* bound: the highest index of an element
  MaxChanges   \* bound: changes made by others

ASSUME EmptyAssumption == Empty \notin Command
ASSUME HooksAssumption == MaxIndex \in Nat /\ MaxChanges \in Nat

Tables == <<"session", "window", "pane">>

ASSUME TableOfAssumption == TableOf \in [Base -> ToSet(Tables)]

VARIABLES
  set,       \* the elements tmux holds for the target
  alive,     \* the target exists
  pc, at,    \* the call, and how many tables it has read
  lines,     \* what the tables have printed: elements, as sets go
  result,    \* the map, from printed names to commands
  changes,
  held,      \* history: the elements in place ever since the call began
  seen       \* history: those that were in place at some time since

callVars == <<pc, at, lines, result>>
vars == <<set, alive, callVars, changes, held, seen>>

Element == [base : Base, index : 0..MaxIndex, command : Command]
Bare == MaxIndex + 1     \* in place of an index in a name that has lost it
Name == [base : Base, index : 0..Bare]

Of(elements, b) == {e \in elements : e.base = b}
NoMap == [n \in {} |-> Empty]

Init ==
  /\ \E f \in [Base -> Command \union {Empty}] :
       set = {[base |-> b, index |-> 0, command |-> f[b]] : b \in {x \in Base : f[x] # Empty}}
  /\ alive = TRUE
  /\ pc = "idle" /\ at = 0 /\ lines = {} /\ result = NoMap
  /\ changes = 0 /\ held = {} /\ seen = {}

-----------------------------------------------------------------------------
(* Other programs, and other callers *)

Becomes(elements) ==
  /\ changes < MaxChanges /\ changes' = changes + 1
  /\ alive
  /\ set' = elements
  /\ held' = held \intersect elements
  /\ seen' = IF pc = "reading" THEN seen \union elements ELSE seen
  /\ UNCHANGED <<alive, callVars>>

checkHookCommand(command) == command # Empty

(* set-hook without an index clears the array first.                       *)
SetHook(b, command) ==
  /\ checkHookCommand(command)
  /\ Becomes((set \ Of(set, b)) \union {[base |-> b, index |-> 0, command |-> command]})

UnsetHook(b) == Becomes(set \ Of(set, b))

(* set-hook -a, by another program: a free index.                          *)
AppendHook(b, command) ==
  \E i \in 0..MaxIndex \ {e.index : e \in Of(set, b)} :
    Becomes(set \union {[base |-> b, index |-> i, command |-> command]})

TargetEnds ==
  /\ alive
  /\ alive' = FALSE /\ set' = {} /\ held' = {}
  /\ UNCHANGED <<callVars, changes, seen>>

-----------------------------------------------------------------------------
(* The call *)

ShowHooks ==
  /\ pc = "idle"
  /\ pc' = "reading" /\ at' = 0 /\ lines' = {} /\ result' = NoMap
  /\ held' = set /\ seen' = set
  /\ UNCHANGED <<set, alive, changes>>

(* Mutant: plain show-hooks -t, the session table and no other.            *)
hookScopesPlain == <<"session">>

hookScopes == Tables

(* A line of a name and a command; without one it is a hook that is not    *)
(* set, and is passed over.                                                *)
Printed(table) == {e \in set : TableOf[e.base] = table /\ e.command # Empty}

(* Mutant: the index is taken off whatever else there is.                  *)
keyAlwaysBare(e, printed) == [base |-> e.base, index |-> Bare]

(* A hook of one element loses its index.                                  *)
key(e, printed) ==
  [base |-> e.base, index |-> IF Of(printed, e.base) = {e} THEN Bare ELSE e.index]

(* Of two lines under one name a map keeps one.                            *)
Merged(printed) ==
  [n \in {key(e, printed) : e \in printed} |->
     (CHOOSE e \in printed : key(e, printed) = n).command]

(* A map is made only when every table has been read; a target that is     *)
(* gone answers for all of them.                                           *)
ReadTable ==
  /\ pc = "reading"
  /\ IF alive
     THEN /\ at' = at + 1
          /\ lines' = lines \union Printed(hookScopes[at'])
          /\ IF at' = Len(hookScopes)
             THEN pc' = "map" /\ result' = Merged(lines')
             ELSE UNCHANGED <<pc, result>>
     ELSE pc' = "map" /\ result' = NoMap /\ UNCHANGED <<at, lines>>
  /\ UNCHANGED <<set, alive, changes, held, seen>>

(* Any other failure of a command is the call's.                           *)
ReadFails ==
  /\ pc = "reading" /\ pc' = "error"
  /\ UNCHANGED <<set, alive, at, lines, result, changes, held, seen>>

Next ==
  \/ \E b \in Base : \/ \E command \in Command \union {Empty} : SetHook(b, command)
                     \/ \E command \in Command : AppendHook(b, command)
                     \/ UnsetHook(b)
  \/ TargetEnds \/ ShowHooks \/ ReadTable \/ ReadFails

Spec == Init /\ [][Next]_vars

-----------------------------------------------------------------------------
TypeOK ==
  /\ set \subseteq Element /\ held \subseteq set /\ lines \subseteq seen
  /\ alive \in BOOLEAN /\ changes \in 0..MaxChanges
  /\ pc \in {"idle", "reading", "map", "error"} /\ at \in 0..Len(Tables)
  /\ DOMAIN result \subseteq Name /\ Range(result) \subseteq Command

Reported(e) == \E n \in DOMAIN result :
  n.base = e.base /\ n.index \in {e.index, Bare} /\ result[n] = e.command

(* Whatever is changed between the three reads, a hook that was in place   *)
(* from the call to its end is in the map, on whichever table tmux keeps   *)
(* it and however many elements it has.  Only the end of the target, even  *)
(* after tables were read, leaves it out.                                  *)
HeldIsReported == pc = "map" => \A e \in held : Reported(e)

(* Every entry is an element that really was in place during the call, its *)
(* index where the name still shows one; and a name that has lost it names *)
(* a hook that had no other element throughout.                            *)
ReportedWasThere ==
  pc = "map" => \A n \in DOMAIN result :
    /\ \E e \in seen : e.base = n.base /\ e.command = result[n] /\ n.index \in {e.index, Bare}
    /\ n.index = Bare => \A e, f \in Of(held, n.base) : e = f
=============================================================================
