----------------------------- MODULE HooksProofs ----------------------------
(***************************************************************************)
(* What ShowHooks reports is right for any hooks, tables and commands, any *)
(* number of elements and any number of changes between its reads.         *)
(*                                                                         *)
(* The argument: a hook is kept in one table, so that all its elements are *)
(* printed by one command, at one moment, and the elements printed under   *)
(* one name and index are one (SingleValued).  What has been in place      *)
(* since the call began is among the lines as soon as its table was read   *)
(* (ReadInv), and the key of a line tells it from every other, so that no  *)
(* line is lost in the map (KeyTells).                                     *)
(***************************************************************************)
EXTENDS Hooks, TLAPS

SingleValued(elements) ==
  \A e, f \in elements : e.base = f.base /\ e.index = f.index => e = f

TablesRead(n) == {Tables[i] : i \in 1..n}

SetInv ==
  /\ set \subseteq Element /\ SingleValued(set)
  /\ held \subseteq set
  /\ alive \in BOOLEAN /\ (~alive => set = {})

LinesInv ==
  /\ lines \subseteq Element /\ SingleValued(lines)
  /\ lines \subseteq seen

ReadInv ==
  /\ pc \in {"idle", "reading", "map", "error"}
  /\ pc = "reading" =>
       /\ at \in 0..2
       /\ set \subseteq seen
       /\ \A e \in lines : TableOf[e.base] \in TablesRead(at)
       /\ \A e \in held : TableOf[e.base] \in TablesRead(at) => e \in lines

IInv == SetInv /\ LinesInv /\ ReadInv /\ HeldIsReported /\ ReportedWasThere

-----------------------------------------------------------------------------
(* The tables are read one after another, each once, and after the third   *)
(* there is none left: hookScopes names every table a hook may be kept in. *)
LEMMA TablesInOrder ==
  ASSUME NEW n \in 0..2
  PROVE  /\ Tables[n + 1] \notin TablesRead(n)
         /\ TablesRead(n + 1) = TablesRead(n) \union {Tables[n + 1]}
         /\ TablesRead(0) = {}
         /\ \A b \in Base : TableOf[b] \in TablesRead(3)
         /\ Len(hookScopes) = 3
<1>1. Tables[n + 1] \notin TablesRead(n)
  <2>1. CASE n = 0 BY <2>1 DEF Tables, TablesRead
  <2>2. CASE n = 1 BY <2>2 DEF Tables, TablesRead
  <2>3. CASE n = 2 BY <2>3 DEF Tables, TablesRead
  <2> QED BY <2>1, <2>2, <2>3
<1>2. TablesRead(n + 1) = TablesRead(n) \union {Tables[n + 1]}
  <2>1. 1..(n + 1) = 1..n \union {n + 1} OBVIOUS
  <2> QED BY <2>1 DEF TablesRead
<1>3. TablesRead(0) = {} BY DEF TablesRead
<1>4. \A b \in Base : TableOf[b] \in TablesRead(3)
  <2>1. ToSet(Tables) = TablesRead(3)
    BY DEF ToSet, Tables, TablesRead
  <2> QED BY <2>1, TableOfAssumption
<1>5. Len(hookScopes) = 3 BY DEF hookScopes, Tables
<1> QED BY <1>1, <1>2, <1>3, <1>4, <1>5

(* The key of an element among those of its call tells it from all others, *)
(* as key's counting is there to make sure.                                *)
LEMMA KeyTells ==
  ASSUME NEW printed, printed \subseteq Element, SingleValued(printed),
         NEW e \in printed, NEW f \in printed, key(e, printed) = key(f, printed)
  PROVE  e = f
<1>1. e \in Element /\ f \in Element OBVIOUS
<1>2. e.index \in 0..MaxIndex /\ f.index \in 0..MaxIndex BY <1>1 DEF Element
<1>3. Bare \notin 0..MaxIndex BY HooksAssumption DEF Bare
<1>4. e.base = f.base BY DEF key
<1>5. e \in Of(printed, e.base) /\ f \in Of(printed, e.base) BY <1>4 DEF Of
<1>6. CASE Of(printed, e.base) = {e} BY <1>5, <1>6
<1>7. CASE Of(printed, e.base) # {e}
  <2>1. key(e, printed).index = e.index BY <1>7 DEF key
  <2>2. key(f, printed).index = e.index BY <2>1
  <2>3. Of(printed, f.base) # {f} BY <2>2, <1>2, <1>3 DEF key
  <2>4. key(f, printed).index = f.index BY <2>3 DEF key
  <2> QED BY <2>2, <2>4, <1>4 DEF SingleValued
<1> QED BY <1>6, <1>7

(* What the map holds: under the key of every line its command, and        *)
(* nothing else.                                                           *)
LEMMA MergedIsExact ==
  ASSUME NEW printed, printed \subseteq Element, SingleValued(printed)
  PROVE  /\ \A e \in printed : /\ key(e, printed) \in DOMAIN Merged(printed)
                               /\ Merged(printed)[key(e, printed)] = e.command
         /\ \A n \in DOMAIN Merged(printed) : \E e \in printed :
              n = key(e, printed) /\ Merged(printed)[n] = e.command
<1>1. ASSUME NEW e \in printed
      PROVE  /\ key(e, printed) \in DOMAIN Merged(printed)
             /\ Merged(printed)[key(e, printed)] = e.command
  <2> DEFINE n == key(e, printed)
             f == CHOOSE x \in printed : key(x, printed) = n
  <2>1. n \in DOMAIN Merged(printed) /\ Merged(printed)[n] = f.command BY DEF Merged
  <2>2. f \in printed /\ key(f, printed) = n OBVIOUS
  <2>3. f = e BY <2>2, KeyTells
  <2> QED BY <2>1, <2>3
<1>2. ASSUME NEW n \in DOMAIN Merged(printed)
      PROVE  \E e \in printed : n = key(e, printed) /\ Merged(printed)[n] = e.command
  <2>1. PICK e \in printed : n = key(e, printed) BY DEF Merged
  <2> QED BY <2>1, <1>1
<1> QED BY <1>1, <1>2

-----------------------------------------------------------------------------
(* Changes keep what is set single-valued and typed.                       *)
LEMMA ChangesKeepSets ==
  ASSUME set \subseteq Element, SingleValued(set), NEW b \in Base
  PROVE  /\ \A command \in Command :
              LET new == (set \ Of(set, b)) \union
                           {[base |-> b, index |-> 0, command |-> command]}
              IN new \subseteq Element /\ SingleValued(new)
         /\ (set \ Of(set, b)) \subseteq Element /\ SingleValued(set \ Of(set, b))
         /\ \A command \in Command : \A i \in 0..MaxIndex \ {e.index : e \in Of(set, b)} :
              LET new == set \union {[base |-> b, index |-> i, command |-> command]}
              IN new \subseteq Element /\ SingleValued(new)
<1>1. ASSUME NEW command \in Command
      PROVE  LET new == (set \ Of(set, b)) \union
                          {[base |-> b, index |-> 0, command |-> command]}
             IN new \subseteq Element /\ SingleValued(new)
  <2> DEFINE one == [base |-> b, index |-> 0, command |-> command]
  <2>1. one \in Element BY HooksAssumption DEF Element
  <2>2. \A e \in set \ Of(set, b) : e.base # b BY DEF Of
  <2> QED BY <2>1, <2>2 DEF SingleValued
<1>2. (set \ Of(set, b)) \subseteq Element /\ SingleValued(set \ Of(set, b))
  BY DEF SingleValued
<1>3. ASSUME NEW command \in Command, NEW i \in 0..MaxIndex \ {e.index : e \in Of(set, b)}
      PROVE  LET new == set \union {[base |-> b, index |-> i, command |-> command]}
             IN new \subseteq Element /\ SingleValued(new)
  <2> DEFINE one == [base |-> b, index |-> i, command |-> command]
  <2>1. one \in Element BY DEF Element
  <2>2. \A e \in set : e.base = b => e.index # i BY DEF Of
  <2> QED BY <2>1, <2>2 DEF SingleValued
<1> QED BY <1>1, <1>2, <1>3

(* A change of the tables disturbs nothing the call has read.              *)
LEMMA BecomesKeeps ==
  ASSUME IInv, NEW elements, elements \subseteq Element, SingleValued(elements),
         Becomes(elements)
  PROVE  IInv'
<1> USE DEF IInv, Becomes, callVars
<1>1. held' \subseteq held OBVIOUS
<1>2. SetInv' BY DEF SetInv
<1>3. LinesInv' BY DEF LinesInv
<1>4. ReadInv'
  <2>1. TablesRead(at)' = TablesRead(at) BY DEF TablesRead
  <2> QED BY <1>1, <2>1 DEF ReadInv
<1>5. HeldIsReported' BY <1>1 DEF HeldIsReported, Reported
<1>6. ReportedWasThere' BY <1>1 DEF ReportedWasThere, Of, ReadInv
<1> QED BY <1>2, <1>3, <1>4, <1>5, <1>6

(* The step that reads the last table makes a map of exactly its lines.    *)
LEMMA LastReadReports ==
  ASSUME IInv, ReadTable, alive, at + 1 = 3
  PROVE  HeldIsReported' /\ ReportedWasThere'
<1> DEFINE table == Tables[at + 1]
<1> USE DEF hookScopes
<1>1. at \in 0..2 /\ at' = at + 1 BY DEF IInv, ReadInv, ReadTable
<1>2. /\ lines' = lines \union Printed(table)
      /\ pc' = "map" /\ result' = Merged(lines')
      /\ UNCHANGED <<set, held, seen>>
  BY <1>1, TablesInOrder DEF ReadTable
<1>3. lines' \subseteq Element /\ lines' \subseteq seen
  BY <1>2 DEF IInv, SetInv, LinesInv, ReadInv, ReadTable, Printed
<1>4. SingleValued(lines')
  <2>1. \A e \in lines, f \in Printed(table) : e.base # f.base
    BY <1>1, TablesInOrder DEF IInv, ReadInv, ReadTable, Printed
  <2>2. SingleValued(lines) /\ SingleValued(Printed(table))
    BY DEF IInv, SetInv, LinesInv, SingleValued, Printed
  <2> QED BY <1>2, <2>1, <2>2 DEF SingleValued
<1>5. held \subseteq lines'
  <2> SUFFICES ASSUME NEW e \in held PROVE e \in lines' OBVIOUS
  <2>1. e \in set /\ e.base \in Base /\ e.command # Empty
    BY EmptyAssumption DEF IInv, SetInv, Element
  <2>2. TableOf[e.base] \in TablesRead(at) \union {table}
    BY <1>1, <2>1, TablesInOrder
  <2>3. CASE TableOf[e.base] = table BY <1>2, <2>1, <2>3 DEF Printed
  <2>4. CASE TableOf[e.base] \in TablesRead(at)
    BY <1>2, <2>4 DEF IInv, ReadInv, ReadTable
  <2> QED BY <2>2, <2>3, <2>4
<1>6. \A e \in lines' : key(e, lines').base = e.base /\ key(e, lines').index \in {e.index, Bare}
  BY DEF key
<1>7. HeldIsReported'
  <2> SUFFICES ASSUME NEW e \in held
               PROVE  \E n \in DOMAIN result' : /\ n.base = e.base
                                                /\ n.index \in {e.index, Bare}
                                                /\ result'[n] = e.command
    BY <1>2 DEF HeldIsReported, Reported
  <2>1. key(e, lines') \in DOMAIN result' /\ result'[key(e, lines')] = e.command
    BY <1>2, <1>3, <1>4, <1>5, MergedIsExact
  <2> QED BY <2>1, <1>5, <1>6
<1>8. ReportedWasThere'
  <2> SUFFICES ASSUME NEW n \in DOMAIN result'
               PROVE  /\ \E e \in seen : /\ e.base = n.base /\ e.command = result'[n]
                                         /\ n.index \in {e.index, Bare}
                      /\ n.index = Bare => \A e, f \in Of(held, n.base) : e = f
    BY <1>2 DEF ReportedWasThere
  <2>1. PICK e \in lines' : n = key(e, lines') /\ result'[n] = e.command
    BY <1>2, <1>3, <1>4, MergedIsExact
  <2>2. e.index # Bare BY <2>1, <1>3, HooksAssumption DEF Element, Bare
  <2>3. n.index = Bare => Of(lines', n.base) = {e} BY <2>1, <2>2, <1>6 DEF key
  <2>4. Of(held, n.base) \subseteq Of(lines', n.base) BY <1>5 DEF Of
  <2>5. \E x \in seen : /\ x.base = n.base /\ x.command = result'[n]
                        /\ n.index \in {x.index, Bare}
    BY <2>1, <1>3, <1>6
  <2> QED BY <2>3, <2>4, <2>5
<1> QED BY <1>7, <1>8

-----------------------------------------------------------------------------
LEMMA InitInv == Init => IInv
<1> SUFFICES ASSUME Init PROVE IInv OBVIOUS
<1> USE DEF Init
<1>1. SetInv
  <2>1. PICK f \in [Base -> Command \union {Empty}] :
          set = {[base |-> b, index |-> 0, command |-> f[b]] : b \in {x \in Base : f[x] # Empty}}
    OBVIOUS
  <2>2. ASSUME NEW e \in set
        PROVE  e \in Element /\ e = [base |-> e.base, index |-> 0, command |-> f[e.base]]
    <3>1. PICK b \in Base : f[b] # Empty /\ e = [base |-> b, index |-> 0, command |-> f[b]]
      BY <2>1
    <3>2. f[b] \in Command BY <3>1
    <3> QED BY <3>1, <3>2, HooksAssumption DEF Element
  <2> QED BY <2>2 DEF SetInv, SingleValued
<1>2. LinesInv BY DEF LinesInv, SingleValued
<1>3. ReadInv BY DEF ReadInv
<1>4. HeldIsReported /\ ReportedWasThere BY DEF HeldIsReported, ReportedWasThere
<1> QED BY <1>1, <1>2, <1>3, <1>4 DEF IInv

LEMMA StepInv == IInv /\ [Next]_vars => IInv'
<1> SUFFICES ASSUME IInv, [Next]_vars PROVE IInv' OBVIOUS
<1>1. ASSUME NEW b \in Base, NEW command \in Command \union {Empty}, SetHook(b, command)
      PROVE  IInv'
  <2>1. command \in Command BY <1>1 DEF SetHook, checkHookCommand
  <2> QED BY <1>1, <2>1, ChangesKeepSets, BecomesKeeps DEF SetHook, IInv, SetInv
<1>2. ASSUME NEW b \in Base, NEW command \in Command, AppendHook(b, command)
      PROVE  IInv'
  BY <1>2, ChangesKeepSets, BecomesKeeps DEF AppendHook, IInv, SetInv
<1>3. ASSUME NEW b \in Base, UnsetHook(b) PROVE IInv'
  BY <1>3, ChangesKeepSets, BecomesKeeps DEF UnsetHook, IInv, SetInv
<1>4. CASE TargetEnds
  <2> USE <1>4 DEF TargetEnds, callVars, IInv
  <2>1. SetInv' BY DEF SetInv, SingleValued
  <2>2. LinesInv' BY DEF LinesInv
  <2>3. ReadInv'
    <3>1. TablesRead(at)' = TablesRead(at) BY DEF TablesRead
    <3> QED BY <3>1 DEF ReadInv
  <2>4. HeldIsReported' BY DEF HeldIsReported
  <2>5. ReportedWasThere' BY DEF ReportedWasThere, Of
  <2> QED BY <2>1, <2>2, <2>3, <2>4, <2>5
<1>5. CASE ShowHooks
  <2> USE <1>5 DEF ShowHooks, IInv
  <2>1. SetInv' BY DEF SetInv
  <2>2. LinesInv' BY DEF LinesInv, SingleValued
  <2>3. ReadInv'
    <3>1. TablesRead(at') = {} BY TablesInOrder
    <3> QED BY <3>1 DEF ReadInv
  <2>4. HeldIsReported' /\ ReportedWasThere' BY DEF HeldIsReported, ReportedWasThere
  <2> QED BY <2>1, <2>2, <2>3, <2>4
<1>6. CASE ReadTable
  <2>1. SetInv' BY <1>6 DEF ReadTable, IInv, SetInv
  <2>2. CASE ~alive
    <3> USE <1>6, <2>2 DEF ReadTable, IInv
    <3>1. held = {} BY DEF SetInv
    <3>2. LinesInv' /\ ReadInv' BY DEF LinesInv, ReadInv
    <3>3. HeldIsReported' BY <3>1 DEF HeldIsReported
    <3>4. ReportedWasThere' BY DEF ReportedWasThere, NoMap
    <3> QED BY <2>1, <3>2, <3>3, <3>4
  <2>3. CASE alive
    <3> DEFINE table == Tables[at + 1]
    <3>1. at \in 0..2 /\ at' = at + 1 BY <1>6, <2>3 DEF IInv, ReadInv, ReadTable
    <3>2. lines' = lines \union Printed(table) /\ UNCHANGED <<set, alive, held, seen>>
      BY <1>6, <2>3, <3>1 DEF ReadTable, hookScopes
    <3>3. SingleValued(lines')
      <4>1. \A e \in lines, f \in Printed(table) : e.base # f.base
        BY <1>6, <3>1, TablesInOrder DEF IInv, ReadInv, ReadTable, Printed
      <4>2. SingleValued(lines) /\ SingleValued(Printed(table))
        BY DEF IInv, SetInv, LinesInv, SingleValued, Printed
      <4> QED BY <3>2, <4>1, <4>2 DEF SingleValued
    <3>4. LinesInv'
      BY <1>6, <3>2, <3>3 DEF IInv, SetInv, LinesInv, ReadInv, ReadTable, Printed
    <3>5. CASE at + 1 = 3
      <4>1. ReadInv'
        BY <1>6, <2>3, <3>5, TablesInOrder DEF ReadTable, ReadInv
      <4> QED BY <1>6, <2>1, <2>3, <3>4, <3>5, <4>1, LastReadReports DEF IInv
    <3>6. CASE at + 1 # 3
      <4>1. pc = "reading" /\ pc' = "reading" /\ at' \in 0..2
        BY <1>6, <2>3, <3>1, <3>6, TablesInOrder DEF ReadTable
      <4>2. TablesRead(at') = TablesRead(at) \union {table} BY <3>1, TablesInOrder
      <4>3. \A e \in lines' : TableOf[e.base] \in TablesRead(at')
        BY <3>2, <4>1, <4>2 DEF IInv, ReadInv, Printed
      <4>4. ASSUME NEW e \in held, TableOf[e.base] \in TablesRead(at')
            PROVE  e \in lines'
        <5>1. e \in set /\ e.command # Empty
          BY EmptyAssumption DEF IInv, SetInv, Element
        <5> QED BY <3>2, <4>1, <4>2, <4>4, <5>1 DEF IInv, ReadInv, Printed
      <4>5. ReadInv' BY <3>2, <4>1, <4>3, <4>4 DEF IInv, ReadInv
      <4>6. HeldIsReported' /\ ReportedWasThere'
        BY <4>1 DEF HeldIsReported, ReportedWasThere
      <4> QED BY <2>1, <3>4, <4>5, <4>6 DEF IInv
    <3> QED BY <3>5, <3>6
  <2> QED BY <2>2, <2>3
<1>7. CASE ReadFails
  BY <1>7 DEF ReadFails, IInv, SetInv, LinesInv, ReadInv, HeldIsReported, ReportedWasThere
<1>8. CASE UNCHANGED vars
  <2> USE <1>8 DEF vars, callVars, IInv
  <2>1. SetInv' /\ LinesInv' BY DEF SetInv, LinesInv
  <2>2. ReadInv'
    <3>1. TablesRead(at)' = TablesRead(at) BY DEF TablesRead
    <3> QED BY <3>1 DEF ReadInv
  <2>3. HeldIsReported' BY DEF HeldIsReported, Reported
  <2>4. ReportedWasThere' BY DEF ReportedWasThere, Of
  <2> QED BY <2>1, <2>2, <2>3, <2>4
<1> QED BY <1>1, <1>2, <1>3, <1>4, <1>5, <1>6, <1>7, <1>8 DEF Next

LEMMA Invariant == Spec => []IInv
BY InitInv, StepInv, PTL DEF Spec

(* A hook that is in place for as long as the call lasts is in its map,    *)
(* whatever other hooks are set, unset or appended between the reads.      *)
THEOREM ShowHooksIsComplete == Spec => []HeldIsReported
<1>1. IInv => HeldIsReported BY DEF IInv
<1> QED BY <1>1, Invariant, PTL

(* The map holds nothing but elements that were in place during the call,  *)
(* and a name has lost its index only where that loses nothing.            *)
THEOREM ShowHooksIsSound == Spec => []ReportedWasThere
<1>1. IInv => ReportedWasThere BY DEF IInv
<1> QED BY <1>1, Invariant, PTL
=============================================================================
