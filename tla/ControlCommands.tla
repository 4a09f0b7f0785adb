-------------------------- MODULE ControlCommands ---------------------------
(***************************************************************************)
(* What the methods of a control connection ask of tmux: Subscribe and      *)
(* Unsubscribe, with the lines in which tmux tells the values, PauseAfter  *)
(* and SetSize.                                                            *)
(*                                                                         *)
(* tmux takes "name:target:format" apart at the first two colons and       *)
(* writes the name back, unchecked, in front of every value: that both     *)
(* ways work is a matter of which names and targets are refused here.      *)
(*                                                                         *)
(* tmux's subscriptions are a set of [name, target, format].  A duration   *)
(* is counted in ticks.                                                    *)
(***************************************************************************)
EXTENDS ValueCodecs, Rows, Versions

CONSTANTS
  Second,    \* the ticks of a second
  MaxInt32   \* the longest pause tmux is asked for, in seconds

ASSUME PauseAssumption == Second \in Nat \ {0} /\ MaxInt32 \in Nat \ {0}

Colon == 58
Delete == 127
Star == 42
PaneSigil == 37
WindowSigil == 64
SubscribeSession == <<>>
SubscribeAllPanes == <<PaneSigil, Star>>
SubscribeAllWindows == <<WindowSigil, Star>>

(* Mutant: the bytes that would break the command are refused, and no more.*)
checkSubscribeNameColon(name) ==
  name # <<>> /\ \A i \in 1..Len(name) : name[i] \notin {Colon, Tab, SpaceByte}

checkSubscribeName(name) ==
  /\ name # <<>>
  /\ \A i \in 1..Len(name) : name[i] > SpaceByte /\ name[i] \notin {Delete, Colon}

ValidID(id) ==
  Len(id) > 1 /\ \A i \in 2..Len(id) : id[i] \in Zero..(Zero + 9)

checkSubscribeTarget(target) ==
  \/ target \in {SubscribeSession, SubscribeAllPanes, SubscribeAllWindows}
  \/ target[1] \in {PaneSigil, WindowSigil} /\ ValidID(target)

(* The argument of "refresh-client -B", or nothing if the call is refused. *)
Subscribe(name, target, format) ==
  IF checkSubscribeName(name) /\ checkSubscribeTarget(target)
  THEN {name \o <<Colon>> \o target \o <<Colon>> \o format} ELSE {}

Unsubscribe(name) == IF checkSubscribeName(name) THEN {name} ELSE {}

-----------------------------------------------------------------------------

(* The seconds of the flag "pause-after", or none if it is to be cleared.  *)
PauseAfter(d) ==
  LET whole == d \div Second
      secs == IF d % Second # 0 \/ whole = 0 THEN whole + 1 ELSE whole
  IN IF d <= 0 THEN {} ELSE {IF secs > MaxInt32 THEN MaxInt32 ELSE secs}

(* What stands between the columns and the rows of "refresh-client -C".    *)
SizeSeparator(version) ==
  IF ~version.Unknown /\ version.Major > 0 /\ ~AtLeast(version, Version(3, 2, <<>>, FALSE))
  THEN "," ELSE "x"

SetSize(version, cols, rows) ==
  IF cols <= 0 \/ rows <= 0 THEN {} ELSE {<<cols, SizeSeparator(version), rows>>}

-----------------------------------------------------------------------------
(* tmux, external.                                                         *)

(* "-B": without a colon it removes the subscription of that name.         *)
Refreshed(subs, arg) ==
  LET name == CutAt(arg, Colon)
      target == CutAt(name.after, Colon)
      others == {s \in subs : s.name # name.before}
  IN IF ~name.found THEN others
     ELSE IF ~target.found THEN subs
     ELSE others \union
            {[name |-> name.before, target |-> target.before, format |-> target.after]}

(* What tells a value, "name ids : value", as the lines the reader finds:  *)
(* nothing delimits the value, so that a newline in it begins another one, *)
(* outside every block.                                                    *)
ToldBy(sub, value) ==
  Split(sub.name \o <<SpaceByte, 36, Zero, SpaceByte, Colon, SpaceByte>> \o value, Newline)

(* The name a notification is read under.                                  *)
NameRead(line) == CutAt(line, SpaceByte).before
=============================================================================
