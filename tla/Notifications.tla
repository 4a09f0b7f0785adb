---------------------------- MODULE Notifications ---------------------------
(***************************************************************************)
(* What the arguments of a notification say: the parsers of ctlparse.go,   *)
(* handleNotification with the event it makes of them, and the one thing   *)
(* it remembers, the attached session.                                     *)
(*                                                                         *)
(* A text is the sequence of its fields, what lies between single spaces:  *)
(* two spaces together have an empty field between them, and the empty     *)
(* text is one empty field.                                                *)
(***************************************************************************)
EXTENDS Naturals, Sequences, SequencesExt

CONSTANTS
  SessionIds, WindowIds, PaneIds,  \* the fields that are identifiers
  Numbers,                         \* the fields that are decimal integers
  VisEscapes,   \* fields with bytes vis(3) escapes, to the form tmux stores
  OctalEscapes  \* fields with bytes that are octal in pane output, likewise

NoText == <<"">>
NoId == ""

Undo(escapes, f) ==
  IF \E g \in DOMAIN escapes : escapes[g] = f
  THEN CHOOSE g \in DOMAIN escapes : escapes[g] = f ELSE f
Do(escapes, f) == IF f \in DOMAIN escapes THEN escapes[f] ELSE f
Each(F(_, _), escapes, text) == [i \in 1..Len(text) |-> F(escapes, text[i])]

visDecode(text) == Each(Undo, VisEscapes, text)
UnescapeString(text) == Each(Undo, OctalEscapes, text)

-----------------------------------------------------------------------------
(* ctlparse.go: a parser's answer is a record, or Failed.                  *)

Failed == [is |-> "malformed"]

(* strings.Cut at a space: the first field, the rest, which may be absent. *)
Rest(text) == IF Len(text) = 1 THEN NoText ELSE Tail(text)

(* The fields of a text that are some of these.                            *)
Among(these, text) ==
  FlattenSeq([i \in 1..Len(text) |-> IF text[i] \in these THEN <<text[i]>> ELSE <<>>])

(* strings.Fields and strings.TrimSpace.                                   *)
FieldsOf(text) == Among(Range(text) \ {""}, text)
TrimSpace(text) ==
  LET full == {i \in 1..Len(text) : text[i] # ""}
  IN IF full = {} THEN NoText
     ELSE SubSeq(text, CHOOSE i \in full : \A j \in full : i <= j,
                       CHOOSE i \in full : \A j \in full : i >= j)

(* The places where " : " lies, and the first of them.                     *)
Separators(text) == {i \in 2..(Len(text) - 1) : text[i] = ":"}

(* Mutant: it is looked for from the end.                                  *)
separatorLast(text) == CHOOSE i \in Separators(text) : \A j \in Separators(text) : i >= j

separator(text) == CHOOSE i \in Separators(text) : \A j \in Separators(text) : i <= j

Meta(text) == FieldsOf(SubSeq(text, 1, separator(text) - 1))
Value(text) == SubSeq(text, separator(text) + 1, Len(text))

PaneOutput(pane, data, extended, age) ==
  [is |-> "PaneOutput", pane |-> pane, data |-> UnescapeString(data),
   extended |-> extended, age |-> age]

ParseOutput(args) ==
  IF args[1] \in PaneIds THEN PaneOutput(args[1], Rest(args), FALSE, "0") ELSE Failed

(* "pane age ... : data", or, without the colon, "pane age data".          *)
ParseExtendedOutput(args) ==
  LET rest == Rest(args)
  IN IF Len(args) = 1 \/ args[1] \notin PaneIds THEN Failed
     ELSE IF Separators(rest) # {}
     THEN IF Meta(rest) # <<>> /\ Meta(rest)[1] \in Numbers
          THEN PaneOutput(args[1], Value(rest), TRUE, Meta(rest)[1]) ELSE Failed
     ELSE IF Len(rest) > 1 /\ rest[1] \in Numbers
          THEN PaneOutput(args[1], Tail(rest), TRUE, rest[1]) ELSE Failed

Subscription(name, session, window, pane, index, value) ==
  [is |-> "SubscriptionChanged", name |-> name, session |-> session,
   window |-> window, pane |-> pane, index |-> index, value |-> value]

(* The fields before the colon are told apart by their sigils; the last of *)
(* a kind counts, and the first integer.                                   *)
ParseSubscriptionChanged(args) ==
  LET name == args[1]
      rest == Rest(args)
      OfKind(ids) == Among(ids, Meta(rest))
      LastOf(ids) == IF OfKind(ids) = <<>> THEN NoId ELSE Last(OfKind(ids))
      index == IF OfKind(Numbers) = <<>> THEN "-1" ELSE Head(OfKind(Numbers))
  IN IF name = "" THEN Failed
     ELSE IF Separators(rest) = {}
     THEN Subscription(name, NoId, NoId, NoId, "-1", rest)
     ELSE Subscription(name, LastOf(SessionIds), LastOf(WindowIds), LastOf(PaneIds),
                       index, Value(rest))

ParseLayoutChange(args) ==
  LET f == FieldsOf(args)
      Nth(i) == IF Len(f) >= i THEN f[i] ELSE ""
  IN IF Len(f) < 2 \/ f[1] \notin WindowIds THEN Failed
     ELSE [is |-> "LayoutChanged", window |-> f[1], layout |-> f[2],
           visible |-> Nth(3), flags |-> Nth(4)]

-----------------------------------------------------------------------------
(* handleNotification, by the shape of the arguments; malformed arguments  *)
(* become a ProtocolError.                                                 *)

(* The whole argument is one identifier.                                   *)
OfPane ==
  [n \in {"pause", "continue", "pane-mode-changed"} |->
     CASE n = "pause" -> "PanePaused" [] n = "continue" -> "PaneContinued"
       [] n = "pane-mode-changed" -> "PaneModeChanged"]
OfWindow ==
  [n \in {"window-add", "unlinked-window-add", "window-close", "unlinked-window-close"} |->
     IF n \in {"window-add", "unlinked-window-add"} THEN "WindowAdded" ELSE "WindowClosed"]
Renames == {"window-renamed", "unlinked-window-renamed"}
(* The whole argument is text: a name without outer spaces, or as it is.   *)
OfName ==
  [n \in {"client-detached", "paste-buffer-changed", "paste-buffer-deleted"} |->
     CASE n = "client-detached" -> "ClientDetached"
       [] n = "paste-buffer-changed" -> "PasteBufferChanged"
       [] n = "paste-buffer-deleted" -> "PasteBufferDeleted"]
OfText ==
  [n \in {"message", "config-error"} |-> IF n = "message" THEN "Message" ELSE "ConfigError"]

ParseTwo(is, args, as, bs) ==
  LET f == FieldsOf(args)
  IN IF Len(f) >= 2 /\ f[1] \in as /\ f[2] \in bs
     THEN [is |-> is, of |-> f[1], now |-> f[2]] ELSE Failed

Named(is, id, name) == [is |-> is, of |-> id, name |-> visDecode(name)]

(* What the event is.  A rename without an identifier is the older form    *)
(* and is the attached session's.                                          *)
EventOf(attached, name, args) ==
  LET id == args[1]
      whole == TrimSpace(args)
  IN CASE name = "output" -> ParseOutput(args)
       [] name = "extended-output" -> ParseExtendedOutput(args)
       [] name \in DOMAIN OfPane ->
            IF whole[1] \in PaneIds /\ Len(whole) = 1
            THEN [is |-> OfPane[name], of |-> whole[1]] ELSE Failed
       [] name \in DOMAIN OfWindow ->
            IF whole[1] \in WindowIds /\ Len(whole) = 1
            THEN [is |-> OfWindow[name], of |-> whole[1]] ELSE Failed
       [] name = "sessions-changed" -> [is |-> "SessionsChanged"]
       [] name = "session-changed" ->
            IF id \in SessionIds THEN Named("SessionChanged", id, Rest(args)) ELSE Failed
       [] name = "session-renamed" ->
            IF id \in SessionIds THEN Named("SessionRenamed", id, Rest(args))
            ELSE Named("SessionRenamed", attached, whole)
       [] name \in Renames ->
            IF id \in WindowIds THEN Named("WindowRenamed", id, Rest(args)) ELSE Failed
       [] name = "session-window-changed" ->
            ParseTwo("SessionWindowChanged", args, SessionIds, WindowIds)
       [] name = "window-pane-changed" ->
            ParseTwo("WindowPaneChanged", args, WindowIds, PaneIds)
       [] name = "layout-change" -> ParseLayoutChange(args)
       [] name = "subscription-changed" -> ParseSubscriptionChanged(args)
       [] name = "client-session-changed" ->
            IF id # "" /\ Rest(args)[1] \in SessionIds
            THEN [is |-> "ClientSessionChanged", client |-> id, of |-> args[2],
                  name |-> visDecode(Rest(Tail(args)))] ELSE Failed
       [] name \in DOMAIN OfName -> [is |-> OfName[name], text |-> whole]
       [] name \in DOMAIN OfText -> [is |-> OfText[name], text |-> args]
       [] OTHER -> [is |-> "UnknownNotification", name |-> name, text |-> args]

(* The reader after a line: the session it is attached to, its events.     *)
handleNotification(reader, line) ==
  LET event == EventOf(reader.attached, line.name, line.args)
  IN [attached |-> IF event.is = "SessionChanged" THEN event.of ELSE reader.attached,
      events |-> Append(reader.events, event)]

Read(lines) ==
  LET after[n \in 0..Len(lines)] ==
        IF n = 0 THEN [attached |-> NoId, events |-> <<>>]
        ELSE handleNotification(after[n - 1], lines[n])
  IN after[Len(lines)]

-----------------------------------------------------------------------------
(* tmux, external: the lines it may write to tell an event.                *)

NotesOf(table, is) == {n \in DOMAIN table : table[n] = is}
Line(names, args) == [name : names, args : {args}]
stored(text) == Each(Do, VisEscapes, text)

(* A subscription to what is not of one kind has dashes for it.            *)
Shown(f) == IF f \in {NoId, "-1"} THEN "-" ELSE f

(* In the older form a rename does not say whose it is.                    *)
Written(event, older) ==
  CASE event.is = "PaneOutput" ->
         LET data == Each(Do, OctalEscapes, event.data)
         IN IF ~event.extended THEN Line({"output"}, <<event.pane>> \o data)
            ELSE Line({"extended-output"}, <<event.pane, event.age, ":">> \o data)
    [] event.is \in Range(OfPane) -> Line(NotesOf(OfPane, event.is), <<event.of>>)
    [] event.is \in Range(OfWindow) -> Line(NotesOf(OfWindow, event.is), <<event.of>>)
    [] event.is = "SessionsChanged" -> Line({"sessions-changed"}, NoText)
    [] event.is = "SessionChanged" ->
         Line({"session-changed"}, <<event.of>> \o stored(event.name))
    [] event.is = "SessionRenamed" ->
         Line({"session-renamed"},
              (IF older THEN <<>> ELSE <<event.of>>) \o stored(event.name))
    [] event.is = "WindowRenamed" -> Line(Renames, <<event.of>> \o stored(event.name))
    [] event.is = "SessionWindowChanged" ->
         Line({"session-window-changed"}, <<event.of, event.now>>)
    [] event.is = "WindowPaneChanged" ->
         Line({"window-pane-changed"}, <<event.of, event.now>>)
    [] event.is = "LayoutChanged" ->
         Line({"layout-change"},
              FieldsOf(<<event.window, event.layout, event.visible, event.flags>>))
    [] event.is = "SubscriptionChanged" ->
         Line({"subscription-changed"},
              <<event.name, event.session, Shown(event.window), Shown(event.index),
                Shown(event.pane), ":">> \o event.value)
    [] event.is = "ClientSessionChanged" ->
         Line({"client-session-changed"}, <<event.client, event.of>> \o stored(event.name))
    [] event.is \in Range(OfName) -> Line(NotesOf(OfName, event.is), event.text)
    [] event.is \in Range(OfText) -> Line(NotesOf(OfText, event.is), event.text)
    [] OTHER -> Line({event.name}, event.text)

Names == {"output", "extended-output", "sessions-changed", "session-changed",
          "session-renamed", "session-window-changed", "window-pane-changed",
          "layout-change", "subscription-changed", "client-session-changed"}
           \union DOMAIN OfPane \union DOMAIN OfWindow \union Renames
           \union DOMAIN OfName \union DOMAIN OfText
=============================================================================
