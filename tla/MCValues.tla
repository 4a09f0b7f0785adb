------------------------------ MODULE MCValues ------------------------------
(***************************************************************************)
(* Every short input for the rules of the modules it extends: arguments,   *)
(* the first of which also serves as a line given to Do as it stands; a    *)
(* value that tmux keeps, with and without the fault of 3.4; calls that    *)
(* set options or subscribe; the rows of a listing; releases; what tmux    *)
(* tells; and lists of Options.  One of them grows at a time.              *)
(***************************************************************************)
EXTENDS CommandLine, OptionReaders, Versions, ControlCommands

CONSTANTS
  MaxArgs,    \* bound: arguments
  MaxArgBytes,\* bound: bytes in all of them
  Bytes,      \* the bytes a value is tried with
  MaxBytes    \* bound: bytes in a value

(* A Go string is a sequence of bytes.                                     *)
ASSUME ValuesAssumption == Bytes \subseteq 0..255

VARIABLES args, value, faulty, input

NoArgs == << <<>> >>
NoValue == <<>>
NoInput == [kind |-> "none"]
Size(a) == Len(FlattenSeq(a))

(* Two calls that set or unset options, under names that do and do not     *)
(* read back.                                                              *)
AtA == <<64, 97>>
OptionNames ==
  {<<>>, AtA, <<64, 98>>, AtA \o <<32, 98>>, AtA \o <<10, 98>>, AtA \o <<91, 120, 93>>,
   AtA \o <<91, 93>>, AtA \o <<91, 48, 93>>, AtA \o <<36, 98>>, AtA \o <<36>>}
OptionValues == {<<>>, <<120>>, <<98, 32, 120>>, <<97, 10, 98>>, <<126>>, <<36, 97>>}
Calls ==
  [op : {"set"}, name : OptionNames, value : OptionValues]
    \union [op : {"unset"}, name : OptionNames, value : {<<>>}]

(* Listings of no, one or two objects, whose values hold what separates    *)
(* rows and columns; only the identifier is asked for as an expression.    *)
P == Entry("p", "bare")
Q == Entry("q", "bare")
ID == Entry("id", "expression")
Specs == {<<P>>, <<P, Q>>, <<Q, P>>, <<ID, P>>, <<P, ID>>, <<ID, P, Q>>}
RowValues == {<<>>, <<97>>, <<9>>, <<97, 10, 9, 97>>, <<97, 13>>}
Objects == [id : {<<37, 48>>}, p : RowValues, q : RowValues]

(* Releases, and the text that tmux -V has for one.                        *)
Stages == {"next", "candidate", "release"}
Letters == {<<>>, <<97>>, <<98>>}
Releases ==
  [major : {2, 3, 10}, minor : {2, 4, 10}, stage : Stages, letter : Letters, os : BOOLEAN]
Numeral(n) == IF n < 10 THEN <<48 + n>> ELSE <<48 + (n \div 10), 48 + (n % 10)>>
Master == <<109>>
TextOf(r) ==
  (IF r.os THEN <<111, Hyphen>> ELSE IF r.stage = "next" THEN NextPrefix ELSE <<>>)
    \o Numeral(r.major) \o <<Dot>> \o Numeral(r.minor)
    \o (IF r.stage = "candidate" THEN <<Hyphen, 114>> ELSE <<>>) \o r.letter

(* What tmux may tell, with texts that hold what separates or identifies.  *)
N == INSTANCE Notifications WITH
       SessionIds <- {"$0", "$1"}, WindowIds <- {"@1"}, PaneIds <- {"%1"}, Numbers <- {"7"},
       VisEscapes <- [f \in {"$0", "\\t"} |-> IF f = "$0" THEN "\\$0" ELSE "\\\\t"],
       OctalEscapes <- [f \in {"\\t"} |-> "\\134t"]
Texts == UNION {[1..n -> {"", "a", ":", "7", "$0", "@1", "\\t"}] : n \in 1..3}
Trimmed(texts) == {t \in texts : N!TrimSpace(t) = t}
SessionEvents(names) ==
  [is : {"SessionChanged", "SessionRenamed"}, of : {"$0", "$1"}, name : names]
ToldWith(texts) ==
  SessionEvents(texts)
    \union [is : {"PaneOutput"}, pane : {"%1"}, data : texts, extended : {FALSE}, age : {"0"}]
    \union [is : {"PaneOutput"}, pane : {"%1"}, data : texts, extended : {TRUE}, age : {"7"}]
    \union [is : Range(N!OfPane), of : {"%1"}]
    \union [is : Range(N!OfWindow), of : {"@1"}]
    \union [is : {"SessionsChanged"}]
    \union [is : {"WindowRenamed"}, of : {"@1"}, name : texts]
    \union [is : {"SessionWindowChanged"}, of : {"$0"}, now : {"@1"}]
    \union [is : {"WindowPaneChanged"}, of : {"@1"}, now : {"%1"}]
    \union [is : {"LayoutChanged"}, window : {"@1"}, layout : {"a"}, visible : {"a"}, flags : {"", "7"}]
    \union [is : {"SubscriptionChanged"}, name : {"a"}, session : {"$0"}, window : {"", "@1"},
            pane : {"", "%1"}, index : {"-1", "7"}, value : texts]
    \union [is : {"ClientSessionChanged"}, client : {"a"}, of : {"$0"}, name : texts]
    \union [is : Range(N!OfName), text : Trimmed(texts)]
    \union [is : Range(N!OfText), text : texts]
    \union [is : {"UnknownNotification"}, name : {"a"}, text : texts]
Told == ToldWith(Texts)
(* It is the i-th of them that tells the attached session.                 *)
Attaches(told, i) ==
  /\ told[i].is = "SessionChanged"
  /\ \A j \in (i + 1)..Len(told) : told[j].is # "SessionChanged"

(* Two calls that subscribe or unsubscribe.                                *)
SubscriptionNames ==
  {<<>>, <<97>>, <<98>>, <<97, Colon, 98>>, <<97, 32>>, <<97, 10, 98>>, <<97, Delete>>, <<200>>}
SubscriptionCalls ==
  [op : {"subscribe"}, name : SubscriptionNames, format : {<<>>, <<120>>, <<Colon, 120>>},
   target : {<<>>, <<37, 42>>, <<37, 48>>, <<37>>, <<120>>, <<64, 49, Colon>>}]
    \union [op : {"unsubscribe"}, name : SubscriptionNames]

(* A process and its environment are made of three Options.                *)
C == INSTANCE Configuration WITH
       SessionID <- {"$0"}, ParentEnv <- <<"P=1">>,
       Defaults <- [binary |-> "tmux", eventBuffer |-> 256, outputBuffer |-> 64, closeTimeout |-> 5]

Init ==
  /\ args = NoArgs /\ value = NoValue /\ input = NoInput
  /\ faulty \in BOOLEAN

TypeByte ==
  /\ value = NoValue /\ input = NoInput /\ ~faulty
  /\ Size(args) < MaxArgBytes
  /\ \E c \in Byte : args' = [args EXCEPT ![Len(args)] = Append(@, c)]
  /\ UNCHANGED <<value, faulty, input>>

NextArg ==
  /\ value = NoValue /\ input = NoInput /\ ~faulty
  /\ Len(args) < MaxArgs
  /\ args' = Append(args, <<>>)
  /\ UNCHANGED <<value, faulty, input>>

AddByte ==
  /\ args = NoArgs /\ input = NoInput
  /\ Len(value) < MaxBytes
  /\ \E b \in Bytes : value' = Append(value, b)
  /\ UNCHANGED <<args, faulty, input>>

(* The input grows from nothing, a call, a spec or an object at a time.    *)
Grows(kind) ==
  /\ args = NoArgs /\ value = NoValue /\ input.kind \in {"none", kind}
  /\ UNCHANGED <<args, value, faulty>>

AddCall ==
  /\ Grows("options")
  /\ LET calls == IF input = NoInput THEN <<>> ELSE input.calls
     IN /\ Len(calls) < 2
        /\ \E c \in Calls : input' = [kind |-> "options", calls |-> Append(calls, c)]

AddRow ==
  /\ Grows("rows") /\ ~faulty
  /\ IF input = NoInput
     THEN \E spec \in Specs : input' = [kind |-> "rows", spec |-> spec, objects |-> <<>>]
     ELSE /\ Len(input.objects) < 2
          /\ \E o \in Objects : input' = [input EXCEPT !.objects = Append(@, o)]

(* Two releases; an OS name is not put before what is not released.        *)
AddRelease ==
  /\ Grows("versions") /\ ~faulty
  /\ LET releases == IF input = NoInput THEN <<>> ELSE input.releases
     IN /\ Len(releases) < 2
        /\ \E r \in Releases :
             /\ r.os => r.stage = "release"
             /\ input' = [kind |-> "versions", releases |-> Append(releases, r)]

(* tmux tells one thing, or several about sessions.                        *)
AddNotice ==
  /\ Grows("notices") /\ ~faulty
  /\ LET told == IF input = NoInput THEN <<>> ELSE input.told
         lines == IF input = NoInput THEN <<>> ELSE input.lines
         few == {<<"a">>}
         Tell(e, older) == \E line \in N!Written(e, older) :
           input' = [kind |-> "notices", told |-> Append(told, e), lines |-> Append(lines, line)]
     IN \/ told = <<>> /\ \E e \in Told : Tell(e, FALSE)
        \/ /\ Len(told) \in {1, 2} /\ \A i \in 1..Len(told) : told[i] \in SessionEvents(few)
           /\ \/ \E e \in SessionEvents(few) : Tell(e, FALSE)
              \/ \E name \in Trimmed(Texts) : \E i \in 1..Len(told) :
                   /\ Attaches(told, i)
                   /\ Tell([is |-> "SessionRenamed", of |-> told[i].of, name |-> name], TRUE)

(* A line with any arguments at all.                                       *)
AddNoise ==
  /\ Grows("noise") /\ ~faulty /\ input = NoInput
  /\ \E line \in [name : N!Names, args : Texts] : input' = [kind |-> "noise", line |-> line]

AddSubscription ==
  /\ Grows("subscriptions") /\ ~faulty
  /\ LET calls == IF input = NoInput THEN <<>> ELSE input.calls
     IN /\ Len(calls) < 2
        /\ \E c \in SubscriptionCalls :
             input' = [kind |-> "subscriptions", calls |-> Append(calls, c)]

AddPause ==
  /\ Grows("pause") /\ ~faulty /\ input = NoInput
  /\ \E d \in -1..(Second * (MaxInt32 + 2)) : input' = [kind |-> "pause", ticks |-> d]

AddOption ==
  /\ Grows("configuration") /\ ~faulty
  /\ LET opts == IF input = NoInput THEN <<>> ELSE input.opts
         With(name, given) ==
           input' = [kind |-> "configuration", opts |-> Append(opts, [with |-> name, given |-> given])]
     IN /\ Len(opts) < 3
        /\ \/ \E name \in {"WithBinary", "WithSocketPath", "WithSocketName"}, text \in {"", "s"} :
                With(name, text)
           \/ \E name \in {"WithoutParentEnv", "WithoutVersionCheck", "WithDoubleControlMode"} :
                With(name, "")
           \/ \E name \in {"WithEventBuffer", "WithOutputBuffer", "WithCloseTimeout"}, n \in {-1, 0, 1} :
                With(name, n)
           \/ \E entries \in {<<>>, <<"E=1">>} : With("WithEnv", entries)
           \/ \E command \in {<<>>, <<"c">>} : With("WithControlArgs", command)
           \/ \E session \in {"", "$0", "work"} : With("WithAttach", session)

Next == TypeByte \/ NextArg \/ AddByte \/ AddCall \/ AddRow \/ AddRelease \/ AddNotice \/ AddNoise
          \/ AddSubscription \/ AddPause \/ AddOption

Spec == Init /\ [][Next]_<<args, value, faulty, input>>

-----------------------------------------------------------------------------
(* Command lines *)

(* Do's requirement, counted both ways: a line that its checks let through *)
(* is exactly one command as tmux reads it, never none and never more, and *)
(* no command stands in braces.                                            *)
AcceptedIsOneCommand == Accepts(args[1]) => OneCommand(args[1])

(* "The safer form when any argument is caller data": whatever bytes the   *)
(* arguments hold, a NUL apart, Do lets the line of DoArgs through and tmux *)
(* reads from it one command with those very arguments, nothing expanded.  *)
DoArgsArrives ==
  LET line == DoArgsLine(args)
      holdsNul == \E i \in 1..Len(args) : Contains(args[i], "nul")
  IN IF holdsNul THEN ~Accepts(line)
     ELSE /\ Accepts(line)
          /\ Lex(line).done = <<args>>
          /\ ~Lex(line).nested /\ ~Lex(line).expands

(* "Inserting a single backslash is exact for every string, a run of       *)
(* backslashes included": the vector reaches tmux as one command, with     *)
(* every element as it was given.                                          *)
VectorArrives ==
  LET read == ReadVector(escapeTrailingSemicolon(args))
  IN read.whole /\ read.args = args

(* Whichever way a call sends its arguments, they arrive.                  *)
ArgumentsArrive == DoArgsArrives /\ VectorArrives

-----------------------------------------------------------------------------
(* Values *)

(* A name reads back as it was given, byte for byte, whichever call set it *)
(* and whatever tmux did to it on the way in: escapeFormat, visEncode and  *)
(* visDecode, with decodeStored, undo all of it; a session's is refused if *)
(* it could not, and only then.                                            *)
NameReadsBack ==
  /\ ListedName(faulty, StoredName(faulty, escapeFormat(value))) = value
  /\ ListedName(faulty, StoredRaw(faulty, escapeFormat(visEncode(value)))) = value
  /\ checkSessionName(value)
       <=> ListedName(faulty, StoredSession(faulty, escapeFormat(value))) = value

(* An array, as another program may have set it, and what the calls add.   *)
ArrayName == <<115>>
Elements ==
  [i \in 1..2 |-> [of |-> ArrayName, name |-> ArrayName \o <<91, 47 + i, 93>>, value |-> <<97, i>>]]
Array == IF input.kind = "none" THEN <<>> ELSE Elements
Called ==
  IF input.kind = "options" THEN input.calls
  ELSE <<[op |-> "set", name |-> AtA, value |-> value]>>
Keeps(call) == checkOptionName(call.name) /\ ~Indexed(call.name)
Table(flawed, array, calls) ==
  LET after[n \in 0..Len(calls)] ==
        IF n = 0 THEN array
        ELSE IF calls[n].op = "set"
             THEN SetOptionScoped(flawed, after[n - 1], calls[n].name, calls[n].value)
        ELSE UnsetOption(flawed, after[n - 1], calls[n].name)
  IN after[Len(calls)]
(* What the calls ask for: the value of the last one that set the name.    *)
Wanted(calls) ==
  {[name |-> calls[i].name, value |-> calls[i].value] :
     i \in {j \in 1..Len(calls) :
             /\ calls[j].op = "set" /\ Keeps(calls[j])
             /\ \A k \in (j + 1)..Len(calls) : calls[k].name # calls[j].name}}

OptionsAsCalled(flawed, array, calls) ==
  LET table == Table(flawed, array, calls)
      wanted == Wanted(calls)
  IN /\ \A lines \in Listings(table) :
          ShowOptions(flawed, splitLines(Lines(lines)))
            = wanted \union {[name |-> o.name, value |-> o.value] : o \in Range(array)}
     /\ \A name \in {c.name : c \in Range(calls)} \union {o.of : o \in Range(array)} :
        \A lines \in Listings(OnlyOf(table, DollarFault(flawed, name))) :
          ShowOption(flawed, splitLines(Lines(lines)), name)
            = IF ~checkOptionName(name) THEN Refused
              ELSE IF name = ArrayName THEN IsArray
              ELSE IF \E w \in wanted : w.name = name
              THEN SetTo((CHOOSE w \in wanted : w.name = name).value)
              ELSE NotSet

(* An option that is read is the option that was set, byte for byte in     *)
(* name and value and in whichever form show-options prints it, by         *)
(* ShowOption under its name and by ShowOptions in the map, where nothing  *)
(* else is: what is unset or was never set is absent, an array is refused  *)
(* by the one and listed by the other, and a name that could not be read   *)
(* back is refused by all of them.                                         *)
OptionReadsBack ==
  args = NoArgs /\ input.kind \in {"none", "options"} =>
    OptionsAsCalled(faulty, Array, Called)

RowsAsListed(spec, objects) ==
  LET read == ParseRows(spec, splitLines(Listing(spec, objects)))
      Sent(k, i) == Replaced(objects[k][spec[i].var],
                             {Newline} \union (IF i < Len(spec) THEN {Tab} ELSE {}))
      Got(k, i) == Lookup(spec, read.rows[k], spec[i])
      Lost(k, i) == SubSeq(Sent(k, i), Len(Got(k, i)) + 1, Len(Sent(k, i)))
  IN /\ read.ok /\ Len(read.rows) = Len(objects)
     /\ \A k \in 1..Len(read.rows), i \in 1..Len(spec) :
          /\ IsPrefix(Got(k, i), Sent(k, i))
          /\ i < Len(spec) => Lost(k, i) = <<>>
          /\ Range(Lost(k, i)) \subseteq {Return}

(* One row per object, in order, whatever is in the values: a column reads *)
(* back with a space for each newline, and for each tab unless it is the   *)
(* last, and only carriage returns at the end of a row are lost.           *)
RowsReadBack == input.kind = "rows" => RowsAsListed(input.spec, input.objects)

(* Where the event has such a field, an identifier of that kind is in it.  *)
Sessions == {"$0", "$1"}
OnlyIds(e) ==
  LET Only(field, ids) == field \in DOMAIN e => e[field] \in ids
  IN /\ Only("session", Sessions \union {""}) /\ Only("window", {"@1", ""})
     /\ Only("pane", IF e.is = "PaneOutput" THEN {"%1"} ELSE {"%1", ""})
     /\ Only("now", IF e.is = "WindowPaneChanged" THEN {"%1"} ELSE {"@1"})
     /\ Only("of", CASE e.is \in Range(N!OfPane) -> {"%1"}
                     [] e.is \in Range(N!OfWindow) \union {"WindowRenamed", "WindowPaneChanged"} -> {"@1"}
                     [] e.is = "SessionRenamed" -> Sessions \union {""}
                     [] OTHER -> Sessions)

(* The events are what tmux told, whatever the texts hold: separators,     *)
(* spaces, identifiers and escapes of their own; and a rename that does    *)
(* not say whose it is, is of the session attached when tmux wrote it.     *)
(* Nothing but an identifier is ever taken for one.  The octal escape of   *)
(* pane output, byte for byte, is undone.                                  *)
EventsArrive ==
  /\ unescape(Escape(value)) = value
  /\ input.kind = "notices" => N!Read(input.lines).events = input.told
  /\ input.kind = "noise" => LET read == N!Read(<<input.line>>)
                              IN read.attached \in Sessions \union {""} /\ OnlyIds(read.events[1])

(* The order releases came in: their numbers, then what a release went     *)
(* through, then its letters.                                              *)
Stage(r) == IF r.stage = "next" THEN 0 ELSE IF r.stage = "candidate" THEN 1 ELSE 2
Age(r) == <<r.major, r.minor, Stage(r)>> \o r.letter
Precedes(s, t) ==
  \E i \in 1..Len(t) :
    /\ \A j \in 1..(i - 1) : j <= Len(s) /\ s[j] = t[j]
    /\ i > Len(s) \/ s[i] < t[i]
Before(r, s) == Precedes(Age(r), Age(s))
Floor == [major |-> 3, minor |-> 2, stage |-> "release", letter |-> <<>>]

ReleasesInOrder(r) ==
  LET Parsed(i) == ParseVersion(TextOf(r[i]))
  IN \A i \in 1..Len(r) :
       /\ ParseVersion(<<116, SpaceByte>> \o TextOf(r[i]) \o <<SpaceByte>>) = Parsed(i)
       /\ AtLeast(Parsed(i), MinimumVersion) <=> ~Before(r[i], Floor)
       /\ Compare(ParseVersion(Master), Parsed(i)) = 1
       /\ SetSize(Parsed(i), 80, 24) = {<<80, IF Before(r[i], Floor) THEN "," ELSE "x", 24>>}
       /\ EscapesDollarOnWrite(Parsed(i)) <=>
            r[i].major = 3 /\ r[i].minor = 4 /\ r[i].stage = "release"
       /\ \A j \in 1..Len(r) :
            Compare(Parsed(i), Parsed(j)) =
              (IF Before(r[i], r[j]) THEN -1 ELSE IF Before(r[j], r[i]) THEN 1 ELSE 0)

(* Versions come in the order they were released, each development tree    *)
(* and candidate before its release and a tree of unknown age last, with   *)
(* or without the word tmux; so the floor of 3.2 lets through what came    *)
(* with it or after, the others are given a size in the older form, and    *)
(* decodeStored is for every release of 3.4 alone.                         *)
VersionsInOrder == input.kind = "versions" => ReleasesInOrder(input.releases)

(* The argument of "refresh-client -B" that a call sends, unless it is     *)
(* refused, and the subscriptions tmux has after all the calls.            *)
Argument(c) ==
  IF c.op = "subscribe" THEN Subscribe(c.name, c.target, c.format) ELSE Unsubscribe(c.name)
Accepted(calls) == {i \in 1..Len(calls) : Argument(calls[i]) # {}}
Subscribed(calls) ==
  LET subs[n \in 0..Len(calls)] ==
        IF n = 0 THEN {}
        ELSE IF n \notin Accepted(calls) THEN subs[n - 1]
        ELSE Refreshed(subs[n - 1], CHOOSE arg \in Argument(calls[n]) : TRUE)
  IN subs[Len(calls)]

(* A value is told under the name of the subscription, and in one line if  *)
(* and only if it holds no newline; the rest of one that does is a line of *)
(* its own to the reader, as Subscribe's comment measures.                 *)
ToldAsNamed(sub, told) ==
  LET lines == ToldBy(sub, told)
  IN /\ NameRead(lines[1]) = sub.name
     /\ Len(lines) = 1 <=> ~Contains(told, Newline)
ToldValues == {<<>>, <<120, 32, 120>>, <<Newline>>, <<120, Newline, 37, 120, 32, 120>>}

SubscribedAsCalled(calls) ==
  LET last == {i \in Accepted(calls) :
                 \A k \in Accepted(calls) : k > i => calls[k].name # calls[i].name}
  IN /\ Subscribed(calls) =
          {[name |-> calls[i].name, target |-> calls[i].target, format |-> calls[i].format] :
             i \in {j \in last : calls[j].op = "subscribe"}}
     /\ \A sub \in Subscribed(calls), told \in ToldValues : ToldAsNamed(sub, told)

PausedAsAsked(d) ==
  /\ PauseAfter(d) = {} <=> d <= 0
  /\ \A secs \in PauseAfter(d) :
       \/ secs = MaxInt32 /\ d >= Second * MaxInt32
       \/ secs <= MaxInt32 /\ Second * secs >= d /\ Second * (secs - 1) < d

(* The subscriptions tmux has are the ones asked for: under each name the  *)
(* target and the whole format of the last call about it, unless that      *)
(* removed it or every call was refused; and what it is told of a value is *)
(* read under that name, in one line unless the value itself breaks it.  A *)
(* pause is to come after the time that was asked for or less than a       *)
(* second later, but for the longest.                                      *)
AskedAsCalled ==
  /\ input.kind = "subscriptions" => SubscribedAsCalled(input.calls)
  /\ input.kind = "pause" => PausedAsAsked(input.ticks)

(* Of the Options in a list: those made by one constructor, the argument   *)
(* of the last of these, and the entries that all WithEnv bring.           *)
MadeBy(opts, name) == {i \in 1..Len(opts) : opts[i].with = name}
LastOf(opts, name, none) ==
  IF MadeBy(opts, name) = {} THEN none
  ELSE opts[CHOOSE i \in MadeBy(opts, name) : \A j \in MadeBy(opts, name) : j <= i].given
Entries(opts) ==
  FlattenSeq([i \in 1..Len(opts) |-> IF opts[i].with = "WithEnv" THEN opts[i].given ELSE <<>>])

OptionsAsAsked(opts) ==
  LET Given(name) == MadeBy(opts, name) # {}
      env == (IF Given("WithoutParentEnv") THEN <<>> ELSE <<"P=1">>) \o Entries(opts)
      path == LastOf(opts, "WithSocketPath", "")
      name == LastOf(opts, "WithSocketName", "")
      server == IF path # "" THEN <<"-S", path>> ELSE IF name # "" THEN <<"-L", name>> ELSE <<>>
      flag == IF Given("WithDoubleControlMode") THEN "-CC" ELSE "-C"
      command == LastOf(opts, "WithControlArgs", <<>>)
      session == LastOf(opts, "WithAttach", "")
      attaches == command = <<>> /\ session # ""
      client == C!Run(opts, <<"-V">>)
  IN /\ client.args = server \o <<"-V">> /\ C!Environment(client.env) = env
     /\ \A oldTmux \in BOOLEAN :
          LET connection == C!Connect(opts, oldTmux)
          IN /\ connection.is = "ErrInvalidID" <=> attaches /\ session # "$0"
             /\ connection.is # "ErrInvalidID" =>
                  (connection.is = "ErrUnsupportedVersion"
                     <=> oldTmux /\ ~Given("WithoutVersionCheck"))
             /\ connection.is = "started" =>
                  /\ connection.args = server \o <<flag>> \o
                       (IF attaches THEN <<"attach-session", "-t", session>>
                        ELSE IF command # <<>> THEN command ELSE <<"new-session">>)
                  /\ C!Environment(connection.env) = env
                  /\ connection.binary = client.binary /\ client.binary # ""
                  /\ connection.events >= 3 /\ connection.tap > 0 /\ connection.patience > 0

(* A connection and a client with the same Options run the same program    *)
(* and speak to the server that the last of them name, in the environment  *)
(* they all add up to, an empty one included; the connection runs the last *)
(* command it was given, or attaches to the last session, and is refused   *)
(* for one that is no identifier if and only if it would have, and for an  *)
(* old tmux unless it is not to look; no list leaves it without a buffer,  *)
(* a time to wait, or the two spare slots of the event channel.            *)
ConfiguredAsAsked == input.kind = "configuration" => OptionsAsAsked(input.opts)

(* handleNotification: decoding a name with visDecode "is what keeps the   *)
(* two halves of the package agreeing".                                    *)
NotificationAgrees ==
  LET stored == StoredName(faulty, escapeFormat(value))
  IN NotifiedName(stored) = ListedName(faulty, stored)
=============================================================================
