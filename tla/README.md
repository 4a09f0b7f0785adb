# A formal model of gotmux

gotmux drives tmux from Go in two ways: a one-shot `Client` that runs a tmux
process per call, and a `ControlClient` that keeps one `tmux -C` process and
talks its control-mode protocol over two pipes. This directory holds TLA+ models
of both, the TLC configurations that check them on small instances, and proofs,
checked by TLAPS, of properties that hold for every value of the constants.

    tlc -workers 2 -config ReplyBinding_bodies.cfg MCReplyBinding   # one run
    tlapm EventStreamProofs.tla                                     # one set of proofs

`PROJECT.json` lists the runs, the definitions with the source lines each stands
for, the hazards with the properties that watch them, and, for each property, a
mutant: a plausible bug in one mapped definition that makes the property fail.
Mutants are the operators whose comment begins "Mutant"; no specification uses
them.

## 1. The system

### Components

| component | source | state it keeps | operations |
|---|---|---|---|
| command and reply binding | `control.go` `Do`, `control_reader.go`, `ctlparse.Classify` | `queue`, `current`, `startup`, `sawFirstLine`, `closed`, `done`; a `pending` per call; `writeMu` | `Do`, `handleLine` with `beginBlock`, `failHead`, `beginUnnumberedBlock`, `dataLine`, `endBlock`, `finishReader`, the grace timer |
| event stream and pane taps | `control_reader.go` `emit`..., `control.go` `Output`/`Untap` | the event channel and `pendingDrops`/`totalDrops`; `taps`, and per tap `ch`, `closed`, `drops`, `total` | `emit`, `flushDrops`, `emitReserved`, `deliverOutput`, `Output`, `Untap`, `finishReader` |
| connection lifecycle | `control.go` `Connect`, `Close`, `detach`, `reap` | the process and its pipes; `closeOnce`, `userClose`, `killed`, `sawExit`, `exitMsg`, `exitErr`, `waitErr`, `done` | `Connect`, `Close`, `detach`, `closeStdin`, `reap`, `Wait`, `Err` |
| control line syntax, quoting | `control.go`, `control_cmds.go`, `client.go` | none | `commentStart`, `commandBreak`, `quoteArg`, `DoArgs`, `escapeTrailingSemicolon` |
| value codecs | `vis.go`, `internal/escape`, `client.go`, `tmuxopts.go`, `format.go` | none | `visEncode`/`visDecode`, `undoDollarEscape`, `unquoteOptionValue`, `escapeFormat`, `Escape`/`unescape` |
| one-shot client | `client.go`, `errors.go`, `session.go` | `versionOnce` and the remembered version | `run`, `tmuxVersion`, `ServerRunning`, `KillServer`, `NewSession`, `ListSessions`, `Session`, `HasSession`, `KillSession` |
| hooks | `hooks.go` | none; three tables in tmux | `SetHook`, `UnsetHook`, `ShowHooks` and the global forms |
| key sending | `keys.go` | none | `SendKeys`, `batchKeys` |
| windows, panes, renames | `window.go`, `pane.go`, `session.go` | none | one process per call |
| options | `tmuxopts.go` | none; tables in tmux | `SetOption`, `UnsetOption`, `ShowOption`, `ShowOptions` |
| line and payload parsing | `internal/ctlparse`, `control_reader.go` `handleNotification` | `AttachedSession` in the client | `Classify`, the notification parsers, the event each becomes |
| control commands | `control_cmds.go` | none; subscriptions in tmux | `Subscribe`, `Unsubscribe`, `PauseAfter`, `SetSize`, `Pause`, `Resume`: each composes one line and calls `DoArgs` |
| format rows | `format.go`, `client.go` | none | `FormatSpec.Arg`, `splitLines`, `ParseRows`, `Row.Lookup` |
| versions, identifiers | `version.go`, `ids.go` | none | `ParseVersion`, `Compare`, `AtLeast`, `EscapesDollarOnWrite`; `validID` |
| configuration | `options.go`, `control.go` `Connect` | the `config` a list of Options makes | `newConfig`, `globalArgs`, `environ`, `attachTarget`, `controlCommand`, `argv` |

### How they interact

* A **caller of `Do`** waits for the startup barrier, takes `writeMu` and then
  `mu`, appends its `pending` to `queue`, writes its line to tmux's stdin with
  `writeMu` held, and waits for `p.done`, for `done` or for its context.
* The **reader goroutine** is the only one that reads tmux's stdout. Each line
  either belongs to an open block or changes `current`/`queue` under `mu`, or is
  a notification, which becomes an event. Nothing but the *order* of reply headers
  ties a reply to a command.
* The same goroutine **publishes**: to the bounded event channel and to the taps.
  It may never wait for a consumer, since replies would wait with it.
* When stdout ends or tmux says `%exit`, the reader runs **`finishReader`**:
  under `mu` it closes the client and takes all that is outstanding, then wakes
  the calls, lifts the barrier, ends the taps and the event channel, closes
  stdin, closes `done` and reaps the process.
* **`Close`**, from any goroutine and once, marks the client closed, starts
  `detach` (which needs `writeMu`), waits, closes stdin and kills tmux when its
  patience ends, and waits again.
* The **one-shot client** shares nothing with these but the codecs; its callers
  share the remembered version, and the tmux server, which changes between the
  processes of a single call.

### What is hard, and what makes each part correct

| component | hard behaviour | correct when |
|---|---|---|
| reply binding | abandoned calls, failed writes, ruined headers and terminators, tmux's own blocks, body lines that look like framing, teardown racing callers, writes blocked on a full pipe | each answer is the block written for that command; one ruined header costs one command; no call is left waiting |
| events and taps | a full channel; the report of a loss needs room too; `Output`, `Untap`, `Close`, delivery and teardown racing over a channel | no silent loss, `Exited` last, no send on or close of a closed channel, no channel left open |
| lifecycle | tmux crashes, hangs, or is killed while `Close` decides; several `Close`s; a `Connect` that fails half way | one story told by `Wait`, `Err`, `Exited`, `Do`; no zombie, no leaked pipe; `Close` returns |
| lines and values | tmux's lexer and storage transform bytes several times, version 3.4 in a faulty way | one accepted line is one command; what is read is what was written |
| one-shot client | the session or server ends between two processes of a call; cancellation after the work is done; a cached first answer | no failure passes for an absence, but for one to connect (section 5); what was created is reported |
| hooks | three reads, changes between them, arrays merged into one map | complete and sound with respect to the hooks in place during the call |
| listings and options | nothing is quoted in a row or in an option's name; arrays are printed as several options | as many rows as objects, each column its own; an option reads back as set, or is refused |
| notifications | values hold what separates the fields; a rename may not say whose it is | the event says what tmux told; nothing but an identifier is taken for one |
| subscriptions, configuration | a name that tmux writes back unchecked; options that override each other; an empty environment against an inherited one | tmux is asked what the caller asked, once, and what it tells is read under the caller's name, in one line unless the value breaks it (section 5) |
| keys | a failure between two runs, other senders between runs | what arrived is a prefix, and the result says which |

The full list of hazards, each at its line, is in `PROJECT.json`.

## 2. Modules

| module | models | depends on |
|---|---|---|
| `ReplyBinding` | the callers of `Do`, the reader, `Close`/`detach`, tmux and both pipes, as far as commands feel them | |
| `CommandService` | abstract: what `Do` promises, with no wire or queue | |
| `ReplyBindingInv` | the inductive invariant, and the refinement mapping from `ReplyBinding` to `CommandService` | extends `ReplyBinding`, instantiates `CommandService` |
| `ReplyBindingProofs` | proofs: types, the inductive invariant, the safety properties, the refinement | extends `ReplyBindingInv` |
| `EventStream`, `EventStreamProofs` | the publishing half of the reader, the taps, `Output`, `Untap`, consumers | |
| `Lifecycle`, `LifecycleProofs` | `Connect`, `Close`, `detach`, `reap`, the end of the reader, the tmux process | |
| `CommandLine` | the checks of `Do`, `quoteArg`, `DoArgs`, `escapeTrailingSemicolon`, and tmux's lexer | |
| `ValueCodecs` | the codecs, and tmux's storage and printing of values | |
| `Rows` | lines and rows: `Arg`, `splitLines`, `ParseRows`, `Lookup`, and tmux's expansion of the template | |
| `OptionReaders` | setting, unsetting and reading options, and what `show-options` prints | extends `ValueCodecs`, `Rows` |
| `Versions` | `tmux -V` read and ordered | extends `Rows` |
| `Notifications` | the payload parsers, `handleNotification` and the attached session, and tmux's writing of each notification | |
| `ControlCommands` | subscriptions, the flow control flag, the client's size, and tmux's side of a subscription | extends `ValueCodecs`, `Rows`, `Versions` |
| `Configuration` | every Option, and the process that `Connect` or a one-shot client starts with a list of them | |
| `OneShot`, `OneShotProofs` | the callers of one `Client` against a changing server | |
| `Hooks`, `HooksProofs` | `ShowHooks` against other programs' changes | |
| `Keys`, `KeysProofs` | `SendKeys` by several callers to one pane | |
| `MC*` | instances for TLC; `MCValues` drives the eight modules from `CommandLine` to `Configuration` that have no state of their own, one input at a time | |
| `ValuesProofs` | proofs about `CommandLine`, `ValueCodecs`, `ControlCommands` and `Configuration`, for lines, arguments and values of any length and any number of calls and Options | extends `MCValues` |
| `ListsProofs` | proofs about `OptionReaders`, `Rows`, `Notifications` and `Versions`, for calls, listings, notifications and releases of any number, with any values; and that every input of `MCValues` is one that the proofs are about | extends `ValuesProofs` |

Three modules cut one program, the control client, along its concerns. The reader
goroutine is in all three: `ReplyBinding` has what it does to calls, `EventStream`
what it does to channels, `Lifecycle` what it does to the process. The cut is
sound because these concerns touch only where the modules overlap: the `closed`
flag (an action of each module), the order of `finishReader`'s stages (each module
keeps the stages it is about, in the code's order), and the fact that publishing
never blocks the reader, which `EventStream` checks (`ReaderNeverWaits`) and the
others rely on.

### State and actions

**`ReplyBinding`.** `pc`, `ret` are the places of the calls; `lines`, `outcome`,
`woken` are the fields of their `pending`s; `queue`, `current`, `startup`,
`sawFirstLine`, `closed`, `sawExit`, `done`, `stdinClosed` are fields of
`ControlClient`; `rpc`, `waiting`, `cpc`, `dpc` are the places of the goroutines.
Each action is a stretch of code that no other goroutine can observe inside: in
`Do` one per `select` arm, critical section or blocking write; one per way
`handleLine` can take a line; one per stage of `finishReader`, `Close` and
`detach`. `tm`, `wire`, `sent` and what follows are tmux and the pipes, modelled
from what the reader's comments say of tmux: it answers in order, has one block
open at a time, and writes nothing of its own inside one. A line is the record
that `Classify` makes of it, with its origin as history. Time stamps and the text
of lines are abstracted.

tmux may also die inside a line (`TmuxDiesMidLine`, with `CutShort`): the fragment is
handled like a line, since `ReadString` returns it with the error. A fragment of a
header is a header without flags or one that does not parse, a fragment of a
terminator is data or a terminator that does not parse. A fragment that lost only
its newline is the whole line.

**`EventStream`.** The channel is a sequence of "event", "report" and "exited";
a tap is a count of buffered messages with its flags and counters. `emit` takes
four steps (flush, publish, reflush, done), since a consumer may receive between
them; `deliverOutput` holds `mu` throughout and is one. What the loss counters
say is compared with history variables that count what really happened.

**`Lifecycle`.** Pipe ends are a set `fds` of descriptors this process holds;
tmux may say `%exit`, complain on stderr, close its output, end by itself with a
status or a signal, or be killed. `Connect` has an action per step that can fail.

**`OneShot`.** A tmux process is one step that changes the server and ends in one
of the ways `run` distinguishes; a context may kill it before or after it did its
work. One that talks to the server may fail to connect to one that runs (`ServerExits`),
which `noServerPatterns` takes for there being none. Identifiers are never reused, as `ListSessions` assumes. Names are modelled
as far as the remembered version decides how one is read.

**`Hooks`.** The hooks are a set of elements (name, index, command), each name
kept in one of the three tables; others change the set between the reads.

**`Keys`.** A key is its kind; the pane is the sequence of what reached it.

**`CommandLine`, `ValueCodecs`, `Rows`, `OptionReaders`, `Versions`,
`ControlCommands`, `Configuration`.** Pure operators, translated from the Go loops,
over bytes by number (in `CommandLine` by class, in `Configuration` over opaque
texts). tmux's side (lexer, argument parser, vis pass, the 3.4 fault, option tables
and subscriptions, printing) is external, as the package's comments describe it.

**`Notifications`.** A text is the sequence of what lies between its single spaces,
since that is all the parsers look at; which fields are identifiers, numbers or
escaped is a parameter. `Read` is the reader's loop over a list of notifications: it
keeps the attached session and yields the events. `Written` is tmux's side, each
event to the lines that may tell it, in the older form of a rename too.

## 3. Runs

| run | checks | bounds and why they are enough |
|---|---|---|
| `ReplyBinding_bodies` | `OwnReply`, `ExitIsTmuxs`, types: bodies that hold lines shaped like `%begin`, `%end`, `%exit`; a block of tmux's own; tmux with and without a flags word; ruined headers | two calls (a wrong binding needs a second call), one body line, two unread lines, a pipe of one command, so that a second write blocks |
| `ReplyBinding_ruined` | `IInv`, `QueueAligned`, `ProtocolErrorIsOwn`, `NothingAfterDetach`: ruined headers and terminators, stray lines, a last line cut short, with and without an opening block, the grace timer | two calls, empty bodies (a block that a ruined terminator leaves open takes the later lines as its body), one stray line. Only here may tmux die inside a line: with bodies the run would double, and `IInv` contains `OwnReply` |
| `ReplyBinding_returns` | `EndFreesCalls`, `EveryCallReturns`, `ImplementsService` | as above with one unread line: these checks need the whole graph |
| `EventStream` | `NoPanic`, `ExitedIsLast`, `LossesAdd` (of events, `EventLossesAdd`, and of taps, `TapLossesAdd`), `EndClosesTaps`, `ReaderNeverWaits`, `ExitedIsHeard` | two panes (the teardown ends several taps), two taps (one may replace the other on a pane), buffers of one, three lines: enough to fill the channel and both spare slots |
| `Lifecycle` | `WaitAgreesWithExited`, `TerminalErrSettles`, `CloseTellsTheEnd`, `ReturnMeansOver`, `FailedConnectLeaksNothing`, `NoZombie`, `CloseReturns` | two callers of `Close` besides `Connect`'s own; the module has no other bound |
| `Values` | `AcceptedIsOneCommand`, `ArgumentsArrive`, `NameReadsBack`, `OptionReadsBack`, `RowsReadBack`, `EventsArrive`, `VersionsInOrder`, `AskedAsCalled`, `ConfiguredAsAsked` | one input of one of the kinds below |
| `OneShot` | `GoneIsGone`, `CreatedIsReported`, `NamesAgree`, `CallsReturn` | two callers, two sessions, three calls: enough for two readers, or a creator and a killer, and one more call after what they left |
| `Hooks` | `HeldIsReported`, `ReportedWasThere` | two hooks of two tables, arrays of two elements, two commands, three changes: one between each two reads and one to spare |
| `Keys` | `DeliveredIsPrefix`, `ResultTellsTruth` | two callers, three keys of three kinds: a kind that comes back after another |
| `EventStream_doc_losses`, `Lifecycle_doc_bound`, `Values_doc_notified` | violated: see section 5 | |

The inputs of `Values`:

* every list of up to two arguments with four bytes in all, of twelve classes of
  bytes; the first is also a line for `Do`;
* every value of up to four of fourteen bytes. No rule looks at more than four
  bytes at once (an octal escape);
* two calls that set or unset an option, with ten names and six values (spaces,
  newlines, brackets with and without an index, `$`), over a table in which another
  program left an array; with and without the fault of 3.4. Two calls: one may
  replace, remove or hide the other;
* listings of up to two objects, under six specs of up to three columns, with values
  that hold tabs, newlines and carriage returns;
* two releases of 108, development trees, candidates, letters and an OS name among
  them: what is said of an order is said of pairs;
* up to three notifications about sessions, or one of any kind, whose texts have up
  to three fields (`:`, numbers, identifiers, empty fields, escapes); and a line of
  any notification with any such text for its arguments. Three: an attachment,
  another, and a rename that does not say whose it is;
* two calls that subscribe or unsubscribe, with eight names, six targets and three
  formats, told empty values, values with spaces and values with newlines; a pause of any length up to two seconds beyond the longest, which is
  `MaxInt32`, here 3, with four ticks to the `Second`;
* lists of three Options, of all twelve but `execPrefix`.

`DoneWakesAll` (once `done` is closed every call past its write has been woken) and
`BarrierHolds` (nothing is queued or written before the startup barrier lifts) are
conjuncts of `IInv`. `TypeOK` says in each module what its variables hold; it is
proved of `ReplyBinding`, `EventStream`, `Lifecycle`, `OneShot` and `Keys`, and only
the first of these spends TLC's time on it.

TLC looks for deadlock in `ReplyBinding_bodies` and `ReplyBinding_ruined`, where a
state without a step is a caller or goroutine stuck for good; `Terminated` is the
one state in which everything has ended. In `ReplyBinding_returns` the liveness
properties say the same of calls and more. Elsewhere the system may stop: lines,
calls, changes and bytes are bounded, and nobody has to open or close anything.

Symmetry (permuting calls, callers, panes or taps) is used only in runs without
temporal properties other than action properties.

### Fairness

* `ReplyBinding`, `ClientFairness`: every goroutine of the client runs, `Close`'s
  timers expire, and a killed tmux dies. The Go scheduler and the kernel give
  this. No caller has to call `Do`, end a context or call `Close`. A write to a
  full pipe is not fair by itself, it is disabled. `EveryCallReturns` assumes
  besides, in its own statement (`TmuxFairness`), that tmux answers what it reads
  and ends the blocks it opens, and that the grace timer expires.
* `EventStream`, `ReaderSpec`: the reader runs. `ExitedIsHeard` assumes that the
  consumer of the events keeps receiving; consumers of taps need not.
* `Lifecycle`, `ClientSpec`: as for `ReplyBinding`; nothing is asked of tmux
  except that SIGKILL ends it. `CloseReturns` assumes `TmuxEndsInTime`, that a
  tmux which said `%exit` or closed its output ends; `Lifecycle_doc_bound` shows
  that it is needed.
* `OneShot`, `CallSpec`: each caller goes on, and its tmux processes end. A
  process ends by itself or is killed when its context is.

## 4. Proofs

All proofs are for every value of the constants, so for any number of calls,
callers, panes, taps, hooks, keys, lines, changes and bytes, and any size of buffer.
They assume the `ASSUME`s of the modules (`ConstantsOK`, `BuffersOK`, `CallersOK`,
`NoIdAssumption`, `OneShotAssumption`, `KeysAssumption`, `EmptyAssumption`,
`HooksAssumption`, `TableOfAssumption`, `ValuesAssumption`, `PauseAssumption`), which TLC evaluates in the runs. They say
that marks such as `Nobody` or `NoId` are not what they mark the absence of, that
bounds are numbers, that switches are Boolean, and that the values tried are bytes.

None of the properties below is inductive as it stands. Each module of proofs has a
strengthening `IInv` (`ReplyBindingInv` holds the one of reply binding, which
`ReplyBinding_ruined` checks), a lemma for the initial states, one per action or group
of actions, and `InvCorrect`, from which the properties follow.

**`ReplyBindingProofs`**: `TypeCorrect`. One lemma per goroutine (`TypeDo`,
`TypeReader`, `TypeClose`, `TypeTmuxStep`) with a step per action; `TypeFrame`
carries what an action leaves alone. The part that is not routine is that
`unqueue` and the binding of a header leave a queue of calls, and that every line
on the wire has a number and a place that the reader can compare.

Then the inductive invariant: `InvCorrect`, and from it `OwnReplyCorrect`,
`QueueAlignedCorrect`, `ProtocolErrorCorrect`, `ExitCorrect`, `GatesCorrect`
(`BarrierHolds` and `DoneWakesAll`) and `DetachCorrect`; then `ServiceImplemented`.
The properties speak of what reached a caller, but what makes them true is on the
wire. Each line carries in `at` tmux's place when it was written, so that a line and
the next one show one step of tmux (`LineTo`), and the last line of a tmux that died
inside it shows where it stopped (`CutTo`). The reader is compared with tmux's place at
the line it has come to (`Cut`):

* `Synced`: it has the block open that tmux had open there, has bound as many
  commands as tmux had begun, and has collected as many lines of the body. This is the
  normal case, and `OwnReply` and `QueueAligned` are read off it;
* `Stuck`: a ruined terminator went by as a line of the body, and the block is open for
  good, since no two blocks have one number (`NumberInv`) and nothing on the wire
  carries this one's;
* `Severed`: it has handled the line tmux died in, and the end comes next.

`FreshInv` says that a call not yet queued has no answer, `QueueInv` that each queued
one is waiting for its own, `WakeInv` in whose care a call is until it is woken,
`GateInv` what the barrier and `Close` have let happen. `SayingKeeps` is the step every
line of tmux's takes: one more at the end changes nothing at the cut.

The refinement takes a call to `CommandService` by `CallOf`, and the commands written
to the order in which they are accepted. `Call` is `Ask`, a write that succeeds is
`Accept`, tmux's terminator of a command's block is its `Judge` (the command is the one
at `tm.taken` of those sent), `Woken` is `Answer` or `Fail`, every other return is
`Fail`, and all else is invisible. That `Woken` hands over the verdict that was given,
and only for a command that was accepted, is `OwnReply` and `TmuxInv`.

**`EventStreamProofs`**: `ExitedIsAlwaysLast`, `EveryLossCounted`, `NeverPanics`,
`EndIsComplete`. `IInv` adds how full the channel may be before each kind of put
(`SlotInv`: the channel never holds more than the buffer and one report until
`Exited`, hence there is room for it), that a tap is registered for one pane at most
and has no account before it is made (`MadeInv`), what each stage of the teardown still
has in hand (`ClosingInv`), and who may still close a tap (`FlagInv`: the one that set
its flag). `StepInv` has a case per action, through `Frame`.

**`LifecycleProofs`**: `WaitAgrees`, `CloseTells`, `ReturnOver`, `NoLeak`, and the
action property `TerminalErrCorrect`. `IInv` adds which descriptors each stage of
`Connect` has opened (`ConnectInv`), that what the reader announced is what it left in
`exitErr` (`EndInv`), that whoever has passed `closeOnce` found the connection over or
the kill given up (`OnceInv`), that the one wait for the process closes this side
of its pipes (`ReapInv`), and what it makes of the end (`WaitInv`): a kill is announced in
`killed` before it is sent, so whoever waits, the reader or a `Close`, knows of it; and
before the wait it is announced only when the timeout has run out, so no other crash is
taken for it. `TellInv` takes that to what the call returns. `EndIsFixed` is the heart of the last: once `done` is closed,
nothing that `Err` reads is written but `userClose`.

**`OneShotProofs`**: `GoneCorrect`, `CreatedCorrect`, `NamesCorrect`. `CallInv` says
what a call holds at each of its stages: a reading call's rows miss nothing it is about
that still lives, a creating one has its session's identifier from the moment its
process ended well. `NothingComesBack`: an identifier that has ended does not live
again, which is what lets an answer be true later than it was read. `NameInv`: one
caller asks for the version, and a row is decoded only once it is known. `RunIs` is
what `run` makes of a process's end: `ErrNoServer` where there is no server, or where the
process could not connect, which the call then carries in `unreached`.

**`KeysProofs`**: `BatchKeysCorrect` (the runs are not empty, of one kind each, and
together are the keys, in order), `DeliveredCorrect`, `ResultCorrect`. `CallInv` says
that the keys of a call in the pane are those of the runs it has sent, others' keys
among them or not, and a part of the run in hand; `NextRun` takes it from one run to
the next.

**`HooksProofs`**: `ShowHooksIsComplete`, `ShowHooksIsSound`. All elements of a
hook are in one table and are printed by one command at one moment; so under one
name and index there is one element (`SingleValued`), `key` tells every printed
element from every other (`KeyTells`, which is what its counting is for), and no
line is lost in the map (`MergedIsExact`). `ReadInv` says what the tables read so
far have brought; `TablesInOrder` that three tables are all there are.

**`ValuesProofs`**: `AcceptedCorrect`, `ArgumentsCorrect`, `NamesCorrect`, and, of all lists of
calls and of Options, `SubscriptionsCorrect` and `OptionsCorrect`, for lines, arguments, names and
lists of any length. The state of `MCValues` is one input; what is proved
is about the operators, and `ArgsAreBytes` and `ValueIsBytes` say that every input TLC
could be given is one that they are about.

* `AcceptedCorrect`: a line that is let through is one command, with none in braces, as
  tmux's lexer cuts it. It follows `commandBreak`'s scan and tmux's lexer along one line.
  `Follows` relates them: the same quote, the same escape, a token open where the scan
  is not at a start; and nothing has ended a command. `StepFollows` keeps it byte by
  byte while the scan has not stopped, and in a comment, where tmux reads nothing and
  the scan may think anything, `Begun` keeps the one command that came before.
* `ArgumentsCorrect` follows both along what `quoteArg` writes. `At` is where they are
  with some tokens complete and another under way; `Leads(w, p, q)` says that the bytes
  `w` take them from `p` to `q`, and texts that lead on from each other lead together
  (`LeadsAlong`). One lemma per kind of byte; `TokenRead` for the three ways of
  `quoteToken`; `RunsAre`: the runs that `quoteArg` cuts an argument into at its
  newlines, with the newlines, are the argument; `ArgRead`, `LineRead`. For the
  one-shot client's vector, `BackslashBeforeLast` undoes `escapeTrailingSemicolon`.
* `NamesCorrect` is about the codecs. An encoder maps the bytes of a value one by one (`Mapped`). A decoder
  jumps ahead by the length of what it has recognised; it is defined by recursion on
  the place it is at, so what it reads from a place is a function of the place
  (`ReadFrom`), and `Reads(d, Z, p, t)` says that it reads the piece `p` as `t` whatever
  follows (in `Z`). Pieces read one after the other (`ReadsMapped`), so a round trip
  comes down to a lemma about the encoding of one byte. Three things make it more than
  that. What the fault of 3.4 inserts depends on what follows a `$`, so it tells the last
  byte of a value from the others (`FaultIs`, `FaultAtEnd`). It is done to the argument
  before tmux expands and encodes it, and undone last, so the decoders in between are
  shown to leave it in its place (`ThroughFault`: `FormatUndone` for `Expand`,
  `VisFaultUndone` for `visDecode`). And what tmux puts for the separators in a session's
  name comes between the two and has to be shown to commute with it (`SessionFault`); the
  name is left as it was if and only if `checkSessionName` allows it (`StoredAsChecked`).

* The calls and the Options. A recursive definition over a sequence is a loop that exists (`Passes`), so
  it has the values that its equations say. `AskedGrows` and `CallReplaces`: one call more
  changes what was asked for, and what tmux has, in the same way, under its own name and
  no other; `TargetHasNoColon` and `NameIsPlain` are why tmux cuts the argument where
  `Subscribe` joined it. `ValueIsTold`: whatever the value, the name, which holds no colon
  and no newline, is in the first line of what is told (`FirstIsKept`), and a second line
  begins where the value has a newline and nowhere else. `OptionApplies`, with a case per constructor, says what one
  Option does to a configuration and that it does nothing else; `Holds` is what a
  configuration is after the first `n` of a list, and `NextHolds` takes it to the next.

**`ListsProofs`**: `AskedCorrect`, `ConfiguredCorrect`, `StoredOptionsCorrect`, `RowsCorrect`,
`EventsCorrect` and `VersionsCorrect`. Here too `InputIsTyped` says that every input is one of those that the
theorems are about, which are all lists of calls that subscribe (`SubscriptionsCorrect`), of
Options (`OptionsCorrect`), of calls that set options (`CallsCorrect`) and of notifications
(`ReadAsTold`), all listings (`ListingsCorrect`) and all lists of releases (`ReleasesCorrect`).

* The rows. `ListingsCorrect` is about any objects and any spec that names no column
  twice, the values any bytes, except that what is asked for as an expression holds no tab
  or newline, since nothing replaces them there (`Listable`). `ColumnPrints`: what tmux is
  asked to replace keeps newlines out of every column and tabs out of all but the last.
  `SplitJoin`: parts without the separator are found again when they were joined, and the
  last of them in as many parts as it has; it serves for the lines of tmux and for
  the fields of a row. `JoinSplit` is why `ParseRows` can put a last column with tabs
  together again (`FieldsJoined`). `JoinTrimmed`: what `splitLines` trims from a line is
  from its last column, since a tab comes before it; `Loses` says how much.

* The options. `CallsCorrect` is about any calls whose names and values are any bytes,
  over the array that another program may have set, which no call names.
  `ImagesShow`: `visEncode` leaves no byte that ends a line or that tmux would quote
  except those it names. `ValueRead`: the value is read back from each form that tmux
  may print it in, bare, quoted or with an octal for each byte (`Unquoted`,
  `NotQuoted`). `NameStored`: a name that the calls accept is stored as a word, so that
  the space after it ends it, and the fault of 3.4 tells names apart still
  (`FaultDiffers`); `ElementHasIndex` and `NotItsElement` tell an element of an array
  from an option, and from the element of another. `LinesBack` finds the lines that were
  printed, and as tmux has each option once (`StoredOnce`), reading them one after the other is
  to read a set (`AllRead`, `OptionPicked`). `CallStands`: one call more changes the
  table (`TableKeeps`) and what is wanted in the same way, under its own name and no
  other; `LastingGrows` is that the last calls are what `Wanted` says.

* The notifications. `ReadAsTold` is about any number of them in any order, their texts any
  number of fields (`Text`), and a field any string but the stored form of an escape, which
  would itself be read as escaped (`Plainly`). `TextUndone` and `NameUndone`: a text is read as
  it was before tmux escaped it, and a stored name never begins with what is an identifier.
  `RestOfJoined` and `SeparatorFound`: what comes after a field, or after the first colon, is
  the text that was joined to it, colons and spaces in it included. `TrimSpace` and `FieldsOf`
  choose or collect among the fields (`TrimSpaceIs`, `AmongIs`). Then one lemma for each shape of
  event (`OutputHeard` to `WholeHeard`), from the line that tmux writes for it (`LineWrites`)
  and the case of `EventOf` that reads it (`EventFor`); `EventHeard` has them together.
  `AttachedAt` is the session of the last change that was told; `ReaderStep` shows that the
  reader remembers just that, which is why a rename that does not say whose it is is read
  right. `NoiseHeard` is about a line of any name and any arguments: `Honest` events hold in
  a field for an identifier nothing else. `OutputUndone` is the octal escape, byte by byte.

* The releases. `ReleasesCorrect` is about any number of them, with numbers below a hundred
  and any letter, candidates, development trees and an OS name among them. `NumeralRead`:
  the numerals are read as they are written. `TextParsed`: the text is taken apart where it
  was put together, prefixes, numbers and suffix, the OS name coming off only where nothing
  before the first dot is a number (`OsOff`). `ComparesBytes`: suffixes are compared byte by
  byte like letters; `StageIs`: and a candidate's, which begins with a hyphen, as an earlier
  stage. `AgedCompare` puts numbers, stages and letters together into the order that the
  releases came in.

*Induction.* The library's induction theorems take an operator, which none of the
provers here can instantiate. `KeysProofs`, `ValuesProofs` and `ListsProofs` do without: `NatMin`
gives a set of naturals its least element, and a property that holds of 0 and passes
from one number to the next has no least exception (`UpTo`). `LoopExists` shows by the
same means that a loop over bytes has the function that the model defines it by.

Only model-checked:

* liveness, since TLAPS does not reason about fairness: `EndFreesCalls`,
  `EveryCallReturns`, `ReaderNeverWaits`, `ExitedIsHeard`, `NoZombie`, `CloseReturns`
  and `CallsReturn`;
* that no state of `ReplyBinding` is a deadlock.

## 5. Where the code and its documentation differ

Three runs check a sentence of the documentation and find it violated:

* `EventStream_doc_losses`: `emit`'s comment says a caller that fell behind and
  went quiet is told of its losses. The report has one spare slot; while it holds
  an unread report, later losses are only counted, and the channel then closes
  with them unreported (`Dropped` still counts them).
* `Lifecycle_doc_bound`: `Close`'s comment says its bound of two timeouts holds
  whatever tmux does. A tmux that says `%exit`, or closes its output, and lives on
  holds `Close` in `reap`, which waits without a bound.
* `Values_doc_notified`: names in notifications are decoded with `visDecode` "to
  keep the two halves of the package agreeing", but listings also undo the escape
  of tmux 3.4. There a name with a `$` is listed and notified differently.

Others were met while modelling and are recorded here without a run:

* `control.go:1006` stores `killed` before it kills, so a tmux that crashed just
  then is taken for one that this package killed, against `control.go:951`
  ("a signal this package did not send"). `CloseTellsTheEnd` states what does hold: only
  a crash that nobody had waited for when the timeout ran out is taken so.
* `errors.go:173` takes any "error connecting to" for the absence of a server, whatever
  the errno that follows. A server whose socket was removed, or may not be opened by this
  user, lives on, and `KillSession` and `KillServer` report success, `HasSession` and
  `ServerRunning` false: the outcome that the comment above it (line 163) gives for its
  reason to be narrow, "A command that failed would report having found nothing to do".
  `GoneIsGone` excepts it, and nothing else.
* `Do`'s comment (`control.go:560`) names what its checks cannot see: `if-shell`,
  `bind-key` and `source-file` make tmux run further commands, each with a block of its
  own, and the queue is then out of step. `AcceptedIsOneCommand` says that an accepted line
  is one command, not that it earns one block; callers are asked not to send these.
* `Subscribe`'s comment (`control_cmds.go:46`) likewise: a newline in a value that tmux
  tells ends the notification, and what follows it is a line of its own to the reader, be it
  shaped like `%exit`. `AskedAsCalled` says when that happens, not that it does not.
* `control_reader.go:312` says a ruined first header lifts the startup barrier;
  the barrier stands until the block it opened is closed, as line 145 says.
* `session.go:239` says `NewSession` reports what is known of a session that was
  created; a context that ends before the read-back leaves only the error.
  `CreatedIsReported` states what does hold.
* `session.go:408` says `Session` gives `ErrNoServer` when no server runs;
  `QueryArgs` makes that an empty listing, so it is `ErrNoSession`.
* `version.go:123` calls the 3.4 fault one vis pass that `visDecode` inverts;
  `client.go:82` says it is not one, and is right.

## 6. What is not modelled

* Cases the code's comments give up on, because nothing on the wire tells them
  apart: a ruined header of a block tmux opened for itself, a reply's ruined
  header as the very first line, a body line that is the terminator of its own
  block, and any terminator inside a block whose header was ruined.
* A tmux that writes no flags word and is so slow that the grace timer expires
  before its opening block: the barrier is then all there is, and it is lifted.
* A fragment of a line that carries the number of the block it would end, or of a
  notification: the first is a whole terminator but for fields nothing reads, the
  second an event with a shorter text.
* `syncBuffer`, one mutex around a truncating append.
* In `Hooks`, the window a session target resolves to does not change.
* A rename in the older form, without an identifier, whose name begins or ends with
  a space: `handleNotification` trims it, and nothing says it should not.
* The order of two candidates of one release: the code compares their suffixes as
  text, so `rc10` comes before `rc2`; and an OS name in front of a candidate or a
  development tree. No release has had either.
* Which of tmux's tables the scope of an option names, and the words by which tmux
  says that an option is not there.
* Windows and panes beyond how their names are stored and their listings read: their
  calls run one process and keep no state, as `OneShot`'s do. `Pause` and `Resume`
  check an identifier and send one line. The typed columns (`Int`, `Bool`, `Time`)
  are `strconv` with an error.
* `NewSessionOptions.args` beyond the names in it, `validateEnv` and
  `validateCommand`: they refuse what holds certain bytes.
* A command that makes tmux run further commands, and what a told value holds after its
  first newline: see section 5. `ReplyBinding` has a block per command, and lines outside
  blocks that only tmux means.
* A server that goes away while a command is in flight ("lost server"): in `OneShot` its
  sessions end before or after the step of the process.
* `internal/faketmux`, the scripts and the examples.

## 7. Plan

Done, in this order: reply binding with its abstract service, events and taps,
lifecycle, lines and values, the one-shot client, hooks, keys; the first proofs;
rows, options, notifications, versions, control commands, configuration; a tmux that
dies inside a line; the proofs of the safety properties of reply binding with its
refinement, of the lifecycle, the one-shot client and the keys, of the command
lines, and of names, options, subscriptions, configurations, rows, notifications and
releases.

Next:

1. `RenameSession` and `RenameWindow` as calls of `OneShot`, racing the readers of a
   name; the arguments of `NewSession`; `syncBuffer`.
