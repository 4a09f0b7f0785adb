---------------------------- MODULE ReplyBinding ----------------------------
(***************************************************************************)
(* The command half of a control-mode connection: the callers inside       *)
(* ControlClient.Do, the goroutine that reads tmux's lines, Close with its  *)
(* detaching goroutine, and tmux at the other end of the two pipes.        *)
(*                                                                         *)
(* A reply is bound to a command by queue order only.  The front of        *)
(* `queue' takes the next %begin that answers this client, whatever number *)
(* tmux gave it, so the whole design rests on the queue and the sequence   *)
(* of reply headers staying aligned through refused headers, abandoned     *)
(* calls, failed writes, blocks of tmux's own and the teardown.            *)
(*                                                                         *)
(* Left out: what emit publishes (the event stream never blocks the reader *)
(* and nothing here reads it back), time stamps, and the text of lines.    *)
(* Every command in Cmd is one that Do's syntax checks let through and     *)
(* that tmux answers with exactly one block.                               *)
(***************************************************************************)
EXTENDS Naturals, Sequences, FiniteSets

CONSTANTS
  Cmd,             \* one element per call of Do
  Tmux,            \* the source of a block that answers no command of ours
  Nobody,          \* the owner of the block when none is open
  Lookalikes,      \* shapes, besides plain data, that a line of a body may have
  StartupModes,    \* whether tmux opens a block of its own first: some of BOOLEAN
  FlagModes,       \* whether tmux writes the flags word of a header: some of BOOLEAN
  GraceMayFire,    \* startupGrace may expire before tmux's first line is read
  RuinHeader,      \* a %begin may arrive with arguments that do not parse
  RuinFooter,      \* so may an %end or %error
  CutShort,        \* tmux may die inside a line
  MaxBody,         \* bound: lines of one body
  MaxUnsolicited,  \* bound: later blocks that answer no command of ours
  MaxNotes,        \* bound: notifications and stray lines between blocks
  WireCap,         \* bound: lines tmux has written and the reader has not read
  PipeCap          \* bound: command lines the pipe to tmux holds

Shapes == {"begin", "end", "error", "exit", "note"}
Terminators == {"end", "error"}

ASSUME ConstantsOK ==
  /\ Tmux \notin Cmd /\ Nobody \notin Cmd /\ Tmux # Nobody
  /\ Lookalikes \subseteq Shapes
  /\ StartupModes \subseteq BOOLEAN /\ FlagModes \subseteq BOOLEAN
  /\ GraceMayFire \in BOOLEAN
  /\ RuinHeader \in BOOLEAN /\ RuinFooter \in BOOLEAN /\ CutShort \in BOOLEAN
  /\ MaxBody \in Nat /\ MaxUnsolicited \in Nat /\ MaxNotes \in Nat
  /\ WireCap \in Nat \ {0} /\ PipeCap \in Nat \ {0}

VARIABLES
  \* callers of Do
  pc,            \* [Cmd -> where each call is]
  ret,           \* [Cmd -> what it returned]
  \* the fields of each call's pending entry
  lines,         \* [Cmd -> body lines gathered so far]
  outcome,       \* [Cmd -> answered with %end or %error, failed by failHead, or neither]
  woken,         \* [Cmd -> p.done is closed]
  \* fields of ControlClient
  queue, current, startup, sawFirstLine, closed, sawExit, done, stdinClosed,
  killed,        \* Close ran out of patience and killed tmux
  \* goroutines
  rpc,           \* the reader: "read", then the stages of finishReader
  waiting,       \* finishReader's local: calls still to be woken
  cpc,           \* Close
  dpc,           \* detach
  \* tmux and the pipes
  sent,          \* history: command lines written, in order
  detached,      \* the empty line is in the pipe behind them
  wire,          \* lines on their way to the reader
  tm,            \* tmux's own place: [blk: the block it has open, taken: commands begun]
  up, hasStartup, hasFlags, spoken, nextNumber, notes, unsolicited,
  cut,           \* history: tmux died inside a line, the last on the wire
  saidExit,      \* history: tmux wrote %exit outside every block
  verdict,       \* history: [Cmd -> the terminator tmux wrote for it]
  bodyLen,       \* history: [Cmd -> the lines of the body it wrote]
  ruinedReply,   \* history: commands whose reply's header was ruined
  bound          \* history: written commands taken off the front of the queue

callVars == <<pc, ret>>
pendingVars == <<lines, outcome, woken>>
tableVars == <<pendingVars, queue, current, bound>>
flagVars == <<startup, sawFirstLine, closed, sawExit, done, stdinClosed>>
readerVars == <<rpc, waiting>>
closeVars == <<cpc, dpc, killed>>
pipeVars == <<sent, detached>>
answerVars == <<verdict, bodyLen, ruinedReply>>
tmuxVars == <<tm, up, cut, hasStartup, hasFlags, spoken, nextNumber, notes,
              unsolicited, saidExit, answerVars>>
vars == <<callVars, tableVars, flagVars, readerVars, closeVars, pipeVars, wire,
          tmuxVars>>

-----------------------------------------------------------------------------
(* Data *)

NoBlock == [owner |-> Nobody, number |-> 0, unnumbered |-> FALSE]
TmuxIdle == [src |-> Nobody, number |-> 0, ruined |-> FALSE, n |-> 0]

(* The text of a line: which body it is a line of, and which line of it.   *)
Text(src, nth) == [src |-> src, nth |-> nth]
Framing == Text(Tmux, 0)

(* What Classify tells of a line (kind, number, malformed, client) with    *)
(* its text; `at' is a history stamp, tmux's own place when it wrote it.   *)
Line(kind, number, malformed, client, text) ==
  [kind |-> kind, number |-> number, malformed |-> malformed,
   client |-> client, text |-> text, at |-> tm]

(* Mutant: Do does not take writeMu.                                       *)
OnlyDetachLocks == dpc # "write"

WriteMuFree == dpc # "write" /\ \A c \in Cmd : pc[c] # "write"

PipeBroken == stdinClosed \/ ~up
PipeHasRoom == Len(sent) - tm.taken < PipeCap

Init ==
  /\ pc = [c \in Cmd |-> "idle"]
  /\ ret = [c \in Cmd |-> "none"]
  /\ lines = [c \in Cmd |-> <<>>]
  /\ outcome = [c \in Cmd |-> "none"]
  /\ woken = [c \in Cmd |-> FALSE]
  /\ queue = <<>> /\ current = NoBlock
  /\ startup = FALSE /\ sawFirstLine = FALSE
  /\ closed = FALSE /\ sawExit = FALSE /\ done = FALSE /\ stdinClosed = FALSE
  /\ rpc = "read" /\ waiting = {}
  /\ cpc = "none" /\ dpc = "none" /\ killed = FALSE
  /\ sent = <<>> /\ detached = FALSE /\ wire = <<>>
  /\ tm = [blk |-> TmuxIdle, taken |-> 0]
  /\ up = TRUE /\ cut = FALSE /\ spoken = FALSE
  /\ hasStartup \in StartupModes /\ hasFlags \in FlagModes
  /\ nextNumber = 1 /\ notes = 0 /\ unsolicited = 0 /\ saidExit = FALSE
  /\ verdict = [c \in Cmd |-> "none"] /\ bodyLen = [c \in Cmd |-> 0]
  /\ ruinedReply = {}
  /\ bound = 0

-----------------------------------------------------------------------------
(* Do: one action per step that other goroutines can see between.          *)

Return(c, how) ==
  /\ pc' = [pc EXCEPT ![c] = "returned"]
  /\ ret' = [ret EXCEPT ![c] = how]

(* Mutant: no barrier.                                                     *)
CallAtOnce(c) ==
  /\ pc[c] = "idle"
  /\ pc' = [pc EXCEPT ![c] = "lock"]
  /\ UNCHANGED <<ret, tableVars, flagVars, readerVars, closeVars, pipeVars,
                 wire, tmuxVars>>

(* awaitStartup's first select.                                            *)
Call(c) ==
  /\ pc[c] = "idle"
  /\ pc' = [pc EXCEPT ![c] = IF startup THEN "lock" ELSE "barrier"]
  /\ UNCHANGED <<ret, tableVars, flagVars, readerVars, closeVars, pipeVars,
                 wire, tmuxVars>>

(* awaitStartup's second select, an action per arm; ctx may end any time.  *)
PassBarrier(c) ==
  /\ pc[c] = "barrier" /\ startup
  /\ pc' = [pc EXCEPT ![c] = "lock"]
  /\ UNCHANGED <<ret, tableVars, flagVars, readerVars, closeVars, pipeVars,
                 wire, tmuxVars>>

BarrierDone(c) ==
  /\ pc[c] = "barrier" /\ done
  /\ Return(c, "terminal")
  /\ UNCHANGED <<tableVars, flagVars, readerVars, closeVars, pipeVars, wire,
                 tmuxVars>>

(* Mutant: a call whose context ends takes its entry with it.              *)
CtxEndsForgets(c) ==
  /\ pc[c] \in {"barrier", "await"}
  /\ Return(c, "ctx")
  /\ queue' = SelectSeq(queue, LAMBDA d : d # c)
  /\ UNCHANGED <<pendingVars, current, bound, flagVars, readerVars, closeVars,
                 pipeVars, wire, tmuxVars>>

CtxEnds(c) ==
  /\ pc[c] \in {"barrier", "await"}
  /\ Return(c, "ctx")
  /\ UNCHANGED <<tableVars, flagVars, readerVars, closeVars, pipeVars, wire,
                 tmuxVars>>

(* Mutant: the check for a closed connection is dropped.                   *)
NeverRefusing == FALSE

Refusing == closed

(* Under writeMu, then mu: refuse a closed connection, or join the queue   *)
(* and keep writeMu for the write.                                         *)
Enqueue(c) ==
  /\ pc[c] = "lock" /\ WriteMuFree /\ ~Refusing
  /\ queue' = Append(queue, c)
  /\ pc' = [pc EXCEPT ![c] = "write"]
  /\ UNCHANGED <<ret, pendingVars, current, bound, flagVars, readerVars, closeVars,
                 pipeVars, wire, tmuxVars>>

RefuseClosed(c) ==
  /\ pc[c] = "lock" /\ WriteMuFree /\ Refusing
  /\ Return(c, "terminal")
  /\ UNCHANGED <<tableVars, flagVars, readerVars, closeVars, pipeVars, wire,
                 tmuxVars>>

(* The write blocks while the pipe is full, and fails for good once either *)
(* end of it is closed.                                                    *)
Write(c) ==
  /\ pc[c] = "write" /\ ~PipeBroken /\ PipeHasRoom
  /\ sent' = Append(sent, c)
  /\ pc' = [pc EXCEPT ![c] = "await"]
  /\ UNCHANGED <<ret, tableVars, flagVars, readerVars, closeVars, detached,
                 wire, tmuxVars>>

WriteFails(c) ==
  /\ pc[c] = "write" /\ PipeBroken
  /\ pc' = [pc EXCEPT ![c] = "unqueue"]
  /\ UNCHANGED <<ret, tableVars, flagVars, readerVars, closeVars, pipeVars,
                 wire, tmuxVars>>

Without(q, i) == [j \in 1..(Len(q) - 1) |-> IF j < i THEN q[j] ELSE q[j + 1]]

(* unqueue: the entry may already be gone, taken by the teardown.          *)
Unqueue(c) ==
  /\ pc[c] = "unqueue"
  /\ \/ \E i \in 1..Len(queue) : queue[i] = c /\ queue' = Without(queue, i)
     \/ (\A i \in 1..Len(queue) : queue[i] # c) /\ UNCHANGED queue
  /\ Return(c, "write")
  /\ UNCHANGED <<pendingVars, current, bound, flagVars, readerVars, closeVars, pipeVars,
                 wire, tmuxVars>>

(* What Do reads off its entry once woken.                                 *)
Outcome(c) ==
  IF outcome[c] = "protocol" THEN "protocol"
  ELSE IF outcome[c] = "none" THEN "terminal"
  ELSE IF outcome[c] = "error" THEN "control" ELSE "reply"

(* The select's first arm, and what follows the second once it is woken.   *)
Woken(c) ==
  /\ pc[c] \in {"await", "drain"} /\ woken[c]
  /\ Return(c, Outcome(c))
  /\ UNCHANGED <<tableVars, flagVars, readerVars, closeVars, pipeVars, wire,
                 tmuxVars>>

(* The second arm: done is closed, so wait for p.done, deaf to ctx.        *)
SeeDone(c) ==
  /\ pc[c] = "await" /\ done
  /\ pc' = [pc EXCEPT ![c] = "drain"]
  /\ UNCHANGED <<ret, tableVars, flagVars, readerVars, closeVars, pipeVars,
                 wire, tmuxVars>>

DoStep(c) ==
  \/ Call(c) \/ PassBarrier(c) \/ BarrierDone(c) \/ Enqueue(c)
  \/ RefuseClosed(c) \/ Write(c) \/ WriteFails(c) \/ Unqueue(c)
  \/ Woken(c) \/ SeeDone(c)

-----------------------------------------------------------------------------
(* The reader: handleLine, one action per way a line can be taken.         *)

InBlock == current.owner # Nobody

(* Mutant: the number of a terminator is not compared.                     *)
closesAnyNumber(l) == l.kind \in Terminators /\ (current.unnumbered \/ ~l.malformed)

closesBlock(l) ==
  /\ l.kind \in Terminators
  /\ \/ current.unnumbered
     \/ ~l.malformed /\ l.number = current.number

unsolicitedBlock(l) == hasFlags /\ ~l.client

(* Every line is read off the wire once; the first one lifts the barrier   *)
(* at once unless it is a %begin.                                          *)
Reading(l) ==
  /\ rpc = "read" /\ wire # <<>> /\ l = Head(wire)
  /\ wire' = Tail(wire)
  /\ sawFirstLine' = TRUE

FirstLineReleases(l) == ~sawFirstLine /\ l.kind # "begin"

readKeeps == <<callVars, closed, done, stdinClosed, closeVars, pipeVars, tmuxVars>>

(* dataLine into the open block, whatever the line looks like.             *)
ReadBody(l) ==
  /\ Reading(l) /\ InBlock /\ ~closesBlock(l)
  /\ lines' = IF current.owner \in Cmd
              THEN [lines EXCEPT ![current.owner] = Append(@, l.text)] ELSE lines
  /\ startup' = (startup \/ FirstLineReleases(l))
  /\ UNCHANGED <<outcome, woken, queue, current, bound, sawExit, readerVars, readKeeps>>

(* endBlock with a block open: record, release, wake.                      *)
ReadFooter(l) ==
  /\ Reading(l) /\ InBlock /\ closesBlock(l)
  /\ current' = NoBlock
  /\ IF current.owner \in Cmd
     THEN /\ outcome' = [outcome EXCEPT ![current.owner] = l.kind]
          /\ woken' = [woken EXCEPT ![current.owner] = TRUE]
     ELSE UNCHANGED <<outcome, woken>>
  /\ startup' = TRUE
  /\ UNCHANGED <<lines, queue, bound, sawExit, readerVars, readKeeps>>

(* Mutant: the flags word is not consulted.                                *)
beginsOrphanFlagless(l) == ~startup \/ queue = <<>>

(* beginBlock: bind the front of the queue, or absorb an orphan.           *)
beginsOrphan(l) == ~startup \/ unsolicitedBlock(l) \/ queue = <<>>

ReadHeader(l) ==
  /\ Reading(l) /\ ~InBlock /\ l.kind = "begin" /\ ~l.malformed
  /\ IF beginsOrphan(l)
     THEN /\ current' = [owner |-> Tmux, number |-> l.number, unnumbered |-> FALSE]
          /\ UNCHANGED <<queue, bound>>
     ELSE /\ current' = [owner |-> Head(queue), number |-> l.number,
                         unnumbered |-> FALSE]
          /\ queue' = Tail(queue)
          /\ bound' = bound + 1
  /\ UNCHANGED <<pendingVars, startup, sawExit, readerVars, readKeeps>>

(* Mutant: the first line of all is no exception.                          *)
failsHeadAlways == queue # <<>>

(* A ruined header: failHead, unless it is the connection's first line,    *)
(* then beginUnnumberedBlock.                                              *)
failsHead == sawFirstLine /\ queue # <<>>

(* Mutant: the caller of the failed command is not woken.                  *)
failHeadSilent ==
  /\ queue' = Tail(queue)
  /\ outcome' = [outcome EXCEPT ![Head(queue)] = "protocol"]
  /\ bound' = bound + 1
  /\ UNCHANGED woken

failHead ==
  /\ queue' = Tail(queue)
  /\ outcome' = [outcome EXCEPT ![Head(queue)] = "protocol"]
  /\ woken' = [woken EXCEPT ![Head(queue)] = TRUE]
  /\ bound' = bound + 1

ReadRuinedHeader(l) ==
  /\ Reading(l) /\ ~InBlock /\ l.kind = "begin" /\ l.malformed
  /\ current' = [owner |-> Tmux, number |-> 0, unnumbered |-> TRUE]
  /\ IF failsHead THEN failHead
     ELSE UNCHANGED <<queue, outcome, woken, bound>>
  /\ UNCHANGED <<lines, startup, sawExit, readerVars, readKeeps>>

(* A terminator with no block open: reported, and the barrier lifted by    *)
(* endBlock; a ruined one is only reported.                                *)
ReadStrayFooter(l) ==
  /\ Reading(l) /\ ~InBlock /\ l.kind \in Terminators
  /\ startup' = (startup \/ FirstLineReleases(l) \/ ~l.malformed)
  /\ UNCHANGED <<tableVars, sawExit, readerVars, readKeeps>>

(* A notification or stray output between blocks: an event and no more.    *)
ReadAside(l) ==
  /\ Reading(l) /\ ~InBlock /\ l.kind \in {"note", "data"}
  /\ startup' = (startup \/ FirstLineReleases(l))
  /\ UNCHANGED <<tableVars, sawExit, readerVars, readKeeps>>

(* Mutant: a line of a body that looks like %exit is believed.             *)
ReadExitAnywhere(l) ==
  /\ Reading(l) /\ l.kind = "exit"
  /\ sawExit' = TRUE
  /\ rpc' = "finish"
  /\ UNCHANGED <<startup, tableVars, waiting, readKeeps>>

ReadExit(l) ==
  /\ Reading(l) /\ ~InBlock /\ l.kind = "exit"
  /\ sawExit' = TRUE
  /\ startup' = (startup \/ FirstLineReleases(l))
  /\ rpc' = "finish"
  /\ UNCHANGED <<tableVars, waiting, readKeeps>>

ReadEOF ==
  /\ rpc = "read" /\ wire = <<>> /\ ~up
  /\ rpc' = "finish"
  /\ UNCHANGED <<callVars, tableVars, flagVars, waiting, closeVars, pipeVars,
                 wire, tmuxVars>>

handleLine ==
  /\ wire # <<>>
  /\ LET l == Head(wire) IN
       \/ ReadBody(l) \/ ReadFooter(l) \/ ReadHeader(l) \/ ReadRuinedHeader(l)
       \/ ReadStrayFooter(l) \/ ReadAside(l) \/ ReadExit(l)

(* Mutant: the orphan's owner, who is no call, is woken too.               *)
OutstandingOwner == {queue[i] : i \in 1..Len(queue)} \union ({current.owner} \ {Nobody})

Outstanding ==
  {queue[i] : i \in 1..Len(queue)} \union ({current.owner} \ {Tmux, Nobody})

(* finishReader: under mu, close and take everything outstanding; then     *)
(* wake the calls one by one, lift the barrier, close the pipe, close done.*)
FinishLocked ==
  /\ rpc = "finish"
  /\ closed' = TRUE
  /\ waiting' = Outstanding
  /\ queue' = <<>> /\ current' = NoBlock
  /\ rpc' = "wake"
  /\ UNCHANGED <<callVars, pendingVars, bound, startup, sawFirstLine, sawExit, done,
                 stdinClosed, closeVars, pipeVars, wire, tmuxVars>>

FinishWake(c) ==
  /\ rpc = "wake" /\ c \in waiting
  /\ woken' = [woken EXCEPT ![c] = TRUE]
  /\ waiting' = waiting \ {c}
  /\ UNCHANGED <<callVars, lines, outcome, queue, current, bound, flagVars, rpc, closeVars,
                 pipeVars, wire, tmuxVars>>

FinishRelease ==
  /\ rpc = "wake" /\ waiting = {}
  /\ startup' = TRUE
  /\ rpc' = "closeStdin"
  /\ UNCHANGED <<callVars, tableVars, sawFirstLine, closed, sawExit, done,
                 stdinClosed, waiting, closeVars, pipeVars, wire, tmuxVars>>

FinishCloseStdin ==
  /\ rpc = "closeStdin"
  /\ stdinClosed' = TRUE
  /\ rpc' = "done"
  /\ UNCHANGED <<callVars, tableVars, startup, sawFirstLine, closed, sawExit,
                 done, waiting, closeVars, pipeVars, wire, tmuxVars>>

FinishDone ==
  /\ rpc = "done"
  /\ done' = TRUE
  /\ rpc' = "ended"
  /\ UNCHANGED <<callVars, tableVars, startup, sawFirstLine, closed, sawExit,
                 stdinClosed, waiting, closeVars, pipeVars, wire, tmuxVars>>

finishReader ==
  \/ FinishLocked \/ (\E c \in Cmd : FinishWake(c)) \/ FinishRelease
  \/ FinishCloseStdin \/ FinishDone

ReaderStep == handleLine \/ ReadEOF \/ finishReader

(* start's backstop timer.  Without a flags word beginBlock has only the   *)
(* barrier to tell tmux's opening block from a reply, so there the timer   *)
(* is taken to be long enough for that block to arrive.                    *)
Grace ==
  /\ GraceMayFire /\ ~startup
  /\ hasStartup => hasFlags
  /\ startup' = TRUE
  /\ UNCHANGED <<callVars, tableVars, sawFirstLine, closed, sawExit, done,
                 stdinClosed, readerVars, closeVars, pipeVars, wire, tmuxVars>>

-----------------------------------------------------------------------------
(* Close and detach.                                                       *)

closeKeeps == <<callVars, tableVars, readerVars, wire, tmuxVars>>

CloseMark ==
  /\ cpc = "none"
  /\ closed' = TRUE
  /\ cpc' = "select"
  /\ UNCHANGED <<closeKeeps, startup, sawFirstLine, sawExit, done, stdinClosed,
                 dpc, killed, pipeVars>>

(* Over already: close the pipe and go.  Otherwise start detach and wait.  *)
CloseSelect ==
  /\ cpc = "select"
  /\ IF done THEN stdinClosed' = TRUE /\ cpc' = "returned" /\ UNCHANGED dpc
             ELSE cpc' = "wait" /\ dpc' = "lock" /\ UNCHANGED stdinClosed
  /\ UNCHANGED <<closeKeeps, startup, sawFirstLine, closed, sawExit, done, killed,
                 pipeVars>>

CloseSeesDone ==
  /\ cpc \in {"wait", "kill"} /\ done
  /\ cpc' = "returned"
  /\ UNCHANGED <<closeKeeps, flagVars, dpc, killed, pipeVars>>

(* Mutant: the timeout closes and kills nothing.                           *)
CloseTimeoutGentle ==
  /\ cpc = "wait"
  /\ cpc' = "kill"
  /\ UNCHANGED <<closeKeeps, flagVars, dpc, killed, pipeVars>>

(* The first timeout closes the pipe and kills; the second gives up.       *)
CloseTimeout ==
  /\ cpc = "wait"
  /\ stdinClosed' = TRUE /\ killed' = TRUE
  /\ cpc' = "kill"
  /\ UNCHANGED <<closeKeeps, startup, sawFirstLine, closed, sawExit, done, dpc,
                 pipeVars>>

CloseGivesUp ==
  /\ cpc = "kill"
  /\ cpc' = "returned"
  /\ UNCHANGED <<closeKeeps, flagVars, dpc, killed, pipeVars>>

DetachLock ==
  /\ dpc = "lock" /\ WriteMuFree
  /\ dpc' = "write"
  /\ UNCHANGED <<closeKeeps, flagVars, cpc, killed, pipeVars>>

(* The empty line, or the write's failure, which detach ignores.           *)
DetachWrite ==
  /\ dpc = "write"
  /\ \/ ~PipeBroken /\ PipeHasRoom /\ detached' = TRUE
     \/ PipeBroken /\ UNCHANGED detached
  /\ dpc' = "close"
  /\ UNCHANGED <<closeKeeps, flagVars, cpc, killed, sent>>

DetachClose ==
  /\ dpc = "close"
  /\ stdinClosed' = TRUE
  /\ dpc' = "finished"
  /\ UNCHANGED <<closeKeeps, startup, sawFirstLine, closed, sawExit, done, cpc,
                 killed, pipeVars>>

CloseStep ==
  \/ CloseSelect \/ CloseSeesDone \/ CloseTimeout
  \/ DetachLock \/ DetachWrite \/ DetachClose

-----------------------------------------------------------------------------
(* tmux: external, as the reader's comments describe it.  It answers the   *)
(* commands in the order it reads them, opens one block at a time, and     *)
(* writes nothing of its own inside one.                                   *)

tmuxKeepsButCut == <<callVars, tableVars, flagVars, readerVars, closeVars, pipeVars,
                     hasStartup, hasFlags>>
tmuxKeeps == <<tmuxKeepsButCut, cut>>

Idle == tm.blk.src = Nobody
Speaking == up /\ Len(wire) < WireCap
AfterStartup == hasStartup => spoken

Opens(src, ruined, taken) ==
  /\ wire' = Append(wire, Line("begin", nextNumber, ruined, src \in Cmd, Framing))
  /\ tm' = [blk |-> [src |-> src, number |-> nextNumber, ruined |-> ruined, n |-> 0],
            taken |-> taken]
  /\ nextNumber' = nextNumber + 1
  /\ spoken' = TRUE

(* The block for the command that started the connection comes first.      *)
TmuxStartup ==
  /\ Speaking /\ hasStartup /\ ~spoken
  /\ \E ruined \in {FALSE, RuinHeader} : Opens(Tmux, ruined, tm.taken)
  /\ UNCHANGED <<tmuxKeeps, up, notes, unsolicited, saidExit, answerVars>>

(* A later block that answers nothing of ours, which only a tmux that says *)
(* so with a flag may open; a ruined header of one is the case failHead's  *)
(* comment gives up on, and is not modelled.                               *)
TmuxUnsolicited ==
  /\ Speaking /\ hasFlags /\ AfterStartup /\ Idle /\ unsolicited < MaxUnsolicited
  /\ Opens(Tmux, FALSE, tm.taken)
  /\ unsolicited' = unsolicited + 1
  /\ UNCHANGED <<tmuxKeeps, up, notes, saidExit, answerVars>>

(* A ruined header that is the first line of all is taken to be tmux's     *)
(* opening block, so a reply's header is ruined only after something else. *)
TmuxReplies ==
  /\ Speaking /\ AfterStartup /\ Idle /\ tm.taken < Len(sent)
  /\ LET c == sent[tm.taken + 1] IN
       \E ruined \in {FALSE, RuinHeader /\ spoken} :
         /\ Opens(c, ruined, tm.taken + 1)
         /\ ruinedReply' = IF ruined THEN ruinedReply \union {c} ELSE ruinedReply
  /\ UNCHANGED <<tmuxKeeps, up, notes, unsolicited, saidExit,
                 verdict, bodyLen>>

Grown(b) == [src |-> b.src, number |-> b.number, ruined |-> b.ruined, n |-> b.n + 1]

(* A body line may have any shape of Lookalikes and, then, any number but  *)
(* its own block's; one that looks like a terminator is kept out of the    *)
(* bodies whose block the reader cannot number (closesBlock).              *)
TmuxBody ==
  /\ Speaking /\ ~Idle /\ tm.blk.n < MaxBody
  /\ \E kind \in Lookalikes \union {"data"} :
     \E number \in IF kind \in Terminators \union {"begin"}
                   THEN (0..nextNumber) \ {tm.blk.number} ELSE {0} :
       /\ kind \in Terminators => ~tm.blk.ruined /\ ~RuinFooter
       /\ wire' = Append(wire, Line(kind, number, FALSE, TRUE,
                                    Text(tm.blk.src, tm.blk.n + 1)))
  /\ tm' = [blk |-> Grown(tm.blk), taken |-> tm.taken]
  /\ UNCHANGED <<tmuxKeeps, up, spoken, nextNumber, notes,
                 unsolicited, saidExit, answerVars>>

TmuxFooter ==
  /\ Speaking /\ ~Idle
  /\ \E kind \in Terminators, ruined \in {FALSE, RuinFooter} :
       /\ wire' = Append(wire, Line(kind, tm.blk.number, ruined,
                                    tm.blk.src \in Cmd, Framing))
       /\ IF tm.blk.src \in Cmd
          THEN /\ verdict' = [verdict EXCEPT ![tm.blk.src] = kind]
               /\ bodyLen' = [bodyLen EXCEPT ![tm.blk.src] = tm.blk.n]
          ELSE UNCHANGED <<verdict, bodyLen>>
  /\ tm' = [blk |-> TmuxIdle, taken |-> tm.taken]
  /\ UNCHANGED <<tmuxKeeps, up, spoken, nextNumber, notes,
                 unsolicited, saidExit, ruinedReply>>

(* Between blocks: a notification, output or a terminator that belong to no *)
(* block.                                                                  *)
TmuxAside ==
  /\ Speaking /\ AfterStartup /\ Idle /\ notes < MaxNotes
  /\ \E kind \in {"note", "data", "end"}, ruined \in {FALSE, RuinFooter} :
       /\ ruined => kind = "end"
       /\ wire' = Append(wire, Line(kind, 0, ruined, FALSE, Framing))
  /\ notes' = notes + 1
  /\ spoken' = TRUE
  /\ UNCHANGED <<tmuxKeeps, tm, up, nextNumber, unsolicited,
                 saidExit, answerVars>>

(* %exit follows the last %end, and is tmux's last line: it was detached,  *)
(* its input ended, or someone else ended the session.                     *)
TmuxExit ==
  /\ Speaking /\ Idle
  /\ wire' = Append(wire, Line("exit", 0, FALSE, FALSE, Framing))
  /\ up' = FALSE /\ saidExit' = TRUE /\ spoken' = TRUE
  /\ UNCHANGED <<tmuxKeeps, tm, nextNumber, notes, unsolicited, answerVars>>

(* tmux ends without a word, anywhere: it crashed, or was killed.          *)
TmuxDies ==
  /\ up
  /\ up' = FALSE
  /\ UNCHANGED <<tmuxKeeps, wire, tm, spoken, nextNumber, notes,
                 unsolicited, saidExit, answerVars>>

(* It dies inside a line, and what there is of it is handled like a whole  *)
(* one.  Of a header that is one without its flags, or one that does not   *)
(* parse; of a terminator or a line of a body it is data, or a terminator  *)
(* that does not parse.  (What is left of any other line, or of these by   *)
(* the loss of a newline alone, is a line that ends in TmuxDies.)          *)
TmuxDiesMidLine ==
  /\ CutShort /\ Speaking
  /\ up' = FALSE /\ cut' = TRUE /\ spoken' = TRUE
  /\ \E malformed \in BOOLEAN :
       IF Idle
       THEN /\ AfterStartup => hasFlags \/ tm.taken < Len(sent)
            /\ wire' = Append(wire, Line("begin", nextNumber, malformed, TRUE, Framing))
       ELSE wire' = Append(wire, Line(IF malformed THEN "end" ELSE "data", 0,
                                      malformed, TRUE, Framing))
  /\ UNCHANGED <<tmuxKeepsButCut, tm, nextNumber, notes, unsolicited, saidExit,
                 answerVars>>

TmuxStep ==
  \/ TmuxStartup \/ TmuxUnsolicited \/ TmuxReplies \/ TmuxBody \/ TmuxFooter
  \/ TmuxAside \/ TmuxExit \/ TmuxDies \/ TmuxDiesMidLine

-----------------------------------------------------------------------------
(* Every call has returned and every goroutine of the client has ended.    *)
Terminated ==
  /\ \A c \in Cmd : pc[c] = "returned"
  /\ rpc = "ended" /\ cpc = "returned" /\ dpc \in {"none", "finished"}
  /\ UNCHANGED vars

Next ==
  \/ \E c \in Cmd : DoStep(c) \/ CtxEnds(c)
  \/ ReaderStep \/ Grace
  \/ CloseMark \/ CloseStep \/ CloseGivesUp
  \/ TmuxStep
  \/ Terminated

Spec == Init /\ [][Next]_vars

(* The scheduler runs every goroutine of the client and its timers expire; *)
(* a killed tmux dies.  Nobody has to call Do, Close or end a context.     *)
ClientFairness ==
  /\ \A c \in Cmd : WF_vars(DoStep(c) /\ pc[c] # "idle")
  /\ WF_vars(ReaderStep)
  /\ WF_vars(CloseSelect \/ CloseSeesDone \/ CloseTimeout)
  /\ WF_vars(DetachLock \/ DetachWrite \/ DetachClose)
  /\ WF_vars(TmuxDies /\ killed)

(* tmux opens its own block if it has one to open, answers what it reads,  *)
(* and ends every block it opens; the backstop timer expires.              *)
TmuxFairness ==
  /\ WF_vars(TmuxStartup) /\ WF_vars(TmuxReplies)
  /\ WF_vars(TmuxBody \/ TmuxFooter)
  /\ WF_vars(Grace)

ClientSpec == Spec /\ ClientFairness

-----------------------------------------------------------------------------
(* Properties                                                              *)

Source == Cmd \union {Tmux, Nobody}
TextType == [src : Source, nth : Nat]
BlkType == [src : Source, number : Nat, ruined : BOOLEAN, n : Nat]
TmType == [blk : BlkType, taken : Nat]
LineType == [kind : Shapes \union {"data"}, number : Nat, malformed : BOOLEAN,
             client : BOOLEAN, text : TextType, at : TmType]
Outcomes == {"none", "protocol"} \union Terminators

TypeCalls ==
  /\ pc \in [Cmd -> {"idle", "barrier", "lock", "write", "unqueue", "await",
                      "drain", "returned"}]
  /\ ret \in [Cmd -> {"none", "terminal", "ctx", "write", "protocol",
                       "control", "reply"}]
TypePending ==
  /\ lines \in [Cmd -> Seq(TextType)]
  /\ outcome \in [Cmd -> Outcomes]
  /\ woken \in [Cmd -> BOOLEAN]
TypeTable ==
  /\ queue \in Seq(Cmd) /\ bound \in Nat
  /\ current \in [owner : Source, number : Nat, unnumbered : BOOLEAN]
TypeFlags ==
  /\ startup \in BOOLEAN /\ sawFirstLine \in BOOLEAN /\ closed \in BOOLEAN
  /\ sawExit \in BOOLEAN /\ done \in BOOLEAN /\ stdinClosed \in BOOLEAN
TypeThreads ==
  /\ rpc \in {"read", "finish", "wake", "closeStdin", "done", "ended"}
  /\ waiting \subseteq Cmd
  /\ cpc \in {"none", "select", "wait", "kill", "returned"}
  /\ dpc \in {"none", "lock", "write", "close", "finished"}
  /\ killed \in BOOLEAN
TypePipes ==
  /\ sent \in Seq(Cmd) /\ detached \in BOOLEAN
  /\ wire \in Seq(LineType)
TypeTmux ==
  /\ tm \in TmType
  /\ hasStartup \in BOOLEAN /\ hasFlags \in BOOLEAN
  /\ up \in BOOLEAN /\ cut \in BOOLEAN /\ spoken \in BOOLEAN
  /\ nextNumber \in Nat /\ notes \in Nat /\ unsolicited \in Nat
  /\ saidExit \in BOOLEAN
TypeAnswers ==
  /\ verdict \in [Cmd -> {"none"} \union Terminators]
  /\ bodyLen \in [Cmd -> Nat]
  /\ ruinedReply \subseteq Cmd

(* Every variable has its type.                                            *)
TypeOK ==
  /\ TypeCalls /\ TypePending /\ TypeTable /\ TypeFlags /\ TypeThreads
  /\ TypePipes /\ TypeTmux /\ TypeAnswers

(* Do's promise: a command that was answered was answered by the block     *)
(* tmux wrote for that command, with its verdict and its whole body, line  *)
(* for line, whatever the lines looked like.                               *)
OwnAnswer ==
  \A c \in Cmd : outcome[c] \in Terminators =>
    /\ verdict[c] = outcome[c]
    /\ Len(lines[c]) = bodyLen[c]
    /\ \A i \in 1..Len(lines[c]) : lines[c][i] = Text(c, i)

(* The partial body a call gets with its terminal error is the beginning   *)
(* of its own body, unless a terminator was ruined; the last line is a     *)
(* fragment if tmux died in it.                                            *)
OwnPartialBody ==
  ~RuinFooter => \A c \in Cmd : \A i \in 1..Len(lines[c]) :
    \/ lines[c][i] = Text(c, i)
    \/ cut /\ i = Len(lines[c]) /\ lines[c][i] = Framing

(* Whatever a call returns that tmux wrote, tmux wrote for its command.    *)
OwnReply == OwnAnswer /\ OwnPartialBody

(* While the reader reads, the front of the queue is exactly the commands  *)
(* tmux has been sent and no block has been bound to, in the order sent:   *)
(* what beginBlock and failHead rely on, through abandoned calls and       *)
(* writes that fail.                                                       *)
QueueAligned ==
  rpc = "read" =>
    \A i \in 1..(Len(sent) - bound) : i <= Len(queue) /\ queue[i] = sent[bound + i]

(* failHead's trade: a ProtocolError goes to the command whose header was  *)
(* ruined and to no other; and, when tmux dies in a header, to the front   *)
(* of the queue, which it will not answer any more.                        *)
ProtocolErrorIsOwn ==
  \A c \in Cmd : outcome[c] = "protocol" => c \in ruinedReply \/ cut

(* beginBlock: "while the barrier stands the queue is empty by             *)
(* construction".                                                          *)
BarrierHolds == ~startup => queue = <<>> /\ sent = <<>>

(* Do waits for p.done once done is closed, deaf to its context: no call   *)
(* may be left there that the reader did not wake on its way out.          *)
DoneWakesAll ==
  done => \A c \in Cmd : pc[c] \in {"await", "drain"} => woken[c]

(* "%exit forged" in a body ends nothing: the connection is taken to have  *)
(* ended by %exit only if tmux wrote one of its own.                       *)
ExitIsTmuxs == sawExit => saidExit

(* A command is written to tmux never after the line that detaches: tmux   *)
(* would never answer it.                                                  *)
NothingAfterDetach == [][detached => sent' = sent]_vars

(* Once tmux is gone or Close was called, every call in Do returns, those  *)
(* stuck in a write or waiting for writeMu included, with no help from its *)
(* context.                                                                *)
EndFreesCalls ==
  \A c \in Cmd : ((~up \/ closed) /\ pc[c] # "idle") ~> (pc[c] = "returned")

(* With a tmux that answers, every call returns, though nobody closes the  *)
(* connection and no context ends: a command failed by failHead has left   *)
(* the queue, so only that step can wake its caller.                       *)
EveryCallReturns ==
  TmuxFairness => \A c \in Cmd : (pc[c] # "idle") ~> (pc[c] = "returned")
=============================================================================
