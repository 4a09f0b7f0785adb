---------------------------- MODULE EventStream -----------------------------
(***************************************************************************)
(* The publishing half of a control-mode connection: the reader goroutine  *)
(* turning lines into events and pane output, the consumers of the event   *)
(* channel and of the per-pane taps, callers of Output and Untap, Close,   *)
(* and the teardown, which alone closes the event channel.                 *)
(*                                                                         *)
(* The reader never blocks: a full channel loses the event, and the loss   *)
(* is owed to the consumer as a report on the same channel.  Two slots     *)
(* beyond the caller's buffer are held back, one for a report and one for  *)
(* Exited.  A tap is guarded by mu and by a flag of its own, because three *)
(* parties may close it or send on it.                                     *)
(*                                                                         *)
(* Left out: what an event says (only whether it is ordinary, a loss       *)
(* report or Exited), the bytes of pane output, and command replies, which *)
(* ReplyBinding models.  deliverOutput's check that the tap exists, its    *)
(* send and its counters are one step, under mu as in the code.            *)
(***************************************************************************)
EXTENDS Naturals, Sequences, FiniteSets

CONSTANTS
  Pane,          \* panes that tmux reports output of
  Tap,           \* the taps Output may make; their number is a bound
  NoTap,         \* no tap is registered
  EventBuffer,   \* cfg.eventBuffer
  OutputBuffer,  \* cfg.outputBuffer
  MaxLines       \* bound: lines that publish something

ASSUME BuffersOK ==
  /\ EventBuffer \in Nat \ {0} /\ OutputBuffer \in Nat \ {0}
  /\ MaxLines \in Nat
  /\ NoTap \notin Tap

VARIABLES
  \* the event channel and its account
  events,        \* what is in the channel: "event", "report" or "exited"
  eventsClosed, pendingDrops, totalDrops,
  \* the reader
  rpc,           \* "read", "tap", then the stages of finishReader
  emitting,      \* where the reader is in emit: "no", "flush", "publish", "reflush"
  outPane,       \* deliverOutput's pane
  closing,       \* finishReader's list of taps: those still to be closed
  toReport,      \* and those whose losses are still to be reported
  lines,         \* how many lines have been read
  \* ControlClient, under mu
  closed, taps,
  \* one value per tap
  made,          \* taps that Output has made
  tapClosed,     \* t.closed
  chClosed,      \* t.ch is closed
  buffered,      \* messages in t.ch
  drops, total,
  \* history
  lastPut,       \* the last thing put on the event channel
  heardExited,   \* the consumer has received Exited
  emitted,       \* ordinary events the reader has tried to publish
  published,     \* those it put on the channel
  reported,      \* sum of the counts of the loss reports put there
  fed,           \* [Tap -> messages the reader had for the tap]
  taken,         \* [Tap -> messages its consumer received]
  tapSaid,       \* [Tap -> losses announced with OutputDropped]
  panicked       \* a closed channel was sent on or closed again

streamVars == <<events, eventsClosed, pendingDrops, totalDrops, lastPut, emitted,
                published, reported>>
readerVars == <<rpc, emitting, outPane, closing, toReport, lines>>
tapVars == <<made, tapClosed, chClosed, buffered, drops, total, fed, taken, tapSaid>>
vars == <<streamVars, readerVars, tapVars, closed, taps, heardExited, panicked>>

Init ==
  /\ events = <<>> /\ eventsClosed = FALSE
  /\ pendingDrops = 0 /\ totalDrops = 0
  /\ rpc = "read" /\ emitting = "no" /\ outPane \in Pane
  /\ closing = {} /\ toReport = {} /\ lines = 0
  /\ closed = FALSE /\ taps = [p \in Pane |-> NoTap]
  /\ made = {}
  /\ tapClosed = [t \in Tap |-> FALSE] /\ chClosed = [t \in Tap |-> FALSE]
  /\ buffered = [t \in Tap |-> 0] /\ drops = [t \in Tap |-> 0]
  /\ total = [t \in Tap |-> 0]
  /\ lastPut = "nothing" /\ heardExited = FALSE
  /\ emitted = 0 /\ published = 0 /\ reported = 0
  /\ fed = [t \in Tap |-> 0] /\ taken = [t \in Tap |-> 0]
  /\ tapSaid = [t \in Tap |-> 0]
  /\ panicked = FALSE

-----------------------------------------------------------------------------
(* emit                                                                    *)

Put(e) == events' = Append(events, e) /\ lastPut' = e

(* Mutant: a report may take the slot kept for Exited.                     *)
ReportFitsAnywhere == Len(events) <= EventBuffer + 1

ReportFits == Len(events) <= EventBuffer

(* Mutant: the count is not put back when there is no room.                *)
flushDropsLosing ==
  /\ pendingDrops' = 0
  /\ IF pendingDrops > 0 /\ ReportFits
     THEN Put("report") /\ reported' = reported + pendingDrops
     ELSE UNCHANGED <<events, lastPut, reported>>

(* A report of what was lost, if anything was and there is room for it;    *)
(* only the reader ever holds or changes pendingDrops.                     *)
flushDrops ==
  IF pendingDrops > 0 /\ ReportFits
  THEN /\ Put("report")
       /\ reported' = reported + pendingDrops
       /\ pendingDrops' = 0
  ELSE UNCHANGED <<events, lastPut, reported, pendingDrops>>

emitKeeps == <<eventsClosed, rpc, outPane, closing, toReport, lines, tapVars,
               closed, taps, heardExited, panicked>>

EmitFlush ==
  /\ emitting = "flush" /\ emitting' = "publish"
  /\ flushDrops
  /\ UNCHANGED <<totalDrops, emitted, published, emitKeeps>>

(* Room cannot go away between the test and the send: only the reader sends. *)
Room == Len(events) < EventBuffer

(* Mutant: an event waits for room instead of being dropped.               *)
EmitPublishBlocking ==
  /\ emitting = "publish" /\ Room
  /\ Put("event") /\ emitting' = "no"
  /\ published' = published + 1 /\ emitted' = emitted + 1
  /\ UNCHANGED <<totalDrops, pendingDrops, reported, emitKeeps>>

EmitPublish ==
  /\ emitting = "publish"
  /\ emitted' = emitted + 1
  /\ IF Room
     THEN /\ Put("event") /\ emitting' = "no"
          /\ published' = published + 1
          /\ UNCHANGED <<totalDrops, pendingDrops>>
     ELSE /\ totalDrops' = totalDrops + 1 /\ pendingDrops' = pendingDrops + 1
          /\ emitting' = "reflush"
          /\ UNCHANGED <<events, lastPut, published>>
  /\ UNCHANGED <<reported, emitKeeps>>

EmitReflush ==
  /\ emitting = "reflush" /\ emitting' = "no"
  /\ flushDrops
  /\ UNCHANGED <<totalDrops, emitted, published, emitKeeps>>

Emit == EmitFlush \/ EmitPublish \/ EmitReflush

-----------------------------------------------------------------------------
(* The reader between calls of emit.                                       *)

At(stage) == rpc = stage /\ emitting = "no"

(* A line that publishes one event: a notification, stray output, a        *)
(* protocol error.                                                         *)
ReadEvent ==
  /\ At("read") /\ lines < MaxLines
  /\ lines' = lines + 1 /\ emitting' = "flush"
  /\ UNCHANGED <<streamVars, rpc, outPane, closing, toReport, tapVars, closed,
                 taps, heardExited, panicked>>

(* deliverOutput: first the event, then the tap.                           *)
ReadOutput(p) ==
  /\ At("read") /\ lines < MaxLines
  /\ lines' = lines + 1 /\ emitting' = "flush"
  /\ rpc' = "tap" /\ outPane' = p
  /\ UNCHANGED <<streamVars, closing, toReport, tapVars, closed, taps,
                 heardExited, panicked>>

Deliverable(t) == t # NoTap /\ ~tapClosed[t]

Add(f, t, n) == [f EXCEPT ![t] = @ + n]
Zero(f, t) == [f EXCEPT ![t] = 0]

(* Mutant: the losses are cleared before it is known that the message fits. *)
TapSendEager ==
  /\ At("tap") /\ rpc' = "read"
  /\ LET t == taps[outPane] IN
     /\ Deliverable(t)
     /\ panicked' = (panicked \/ chClosed[t])
     /\ fed' = Add(fed, t, 1)
     /\ IF buffered[t] < OutputBuffer
        THEN /\ buffered' = Add(buffered, t, 1)
             /\ drops' = Zero(drops, t)
             /\ tapSaid' = Add(tapSaid, t, drops[t])
             /\ emitting' = IF drops[t] > 0 THEN "flush" ELSE "no"
             /\ UNCHANGED total
        ELSE /\ drops' = [drops EXCEPT ![t] = 1] /\ total' = Add(total, t, 1)
             /\ UNCHANGED <<buffered, tapSaid, emitting>>
  /\ UNCHANGED <<streamVars, outPane, closing, toReport, lines, made, tapClosed,
                 chClosed, taken, closed, taps, heardExited>>

(* Under mu: send to the tap, or count the loss.  A send that succeeds     *)
(* takes the losses not reported yet and announces them.                   *)
TapSend ==
  /\ At("tap") /\ rpc' = "read"
  /\ LET t == taps[outPane] IN
     IF ~Deliverable(t) THEN UNCHANGED <<emitting, tapVars, panicked>>
     ELSE /\ panicked' = (panicked \/ chClosed[t])
          /\ fed' = Add(fed, t, 1)
          /\ IF buffered[t] < OutputBuffer
             THEN /\ buffered' = Add(buffered, t, 1)
                  /\ drops' = Zero(drops, t)
                  /\ tapSaid' = Add(tapSaid, t, drops[t])
                  /\ emitting' = IF drops[t] > 0 THEN "flush" ELSE "no"
                  /\ UNCHANGED total
             ELSE /\ drops' = Add(drops, t, 1) /\ total' = Add(total, t, 1)
                  /\ UNCHANGED <<buffered, tapSaid, emitting>>
          /\ UNCHANGED <<made, tapClosed, chClosed, taken>>
  /\ UNCHANGED <<streamVars, outPane, closing, toReport, lines, closed, taps,
                 heardExited>>

(* %exit, or the end of the pipe.                                          *)
ReadEnd ==
  /\ At("read") /\ rpc' = "finish"
  /\ UNCHANGED <<streamVars, emitting, outPane, closing, toReport, lines, tapVars,
                 closed, taps, heardExited, panicked>>

-----------------------------------------------------------------------------
(* finishReader                                                            *)

Registered == {taps[p] : p \in Pane} \ {NoTap}

(* Under mu: refuse new taps from now on, and take the open ones.          *)
FinishLocked ==
  /\ At("finish") /\ rpc' = "report"
  /\ closed' = TRUE
  /\ closing' = {t \in Registered : ~tapClosed[t]}
  /\ toReport' = closing'
  /\ tapClosed' = [t \in Tap |-> tapClosed[t] \/ t \in Registered]
  /\ UNCHANGED <<streamVars, emitting, outPane, lines, made, chClosed, buffered,
                 drops, total, fed, taken, tapSaid, taps, heardExited, panicked>>

(* Say what a tap lost, in whatever order the map gives the taps.          *)
FinishReport(t) ==
  /\ At("report") /\ t \in toReport
  /\ toReport' = toReport \ {t}
  /\ drops' = Zero(drops, t)
  /\ tapSaid' = Add(tapSaid, t, drops[t])
  /\ emitting' = IF drops[t] > 0 THEN "flush" ELSE "no"
  /\ UNCHANGED <<streamVars, rpc, outPane, closing, lines, made, tapClosed,
                 chClosed, buffered, total, fed, taken, closed, taps,
                 heardExited, panicked>>

(* emitReserved.                                                           *)
FinishExited ==
  /\ At("report") /\ toReport = {} /\ rpc' = "closeTaps"
  /\ IF Len(events) < EventBuffer + 2
     THEN Put("exited") /\ UNCHANGED totalDrops
     ELSE totalDrops' = totalDrops + 1 /\ UNCHANGED <<events, lastPut>>
  /\ UNCHANGED <<eventsClosed, pendingDrops, emitted, published, reported, emitting,
                 outPane, closing, toReport, lines, tapVars, closed, taps,
                 heardExited, panicked>>

FinishCloseTap(t) ==
  /\ At("closeTaps") /\ t \in closing
  /\ closing' = closing \ {t}
  /\ panicked' = (panicked \/ chClosed[t])
  /\ chClosed' = [chClosed EXCEPT ![t] = TRUE]
  /\ UNCHANGED <<streamVars, rpc, emitting, outPane, toReport, lines, made,
                 tapClosed, buffered, drops, total, fed, taken, tapSaid, closed,
                 taps, heardExited>>

(* Close the event channel; then done, which ends the connection.          *)
FinishCloseEvents ==
  /\ At("closeTaps") /\ closing = {} /\ rpc' = "done"
  /\ eventsClosed' = TRUE
  /\ UNCHANGED <<events, pendingDrops, totalDrops, lastPut, emitted, published,
                 reported, emitting, outPane, closing, toReport, lines, tapVars,
                 closed, taps, heardExited, panicked>>

FinishDone ==
  /\ At("done") /\ rpc' = "ended"
  /\ UNCHANGED <<streamVars, emitting, outPane, closing, toReport, lines, tapVars,
                 closed, taps, heardExited, panicked>>

finishReader ==
  \/ FinishLocked \/ (\E t \in Tap : FinishReport(t)) \/ FinishExited
  \/ (\E t \in Tap : FinishCloseTap(t)) \/ FinishCloseEvents \/ FinishDone

(* The steps the reader takes on its own once it has a line.               *)
ReaderWorks == Emit \/ TapSend \/ finishReader

-----------------------------------------------------------------------------
(* Callers and consumers                                                   *)

callerKeeps == <<streamVars, readerVars, heardExited>>

(* Mutant: Output does not ask whether the connection is over.             *)
BornOpen == FALSE

BornClosed == closed

(* Output registers a tap, one closed from the start if the connection is  *)
(* over; a pane that has a tap keeps it.                                   *)
Output(p, t) ==
  /\ taps[p] = NoTap /\ t \notin made
  /\ made' = made \union {t}
  /\ taps' = [taps EXCEPT ![p] = t]
  /\ tapClosed' = [tapClosed EXCEPT ![t] = BornClosed]
  /\ chClosed' = [chClosed EXCEPT ![t] = BornClosed]
  /\ UNCHANGED <<callerKeeps, buffered, drops, total, fed, taken, tapSaid, closed,
                 panicked>>

(* Mutant: Untap closes the channel whoever else is about to.              *)
UntapAlways(p) ==
  /\ taps[p] # NoTap
  /\ taps' = [taps EXCEPT ![p] = NoTap]
  /\ LET t == taps[p] IN
     /\ tapClosed' = [tapClosed EXCEPT ![t] = TRUE]
     /\ chClosed' = [chClosed EXCEPT ![t] = TRUE]
     /\ panicked' = (panicked \/ chClosed[t])
  /\ UNCHANGED <<callerKeeps, made, buffered, drops, total, fed, taken, tapSaid,
                 closed>>

Untap(p) ==
  /\ taps[p] # NoTap
  /\ taps' = [taps EXCEPT ![p] = NoTap]
  /\ LET t == taps[p] IN
     IF tapClosed[t] THEN UNCHANGED <<tapClosed, chClosed, panicked>>
     ELSE /\ tapClosed' = [tapClosed EXCEPT ![t] = TRUE]
          /\ chClosed' = [chClosed EXCEPT ![t] = TRUE]
          /\ panicked' = (panicked \/ chClosed[t])
  /\ UNCHANGED <<callerKeeps, made, buffered, drops, total, fed, taken, tapSaid,
                 closed>>

(* Close's first step, long before the reader ends.                        *)
CloseMark ==
  /\ ~closed /\ closed' = TRUE
  /\ UNCHANGED <<callerKeeps, tapVars, taps, panicked>>

Receive ==
  /\ events # <<>> /\ events' = Tail(events)
  /\ heardExited' = (heardExited \/ Head(events) = "exited")
  /\ UNCHANGED <<eventsClosed, pendingDrops, totalDrops, lastPut, emitted,
                 published, reported, readerVars, tapVars, closed, taps, panicked>>

TapReceive(t) ==
  /\ buffered[t] > 0
  /\ buffered' = [buffered EXCEPT ![t] = @ - 1]
  /\ taken' = Add(taken, t, 1)
  /\ UNCHANGED <<callerKeeps, made, tapClosed, chClosed, drops, total, fed,
                 tapSaid, closed, taps, panicked>>

Next ==
  \/ ReadEvent \/ (\E p \in Pane : ReadOutput(p)) \/ ReadEnd \/ ReaderWorks
  \/ (\E p \in Pane, t \in Tap : Output(p, t)) \/ (\E p \in Pane : Untap(p))
  \/ CloseMark \/ Receive \/ (\E t \in Tap : TapReceive(t))

Spec == Init /\ [][Next]_vars

(* The scheduler runs the reader; nobody has to receive anything.          *)
ReaderSpec == Spec /\ WF_vars(ReaderWorks)

(* The consumer of the event channel keeps receiving.                      *)
ConsumerFairness == WF_vars(Receive)

-----------------------------------------------------------------------------
(* Properties                                                              *)

TypeStream ==
  /\ events \in Seq({"event", "report", "exited"}) /\ eventsClosed \in BOOLEAN
  /\ pendingDrops \in Nat /\ totalDrops \in Nat
  /\ lastPut \in {"nothing", "event", "report", "exited"}
  /\ heardExited \in BOOLEAN
  /\ emitted \in Nat /\ published \in Nat /\ reported \in Nat
TypeReader ==
  /\ rpc \in {"read", "tap", "finish", "report", "closeTaps", "done", "ended"}
  /\ emitting \in {"no", "flush", "publish", "reflush"}
  /\ outPane \in Pane /\ lines \in Nat
  /\ closing \subseteq Tap /\ toReport \subseteq Tap
TypeTaps ==
  /\ closed \in BOOLEAN /\ panicked \in BOOLEAN
  /\ taps \in [Pane -> Tap \union {NoTap}] /\ made \subseteq Tap
  /\ tapClosed \in [Tap -> BOOLEAN] /\ chClosed \in [Tap -> BOOLEAN]
TypeCounts ==
  /\ buffered \in [Tap -> Nat] /\ drops \in [Tap -> Nat] /\ total \in [Tap -> Nat]
  /\ fed \in [Tap -> Nat] /\ taken \in [Tap -> Nat] /\ tapSaid \in [Tap -> Nat]

(* Every variable has its type.                                            *)
TypeOK == TypeStream /\ TypeReader /\ TypeTaps /\ TypeCounts

(* Exited: "It is terminal and is the last event on the channel before it  *)
(* closes", however far behind the consumer is.                            *)
ExitedIsLast == eventsClosed => lastPut = "exited"

(* No event vanishes: what the reader had to say was put on the channel or *)
(* counted by Dropped, and what Dropped counts was reported or is owed.    *)
EventLossesAdd ==
  /\ emitted = published + totalDrops
  /\ totalDrops = reported + pendingDrops

(* A tap loses nothing silently: every message the reader had for it was   *)
(* received, is in its buffer, or is counted by DroppedOutput; and every   *)
(* loss was announced or is still owed to the pane.                        *)
TapLossesAdd ==
  \A t \in Tap : /\ fed[t] = taken[t] + buffered[t] + total[t]
                 /\ total[t] = drops[t] + tapSaid[t]

(* Neither an event nor pane output is ever lost silently.                 *)
LossesAdd == EventLossesAdd /\ TapLossesAdd

(* deliverOutput and Untap: whoever sends on a tap or closes it, no channel *)
(* is sent on after it was closed, or closed twice.                        *)
NoPanic == ~panicked

(* A consumer that sees its tap end with the connection has been told what *)
(* it lost: nothing is owed to a tap, still registered, whose channel is   *)
(* closed.                                                                 *)
ToldBeforeTheEnd ==
  \A p \in Pane : taps[p] # NoTap /\ chClosed[taps[p]] => drops[taps[p]] = 0

(* "The channel is closed when the connection ends": no tap, whenever it   *)
(* was registered, is left open for its consumer to wait on.               *)
EndClosesTaps == rpc = "ended" => \A t \in made : chClosed[t]

(* The inductive invariant behind the six: what each stage of the teardown *)
(* has done with the channel, and where each tap stands between being      *)
(* made, being taken by the teardown and being closed.                     *)
Ending == rpc \in {"report", "closeTaps", "done", "ended"}

SlotInv ==
  /\ lastPut # "exited" => Len(events) <= EventBuffer + 1
  /\ lastPut = "exited" <=> rpc \in {"closeTaps", "done", "ended"}
  /\ lastPut = "exited" => emitting = "no"
  /\ eventsClosed => rpc \in {"done", "ended"}

MadeInv ==
  /\ \A p \in Pane : taps[p] # NoTap => taps[p] \in made
  /\ \A p, q \in Pane : taps[p] = taps[q] /\ taps[p] # NoTap => p = q
  /\ \A t \in Tap \ made : ~chClosed[t] /\ drops[t] = 0
  /\ closing \subseteq made

ClosingInv ==
  /\ ~Ending => closing = {}
  /\ rpc # "report" => toReport = {}
  /\ toReport \subseteq closing
  /\ rpc \in {"done", "ended"} => closing = {}
  /\ \A t \in closing \ toReport : drops[t] = 0
  /\ Ending => closed

FlagInv ==
  /\ \A t \in Tap : chClosed[t] => tapClosed[t] /\ t \notin closing
  /\ \A t \in made : tapClosed[t] => chClosed[t] \/ t \in closing
  /\ \A t \in made : ~tapClosed[t] => ~Ending /\ \E p \in Pane : taps[p] = t

IInv ==
  /\ TypeOK /\ SlotInv /\ MadeInv /\ ClosingInv /\ FlagInv
  /\ EventLossesAdd /\ TapLossesAdd /\ NoPanic /\ ToldBeforeTheEnd

(* emit's comment: "a caller that fell behind and then went quiet would    *)
(* never be told, which is the one case where being told matters most".    *)
(* Once the channel is closed every loss must have been reported on it.    *)
EveryLossReported == eventsClosed => reported = totalDrops

(* The reader never waits for a consumer: it always gets back to the pipe, *)
(* or to the end.                                                          *)
ReaderNeverWaits == []<>(At("read") \/ rpc = "ended")

(* A consumer that keeps ranging over Events until Exited receives it.     *)
ExitedIsHeard == ConsumerFairness => ((rpc = "finish") ~> heardExited)
=============================================================================
