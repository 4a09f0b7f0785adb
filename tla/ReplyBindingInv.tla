-------------------------- MODULE ReplyBindingInv ---------------------------
(***************************************************************************)
(* The inductive invariant behind the safety properties of ReplyBinding.   *)
(*                                                                         *)
(* The properties speak of what reached a caller; what makes them true is  *)
(* on the wire.  Each line carries, in `at', tmux's own place when it was  *)
(* written, so consecutive lines show tmux's steps one by one, and the     *)
(* reader's state is compared with tmux's place at the line it has come    *)
(* to (Cut): it has the same block open, and has bound as many commands    *)
(* as tmux had begun.  A ruined terminator breaks that for good, with the  *)
(* reader Stuck in a block nothing on the wire can close.                  *)
(***************************************************************************)
EXTENDS ReplyBinding

Cut == IF wire = <<>> THEN tm ELSE wire[1].at
After(i) == IF i = Len(wire) THEN tm ELSE wire[i + 1].at

(* Line l, written at l.at, is one thing tmux may write, and left it at q. *)
HeaderTo(l, q) ==
  /\ l.at.blk.src = Nobody
  /\ l.kind = "begin"
  /\ q.blk = [src |-> q.blk.src, number |-> l.number, ruined |-> l.malformed, n |-> 0]
  /\ q.blk.src # Nobody
  /\ l.client = (q.blk.src \in Cmd)
  /\ q.blk.src = Tmux => q.taken = l.at.taken
  /\ q.blk.src \in Cmd =>
       q.taken = l.at.taken + 1 /\ q.taken <= Len(sent) /\ q.blk.src = sent[q.taken]
         /\ (l.malformed => q.blk.src \in ruinedReply)

BodyTo(l, q) ==
  /\ l.at.blk.src # Nobody
  /\ q.taken = l.at.taken
  /\ q.blk = Grown(l.at.blk)
  /\ l.text = Text(l.at.blk.src, l.at.blk.n + 1)
  /\ l.kind \in Terminators =>
       ~l.at.blk.ruined /\ ~RuinFooter /\ l.number # l.at.blk.number

FooterTo(l, q) ==
  /\ l.at.blk.src # Nobody
  /\ q.taken = l.at.taken
  /\ q.blk = TmuxIdle
  /\ l.kind \in Terminators
  /\ l.number = l.at.blk.number
  /\ l.malformed => RuinFooter
  /\ l.at.blk.src \in Cmd =>
       verdict[l.at.blk.src] = l.kind /\ bodyLen[l.at.blk.src] = l.at.blk.n

AsideTo(l, q) ==
  /\ l.at.blk.src = Nobody
  /\ q = l.at
  /\ l.kind # "begin"
  /\ l.kind = "exit" => saidExit

LineTo(l, q) == HeaderTo(l, q) \/ BodyTo(l, q) \/ FooterTo(l, q) \/ AsideTo(l, q)

(* The line tmux died in left it where it was.                             *)
IsCut(i) == cut /\ i = Len(wire)
CutTo(l) ==
  /\ l.at = tm /\ l.text = Framing
  /\ IF l.at.blk.src = Nobody THEN l.kind = "begin" /\ l.client
     ELSE l.kind = IF l.malformed THEN "end" ELSE "data"

WireInv == \A i \in 1..Len(wire) :
  /\ IF IsCut(i) THEN CutTo(wire[i]) ELSE LineTo(wire[i], After(i))
  /\ wire[i].at.taken <= tm.taken

(* Which headers may be ruined, and which blocks may be tmux's own.        *)
IsHeader(l) == l.kind = "begin" /\ l.at.blk.src = Nobody

FirstLineInv ==
  /\ ~spoken => wire = <<>> /\ ~sawFirstLine /\ tm = [blk |-> TmuxIdle, taken |-> 0]
  /\ spoken /\ wire = <<>> => sawFirstLine
  /\ \A i \in 1..Len(wire) : IsHeader(wire[i]) /\ ~IsCut(i) =>
       /\ wire[i].malformed /\ wire[i].client => i > 1 \/ sawFirstLine
       /\ wire[i].malformed /\ ~wire[i].client => i = 1 /\ ~sawFirstLine
       /\ ~hasFlags /\ ~wire[i].client => i = 1 /\ ~sawFirstLine /\ hasStartup
  /\ ~hasFlags /\ hasStartup /\ rpc = "read" /\ ~sawFirstLine => ~startup
  /\ hasStartup \in StartupModes
  /\ unsolicited <= MaxUnsolicited

(* tmux's place, and what it has answered.                                 *)
TmuxInv ==
  /\ cut => ~up
  /\ tm.taken <= Len(sent)
  /\ tm.blk.src = Nobody => tm.blk = TmuxIdle
  /\ tm.blk.src \in Cmd =>
       tm.taken > 0 /\ tm.blk.src = sent[tm.taken] /\ verdict[tm.blk.src] = "none"
  /\ tm.blk.number < nextNumber /\ nextNumber > 0
  /\ tm.blk.src # Nobody => tm.blk.number > 0
  /\ \A c \in Cmd : verdict[c] # "none" \/ c \in ruinedReply =>
       \E k \in 1..tm.taken : sent[k] = c
  /\ \A k \in 1..tm.taken :
       verdict[sent[k]] # "none" \/ (k = tm.taken /\ tm.blk.src = sent[k])

SentInv ==
  /\ \A i \in 1..Len(sent) : pc[sent[i]] \in {"await", "drain", "returned"}
  /\ \A i, j \in 1..Len(sent) : sent[i] = sent[j] => i = j

(* writeMu.                                                                *)
MutexInv ==
  /\ \A c, d \in Cmd : pc[c] = "write" /\ pc[d] = "write" => c = d
  /\ \A c \in Cmd : pc[c] = "write" => dpc # "write"
  /\ \A c \in Cmd : pc[c] = "unqueue" => PipeBroken

(* The queue: aligned with the commands sent, then calls not sent yet or   *)
(* never to be sent.                                                       *)
Unanswered(c) == outcome[c] = "none"

(* The reader has handled the line tmux died in; the end comes next.       *)
Severed == cut /\ wire = <<>>

QueueInv == rpc = "read" =>
  /\ \A i, j \in 1..Len(queue) : queue[i] = queue[j] => i = j
  /\ \A i \in 1..Len(queue) : i > Len(sent) - bound => pc[queue[i]] \in {"write", "unqueue"}
  /\ \A i \in 1..Len(queue) : Unanswered(queue[i]) /\ lines[queue[i]] = <<>>
  /\ ~Severed => \A c \in Cmd : pc[c] = "write" => \E i \in 1..Len(queue) : queue[i] = c

(* A call that has not joined the queue has no answer and no open block.   *)
FreshInv == \A c \in Cmd : pc[c] \in {"idle", "barrier", "lock"} =>
  Unanswered(c) /\ lines[c] = <<>> /\ current.owner # c

(* The reader has open the block tmux had open where the wire was cut.     *)
Synced ==
  /\ bound = Cut.taken
  /\ Cut.blk.src = Nobody => current = NoBlock
  /\ Cut.blk.src # Nobody =>
       /\ current.owner = IF Cut.blk.ruined THEN Tmux ELSE Cut.blk.src
       /\ current.unnumbered = Cut.blk.ruined
       /\ ~Cut.blk.ruined => current.number = Cut.blk.number
  /\ current.owner \in Cmd =>
       /\ Len(lines[current.owner]) = Cut.blk.n
       /\ \A i \in 1..Cut.blk.n : lines[current.owner][i] = Text(current.owner, i)

(* A ruined terminator went by as body: nothing can close the block now.   *)
Stuck ==
  /\ RuinFooter
  /\ InBlock /\ ~current.unnumbered
  /\ 0 < current.number /\ current.number < nextNumber
  /\ tm.blk.src # Nobody => tm.blk.number # current.number
  /\ \A i \in 1..Len(wire) : wire[i].kind \in Terminators => wire[i].number # current.number
  /\ bound <= tm.taken

BlockInv == rpc = "read" =>
  /\ Synced \/ Stuck \/ Severed
  /\ bound <= IF Severed THEN tm.taken + 1 ELSE tm.taken
  /\ current.owner \in Cmd => Unanswered(current.owner)
  /\ current.owner \in Cmd => \A i \in 1..Len(queue) : queue[i] # current.owner
  /\ current.owner = Nobody => current = NoBlock

(* No two blocks have the same number.                                     *)
NumberInv == RuinFooter =>
  \A i \in 1..Len(wire) :
    /\ wire[i].at.blk.number < nextNumber
    /\ wire[i].at.blk.src # Nobody => wire[i].at.blk.number > 0
    /\ wire[i].kind \in Terminators /\ wire[i].at.blk.src # Nobody =>
         /\ tm.blk.src # Nobody => tm.blk.number # wire[i].number
         /\ \A j \in 1..Len(wire) : j > i /\ wire[j].kind \in Terminators =>
              wire[j].number # wire[i].number

(* Every call past its write is in the reader's care, or woken.            *)
PastWrite(c) == pc[c] \in {"write", "await", "drain"}

WakeInv ==
  /\ rpc \in {"read", "finish"} =>
       \A c \in Cmd : PastWrite(c) =>
         woken[c] \/ current.owner = c \/ \E i \in 1..Len(queue) : queue[i] = c
  /\ rpc = "wake" => \A c \in Cmd : PastWrite(c) => woken[c] \/ c \in waiting
  /\ rpc \in {"closeStdin", "done", "ended"} =>
       \A c \in Cmd : PastWrite(c) => woken[c]
  /\ rpc \notin {"read", "finish"} => closed
  /\ done => rpc = "ended"

(* The barrier, and Close.                                                 *)
GateInv ==
  /\ ~startup => \A c \in Cmd : pc[c] \in {"idle", "barrier", "returned"}
  /\ cpc # "none" => closed
  /\ cpc \in {"none", "select"} => dpc = "none"
  /\ detached => dpc \in {"close", "finished"} /\ \A c \in Cmd : pc[c] # "write"

IInv ==
  /\ WireInv /\ FirstLineInv /\ TmuxInv /\ SentInv /\ MutexInv /\ QueueInv
  /\ FreshInv /\ BlockInv /\ NumberInv /\ WakeInv /\ GateInv
  /\ OwnReply /\ QueueAligned /\ ProtocolErrorIsOwn
  /\ BarrierHolds /\ DoneWakesAll /\ ExitIsTmuxs
-----------------------------------------------------------------------------
(* A call as its caller sees it.                                           *)
CallOf(c) ==
  IF pc[c] = "idle" THEN "idle"
  ELSE IF pc[c] # "returned" THEN "waiting"
  ELSE IF ret[c] = "reply" THEN "answered end"
  ELSE IF ret[c] = "control" THEN "answered error" ELSE "failed"

Service == INSTANCE CommandService WITH
  call <- [c \in Cmd |-> CallOf(c)], order <- sent

(* Do keeps the promise of CommandService: each call returns its own       *)
(* command's verdict or an error, through every interleaving of callers,   *)
(* reader, Close and tmux.                                                 *)
ImplementsService == Service!Spec
=============================================================================
