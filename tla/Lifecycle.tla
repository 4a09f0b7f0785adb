----------------------------- MODULE Lifecycle ------------------------------
(***************************************************************************)
(* The life of a control-mode connection: Connect, the tmux process and    *)
(* its pipes, the end of the reader goroutine, any number of callers of    *)
(* Close with the detaching goroutine, the one wait for the process, and   *)
(* what Wait, Err, Close and a failed Do then say about the end.           *)
(*                                                                         *)
(* Nothing here reads a reply or an event: ReplyBinding and EventStream    *)
(* model those, and the steps of finishReader they own are left out.  A    *)
(* call of Do is only what it says when it fails, TerminalErr.             *)
(*                                                                         *)
(* tmux is external and may do anything a process may: say %exit or not,   *)
(* close its output while it lives on, end with a status or a signal, or   *)
(* never end.  Only SIGKILL is sure to end it.                             *)
(***************************************************************************)
EXTENDS Naturals, FiniteSets

CONSTANTS
  Closer,     \* callers of Close on the client Connect returned
  Opener,     \* Connect itself, which closes what it cannot hand back
  ZeroValue   \* whether the client is one nobody opened: some of BOOLEAN

ASSUME CallersOK == Opener \notin Closer /\ ZeroValue \subseteq BOOLEAN

VARIABLES
  conn,       \* Connect: "check", "stdin", "stdout", "start", "probe", "closing", "ok", "failed"
  fds,        \* pipe ends this process holds
  \* the reader and what it leaves behind
  rpc,        \* "none", "read", "finish", "stdin", "done", "reap", "ended"
  readErr,    \* the read ended in an error other than end of file
  closed, userClose, sawExit, exitMsg, exitErr, done,
  \* Close, detach, reap
  once,       \* closeOnce: "fresh", "running", "over"
  pc,         \* [Closers -> where each call of Close is]
  result,     \* [Closers -> what it returned]
  dpc,        \* detach: "none", "lock", "close", "finished"
  killed, waited, waitErr,
  \* tmux
  proc,       \* "none", "running", "ended"
  status,     \* how it ended: "zero", "code", "crash" or "killed"
  killSent, exitLine, stdoutClosed, stderr,
  \* history
  announced,  \* the error of the Exited event
  ran,        \* the call of Close that closeOnce let run
  outstayed   \* its timeout ran out before anyone had waited for tmux

tmuxVars == <<proc, status, killSent, exitLine, stdoutClosed, stderr>>
endVars == <<closed, userClose, sawExit, exitMsg, exitErr, done>>
closeVars == <<once, pc, result, dpc, killed>>
reapVars == <<waited, waitErr>>
history == <<announced, ran, outstayed>>
vars == <<conn, fds, rpc, readErr, endVars, closeVars, reapVars, tmuxVars, history>>

Closers == Closer \union {Opener}

(* newControlClient, or the zero value that ensure completes as the client *)
(* of a connection already over.                                           *)
Init ==
  \E zero \in ZeroValue :
    /\ conn = IF zero THEN "ok" ELSE "check"
    /\ fds = {} /\ rpc = IF zero THEN "ended" ELSE "none"
    /\ readErr = FALSE
    /\ closed = zero /\ done = zero
    /\ userClose = FALSE /\ sawExit = FALSE /\ exitMsg = ""
    /\ exitErr = (IF zero THEN "notConnected" ELSE "nil")
    /\ announced = exitErr /\ ran = {} /\ outstayed = FALSE
    /\ once = "fresh" /\ pc = [k \in Closers |-> "idle"]
    /\ result = [k \in Closers |-> "none"]
    /\ dpc = "none" /\ killed = FALSE /\ waited = FALSE /\ waitErr = "nil"
    /\ proc = "none" /\ status = "none" /\ killSent = FALSE
    /\ exitLine = "none" /\ stdoutClosed = FALSE /\ stderr = FALSE

-----------------------------------------------------------------------------
(* Connect                                                                 *)

connectKeeps == <<readErr, endVars, closeVars, reapVars, status, killSent, exitLine,
                  stdoutClosed, stderr, history>>

(* The attach target and tmux's version; nothing is open yet.              *)
ConnectCheck ==
  /\ conn = "check" /\ conn' \in {"stdin", "failed"}
  /\ UNCHANGED <<fds, rpc, proc, connectKeeps>>

ConnectStdin ==
  /\ conn = "stdin"
  /\ \/ conn' = "stdout" /\ fds' = {"stdinW", "stdinR"}
     \/ conn' = "failed" /\ UNCHANGED fds
  /\ UNCHANGED <<rpc, proc, connectKeeps>>

(* Mutant: only the end StdinPipe returned is closed on failure.           *)
ConnectStdoutHalf ==
  /\ conn = "stdout"
  /\ \/ conn' = "start" /\ fds' = fds \union {"stdoutW", "stdoutR"}
     \/ conn' = "failed" /\ fds' = fds \ {"stdinW"}
  /\ UNCHANGED <<rpc, proc, connectKeeps>>

(* When no second pipe can be made, both ends of the first are closed.     *)
ConnectStdout ==
  /\ conn = "stdout"
  /\ \/ conn' = "start" /\ fds' = fds \union {"stdoutW", "stdoutR"}
     \/ conn' = "failed" /\ fds' = fds \ {"stdinW", "stdinR"}
  /\ UNCHANGED <<rpc, proc, connectKeeps>>

(* cmd.Start closes the child's ends, or all of them if it fails; start    *)
(* launches the reader.                                                    *)
ConnectStart ==
  /\ conn = "start"
  /\ \/ /\ conn' = "probe" /\ fds' = {"stdinW", "stdoutR"}
        /\ proc' = "running" /\ rpc' = "read"
     \/ conn' = "failed" /\ fds' = {} /\ UNCHANGED <<proc, rpc>>
  /\ UNCHANGED connectKeeps

(* The probe is answered, or fails: the connection ended or ctx did.       *)
ConnectProbe ==
  /\ conn = "probe"
  /\ \/ conn' = "ok" /\ ~done
     \/ conn' = "closing"
  /\ UNCHANGED <<fds, rpc, proc, connectKeeps>>

(* Close has returned to Connect.                                          *)
ConnectFails ==
  /\ conn = "closing" /\ pc[Opener] = "returned"
  /\ conn' = "failed"
  /\ UNCHANGED <<fds, rpc, proc, connectKeeps>>

ConnectStep ==
  \/ ConnectCheck \/ ConnectStdin \/ ConnectStdout \/ ConnectStart
  \/ ConnectProbe \/ ConnectFails

-----------------------------------------------------------------------------
(* reap                                                                    *)

(* isCleanExit: a signal shows as a negative code, whoever sent it.        *)
cleanExit == status = "zero" \/ (status \in {"killed", "crash"} /\ killed)

(* cmd.Wait, once: it returns when the process has ended, and closes this  *)
(* side of the pipes.  There is nothing to wait for without a process.     *)
Reap ==
  /\ ~waited /\ proc # "running"
  /\ waited' = TRUE
  /\ waitErr' = IF (proc = "none" \/ cleanExit) THEN "nil" ELSE "status"
  /\ fds' = {}

Reaped == waited /\ UNCHANGED <<reapVars, fds>>

-----------------------------------------------------------------------------
(* The reader's end                                                        *)

readerKeeps == <<conn, closeVars, tmuxVars, ran, outstayed>>

(* %exit, with its reason, is the last line the reader reads.              *)
ReadExit ==
  /\ rpc = "read" /\ exitLine # "none"
  /\ rpc' = "finish" /\ sawExit' = TRUE
  /\ exitMsg' = IF exitLine = "reason" THEN "reason" ELSE ""
  /\ UNCHANGED <<fds, readErr, closed, userClose, exitErr, done, reapVars,
                 announced, readerKeeps>>

ReadEOF ==
  /\ rpc = "read" /\ exitLine = "none" /\ stdoutClosed
  /\ rpc' = "finish" /\ readErr' \in BOOLEAN
  /\ UNCHANGED <<fds, endVars, reapVars, announced, readerKeeps>>

EndErr == IF readErr THEN "reading" ELSE IF stderr THEN "stderr" ELSE "unexpected"

(* finishReader, under mu: why the connection ended, for Exited and for    *)
(* every later question alike.                                             *)
FinishLocked ==
  /\ rpc = "finish" /\ rpc' = "stdin"
  /\ closed' = TRUE
  /\ exitErr' = IF (sawExit \/ userClose) THEN exitErr ELSE EndErr
  /\ announced' = exitErr'
  /\ UNCHANGED <<fds, readErr, userClose, sawExit, exitMsg, done, reapVars, readerKeeps>>

FinishCloseStdin ==
  /\ rpc = "stdin" /\ rpc' = "done"
  /\ fds' = fds \ {"stdinW"}
  /\ UNCHANGED <<readErr, endVars, reapVars, announced, readerKeeps>>

(* Mutant: the process is left to a Close that may never be called.        *)
FinishDoneUnreaped ==
  /\ rpc = "done" /\ rpc' = "ended"
  /\ done' = TRUE
  /\ UNCHANGED <<fds, readErr, closed, userClose, sawExit, exitMsg, exitErr,
                 reapVars, announced, readerKeeps>>

FinishDone ==
  /\ rpc = "done" /\ rpc' = "reap"
  /\ done' = TRUE
  /\ UNCHANGED <<fds, readErr, closed, userClose, sawExit, exitMsg, exitErr,
                 reapVars, announced, readerKeeps>>

FinishReap ==
  /\ rpc = "reap" /\ rpc' = "ended"
  /\ Reap \/ Reaped
  /\ UNCHANGED <<readErr, endVars, announced, readerKeeps>>

ReaderStep ==
  \/ ReadExit \/ ReadEOF \/ FinishLocked \/ FinishCloseStdin \/ FinishDone
  \/ FinishReap

-----------------------------------------------------------------------------
(* Close and detach                                                        *)

closeKeeps == <<conn, rpc, readErr, announced, proc, status, exitLine,
                stdoutClosed, stderr>>

MayClose(k) == IF k = Opener THEN conn = "closing" ELSE conn = "ok"

Return(k, r) ==
  /\ pc' = [pc EXCEPT ![k] = "returned"]
  /\ result' = [result EXCEPT ![k] = r]

CloseCall(k) ==
  /\ pc[k] = "idle" /\ MayClose(k)
  /\ pc' = [pc EXCEPT ![k] = "once"]
  /\ UNCHANGED <<fds, endVars, once, result, dpc, killed, reapVars, killSent, ran, outstayed, closeKeeps>>

(* Mutant: the mark also forgets what went wrong before.                         *)
CloseMarkForgets(k) ==
  /\ pc[k] = "once" /\ once = "fresh"
  /\ once' = "running" /\ pc' = [pc EXCEPT ![k] = "check"]
  /\ closed' = TRUE /\ userClose' = TRUE /\ exitErr' = "nil"
  /\ ran' = ran \union {k}
  /\ UNCHANGED <<fds, sawExit, exitMsg, done, result, dpc, killed,
                 reapVars, killSent, outstayed, closeKeeps>>

(* Mutant: that tmux is to be killed is said as soon as it is asked to go. *)
CloseMarkSaysKilled(k) ==
  /\ pc[k] = "once" /\ once = "fresh"
  /\ once' = "running" /\ pc' = [pc EXCEPT ![k] = "check"]
  /\ closed' = TRUE /\ userClose' = TRUE /\ killed' = TRUE
  /\ ran' = ran \union {k}
  /\ UNCHANGED <<fds, sawExit, exitMsg, exitErr, done, result, dpc,
                 reapVars, killSent, outstayed, closeKeeps>>

(* closeOnce: the first call runs; under mu it marks the connection.       *)
CloseMark(k) ==
  /\ pc[k] = "once" /\ once = "fresh"
  /\ once' = "running" /\ pc' = [pc EXCEPT ![k] = "check"]
  /\ closed' = TRUE /\ userClose' = TRUE
  /\ ran' = ran \union {k}
  /\ UNCHANGED <<fds, sawExit, exitMsg, exitErr, done, result, dpc, killed,
                 reapVars, killSent, outstayed, closeKeeps>>

(* Mutant: a later call does not wait for the first.                       *)
CloseAgainAtOnce(k) ==
  /\ pc[k] = "once" /\ once # "fresh"
  /\ Return(k, "nil")
  /\ UNCHANGED <<fds, endVars, once, dpc, killed, reapVars, killSent, ran, outstayed, closeKeeps>>

(* A later call waits for the first to finish, and returns nil.            *)
CloseAgain(k) ==
  /\ pc[k] = "once" /\ once = "over"
  /\ Return(k, "nil")
  /\ UNCHANGED <<fds, endVars, once, dpc, killed, reapVars, killSent, ran, outstayed, closeKeeps>>

CloseCheck(k) ==
  /\ pc[k] = "check"
  /\ \/ /\ done /\ fds' = fds \ {"stdinW"}
        /\ pc' = [pc EXCEPT ![k] = "reap"] /\ UNCHANGED dpc
     \/ /\ ~done /\ dpc' = "lock"
        /\ pc' = [pc EXCEPT ![k] = "wait"] /\ UNCHANGED fds
  /\ UNCHANGED <<endVars, once, result, killed, reapVars, killSent, ran, outstayed, closeKeeps>>

CloseSeesDone(k) ==
  /\ pc[k] \in {"wait", "second"} /\ done
  /\ pc' = [pc EXCEPT ![k] = "reap"]
  /\ UNCHANGED <<fds, endVars, once, result, dpc, killed, reapVars, killSent, ran, outstayed, closeKeeps>>

(* Mutant: the timeout is only looked at once detach has written.          *)
CloseTimeoutAfterDetach(k) ==
  /\ pc[k] = "wait" /\ dpc = "finished"
  /\ fds' = fds \ {"stdinW"} /\ killed' = TRUE
  /\ pc' = [pc EXCEPT ![k] = "kill"]
  /\ outstayed' = (outstayed \/ ~waited)
  /\ UNCHANGED <<endVars, once, result, dpc, reapVars, killSent, ran, closeKeeps>>

(* The close timeout: close the pipe, say that we kill, then kill.         *)
CloseTimeout(k) ==
  /\ pc[k] = "wait"
  /\ fds' = fds \ {"stdinW"} /\ killed' = TRUE
  /\ pc' = [pc EXCEPT ![k] = "kill"]
  /\ outstayed' = (outstayed \/ ~waited)
  /\ UNCHANGED <<endVars, once, result, dpc, reapVars, killSent, ran, closeKeeps>>

CloseKill(k) ==
  /\ pc[k] = "kill"
  /\ killSent' = (proc = "running")
  /\ pc' = [pc EXCEPT ![k] = "second"]
  /\ UNCHANGED <<fds, endVars, once, result, dpc, killed, reapVars, ran, outstayed, closeKeeps>>

CloseGivesUp(k) ==
  /\ pc[k] = "second"
  /\ Return(k, "unkilled") /\ once' = "over"
  /\ UNCHANGED <<fds, endVars, dpc, killed, reapVars, killSent, ran, outstayed, closeKeeps>>

CloseReap(k) ==
  /\ pc[k] = "reap"
  /\ Reap \/ Reaped
  /\ Return(k, waitErr') /\ once' = "over"
  /\ UNCHANGED <<endVars, dpc, killed, killSent, ran, outstayed, closeKeeps>>

(* Mutant: Close kills and says so afterwards.                             *)
CloseStepKillsFirst(k) ==
  \/ CloseMark(k) \/ CloseAgain(k) \/ CloseCheck(k) \/ CloseSeesDone(k) \/ CloseReap(k)
  \/ /\ pc[k] = "wait" /\ pc' = [pc EXCEPT ![k] = "kill"]
     /\ fds' = fds \ {"stdinW"} /\ killSent' = (proc = "running")
     /\ outstayed' = (outstayed \/ ~waited)
     /\ UNCHANGED <<endVars, once, result, dpc, killed, reapVars, ran, closeKeeps>>
  \/ /\ pc[k] = "kill" /\ pc' = [pc EXCEPT ![k] = "second"]
     /\ killed' = TRUE
     /\ UNCHANGED <<fds, endVars, once, result, dpc, killSent, reapVars, ran, outstayed,
                    closeKeeps>>

CloseStep(k) ==
  \/ CloseMark(k) \/ CloseAgain(k) \/ CloseCheck(k) \/ CloseSeesDone(k)
  \/ CloseTimeout(k) \/ CloseKill(k) \/ CloseReap(k)

detachKeeps == <<endVars, once, pc, result, killed, reapVars, killSent, closeKeeps, ran,
                 outstayed>>

(* The empty line: the write takes as long as tmux likes, unless the pipe  *)
(* breaks; then the pipe is closed.                                        *)
DetachWrite ==
  /\ dpc = "lock" /\ dpc' = "close"
  /\ UNCHANGED <<fds, detachKeeps>>

DetachClose ==
  /\ dpc = "close" /\ dpc' = "finished"
  /\ fds' = fds \ {"stdinW"}
  /\ UNCHANGED detachKeeps

PipeBroken == "stdinW" \notin fds \/ proc # "running"

-----------------------------------------------------------------------------
(* tmux                                                                    *)

tmuxKeeps == <<conn, fds, rpc, readErr, endVars, closeVars, reapVars, killSent, history>>

TmuxSaysExit ==
  /\ proc = "running" /\ exitLine = "none" /\ ~stdoutClosed
  /\ exitLine' \in {"plain", "reason"}
  /\ UNCHANGED <<proc, status, stdoutClosed, stderr, tmuxKeeps>>

TmuxComplains ==
  /\ proc = "running" /\ ~stderr /\ stderr' = TRUE
  /\ UNCHANGED <<proc, status, exitLine, stdoutClosed, tmuxKeeps>>

TmuxHangsUp ==
  /\ proc = "running" /\ ~stdoutClosed /\ stdoutClosed' = TRUE
  /\ UNCHANGED <<proc, status, exitLine, stderr, tmuxKeeps>>

TmuxEnds ==
  /\ proc = "running" /\ proc' = "ended" /\ stdoutClosed' = TRUE
  /\ status' \in {"zero", "code", "crash"}
  /\ UNCHANGED <<exitLine, stderr, tmuxKeeps>>

TmuxIsKilled ==
  /\ proc = "running" /\ killSent
  /\ proc' = "ended" /\ status' = "killed" /\ stdoutClosed' = TRUE
  /\ UNCHANGED <<exitLine, stderr, tmuxKeeps>>

TmuxStep ==
  TmuxSaysExit \/ TmuxComplains \/ TmuxHangsUp \/ TmuxEnds \/ TmuxIsKilled

Next ==
  \/ ConnectStep \/ ReaderStep
  \/ \E k \in Closers : CloseCall(k) \/ CloseStep(k) \/ CloseGivesUp(k)
  \/ DetachWrite \/ DetachClose \/ TmuxStep

Spec == Init /\ [][Next]_vars

(* Every goroutine runs, timers expire, a killed process dies and the      *)
(* write to a broken pipe fails.  Nothing else is asked of tmux, and       *)
(* nobody has to call Close.                                               *)
ClientSpec ==
  /\ Spec
  /\ WF_vars(ConnectFails \/ (conn = "closing" /\ CloseCall(Opener)))
  /\ WF_vars(ReaderStep)
  /\ \A k \in Closers : WF_vars(CloseStep(k)) /\ WF_vars(CloseGivesUp(k))
  /\ WF_vars(DetachWrite /\ PipeBroken) /\ WF_vars(DetachClose)
  /\ WF_vars(TmuxIsKilled)

(* What Close relies on besides: a tmux that is done with its output ends. *)
TmuxEndsInTime == WF_vars(TmuxEnds /\ (exitLine # "none" \/ stdoutClosed))

-----------------------------------------------------------------------------
(* Properties                                                              *)

(* Mutant: that Close was called is said before what went wrong.           *)
TerminalErrCloseFirst ==
  IF userClose THEN "ErrClosed"
  ELSE IF exitErr # "nil" THEN exitErr
  ELSE IF exitMsg # "" THEN exitMsg ELSE "ErrServerExited"

(* terminalErrLocked: what a call of Do that can no longer be answered says. *)
TerminalErr ==
  IF exitErr # "nil" THEN exitErr
  ELSE IF exitMsg # "" THEN exitMsg
  ELSE IF userClose THEN "ErrClosed" ELSE "ErrServerExited"

Errors == {"nil", "reading", "stderr", "unexpected", "notConnected"}

(* Types, by the part that changes the variables.                          *)
TypeConnect ==
  /\ conn \in {"check", "stdin", "stdout", "start", "probe", "closing", "ok", "failed"}
  /\ fds \subseteq {"stdinW", "stdinR", "stdoutW", "stdoutR"}

TypeReader ==
  /\ rpc \in {"none", "read", "finish", "stdin", "done", "reap", "ended"}
  /\ readErr \in BOOLEAN /\ closed \in BOOLEAN /\ userClose \in BOOLEAN
  /\ sawExit \in BOOLEAN /\ done \in BOOLEAN
  /\ exitMsg \in {"", "reason"} /\ exitErr \in Errors /\ announced \in Errors

TypeClose ==
  /\ once \in {"fresh", "running", "over"}
  /\ pc \in [Closers -> {"idle", "once", "check", "wait", "kill", "second",
                         "reap", "returned"}]
  /\ result \in [Closers -> {"none", "nil", "status", "unkilled"}]
  /\ dpc \in {"none", "lock", "close", "finished"}
  /\ killed \in BOOLEAN /\ waited \in BOOLEAN /\ waitErr \in {"nil", "status"}
  /\ ran \subseteq Closers /\ outstayed \in BOOLEAN

TypeTmux ==
  /\ proc \in {"none", "running", "ended"}
  /\ status \in {"none", "zero", "code", "crash", "killed"}
  /\ killSent \in BOOLEAN /\ stdoutClosed \in BOOLEAN /\ stderr \in BOOLEAN
  /\ exitLine \in {"none", "plain", "reason"}

TypeOK == TypeConnect /\ TypeReader /\ TypeClose /\ TypeTmux

(* Wait "reports the same thing as the Exited event", and so does Err,     *)
(* whenever they are asked after the end and whoever calls Close.          *)
WaitAgreesWithExited == done => exitErr = announced

(* terminalErrLocked: once the connection is over, a Close that comes      *)
(* after a crash does not change what a failed call reports: only "the     *)
(* server exited", which says nothing, gives way to ErrClosed.             *)
TerminalErrSettles ==
  [][done /\ TerminalErr # "ErrServerExited" => TerminalErr' = TerminalErr]_vars

(* "It returns an error if tmux did not end the way it was asked to": the  *)
(* call that does the closing waits for the end, never passes its own kill *)
(* off as tmux's failure, though the reader may be the one that waits, and *)
(* returns nil only for a tmux that ended well or at its hand.  A crash it *)
(* may take for its own kill, but only one nobody had waited for when its  *)
(* timeout ran out.                                                        *)
CloseTellsTheEnd ==
  /\ \A k \in Closers : result[k] = "status" => status \in {"code", "crash"}
  /\ \A k \in ran : result[k] = "nil" =>
       proc = "none" \/ status \in {"zero", "killed"} \/ (status = "crash" /\ outstayed)

(* "Close is idempotent and safe to call concurrently": whichever caller   *)
(* returns, the connection is over by then, or the kill did not help.      *)
ReturnMeansOver ==
  \A k \in Closers : pc[k] = "returned" =>
    done \/ \E j \in Closers : result[j] = "unkilled"

(* A Connect that fails leaves no end of a pipe open, at whichever step it *)
(* failed, unless its Close gave up on a tmux that would not die.          *)
FailedConnectLeaksNothing ==
  conn = "failed" => fds = {} \/ result[Opener] = "unkilled"

(* "The reader reaps the process whenever the connection ends": with no    *)
(* call of Close at all, no zombie and no pipe is left behind.             *)
NoZombie == (proc = "ended") ~> (waited /\ fds = {})

(* "The bound is two of those timeouts, and it holds whatever tmux does."  *)
CloseIsBounded == \A k \in Closers : (pc[k] # "idle") ~> (pc[k] = "returned")

(* What is left of that bound: every Close returns, the ones that come     *)
(* second included, if a tmux that is done with its output ends.           *)
CloseReturns == TmuxEndsInTime => CloseIsBounded
=============================================================================
