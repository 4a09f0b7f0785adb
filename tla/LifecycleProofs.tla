--------------------------- MODULE LifecycleProofs ---------------------------
(***************************************************************************)
(* Proofs, for every number of callers of Close, that the model of         *)
(* Lifecycle keeps its safety properties.                                  *)
(***************************************************************************)
EXTENDS Lifecycle, TLAPS

(* Connect's stages; who may be closing, and since when.                   *)
ConnectInv ==
  /\ conn \in {"check", "stdin", "stdout", "start"} =>
       rpc = "none" /\ proc = "none" /\ ~waited /\ dpc = "none"
  /\ conn \in {"check", "stdin"} => fds = {}
  /\ conn = "stdout" => fds = {"stdinW", "stdinR"}
  /\ pc[Opener] # "idle" => conn \in {"closing", "failed"}
  /\ \A k \in Closer : pc[k] # "idle" => conn = "ok"

(* The reader's end: what it announced is what it left in exitErr.         *)
EndInv ==
  /\ done <=> rpc \in {"reap", "ended"}
  /\ rpc \in {"stdin", "done", "reap", "ended"} => exitErr = announced

(* closeOnce: who is inside it, and what its end says.                     *)
Over == done \/ \E k \in Closers : result[k] = "unkilled"

OnceInv ==
  /\ once # "fresh" => \E k \in Closers : pc[k] \notin {"idle", "once"}
  /\ once = "over" => Over
  /\ \A k \in Closers : pc[k] = "reap" => done
  /\ \A k \in Closers : pc[k] = "kill" => killed
  /\ \A k \in Closers : result[k] # "none" => pc[k] = "returned"

(* How tmux ended and what the one wait for it made of that.  A kill of    *)
(* Close's own is said before it is sent, so whoever waits knows of it.    *)
WaitInv ==
  /\ proc \in {"none", "running"} => status = "none"
  /\ proc = "ended" => status # "none"
  /\ killSent \/ status = "killed" => killed
  /\ killed /\ ~waited => outstayed
  /\ waitErr = "status" => waited /\ status \in {"code", "crash"}
  /\ waited /\ waitErr = "nil" =>
       proc = "none" \/ status \in {"zero", "killed"} \/ (status = "crash" /\ outstayed)

(* What a call of Close returned is what the wait made of the end.         *)
TellInv ==
  /\ \A k \in Closers : result[k] = "status" => waitErr = "status"
  /\ \A k \in ran : result[k] = "nil" => waited /\ waitErr = "nil"
  /\ \A k \in ran : pc[k] \notin {"idle", "once"}

(* The one wait for the process closes this side of its pipes.             *)
ReapInv ==
  /\ waited => proc # "running" /\ fds = {}
  /\ pc[Opener] = "returned" => waited \/ result[Opener] = "unkilled"

IInv ==
  /\ ConnectInv /\ EndInv /\ OnceInv /\ WaitInv /\ TellInv /\ ReapInv
  /\ WaitAgreesWithExited /\ ReturnMeansOver
  /\ FailedConnectLeaksNothing

-----------------------------------------------------------------------------
(* Types *)

(* What no step of an action touches keeps its type.                       *)
LEMMA TypeFrame ==
  ASSUME TypeOK
  PROVE  /\ UNCHANGED <<conn, fds>> => TypeConnect'
         /\ UNCHANGED <<rpc, readErr, endVars, announced>> => TypeReader'
         /\ UNCHANGED <<closeVars, reapVars, ran, outstayed>> => TypeClose'
         /\ UNCHANGED tmuxVars => TypeTmux'
<1>1. UNCHANGED <<conn, fds>> => TypeConnect' BY DEF TypeOK, TypeConnect
<1>2. UNCHANGED <<rpc, readErr, endVars, announced>> => TypeReader'
  BY DEF TypeOK, TypeReader, endVars
<1>3. UNCHANGED <<closeVars, reapVars, ran, outstayed>> => TypeClose'
  BY DEF TypeOK, TypeClose, closeVars, reapVars
<1>4. UNCHANGED tmuxVars => TypeTmux' BY DEF TypeOK, TypeTmux, tmuxVars
<1>. QED BY <1>1, <1>2, <1>3, <1>4

LEMMA TypeInit == Init => TypeOK
<1>. SUFFICES ASSUME Init PROVE TypeOK OBVIOUS
<1>. USE DEF Init
<1>1. TypeConnect BY DEF TypeConnect
<1>2. TypeReader
  <2>1. PICK zero \in ZeroValue :
          /\ rpc = IF zero THEN "ended" ELSE "none"
          /\ closed = zero /\ done = zero
          /\ exitErr = (IF zero THEN "notConnected" ELSE "nil")
          /\ announced = exitErr
    OBVIOUS
  <2>2. zero \in BOOLEAN BY CallersOK
  <2>. QED BY <2>1, <2>2 DEF TypeReader, Errors
<1>3. TypeClose BY DEF TypeClose
<1>4. TypeTmux BY DEF TypeTmux
<1>. QED BY <1>1, <1>2, <1>3, <1>4 DEF TypeOK

LEMMA ConnectTypes == TypeOK /\ ConnectStep => TypeOK'
<1>. SUFFICES ASSUME TypeOK, ConnectStep PROVE TypeOK' OBVIOUS
<1>1. UNCHANGED connectKeeps
  BY DEF ConnectStep, ConnectCheck, ConnectStdin, ConnectStdout, ConnectStart, ConnectProbe,
         ConnectFails
<1>2. TypeConnect'
  BY DEF ConnectStep, ConnectCheck, ConnectStdin, ConnectStdout, ConnectStart, ConnectProbe,
         ConnectFails, TypeOK, TypeConnect
<1>3. rpc' \in {rpc, "read"} /\ proc' \in {proc, "running"}
  BY DEF ConnectStep, ConnectCheck, ConnectStdin, ConnectStdout, ConnectStart, ConnectProbe,
         ConnectFails
<1>4. TypeReader' BY <1>1, <1>3 DEF TypeOK, TypeReader, connectKeeps, endVars, history
<1>5. TypeTmux' BY <1>1, <1>3 DEF TypeOK, TypeTmux, connectKeeps
<1>. QED BY <1>1, <1>2, <1>4, <1>5, TypeFrame DEF TypeOK, connectKeeps, history

LEMMA ReaderTypes == TypeOK /\ ReaderStep => TypeOK'
<1>. SUFFICES ASSUME TypeOK, ReaderStep PROVE TypeOK' OBVIOUS
<1>. USE DEF readerKeeps
<1>1. UNCHANGED <<conn, closeVars, tmuxVars, ran, outstayed>>
  BY DEF ReaderStep, ReadExit, ReadEOF, FinishLocked, FinishCloseStdin, FinishDone, FinishReap
<1>2. TypeConnect'
  <2>1. fds' \subseteq fds
    BY DEF ReaderStep, ReadExit, ReadEOF, FinishLocked, FinishCloseStdin, FinishDone,
           FinishReap, Reap, Reaped
  <2>. QED BY <1>1, <2>1 DEF TypeOK, TypeConnect
<1>3. TypeReader'
  <2>. USE DEF TypeOK, TypeReader, endVars
  <2>1. CASE ReadExit BY <2>1 DEF ReadExit
  <2>2. CASE ReadEOF BY <2>2 DEF ReadEOF
  <2>3. CASE FinishLocked
    <3>1. exitErr' \in Errors BY <2>3 DEF FinishLocked, EndErr, Errors
    <3>. QED BY <2>3, <3>1 DEF FinishLocked
  <2>4. CASE FinishCloseStdin BY <2>4 DEF FinishCloseStdin
  <2>5. CASE FinishDone BY <2>5 DEF FinishDone
  <2>6. CASE FinishReap BY <2>6 DEF FinishReap
  <2>. QED BY <2>1, <2>2, <2>3, <2>4, <2>5, <2>6 DEF ReaderStep
<1>4. TypeClose'
  <2>1. waited' \in BOOLEAN /\ waitErr' \in {"nil", "status"}
    BY DEF ReaderStep, ReadExit, ReadEOF, FinishLocked, FinishCloseStdin, FinishDone,
           FinishReap, Reap, Reaped, reapVars, TypeOK, TypeClose
  <2>. QED BY <1>1, <2>1 DEF TypeOK, TypeClose, closeVars
<1>. QED BY <1>1, <1>2, <1>3, <1>4, TypeFrame DEF TypeOK

LEMMA CloseTypes ==
  ASSUME TypeOK, NEW k \in Closers, CloseCall(k) \/ CloseStep(k) \/ CloseGivesUp(k)
  PROVE  TypeOK'
<1>. USE DEF CloseStep, CloseCall, CloseMark, CloseAgain, CloseCheck, CloseSeesDone,
             CloseTimeout, CloseKill, CloseGivesUp, CloseReap
<1>1. UNCHANGED closeKeeps OBVIOUS
<1>2. TypeConnect'
  <2>1. fds' \subseteq fds BY DEF Reap, Reaped
  <2>. QED BY <1>1, <2>1 DEF closeKeeps, TypeOK, TypeConnect
<1>3. TypeReader'
  <2>1. /\ closed' \in {closed, TRUE} /\ userClose' \in {userClose, TRUE}
        /\ UNCHANGED <<sawExit, exitMsg, exitErr, done>>
    BY DEF endVars
  <2>. QED BY <1>1, <2>1 DEF closeKeeps, TypeOK, TypeReader
<1>4. TypeClose'
  <2>1. waited' \in BOOLEAN /\ waitErr' \in {"nil", "status"}
    BY DEF Reap, Reaped, reapVars, TypeOK, TypeClose
  <2>2. /\ once' \in {once, "running", "over"} /\ dpc' \in {dpc, "lock"}
        /\ killed' \in {killed, TRUE}
    OBVIOUS
  <2>7. ran' \subseteq Closers /\ outstayed' \in BOOLEAN BY DEF TypeOK, TypeClose
  <2>3. \E v \in {"idle", "once", "check", "wait", "kill", "second", "reap", "returned"} :
          pc' = [pc EXCEPT ![k] = v]
    BY DEF Return
  <2>4. \/ UNCHANGED result
        \/ \E r \in {"nil", "status", "unkilled"} : result' = [result EXCEPT ![k] = r]
    BY <2>1 DEF Return
  <2>5. pc' \in [Closers -> {"idle", "once", "check", "wait", "kill", "second",
                             "reap", "returned"}]
    BY <2>3 DEF TypeOK, TypeClose
  <2>6. result' \in [Closers -> {"none", "nil", "status", "unkilled"}]
    BY <2>4 DEF TypeOK, TypeClose
  <2>. QED BY <2>1, <2>2, <2>5, <2>6, <2>7 DEF TypeOK, TypeClose
<1>5. TypeTmux'
  <2>1. killSent' = killSent \/ killSent' = (proc = "running") OBVIOUS
  <2>. QED BY ZenonT(40), <1>1, <2>1 DEF closeKeeps, TypeOK, TypeTmux
<1>. QED BY <1>2, <1>3, <1>4, <1>5 DEF TypeOK

LEMMA RestTypes == TypeOK /\ (DetachWrite \/ DetachClose \/ TmuxStep) => TypeOK'
<1>. SUFFICES ASSUME TypeOK, DetachWrite \/ DetachClose \/ TmuxStep PROVE TypeOK' OBVIOUS
<1>1. CASE DetachWrite \/ DetachClose
  <2>1. /\ dpc' \in {"close", "finished"} /\ fds' \subseteq fds /\ UNCHANGED detachKeeps
    BY <1>1 DEF DetachWrite, DetachClose
  <2>. USE <2>1 DEF detachKeeps, closeKeeps
  <2>2. TypeConnect' BY DEF TypeOK, TypeConnect
  <2>3. TypeReader' BY TypeFrame
  <2>4. TypeClose' BY DEF TypeOK, TypeClose, reapVars
  <2>5. TypeTmux' BY TypeFrame DEF tmuxVars
  <2>. QED BY <2>2, <2>3, <2>4, <2>5 DEF TypeOK
<1>2. CASE TmuxStep
  <2>. USE <1>2 DEF TmuxStep, TmuxSaysExit, TmuxComplains, TmuxHangsUp, TmuxEnds, TmuxIsKilled
  <2>1. UNCHANGED tmuxKeeps OBVIOUS
  <2>2. TypeTmux' BY DEF TypeOK, TypeTmux, tmuxKeeps
  <2>. QED BY <2>1, <2>2, TypeFrame DEF TypeOK, tmuxKeeps, history
<1>. QED BY <1>1, <1>2

LEMMA TypeStep == TypeOK /\ [Next]_vars => TypeOK'
<1>1. TypeOK /\ UNCHANGED vars => TypeOK'
  BY TypeFrame DEF TypeOK, vars, history
<1>. QED BY <1>1, ConnectTypes, ReaderTypes, CloseTypes, RestTypes DEF Next

(* Lifecycle's type invariant holds of every behavior.                     *)
THEOREM TypeCorrect == Spec => []TypeOK
BY TypeInit, TypeStep, PTL DEF Spec

-----------------------------------------------------------------------------
(* The invariant *)

(* What no step of an action touches stays true.                           *)
LEMMA Frame ==
  ASSUME IInv
  PROVE  /\ UNCHANGED <<conn, rpc, proc, waited, dpc, fds, pc>> => ConnectInv'
         /\ UNCHANGED <<done, rpc, exitErr, announced>> => EndInv' /\ WaitAgreesWithExited'
         /\ UNCHANGED <<once, done, pc, result, killed>> => OnceInv' /\ ReturnMeansOver'
         /\ UNCHANGED <<waited, proc, fds, pc, result>> => ReapInv'
         /\ UNCHANGED <<waited, waitErr, proc, status, killed, killSent, outstayed>> => WaitInv'
         /\ UNCHANGED <<waited, waitErr, pc, result, ran>> => TellInv'
         /\ UNCHANGED <<conn, fds, result>> => FailedConnectLeaksNothing'
<1>. USE DEF IInv
<1>1. UNCHANGED <<conn, rpc, proc, waited, dpc, fds, pc>> => ConnectInv' BY DEF ConnectInv
<1>2. UNCHANGED <<done, rpc, exitErr, announced>> => EndInv' /\ WaitAgreesWithExited'
  BY DEF EndInv, WaitAgreesWithExited
<1>3. UNCHANGED <<once, done, pc, result, killed>> => OnceInv' /\ ReturnMeansOver'
  BY DEF OnceInv, Over, ReturnMeansOver
<1>4. UNCHANGED <<waited, proc, fds, pc, result>> => ReapInv' BY DEF ReapInv
<1>5. UNCHANGED <<waited, waitErr, proc, status, killed, killSent, outstayed>> => WaitInv'
  BY DEF WaitInv
<1>7. UNCHANGED <<waited, waitErr, pc, result, ran>> => TellInv' BY DEF TellInv
<1>6. UNCHANGED <<conn, fds, result>> => FailedConnectLeaksNothing'
  BY DEF FailedConnectLeaksNothing
<1>. QED BY <1>1, <1>2, <1>3, <1>4, <1>5, <1>6, <1>7

LEMMA InvInit == Init => IInv
<1>. SUFFICES ASSUME Init PROVE IInv OBVIOUS
<1>. USE DEF Init
<1>1. ConnectInv BY DEF ConnectInv, Closers
<1>2. EndInv /\ WaitAgreesWithExited
  <2>1. PICK zero \in ZeroValue :
          /\ rpc = IF zero THEN "ended" ELSE "none"
          /\ done = zero /\ announced = exitErr
    OBVIOUS
  <2>2. zero \in BOOLEAN BY CallersOK
  <2>3. zero = TRUE => done = TRUE /\ rpc = "ended" BY <2>1
  <2>4. zero = FALSE => done = FALSE /\ rpc = "none" BY <2>1
  <2>5. announced = exitErr BY <2>1
  <2>. HIDE DEF Init
  <2>. QED BY <2>2, <2>3, <2>4, <2>5 DEF EndInv, WaitAgreesWithExited
<1>3. OnceInv /\ ReturnMeansOver BY DEF OnceInv, ReturnMeansOver
<1>4. ReapInv BY DEF ReapInv, Closers
<1>5. WaitInv /\ TellInv BY DEF WaitInv, TellInv
<1>6. FailedConnectLeaksNothing BY DEF FailedConnectLeaksNothing
<1>. QED BY <1>1, <1>2, <1>3, <1>4, <1>5, <1>6 DEF IInv

LEMMA ConnectKeeps ==
  ASSUME TypeOK, IInv, ConnectStep
  PROVE  IInv'
<1>. USE DEF connectKeeps, endVars, closeVars, reapVars, history
<1>1. CASE ConnectCheck \/ ConnectStdin \/ ConnectStdout
  <2>. USE <1>1 DEF ConnectCheck, ConnectStdin, ConnectStdout
  <2>1. ConnectInv' BY DEF IInv, ConnectInv
  <2>2. ReapInv' BY DEF IInv, ConnectInv, ReapInv
  <2>3. FailedConnectLeaksNothing' BY DEF IInv, ConnectInv, FailedConnectLeaksNothing
  <2>. QED BY <2>1, <2>2, <2>3, Frame DEF IInv
<1>2. CASE ConnectStart
  <2>. USE <1>2 DEF ConnectStart
  <2>1. ConnectInv' BY DEF IInv, ConnectInv
  <2>2. EndInv' BY DEF IInv, ConnectInv, EndInv
  <2>3. ReapInv' BY DEF IInv, ConnectInv, ReapInv
  <2>4. WaitInv' BY DEF IInv, ConnectInv, WaitInv
  <2>5. FailedConnectLeaksNothing' BY DEF FailedConnectLeaksNothing
  <2>. QED BY <2>1, <2>2, <2>3, <2>4, <2>5, Frame DEF IInv, WaitAgreesWithExited
<1>3. CASE ConnectProbe
  <2>. USE <1>3 DEF ConnectProbe
  <2>1. ConnectInv' BY DEF IInv, ConnectInv
  <2>2. FailedConnectLeaksNothing' BY DEF FailedConnectLeaksNothing
  <2>. QED BY <2>1, <2>2, Frame DEF IInv
<1>4. CASE ConnectFails
  <2>. USE <1>4 DEF ConnectFails
  <2>1. ConnectInv' BY DEF IInv, ConnectInv
  <2>2. FailedConnectLeaksNothing' BY DEF IInv, ReapInv, FailedConnectLeaksNothing
  <2>. QED BY <2>1, <2>2, Frame DEF IInv
<1>. QED BY <1>1, <1>2, <1>3, <1>4 DEF ConnectStep

(* reap: whoever waits first, the process has ended, its pipes close, and  *)
(* how it ended is judged once.                                            *)
LEMMA ReapIs ==
  ASSUME TypeOK, IInv, Reap \/ Reaped,
         UNCHANGED <<proc, status, killed, killSent, outstayed>>
  PROVE  /\ waited' /\ proc # "running" /\ fds' = {} /\ WaitInv'
         /\ waited => waitErr' = waitErr
<1>1. CASE Reap
  <2>. USE <1>1 DEF Reap
  <2>1. /\ ~waited /\ waited' /\ proc # "running" /\ fds' = {}
        /\ waitErr' = IF proc = "none" \/ cleanExit THEN "nil" ELSE "status"
    OBVIOUS
  <2>2. proc \in {"none", "ended"} /\ status \in {"none", "zero", "code", "crash", "killed"}
    BY <2>1 DEF TypeOK, TypeTmux
  <2>3. WaitInv BY DEF IInv
  <2>. HIDE <1>1
  <2>4. WaitInv' BY <2>1, <2>2, <2>3 DEF WaitInv, cleanExit
  <2>. QED BY <2>1, <2>4
<1>2. CASE Reaped
  BY <1>2 DEF Reaped, reapVars, IInv, ReapInv, WaitInv
<1>. QED BY <1>1, <1>2

(* A wait that no call of Close makes changes nothing any was told.        *)
LEMMA TellFrame ==
  ASSUME IInv, UNCHANGED <<pc, result, ran>>, waited', waited => waitErr' = waitErr
  PROVE  TellInv'
BY DEF IInv, WaitInv, TellInv

LEMMA ReaderKeeps ==
  ASSUME TypeOK, IInv, ReaderStep
  PROVE  IInv'
<1>. USE DEF readerKeeps, closeVars, tmuxVars
<1>0. rpc # "none" BY DEF ReaderStep, ReadExit, ReadEOF, FinishLocked, FinishCloseStdin,
                          FinishDone, FinishReap
<1>1. CASE ReadExit \/ ReadEOF
  <2>. USE <1>1 DEF ReadExit, ReadEOF, reapVars, endVars
  <2>1. ConnectInv' BY DEF IInv, ConnectInv
  <2>2. EndInv' /\ WaitAgreesWithExited'
    <3>1. rpc' = "finish" /\ done' = done OBVIOUS
    <3>2. ~done BY DEF IInv, EndInv
    <3>. HIDE <1>1
    <3>. QED BY <3>1, <3>2 DEF EndInv, WaitAgreesWithExited
  <2>. QED BY <2>1, <2>2, Frame DEF IInv
<1>2. CASE FinishLocked
  <2>. USE <1>2 DEF FinishLocked, reapVars
  <2>1. ConnectInv' BY DEF IInv, ConnectInv
  <2>2. EndInv' /\ WaitAgreesWithExited'
    <3>1. rpc' = "stdin" /\ done' = done /\ announced' = exitErr' OBVIOUS
    <3>2. ~done BY DEF IInv, EndInv
    <3>. HIDE <1>2
    <3>. QED BY <3>1, <3>2 DEF EndInv, WaitAgreesWithExited
  <2>. QED BY <2>1, <2>2, Frame DEF IInv
<1>3. CASE FinishCloseStdin
  <2>. USE <1>3 DEF FinishCloseStdin, reapVars, endVars
  <2>1. ConnectInv' BY <1>0 DEF IInv, ConnectInv
  <2>2. EndInv' BY DEF IInv, EndInv
  <2>3. ReapInv' BY DEF IInv, ReapInv
  <2>4. FailedConnectLeaksNothing' BY DEF IInv, FailedConnectLeaksNothing
  <2>. QED BY <2>1, <2>2, <2>3, <2>4, Frame DEF IInv, WaitAgreesWithExited
<1>4. CASE FinishDone
  <2>. USE <1>4 DEF FinishDone, reapVars
  <2>1. ConnectInv' BY DEF IInv, ConnectInv
  <2>2. EndInv' /\ WaitAgreesWithExited' BY DEF IInv, EndInv, WaitAgreesWithExited
  <2>3. OnceInv' /\ ReturnMeansOver' BY DEF IInv, OnceInv, Over, ReturnMeansOver
  <2>. QED BY <2>1, <2>2, <2>3, Frame DEF IInv
<1>5. CASE FinishReap
  <2>. USE <1>5 DEF FinishReap, endVars
  <2>0. /\ waited' /\ proc # "running" /\ fds' = {} /\ WaitInv'
        /\ waited => waitErr' = waitErr
    BY ReapIs
  <2>5. TellInv' BY <2>0, TellFrame
  <2>1. ConnectInv' BY <1>0, <2>0 DEF IInv, ConnectInv
  <2>2. EndInv' BY DEF IInv, EndInv
  <2>3. ReapInv' BY <2>0 DEF ReapInv
  <2>4. FailedConnectLeaksNothing' BY <2>0 DEF FailedConnectLeaksNothing
  <2>. QED BY <2>0, <2>1, <2>2, <2>3, <2>4, <2>5, Frame DEF IInv, WaitAgreesWithExited
<1>. QED BY <1>1, <1>2, <1>3, <1>4, <1>5 DEF ReaderStep

(* A call of Close that moves on and does not return: what it may touch.   *)
LEMMA CloserMoves ==
  ASSUME TypeOK, IInv, NEW k \in Closers,
         NEW v \in {"once", "check", "wait", "kill", "second", "reap"},
         pc' = [pc EXCEPT ![k] = v], pc[k] # "returned", v = "reap" => done, v = "kill" => killed',
         pc[k] = "idle" => v = "once" /\ MayClose(k) /\ UNCHANGED once,
         pc[k] # "idle" => v # "once",
         UNCHANGED once \/ once' = "running", fds' \subseteq fds,
         \/ UNCHANGED <<killed, killSent, outstayed>>
         \/ killed' /\ UNCHANGED killSent /\ outstayed' = (outstayed \/ ~waited)
         \/ killed /\ UNCHANGED <<killed, outstayed>>,
         UNCHANGED ran \/ (ran' = ran \union {k} /\ v = "check"),
         UNCHANGED <<conn, rpc, proc, status, waited, waitErr, done, exitErr, announced, result>>
  PROVE  IInv'
<1>0. \A j \in Closers : pc'[j] = IF j = k THEN v ELSE pc[j]
  BY DEF TypeOK, TypeClose
<1>1. ConnectInv'
  <2>1. ~(conn \in {"check", "stdin", "stdout", "start"})
    BY CallersOK DEF IInv, ConnectInv, MayClose, Closers
  <2>2. pc'[Opener] # "idle" => conn \in {"closing", "failed"}
    BY <1>0 DEF IInv, ConnectInv, MayClose, Closers
  <2>3. ASSUME NEW j \in Closer, pc'[j] # "idle" PROVE conn = "ok"
    <3>1. CASE j = k /\ pc[k] = "idle" BY <3>1, CallersOK DEF MayClose
    <3>2. CASE j # k \/ pc[k] # "idle" BY <1>0, <2>3, <3>2 DEF IInv, ConnectInv, Closers
    <3>. QED BY <3>1, <3>2
  <2>. QED BY <2>1, <2>2, <2>3 DEF ConnectInv
<1>2. OnceInv'
  <2>1. once' # "fresh" => \E j \in Closers : pc'[j] \notin {"idle", "once"}
    <3>1. CASE UNCHANGED once
      <4>1. ASSUME once # "fresh" PROVE \E j \in Closers : pc'[j] \notin {"idle", "once"}
        <5>1. PICK j \in Closers : pc[j] \notin {"idle", "once"}
          BY <4>1 DEF IInv, OnceInv
        <5>2. pc'[j] \notin {"idle", "once"} BY <1>0, <5>1
        <5>. QED BY <5>2
      <4>. QED BY <3>1, <4>1
    <3>2. CASE once' = "running" /\ pc[k] # "idle" BY <1>0, <3>2
    <3>. QED BY <3>1, <3>2
  <2>. QED BY <1>0, <2>1 DEF IInv, OnceInv, Over
<1>3. ReturnMeansOver' BY <1>0 DEF IInv, ReturnMeansOver
<1>4. ReapInv' BY <1>0 DEF IInv, ReapInv, Closers
<1>5. WaitInv'
  <2>1. WaitInv BY DEF IInv
  <2>2. CASE UNCHANGED <<killed, killSent, outstayed>> BY <2>1, <2>2 DEF WaitInv
  <2>3. CASE killed' /\ UNCHANGED killSent /\ outstayed' = (outstayed \/ ~waited)
    <3>1. (outstayed => outstayed') /\ (~waited => outstayed') BY ONLY <2>3
    <3>. QED BY ZenonT(30), <2>1, <2>3, <3>1 DEF WaitInv
  <2>4. CASE killed /\ UNCHANGED <<killed, outstayed>> BY <2>1, <2>4 DEF WaitInv
  <2>. QED BY <2>2, <2>3, <2>4
<1>7. TellInv'
  <2>1. result[k] = "none" BY DEF IInv, OnceInv, TypeOK, TypeClose
  <2>2. ASSUME NEW j \in ran' PROVE pc'[j] \notin {"idle", "once"}
    <3>1. j \in ran \/ (j = k /\ v = "check") OBVIOUS
    <3>2. j \in Closers BY <3>1 DEF TypeOK, TypeClose
    <3>. QED BY <1>0, <3>1, <3>2 DEF IInv, TellInv
  <2>3. ASSUME NEW j \in ran', result[j] = "nil" PROVE waited /\ waitErr = "nil"
    BY <2>1, <2>3 DEF IInv, TellInv
  <2>. QED BY <2>2, <2>3 DEF IInv, TellInv
<1>6. FailedConnectLeaksNothing' BY DEF IInv, FailedConnectLeaksNothing
<1>. QED BY <1>1, <1>2, <1>3, <1>4, <1>5, <1>6, <1>7, Frame DEF IInv

(* A call of Close that returns: why, and with what.                       *)
LEMMA CloserReturns ==
  ASSUME TypeOK, IInv, NEW k \in Closers, NEW r, Return(k, r),
         pc[k] \notin {"idle", "returned"},
         UNCHANGED <<conn, rpc, proc, status, killed, killSent, ran, outstayed, done, exitErr,
                     announced>>,
         \/ r = "unkilled" /\ once' = "over" /\ UNCHANGED <<fds, waited, waitErr>>
         \/ done /\ once' = "over" /\ (Reap \/ Reaped) /\ r = waitErr'
         \/ pc[k] = "once" /\ once = "over" /\ r = "nil"
              /\ UNCHANGED <<once, fds, waited, waitErr>>
  PROVE  IInv'
<1>. USE DEF Return
<1>0. /\ \A j \in Closers : pc'[j] = IF j = k THEN "returned" ELSE pc[j]
      /\ \A j \in Closers : result'[j] = IF j = k THEN r ELSE result[j]
  BY DEF TypeOK, TypeClose
<1>1. /\ waited' => proc # "running" /\ fds' = {}
      /\ waited => waited' /\ waitErr' = waitErr
      /\ fds' = fds \/ fds' = {}
  BY ReapIs DEF IInv, ReapInv, Reaped, reapVars
<1>10. WaitInv'
  <2>1. CASE Reap \/ Reaped BY <2>1, ReapIs
  <2>2. CASE UNCHANGED <<waited, waitErr>> BY <2>2, Frame
  <2>. QED BY <2>1, <2>2
<1>11. TellInv'
  <2>1. \A j \in ran : j \in Closers /\ pc[j] \notin {"idle", "once"}
    BY DEF IInv, TellInv, TypeOK, TypeClose
  <2>2. \A j \in ran : pc'[j] \notin {"idle", "once"} BY <1>0, <2>1
  <2>3. waitErr = "status" => waited BY DEF IInv, WaitInv
  <2>4. r = "status" => waitErr' = "status" OBVIOUS
  <2>5. k \in ran /\ r = "nil" => waited' /\ waitErr' = "nil"
    <3>1. CASE (Reap \/ Reaped) /\ r = waitErr' BY <3>1, ReapIs
    <3>2. CASE r = "unkilled" BY <3>2
    <3>3. CASE pc[k] = "once" BY <2>1, <3>3
    <3>. QED BY <3>1, <3>2, <3>3
  <2>6. \A j \in Closers : result'[j] = "status" => waitErr' = "status"
    BY <1>0, <1>1, <2>3, <2>4 DEF IInv, TellInv
  <2>7. \A j \in ran : result'[j] = "nil" => waited' /\ waitErr' = "nil"
    BY <1>0, <1>1, <2>1, <2>5 DEF IInv, TellInv
  <2>. QED BY <2>2, <2>6, <2>7 DEF TellInv
<1>2. result[k] = "none" BY DEF IInv, OnceInv
<1>3. \A j \in Closers : result[j] = "unkilled" => result'[j] = "unkilled"
  BY <1>0, <1>2
<1>4. done \/ \E j \in Closers : result'[j] = "unkilled"
  BY <1>0, <1>3 DEF IInv, OnceInv, Over
<1>5. ConnectInv'
  <2>1. ~(conn \in {"check", "stdin", "stdout", "start"})
    BY CallersOK DEF IInv, ConnectInv, Closers
  <2>. QED BY <1>0, <2>1 DEF IInv, ConnectInv, Closers
<1>6. OnceInv'
  <2>1. \E j \in Closers : pc'[j] \notin {"idle", "once"} BY <1>0
  <2>. QED BY <1>0, <1>4, <2>1 DEF IInv, OnceInv, Over
<1>7. ReturnMeansOver' BY <1>4 DEF ReturnMeansOver
<1>8. ReapInv'
  <2>1. ASSUME k = Opener PROVE waited' \/ result'[Opener] = "unkilled"
    <3>1. ASSUME pc[Opener] = "once", once = "over" PROVE FALSE
      <4>1. PICK j \in Closers : pc[j] \notin {"idle", "once"}
        BY <3>1 DEF IInv, OnceInv
      <4>2. j \in Closer /\ conn # "ok"
        BY <2>1, <3>1, <4>1 DEF Closers, IInv, ConnectInv
      <4>. QED BY <4>1, <4>2 DEF IInv, ConnectInv
    <3>2. (Reap \/ Reaped) => waited' BY ReapIs
    <3>. QED BY <1>0, <2>1, <3>1, <3>2
  <2>2. Opener \in Closers BY DEF Closers
  <2>3. pc'[Opener] = "returned" => waited' \/ result'[Opener] = "unkilled"
    BY <1>0, <1>1, <2>1, <2>2 DEF IInv, ReapInv
  <2>. QED BY <1>1, <2>3 DEF ReapInv
<1>9. FailedConnectLeaksNothing'
  <2>1. Opener \in Closers BY DEF Closers
  <2>. QED BY <1>1, <1>3, <2>1 DEF IInv, FailedConnectLeaksNothing
<1>. QED BY <1>5, <1>6, <1>7, <1>8, <1>9, <1>10, <1>11, Frame DEF IInv, EndInv, WaitAgreesWithExited

LEMMA CloseKeeps ==
  ASSUME TypeOK, IInv, NEW k \in Closers, CloseCall(k) \/ CloseStep(k) \/ CloseGivesUp(k)
  PROVE  IInv'
<1>. USE DEF closeKeeps, endVars, reapVars
<1>1. CASE CloseCall(k)
  <2>. USE <1>1 DEF CloseCall
  <2>1. /\ pc' = [pc EXCEPT ![k] = "once"] /\ pc[k] = "idle" /\ MayClose(k)
        /\ fds' \subseteq fds /\ UNCHANGED <<once, killed, killSent, ran, outstayed>>
    OBVIOUS
  <2>2. UNCHANGED <<conn, rpc, proc, status, waited, waitErr, done, exitErr, announced, result>>
    OBVIOUS
  <2>. HIDE <1>1
  <2>. QED BY <2>1, <2>2, CloserMoves
<1>2. CASE CloseMark(k)
  <2>. USE <1>2 DEF CloseMark
  <2>1. /\ pc' = [pc EXCEPT ![k] = "check"] /\ pc[k] = "once" /\ once' = "running"
        /\ fds' \subseteq fds /\ ran' = ran \union {k} /\ UNCHANGED <<killed, killSent, outstayed>>
    OBVIOUS
  <2>2. UNCHANGED <<conn, rpc, proc, status, waited, waitErr, done, exitErr, announced, result>>
    OBVIOUS
  <2>. HIDE <1>2
  <2>. QED BY <2>1, <2>2, CloserMoves
<1>3. CASE CloseAgain(k) BY <1>3, CloserReturns DEF CloseAgain
<1>4. CASE CloseCheck(k)
  <2>. USE <1>4 DEF CloseCheck
  <2>1. /\ \/ pc' = [pc EXCEPT ![k] = "reap"] /\ done
           \/ pc' = [pc EXCEPT ![k] = "wait"]
        /\ pc[k] = "check" /\ fds' \subseteq fds /\ UNCHANGED <<once, killed, killSent, ran, outstayed>>
    OBVIOUS
  <2>2. UNCHANGED <<conn, rpc, proc, status, waited, waitErr, done, exitErr, announced, result>>
    OBVIOUS
  <2>. HIDE <1>4
  <2>. QED BY <2>1, <2>2, CloserMoves
<1>5. CASE CloseSeesDone(k)
  <2>. USE <1>5 DEF CloseSeesDone
  <2>1. /\ pc' = [pc EXCEPT ![k] = "reap"] /\ done /\ pc[k] \in {"wait", "second"}
        /\ fds' \subseteq fds /\ UNCHANGED <<once, killed, killSent, ran, outstayed>>
    OBVIOUS
  <2>2. UNCHANGED <<conn, rpc, proc, status, waited, waitErr, done, exitErr, announced, result>>
    OBVIOUS
  <2>. HIDE <1>5
  <2>. QED BY <2>1, <2>2, CloserMoves
<1>6. CASE CloseTimeout(k)
  <2>. USE <1>6 DEF CloseTimeout
  <2>1. /\ pc' = [pc EXCEPT ![k] = "kill"] /\ pc[k] = "wait" /\ fds' \subseteq fds
        /\ killed' /\ outstayed' = (outstayed \/ ~waited) /\ UNCHANGED <<once, killSent, ran>>
    OBVIOUS
  <2>2. UNCHANGED <<conn, rpc, proc, status, waited, waitErr, done, exitErr, announced, result>>
    OBVIOUS
  <2>. HIDE <1>6
  <2>. QED BY <2>1, <2>2, CloserMoves
<1>7. CASE CloseKill(k)
  <2>. USE <1>7 DEF CloseKill
  <2>1. /\ pc' = [pc EXCEPT ![k] = "second"] /\ pc[k] = "kill"
        /\ fds' \subseteq fds /\ UNCHANGED <<once, killed, ran, outstayed>>
    OBVIOUS
  <2>2. UNCHANGED <<conn, rpc, proc, status, waited, waitErr, done, exitErr, announced, result>>
    OBVIOUS
  <2>3. killed BY <2>1 DEF IInv, OnceInv
  <2>. HIDE <1>7
  <2>. QED BY <2>1, <2>2, <2>3, CloserMoves
<1>8. CASE CloseGivesUp(k) BY <1>8, CloserReturns DEF CloseGivesUp
<1>9. CASE CloseReap(k)
  <2>1. done BY <1>9 DEF CloseReap, IInv, OnceInv
  <2>. QED BY <1>9, <2>1, CloserReturns DEF CloseReap
<1>. QED BY <1>1, <1>2, <1>3, <1>4, <1>5, <1>6, <1>7, <1>8, <1>9 DEF CloseStep

LEMMA RestKeeps ==
  ASSUME TypeOK, IInv, DetachWrite \/ DetachClose \/ TmuxStep
  PROVE  IInv'
<1>1. CASE DetachWrite \/ DetachClose
  <2>0. /\ fds' \subseteq fds /\ dpc \in {"lock", "close"}
        /\ UNCHANGED <<conn, rpc, proc, status, waited, waitErr, done, exitErr, announced,
                       once, pc, result, killed, killSent, ran, outstayed>>
    BY <1>1 DEF DetachWrite, DetachClose, detachKeeps, closeKeeps, endVars, reapVars
  <2>1. ConnectInv' BY <2>0 DEF IInv, ConnectInv
  <2>2. ReapInv' /\ FailedConnectLeaksNothing'
    BY <2>0 DEF IInv, ReapInv, FailedConnectLeaksNothing
  <2>. QED BY <2>0, <2>1, <2>2, Frame DEF IInv
<1>2. CASE TmuxStep
  <2>0. /\ proc = "running" /\ proc' \in {"running", "ended"}
        /\ \/ UNCHANGED <<proc, status>>
           \/ proc' = "ended" /\ status' \in {"zero", "code", "crash"}
           \/ proc' = "ended" /\ status' = "killed" /\ killSent
        /\ UNCHANGED <<conn, rpc, fds, waited, waitErr, done, exitErr, announced,
                       once, pc, result, killed, killSent, ran, outstayed>>
    BY <1>2 DEF TmuxStep, TmuxSaysExit, TmuxComplains, TmuxHangsUp, TmuxEnds, TmuxIsKilled,
                tmuxKeeps, endVars, closeVars, reapVars, history
  <2>1. ConnectInv' BY <2>0 DEF IInv, ConnectInv
  <2>2. ReapInv' /\ WaitInv' BY <2>0 DEF IInv, ReapInv, WaitInv
  <2>. QED BY <2>0, <2>1, <2>2, Frame DEF IInv
<1>. QED BY <1>1, <1>2

LEMMA InvStep == TypeOK /\ IInv /\ [Next]_vars => IInv'
<1>1. ASSUME IInv, UNCHANGED vars PROVE IInv'
  BY <1>1, Frame DEF vars, endVars, closeVars, reapVars, tmuxVars, history, IInv
<1>. QED BY <1>1, ConnectKeeps, ReaderKeeps, CloseKeeps, RestKeeps DEF Next

-----------------------------------------------------------------------------
(* Theorems *)

(* The inductive invariant holds of every behavior.                        *)
THEOREM InvCorrect == Spec => []IInv
BY TypeInit, TypeStep, InvInit, InvStep, PTL DEF Spec

(* Wait, and Err, report the error of the Exited event, however the reader *)
(* ended and whoever calls Close, and whenever they are asked.             *)
THEOREM WaitAgrees == Spec => []WaitAgreesWithExited
<1>1. IInv => WaitAgreesWithExited BY DEF IInv
<1>. QED BY <1>1, InvCorrect, PTL

(* Whoever waits for tmux, the reader or a Close: the call of Close that   *)
(* closes reports no kill of its own as a failure of tmux, and nil only of *)
(* an end it may answer for, or of a crash it could not tell from its kill.*)
THEOREM CloseTells == Spec => []CloseTellsTheEnd
<1>1. IInv => CloseTellsTheEnd BY DEF IInv, WaitInv, TellInv, CloseTellsTheEnd
<1>. QED BY <1>1, InvCorrect, PTL

(* Of any number of callers of Close none returns before the connection is *)
(* over, unless the first gave up on a tmux that would not die.            *)
THEOREM ReturnOver == Spec => []ReturnMeansOver
<1>1. IInv => ReturnMeansOver BY DEF IInv
<1>. QED BY <1>1, InvCorrect, PTL

(* At whichever step Connect fails, it leaves no end of a pipe open.       *)
THEOREM NoLeak == Spec => []FailedConnectLeaksNothing
<1>1. IInv => FailedConnectLeaksNothing BY DEF IInv
<1>. QED BY <1>1, InvCorrect, PTL

(* Once the connection is over nothing rewrites why; Close only adds that  *)
(* it was called.                                                          *)
LEMMA EndIsFixed ==
  ASSUME IInv, done, [Next]_vars
  PROVE  UNCHANGED <<exitErr, exitMsg>> /\ userClose' \in {userClose, TRUE}
<1>1. rpc \notin {"read", "finish"} BY DEF IInv, EndInv
<1>2. CASE ConnectStep
  BY <1>2 DEF ConnectStep, ConnectCheck, ConnectStdin, ConnectStdout, ConnectStart,
              ConnectProbe, ConnectFails, connectKeeps, endVars
<1>3. CASE ReaderStep
  BY <1>1, <1>3 DEF ReaderStep, ReadExit, ReadEOF, FinishLocked, FinishCloseStdin,
                    FinishDone, FinishReap, endVars
<1>4. ASSUME NEW k \in Closers, CloseCall(k) \/ CloseStep(k) \/ CloseGivesUp(k)
      PROVE  UNCHANGED <<exitErr, exitMsg>> /\ userClose' \in {userClose, TRUE}
  BY <1>4 DEF CloseStep, CloseCall, CloseMark, CloseAgain, CloseCheck, CloseSeesDone,
              CloseTimeout, CloseKill, CloseGivesUp, CloseReap, endVars
<1>5. CASE DetachWrite \/ DetachClose \/ TmuxStep
  BY <1>5 DEF DetachWrite, DetachClose, detachKeeps, TmuxStep, TmuxSaysExit, TmuxComplains,
              TmuxHangsUp, TmuxEnds, TmuxIsKilled, tmuxKeeps, endVars
<1>6. CASE UNCHANGED vars BY <1>6 DEF vars, endVars
<1>. QED BY <1>2, <1>3, <1>4, <1>5, <1>6 DEF Next

(* A Close that comes after the end changes what a failed call reports     *)
(* only where there was nothing to report.                                 *)
THEOREM TerminalErrCorrect == Spec => TerminalErrSettles
<1>1. TypeOK /\ IInv /\ [Next]_vars =>
        (done /\ TerminalErr # "ErrServerExited" => TerminalErr' = TerminalErr)
  <2>. SUFFICES ASSUME TypeOK, IInv, [Next]_vars, done, TerminalErr # "ErrServerExited"
                PROVE  TerminalErr' = TerminalErr
    OBVIOUS
  <2>1. UNCHANGED <<exitErr, exitMsg>> /\ userClose' \in {userClose, TRUE} BY EndIsFixed
  <2>2. userClose \in BOOLEAN BY DEF TypeOK, TypeReader
  <2>3. exitErr = "nil" /\ exitMsg = "" => userClose BY DEF TerminalErr
  <2>4. CASE exitErr = "nil" /\ exitMsg = ""
    <3>1. userClose = TRUE /\ userClose' = TRUE BY <2>1, <2>2, <2>3, <2>4
    <3>. QED BY <2>1, <3>1 DEF TerminalErr
  <2>5. CASE exitErr # "nil" \/ exitMsg # "" BY <2>1, <2>5 DEF TerminalErr
  <2>. QED BY <2>4, <2>5
<1>. QED BY <1>1, TypeCorrect, InvCorrect, PTL DEF Spec, TerminalErrSettles
=============================================================================
