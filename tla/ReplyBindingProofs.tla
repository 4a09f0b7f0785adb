------------------------- MODULE ReplyBindingProofs -------------------------
(***************************************************************************)
(* Proofs, for every value of the constants, that the model of             *)
(* ReplyBinding keeps its types; that the inductive invariant of           *)
(* ReplyBindingInv is one, from which the safety properties follow; and    *)
(* that it implements CommandService: what a caller of Do sees is a server *)
(* that takes commands in one order and gives each one verdict, its own.   *)
(***************************************************************************)
EXTENDS ReplyBindingInv, SequenceTheorems, TLAPS

(* What no step of an action touches keeps its type.                       *)
LEMMA TypeFrame ==
  ASSUME TypeOK
  PROVE  /\ UNCHANGED callVars => TypeCalls'
         /\ UNCHANGED pendingVars => TypePending'
         /\ UNCHANGED <<queue, current, bound>> => TypeTable'
         /\ UNCHANGED flagVars => TypeFlags'
         /\ UNCHANGED <<readerVars, closeVars>> => TypeThreads'
         /\ UNCHANGED <<pipeVars, wire>> => TypePipes'
         /\ UNCHANGED <<tm, up, cut, hasStartup, hasFlags, spoken, nextNumber, notes,
                        unsolicited, saidExit>> => TypeTmux'
         /\ UNCHANGED answerVars => TypeAnswers'
<1>1. UNCHANGED callVars => TypeCalls' BY DEF TypeOK, TypeCalls, callVars
<1>2. UNCHANGED pendingVars => TypePending' BY DEF TypeOK, TypePending, pendingVars
<1>3. UNCHANGED <<queue, current, bound>> => TypeTable' BY DEF TypeOK, TypeTable
<1>4. UNCHANGED flagVars => TypeFlags' BY DEF TypeOK, TypeFlags, flagVars
<1>5. UNCHANGED <<readerVars, closeVars>> => TypeThreads'
  BY DEF TypeOK, TypeThreads, readerVars, closeVars
<1>6. UNCHANGED <<pipeVars, wire>> => TypePipes' BY DEF TypeOK, TypePipes, pipeVars
<1>7. UNCHANGED <<tm, up, cut, hasStartup, hasFlags, spoken, nextNumber, notes,
                  unsolicited, saidExit>> => TypeTmux'
  BY DEF TypeOK, TypeTmux
<1>8. UNCHANGED answerVars => TypeAnswers' BY DEF TypeOK, TypeAnswers, answerVars
<1>. QED BY <1>1, <1>2, <1>3, <1>4, <1>5, <1>6, <1>7, <1>8

LEMMA TypeInit == Init => TypeOK
<1>. SUFFICES ASSUME Init PROVE TypeOK OBVIOUS
<1>1. TypeCalls BY DEF Init, TypeCalls
<1>2. TypePending BY DEF Init, TypePending, Outcomes
<1>3. TypeTable BY DEF Init, TypeTable, NoBlock, Source
<1>4. TypeFlags BY DEF Init, TypeFlags
<1>5. TypeThreads BY DEF Init, TypeThreads
<1>6. TypePipes
  <2>1. \A S : <<>> \in Seq(S) OBVIOUS
  <2>. QED BY <2>1 DEF Init, TypePipes
<1>7. TypeTmux
  <2>1. hasStartup \in BOOLEAN /\ hasFlags \in BOOLEAN BY ConstantsOK DEF Init
  <2>2. tm \in TmType BY DEF Init, TmuxIdle, TmType, BlkType, Source
  <2>. QED BY <2>1, <2>2 DEF Init, TypeTmux
<1>8. TypeAnswers BY DEF Init, TypeAnswers
<1>. QED BY <1>1, <1>2, <1>3, <1>4, <1>5, <1>6, <1>7, <1>8 DEF TypeOK

(* unqueue leaves a queue a queue.                                         *)
LEMMA WithoutType ==
  ASSUME NEW q \in Seq(Cmd), NEW i \in 1..Len(q)
  PROVE  Without(q, i) \in Seq(Cmd) /\ Len(Without(q, i)) = Len(q) - 1
<1>1. Len(q) - 1 \in Nat OBVIOUS
<1>2. \A j \in 1..(Len(q) - 1) : (IF j < i THEN q[j] ELSE q[j + 1]) \in Cmd
  BY <1>1
<1>. QED BY <1>1, <1>2 DEF Without

LEMMA TypeDo ==
  ASSUME TypeOK, NEW c \in Cmd, DoStep(c) \/ CtxEnds(c)
  PROVE  TypeOK'
<1>. USE TypeFrame DEF tableVars, tmuxVars
<1>1. CASE Call(c)
  <2>1. TypeCalls' BY <1>1 DEF TypeOK, TypeCalls, Call
  <2>. QED BY <1>1, <2>1 DEF TypeOK, Call
<1>2. CASE PassBarrier(c)
  <2>1. TypeCalls' BY <1>2 DEF TypeOK, TypeCalls, PassBarrier
  <2>. QED BY <1>2, <2>1 DEF TypeOK, PassBarrier
<1>3. CASE BarrierDone(c)
  <2>1. TypeCalls' BY <1>3 DEF TypeOK, TypeCalls, BarrierDone, Return
  <2>. QED BY <1>3, <2>1 DEF TypeOK, BarrierDone
<1>4. CASE CtxEnds(c)
  <2>1. TypeCalls' BY <1>4 DEF TypeOK, TypeCalls, CtxEnds, Return
  <2>. QED BY <1>4, <2>1 DEF TypeOK, CtxEnds
<1>5. CASE Enqueue(c)
  <2>1. TypeCalls' BY <1>5 DEF TypeOK, TypeCalls, Enqueue
  <2>2. TypeTable' BY <1>5 DEF TypeOK, TypeTable, Enqueue
  <2>. QED BY <1>5, <2>1, <2>2 DEF TypeOK, Enqueue
<1>6. CASE RefuseClosed(c)
  <2>1. TypeCalls' BY <1>6 DEF TypeOK, TypeCalls, RefuseClosed, Return
  <2>. QED BY <1>6, <2>1 DEF TypeOK, RefuseClosed
<1>7. CASE Write(c)
  <2>1. TypeCalls' BY <1>7 DEF TypeOK, TypeCalls, Write
  <2>2. TypePipes' BY <1>7 DEF TypeOK, TypePipes, Write
  <2>. QED BY <1>7, <2>1, <2>2 DEF TypeOK, Write
<1>8. CASE WriteFails(c)
  <2>1. TypeCalls' BY <1>8 DEF TypeOK, TypeCalls, WriteFails
  <2>. QED BY <1>8, <2>1 DEF TypeOK, WriteFails
<1>9. CASE Unqueue(c)
  <2>1. TypeCalls' BY <1>9 DEF TypeOK, TypeCalls, Unqueue, Return
  <2>2. TypeTable' BY <1>9, WithoutType DEF TypeOK, TypeTable, Unqueue
  <2>. QED BY <1>9, <2>1, <2>2 DEF TypeOK, Unqueue
<1>10. CASE Woken(c)
  <2>1. Outcome(c) \in {"protocol", "terminal", "control", "reply"} BY DEF Outcome
  <2>2. TypeCalls' BY <1>10, <2>1 DEF TypeOK, TypeCalls, Woken, Return
  <2>. QED BY <1>10, <2>2 DEF TypeOK, Woken
<1>11. CASE SeeDone(c)
  <2>1. TypeCalls' BY <1>11 DEF TypeOK, TypeCalls, SeeDone
  <2>. QED BY <1>11, <2>1 DEF TypeOK, SeeDone
<1>. QED BY <1>1, <1>2, <1>3, <1>4, <1>5, <1>6, <1>7, <1>8, <1>9, <1>10, <1>11
        DEF DoStep

LEMMA TypeReader ==
  ASSUME TypeOK, ReaderStep
  PROVE  TypeOK'
<1>. USE TypeFrame DEF tableVars, readKeeps
<1>0. ASSUME NEW l, Reading(l)
      PROVE  /\ l \in LineType /\ l.text \in TextType /\ l.number \in Nat
             /\ wire' \in Seq(LineType) /\ sawFirstLine' \in BOOLEAN
  <2>1. wire \in Seq(LineType) BY DEF TypeOK, TypePipes
  <2>2. l \in LineType /\ wire' \in Seq(LineType) /\ sawFirstLine' \in BOOLEAN
    BY <1>0, <2>1 DEF Reading
  <2>. QED BY <2>2 DEF LineType
<1>a. ASSUME NEW l, Reading(l), UNCHANGED pipeVars PROVE TypePipes'
  BY <1>0, <1>a DEF TypeOK, TypePipes, pipeVars
<1>b. ASSUME NEW l, Reading(l), UNCHANGED <<closed, done, stdinClosed>>,
             sawExit' \in BOOLEAN, startup' \in BOOLEAN
      PROVE  TypeFlags'
  BY <1>0, <1>b DEF TypeOK, TypeFlags
<1>c. ASSUME NEW l PROVE FirstLineReleases(l) \in BOOLEAN BY DEF FirstLineReleases
<1>d. startup \in BOOLEAN /\ sawExit \in BOOLEAN BY DEF TypeOK, TypeFlags
<1>1. ASSUME NEW l, ReadBody(l) PROVE TypeOK'
  <2>1. TypePending' BY <1>0, <1>1 DEF ReadBody, TypeOK, TypePending
  <2>2. TypeFlags' BY <1>1, <1>b, <1>c, <1>d DEF ReadBody
  <2>3. TypePipes' BY <1>1, <1>a DEF ReadBody
  <2>. QED BY <1>1, <2>1, <2>2, <2>3 DEF ReadBody, TypeOK, tmuxVars
<1>2. ASSUME NEW l, ReadFooter(l) PROVE TypeOK'
  <2>1. TypePending'
    BY <1>2 DEF ReadFooter, TypeOK, TypePending, Outcomes, closesBlock
  <2>2. TypeTable' BY <1>2 DEF ReadFooter, TypeOK, TypeTable, NoBlock, Source
  <2>3. TypeFlags' BY <1>2, <1>b, <1>d DEF ReadFooter
  <2>4. TypePipes' BY <1>2, <1>a DEF ReadFooter
  <2>. QED BY <1>2, <2>1, <2>2, <2>3, <2>4 DEF ReadFooter, TypeOK, tmuxVars
<1>3. ASSUME NEW l, ReadHeader(l) PROVE TypeOK'
  <2>0. l.number \in Nat /\ queue \in Seq(Cmd) /\ bound \in Nat
    BY <1>0, <1>3 DEF ReadHeader, TypeOK, TypeTable
  <2>1. CASE beginsOrphan(l)
    <3>0. /\ current' = [owner |-> Tmux, number |-> l.number, unnumbered |-> FALSE]
          /\ UNCHANGED <<queue, bound>>
      BY <1>3, <2>1 DEF ReadHeader
    <3>1. TypeTable' BY <2>0, <3>0 DEF TypeTable, Source
    <3>. QED BY <1>3, <1>a, <1>b, <1>d, <3>1 DEF ReadHeader, TypeOK, tmuxVars
  <2>2. CASE ~beginsOrphan(l)
    <3>1. queue # <<>> BY <2>2 DEF beginsOrphan
    <3>2. Head(queue) \in Source /\ Tail(queue) \in Seq(Cmd) BY <2>0, <3>1 DEF Source
    <3>0. /\ current' = [owner |-> Head(queue), number |-> l.number,
                          unnumbered |-> FALSE]
          /\ queue' = Tail(queue) /\ bound' = bound + 1
      BY <1>3, <2>2 DEF ReadHeader
    <3>3. TypeTable' BY <2>0, <3>0, <3>2 DEF TypeTable
    <3>. QED BY <1>3, <1>a, <1>b, <1>d, <3>3 DEF ReadHeader, TypeOK, tmuxVars
  <2>. QED BY <2>1, <2>2
<1>4. ASSUME NEW l, ReadRuinedHeader(l) PROVE TypeOK'
  <2>0. queue \in Seq(Cmd) /\ bound \in Nat BY DEF TypeOK, TypeTable
  <2>1. CASE failsHead
    <3>1. Head(queue) \in Cmd /\ Tail(queue) \in Seq(Cmd)
      BY <2>0, <2>1 DEF failsHead
    <3>2. TypePending'
      BY <1>4, <2>1, <3>1 DEF ReadRuinedHeader, failHead, TypeOK, TypePending, Outcomes
    <3>0. /\ current' = [owner |-> Tmux, number |-> 0, unnumbered |-> TRUE]
          /\ queue' = Tail(queue) /\ bound' = bound + 1
      BY <1>4, <2>1 DEF ReadRuinedHeader, failHead
    <3>3. TypeTable' BY <2>0, <3>0, <3>1 DEF TypeTable, Source
    <3>. QED BY <1>4, <1>a, <1>b, <1>d, <3>2, <3>3 DEF ReadRuinedHeader, TypeOK, tmuxVars
  <2>2. CASE ~failsHead
    <3>1. TypeTable' BY <1>4, <2>0, <2>2 DEF ReadRuinedHeader, TypeTable, Source
    <3>. QED BY <1>4, <1>a, <1>b, <1>d, <2>2, <3>1
            DEF ReadRuinedHeader, TypeOK, tmuxVars, pendingVars
  <2>. QED BY <2>1, <2>2
<1>5. ASSUME NEW l, ReadStrayFooter(l) PROVE TypeOK'
  <2>1. TypeFlags' BY <1>5, <1>b, <1>c, <1>d DEF ReadStrayFooter
  <2>. QED BY <1>5, <1>a, <2>1 DEF ReadStrayFooter, TypeOK, tmuxVars
<1>6. ASSUME NEW l, ReadAside(l) PROVE TypeOK'
  <2>1. TypeFlags' BY <1>6, <1>b, <1>c, <1>d DEF ReadAside
  <2>. QED BY <1>6, <1>a, <2>1 DEF ReadAside, TypeOK, tmuxVars
<1>7. ASSUME NEW l, ReadExit(l) PROVE TypeOK'
  <2>1. TypeFlags' BY <1>7, <1>b, <1>c, <1>d DEF ReadExit
  <2>2. TypeThreads' BY <1>7 DEF ReadExit, TypeOK, TypeThreads, closeVars
  <2>. QED BY <1>7, <1>a, <2>1, <2>2 DEF ReadExit, TypeOK, tmuxVars
<1>. USE DEF tmuxVars
<1>8. CASE ReadEOF
  <2>1. TypeThreads' BY <1>8 DEF ReadEOF, TypeOK, TypeThreads, closeVars
  <2>. QED BY <1>8, <2>1 DEF ReadEOF, TypeOK
<1>9. CASE FinishLocked
  <2>1. TypeThreads'
    BY <1>9 DEF FinishLocked, Outstanding, TypeOK, TypeThreads, TypeTable, Source, closeVars
  <2>2. TypeTable' BY <1>9 DEF FinishLocked, TypeOK, TypeTable, NoBlock, Source
  <2>3. TypeFlags' BY <1>9 DEF FinishLocked, TypeOK, TypeFlags
  <2>. QED BY <1>9, <2>1, <2>2, <2>3 DEF FinishLocked, TypeOK
<1>10. ASSUME NEW c \in Cmd, FinishWake(c) PROVE TypeOK'
  <2>1. TypePending' BY <1>10 DEF FinishWake, TypeOK, TypePending
  <2>2. TypeThreads' BY <1>10 DEF FinishWake, TypeOK, TypeThreads, closeVars
  <2>. QED BY <1>10, <2>1, <2>2 DEF FinishWake, TypeOK
<1>11. CASE FinishRelease
  <2>1. TypeThreads' BY <1>11 DEF FinishRelease, TypeOK, TypeThreads, closeVars
  <2>2. TypeFlags' BY <1>11 DEF FinishRelease, TypeOK, TypeFlags
  <2>. QED BY <1>11, <2>1, <2>2 DEF FinishRelease, TypeOK
<1>12. CASE FinishCloseStdin
  <2>1. TypeThreads' BY <1>12 DEF FinishCloseStdin, TypeOK, TypeThreads, closeVars
  <2>2. TypeFlags' BY <1>12 DEF FinishCloseStdin, TypeOK, TypeFlags
  <2>. QED BY <1>12, <2>1, <2>2 DEF FinishCloseStdin, TypeOK
<1>13. CASE FinishDone
  <2>1. TypeThreads' BY <1>13 DEF FinishDone, TypeOK, TypeThreads, closeVars
  <2>2. TypeFlags' BY <1>13 DEF FinishDone, TypeOK, TypeFlags
  <2>. QED BY <1>13, <2>1, <2>2 DEF FinishDone, TypeOK
<1>. QED BY <1>1, <1>2, <1>3, <1>4, <1>5, <1>6, <1>7, <1>8, <1>9, <1>10, <1>11,
            <1>12, <1>13 DEF ReaderStep, handleLine, finishReader

LEMMA TypeClose ==
  ASSUME TypeOK, Grace \/ CloseMark \/ CloseStep \/ CloseGivesUp
  PROVE  TypeOK'
<1>. USE TypeFrame DEF TypeOK, closeKeeps, tableVars, tmuxVars
<1>1. CASE Grace
  <2>1. TypeFlags' BY <1>1 DEF Grace, TypeFlags
  <2>. QED BY <1>1, <2>1 DEF Grace
<1>2. CASE CloseMark
  <2>1. TypeFlags' /\ TypeThreads' BY <1>2 DEF CloseMark, TypeFlags, TypeThreads, readerVars
  <2>. QED BY <1>2, <2>1 DEF CloseMark
<1>3. CASE CloseSelect
  <2>1. TypeFlags' /\ TypeThreads' BY <1>3 DEF CloseSelect, TypeFlags, TypeThreads, readerVars
  <2>. QED BY <1>3, <2>1 DEF CloseSelect
<1>4. CASE CloseSeesDone
  <2>1. TypeThreads' BY <1>4 DEF CloseSeesDone, TypeThreads, readerVars
  <2>. QED BY <1>4, <2>1 DEF CloseSeesDone
<1>5. CASE CloseTimeout
  <2>1. TypeFlags' /\ TypeThreads' BY <1>5 DEF CloseTimeout, TypeFlags, TypeThreads, readerVars
  <2>. QED BY <1>5, <2>1 DEF CloseTimeout
<1>6. CASE CloseGivesUp
  <2>1. TypeThreads' BY <1>6 DEF CloseGivesUp, TypeThreads, readerVars
  <2>. QED BY <1>6, <2>1 DEF CloseGivesUp
<1>7. CASE DetachLock
  <2>1. TypeThreads' BY <1>7 DEF DetachLock, TypeThreads, readerVars
  <2>. QED BY <1>7, <2>1 DEF DetachLock
<1>8. CASE DetachWrite
  <2>1. TypeThreads' BY <1>8 DEF DetachWrite, TypeThreads, readerVars
  <2>2. TypePipes' BY <1>8 DEF DetachWrite, TypePipes
  <2>. QED BY <1>8, <2>1, <2>2 DEF DetachWrite
<1>9. CASE DetachClose
  <2>1. TypeFlags' /\ TypeThreads' BY <1>9 DEF DetachClose, TypeFlags, TypeThreads, readerVars
  <2>. QED BY <1>9, <2>1 DEF DetachClose
<1>. QED BY <1>1, <1>2, <1>3, <1>4, <1>5, <1>6, <1>7, <1>8, <1>9 DEF CloseStep

(* A line tmux writes now is a line.                                       *)
LEMMA LineTyped ==
  ASSUME TypeOK, NEW kind \in Shapes \union {"data"}, NEW number \in Nat,
         NEW malformed \in BOOLEAN, NEW client \in BOOLEAN, NEW text \in TextType,
         wire' = Append(wire, Line(kind, number, malformed, client, text)),
         UNCHANGED pipeVars
  PROVE  TypePipes'
<1>1. Line(kind, number, malformed, client, text) \in LineType
  BY DEF Line, LineType, TypeOK, TypeTmux
<1>. QED BY <1>1 DEF TypeOK, TypePipes, pipeVars

LEMMA TypeOpens ==
  ASSUME TypeOK, NEW src \in Cmd \union {Tmux}, NEW ruined \in BOOLEAN, NEW taken \in Nat,
         Opens(src, ruined, taken), UNCHANGED pipeVars
  PROVE  /\ TypePipes' /\ tm' \in TmType /\ nextNumber' \in Nat /\ spoken' \in BOOLEAN
<1>0. nextNumber \in Nat BY DEF TypeOK, TypeTmux
<1>1. TypePipes'
  <2>1. Framing \in TextType BY DEF Framing, Text, TextType, Source
  <2>2. "begin" \in Shapes /\ (src \in Cmd) \in BOOLEAN BY DEF Shapes
  <2>. QED BY <1>0, <2>1, <2>2, LineTyped DEF Opens
<1>2. tm' \in TmType BY <1>0 DEF Opens, TmType, BlkType, Source
<1>. QED BY <1>0, <1>1, <1>2 DEF Opens

LEMMA TypeTmuxStep ==
  ASSUME TypeOK, TmuxStep
  PROVE  TypeOK'
<1>. USE TypeFrame DEF tmuxKeeps, tmuxKeepsButCut, tableVars
<1>0. /\ Framing \in TextType
      /\ tm \in TmType /\ tm.taken \in Nat /\ tm.blk \in BlkType
      /\ tm.blk.n \in Nat /\ tm.blk.src \in Source /\ tm.blk.number \in Nat
      /\ nextNumber \in Nat
  <2>1. Framing \in TextType BY DEF Framing, Text, TextType, Source
  <2>2. tm \in TmType /\ nextNumber \in Nat BY DEF TypeOK, TypeTmux
  <2>. QED BY <2>1, <2>2 DEF TmType, BlkType
<1>1. CASE TmuxStartup
  <2>1. PICK ruined \in BOOLEAN : Opens(Tmux, ruined, tm.taken)
    BY <1>1, ConstantsOK DEF TmuxStartup
  <2>2. TypePipes' /\ TypeTmux'
    BY <1>0, <1>1, <2>1, TypeOpens DEF TmuxStartup, TypeOK, TypeTmux
  <2>. QED BY <1>1, <2>2 DEF TmuxStartup, TypeOK
<1>2. CASE TmuxUnsolicited
  <2>0. Opens(Tmux, FALSE, tm.taken) /\ UNCHANGED pipeVars
    BY <1>2 DEF TmuxUnsolicited
  <2>a. TypePipes' /\ tm' \in TmType /\ nextNumber' \in Nat /\ spoken' \in BOOLEAN
    BY <1>0, <2>0, TypeOpens
  <2>1. TypePipes' /\ TypeTmux'
    BY <1>2, <2>a DEF TmuxUnsolicited, TypeOK, TypeTmux
  <2>. QED BY <1>2, <2>1 DEF TmuxUnsolicited, TypeOK
<1>3. CASE TmuxReplies
  <2>. DEFINE c == sent[tm.taken + 1]
  <2>1. c \in Cmd /\ (RuinHeader /\ spoken) \in BOOLEAN
    BY <1>0, <1>3, ConstantsOK DEF TmuxReplies, TypeOK, TypePipes, TypeTmux
  <2>2. PICK ruined \in BOOLEAN :
          /\ Opens(c, ruined, tm.taken + 1)
          /\ ruinedReply' = IF ruined THEN ruinedReply \union {c} ELSE ruinedReply
    BY <1>3, <2>1 DEF TmuxReplies
  <2>3. TypeAnswers' BY <1>3, <2>1, <2>2 DEF TmuxReplies, TypeOK, TypeAnswers
  <2>4. TypePipes' /\ TypeTmux'
    BY <1>0, <1>3, <2>1, <2>2, TypeOpens DEF TmuxReplies, TypeOK, TypeTmux
  <2>. QED BY <1>3, <2>3, <2>4 DEF TmuxReplies, TypeOK
<1>4. CASE TmuxBody
  <2>1. PICK kind \in Lookalikes \union {"data"}, number \in Nat :
          wire' = Append(wire, Line(kind, number, FALSE, TRUE,
                                    Text(tm.blk.src, tm.blk.n + 1)))
    <3>1. PICK kind \in Lookalikes \union {"data"} :
            \E number \in IF kind \in Terminators \union {"begin"}
                          THEN (0..nextNumber) \ {tm.blk.number} ELSE {0} :
              wire' = Append(wire, Line(kind, number, FALSE, TRUE,
                                        Text(tm.blk.src, tm.blk.n + 1)))
      BY <1>4 DEF TmuxBody
    <3>2. PICK number \in IF kind \in Terminators \union {"begin"}
                          THEN (0..nextNumber) \ {tm.blk.number} ELSE {0} :
              wire' = Append(wire, Line(kind, number, FALSE, TRUE,
                                        Text(tm.blk.src, tm.blk.n + 1)))
      BY <3>1
    <3>3. number \in Nat BY <1>0
    <3>. QED BY <3>2, <3>3
  <2>2. kind \in Shapes \union {"data"} BY ConstantsOK
  <2>3. Text(tm.blk.src, tm.blk.n + 1) \in TextType BY <1>0 DEF Text, TextType
  <2>4. TypePipes' BY <1>4, <2>1, <2>2, <2>3, LineTyped DEF TmuxBody
  <2>5. TypeTmux' BY <1>0, <1>4 DEF TmuxBody, TypeOK, TypeTmux, TmType, BlkType, Grown
  <2>. QED BY <1>4, <2>4, <2>5 DEF TmuxBody, TypeOK
<1>5. CASE TmuxFooter
  <2>1. PICK kind \in Terminators, ruined \in BOOLEAN :
          /\ wire' = Append(wire, Line(kind, tm.blk.number, ruined,
                                       tm.blk.src \in Cmd, Framing))
          /\ IF tm.blk.src \in Cmd
             THEN /\ verdict' = [verdict EXCEPT ![tm.blk.src] = kind]
                  /\ bodyLen' = [bodyLen EXCEPT ![tm.blk.src] = tm.blk.n]
             ELSE UNCHANGED <<verdict, bodyLen>>
    BY <1>5, ConstantsOK DEF TmuxFooter
  <2>2. kind \in Shapes \union {"data"} /\ (tm.blk.src \in Cmd) \in BOOLEAN
    BY DEF Shapes, Terminators
  <2>3. TypePipes' BY <1>0, <1>5, <2>1, <2>2, LineTyped DEF TmuxFooter
  <2>4. TypeTmux'
    BY <1>0, <1>5 DEF TmuxFooter, TypeOK, TypeTmux, TmType, BlkType, TmuxIdle, Source
  <2>5. TypeAnswers' BY <1>0, <1>5, <2>1 DEF TmuxFooter, TypeOK, TypeAnswers
  <2>. QED BY <1>5, <2>3, <2>4, <2>5 DEF TmuxFooter, TypeOK
<1>6. CASE TmuxAside
  <2>1. PICK kind \in {"note", "data", "end"}, ruined \in BOOLEAN :
          wire' = Append(wire, Line(kind, 0, ruined, FALSE, Framing))
    BY <1>6, ConstantsOK DEF TmuxAside
  <2>2. TypePipes' BY <1>0, <1>6, <2>1, LineTyped DEF TmuxAside, Shapes
  <2>3. TypeTmux' BY <1>6 DEF TmuxAside, TypeOK, TypeTmux
  <2>. QED BY <1>6, <2>2, <2>3 DEF TmuxAside, TypeOK
<1>7. CASE TmuxExit
  <2>1. TypePipes' BY <1>0, <1>7, LineTyped DEF TmuxExit, Shapes
  <2>2. TypeTmux' BY <1>7 DEF TmuxExit, TypeOK, TypeTmux
  <2>. QED BY <1>7, <2>1, <2>2 DEF TmuxExit, TypeOK
<1>8. CASE TmuxDies
  <2>1. TypeTmux' BY <1>8 DEF TmuxDies, TypeOK, TypeTmux
  <2>. QED BY <1>8, <2>1 DEF TmuxDies, TypeOK, pipeVars
<1>9. CASE TmuxDiesMidLine
  <2>1. PICK kind \in {"begin", "end", "data"}, number \in Nat, malformed \in BOOLEAN :
          wire' = Append(wire, Line(kind, number, malformed, TRUE, Framing))
    BY <1>0, <1>9 DEF TmuxDiesMidLine
  <2>2. TypePipes' BY <1>0, <1>9, <2>1, LineTyped DEF TmuxDiesMidLine, Shapes
  <2>3. TypeTmux' BY <1>9 DEF TmuxDiesMidLine, TypeOK, TypeTmux
  <2>. QED BY <1>9, <2>2, <2>3 DEF TmuxDiesMidLine, TypeOK
<1>. QED BY <1>1, <1>2, <1>3, <1>4, <1>5, <1>6, <1>7, <1>8, <1>9 DEF TmuxStep

LEMMA TypeStep == TypeOK /\ [Next]_vars => TypeOK'
<1>. SUFFICES ASSUME TypeOK, [Next]_vars PROVE TypeOK' OBVIOUS
<1>1. CASE UNCHANGED vars
  BY <1>1, TypeFrame DEF TypeOK, vars, tableVars, tmuxVars
<1>2. CASE Terminated BY <1>1, <1>2 DEF Terminated
<1>. QED BY <1>1, <1>2, TypeDo, TypeReader, TypeClose, TypeTmuxStep DEF Next

(* ReplyBinding's type invariant holds of every behavior.                  *)
THEOREM TypeCorrect == Spec => []TypeOK
  BY TypeInit, TypeStep, PTL DEF Spec

-----------------------------------------------------------------------------
(* The safety properties and the refinement                               *)

(* What no step of an action touches stays true.                           *)
LEMMA Frame ==
  ASSUME IInv
  PROVE  /\ UNCHANGED <<wire, tm, cut, sent, verdict, bodyLen, ruinedReply, saidExit>>
              => WireInv'
         /\ UNCHANGED <<spoken, wire, sawFirstLine, tm, cut, hasFlags, hasStartup, rpc,
                        startup, unsolicited>> => FirstLineInv'
         /\ UNCHANGED <<cut, up, tm, sent, verdict, ruinedReply, nextNumber>> => TmuxInv'
         /\ UNCHANGED <<sent, pc>> => SentInv'
         /\ UNCHANGED <<pc, dpc, stdinClosed, up>> => MutexInv'
         /\ UNCHANGED <<rpc, queue, sent, bound, pc, outcome, lines, cut, wire>>
              => QueueInv'
         /\ UNCHANGED <<pc, outcome, lines, current>> => FreshInv'
         /\ UNCHANGED <<rpc, bound, tm, wire, cut, current, lines, nextNumber, outcome,
                        queue>> => BlockInv'
         /\ UNCHANGED <<wire, nextNumber, tm>> => NumberInv'
         /\ UNCHANGED <<rpc, pc, woken, current, queue, waiting, closed, done>> => WakeInv'
         /\ UNCHANGED <<startup, pc, cpc, closed, dpc, detached>> => GateInv'
         /\ UNCHANGED <<outcome, verdict, lines, bodyLen, cut>> => OwnReply'
         /\ UNCHANGED <<rpc, sent, bound, queue>> => QueueAligned'
         /\ UNCHANGED <<outcome, ruinedReply, cut>> => ProtocolErrorIsOwn'
         /\ UNCHANGED <<startup, queue, sent>> => BarrierHolds'
         /\ UNCHANGED <<done, pc, woken>> => DoneWakesAll'
         /\ UNCHANGED <<sawExit, saidExit>> => ExitIsTmuxs'
<1>. USE DEF IInv
<1>1. ASSUME UNCHANGED <<wire, tm, cut, sent, verdict, bodyLen, ruinedReply, saidExit>>
      PROVE  WireInv'
  <2>1. \A i : IsCut(i)' <=> IsCut(i) BY <1>1 DEF IsCut
  <2>2. \A i : After(i)' = After(i) BY <1>1 DEF After
  <2>3. \A l : CutTo(l)' <=> CutTo(l) BY <1>1 DEF CutTo
  <2>4. \A l, q : LineTo(l, q)' <=> LineTo(l, q)
    BY <1>1 DEF LineTo, HeaderTo, BodyTo, FooterTo, AsideTo
  <2>. QED BY <1>1, <2>1, <2>2, <2>3, <2>4 DEF WireInv
<1>2. UNCHANGED <<spoken, wire, sawFirstLine, tm, cut, hasFlags, hasStartup, rpc,
                  startup, unsolicited>> => FirstLineInv'
  BY DEF FirstLineInv, IsHeader, IsCut
<1>3. UNCHANGED <<cut, up, tm, sent, verdict, ruinedReply, nextNumber>> => TmuxInv'
  BY DEF TmuxInv
<1>4. UNCHANGED <<sent, pc>> => SentInv' BY DEF SentInv
<1>5. UNCHANGED <<pc, dpc, stdinClosed, up>> => MutexInv' BY DEF MutexInv, PipeBroken
<1>6. UNCHANGED <<rpc, queue, sent, bound, pc, outcome, lines, cut, wire>> => QueueInv'
  BY DEF QueueInv, Unanswered, Severed
<1>7. UNCHANGED <<pc, outcome, lines, current>> => FreshInv'
  BY DEF FreshInv, Unanswered
<1>8. UNCHANGED <<rpc, bound, tm, wire, cut, current, lines, nextNumber, outcome, queue>>
        => BlockInv'
  BY DEF BlockInv, Synced, Stuck, Severed, Cut, InBlock, Unanswered
<1>9. UNCHANGED <<wire, nextNumber, tm>> => NumberInv' BY DEF NumberInv
<1>10. UNCHANGED <<rpc, pc, woken, current, queue, waiting, closed, done>> => WakeInv'
  BY DEF WakeInv, PastWrite
<1>11. UNCHANGED <<startup, pc, cpc, closed, dpc, detached>> => GateInv' BY DEF GateInv
<1>12. UNCHANGED <<outcome, verdict, lines, bodyLen, cut>> => OwnReply'
  BY DEF OwnReply, OwnAnswer, OwnPartialBody
<1>13. UNCHANGED <<rpc, sent, bound, queue>> => QueueAligned' BY DEF QueueAligned
<1>14. UNCHANGED <<outcome, ruinedReply, cut>> => ProtocolErrorIsOwn'
  BY DEF ProtocolErrorIsOwn
<1>15. UNCHANGED <<startup, queue, sent>> => BarrierHolds' BY DEF BarrierHolds
<1>16. UNCHANGED <<done, pc, woken>> => DoneWakesAll' BY DEF DoneWakesAll
<1>17. UNCHANGED <<sawExit, saidExit>> => ExitIsTmuxs' BY DEF ExitIsTmuxs
<1>. QED BY <1>1, <1>2, <1>3, <1>4, <1>5, <1>6, <1>7, <1>8, <1>9, <1>10, <1>11, <1>12,
            <1>13, <1>14, <1>15, <1>16, <1>17

LEMMA InvInit == Init => IInv
<1>. SUFFICES ASSUME Init PROVE IInv OBVIOUS
<1>. USE DEF Init
<1>0. /\ Len(wire) = 0 /\ Len(sent) = 0 /\ Len(queue) = 0
      /\ Tmux \notin Cmd /\ Nobody \notin Cmd /\ Tmux # Nobody
  BY ConstantsOK
<1>1. WireInv BY <1>0 DEF WireInv
<1>2. FirstLineInv BY <1>0, ConstantsOK DEF FirstLineInv
<1>3. TmuxInv BY <1>0 DEF TmuxInv, TmuxIdle
<1>4. SentInv BY <1>0 DEF SentInv
<1>5. MutexInv BY DEF MutexInv
<1>6. QueueInv BY <1>0 DEF QueueInv
<1>7. FreshInv BY <1>0 DEF FreshInv, Unanswered, NoBlock
<1>8. BlockInv
  <2>1. Cut = tm /\ ~Severed BY DEF Cut, Severed
  <2>2. current.owner = Nobody /\ tm.blk.src = Nobody /\ tm.taken = 0
    BY DEF NoBlock, TmuxIdle
  <2>3. Synced BY <1>0, <2>1, <2>2 DEF Synced
  <2>. QED BY <1>0, <2>1, <2>2, <2>3 DEF BlockInv
<1>9. NumberInv BY <1>0 DEF NumberInv
<1>10. WakeInv BY DEF WakeInv, PastWrite
<1>11. GateInv BY DEF GateInv
<1>12. OwnReply BY DEF OwnReply, OwnAnswer, OwnPartialBody, Terminators
<1>13. QueueAligned BY <1>0 DEF QueueAligned
<1>14. ProtocolErrorIsOwn BY DEF ProtocolErrorIsOwn
<1>15. BarrierHolds /\ DoneWakesAll /\ ExitIsTmuxs
  BY DEF BarrierHolds, DoneWakesAll, ExitIsTmuxs
<1>. QED BY <1>1, <1>2, <1>3, <1>4, <1>5, <1>6, <1>7, <1>8, <1>9, <1>10, <1>11, <1>12,
            <1>13, <1>14, <1>15 DEF IInv

-----------------------------------------------------------------------------
(* The queue *)

(* What unqueue leaves: the others, in their order.                        *)
LEMMA WithoutIs ==
  ASSUME NEW q \in Seq(Cmd), NEW i \in 1..Len(q)
  PROVE  /\ Len(Without(q, i)) = Len(q) - 1
         /\ \A j \in 1..(Len(q) - 1) :
              Without(q, i)[j] = IF j < i THEN q[j] ELSE q[j + 1]
<1>1. Len(q) - 1 \in Nat OBVIOUS
<1>. QED BY <1>1 DEF Without

(* A call in the queue has got as far as joining it.                       *)
Joined == {"write", "unqueue", "await", "drain", "returned"}

LEMMA QueuedHaveJoined ==
  ASSUME TypeOK, IInv, rpc = "read", NEW i \in 1..Len(queue)
  PROVE  queue[i] \in Cmd /\ pc[queue[i]] \in Joined
<1>0. queue[i] \in Cmd BY DEF TypeOK, TypeTable
<1>1. Len(sent) \in Nat /\ bound \in Nat BY DEF TypeOK, TypePipes, TypeTable
<1>2. CASE i > Len(sent) - bound BY <1>2, <1>0 DEF IInv, QueueInv, Joined
<1>3. CASE i <= Len(sent) - bound
  <2>1. i \in 1..(Len(sent) - bound) /\ bound + i \in 1..Len(sent) BY <1>1, <1>3
  <2>2. queue[i] = sent[bound + i] BY <2>1 DEF IInv, QueueAligned
  <2>. QED BY <1>0, <2>1, <2>2 DEF IInv, SentInv, Joined
<1>. QED BY <1>1, <1>2, <1>3

-----------------------------------------------------------------------------
(* Do *)

(* A call that moves on without touching what it shares.                   *)
LEMMA CallMoves ==
  ASSUME TypeOK, IInv, NEW c \in Cmd, NEW v,
         pc' = [pc EXCEPT ![c] = v],
         UNCHANGED <<tableVars, flagVars, readerVars, closeVars, pipeVars, wire, tmuxVars>>,
         \/ pc[c] \in {"idle", "barrier"} /\ v \in {"barrier", "lock"}
              /\ (v = "lock" => startup)
         \/ pc[c] \in {"barrier", "lock", "await", "drain"} /\ v = "returned"
         \/ pc[c] = "write" /\ v = "unqueue" /\ PipeBroken
         \/ pc[c] = "await" /\ v = "drain"
         \/ pc[c] = "unqueue" /\ v = "returned" /\ \A i \in 1..Len(queue) : queue[i] # c
  PROVE  IInv'
<1>. USE DEF tableVars, pendingVars, flagVars, readerVars, closeVars, pipeVars, tmuxVars,
             answerVars
<1>0. pc \in [Cmd -> {"idle", "barrier", "lock", "write", "unqueue", "await", "drain",
                      "returned"}]
      /\ \A d \in Cmd : pc'[d] = IF d = c THEN v ELSE pc[d]
  BY DEF TypeOK, TypeCalls
<1>1. SentInv'
  <2>1. \A i \in 1..Len(sent) : sent[i] \in Cmd BY DEF TypeOK, TypePipes
  <2>. QED BY <1>0, <2>1 DEF IInv, SentInv
<1>2. MutexInv' BY <1>0 DEF IInv, MutexInv, PipeBroken
<1>3. QueueInv'
  <2>1. \A i \in 1..Len(queue) : queue[i] \in Cmd BY DEF TypeOK, TypeTable
  <2>. QED BY <1>0, <2>1 DEF IInv, QueueInv, Unanswered, Severed
<1>4. FreshInv' BY <1>0 DEF IInv, FreshInv, Unanswered
<1>5. WakeInv' BY <1>0 DEF IInv, WakeInv, PastWrite
<1>6. GateInv' BY <1>0 DEF IInv, GateInv
<1>7. DoneWakesAll' BY <1>0 DEF IInv, DoneWakesAll
<1>. QED BY Frame, <1>1, <1>2, <1>3, <1>4, <1>5, <1>6, <1>7 DEF IInv

LEMMA EnqueueKeeps ==
  ASSUME TypeOK, IInv, NEW c \in Cmd, Enqueue(c)
  PROVE  IInv'
<1>. USE DEF Enqueue, pendingVars, flagVars, readerVars, closeVars, pipeVars, tmuxVars,
             answerVars
<1>0. /\ queue \in Seq(Cmd) /\ Len(queue) \in Nat /\ Len(sent) \in Nat /\ bound \in Nat
      /\ \A i \in 1..Len(sent) : sent[i] \in Cmd
      /\ \A d \in Cmd : pc'[d] = IF d = c THEN "write" ELSE pc[d]
      /\ pc[c] = "lock"
  BY DEF TypeOK, TypeCalls, TypeTable, TypePipes
<1>1. /\ Len(queue') = Len(queue) + 1 /\ queue'[Len(queue) + 1] = c
      /\ \A i \in 1..Len(queue) : queue'[i] = queue[i] /\ queue[i] \in Cmd
  BY <1>0, AppendProperties
<1>2. rpc = "read" => \A i \in 1..Len(queue) : queue[i] # c
  BY <1>0, QueuedHaveJoined DEF Joined
<1>3. SentInv' BY <1>0 DEF IInv, SentInv
<1>4. MutexInv' BY <1>0 DEF IInv, MutexInv, WriteMuFree, PipeBroken
<1>5. QueueAligned'
  <2>. SUFFICES ASSUME rpc = "read", NEW i \in 1..(Len(sent) - bound)
                PROVE  i <= Len(queue') /\ queue'[i] = sent[bound + i]
    BY DEF QueueAligned
  <2>. QED BY <1>0, <1>1 DEF IInv, QueueAligned
<1>6. QueueInv'
  <2>. SUFFICES ASSUME rpc = "read"
                PROVE  QueueInv'
    BY DEF QueueInv
  <2>1. \A i, j \in 1..Len(queue') : queue'[i] = queue'[j] => i = j
    BY <1>0, <1>1, <1>2 DEF IInv, QueueInv
  <2>2. \A i \in 1..Len(queue') : i > Len(sent) - bound => pc'[queue'[i]] \in {"write", "unqueue"}
    BY <1>0, <1>1, <1>2 DEF IInv, QueueInv
  <2>3. \A i \in 1..Len(queue') : outcome[queue'[i]] = "none" /\ lines[queue'[i]] = <<>>
    BY <1>0, <1>1 DEF IInv, QueueInv, FreshInv, Unanswered
  <2>4. ~Severed => \A d \in Cmd : pc'[d] = "write" => \E i \in 1..Len(queue') : queue'[i] = d
    <3>. SUFFICES ASSUME ~Severed, NEW d \in Cmd, pc'[d] = "write"
                  PROVE  \E i \in 1..Len(queue') : queue'[i] = d
      OBVIOUS
    <3>1. CASE d = c BY <1>0, <1>1, <3>1
    <3>2. CASE d # c
      <4>1. PICK i \in 1..Len(queue) : queue[i] = d BY <1>0, <3>2 DEF IInv, QueueInv
      <4>. QED BY <1>0, <1>1, <4>1
    <3>. QED BY <3>1, <3>2
  <2>. QED BY <2>1, <2>2, <2>3, <2>4 DEF QueueInv, Unanswered, Severed
<1>7. FreshInv' BY <1>0 DEF IInv, FreshInv, Unanswered
<1>8. BlockInv'
  <2>1. rpc = "read" /\ current.owner \in Cmd =>
          \A i \in 1..Len(queue') : queue'[i] # current.owner
    BY <1>0, <1>1 DEF IInv, BlockInv, FreshInv
  <2>. QED BY <2>1 DEF IInv, BlockInv, Synced, Stuck, Severed, Cut, InBlock, Unanswered
<1>9. WakeInv'
  <2>1. rpc \in {"read", "finish"} => \A d \in Cmd : pc'[d] \in {"write", "await", "drain"} =>
          woken[d] \/ current.owner = d \/ \E i \in 1..Len(queue') : queue'[i] = d
    <3>. SUFFICES ASSUME rpc \in {"read", "finish"}, NEW d \in Cmd,
                         pc'[d] \in {"write", "await", "drain"}
                  PROVE  woken[d] \/ current.owner = d \/ \E i \in 1..Len(queue') : queue'[i] = d
      OBVIOUS
    <3>1. CASE d = c BY <1>0, <1>1, <3>1
    <3>2. CASE d # c BY <1>0, <1>1, <3>2 DEF IInv, WakeInv, PastWrite
    <3>. QED BY <3>1, <3>2
  <2>2. rpc \in {"read", "finish"}
    BY DEF Refusing, IInv, WakeInv, TypeOK, TypeThreads
  <2>. QED BY <2>1, <2>2 DEF IInv, WakeInv, PastWrite
<1>10. GateInv' BY <1>0 DEF IInv, GateInv, Refusing
<1>11. BarrierHolds' BY <1>0 DEF IInv, BarrierHolds, GateInv
<1>12. DoneWakesAll' BY <1>0 DEF IInv, DoneWakesAll, WakeInv, Refusing
<1>. QED BY Frame, <1>3, <1>4, <1>5, <1>6, <1>7, <1>8, <1>9, <1>10, <1>11, <1>12 DEF IInv

(* What tmux wrote stays what it wrote when more is sent and answered.     *)
LEMMA LinesStay ==
  ASSUME TypeOK, Len(sent) <= Len(sent'), \A i \in 1..Len(sent) : sent'[i] = sent[i],
         Len(sent') \in Nat,
         ruinedReply \subseteq ruinedReply', saidExit => saidExit',
         \A c \in Cmd : verdict[c] # "none" =>
           verdict'[c] = verdict[c] /\ bodyLen'[c] = bodyLen[c],
         NEW l \in LineType, NEW q \in TmType, LineTo(l, q)
  PROVE  LineTo(l, q)'
<1>0. /\ l.at.taken \in Nat /\ q.taken \in Nat /\ Len(sent) \in Nat
      /\ l.kind \in Shapes \union {"data"}
  BY DEF LineType, TmType, TypeOK, TypePipes
<1>1. HeaderTo(l, q) => HeaderTo(l, q)' BY <1>0 DEF HeaderTo
<1>2. BodyTo(l, q) => BodyTo(l, q)' BY DEF BodyTo
<1>3. FooterTo(l, q) => FooterTo(l, q)' BY DEF FooterTo, Terminators
<1>4. AsideTo(l, q) => AsideTo(l, q)' BY DEF AsideTo
<1>. QED BY <1>1, <1>2, <1>3, <1>4 DEF LineTo

(* Every place on the wire is one tmux may be in.                          *)
LEMMA PlacesTyped ==
  ASSUME TypeOK
  PROVE  /\ wire \in Seq(LineType) /\ Len(wire) \in Nat /\ tm \in TmType /\ Cut \in TmType
         /\ wire # <<>> => Len(wire) > 0
         /\ \A i \in 1..Len(wire) : wire[i] \in LineType /\ After(i) \in TmType
<1>1. wire \in Seq(LineType) /\ tm \in TmType BY DEF TypeOK, TypePipes, TypeTmux
<1>2. Len(wire) \in Nat /\ (wire # <<>> => Len(wire) > 0) BY <1>1
<1>a. \A l \in LineType : l.at \in TmType BY DEF LineType
<1>3. \A i \in 1..Len(wire) : wire[i] \in LineType /\ wire[i].at \in TmType
  BY <1>1, <1>a
<1>4. Cut \in TmType BY <1>1, <1>2, <1>3 DEF Cut
<1>5. \A i \in 1..Len(wire) : After(i) \in TmType BY <1>1, <1>2, <1>3 DEF After
<1>. QED BY <1>1, <1>2, <1>3, <1>4, <1>5

LEMMA WriteKeeps ==
  ASSUME TypeOK, IInv, NEW c \in Cmd, Write(c)
  PROVE  IInv'
<1>. USE DEF Write, tableVars, pendingVars, flagVars, readerVars, closeVars, tmuxVars,
             answerVars
<1>0. /\ sent \in Seq(Cmd) /\ Len(queue) \in Nat /\ Len(sent) \in Nat /\ bound \in Nat
      /\ \A i \in 1..Len(sent) : sent[i] \in Cmd
      /\ \A i \in 1..Len(queue) : queue[i] \in Cmd
      /\ \A d \in Cmd : pc'[d] = IF d = c THEN "await" ELSE pc[d]
      /\ pc[c] = "write" /\ tm.taken \in Nat
  BY DEF TypeOK, TypeCalls, TypeTable, TypePipes, TypeTmux, TmType
<1>1. /\ Len(sent') = Len(sent) + 1 /\ sent'[Len(sent) + 1] = c
      /\ \A i \in 1..Len(sent) : sent'[i] = sent[i]
  BY <1>0, AppendProperties
<1>2. ~cut /\ ~Severed /\ \A d \in Cmd : pc[d] # "unqueue"
  BY DEF IInv, TmuxInv, MutexInv, PipeBroken, Severed
<1>3. WireInv'
  <2>. SUFFICES ASSUME NEW i \in 1..Len(wire)
                PROVE  LineTo(wire[i], After(i))'
    BY <1>2 DEF IInv, WireInv, IsCut
  <2>1. PICK l \in LineType, q \in TmType : l = wire[i] /\ q = After(i)
    BY PlacesTyped
  <2>2. LineTo(l, q) BY <1>2, <2>1 DEF IInv, WireInv, IsCut
  <2>3. LineTo(l, q)' BY <1>0, <1>1, <2>2, LinesStay
  <2>4. After(i)' = After(i) BY DEF After
  <2>. QED BY <2>1, <2>3, <2>4 DEF LineTo, HeaderTo, BodyTo, FooterTo, AsideTo
<1>4. TmuxInv' BY <1>0, <1>1 DEF IInv, TmuxInv
<1>5. SentInv'
  <2>1. \A i \in 1..Len(sent) : sent[i] # c BY <1>0 DEF IInv, SentInv
  <2>2. \A i \in 1..Len(sent') : pc'[sent'[i]] \in {"await", "drain", "returned"}
    BY <1>0, <1>1, <2>1 DEF IInv, SentInv
  <2>3. \A i, j \in 1..Len(sent') : sent'[i] = sent'[j] => i = j
    BY <1>0, <1>1, <2>1 DEF IInv, SentInv
  <2>. QED BY <2>2, <2>3 DEF SentInv
<1>6. MutexInv' BY <1>0 DEF IInv, MutexInv, PipeBroken
<1>7. ASSUME rpc = "read"
      PROVE  /\ bound <= Len(sent)
             /\ queue[Len(sent) - bound + 1] = c /\ Len(sent) - bound + 1 <= Len(queue)
             /\ \A i \in 1..Len(queue) : i > Len(sent) - bound => i = Len(sent) - bound + 1
  <2>1. bound <= Len(sent) BY <1>0, <1>2, <1>7 DEF IInv, BlockInv, TmuxInv
  <2>2. PICK k \in 1..Len(queue) : queue[k] = c BY <1>0, <1>2, <1>7 DEF IInv, QueueInv
  <2>3. k > Len(sent) - bound
    <3>. SUFFICES ASSUME k <= Len(sent) - bound PROVE FALSE BY <1>0
    <3>1. k \in 1..(Len(sent) - bound) /\ bound + k \in 1..Len(sent) BY <1>0
    <3>2. sent[bound + k] = c BY <1>7, <2>2, <3>1 DEF IInv, QueueAligned
    <3>. QED BY <1>0, <3>1, <3>2 DEF IInv, SentInv
  <2>4. \A i \in 1..Len(queue) : i > Len(sent) - bound => i = k
    <3>. SUFFICES ASSUME NEW i \in 1..Len(queue), i > Len(sent) - bound PROVE i = k
      OBVIOUS
    <3>1. pc[queue[i]] = "write" BY <1>0, <1>2, <1>7 DEF IInv, QueueInv
    <3>2. queue[i] = c BY <1>0, <3>1 DEF IInv, MutexInv
    <3>. QED BY <1>7, <2>2, <3>2 DEF IInv, QueueInv
  <2>5. k = Len(sent) - bound + 1
    BY <1>0, <2>1, <2>3, <2>4
  <2>. QED BY <1>0, <2>1, <2>2, <2>4, <2>5
<1>8. QueueInv'
  <2>. SUFFICES ASSUME rpc = "read" PROVE QueueInv' BY DEF QueueInv
  <2>1. \A i \in 1..Len(queue) : ~(i > Len(sent') - bound) BY <1>0, <1>1, <1>7
  <2>2. \A d \in Cmd : pc'[d] # "write" BY <1>0 DEF IInv, MutexInv
  <2>. QED BY <2>1, <2>2 DEF IInv, QueueInv, Unanswered
<1>9. QueueAligned'
  <2>. SUFFICES ASSUME rpc = "read", NEW i \in 1..(Len(sent') - bound)
                PROVE  i <= Len(queue) /\ queue[i] = sent'[bound + i]
    BY DEF QueueAligned
  <2>1. CASE i = Len(sent) - bound + 1 BY <1>0, <1>1, <1>7, <2>1
  <2>2. CASE i # Len(sent) - bound + 1
    <3>1. i \in 1..(Len(sent) - bound) /\ bound + i \in 1..Len(sent) BY <1>0, <1>1, <2>2
    <3>. QED BY <1>1, <3>1 DEF IInv, QueueAligned
  <2>. QED BY <2>1, <2>2
<1>10. FreshInv' BY <1>0 DEF IInv, FreshInv, Unanswered
<1>11. WakeInv' BY <1>0 DEF IInv, WakeInv, PastWrite
<1>12. GateInv' BY <1>0 DEF IInv, GateInv
<1>13. BarrierHolds' BY <1>0 DEF IInv, BarrierHolds, GateInv
<1>14. DoneWakesAll' BY <1>0 DEF IInv, DoneWakesAll, WakeInv, PastWrite
<1>. QED BY Frame, <1>3, <1>4, <1>5, <1>6, <1>8, <1>9, <1>10, <1>11, <1>12, <1>13, <1>14
     DEF IInv

(* An entry is left out of the queue: those before it stay in their places. *)
LEMMA UnqueueKeeps ==
  ASSUME TypeOK, IInv, NEW c \in Cmd, Unqueue(c)
  PROVE  IInv'
<1>. USE DEF Unqueue, Return
<1>1. CASE UNCHANGED queue /\ \A i \in 1..Len(queue) : queue[i] # c
  BY <1>1, CallMoves DEF tableVars
<1>2. ASSUME NEW i \in 1..Len(queue), queue[i] = c, queue' = Without(queue, i)
      PROVE  IInv'
  <2>. USE DEF pendingVars, flagVars, readerVars, closeVars, pipeVars, tmuxVars, answerVars
  <2>0. /\ queue \in Seq(Cmd) /\ Len(queue) \in Nat /\ Len(sent) \in Nat /\ bound \in Nat
        /\ \A k \in 1..Len(sent) : sent[k] \in Cmd
        /\ \A j \in 1..Len(queue) : queue[j] \in Cmd
        /\ \A d \in Cmd : pc'[d] = IF d = c THEN "returned" ELSE pc[d]
        /\ pc[c] = "unqueue"
    BY DEF TypeOK, TypeCalls, TypeTable, TypePipes
  <2>1. /\ Len(queue') = Len(queue) - 1
        /\ \A j \in 1..(Len(queue) - 1) : queue'[j] = IF j < i THEN queue[j] ELSE queue[j + 1]
    BY <1>2, <2>0, WithoutIs
  <2>2. /\ \A j \in 1..Len(queue') : \E k \in 1..Len(queue) : k # i /\ queue'[j] = queue[k]
        /\ \A k \in 1..Len(queue) : k # i => \E j \in 1..Len(queue') : queue'[j] = queue[k]
    <3>1. ASSUME NEW j \in 1..Len(queue')
          PROVE  \E k \in 1..Len(queue) : k # i /\ queue'[j] = queue[k]
      <4>1. CASE j < i
        <5>1. j \in 1..Len(queue) /\ j # i /\ queue'[j] = queue[j] BY <2>0, <2>1, <4>1
        <5>. QED BY <5>1
      <4>2. CASE j >= i
        <5>1. j + 1 \in 1..Len(queue) /\ j + 1 # i /\ queue'[j] = queue[j + 1]
          BY <2>0, <2>1, <4>2
        <5>. QED BY <5>1
      <4>. QED BY <2>0, <4>1, <4>2
    <3>2. ASSUME NEW k \in 1..Len(queue), k # i
          PROVE  \E j \in 1..Len(queue') : queue'[j] = queue[k]
      <4>1. CASE k < i
        <5>1. k \in 1..Len(queue') /\ queue'[k] = queue[k] BY <2>0, <2>1, <4>1
        <5>. QED BY <5>1
      <4>2. CASE k > i
        <5>1. k - 1 \in 1..Len(queue') /\ queue'[k - 1] = queue[k] BY <2>0, <2>1, <4>2
        <5>. QED BY <5>1
      <4>. QED BY <3>2, <4>1, <4>2
    <3>. QED BY <3>1, <3>2
  <2>3. ASSUME rpc = "read"
        PROVE  i > Len(sent) - bound /\ \A k \in 1..Len(queue) : k # i => queue[k] # c
    <3>1. \A k \in 1..Len(queue) : k # i => queue[k] # c
      BY <1>2, <2>3 DEF IInv, QueueInv
    <3>2. i > Len(sent) - bound
      <4>. SUFFICES ASSUME i <= Len(sent) - bound PROVE FALSE BY <2>0
      <4>1. i \in 1..(Len(sent) - bound) /\ bound + i \in 1..Len(sent) BY <2>0
      <4>2. sent[bound + i] = c BY <1>2, <2>3, <4>1 DEF IInv, QueueAligned
      <4>. QED BY <2>0, <4>1, <4>2 DEF IInv, SentInv
    <3>. QED BY <3>1, <3>2
  <2>4. SentInv' BY <2>0 DEF IInv, SentInv
  <2>5. MutexInv' BY <2>0 DEF IInv, MutexInv, PipeBroken
  <2>6. QueueInv'
    <3>. SUFFICES ASSUME rpc = "read" PROVE QueueInv' BY DEF QueueInv
    <3>1. \A j, k \in 1..Len(queue') : queue'[j] = queue'[k] => j = k
      BY <2>0, <2>1 DEF IInv, QueueInv
    <3>2. ASSUME NEW j \in 1..Len(queue'), j > Len(sent) - bound
          PROVE  pc'[queue'[j]] \in {"write", "unqueue"}
      <4>1. /\ j \in 1..Len(queue) /\ j < i => queue'[j] = queue[j]
            /\ j >= i => j + 1 \in 1..Len(queue) /\ queue'[j] = queue[j + 1]
        BY <2>0, <2>1
      <4>2. \A k \in 1..Len(queue) : k > Len(sent) - bound /\ k # i =>
              pc'[queue[k]] \in {"write", "unqueue"}
        BY <2>0, <2>3 DEF IInv, QueueInv
      <4>3. CASE j < i BY <2>0, <3>2, <4>1, <4>2, <4>3
      <4>4. CASE j >= i BY <2>0, <3>2, <4>1, <4>2, <4>4
      <4>. QED BY <2>0, <4>3, <4>4
    <3>3. ASSUME NEW j \in 1..Len(queue')
          PROVE  outcome[queue'[j]] = "none" /\ lines[queue'[j]] = <<>>
      <4>1. PICK k \in 1..Len(queue) : queue'[j] = queue[k] BY <2>2
      <4>. QED BY <4>1 DEF IInv, QueueInv, Unanswered
    <3>4. ~Severed => \A d \in Cmd : pc'[d] = "write" => \E j \in 1..Len(queue') : queue'[j] = d
      <4>. SUFFICES ASSUME ~Severed, NEW d \in Cmd, pc'[d] = "write"
                    PROVE  \E j \in 1..Len(queue') : queue'[j] = d
        OBVIOUS
      <4>1. PICK k \in 1..Len(queue) : queue[k] = d BY <2>0 DEF IInv, QueueInv
      <4>2. k # i BY <1>2, <2>0, <4>1
      <4>. QED BY <2>2, <4>1, <4>2
    <3>. QED BY <3>1, <3>2, <3>3, <3>4 DEF QueueInv, Unanswered, Severed
  <2>7. QueueAligned'
    <3>. SUFFICES ASSUME rpc = "read", NEW j \in 1..(Len(sent) - bound)
                  PROVE  j <= Len(queue') /\ queue'[j] = sent[bound + j]
      BY DEF QueueAligned
    <3>1. j < i /\ j <= Len(queue') BY <2>0, <2>1, <2>3
    <3>2. queue'[j] = queue[j] BY <2>0, <2>1, <3>1
    <3>. QED BY <3>1, <3>2 DEF IInv, QueueAligned
  <2>8. FreshInv' BY <2>0 DEF IInv, FreshInv, Unanswered
  <2>9. BlockInv'
    <3>1. rpc = "read" /\ current.owner \in Cmd =>
            \A j \in 1..Len(queue') : queue'[j] # current.owner
      BY <2>2 DEF IInv, BlockInv
    <3>. QED BY <3>1 DEF IInv, BlockInv, Synced, Stuck, Severed, Cut, InBlock, Unanswered
  <2>10. WakeInv'
    <3>1. rpc \in {"read", "finish"} => \A d \in Cmd : pc'[d] \in {"write", "await", "drain"} =>
            woken[d] \/ current.owner = d \/ \E j \in 1..Len(queue') : queue'[j] = d
      <4>. SUFFICES ASSUME rpc \in {"read", "finish"}, NEW d \in Cmd,
                           pc'[d] \in {"write", "await", "drain"},
                           ~woken[d], current.owner # d
                    PROVE  \E j \in 1..Len(queue') : queue'[j] = d
        OBVIOUS
      <4>1. PICK k \in 1..Len(queue) : queue[k] = d
        BY <2>0 DEF IInv, WakeInv, PastWrite
      <4>2. k # i BY <1>2, <2>0, <4>1
      <4>. QED BY <2>2, <4>1, <4>2
    <3>. QED BY SMTT(30), <2>0, <3>1 DEF IInv, WakeInv, PastWrite
  <2>11. GateInv' BY <2>0 DEF IInv, GateInv
  <2>12. BarrierHolds' BY <2>0 DEF IInv, BarrierHolds, GateInv
  <2>13. DoneWakesAll' BY <2>0 DEF IInv, DoneWakesAll
  <2>. QED BY Frame, <2>4, <2>5, <2>6, <2>7, <2>8, <2>9, <2>10, <2>11, <2>12, <2>13
       DEF IInv
<1>. QED BY <1>1, <1>2

LEMMA DoKeeps ==
  ASSUME TypeOK, IInv, NEW c \in Cmd, DoStep(c) \/ CtxEnds(c)
  PROVE  IInv'
<1>. USE CallMoves DEF Return
<1>1. CASE Call(c) BY <1>1 DEF Call
<1>2. CASE PassBarrier(c) BY <1>2 DEF PassBarrier
<1>3. CASE BarrierDone(c) BY <1>3 DEF BarrierDone
<1>4. CASE CtxEnds(c) BY <1>4 DEF CtxEnds
<1>5. CASE RefuseClosed(c) BY <1>5 DEF RefuseClosed
<1>6. CASE WriteFails(c) BY <1>6 DEF WriteFails
<1>7. CASE Woken(c) BY <1>7 DEF Woken
<1>8. CASE SeeDone(c) BY <1>8 DEF SeeDone
<1>. QED BY <1>1, <1>2, <1>3, <1>4, <1>5, <1>6, <1>7, <1>8, EnqueueKeeps, WriteKeeps,
            UnqueueKeeps DEF DoStep

-----------------------------------------------------------------------------
(* The timer, Close and detach *)

LEMMA CloseKeeps ==
  ASSUME TypeOK, IInv, Grace \/ CloseMark \/ CloseStep \/ CloseGivesUp
  PROVE  IInv'
<1>. USE DEF tableVars, pendingVars, callVars, readerVars, tmuxVars, answerVars
<1>1. CASE Grace
  <2>. USE <1>1 DEF Grace, flagVars, closeVars, pipeVars
  <2>1. FirstLineInv' BY DEF IInv, FirstLineInv, IsHeader, IsCut
  <2>2. GateInv' /\ BarrierHolds' BY DEF IInv, GateInv, BarrierHolds
  <2>. QED BY <2>1, <2>2, Frame DEF IInv
<1>. USE DEF closeKeeps
<1>2. CASE CloseMark
  <2>. USE <1>2 DEF CloseMark, pipeVars
  <2>1. WakeInv' /\ GateInv' BY DEF IInv, WakeInv, PastWrite, GateInv
  <2>. QED BY <2>1, Frame DEF IInv
<1>3. CASE CloseSelect
  <2>. USE <1>3 DEF CloseSelect, pipeVars
  <2>1. MutexInv' BY DEF IInv, MutexInv, PipeBroken, GateInv
  <2>2. GateInv' BY DEF IInv, GateInv
  <2>. QED BY <2>1, <2>2, Frame DEF IInv
<1>4. CASE CloseSeesDone
  <2>. USE <1>4 DEF CloseSeesDone, pipeVars, flagVars
  <2>1. GateInv' BY DEF IInv, GateInv
  <2>. QED BY <2>1, Frame DEF IInv
<1>5. CASE CloseTimeout
  <2>. USE <1>5 DEF CloseTimeout, pipeVars
  <2>1. MutexInv' /\ GateInv' BY DEF IInv, MutexInv, PipeBroken, GateInv
  <2>. QED BY <2>1, Frame DEF IInv
<1>6. CASE CloseGivesUp
  <2>. USE <1>6 DEF CloseGivesUp, pipeVars, flagVars
  <2>1. GateInv' BY DEF IInv, GateInv
  <2>. QED BY <2>1, Frame DEF IInv
<1>7. CASE DetachLock
  <2>. USE <1>7 DEF DetachLock, pipeVars, flagVars
  <2>1. MutexInv' BY DEF IInv, MutexInv, PipeBroken, WriteMuFree
  <2>2. GateInv' BY DEF IInv, GateInv
  <2>. QED BY <2>1, <2>2, Frame DEF IInv
<1>8. CASE DetachWrite
  <2>. USE <1>8 DEF DetachWrite, flagVars
  <2>1. MutexInv' BY DEF IInv, MutexInv, PipeBroken
  <2>2. GateInv' BY DEF IInv, GateInv, MutexInv
  <2>. QED BY <2>1, <2>2, Frame DEF IInv
<1>9. CASE DetachClose
  <2>. USE <1>9 DEF DetachClose, pipeVars
  <2>1. MutexInv' BY DEF IInv, MutexInv, PipeBroken
  <2>2. GateInv' BY DEF IInv, GateInv
  <2>. QED BY <2>1, <2>2, Frame DEF IInv
<1>. QED BY <1>1, <1>2, <1>3, <1>4, <1>5, <1>6, <1>7, <1>8, <1>9 DEF CloseStep

-----------------------------------------------------------------------------
(* The reader's end *)

LEMMA FinishKeeps ==
  ASSUME TypeOK, IInv, ReadEOF \/ finishReader
  PROVE  IInv'
<1>. USE DEF tmuxVars, answerVars, pipeVars, closeVars, callVars
<1>0. rpc' # "read" => QueueInv' /\ BlockInv' /\ QueueAligned'
  BY DEF QueueInv, BlockInv, QueueAligned
<1>1. CASE ReadEOF
  <2>. USE <1>1 DEF ReadEOF, tableVars, pendingVars, flagVars
  <2>1. FirstLineInv' BY DEF IInv, FirstLineInv, IsHeader, IsCut
  <2>2. WakeInv' BY DEF IInv, WakeInv, PastWrite
  <2>. QED BY <1>0, <2>1, <2>2, Frame DEF IInv
<1>2. CASE FinishLocked
  <2>. USE <1>2 DEF FinishLocked, pendingVars
  <2>1. FirstLineInv' BY DEF IInv, FirstLineInv, IsHeader, IsCut
  <2>2. FreshInv' BY ConstantsOK DEF IInv, FreshInv, Unanswered, NoBlock
  <2>3. WakeInv'
    <3>1. \A c \in Cmd : PastWrite(c) => woken[c] \/ c \in Outstanding
      BY ConstantsOK DEF IInv, WakeInv, Outstanding
    <3>. QED BY <3>1 DEF IInv, WakeInv, PastWrite
  <2>4. GateInv' BY DEF IInv, GateInv
  <2>5. BarrierHolds' BY DEF IInv, BarrierHolds
  <2>. QED BY <1>0, <2>1, <2>2, <2>3, <2>4, <2>5, Frame DEF IInv
<1>3. ASSUME NEW c \in Cmd, FinishWake(c) PROVE IInv'
  <2>. USE <1>3 DEF FinishWake, flagVars
  <2>0. \A d \in Cmd : woken'[d] = (d = c \/ woken[d]) BY DEF TypeOK, TypePending
  <2>1. WakeInv' BY <2>0 DEF IInv, WakeInv, PastWrite
  <2>2. DoneWakesAll' BY <2>0 DEF IInv, DoneWakesAll
  <2>. QED BY <1>0, <2>1, <2>2, Frame DEF IInv
<1>. USE DEF tableVars, pendingVars
<1>4. CASE FinishRelease
  <2>. USE <1>4 DEF FinishRelease
  <2>1. FirstLineInv' BY DEF IInv, FirstLineInv, IsHeader, IsCut
  <2>2. WakeInv' BY DEF IInv, WakeInv, PastWrite
  <2>3. GateInv' /\ BarrierHolds' BY DEF IInv, GateInv, BarrierHolds
  <2>. QED BY <1>0, <2>1, <2>2, <2>3, Frame DEF IInv
<1>5. CASE FinishCloseStdin
  <2>. USE <1>5 DEF FinishCloseStdin
  <2>1. FirstLineInv' BY DEF IInv, FirstLineInv, IsHeader, IsCut
  <2>2. MutexInv' BY DEF IInv, MutexInv, PipeBroken
  <2>3. WakeInv' BY DEF IInv, WakeInv, PastWrite
  <2>. QED BY <1>0, <2>1, <2>2, <2>3, Frame DEF IInv
<1>6. CASE FinishDone
  <2>. USE <1>6 DEF FinishDone
  <2>1. FirstLineInv' BY DEF IInv, FirstLineInv, IsHeader, IsCut
  <2>2. WakeInv' /\ DoneWakesAll' BY DEF IInv, WakeInv, PastWrite, DoneWakesAll
  <2>. QED BY <1>0, <2>1, <2>2, Frame DEF IInv
<1>. QED BY <1>1, <1>2, <1>3, <1>4, <1>5, <1>6 DEF finishReader

-----------------------------------------------------------------------------
(* The wire *)

(* A line is added behind: every other keeps its place and its neighbour,  *)
(* and the reader's place on the wire does not move.                       *)
LEMMA PushWire ==
  ASSUME TypeOK, NEW l \in LineType, l.at = tm, wire' = Append(wire, l)
  PROVE  /\ Len(wire') = Len(wire) + 1 /\ wire' # <<>> /\ wire'[Len(wire) + 1] = l
         /\ \A i \in 1..Len(wire) : wire'[i] = wire[i] /\ After(i)' = After(i)
         /\ \A i : i = Len(wire) + 1 => After(i)' = tm'
         /\ Cut' = Cut
<1>1. /\ Len(wire') = Len(wire) + 1 /\ wire' # <<>> /\ wire'[Len(wire) + 1] = l
      /\ \A i \in 1..Len(wire) : wire'[i] = wire[i]
  BY PlacesTyped, AppendProperties
<1>2. \A i \in 1..Len(wire) : After(i)' = After(i) BY <1>1, PlacesTyped DEF After
<1>3. \A i : i = Len(wire) + 1 => After(i)' = tm' BY <1>1, PlacesTyped DEF After
<1>4. Cut' = Cut
  <2>1. CASE wire = <<>>
    <3>1. Len(wire) = 0 BY <2>1
    <3>. QED BY <1>1, <2>1, <3>1 DEF Cut
  <2>2. CASE wire # <<>>
    <3>1. 1 \in 1..Len(wire) BY <2>2, PlacesTyped
    <3>. QED BY <1>1, <2>2, <3>1 DEF Cut
  <2>. QED BY <2>1, <2>2
<1>. QED BY <1>1, <1>2, <1>3, <1>4

(* The front line is read: the others move up.                             *)
LEMMA PopWire ==
  ASSUME TypeOK, wire # <<>>, wire' = Tail(wire), UNCHANGED <<tm, cut>>
  PROVE  /\ Len(wire') = Len(wire) - 1 /\ Len(wire') \in Nat
         /\ Head(wire) = wire[1] /\ 1 \in 1..Len(wire)
         /\ wire[1].at = Cut /\ After(1) = Cut'
         /\ \A i \in 1..Len(wire') : i + 1 \in 1..Len(wire) /\ wire'[i] = wire[i + 1]
         /\ \A i, j : i \in 1..Len(wire') /\ j = i + 1 =>
              After(i)' = After(j) /\ IsCut(i)' = IsCut(j)
         /\ IsCut(1) <=> cut /\ wire' = <<>>
<1>0. wire \in Seq(LineType) /\ Len(wire) \in Nat /\ Len(wire) > 0 BY PlacesTyped
<1>1. /\ Len(wire') = Len(wire) - 1 /\ Len(wire') \in Nat
      /\ \A i \in 1..Len(wire') : i + 1 \in 1..Len(wire) /\ wire'[i] = wire[i + 1]
      /\ Head(wire) = wire[1] /\ 1 \in 1..Len(wire)
      /\ wire' = <<>> <=> Len(wire') = 0
  <2>1. /\ wire' \in Seq(LineType) /\ Len(wire') = Len(wire) - 1
        /\ \A i \in 1..Len(wire') : wire'[i] = wire[i + 1]
    BY <1>0, HeadTailProperties
  <2>2. Head(wire) = wire[1] BY <1>0
  <2>3. wire' = <<>> <=> Len(wire') = 0 BY <2>1, EmptySeq
  <2>. QED BY <1>0, <2>1, <2>2, <2>3
<1>2. wire[1].at = Cut BY DEF Cut
<1>3. After(1) = Cut' BY <1>0, <1>1 DEF After, Cut
<1>4. \A i, j : i \in 1..Len(wire') /\ j = i + 1 =>
        After(i)' = After(j) /\ IsCut(i)' = IsCut(j)
  <2>. SUFFICES ASSUME NEW i \in 1..Len(wire'), NEW j, j = i + 1
                PROVE  After(i)' = After(j) /\ IsCut(i)' = IsCut(j)
    OBVIOUS
  <2>1. i = Len(wire') <=> j = Len(wire) BY <1>0, <1>1
  <2>2. IsCut(i)' = IsCut(j) BY <2>1 DEF IsCut
  <2>3. i # Len(wire') => wire'[i + 1] = wire[j + 1]
    <3>1. Len(wire') \in Nat BY <1>1
    <3>2. i # Len(wire') => i + 1 \in 1..Len(wire') BY <3>1
    <3>3. \A k \in 1..Len(wire') : wire'[k] = wire[k + 1] BY <1>1
    <3>. QED BY <3>2, <3>3
  <2>4. After(i)' = After(j) BY <2>1, <2>3 DEF After
  <2>. QED BY <2>2, <2>4
<1>5. IsCut(1) <=> cut /\ wire' = <<>> BY <1>0, <1>1 DEF IsCut
<1>. QED BY <1>1, <1>2, <1>3, <1>4, <1>5

-----------------------------------------------------------------------------
(* What the reader can meet at the front of the wire *)

LEMMA ReadingIs ==
  ASSUME TypeOK, NEW l, Reading(l), UNCHANGED <<tm, cut>>
  PROVE  /\ l = wire[1] /\ l \in LineType /\ l.at = Cut /\ After(1) \in TmType
         /\ rpc = "read" /\ wire # <<>> /\ wire' = Tail(wire) /\ sawFirstLine'
BY PlacesTyped, PopWire DEF Reading

LEMMA Meets ==
  ASSUME TypeOK, IInv, NEW l, Reading(l), UNCHANGED <<tm, cut>>
  PROVE  \/ IsCut(1) /\ CutTo(l) /\ (Synced \/ Stuck)
         \/ ~IsCut(1) /\ Stuck
         \/ ~IsCut(1) /\ Synced /\ LineTo(l, After(1))
<1>1. Synced \/ Stuck BY ReadingIs DEF IInv, BlockInv, Severed
<1>2. IF IsCut(1) THEN CutTo(l) ELSE LineTo(l, After(1))
  BY ReadingIs, PopWire DEF IInv, WireInv
<1>. QED BY <1>1, <1>2

(* Only a line of the open block, or a terminator that was ruined, is      *)
(* taken for body.                                                         *)
LEMMA BodyMeets ==
  ASSUME TypeOK, IInv, NEW l, Reading(l), InBlock, ~closesBlock(l), UNCHANGED <<tm, cut>>
  PROVE  \/ IsCut(1) /\ l.text = Framing
         \/ ~IsCut(1) /\ Stuck
         \/ ~IsCut(1) /\ Synced /\ BodyTo(l, After(1))
         \/ ~IsCut(1) /\ Synced /\ FooterTo(l, After(1)) /\ RuinFooter /\ ~current.unnumbered
<1>. SUFFICES ASSUME ~IsCut(1), Synced, LineTo(l, After(1))
              PROVE  \/ BodyTo(l, After(1))
                     \/ FooterTo(l, After(1)) /\ RuinFooter /\ ~current.unnumbered
  BY Meets DEF CutTo
<1>1. l.at.blk.src # Nobody BY ReadingIs DEF Synced, NoBlock, InBlock
<1>2. BodyTo(l, After(1)) \/ FooterTo(l, After(1))
  BY <1>1 DEF LineTo, HeaderTo, AsideTo
<1>3. FooterTo(l, After(1)) => RuinFooter /\ ~current.unnumbered
  BY <1>1, ReadingIs DEF FooterTo, closesBlock, Synced
<1>. QED BY <1>2, <1>3

(* Only the terminator tmux wrote for the open block closes it.            *)
LEMMA FooterMeets ==
  ASSUME TypeOK, IInv, NEW l, Reading(l), InBlock, closesBlock(l), UNCHANGED <<tm, cut>>
  PROVE  \/ IsCut(1) /\ current.owner = Tmux
         \/ ~IsCut(1) /\ Synced /\ FooterTo(l, After(1))
<1>1. ~Stuck \/ IsCut(1)
  BY ReadingIs, PopWire DEF Stuck, closesBlock
<1>2. ASSUME Synced PROVE l.at.blk.src # Nobody
  BY <1>2, ReadingIs DEF Synced, NoBlock, InBlock
<1>3. ASSUME IsCut(1) PROVE current.owner = Tmux
  <2>1. CutTo(l) BY <1>3, Meets
  <2>2. l.at = Cut /\ tm = Cut BY <2>1, ReadingIs DEF CutTo
  <2>3. CASE Stuck BY <1>3, <2>1, <2>3, ReadingIs, PopWire DEF Stuck, closesBlock
  <2>4. CASE Synced
    <3>1. l.malformed BY <1>2, <2>1, <2>4 DEF CutTo, closesBlock, Terminators
    <3>2. current.unnumbered BY <3>1 DEF closesBlock
    <3>. QED BY <1>2, <2>4, <3>2, ReadingIs DEF Synced
  <2>. QED BY <1>3, <2>3, <2>4, Meets
<1>4. ASSUME ~IsCut(1), Synced, LineTo(l, After(1)) PROVE FooterTo(l, After(1))
  <2>1. l.at.blk.src # Nobody BY <1>2, <1>4
  <2>2. ~BodyTo(l, After(1))
    BY <2>1, <1>4, ReadingIs DEF BodyTo, closesBlock, Synced
  <2>. QED BY <1>4, <2>1, <2>2 DEF LineTo, HeaderTo, AsideTo
<1>. QED BY <1>1, <1>3, <1>4, Meets

(* Between blocks a line that begins one is a header, any other is not of  *)
(* a block, and no other but a header is ever cut short.                   *)
LEMMA OutsideMeets ==
  ASSUME TypeOK, IInv, NEW l, Reading(l), ~InBlock, UNCHANGED <<tm, cut>>
  PROVE  /\ l.at.blk.src = Nobody /\ current = NoBlock /\ Synced
         /\ \/ IsCut(1) /\ l.kind = "begin"
            \/ ~IsCut(1) /\ HeaderTo(l, After(1))
            \/ ~IsCut(1) /\ AsideTo(l, After(1))
<1>1. Synced BY Meets DEF Stuck
<1>2. l.at.blk.src = Nobody
  BY <1>1, ReadingIs, ConstantsOK DEF Synced, InBlock
<1>3. current = NoBlock BY <1>1, <1>2, ReadingIs DEF Synced
<1>. QED BY <1>1, <1>2, <1>3, Meets DEF Stuck, CutTo, LineTo, BodyTo, FooterTo

(* What is left on the wire keeps its order, and whatever the line was it  *)
(* was not the last to say something.                                      *)
LEMMA ReadKeepsWire ==
  ASSUME TypeOK, IInv, NEW l, Reading(l), UNCHANGED <<pipeVars, tmuxVars>>
  PROVE  WireInv' /\ FirstLineInv' /\ NumberInv' /\ TmuxInv'
<1>. USE DEF pipeVars, tmuxVars, answerVars
<1>0. /\ wire # <<>> /\ wire' = Tail(wire) /\ UNCHANGED <<tm, cut>> /\ sawFirstLine'
  BY ReadingIs
<1>1. WireInv'
  <2>. SUFFICES ASSUME NEW i \in 1..Len(wire')
                PROVE  /\ IF IsCut(i)' THEN CutTo(wire[i])' ELSE LineTo(wire[i], After(i))'
                       /\ wire'[i].at.taken <= tm.taken
    BY DEF WireInv
  <2>1. PICK j \in 1..Len(wire) : j = i + 1 /\ wire'[i] = wire[j]
    BY <1>0, PopWire
  <2>2. After(i)' = After(j) /\ IsCut(i)' = IsCut(j)
    BY <1>0, <2>1, PopWire
  <2>3. /\ IF IsCut(j) THEN CutTo(wire[j]) ELSE LineTo(wire[j], After(j))
        /\ wire[j].at.taken <= tm.taken
    BY DEF IInv, WireInv
  <2>4. CASE IsCut(j) BY <2>1, <2>2, <2>3, <2>4 DEF CutTo
  <2>5. CASE ~IsCut(j)
    BY <2>1, <2>2, <2>3, <2>5 DEF LineTo, HeaderTo, BodyTo, FooterTo, AsideTo
  <2>. QED BY <2>4, <2>5
<1>2. FirstLineInv'
  <2>1. spoken BY <1>0 DEF IInv, FirstLineInv
  <2>2. ASSUME NEW i \in 1..Len(wire'), IsHeader(wire[i])', ~IsCut(i)'
        PROVE  /\ ~(wire'[i].malformed /\ ~wire'[i].client)
               /\ ~(~hasFlags /\ ~wire'[i].client)
    <3>1. PICK j \in 1..Len(wire) : j = i + 1 /\ wire'[i] = wire[j]
      BY <1>0, PopWire
    <3>2. ~IsCut(j) BY <1>0, <2>2, <3>1, PopWire
    <3>3. j # 1 BY <3>1
    <3>. QED BY <2>2, <3>1, <3>2, <3>3 DEF IInv, FirstLineInv, IsHeader
  <2>. QED BY <1>0, <2>1, <2>2 DEF IInv, FirstLineInv
<1>3. NumberInv'
  <2>. SUFFICES ASSUME RuinFooter, NEW i \in 1..Len(wire')
                PROVE  /\ wire'[i].at.blk.number < nextNumber
                       /\ wire'[i].at.blk.src # Nobody => wire'[i].at.blk.number > 0
                       /\ wire'[i].kind \in Terminators /\ wire'[i].at.blk.src # Nobody =>
                            /\ tm.blk.src # Nobody => tm.blk.number # wire'[i].number
                            /\ \A j \in 1..Len(wire') : j > i /\ wire'[j].kind \in Terminators =>
                                 wire'[j].number # wire'[i].number
    BY DEF NumberInv
  <2>1. /\ i + 1 \in 1..Len(wire) /\ wire'[i] = wire[i + 1]
        /\ \A j \in 1..Len(wire') : j + 1 \in 1..Len(wire) /\ wire'[j] = wire[j + 1]
        /\ \A j \in 1..Len(wire') : j > i => j + 1 > i + 1
    BY <1>0, PopWire
  <2>. QED BY <2>1 DEF IInv, NumberInv
<1>4. TmuxInv' BY DEF IInv, TmuxInv
<1>. QED BY <1>1, <1>2, <1>3, <1>4

-----------------------------------------------------------------------------
(* handleLine *)

(* Types and places the steps of the reader need.                          *)
LEMMA ReaderTypes ==
  ASSUME TypeOK
  PROVE  /\ current.owner \in Cmd => lines[current.owner] \in Seq(TextType)
         /\ queue \in Seq(Cmd) /\ bound \in Nat /\ Len(queue) \in Nat /\ Len(sent) \in Nat
         /\ Cut.blk.n \in Nat /\ Cut.taken \in Nat /\ tm.taken \in Nat
         /\ Cut.blk.number \in Nat /\ nextNumber \in Nat
         /\ Cut.blk.src \in Source /\ Cut.blk.ruined \in BOOLEAN
         /\ \A i \in 1..Len(queue) : queue[i] \in Cmd
         /\ \A i \in 1..Len(sent) : sent[i] \in Cmd
<1>1. /\ current.owner \in Cmd => lines[current.owner] \in Seq(TextType)
      /\ queue \in Seq(Cmd) /\ bound \in Nat /\ sent \in Seq(Cmd) /\ nextNumber \in Nat
  BY DEF TypeOK, TypePending, TypeTable, TypePipes, TypeTmux
<1>2. Cut \in TmType /\ tm \in TmType BY PlacesTyped
<1>. QED BY <1>1, <1>2 DEF TmType, BlkType

LEMMA ReadBodyKeeps ==
  ASSUME TypeOK, IInv, NEW l, ReadBody(l)
  PROVE  IInv'
<1>. USE DEF ReadBody, readKeeps, callVars, closeVars, pipeVars, readerVars
<1>. DEFINE own == current.owner
            body == lines[own]
<1>0. UNCHANGED tmuxVars /\ UNCHANGED <<tm, cut, nextNumber>> BY DEF tmuxVars
<1>1. /\ l = wire[1] /\ l \in LineType /\ l.at = Cut /\ After(1) \in TmType
      /\ rpc = "read" /\ wire # <<>> /\ wire' = Tail(wire) /\ sawFirstLine'
  BY <1>0, ReadingIs
<1>2. /\ After(1) = Cut' /\ (IsCut(1) <=> cut /\ wire' = <<>>)
      /\ \A i \in 1..Len(wire') : i + 1 \in 1..Len(wire) /\ wire'[i] = wire[i + 1]
  BY <1>0, <1>1, PopWire
<1>3. WireInv' /\ FirstLineInv' /\ NumberInv' /\ TmuxInv' BY <1>0, ReadKeepsWire
<1>4. /\ \A c \in Cmd : c # own => lines'[c] = lines[c]
      /\ own \in Cmd => /\ lines'[own] = Append(body, l.text) /\ Len(body) \in Nat
                        /\ Len(lines'[own]) = Len(body) + 1
                        /\ lines'[own][Len(body) + 1] = l.text
                        /\ \A i \in 1..Len(body) : lines'[own][i] = body[i]
  <2>1. \A c \in Cmd : c # own => lines'[c] = lines[c]
    BY DEF TypeOK, TypePending
  <2>2. ASSUME own \in Cmd PROVE lines'[own] = Append(body, l.text) /\ body \in Seq(TextType)
    BY <2>2 DEF TypeOK, TypePending
  <2>3. l.text \in TextType BY <1>1 DEF LineType
  <2>. QED BY <2>1, <2>2, <2>3, AppendProperties
<1>5. \/ IsCut(1) /\ l.text = Framing
      \/ ~IsCut(1) /\ Stuck
      \/ ~IsCut(1) /\ Synced /\ BodyTo(l, After(1))
      \/ ~IsCut(1) /\ Synced /\ FooterTo(l, After(1)) /\ RuinFooter /\ ~current.unnumbered
  BY <1>0, BodyMeets
<1>6. (Synced \/ Stuck) /\ ~Severed /\ bound <= tm.taken
  BY <1>1 DEF IInv, BlockInv, Severed
<1>7. QueueInv'
  <2>1. \A i \in 1..Len(queue) : lines'[queue[i]] = lines[queue[i]]
    BY <1>1, <1>4, ReaderTypes DEF IInv, BlockInv
  <2>. QED BY ZenonT(40), <1>1, <1>6, <2>1 DEF IInv, QueueInv, Unanswered
<1>8. FreshInv' BY <1>4 DEF IInv, FreshInv, Unanswered
<1>9. BlockInv'
  <2>1. CASE IsCut(1)
    BY <1>0, <1>1, <1>2, <1>6, <2>1, ReaderTypes DEF IInv, BlockInv, Severed, Unanswered
  <2>2. ASSUME (Synced \/ Stuck)' PROVE BlockInv'
    BY <1>0, <1>1, <1>6, <2>2, ReaderTypes DEF IInv, BlockInv, Severed, Unanswered
  <2>3. CASE Stuck
    BY <1>0, <1>2, <2>2, <2>3 DEF Stuck, InBlock
  <2>4. CASE Synced /\ BodyTo(l, After(1))
    <3>1. /\ Cut.blk.src # Nobody /\ Cut'.taken = Cut.taken /\ Cut'.blk = Grown(Cut.blk)
          /\ l.text = Text(Cut.blk.src, Cut.blk.n + 1)
      BY <1>1, <1>2, <2>4 DEF BodyTo
    <3>2. /\ Cut'.blk.src = Cut.blk.src /\ Cut'.blk.number = Cut.blk.number
          /\ Cut'.blk.ruined = Cut.blk.ruined /\ Cut'.blk.n = Cut.blk.n + 1
      BY <3>1 DEF Grown
    <3>3. own \in Cmd => own = Cut.blk.src
      BY <2>4, <3>1, ReaderTypes, ConstantsOK DEF Synced
    <3>4. ASSUME own \in Cmd
          PROVE  /\ Len(lines'[own]) = Cut'.blk.n
                 /\ \A i \in 1..Cut'.blk.n : lines'[own][i] = Text(own, i)
      <4>1. Len(body) = Cut.blk.n /\ \A i \in 1..Cut.blk.n : body[i] = Text(own, i)
        BY <2>4, <3>4 DEF Synced
      <4>. QED BY <1>4, <3>1, <3>2, <3>3, <3>4, <4>1, ReaderTypes
    <3>5. Synced' BY <2>4, <3>1, <3>2, <3>4 DEF Synced
    <3>. QED BY <2>2, <3>5
  <2>5. CASE Synced /\ FooterTo(l, After(1)) /\ RuinFooter /\ ~current.unnumbered
    <3>1. /\ Cut.blk.src # Nobody /\ l.kind \in Terminators /\ l.number = Cut.blk.number
          /\ current.number = l.number
      BY <1>1, <2>5 DEF FooterTo, Synced
    <3>2. /\ 0 < l.number /\ l.number < nextNumber
          /\ tm.blk.src # Nobody => tm.blk.number # l.number
          /\ \A i \in 1..Len(wire) : i > 1 /\ wire[i].kind \in Terminators =>
               wire[i].number # l.number
      <4>1. 1 \in 1..Len(wire) BY <1>1, PlacesTyped
      <4>. QED BY <1>1, <2>5, <3>1, <4>1 DEF IInv, NumberInv
    <3>3. Stuck' BY <1>0, <1>2, <1>6, <2>5, <3>1, <3>2 DEF Stuck, InBlock
    <3>. QED BY <2>2, <3>3
  <2>. QED BY <1>5, <2>1, <2>3, <2>4, <2>5
<1>10. OwnReply'
  <2>1. OwnAnswer'
    <3>1. \A c \in Cmd : outcome[c] \in Terminators => c # own
      BY <1>1 DEF IInv, BlockInv, Unanswered, Terminators
    <3>. QED BY <1>4, <3>1 DEF IInv, OwnReply, OwnAnswer, tmuxVars, answerVars
  <2>2. OwnPartialBody'
    <3>. SUFFICES ASSUME ~RuinFooter, NEW c \in Cmd, NEW i \in 1..Len(lines'[c])
                  PROVE  \/ lines'[c][i] = Text(c, i)
                         \/ cut /\ i = Len(lines'[c]) /\ lines'[c][i] = Framing
      BY <1>0 DEF OwnPartialBody
    <3>1. CASE c # own BY <1>0, <1>4, <3>1 DEF IInv, OwnReply, OwnPartialBody
    <3>2. CASE c = own
      <4>1. Synced BY <1>6 DEF Stuck
      <4>2. Len(body) = Cut.blk.n /\ \A k \in 1..Cut.blk.n : body[k] = Text(own, k)
        BY <3>2, <4>1 DEF Synced
      <4>3. CASE i <= Len(body) BY <1>4, <3>2, <4>2, <4>3
      <4>4. CASE i = Len(body) + 1
        <5>1. CASE IsCut(1) BY <1>2, <1>4, <1>5, <3>2, <4>4, <5>1
        <5>2. CASE ~IsCut(1)
          <6>1. BodyTo(l, After(1)) BY <1>5, <5>2 DEF Stuck
          <6>2. Cut.blk.src # Nobody /\ l.text = Text(Cut.blk.src, Cut.blk.n + 1)
            BY <1>1, <6>1 DEF BodyTo
          <6>3. own = Cut.blk.src
            BY <3>2, <4>1, <6>2, ReaderTypes, ConstantsOK DEF Synced
          <6>. QED BY <1>4, <3>2, <4>2, <4>4, <6>2, <6>3
        <5>. QED BY <5>1, <5>2
      <4>. QED BY <1>4, <3>2, <4>3, <4>4
    <3>. QED BY <3>1, <3>2
  <2>. QED BY <2>1, <2>2 DEF OwnReply
<1>11. GateInv' /\ BarrierHolds' BY DEF IInv, GateInv, BarrierHolds
<1>. QED BY <1>0, <1>3, <1>7, <1>8, <1>9, <1>10, <1>11, Frame DEF IInv, tmuxVars, answerVars

LEMMA ReadFooterKeeps ==
  ASSUME TypeOK, IInv, NEW l, ReadFooter(l)
  PROVE  IInv'
<1>. USE DEF ReadFooter, readKeeps, callVars, closeVars, pipeVars, readerVars
<1>. DEFINE own == current.owner
<1>0. UNCHANGED tmuxVars /\ UNCHANGED <<tm, cut, nextNumber>> BY DEF tmuxVars
<1>1. /\ l = wire[1] /\ l \in LineType /\ l.at = Cut /\ After(1) \in TmType
      /\ rpc = "read" /\ wire # <<>> /\ wire' = Tail(wire) /\ sawFirstLine'
  BY <1>0, ReadingIs
<1>2. After(1) = Cut' /\ (IsCut(1) <=> cut /\ wire' = <<>>)
  BY <1>0, <1>1, PopWire
<1>3. WireInv' /\ FirstLineInv' /\ NumberInv' /\ TmuxInv' BY <1>0, ReadKeepsWire
<1>4. /\ \A c \in Cmd : outcome'[c] = IF c = own THEN l.kind ELSE outcome[c]
      /\ \A c \in Cmd : woken'[c] = (c = own \/ woken[c])
      /\ l.kind \in Terminators /\ own # Nobody
  BY DEF TypeOK, TypePending, closesBlock, InBlock
<1>5. \/ IsCut(1) /\ own = Tmux
      \/ ~IsCut(1) /\ Synced /\ FooterTo(l, After(1))
  BY <1>0, FooterMeets
<1>6. ~Severed /\ bound <= tm.taken /\ (own \in Cmd => outcome[own] = "none")
  BY <1>1 DEF IInv, BlockInv, Severed, Unanswered
<1>7. QueueInv'
  <2>1. \A i \in 1..Len(queue) : queue[i] # own
    BY <1>1, ReaderTypes DEF IInv, BlockInv
  <2>2. \A i \in 1..Len(queue) : outcome'[queue[i]] = outcome[queue[i]]
    BY <1>4, <2>1, ReaderTypes
  <2>. QED BY <1>1, <1>6, <2>2 DEF IInv, QueueInv, Unanswered
<1>8. FreshInv' BY <1>4, ConstantsOK DEF IInv, FreshInv, Unanswered, NoBlock
<1>9. BlockInv'
  <2>0. current' = NoBlock /\ NoBlock.owner = Nobody /\ Nobody \notin Cmd
    BY ConstantsOK DEF NoBlock
  <2>1. CASE IsCut(1)
    BY <1>0, <1>2, <1>6, <2>0, <2>1, ReaderTypes DEF BlockInv, Severed
  <2>2. CASE ~IsCut(1)
    <3>1. Cut'.taken = Cut.taken /\ Cut'.blk.src = Nobody /\ Synced
      BY <1>1, <1>2, <1>5, <2>2 DEF FooterTo, TmuxIdle
    <3>2. Synced' BY <2>0, <3>1 DEF Synced
    <3>. QED BY <1>0, <1>6, <2>0, <3>2, ReaderTypes DEF BlockInv, Severed
  <2>. QED BY <2>1, <2>2
<1>10. WakeInv'
  <2>1. \A c \in Cmd : PastWrite(c) =>
          woken'[c] \/ current'.owner = c \/ \E i \in 1..Len(queue) : queue[i] = c
    BY <1>1, <1>4 DEF IInv, WakeInv
  <2>. QED BY <1>1, <2>1 DEF IInv, WakeInv, PastWrite
<1>11. OwnReply'
  <2>1. OwnPartialBody' BY <1>0 DEF IInv, OwnReply, OwnPartialBody
  <2>2. ASSUME NEW c \in Cmd, outcome'[c] \in Terminators
        PROVE  /\ verdict[c] = outcome'[c]
               /\ Len(lines[c]) = bodyLen[c]
               /\ \A i \in 1..Len(lines[c]) : lines[c][i] = Text(c, i)
    <3>1. CASE c # own BY <1>4, <2>2, <3>1 DEF IInv, OwnReply, OwnAnswer
    <3>2. CASE c = own
      <4>1. Synced /\ FooterTo(l, After(1)) BY <1>5, <3>2, ConstantsOK
      <4>2. own = Cut.blk.src
        BY <1>1, <3>2, <4>1, ReaderTypes, ConstantsOK DEF Synced, FooterTo
      <4>3. verdict[c] = l.kind /\ bodyLen[c] = Cut.blk.n
        BY <1>1, <3>2, <4>1, <4>2 DEF FooterTo
      <4>. QED BY <1>4, <3>2, <4>1, <4>3 DEF Synced
    <3>. QED BY <3>1, <3>2
  <2>3. OwnAnswer' BY <1>0, <2>2 DEF OwnAnswer, tmuxVars, answerVars
  <2>. QED BY <2>1, <2>3 DEF OwnReply
<1>12. ProtocolErrorIsOwn'
  BY <1>0, <1>4 DEF IInv, ProtocolErrorIsOwn, Terminators, tmuxVars, answerVars
<1>13. GateInv' /\ BarrierHolds' BY DEF IInv, GateInv, BarrierHolds
<1>14. DoneWakesAll' BY <1>4 DEF IInv, DoneWakesAll
<1>. QED BY <1>0, <1>3, <1>7, <1>8, <1>9, <1>10, <1>11, <1>12, <1>13, <1>14, Frame
     DEF IInv, tmuxVars, answerVars

(* The front of the queue is taken, once.                                  *)
LEMMA TakeFront ==
  ASSUME TypeOK, IInv, rpc = "read", queue # <<>>, queue' = Tail(queue), bound' = bound + 1,
         UNCHANGED <<sent, rpc>>
  PROVE  /\ Len(queue') = Len(queue) - 1 /\ Len(queue') \in Nat
         /\ Head(queue) = queue[1] /\ 1 \in 1..Len(queue) /\ Head(queue) \in Cmd
         /\ pc[Head(queue)] \in Joined
         /\ outcome[Head(queue)] = "none" /\ lines[Head(queue)] = <<>>
         /\ \A i \in 1..Len(queue') : /\ i + 1 \in 1..Len(queue) /\ queue'[i] = queue[i + 1]
                                      /\ queue'[i] \in Cmd /\ queue'[i] # Head(queue)
         /\ \A i \in 1..Len(queue) : queue[i] # Head(queue) =>
              \E j \in 1..Len(queue') : queue'[j] = queue[i]
         /\ QueueAligned'
<1>0. queue \in Seq(Cmd) /\ Len(queue) \in Nat /\ Len(queue) > 0 /\ bound \in Nat
      /\ Len(sent) \in Nat /\ \A i \in 1..Len(queue) : queue[i] \in Cmd
  BY ReaderTypes
<1>1. /\ Len(queue') = Len(queue) - 1 /\ Len(queue') \in Nat
      /\ \A i \in 1..Len(queue') : i + 1 \in 1..Len(queue) /\ queue'[i] = queue[i + 1]
  <2>1. Len(queue') = Len(queue) - 1 /\ \A i \in 1..Len(queue') : queue'[i] = queue[i + 1]
    BY <1>0, HeadTailProperties
  <2>. QED BY <1>0, <2>1
<1>2. Head(queue) = queue[1] /\ 1 \in 1..Len(queue) BY <1>0
<1>3. pc[queue[1]] \in Joined BY <1>2, QueuedHaveJoined
<1>4. outcome[queue[1]] = "none" /\ lines[queue[1]] = <<>>
  BY <1>2 DEF IInv, QueueInv, Unanswered
<1>5. \A i \in 1..Len(queue') : queue'[i] \in Cmd /\ queue'[i] # queue[1]
  <2>. SUFFICES ASSUME NEW i \in 1..Len(queue')
                PROVE  queue'[i] \in Cmd /\ queue'[i] # queue[1]
    OBVIOUS
  <2>1. i + 1 \in 1..Len(queue) /\ queue'[i] = queue[i + 1] /\ i + 1 # 1 BY <1>1
  <2>. QED BY <1>0, <1>2, <2>1 DEF IInv, QueueInv
<1>6. ASSUME NEW i \in 1..Len(queue), queue[i] # queue[1]
      PROVE  \E j \in 1..Len(queue') : queue'[j] = queue[i]
  <2>1. i - 1 \in 1..Len(queue') /\ queue'[i - 1] = queue[i] BY <1>0, <1>1, <1>6
  <2>. QED BY <2>1
<1>7. QueueAligned'
  <2>. SUFFICES ASSUME NEW i \in 1..(Len(sent) - (bound + 1))
                PROVE  i <= Len(queue') /\ queue'[i] = sent[bound + 1 + i]
    BY DEF QueueAligned
  <2>1. i + 1 \in 1..(Len(sent) - bound) /\ bound + (i + 1) = bound + 1 + i BY <1>0
  <2>2. i + 1 <= Len(queue) /\ queue[i + 1] = sent[bound + 1 + i]
    BY <2>1 DEF IInv, QueueAligned
  <2>3. i \in 1..Len(queue') BY <1>0, <1>1, <2>2
  <2>. QED BY <1>1, <2>2, <2>3
<1>. QED BY <1>1, <1>2, <1>3, <1>4, <1>5, <1>6, <1>7, <1>0

(* A whole header that answers this client answers the command at the      *)
(* front of the queue; one that does not is told from it by its flags or   *)
(* by the barrier.                                                         *)
LEMMA HeaderMeets ==
  ASSUME TypeOK, IInv, NEW l, Reading(l), ~InBlock, l.kind = "begin", ~IsCut(1),
         UNCHANGED <<tm, cut>>
  PROVE  /\ HeaderTo(l, After(1)) /\ bound = Cut.taken
         /\ l.client => /\ startup /\ queue # <<>> /\ bound < Len(sent)
                        /\ Head(queue) = sent[bound + 1]
                        /\ After(1).blk.src = Head(queue) /\ After(1).taken = bound + 1
                        /\ l.malformed => sawFirstLine /\ Head(queue) \in ruinedReply
         /\ ~l.client => /\ After(1).blk.src = Tmux /\ After(1).taken = bound
                         /\ ~hasFlags => ~startup
                         /\ l.malformed => ~sawFirstLine
<1>1. /\ HeaderTo(l, After(1)) /\ Synced /\ l.at = Cut /\ l.at.blk.src = Nobody
      /\ l = wire[1] /\ 1 \in 1..Len(wire) /\ rpc = "read" /\ After(1) \in TmType
  BY OutsideMeets, ReadingIs, PopWire DEF AsideTo
<1>2. bound = Cut.taken BY <1>1 DEF Synced
<1>3. /\ l.malformed /\ l.client => sawFirstLine
      /\ l.malformed /\ ~l.client => ~sawFirstLine
      /\ ~hasFlags /\ ~l.client => ~sawFirstLine /\ hasStartup
  BY <1>1 DEF IInv, FirstLineInv, IsHeader
<1>4. ASSUME l.client
      PROVE  /\ startup /\ queue # <<>> /\ bound < Len(sent)
             /\ Head(queue) = sent[bound + 1]
             /\ After(1).blk.src = Head(queue) /\ After(1).taken = bound + 1
             /\ l.malformed => sawFirstLine /\ Head(queue) \in ruinedReply
  <2>1. /\ After(1).taken = bound + 1 /\ bound + 1 <= Len(sent)
        /\ After(1).blk.src = sent[bound + 1]
        /\ l.malformed => After(1).blk.src \in ruinedReply
    BY <1>1, <1>2, <1>4 DEF HeaderTo
  <2>2. bound < Len(sent) /\ 1 \in 1..(Len(sent) - bound) BY <2>1, ReaderTypes
  <2>3. 1 <= Len(queue) /\ queue[1] = sent[bound + 1]
    BY <1>1, <2>2 DEF IInv, QueueAligned
  <2>4. queue # <<>> /\ Head(queue) = queue[1] BY <2>3, ReaderTypes
  <2>5. startup
    <3>1. sent # <<>> BY <2>2, ReaderTypes
    <3>. QED BY <3>1 DEF IInv, BarrierHolds
  <2>. QED BY <1>3, <1>4, <2>1, <2>2, <2>3, <2>4, <2>5
<1>5. ASSUME ~l.client
      PROVE  /\ After(1).blk.src = Tmux /\ After(1).taken = bound
             /\ ~hasFlags => ~startup
             /\ l.malformed => ~sawFirstLine
  <2>1. After(1).blk.src = Tmux
    <3>1. After(1).blk.src \in Source BY <1>1 DEF TmType, BlkType
    <3>. QED BY <1>1, <1>5, <3>1 DEF HeaderTo, Source
  <2>2. After(1).taken = bound BY <1>1, <1>2, <2>1 DEF HeaderTo
  <2>3. ~hasFlags => ~startup BY <1>1, <1>3, <1>5 DEF IInv, FirstLineInv
  <2>. QED BY <1>3, <1>5, <2>1, <2>2, <2>3
<1>. QED BY <1>1, <1>2, <1>4, <1>5

(* A block that answers no call: tmux's own, or one whose header is lost.  *)
LEMMA OrphanKeeps ==
  ASSUME TypeOK, IInv, NEW l, Reading(l), ~InBlock, l.kind = "begin",
         IsCut(1) \/ ~l.client, UNCHANGED <<queue, bound, outcome, woken>>,
         UNCHANGED <<lines, startup, sawExit, readerVars, readKeeps>>,
         NEW n, l.malformed \/ n = l.number,
         current' = [owner |-> Tmux, number |-> n, unnumbered |-> l.malformed]
  PROVE  IInv'
<1>. USE DEF readKeeps, callVars, closeVars, pipeVars, readerVars
<1>0. UNCHANGED tmuxVars /\ UNCHANGED <<tm, cut, nextNumber>> BY DEF tmuxVars
<1>1. /\ l = wire[1] /\ l \in LineType /\ l.at = Cut /\ After(1) \in TmType
      /\ rpc = "read" /\ wire # <<>> /\ wire' = Tail(wire) /\ sawFirstLine'
  BY <1>0, ReadingIs
<1>2. After(1) = Cut' /\ (IsCut(1) <=> cut /\ wire' = <<>>)
  BY <1>0, <1>1, PopWire
<1>3. WireInv' /\ FirstLineInv' /\ NumberInv' /\ TmuxInv' BY <1>0, ReadKeepsWire
<1>4. current'.owner = Tmux /\ Tmux \notin Cmd /\ Nobody \notin Cmd /\ Tmux # Nobody
      /\ current.owner = Nobody
  BY ConstantsOK DEF InBlock
<1>5. ~Severed /\ bound <= tm.taken BY <1>1 DEF IInv, BlockInv, Severed
<1>6. QueueInv' BY <1>1, <1>5 DEF IInv, QueueInv, Unanswered
<1>7. FreshInv' BY <1>4 DEF IInv, FreshInv, Unanswered
<1>8. BlockInv'
  <2>1. CASE IsCut(1) BY <1>0, <1>2, <1>4, <1>5, <2>1, ReaderTypes DEF BlockInv, Severed
  <2>2. CASE ~IsCut(1)
    <3>1. HeaderTo(l, After(1)) /\ After(1).blk.src = Tmux /\ After(1).taken = bound
      BY <1>0, <2>2, HeaderMeets
    <3>2. Cut'.taken = bound /\ Cut'.blk.src = Tmux /\ Cut'.blk.ruined = l.malformed
          /\ Cut'.blk.number = l.number
      BY <1>2, <3>1 DEF HeaderTo
    <3>3. Synced' BY <1>4, <3>2 DEF Synced
    <3>. QED BY <1>0, <1>4, <1>5, <3>3, ReaderTypes DEF BlockInv, Severed
  <2>. QED BY <2>1, <2>2
<1>9. WakeInv' BY <1>4 DEF IInv, WakeInv, PastWrite
<1>. QED BY <1>0, <1>3, <1>6, <1>7, <1>8, <1>9, Frame DEF IInv, tmuxVars, answerVars

(* The front of the queue is bound to the block that begins.               *)
LEMMA BindKeeps ==
  ASSUME TypeOK, IInv, NEW l, Reading(l), ~InBlock, l.kind = "begin", ~l.malformed,
         IsCut(1) \/ l.client, queue # <<>>,
         current' = [owner |-> Head(queue), number |-> l.number, unnumbered |-> FALSE],
         queue' = Tail(queue), bound' = bound + 1,
         UNCHANGED <<pendingVars, startup, sawExit, readerVars, readKeeps>>
  PROVE  IInv'
<1>. USE DEF readKeeps, callVars, closeVars, pipeVars, readerVars, pendingVars
<1>. DEFINE c == Head(queue)
<1>0. UNCHANGED tmuxVars /\ UNCHANGED <<tm, cut, nextNumber>> BY DEF tmuxVars
<1>1. /\ l = wire[1] /\ l \in LineType /\ l.at = Cut /\ After(1) \in TmType
      /\ rpc = "read" /\ wire # <<>> /\ wire' = Tail(wire) /\ sawFirstLine'
  BY <1>0, ReadingIs
<1>2. After(1) = Cut' /\ (IsCut(1) <=> cut /\ wire' = <<>>)
  BY <1>0, <1>1, PopWire
<1>3. WireInv' /\ FirstLineInv' /\ NumberInv' /\ TmuxInv' BY <1>0, ReadKeepsWire
<1>4. /\ Len(queue') = Len(queue) - 1 /\ Len(queue') \in Nat
      /\ c = queue[1] /\ 1 \in 1..Len(queue) /\ c \in Cmd
      /\ pc[c] \in Joined
      /\ outcome[c] = "none" /\ lines[c] = <<>>
      /\ \A i \in 1..Len(queue') : /\ i + 1 \in 1..Len(queue) /\ queue'[i] = queue[i + 1]
                                   /\ queue'[i] \in Cmd /\ queue'[i] # c
      /\ \A i \in 1..Len(queue) : queue[i] # c =>
           \E j \in 1..Len(queue') : queue'[j] = queue[i]
      /\ QueueAligned'
  BY <1>1, TakeFront
<1>5. ~Severed /\ bound <= tm.taken BY <1>1 DEF IInv, BlockInv, Severed
<1>6. ~IsCut(1) => /\ HeaderTo(l, After(1)) /\ bound < Len(sent) /\ c = sent[bound + 1]
                   /\ After(1).blk.src = c /\ After(1).taken = bound + 1
  BY <1>0, HeaderMeets
<1>7. QueueInv'
  <2>1. \A i, j \in 1..Len(queue') : queue'[i] = queue'[j] => i = j
    <3>. SUFFICES ASSUME NEW i \in 1..Len(queue'), NEW j \in 1..Len(queue'),
                         queue'[i] = queue'[j]
                  PROVE  i = j
      OBVIOUS
    <3>1. i + 1 = j + 1 BY <1>1, <1>4 DEF IInv, QueueInv
    <3>. QED BY <1>4, <3>1
  <2>2. ASSUME NEW i \in 1..Len(queue'), i > Len(sent) - bound'
        PROVE  pc[queue'[i]] \in {"write", "unqueue"}
    <3>1. i + 1 \in 1..Len(queue) /\ i + 1 > Len(sent) - bound
      BY SMTT(30), <1>4, <2>2, ReaderTypes
    <3>. QED BY <1>1, <1>4, <3>1 DEF IInv, QueueInv
  <2>3. \A i \in 1..Len(queue') : outcome[queue'[i]] = "none" /\ lines[queue'[i]] = <<>>
    BY <1>1, <1>4 DEF IInv, QueueInv, Unanswered
  <2>4. ASSUME ~Severed', NEW d \in Cmd, pc[d] = "write"
        PROVE  \E i \in 1..Len(queue') : queue'[i] = d
    <3>1. ~IsCut(1) BY <1>0, <1>2, <2>4 DEF Severed
    <3>2. bound + 1 \in 1..Len(sent) BY <1>6, <3>1, ReaderTypes
    <3>3. pc[c] # "write" BY <1>6, <3>1, <3>2 DEF IInv, SentInv
    <3>4. PICK i \in 1..Len(queue) : queue[i] = d
      BY <1>1, <1>5, <2>4 DEF IInv, QueueInv
    <3>5. queue[i] # c BY <2>4, <3>3, <3>4
    <3>. QED BY <1>4, <3>4, <3>5
  <2>. QED BY <1>0, <2>1, <2>2, <2>3, <2>4 DEF QueueInv, Unanswered
<1>8. FreshInv' BY <1>4 DEF IInv, FreshInv, Unanswered, Joined
<1>9. BlockInv'
  <2>1. /\ current'.owner = c /\ current'.number = l.number /\ ~current'.unnumbered
        /\ c # Tmux /\ c # Nobody
    BY <1>4, ConstantsOK
  <2>2. CASE IsCut(1)
    BY <1>0, <1>2, <1>4, <1>5, <2>1, <2>2, ReaderTypes DEF BlockInv, Severed, Unanswered
  <2>3. CASE ~IsCut(1)
    <3>1. /\ Cut'.taken = bound + 1 /\ Cut'.blk.src = c /\ Cut'.blk.ruined = FALSE
          /\ Cut'.blk.number = l.number /\ Cut'.blk.n = 0
      BY <1>2, <1>6, <2>3 DEF HeaderTo
    <3>2. Len(lines'[c]) = 0 /\ \A i \in 1..0 : lines'[c][i] = Text(c, i) BY <1>4
    <3>3. Synced'
      <4>. HIDE DEF c
      <4>. QED BY <2>1, <3>1, <3>2 DEF Synced
    <3>4. bound + 1 <= tm.taken
      <4>1. CASE wire' = <<>> BY <1>0, <3>1, <4>1 DEF Cut
      <4>2. CASE wire' # <<>>
        <5>1. 1 \in 1..Len(wire') /\ Cut' = wire'[1].at
          <6>1. Len(wire') > 0 BY <1>1, <4>2, PlacesTyped
          <6>. QED BY <4>2, <6>1 DEF Cut
        <5>. QED BY <1>0, <1>3, <3>1, <5>1 DEF WireInv
      <4>. QED BY <4>1, <4>2
    <3>. QED BY <1>0, <1>4, <2>1, <3>3, <3>4, ReaderTypes DEF BlockInv, Severed, Unanswered
  <2>. QED BY <2>2, <2>3
<1>10. WakeInv'
  <2>1. ASSUME NEW d \in Cmd, PastWrite(d)
        PROVE  woken[d] \/ current'.owner = d \/ \E i \in 1..Len(queue') : queue'[i] = d
    <3>1. woken[d] \/ \E i \in 1..Len(queue) : queue[i] = d
      BY <1>1, <2>1, ConstantsOK DEF IInv, WakeInv, InBlock
    <3>. QED BY <1>4, <3>1
  <2>. QED BY <1>1, <2>1 DEF IInv, WakeInv, PastWrite
<1>11. BarrierHolds' BY DEF IInv, BarrierHolds
<1>. QED BY <1>0, <1>3, <1>4, <1>7, <1>8, <1>9, <1>10, <1>11, Frame
     DEF IInv, tmuxVars, answerVars

(* The command at the front fails with the header of its reply, or, when   *)
(* tmux died in a header, with the connection.                             *)
LEMMA FailHeadKeeps ==
  ASSUME TypeOK, IInv, NEW l, Reading(l), ~InBlock, l.kind = "begin", l.malformed,
         sawFirstLine, queue # <<>>, queue' = Tail(queue), bound' = bound + 1,
         current' = [owner |-> Tmux, number |-> 0, unnumbered |-> TRUE],
         outcome' = [outcome EXCEPT ![Head(queue)] = "protocol"],
         woken' = [woken EXCEPT ![Head(queue)] = TRUE],
         UNCHANGED <<lines, startup, sawExit, readerVars, readKeeps>>
  PROVE  IInv'
<1>. USE DEF readKeeps, callVars, closeVars, pipeVars, readerVars
<1>. DEFINE c == Head(queue)
<1>0. UNCHANGED tmuxVars /\ UNCHANGED <<tm, cut, nextNumber>> BY DEF tmuxVars
<1>1. /\ l = wire[1] /\ l \in LineType /\ l.at = Cut /\ After(1) \in TmType
      /\ rpc = "read" /\ wire # <<>> /\ wire' = Tail(wire) /\ sawFirstLine'
  BY <1>0, ReadingIs
<1>2. After(1) = Cut' /\ (IsCut(1) <=> cut /\ wire' = <<>>)
  BY <1>0, <1>1, PopWire
<1>3. WireInv' /\ FirstLineInv' /\ NumberInv' /\ TmuxInv' BY <1>0, ReadKeepsWire
<1>4. /\ Len(queue') = Len(queue) - 1 /\ Len(queue') \in Nat
      /\ c = queue[1] /\ 1 \in 1..Len(queue) /\ c \in Cmd
      /\ pc[c] \in Joined
      /\ \A i \in 1..Len(queue') : /\ i + 1 \in 1..Len(queue) /\ queue'[i] = queue[i + 1]
                                   /\ queue'[i] \in Cmd /\ queue'[i] # c
      /\ \A i \in 1..Len(queue) : queue[i] # c =>
           \E j \in 1..Len(queue') : queue'[j] = queue[i]
      /\ QueueAligned'
  BY <1>1, TakeFront
<1>5. ~Severed /\ bound <= tm.taken BY <1>1 DEF IInv, BlockInv, Severed
<1>6. ~IsCut(1) => /\ HeaderTo(l, After(1)) /\ bound < Len(sent) /\ c = sent[bound + 1]
                   /\ After(1).blk.src = c /\ After(1).taken = bound + 1
                   /\ c \in ruinedReply
  BY <1>0, HeaderMeets
<1>7. /\ \A d \in Cmd : outcome'[d] = IF d = c THEN "protocol" ELSE outcome[d]
      /\ \A d \in Cmd : woken'[d] = (d = c \/ woken[d])
      /\ current'.owner = Tmux /\ current'.unnumbered /\ current.owner = Nobody
      /\ Tmux \notin Cmd /\ Nobody \notin Cmd /\ Tmux # Nobody
  <2>1. \A d \in Cmd : outcome'[d] = IF d = c THEN "protocol" ELSE outcome[d]
    BY DEF TypeOK, TypePending
  <2>2. \A d \in Cmd : woken'[d] = (d = c \/ woken[d])
    BY DEF TypeOK, TypePending
  <2>. QED BY <2>1, <2>2, ConstantsOK DEF InBlock
<1>8. QueueInv'
  <2>1. \A i, j \in 1..Len(queue') : queue'[i] = queue'[j] => i = j
    <3>. SUFFICES ASSUME NEW i \in 1..Len(queue'), NEW j \in 1..Len(queue'),
                         queue'[i] = queue'[j]
                  PROVE  i = j
      OBVIOUS
    <3>1. i + 1 = j + 1 BY <1>1, <1>4 DEF IInv, QueueInv
    <3>. QED BY <1>4, <3>1
  <2>2. ASSUME NEW i \in 1..Len(queue'), i > Len(sent) - bound'
        PROVE  pc[queue'[i]] \in {"write", "unqueue"}
    <3>1. i + 1 \in 1..Len(queue) /\ i + 1 > Len(sent) - bound
      BY <1>4, <2>2, ReaderTypes
    <3>. QED BY <1>1, <1>4, <3>1 DEF IInv, QueueInv
  <2>3. \A i \in 1..Len(queue') : outcome'[queue'[i]] = "none" /\ lines[queue'[i]] = <<>>
    <3>1. \A i \in 1..Len(queue') : outcome'[queue'[i]] = outcome[queue'[i]]
      BY <1>4, <1>7
    <3>. QED BY <1>1, <1>4, <3>1 DEF IInv, QueueInv, Unanswered
  <2>4. ASSUME ~Severed', NEW d \in Cmd, pc[d] = "write"
        PROVE  \E i \in 1..Len(queue') : queue'[i] = d
    <3>1. ~IsCut(1) BY <1>0, <1>2, <2>4 DEF Severed
    <3>2. bound + 1 \in 1..Len(sent) BY <1>6, <3>1, ReaderTypes
    <3>3. pc[c] # "write" BY <1>6, <3>1, <3>2 DEF IInv, SentInv
    <3>4. PICK i \in 1..Len(queue) : queue[i] = d
      BY <1>1, <1>5, <2>4 DEF IInv, QueueInv
    <3>5. queue[i] # c BY <2>4, <3>3, <3>4
    <3>. QED BY <1>4, <3>4, <3>5
  <2>. QED BY <1>0, <2>1, <2>2, <2>3, <2>4 DEF QueueInv, Unanswered
<1>9. FreshInv'
  <2>1. \A d \in Cmd : pc[d] \in {"idle", "barrier", "lock"} => d # c
    BY <1>4 DEF Joined
  <2>. QED BY <1>7, <2>1 DEF IInv, FreshInv, Unanswered
<1>10. BlockInv'
  <2>1. CASE IsCut(1)
    BY <1>0, <1>2, <1>5, <1>7, <2>1, ReaderTypes DEF BlockInv, Severed
  <2>2. CASE ~IsCut(1)
    <3>1. /\ Cut'.taken = bound + 1 /\ Cut'.blk.src = c /\ Cut'.blk.ruined = TRUE
      BY <1>2, <1>6, <2>2 DEF HeaderTo
    <3>2. Synced'
      <4>1. Cut'.taken = bound' /\ Cut'.blk.src # Nobody /\ Cut'.blk.ruined
        BY <1>4, <1>7, <3>1
      <4>. QED BY <1>7, <4>1 DEF Synced
    <3>3. bound + 1 <= tm.taken
      <4>1. CASE wire' = <<>> BY <1>0, <3>1, <4>1 DEF Cut
      <4>2. CASE wire' # <<>>
        <5>1. 1 \in 1..Len(wire') /\ Cut' = wire'[1].at
          <6>1. Len(wire') > 0 BY <1>1, <4>2, PlacesTyped
          <6>. QED BY <4>2, <6>1 DEF Cut
        <5>. QED BY <1>0, <1>3, <3>1, <5>1 DEF WireInv
      <4>. QED BY <4>1, <4>2
    <3>. QED BY <1>0, <1>7, <3>2, <3>3, ReaderTypes DEF BlockInv, Severed
  <2>. QED BY <2>1, <2>2
<1>11. WakeInv'
  <2>1. ASSUME NEW d \in Cmd, PastWrite(d)
        PROVE  woken'[d] \/ \E i \in 1..Len(queue') : queue'[i] = d
    <3>1. woken[d] \/ \E i \in 1..Len(queue) : queue[i] = d
      BY <1>1, <1>7, <2>1 DEF IInv, WakeInv
    <3>2. ASSUME NEW i \in 1..Len(queue), queue[i] = d, d # c
          PROVE  \E j \in 1..Len(queue') : queue'[j] = d
      BY <1>4, <3>2
    <3>. HIDE DEF c
    <3>. QED BY <1>7, <3>1, <3>2
  <2>. QED BY <1>1, <2>1 DEF IInv, WakeInv, PastWrite
<1>12. OwnReply'
  <2>1. OwnPartialBody' BY <1>0 DEF IInv, OwnReply, OwnPartialBody
  <2>2. OwnAnswer' BY <1>7 DEF IInv, OwnReply, OwnAnswer, Terminators, tmuxVars, answerVars
  <2>. QED BY <2>1, <2>2 DEF OwnReply
<1>13. ProtocolErrorIsOwn'
  BY <1>6, <1>7 DEF IInv, ProtocolErrorIsOwn, IsCut, tmuxVars, answerVars
<1>14. BarrierHolds' BY DEF IInv, BarrierHolds
<1>15. DoneWakesAll' BY <1>7 DEF IInv, DoneWakesAll
<1>. QED BY <1>0, <1>3, <1>4, <1>8, <1>9, <1>10, <1>11, <1>12, <1>13, <1>14, <1>15, Frame
     DEF IInv, tmuxVars, answerVars

LEMMA ReadHeaderKeeps ==
  ASSUME TypeOK, IInv, NEW l, ReadHeader(l) \/ ReadRuinedHeader(l)
  PROVE  IInv'
<1>0. UNCHANGED <<tm, cut>> BY DEF ReadHeader, ReadRuinedHeader, readKeeps, tmuxVars
<1>1. CASE ReadHeader(l) /\ beginsOrphan(l)
  <2>1. IsCut(1) \/ ~l.client
    BY <1>0, <1>1, HeaderMeets DEF ReadHeader, beginsOrphan, unsolicitedBlock
  <2>2. l.malformed = FALSE BY <1>0, <1>1, ReadingIs DEF ReadHeader, LineType
  <2>. QED BY <1>1, <2>1, <2>2, OrphanKeeps DEF ReadHeader, pendingVars
<1>2. CASE ReadHeader(l) /\ ~beginsOrphan(l)
  <2>1. IsCut(1) \/ l.client
    BY <1>0, <1>2, HeaderMeets DEF ReadHeader, beginsOrphan, unsolicitedBlock
  <2>. QED BY <1>2, <2>1, BindKeeps DEF ReadHeader, beginsOrphan
<1>3. CASE ReadRuinedHeader(l) /\ ~failsHead
  <2>1. IsCut(1) \/ ~l.client
    BY <1>0, <1>3, HeaderMeets DEF ReadRuinedHeader, failsHead
  <2>2. l.malformed = TRUE BY <1>0, <1>3, ReadingIs DEF ReadRuinedHeader, LineType
  <2>. QED BY <1>3, <2>1, <2>2, OrphanKeeps DEF ReadRuinedHeader
<1>4. CASE ReadRuinedHeader(l) /\ failsHead
  BY <1>4, FailHeadKeeps DEF ReadRuinedHeader, failsHead, failHead
<1>. QED BY <1>1, <1>2, <1>3, <1>4

(* A line between blocks that opens none.                                  *)
LEMMA ReadOutsideKeeps ==
  ASSUME TypeOK, IInv, NEW l, ReadStrayFooter(l) \/ ReadAside(l) \/ ReadExit(l)
  PROVE  IInv'
<1>. USE DEF ReadStrayFooter, ReadAside, ReadExit, readKeeps, callVars, closeVars, pipeVars,
             readerVars, tableVars, pendingVars
<1>0. UNCHANGED tmuxVars /\ UNCHANGED <<tm, cut, nextNumber>> BY DEF tmuxVars
<1>a. Reading(l) /\ ~InBlock /\ l.kind # "begin" /\ (startup => startup')
  BY DEF Terminators
<1>1. /\ l = wire[1] /\ l.at = Cut /\ rpc = "read" /\ wire # <<>> /\ wire' = Tail(wire)
      /\ sawFirstLine'
  BY <1>0, <1>a, ReadingIs
<1>2. After(1) = Cut' /\ (IsCut(1) <=> cut /\ wire' = <<>>)
  BY <1>0, <1>1, PopWire
<1>3. ~IsCut(1) /\ AsideTo(l, After(1)) /\ Synced
  BY <1>0, <1>a, OutsideMeets DEF HeaderTo
<1>4. WireInv' /\ FirstLineInv' /\ NumberInv' /\ TmuxInv'
  BY <1>0, <1>a, ReadKeepsWire
<1>5. Cut' = Cut BY <1>1, <1>2, <1>3 DEF AsideTo
<1>6. Synced' BY <1>3, <1>5 DEF Synced
<1>7. ~Severed /\ ~Severed' BY <1>0, <1>1, <1>2, <1>3 DEF Severed
<1>8. QueueInv' BY <1>1, <1>7 DEF IInv, QueueInv, Unanswered
<1>9. BlockInv' BY <1>0, <1>1, <1>6, <1>7 DEF IInv, BlockInv, Unanswered
<1>10. WakeInv' BY <1>1 DEF IInv, WakeInv, PastWrite
<1>11. GateInv' /\ BarrierHolds' BY <1>a DEF IInv, GateInv, BarrierHolds
<1>12. ExitIsTmuxs'
  <2>1. sawExit' => sawExit \/ l.kind = "exit" OBVIOUS
  <2>. QED BY <1>3, <2>1 DEF IInv, ExitIsTmuxs, AsideTo, tmuxVars
<1>13. QueueAligned' BY <1>1 DEF IInv, QueueAligned
<1>. QED BY <1>0, <1>4, <1>8, <1>9, <1>10, <1>11, <1>12, <1>13, Frame
     DEF IInv, tmuxVars, answerVars

LEMMA ReaderKeeps ==
  ASSUME TypeOK, IInv, ReaderStep
  PROVE  IInv'
BY ReadBodyKeeps, ReadFooterKeeps, ReadHeaderKeeps, ReadOutsideKeeps, FinishKeeps
DEF ReaderStep, handleLine

-----------------------------------------------------------------------------
(* tmux *)

(* tmux writes a line: what it says of tmux's step is true, it is not the  *)
(* terminator of a block whose own has gone by, and a header that is       *)
(* ruined or tmux's own comes where one may.                               *)
LEMMA SayingKeeps ==
  ASSUME TypeOK, IInv, TypeOK', TmuxInv', up,
         NEW l \in LineType, l.at = tm, wire' = Append(wire, l), spoken',
         UNCHANGED tmuxKeepsButCut,
         IF cut' THEN CutTo(l)' ELSE LineTo(l, tm)',
         tm.taken <= tm'.taken, nextNumber <= nextNumber', unsolicited' <= MaxUnsolicited,
         ruinedReply \subseteq ruinedReply', saidExit => saidExit',
         \A c \in Cmd : verdict[c] # "none" =>
           verdict'[c] = verdict[c] /\ bodyLen'[c] = bodyLen[c],
         tm'.blk.src # Nobody =>
           \/ tm'.blk.number = nextNumber
           \/ tm.blk.src # Nobody /\ tm'.blk.number = tm.blk.number,
         l.kind \in Terminators =>
           \/ ~RuinFooter \/ l.number = 0
           \/ tm.blk.src # Nobody /\ l.number = tm.blk.number /\ tm'.blk.src = Nobody,
         IsHeader(l) /\ ~cut' =>
           /\ l.malformed /\ l.client => spoken
           /\ l.malformed /\ ~l.client => ~spoken
           /\ ~hasFlags /\ ~l.client => ~spoken /\ hasStartup
  PROVE  IInv'
<1>. USE DEF tmuxKeepsButCut, callVars, tableVars, pendingVars, flagVars, readerVars,
             closeVars, pipeVars
<1>0. /\ ~cut /\ ~Severed /\ Len(wire) \in Nat
      /\ tm.blk.number \in Nat /\ nextNumber \in Nat /\ nextNumber' \in Nat
      /\ tm.taken \in Nat /\ tm'.taken \in Nat
      /\ \A i \in 1..Len(wire) : /\ wire[i].at.taken \in Nat /\ wire[i].at.blk.number \in Nat
                                 /\ wire[i].number \in Nat
  <2>1. ~cut /\ ~Severed BY DEF IInv, TmuxInv, Severed
  <2>2. nextNumber \in Nat /\ nextNumber' \in Nat BY DEF TypeOK, TypeTmux
  <2>3. tm \in TmType /\ tm' \in TmType BY DEF TypeOK, TypeTmux
  <2>4. \A i \in 1..Len(wire) : wire[i].at \in TmType /\ wire[i].number \in Nat
    BY PlacesTyped DEF LineType
  <2>. QED BY <2>1, <2>2, <2>3, <2>4, PlacesTyped DEF TmType, BlkType
<1>1. /\ Len(wire') = Len(wire) + 1 /\ wire' # <<>> /\ wire'[Len(wire) + 1] = l
      /\ \A i \in 1..Len(wire) : wire'[i] = wire[i] /\ After(i)' = After(i)
      /\ \A i : i = Len(wire) + 1 => After(i)' = tm'
      /\ Cut' = Cut
  BY PushWire
<1>2. \A i \in 1..Len(wire') : i \in 1..Len(wire) \/ i = Len(wire) + 1
  BY <1>0, <1>1
<1>3. /\ \A i \in 1..Len(wire) : ~IsCut(i)'
      /\ \A i : i = Len(wire) + 1 => (IsCut(i)' <=> cut')
  BY <1>0, <1>1 DEF IsCut
<1>4. WireInv'
  <2>1. ASSUME NEW i \in 1..Len(wire)
        PROVE  /\ IF IsCut(i)' THEN CutTo(wire[i])' ELSE LineTo(wire[i], After(i))'
               /\ wire'[i].at.taken <= tm'.taken
    <3>1. PICK k \in LineType, q \in TmType : k = wire[i] /\ q = After(i) BY PlacesTyped
    <3>2. LineTo(k, q) BY <1>0, <3>1 DEF IInv, WireInv, IsCut
    <3>3. LineTo(k, q)'
      <4>1. Len(sent) \in Nat BY ReaderTypes
      <4>. QED BY <3>2, <4>1, LinesStay
    <3>4. k = wire'[i] /\ q = After(i)' BY <1>1, <3>1
    <3>5. LineTo(wire[i], After(i))'
      BY <3>3, <3>4 DEF LineTo, HeaderTo, BodyTo, FooterTo, AsideTo
    <3>6. wire'[i].at.taken <= tm'.taken BY <1>0, <1>1 DEF IInv, WireInv
    <3>. QED BY <1>3, <3>5, <3>6
  <2>2. ASSUME NEW i, i = Len(wire) + 1
        PROVE  /\ IF IsCut(i)' THEN CutTo(wire[i])' ELSE LineTo(wire[i], After(i))'
               /\ wire'[i].at.taken <= tm'.taken
    <3>1. l = wire'[i] /\ After(i)' = tm' /\ (IsCut(i)' <=> cut') BY <1>1, <1>3, <2>2
    <3>2. CASE cut' BY <3>1, <3>2 DEF CutTo
    <3>3. CASE ~cut' BY ZenonT(40), <3>1, <3>3 DEF LineTo, HeaderTo, BodyTo, FooterTo, AsideTo
    <3>. QED BY <3>1, <3>2, <3>3
  <2>. QED BY <1>2, <2>1, <2>2 DEF WireInv
<1>5. FirstLineInv'
  <2>1. ASSUME NEW i \in 1..Len(wire'), IsHeader(wire[i])', ~IsCut(i)'
        PROVE  /\ wire'[i].malformed /\ wire'[i].client => i > 1 \/ sawFirstLine
               /\ wire'[i].malformed /\ ~wire'[i].client => i = 1 /\ ~sawFirstLine
               /\ ~hasFlags /\ ~wire'[i].client => i = 1 /\ ~sawFirstLine /\ hasStartup
    <3>1. CASE i \in 1..Len(wire)
      <4>1. wire'[i] = wire[i] /\ ~IsCut(i) BY <1>0, <1>1, <3>1 DEF IsCut
      <4>. QED BY <2>1, <3>1, <4>1 DEF IInv, FirstLineInv, IsHeader
    <3>2. CASE i = Len(wire) + 1
      <4>1. wire'[i] = l /\ IsHeader(l) /\ ~cut'
        BY <1>1, <1>3, <2>1, <3>2 DEF IsHeader
      <4>2. ~spoken => i = 1 /\ ~sawFirstLine BY <3>2 DEF IInv, FirstLineInv
      <4>3. spoken => i > 1 \/ sawFirstLine
        <5>1. wire # <<>> => i > 1 BY <3>2, PlacesTyped
        <5>. QED BY <5>1 DEF IInv, FirstLineInv
      <4>. QED BY <4>1, <4>2, <4>3
    <3>. QED BY <1>2, <3>1, <3>2
  <2>. QED BY <1>1, <2>1 DEF IInv, FirstLineInv
<1>6. MutexInv' BY DEF IInv, TmuxInv, MutexInv, PipeBroken
<1>7. ~Severed' BY <1>1 DEF Severed
<1>8. QueueInv' BY <1>0, <1>7 DEF IInv, QueueInv, Unanswered
<1>9. BlockInv'
  <2>1. Synced => Synced' BY <1>1 DEF Synced
  <2>2. ASSUME Stuck PROVE Stuck'
    <3>0. current.number \in Nat BY DEF TypeOK, TypeTable
    <3>1. current.number < nextNumber' BY <1>0, <2>2, <3>0 DEF Stuck
    <3>2. tm'.blk.src # Nobody => tm'.blk.number # current.number
      BY <1>0, <2>2, <3>0 DEF Stuck
    <3>3. \A i \in 1..Len(wire') :
            wire'[i].kind \in Terminators => wire'[i].number # current.number
      BY <1>0, <1>1, <1>2, <2>2, <3>0 DEF Stuck
    <3>4. bound <= tm'.taken BY <1>0, <2>2, ReaderTypes DEF Stuck
    <3>. QED BY <2>2, <3>1, <3>2, <3>3, <3>4 DEF Stuck, InBlock
  <2>3. rpc = "read" => bound <= tm'.taken
    BY <1>0, ReaderTypes DEF IInv, BlockInv
  <2>. QED BY <1>0, <1>7, <2>1, <2>2, <2>3 DEF IInv, BlockInv, Unanswered
<1>10. NumberInv'
  <2>. SUFFICES ASSUME RuinFooter PROVE NumberInv' BY DEF NumberInv
  <2>1. /\ tm.blk.number < nextNumber
        /\ tm.blk.src # Nobody => tm.blk.number > 0
        /\ tm'.blk.src # Nobody => tm'.blk.number > 0
    BY DEF IInv, TmuxInv
  <2>2. ASSUME NEW i \in 1..Len(wire), wire[i].kind \in Terminators,
               wire[i].at.blk.src # Nobody
        PROVE  /\ wire[i].number > 0 /\ wire[i].number < nextNumber
               /\ tm.blk.src # Nobody => tm.blk.number # wire[i].number
    <3>1. wire[i].number = wire[i].at.blk.number
      BY <1>0, <2>2 DEF IInv, WireInv, IsCut, LineTo, HeaderTo, BodyTo, FooterTo, AsideTo,
                        Terminators
    <3>. QED BY <2>2, <3>1 DEF IInv, NumberInv
  <2>3. ASSUME NEW i \in 1..Len(wire')
        PROVE  /\ wire'[i].at.blk.number < nextNumber'
               /\ wire'[i].at.blk.src # Nobody => wire'[i].at.blk.number > 0
    <3>1. CASE i \in 1..Len(wire)
      <4>1. /\ wire[i].at.blk.number < nextNumber
            /\ wire[i].at.blk.src # Nobody => wire[i].at.blk.number > 0
        BY <3>1 DEF IInv, NumberInv
      <4>. QED BY <1>0, <1>1, <3>1, <4>1
    <3>2. CASE i = Len(wire) + 1 BY <1>0, <1>1, <2>1, <3>2
    <3>. QED BY <1>2, <3>1, <3>2
  <2>4. ASSUME NEW i \in 1..Len(wire'), wire'[i].kind \in Terminators,
               wire'[i].at.blk.src # Nobody
        PROVE  /\ tm'.blk.src # Nobody => tm'.blk.number # wire'[i].number
               /\ \A j \in 1..Len(wire') : j > i /\ wire'[j].kind \in Terminators =>
                    wire'[j].number # wire'[i].number
    <3>1. CASE i \in 1..Len(wire)
      <4>1. wire'[i] = wire[i] BY <1>1, <3>1
      <4>2. /\ wire[i].number > 0 /\ wire[i].number < nextNumber
            /\ tm.blk.src # Nobody => tm.blk.number # wire[i].number
        BY <2>2, <2>4, <3>1, <4>1
      <4>3. tm'.blk.src # Nobody => tm'.blk.number # wire[i].number
        BY <1>0, <3>1, <4>2
      <4>4. ASSUME NEW j \in 1..Len(wire'), j > i, wire'[j].kind \in Terminators
            PROVE  wire'[j].number # wire[i].number
        <5>1. CASE j \in 1..Len(wire)
          BY <1>1, <2>4, <3>1, <4>1, <4>4, <5>1 DEF IInv, NumberInv
        <5>2. CASE j = Len(wire) + 1 BY <1>0, <1>1, <3>1, <4>2, <4>4, <5>2
        <5>. QED BY <1>2, <5>1, <5>2
      <4>. QED BY <4>1, <4>3, <4>4
    <3>2. CASE i = Len(wire) + 1
      <4>1. wire'[i] = l BY <1>1, <3>2
      <4>2. tm'.blk.src # Nobody => tm'.blk.number # l.number
        BY <1>0, <2>1, <2>4, <4>1
      <4>3. \A j \in 1..Len(wire') : ~(j > i) BY <1>0, <1>1, <3>2
      <4>. QED BY <4>1, <4>2, <4>3
    <3>. QED BY <1>2, <3>1, <3>2
  <2>. QED BY <2>3, <2>4 DEF NumberInv
<1>11. OwnReply'
  <2>1. OwnAnswer'
    <3>1. \A c \in Cmd : outcome[c] \in Terminators => verdict[c] # "none"
      BY DEF IInv, OwnReply, OwnAnswer, Terminators
    <3>. QED BY <3>1 DEF IInv, OwnReply, OwnAnswer
  <2>2. OwnPartialBody' BY <1>0 DEF IInv, OwnReply, OwnPartialBody
  <2>. QED BY <2>1, <2>2 DEF OwnReply
<1>12. ProtocolErrorIsOwn' BY <1>0 DEF IInv, ProtocolErrorIsOwn
<1>13. ExitIsTmuxs' BY DEF IInv, ExitIsTmuxs
<1>. QED BY <1>4, <1>5, <1>6, <1>8, <1>9, <1>10, <1>11, <1>12, <1>13, Frame DEF IInv

(* The line an action writes is a line.                                    *)
LEMMA LineMade ==
  ASSUME TypeOK, NEW kind \in Shapes \union {"data"}, NEW number \in Nat,
         NEW malformed \in BOOLEAN, NEW client \in BOOLEAN, NEW text \in TextType
  PROVE  Line(kind, number, malformed, client, text) \in LineType
BY DEF Line, LineType, TypeOK, TypeTmux

(* tmux's place before the step, and before it has said anything.          *)
LEMMA PlaceIs ==
  ASSUME TypeOK, IInv
  PROVE  /\ tm \in TmType /\ tm.taken \in Nat /\ tm.blk \in BlkType /\ tm.blk.n \in Nat
         /\ tm.blk.src \in Source /\ tm.blk.number \in Nat /\ nextNumber \in Nat
         /\ unsolicited \in Nat /\ Len(sent) \in Nat /\ tm.taken <= Len(sent)
         /\ Framing \in TextType /\ unsolicited <= MaxUnsolicited
         /\ tm.blk.src # Nobody => spoken
         /\ Tmux \notin Cmd /\ Nobody \notin Cmd /\ Tmux # Nobody
<1>1. tm \in TmType /\ nextNumber \in Nat /\ unsolicited \in Nat /\ spoken \in BOOLEAN
  BY DEF TypeOK, TypeTmux
<1>2. Framing \in TextType BY DEF Framing, Text, TextType, Source
<1>3. tm.taken <= Len(sent) /\ unsolicited <= MaxUnsolicited
  BY DEF IInv, TmuxInv, FirstLineInv
<1>4. tm.blk.src # Nobody => spoken BY DEF IInv, FirstLineInv, TmuxIdle
<1>. QED BY <1>1, <1>2, <1>3, <1>4, ConstantsOK, ReaderTypes DEF TmType, BlkType

(* tmux opens a block of its own.                                          *)
LEMMA OpensOwnKeeps ==
  ASSUME TypeOK, IInv, TypeOK', up, Idle, NEW ruined \in BOOLEAN,
         Opens(Tmux, ruined, tm.taken), UNCHANGED <<tmuxKeeps, saidExit, answerVars>>,
         unsolicited' <= MaxUnsolicited, ruined => ~spoken,
         ~hasFlags => ~spoken /\ hasStartup, UNCHANGED up
  PROVE  IInv'
<1>. USE DEF tmuxKeeps, answerVars
<1>a. Line("begin", nextNumber, ruined, FALSE, Framing) \in LineType
  <2>1. "begin" \in Shapes \union {"data"} BY DEF Shapes
  <2>. QED BY <2>1, LineMade, PlaceIs
<1>b. PICK l \in LineType : l = Line("begin", nextNumber, ruined, FALSE, Framing)
  BY <1>a
<1>0. /\ l.at = tm /\ l.kind = "begin" /\ l.number = nextNumber
      /\ l.malformed = ruined /\ l.client = FALSE
  BY <1>b DEF Line
<1>1. wire' = Append(wire, l)
  <2>1. (Tmux \in Cmd) = FALSE BY ConstantsOK
  <2>. QED BY <1>b, <2>1 DEF Opens
<1>2. /\ tm'.taken = tm.taken /\ tm'.blk.src = Tmux /\ tm'.blk.number = nextNumber
      /\ tm'.blk = [src |-> Tmux, number |-> nextNumber, ruined |-> ruined, n |-> 0]
      /\ nextNumber' = nextNumber + 1 /\ spoken'
  BY DEF Opens
<1>3. TmuxInv'
  <2>1. /\ UNCHANGED <<cut, up, sent, verdict, ruinedReply>>
        /\ nextNumber < nextNumber' /\ nextNumber' > 0 /\ nextNumber > 0
    BY <1>2, PlaceIs DEF tmuxKeepsButCut, pipeVars, IInv, TmuxInv
  <2>2. \A k \in 1..tm.taken : verdict[sent[k]] # "none"
    <3>1. \A k \in 1..tm.taken : sent[k] \in Cmd BY PlaceIs, ReaderTypes
    <3>. QED BY <3>1, ConstantsOK DEF IInv, TmuxInv, Idle
  <2>. QED BY <1>2, <2>1, <2>2, PlaceIs DEF IInv, TmuxInv
<1>4. ~cut /\ LineTo(l, tm)'
  <2>1. ~cut BY DEF IInv, TmuxInv
  <2>2. HeaderTo(l, tm)'
    <3>1. l.client = (tm'.blk.src \in Cmd) /\ tm'.blk.src \notin Cmd /\ tm'.blk.src # Nobody
      <4>1. tm'.blk.src \notin Cmd /\ tm'.blk.src # Nobody BY <1>2, ConstantsOK
      <4>2. l.client = FALSE BY <1>0
      <4>3. (tm'.blk.src \in Cmd) = FALSE BY <4>1
      <4>4. l.client = (tm'.blk.src \in Cmd) BY <4>2, <4>3, Zenon
      <4>. QED BY <4>1, <4>4
    <3>2. tm'.blk = [src |-> tm'.blk.src, number |-> l.number, ruined |-> l.malformed, n |-> 0]
      BY <1>0, <1>2
    <3>3. l.at.blk.src = Nobody /\ tm'.taken = l.at.taken BY <1>0, <1>2 DEF Idle
    <3>. QED BY <1>0, <3>1, <3>2, <3>3 DEF HeaderTo
  <2>. QED BY <2>1, <2>2 DEF LineTo
<1>5. ~cut' /\ tm.taken <= tm'.taken /\ nextNumber <= nextNumber'
  BY <1>2, <1>4, PlaceIs
<1>6. l.kind \notin Terminators BY <1>0 DEF Terminators
<1>. QED BY <1>0, <1>1, <1>2, <1>3, <1>4, <1>5, <1>6, SayingKeeps

(* tmux begins the answer to the next command it was sent.                 *)
LEMMA RepliesKeeps ==
  ASSUME TypeOK, IInv, TypeOK', TmuxReplies
  PROVE  IInv'
<1>. USE DEF TmuxReplies, Opens, Speaking, Idle, tmuxKeeps
<1>. DEFINE c == sent[tm.taken + 1]
<1>0. /\ tm.taken + 1 \in 1..Len(sent) /\ c \in Cmd /\ c # Tmux /\ c # Nobody
      /\ up /\ ~cut /\ spoken \in BOOLEAN /\ RuinHeader \in BOOLEAN
  BY SMTT(30), PlaceIs, ReaderTypes, ConstantsOK DEF IInv, TmuxInv, TypeOK, TypeTmux
<1>1. PICK ruined \in BOOLEAN :
        /\ ruined => spoken
        /\ Opens(c, ruined, tm.taken + 1)
        /\ ruinedReply' = IF ruined THEN ruinedReply \union {c} ELSE ruinedReply
  BY <1>0
<1>a. Line("begin", nextNumber, ruined, TRUE, Framing) \in LineType
  <2>1. "begin" \in Shapes \union {"data"} BY DEF Shapes
  <2>. QED BY <2>1, LineMade, PlaceIs
<1>b. PICK l \in LineType : l = Line("begin", nextNumber, ruined, TRUE, Framing)
  BY <1>a
<1>2. /\ l.at = tm /\ l.kind = "begin" /\ l.number = nextNumber
      /\ l.malformed = ruined /\ l.client = TRUE
  BY <1>b DEF Line
<1>3. wire' = Append(wire, l)
  <2>1. (c \in Cmd) = TRUE BY <1>0
  <2>. HIDE DEF c
  <2>. QED BY <1>1, <1>b, <2>1
<1>4. /\ tm'.taken = tm.taken + 1 /\ tm'.blk.src = c /\ tm'.blk.number = nextNumber
      /\ tm'.blk = [src |-> c, number |-> nextNumber, ruined |-> ruined, n |-> 0]
      /\ nextNumber' = nextNumber + 1 /\ spoken'
  BY <1>1
<1>5. UNCHANGED <<sent, cut, up, verdict, bodyLen, unsolicited, saidExit>>
      /\ UNCHANGED tmuxKeepsButCut
  BY DEF tmuxKeepsButCut, pipeVars
<1>6. TmuxInv'
  <2>1. verdict[c] = "none"
    <3>1. ASSUME NEW k \in 1..tm.taken PROVE sent[k] # c
      <4>1. k \in 1..Len(sent) /\ k # tm.taken + 1 BY PlaceIs
      <4>. QED BY <1>0, <4>1 DEF IInv, SentInv
    <3>. QED BY <1>0, <3>1 DEF IInv, TmuxInv
  <2>2. ASSUME NEW d \in Cmd, verdict[d] # "none" \/ d \in ruinedReply'
        PROVE  \E k \in 1..(tm.taken + 1) : sent[k] = d
    <3>1. CASE d = c BY <1>0, <3>1, PlaceIs
    <3>2. CASE d # c
      <4>1. PICK k \in 1..tm.taken : sent[k] = d
        BY <1>1, <2>2, <3>2 DEF IInv, TmuxInv
      <4>2. k \in 1..(tm.taken + 1) BY PlaceIs
      <4>. QED BY <4>1, <4>2
    <3>. QED BY <3>1, <3>2
  <2>3. ASSUME NEW k \in 1..(tm.taken + 1)
        PROVE  verdict[sent[k]] # "none" \/ (k = tm.taken + 1 /\ c = sent[k])
    <3>1. CASE k = tm.taken + 1 BY <3>1
    <3>2. CASE k # tm.taken + 1
      <4>1. k \in 1..tm.taken BY <3>2, PlaceIs
      <4>2. sent[k] \in Cmd BY <4>1, PlaceIs, ReaderTypes
      <4>. QED BY <4>1, <4>2, ConstantsOK DEF IInv, TmuxInv
    <3>. QED BY <3>1, <3>2
  <2>4. nextNumber < nextNumber + 1 /\ nextNumber + 1 > 0 /\ nextNumber > 0
    BY PlaceIs DEF IInv, TmuxInv
  <2>5. tm'.taken > 0 /\ tm'.taken <= Len(sent) /\ c = sent[tm'.taken]
    BY <1>0, <1>4, PlaceIs
  <2>. HIDE DEF c
  <2>. QED BY <1>0, <1>4, <1>5, <2>1, <2>2, <2>3, <2>4, <2>5 DEF TmuxInv
<1>7. LineTo(l, tm)'
  <2>1. l.malformed => c \in ruinedReply' BY <1>1, <1>2
  <2>2. c = sent[tm'.taken] BY <1>4
  <2>3. tm'.taken <= Len(sent') BY <1>4, <1>5, <1>0
  <2>4. sent' = sent BY <1>5
  <2>5. l.at.blk.src = Nobody /\ l.at.taken = tm.taken BY <1>2
  <2>. HIDE DEF c, TmuxReplies, Opens
  <2>6. HeaderTo(l, tm)' BY <1>0, <1>2, <1>4, <2>1, <2>2, <2>3, <2>4, <2>5 DEF HeaderTo
  <2>. QED BY <2>6 DEF LineTo
<1>8. ruinedReply \subseteq ruinedReply' BY <1>1
<1>9. ~cut' /\ tm.taken <= tm'.taken /\ nextNumber <= nextNumber' /\ unsolicited' <= MaxUnsolicited
  BY <1>0, <1>4, <1>5, PlaceIs
<1>10. l.kind \notin Terminators BY <1>2 DEF Terminators
<1>. HIDE DEF c, TmuxReplies, Opens, tmuxKeeps, Speaking, Idle
<1>. QED BY <1>0, <1>1, <1>2, <1>3, <1>4, <1>5, <1>6, <1>7, <1>8, <1>9, <1>10, SayingKeeps

(* tmux goes on with the body of the block it has open.                    *)
LEMMA BodyKeeps ==
  ASSUME TypeOK, IInv, TypeOK', TmuxBody
  PROVE  IInv'
<1>. USE DEF TmuxBody, Speaking, Idle, tmuxKeeps
<1>1. PICK kind \in Lookalikes \union {"data"}, number \in Nat :
        /\ kind \in Terminators => ~tm.blk.ruined /\ ~RuinFooter /\ number # tm.blk.number
        /\ wire' = Append(wire, Line(kind, number, FALSE, TRUE,
                                     Text(tm.blk.src, tm.blk.n + 1)))
  <2>1. PICK kind \in Lookalikes \union {"data"} :
          \E number \in IF kind \in Terminators \union {"begin"}
                        THEN (0..nextNumber) \ {tm.blk.number} ELSE {0} :
            /\ kind \in Terminators => ~tm.blk.ruined /\ ~RuinFooter
            /\ wire' = Append(wire, Line(kind, number, FALSE, TRUE,
                                         Text(tm.blk.src, tm.blk.n + 1)))
    OBVIOUS
  <2>2. PICK number \in IF kind \in Terminators \union {"begin"}
                        THEN (0..nextNumber) \ {tm.blk.number} ELSE {0} :
            /\ kind \in Terminators => ~tm.blk.ruined /\ ~RuinFooter
            /\ wire' = Append(wire, Line(kind, number, FALSE, TRUE,
                                         Text(tm.blk.src, tm.blk.n + 1)))
    BY <2>1
  <2>3. number \in Nat /\ (kind \in Terminators => number # tm.blk.number) BY PlaceIs
  <2>. QED BY <2>2, <2>3
<1>a. Line(kind, number, FALSE, TRUE, Text(tm.blk.src, tm.blk.n + 1)) \in LineType
  <2>1. kind \in Shapes \union {"data"} BY ConstantsOK
  <2>2. Text(tm.blk.src, tm.blk.n + 1) \in TextType BY SMTT(30), PlaceIs DEF Text, TextType
  <2>. QED BY <2>1, <2>2, LineMade
<1>b. PICK l \in LineType :
        l = Line(kind, number, FALSE, TRUE, Text(tm.blk.src, tm.blk.n + 1))
  BY <1>a
<1>2. /\ l.at = tm /\ l.kind = kind /\ l.number = number
      /\ l.text = Text(tm.blk.src, tm.blk.n + 1)
  BY <1>b DEF Line
<1>3. wire' = Append(wire, l) BY <1>1, <1>b
<1>4. /\ tm'.taken = tm.taken /\ tm'.blk = Grown(tm.blk) /\ tm'.blk.src = tm.blk.src
      /\ tm'.blk.number = tm.blk.number /\ tm.blk.src # Nobody
  BY DEF Grown
<1>5. TmuxInv'
  BY <1>4 DEF IInv, TmuxInv, tmuxKeepsButCut, pipeVars, answerVars
<1>6. LineTo(l, tm)' BY <1>1, <1>2, <1>4 DEF LineTo, BodyTo
<1>7. ~cut' /\ up /\ spoken' /\ ~IsHeader(l)
  BY <1>2, <1>4, PlaceIs DEF IInv, TmuxInv, IsHeader
<1>8. UNCHANGED tmuxKeepsButCut
      /\ UNCHANGED <<unsolicited, nextNumber, ruinedReply, verdict, bodyLen, saidExit>>
  BY DEF answerVars
<1>9. tm.taken <= tm'.taken /\ nextNumber <= nextNumber' /\ unsolicited' <= MaxUnsolicited
  BY <1>4, <1>8, PlaceIs
<1>. HIDE DEF TmuxBody, Speaking, Idle, tmuxKeeps
<1>. QED BY <1>1, <1>2, <1>3, <1>4, <1>5, <1>6, <1>7, <1>8, <1>9, SayingKeeps

(* tmux ends the block it has open.                                        *)
LEMMA FooterKeeps ==
  ASSUME TypeOK, IInv, TypeOK', TmuxFooter
  PROVE  IInv'
<1>. USE DEF TmuxFooter, Speaking, Idle, tmuxKeeps
<1>. DEFINE own == tm.blk.src
<1>1. PICK kind \in Terminators, ruined \in BOOLEAN :
        /\ ruined => RuinFooter
        /\ wire' = Append(wire, Line(kind, tm.blk.number, ruined, own \in Cmd, Framing))
        /\ IF own \in Cmd
           THEN /\ verdict' = [verdict EXCEPT ![own] = kind]
                /\ bodyLen' = [bodyLen EXCEPT ![own] = tm.blk.n]
           ELSE UNCHANGED <<verdict, bodyLen>>
  BY ConstantsOK
<1>a. Line(kind, tm.blk.number, ruined, own \in Cmd, Framing) \in LineType
  <2>1. kind \in Shapes \union {"data"} /\ (own \in Cmd) \in BOOLEAN
    BY DEF Shapes, Terminators
  <2>. QED BY <2>1, LineMade, PlaceIs
<1>b. PICK l \in LineType : l = Line(kind, tm.blk.number, ruined, own \in Cmd, Framing)
  BY <1>a
<1>2. l.at = tm /\ l.kind = kind /\ l.number = tm.blk.number /\ l.malformed = ruined
  BY <1>b DEF Line
<1>3. wire' = Append(wire, l) BY <1>1, <1>b
<1>4. tm'.taken = tm.taken /\ tm'.blk = TmuxIdle /\ tm'.blk.src = Nobody /\ own # Nobody
      /\ tm'.blk.number = 0
  BY DEF TmuxIdle
<1>5. /\ \A c \in Cmd : verdict'[c] = IF c = own THEN kind ELSE verdict[c]
      /\ \A c \in Cmd : bodyLen'[c] = IF c = own THEN tm.blk.n ELSE bodyLen[c]
      /\ kind # "none"
  BY <1>1 DEF TypeOK, TypeAnswers, Terminators
<1>6. own \in Cmd => tm.taken > 0 /\ own = sent[tm.taken] /\ verdict[own] = "none"
  BY DEF IInv, TmuxInv
<1>7. UNCHANGED <<sent, cut, up, ruinedReply, nextNumber>> BY DEF tmuxKeepsButCut, pipeVars
<1>8. TmuxInv'
  <2>1. ASSUME NEW k \in 1..tm.taken PROVE verdict'[sent[k]] # "none"
    <3>1. sent[k] \in Cmd BY PlaceIs, ReaderTypes
    <3>. QED BY <1>5, <3>1 DEF IInv, TmuxInv
  <2>2. ASSUME NEW c \in Cmd, verdict'[c] # "none" \/ c \in ruinedReply
        PROVE  \E k \in 1..tm.taken : sent[k] = c
    <3>1. CASE c = own BY <1>6, <3>1, PlaceIs
    <3>2. CASE c # own BY <1>5, <2>2, <3>2 DEF IInv, TmuxInv
    <3>. QED BY <3>1, <3>2
  <2>. HIDE DEF TmuxFooter
  <2>. QED BY <1>4, <1>7, <2>1, <2>2, PlaceIs DEF IInv, TmuxInv
<1>9. LineTo(l, tm)' BY <1>1, <1>2, <1>4, <1>5 DEF LineTo, FooterTo
<1>10. ~cut' /\ up /\ spoken' /\ ~IsHeader(l)
  BY <1>2, <1>4, PlaceIs DEF IInv, TmuxInv, IsHeader
<1>11. \A c \in Cmd : verdict[c] # "none" =>
         verdict'[c] = verdict[c] /\ bodyLen'[c] = bodyLen[c]
  BY <1>5, <1>6
<1>12. UNCHANGED tmuxKeepsButCut /\ UNCHANGED <<unsolicited, saidExit>> OBVIOUS
<1>13. tm.taken <= tm'.taken /\ nextNumber <= nextNumber' /\ unsolicited' <= MaxUnsolicited
  BY <1>4, <1>7, <1>12, PlaceIs
<1>. HIDE DEF TmuxFooter, Speaking, Idle, tmuxKeeps
<1>. QED BY <1>2, <1>3, <1>4, <1>7, <1>8, <1>9, <1>10, <1>11, <1>12, <1>13, SayingKeeps

(* Between blocks: a line of no block, or the last word.                   *)
LEMMA AsideKeeps ==
  ASSUME TypeOK, IInv, TypeOK', TmuxAside \/ TmuxExit
  PROVE  IInv'
<1>. USE DEF TmuxAside, TmuxExit, Speaking, Idle, tmuxKeeps, answerVars
<1>1. PICK kind \in {"note", "data", "end", "exit"}, ruined \in BOOLEAN :
        /\ wire' = Append(wire, Line(kind, 0, ruined, FALSE, Framing))
        /\ kind = "exit" => saidExit'
  <2>1. CASE TmuxAside
    <3>1. PICK kind \in {"note", "data", "end"}, ruined \in {FALSE, RuinFooter} :
            wire' = Append(wire, Line(kind, 0, ruined, FALSE, Framing))
      BY <2>1
    <3>. QED BY <3>1, ConstantsOK
  <2>2. CASE TmuxExit BY <2>2
  <2>. QED BY <2>1, <2>2
<1>a. Line(kind, 0, ruined, FALSE, Framing) \in LineType
  <2>1. kind \in Shapes \union {"data"} BY DEF Shapes
  <2>. QED BY <2>1, LineMade, PlaceIs
<1>b. PICK l \in LineType : l = Line(kind, 0, ruined, FALSE, Framing) BY <1>a
<1>2. l.at = tm /\ l.kind = kind /\ l.number = 0 BY <1>b DEF Line
<1>3. wire' = Append(wire, l) BY <1>1, <1>b
<1>4. TmuxInv'
  <2>1. /\ UNCHANGED <<cut, tm, sent, verdict, ruinedReply, nextNumber>>
        /\ ~cut
    BY DEF tmuxKeepsButCut, pipeVars, IInv, TmuxInv
  <2>. HIDE DEF TmuxAside, TmuxExit
  <2>. QED BY <2>1 DEF IInv, TmuxInv
<1>5. LineTo(l, tm)' BY <1>1, <1>2 DEF LineTo, AsideTo
<1>6. ~cut' /\ up /\ spoken' /\ ~IsHeader(l) /\ UNCHANGED tm
  <2>1. l.kind # "begin" BY <1>2
  <2>2. up /\ spoken' /\ UNCHANGED <<tm, cut>> OBVIOUS
  <2>. QED BY <2>1, <2>2 DEF IInv, TmuxInv, IsHeader
<1>7. UNCHANGED tmuxKeepsButCut /\ (saidExit => saidExit')
      /\ UNCHANGED <<unsolicited, nextNumber, ruinedReply, verdict, bodyLen>>
  <2>1. CASE TmuxAside BY <2>1
  <2>2. CASE TmuxExit BY <2>2
  <2>. QED BY <2>1, <2>2
<1>8. /\ tm.taken <= tm'.taken /\ nextNumber <= nextNumber' /\ unsolicited' <= MaxUnsolicited
      /\ tm'.blk.src # Nobody => tm.blk.src # Nobody /\ tm'.blk.number = tm.blk.number
  BY <1>6, <1>7, PlaceIs
<1>. HIDE DEF TmuxAside, TmuxExit, Speaking, Idle, tmuxKeeps, answerVars
<1>. QED BY <1>2, <1>3, <1>4, <1>5, <1>6, <1>7, <1>8, SayingKeeps

(* tmux ends, in a line or without a word.                                 *)
LEMMA DiesKeeps ==
  ASSUME TypeOK, IInv, TypeOK', TmuxDies \/ TmuxDiesMidLine
  PROVE  IInv'
<1>. USE DEF TmuxDies, TmuxDiesMidLine, tmuxKeeps, tmuxKeepsButCut, answerVars
<1>1. CASE TmuxDies
  <2>. USE <1>1 DEF callVars, tableVars, pendingVars, flagVars, readerVars, closeVars,
                    pipeVars
  <2>1. TmuxInv' /\ MutexInv' BY DEF IInv, TmuxInv, MutexInv, PipeBroken
  <2>. QED BY <2>1, Frame DEF IInv
<1>2. CASE TmuxDiesMidLine
  <2>1. PICK kind \in {"begin", "end", "data"}, number \in Nat, malformed \in BOOLEAN :
          /\ wire' = Append(wire, Line(kind, number, malformed, TRUE, Framing))
          /\ IF Idle THEN kind = "begin"
             ELSE kind = (IF malformed THEN "end" ELSE "data") /\ number = 0
    <3>1. CASE Idle BY <1>2, <3>1, PlaceIs
    <3>2. CASE ~Idle BY <1>2, <3>2
    <3>. QED BY <3>1, <3>2
  <2>a. Line(kind, number, malformed, TRUE, Framing) \in LineType
    <3>1. kind \in Shapes \union {"data"} BY DEF Shapes
    <3>. QED BY <3>1, LineMade, PlaceIs
  <2>b. PICK l \in LineType : l = Line(kind, number, malformed, TRUE, Framing) BY <2>a
  <2>2. /\ l.at = tm /\ l.kind = kind /\ l.number = number
        /\ l.malformed = malformed /\ l.client = TRUE /\ l.text = Framing
    BY <2>b DEF Line
  <2>3. wire' = Append(wire, l) BY <2>1, <2>b
  <2>4. TmuxInv' BY <1>2 DEF IInv, TmuxInv, pipeVars
  <2>5. CutTo(l)' BY <1>2, <2>1, <2>2 DEF CutTo, Idle
  <2>6. cut' /\ up /\ spoken' /\ UNCHANGED tm /\ (l.kind \in Terminators => l.number = 0)
    BY <1>2, <2>1, <2>2 DEF Speaking, Terminators
  <2>7. UNCHANGED tmuxKeepsButCut
        /\ UNCHANGED <<unsolicited, nextNumber, ruinedReply, verdict, bodyLen, saidExit>>
    BY <1>2
  <2>8. /\ tm.taken <= tm'.taken /\ nextNumber <= nextNumber' /\ unsolicited' <= MaxUnsolicited
        /\ tm'.blk.src # Nobody => tm.blk.src # Nobody /\ tm'.blk.number = tm.blk.number
    BY <2>6, <2>7, PlaceIs
  <2>. HIDE DEF TmuxDiesMidLine, TmuxDies, tmuxKeeps, tmuxKeepsButCut, answerVars
  <2>. QED BY <2>2, <2>3, <2>4, <2>5, <2>6, <2>7, <2>8, SayingKeeps
<1>. QED BY <1>1, <1>2

LEMMA TmuxKeeps ==
  ASSUME TypeOK, IInv, TmuxStep
  PROVE  IInv'
<1>0. TypeOK' BY TypeTmuxStep
<1>1. CASE TmuxStartup
  <2>1. ~spoken /\ up /\ Idle
    BY <1>1 DEF TmuxStartup, Speaking, IInv, FirstLineInv, TmuxIdle, Idle
  <2>2. PICK ruined \in BOOLEAN : Opens(Tmux, ruined, tm.taken)
    BY <1>1, ConstantsOK DEF TmuxStartup
  <2>. QED BY <1>0, <1>1, <2>1, <2>2, PlaceIs, OpensOwnKeeps DEF TmuxStartup
<1>2. CASE TmuxUnsolicited
  <2>1. unsolicited' <= MaxUnsolicited
    BY <1>2, PlaceIs, ConstantsOK DEF TmuxUnsolicited
  <2>. QED BY <1>0, <1>2, <2>1, OpensOwnKeeps DEF TmuxUnsolicited, Speaking
<1>. QED BY <1>0, <1>1, <1>2, RepliesKeeps, BodyKeeps, FooterKeeps, AsideKeeps, DiesKeeps
     DEF TmuxStep

-----------------------------------------------------------------------------
LEMMA InvStep == TypeOK /\ IInv /\ [Next]_vars => IInv'
<1>. SUFFICES ASSUME TypeOK, IInv, [Next]_vars PROVE IInv' OBVIOUS
<1>1. CASE UNCHANGED vars
  BY <1>1, Frame DEF vars, callVars, tableVars, pendingVars, flagVars, readerVars, closeVars,
                     pipeVars, tmuxVars, answerVars, IInv
<1>2. CASE Terminated BY <1>1, <1>2 DEF Terminated
<1>. QED BY <1>1, <1>2, DoKeeps, ReaderKeeps, CloseKeeps, TmuxKeeps DEF Next

(* A step writes no command behind the line that detaches.                 *)
LEMMA NoneAfterDetach == TypeOK /\ IInv /\ [Next]_vars => (detached => sent' = sent)
<1>. SUFFICES ASSUME TypeOK, IInv, [Next]_vars, detached PROVE sent' = sent OBVIOUS
<1>. USE DEF pipeVars
<1>1. ASSUME NEW c \in Cmd, DoStep(c) \/ CtxEnds(c) PROVE sent' = sent
  <2>1. ~Write(c) BY DEF IInv, GateInv, Write
  <2>. QED BY <1>1, <2>1 DEF DoStep, Call, PassBarrier, BarrierDone, CtxEnds, Enqueue,
         RefuseClosed, WriteFails, Unqueue, Woken, SeeDone
<1>2. ASSUME ReaderStep PROVE sent' = sent
  BY <1>2 DEF ReaderStep, handleLine, readKeeps, ReadBody, ReadFooter, ReadHeader,
     ReadRuinedHeader, ReadStrayFooter, ReadAside, ReadExit, ReadEOF, finishReader,
     FinishLocked, FinishWake, FinishRelease, FinishCloseStdin, FinishDone
<1>3. ASSUME Grace \/ CloseMark \/ CloseStep \/ CloseGivesUp PROVE sent' = sent
  BY <1>3 DEF Grace, CloseMark, CloseStep, CloseGivesUp, CloseSelect, CloseSeesDone,
     CloseTimeout, DetachLock, DetachWrite, DetachClose
<1>4. ASSUME TmuxStep PROVE sent' = sent
  BY <1>4 DEF TmuxStep, tmuxKeeps, tmuxKeepsButCut, TmuxStartup, TmuxUnsolicited,
     TmuxReplies, TmuxBody, TmuxFooter, TmuxAside, TmuxExit, TmuxDies, TmuxDiesMidLine
<1>. QED BY <1>1, <1>2, <1>3, <1>4 DEF Next, Terminated, vars

(* The inductive invariant of ReplyBindingInv holds of every behavior.     *)
THEOREM InvCorrect == Spec => []IInv
<1>1. Init => TypeOK /\ IInv BY TypeInit, InvInit
<1>2. TypeOK /\ IInv /\ [Next]_vars => (TypeOK /\ IInv)' BY TypeStep, InvStep
<1>. QED BY <1>1, <1>2, PTL DEF Spec

(* Do: a command that was answered was answered by the block tmux wrote    *)
(* for that command, with its verdict and its whole body, line for line,   *)
(* and a partial body is the beginning of its own.                         *)
THEOREM OwnReplyCorrect == Spec => []OwnReply
<1>1. IInv => OwnReply BY DEF IInv
<1>. QED BY <1>1, InvCorrect, PTL

(* beginBlock, failHead: while the reader reads, the front of the queue is *)
(* the commands sent and bound to no block yet, in the order sent.         *)
THEOREM QueueAlignedCorrect == Spec => []QueueAligned
<1>1. IInv => QueueAligned BY DEF IInv
<1>. QED BY <1>1, InvCorrect, PTL

(* failHead: a ProtocolError goes to the command whose header was ruined,  *)
(* or, once tmux died in a line, to one it will not answer.                *)
THEOREM ProtocolErrorCorrect == Spec => []ProtocolErrorIsOwn
<1>1. IInv => ProtocolErrorIsOwn BY DEF IInv
<1>. QED BY <1>1, InvCorrect, PTL

(* The connection is taken to have ended by %exit only if tmux wrote one   *)
(* outside every block.                                                    *)
THEOREM ExitCorrect == Spec => []ExitIsTmuxs
<1>1. IInv => ExitIsTmuxs BY DEF IInv
<1>. QED BY <1>1, InvCorrect, PTL

(* beginBlock's "while the barrier stands the queue is empty", and Do's    *)
(* wait for p.done: once done is closed the reader has woken every call.   *)
THEOREM GatesCorrect == Spec => [](BarrierHolds /\ DoneWakesAll)
<1>1. IInv => BarrierHolds /\ DoneWakesAll BY DEF IInv
<1>. QED BY <1>1, InvCorrect, PTL

(* detach: no command is written behind the line that detaches.            *)
THEOREM DetachCorrect == Spec => NothingAfterDetach
<1>1. TypeOK /\ IInv /\ [Next]_vars => [detached => sent' = sent]_vars
  BY NoneAfterDetach
<1>. QED BY <1>1, InvCorrect, TypeCorrect, PTL DEF Spec, NothingAfterDetach

-----------------------------------------------------------------------------
(* The refinement                                                          *)

Calls == [c \in Cmd |-> CallOf(c)]

LEMMA ServiceInit == Init => Service!Init
BY DEF Init, Service!Init, CallOf

(* A step of the service, or none.                                         *)
ServiceStep == [Service!Next]_(Service!serviceVars)

LEMMA NoServiceStep ==
  ASSUME Calls' = Calls, UNCHANGED <<sent, verdict>>
  PROVE  ServiceStep
BY DEF ServiceStep, Service!serviceVars, Calls

(* One call changes as its caller sees it.                                 *)
LEMMA OneCall ==
  ASSUME NEW c \in Cmd, NEW p, NEW r, TypeOK,
         pc' = [pc EXCEPT ![c] = p], UNCHANGED ret \/ ret' = [ret EXCEPT ![c] = r]
  PROVE  /\ \A d \in Cmd : d # c => CallOf(d)' = CallOf(d)
         /\ CallOf(c)' = CallOf(c) => Calls' = Calls
         /\ \A v : CallOf(c)' = v => Calls' = [Calls EXCEPT ![c] = v]
         /\ CallOf(c)' # CallOf(c) => Calls' # Calls
<1>2. \A d \in Cmd : d # c => pc'[d] = pc[d] /\ ret'[d] = ret[d]
  BY DEF TypeOK, TypeCalls
<1>3. \A d \in Cmd : d # c => CallOf(d)' = CallOf(d) BY <1>2 DEF CallOf
<1>4. /\ \A d \in Cmd : Calls[d] = CallOf(d) /\ Calls'[d] = CallOf(d)'
      /\ Calls' = [d \in Cmd |-> CallOf(d)']
  BY DEF Calls
<1>5. CallOf(c)' = CallOf(c) => Calls' = Calls BY <1>3, <1>4 DEF Calls
<1>6. ASSUME NEW v, CallOf(c)' = v PROVE Calls' = [Calls EXCEPT ![c] = v]
  BY <1>3, <1>4, <1>6 DEF Calls
<1>. QED BY <1>3, <1>4, <1>5, <1>6

(* A call that has not returned yet returns with an error.                 *)
LEMMA Fails ==
  ASSUME NEW c \in Cmd, NEW how \in {"terminal", "ctx", "write", "protocol"}, TypeOK,
         pc[c] \notin {"idle", "returned"}, Return(c, how), UNCHANGED <<sent, verdict>>
  PROVE  ServiceStep
<1>1. CallOf(c) = "waiting" BY DEF CallOf
<1>2. CallOf(c)' = "failed"
  <2>1. pc'[c] = "returned" /\ ret'[c] = how BY DEF Return, TypeOK, TypeCalls
  <2>. QED BY <2>1 DEF CallOf
<1>3. Calls' = [Calls EXCEPT ![c] = "failed"] /\ Calls' # Calls
  BY <1>1, <1>2, OneCall DEF Return
<1>4. Service!Fail(c) BY <1>1, <1>3 DEF Service!Fail, Calls
<1>5. Service!serviceVars' # Service!serviceVars BY <1>3 DEF Service!serviceVars, Calls
<1>. QED BY <1>4, <1>5 DEF ServiceStep, Service!Next

(* Moves a caller does not see.                                            *)
LEMMA Hidden ==
  ASSUME NEW c \in Cmd, NEW p, TypeOK, pc[c] \notin {"idle", "returned"},
         p \notin {"idle", "returned"}, pc' = [pc EXCEPT ![c] = p],
         UNCHANGED <<ret, sent, verdict>>
  PROVE  ServiceStep
<1>1. CallOf(c) = "waiting" BY DEF CallOf
<1>2. CallOf(c)' = "waiting"
  <2>1. pc'[c] = p BY DEF TypeOK, TypeCalls
  <2>. QED BY <2>1 DEF CallOf
<1>. QED BY <1>1, <1>2, OneCall, NoServiceStep

LEMMA CallAsks ==
  ASSUME NEW c \in Cmd, TypeOK, Call(c)
  PROVE  ServiceStep
<1>0. /\ pc' = [pc EXCEPT ![c] = IF startup THEN "lock" ELSE "barrier"]
      /\ UNCHANGED <<ret, sent, verdict>>
  BY DEF Call, pipeVars, tmuxVars, answerVars
<1>1. CallOf(c) = "idle" BY DEF CallOf, Call
<1>2. CallOf(c)' = "waiting"
  <2>1. pc'[c] \in {"lock", "barrier"} BY <1>0 DEF TypeOK, TypeCalls
  <2>. QED BY <2>1 DEF CallOf
<1>3. Calls' = [Calls EXCEPT ![c] = "waiting"] /\ Calls' # Calls
  BY <1>0, <1>1, <1>2, OneCall
<1>4. Service!Ask(c) BY <1>0, <1>1, <1>3 DEF Service!Ask, Calls
<1>5. Service!serviceVars' # Service!serviceVars BY <1>3 DEF Service!serviceVars, Calls
<1>. QED BY <1>4, <1>5 DEF ServiceStep, Service!Next

LEMMA WriteAccepts ==
  ASSUME NEW c \in Cmd, TypeOK, IInv, Write(c)
  PROVE  ServiceStep
<1>0. /\ pc[c] = "write" /\ pc' = [pc EXCEPT ![c] = "await"] /\ sent' = Append(sent, c)
      /\ UNCHANGED <<ret, verdict>>
  BY DEF Write, tmuxVars, answerVars
<1>1. CallOf(c) = "waiting" BY <1>0 DEF CallOf
<1>2. CallOf(c)' = "waiting"
  <2>1. pc'[c] = "await" BY <1>0 DEF TypeOK, TypeCalls
  <2>. QED BY <2>1 DEF CallOf
<1>3. Calls' = Calls BY <1>0, <1>1, <1>2, OneCall
<1>4. \A i \in 1..Len(sent) : sent[i] # c BY <1>0 DEF IInv, SentInv
<1>5. sent' # sent
  <2>1. sent \in Seq(Cmd) BY DEF TypeOK, TypePipes
  <2>. QED BY <1>0, <2>1, AppendProperties
<1>6. Service!Accept(c) BY <1>0, <1>1, <1>3, <1>4 DEF Service!Accept, Service!Has, Calls
<1>7. Service!serviceVars' # Service!serviceVars BY <1>5 DEF Service!serviceVars
<1>. QED BY <1>6, <1>7 DEF ServiceStep, Service!Next

LEMMA WokenAnswers ==
  ASSUME NEW c \in Cmd, TypeOK, IInv, Woken(c)
  PROVE  ServiceStep
<1>0. /\ pc[c] \in {"await", "drain"} /\ Return(c, Outcome(c))
      /\ UNCHANGED <<sent, verdict>>
  BY DEF Woken, pipeVars, tmuxVars, answerVars
<1>1. CallOf(c) = "waiting" BY <1>0 DEF CallOf
<1>2. CASE outcome[c] \in Terminators
  <2>1. verdict[c] = outcome[c] BY <1>2 DEF IInv, OwnReply, OwnAnswer
  <2>2. Outcome(c) = IF verdict[c] = "error" THEN "control" ELSE "reply"
    BY <1>2, <2>1 DEF Outcome, Terminators
  <2>. DEFINE v == IF verdict[c] = "end" THEN "answered end" ELSE "answered error"
  <2>3. CallOf(c)' = v
    <3>1. pc'[c] = "returned" /\ ret'[c] = Outcome(c)
      BY <1>0 DEF Return, TypeOK, TypeCalls
    <3>. QED BY <1>2, <2>1, <2>2, <3>1 DEF CallOf, Terminators
  <2>4. Calls' = [Calls EXCEPT ![c] = v] /\ Calls' # Calls
    BY <1>0, <1>1, <2>3, OneCall DEF Return
  <2>5. Service!Answer(c)
    BY <1>0, <1>1, <1>2, <2>1, <2>4 DEF Service!Answer, Calls, Terminators
  <2>6. Service!serviceVars' # Service!serviceVars BY <2>4 DEF Service!serviceVars, Calls
  <2>. QED BY <2>5, <2>6 DEF ServiceStep, Service!Next
<1>3. CASE outcome[c] \notin Terminators
  <2>1. Outcome(c) \in {"protocol", "terminal"}
    BY <1>3 DEF Outcome, Terminators, TypeOK, TypePending, Outcomes
  <2>. QED BY <1>0, <2>1, Fails
<1>. QED BY <1>2, <1>3

LEMMA FooterJudges ==
  ASSUME TypeOK, IInv, TmuxFooter
  PROVE  ServiceStep
<1>. DEFINE own == tm.blk.src
<1>0. /\ UNCHANGED <<sent, pc, ret>>
      /\ \E kind \in Terminators : IF own \in Cmd THEN verdict' = [verdict EXCEPT ![own] = kind]
                                   ELSE UNCHANGED verdict
  BY DEF TmuxFooter, tmuxKeeps, tmuxKeepsButCut, callVars, pipeVars
<1>1. Calls' = Calls BY <1>0 DEF Calls, CallOf
<1>2. CASE own \notin Cmd BY <1>0, <1>1, <1>2, NoServiceStep
<1>3. CASE own \in Cmd
  <2>1. PICK kind \in Terminators : verdict' = [verdict EXCEPT ![own] = kind]
    BY <1>0, <1>3
  <2>2. /\ tm.taken \in 1..Len(sent) /\ own = sent[tm.taken] /\ verdict[own] = "none"
    BY <1>3, PlaceIs DEF IInv, TmuxInv
  <2>3. \A j \in 1..(tm.taken - 1) : verdict[sent[j]] # "none"
    BY PlaceIs DEF IInv, TmuxInv
  <2>4. verdict' # verdict BY <1>3, <2>1, <2>2 DEF TypeOK, TypeAnswers, Terminators
  <2>5. Service!Judge(tm.taken, kind)
    BY <1>0, <1>1, <2>1, <2>2, <2>3 DEF Service!Judge, Calls
  <2>6. Service!serviceVars' # Service!serviceVars BY <2>4 DEF Service!serviceVars
  <2>. QED BY <2>2, <2>5, <2>6 DEF ServiceStep, Service!Next, Terminators
<1>. QED BY <1>2, <1>3

LEMMA ServiceDo ==
  ASSUME NEW c \in Cmd, TypeOK, IInv, DoStep(c) \/ CtxEnds(c)
  PROVE  ServiceStep
<1>. USE DEF pipeVars, tmuxVars, answerVars
<1>1. CASE BarrierDone(c) BY <1>1, Fails DEF BarrierDone
<1>2. CASE CtxEnds(c) BY <1>2, Fails DEF CtxEnds
<1>3. CASE RefuseClosed(c) BY <1>3, Fails DEF RefuseClosed
<1>4. CASE Unqueue(c) BY <1>4, Fails DEF Unqueue
<1>5. CASE PassBarrier(c) BY <1>5, Hidden DEF PassBarrier
<1>6. CASE Enqueue(c) BY <1>6, Hidden DEF Enqueue
<1>7. CASE WriteFails(c) BY <1>7, Hidden DEF WriteFails
<1>8. CASE SeeDone(c) BY <1>8, Hidden DEF SeeDone
<1>. QED BY <1>1, <1>2, <1>3, <1>4, <1>5, <1>6, <1>7, <1>8, CallAsks, WriteAccepts,
            WokenAnswers DEF DoStep

(* What neither a call nor a terminator of tmux's does, no caller sees.    *)
LEMMA ServiceElse ==
  ASSUME \/ ReaderStep \/ Grace \/ CloseMark \/ CloseStep \/ CloseGivesUp
         \/ TmuxStep /\ ~TmuxFooter
         \/ UNCHANGED vars
  PROVE  ServiceStep
<1>. USE DEF callVars, pipeVars, tmuxVars, answerVars
<1>1. UNCHANGED <<pc, ret, sent, verdict>>
  <2>1. CASE ReaderStep
    BY <2>1 DEF ReaderStep, handleLine, readKeeps, ReadBody, ReadFooter, ReadHeader,
       ReadRuinedHeader, ReadStrayFooter, ReadAside, ReadExit, ReadEOF, finishReader,
       FinishLocked, FinishWake, FinishRelease, FinishCloseStdin, FinishDone
  <2>2. CASE Grace \/ CloseMark \/ CloseStep \/ CloseGivesUp
    BY <2>2 DEF Grace, closeKeeps, CloseMark, CloseStep, CloseGivesUp, CloseSelect,
       CloseSeesDone, CloseTimeout, DetachLock, DetachWrite, DetachClose
  <2>3. CASE TmuxStep /\ ~TmuxFooter
    BY <2>3 DEF TmuxStep, tmuxKeeps, tmuxKeepsButCut, TmuxStartup, TmuxUnsolicited,
       TmuxReplies, TmuxBody, TmuxAside, TmuxExit, TmuxDies, TmuxDiesMidLine
  <2>4. CASE UNCHANGED vars BY <2>4 DEF vars
  <2>. QED BY <2>1, <2>2, <2>3, <2>4
<1>2. Calls' = Calls BY <1>1 DEF Calls, CallOf
<1>. QED BY <1>1, <1>2, NoServiceStep

LEMMA ServiceSteps == TypeOK /\ IInv /\ [Next]_vars => ServiceStep
BY ServiceDo, ServiceElse, FooterJudges DEF Next, TmuxStep, Terminated

(* Do keeps the promise of CommandService: each call returns its own       *)
(* command's verdict or an error, through every interleaving of callers,   *)
(* reader, Close and tmux.                                                 *)
THEOREM ServiceImplemented == Spec => ImplementsService
<1>1. TypeOK /\ IInv /\ [Next]_vars => [Service!Next]_(Service!serviceVars)
  BY ServiceSteps DEF ServiceStep
<1>. QED BY <1>1, ServiceInit, InvCorrect, TypeCorrect, PTL
     DEF Spec, ImplementsService, Service!Spec
=============================================================================
