-------------------------- MODULE EventStreamProofs -------------------------
(***************************************************************************)
(* Proofs, for any buffers and any number of panes, taps and lines, of the *)
(* safety properties of EventStream.  IInv is inductive; each property is  *)
(* a part of it or follows from it.  Every action disturbs few of its      *)
(* parts, and Frame carries the others over.                               *)
(***************************************************************************)
EXTENDS EventStream, TLAPS

LEMMA Frame ==
  ASSUME IInv
  PROVE  /\ UNCHANGED <<streamVars, heardExited>> => TypeStream'
         /\ UNCHANGED readerVars => TypeReader'
         /\ UNCHANGED <<closed, panicked, taps, made, tapClosed, chClosed>> => TypeTaps'
         /\ UNCHANGED <<buffered, drops, total, fed, taken, tapSaid>> => TypeCounts'
         /\ UNCHANGED <<events, eventsClosed, lastPut, rpc, emitting>> => SlotInv'
         /\ UNCHANGED <<taps, made, chClosed, drops, closing>> => MadeInv'
         /\ UNCHANGED <<rpc, closing, toReport, drops, closed>> => ClosingInv'
         /\ UNCHANGED <<chClosed, tapClosed, closing, made, rpc, taps>> => FlagInv'
         /\ UNCHANGED <<emitted, published, totalDrops, reported, pendingDrops>> => EventLossesAdd'
         /\ UNCHANGED <<fed, taken, buffered, total, drops, tapSaid>> => TapLossesAdd'
         /\ UNCHANGED panicked => NoPanic'
         /\ UNCHANGED <<taps, chClosed, drops>> => ToldBeforeTheEnd'
<1>1. UNCHANGED <<streamVars, heardExited>> => TypeStream'
  BY DEF IInv, TypeOK, TypeStream, streamVars
<1>2. UNCHANGED readerVars => TypeReader' BY DEF IInv, TypeOK, TypeReader, readerVars
<1>3. UNCHANGED <<closed, panicked, taps, made, tapClosed, chClosed>> => TypeTaps'
  BY DEF IInv, TypeOK, TypeTaps
<1>4. UNCHANGED <<buffered, drops, total, fed, taken, tapSaid>> => TypeCounts'
  BY DEF IInv, TypeOK, TypeCounts
<1>5. UNCHANGED <<events, eventsClosed, lastPut, rpc, emitting>> => SlotInv'
  BY DEF IInv, SlotInv
<1>6. UNCHANGED <<taps, made, chClosed, drops, closing>> => MadeInv' BY DEF IInv, MadeInv
<1>7. UNCHANGED <<rpc, closing, toReport, drops, closed>> => ClosingInv'
  BY DEF IInv, ClosingInv, Ending
<1>8. UNCHANGED <<chClosed, tapClosed, closing, made, rpc, taps>> => FlagInv'
  BY DEF IInv, FlagInv, Ending
<1>9. UNCHANGED <<emitted, published, totalDrops, reported, pendingDrops>> => EventLossesAdd'
  BY DEF IInv, EventLossesAdd
<1>10. UNCHANGED <<fed, taken, buffered, total, drops, tapSaid>> => TapLossesAdd'
  BY DEF IInv, TapLossesAdd
<1>11. UNCHANGED panicked => NoPanic' BY DEF IInv, NoPanic
<1>12. UNCHANGED <<taps, chClosed, drops>> => ToldBeforeTheEnd'
  BY DEF IInv, ToldBeforeTheEnd
<1>. QED BY <1>1, <1>2, <1>3, <1>4, <1>5, <1>6, <1>7, <1>8, <1>9, <1>10, <1>11, <1>12

LEMMA InitInv == Init => IInv
<1>. SUFFICES ASSUME Init PROVE IInv OBVIOUS
<1>1. TypeStream
  <2>1. \A S : <<>> \in Seq(S) OBVIOUS
  <2>. QED BY <2>1 DEF Init, TypeStream
<1>2. TypeReader /\ TypeTaps /\ TypeCounts
  BY DEF Init, TypeReader, TypeTaps, TypeCounts
<1>3. SlotInv
  <2>1. Len(<<>>) = 0 /\ EventBuffer \in Nat BY BuffersOK
  <2>. QED BY <2>1 DEF Init, SlotInv
<1>4. MadeInv /\ ClosingInv /\ FlagInv BY DEF Init, MadeInv, ClosingInv, FlagInv, Ending
<1>5. EventLossesAdd /\ TapLossesAdd BY DEF Init, EventLossesAdd, TapLossesAdd
<1>6. NoPanic /\ ToldBeforeTheEnd BY DEF Init, NoPanic, ToldBeforeTheEnd
<1>. QED BY <1>1, <1>2, <1>3, <1>4, <1>5, <1>6 DEF IInv, TypeOK

(* What a report or an event put on the channel does to its length.        *)
LEMMA PutLen ==
  ASSUME TypeStream, NEW e \in {"event", "report", "exited"}, Put(e)
  PROVE  /\ events' \in Seq({"event", "report", "exited"})
         /\ Len(events') = Len(events) + 1 /\ lastPut' = e /\ Len(events) \in Nat
BY DEF Put, TypeStream

LEMMA FlushKeeps ==
  ASSUME TypeStream, EventLossesAdd, SlotInv, flushDrops, emitting # "no",
         UNCHANGED <<eventsClosed, totalDrops, emitted, published, heardExited>>
  PROVE  /\ TypeStream' /\ EventLossesAdd'
         /\ lastPut' # "exited" /\ Len(events') <= EventBuffer + 1
<1>0. EventBuffer \in Nat /\ lastPut # "exited" BY BuffersOK DEF SlotInv
<1>1. CASE pendingDrops > 0 /\ ReportFits
  <2>1. Put("report") /\ reported' = reported + pendingDrops /\ pendingDrops' = 0
    BY <1>1 DEF flushDrops
  <2>2. /\ events' \in Seq({"event", "report", "exited"})
        /\ Len(events') = Len(events) + 1 /\ lastPut' = "report" /\ Len(events) \in Nat
    BY <2>1, PutLen
  <2>3. TypeStream' BY <2>1, <2>2 DEF TypeStream
  <2>4. EventLossesAdd' BY <2>1 DEF EventLossesAdd, TypeStream
  <2>. QED BY <1>0, <1>1, <2>2, <2>3, <2>4 DEF ReportFits
<1>2. CASE ~(pendingDrops > 0 /\ ReportFits)
  <2>1. UNCHANGED <<events, lastPut, reported, pendingDrops>> BY <1>2 DEF flushDrops
  <2>. QED BY <1>0, <2>1 DEF TypeStream, EventLossesAdd, SlotInv
<1>. QED BY <1>1, <1>2

LEMMA EmitInv == ASSUME IInv, Emit PROVE IInv'
<1>. USE Frame DEF emitKeeps, tapVars
<1>0. TypeStream /\ TypeReader /\ EventLossesAdd /\ SlotInv /\ EventBuffer \in Nat
  BY BuffersOK DEF IInv, TypeOK
<1>1. CASE EmitFlush
  <2>1. TypeStream' /\ EventLossesAdd' /\ lastPut' # "exited" /\ Len(events') <= EventBuffer + 1
    BY <1>0, <1>1, FlushKeeps DEF EmitFlush
  <2>2. TypeReader' BY <1>0, <1>1 DEF EmitFlush, TypeReader
  <2>3. SlotInv' BY <1>0, <1>1, <2>1 DEF EmitFlush, SlotInv
  <2>. QED BY <1>1, <2>1, <2>2, <2>3 DEF EmitFlush, IInv, TypeOK
<1>2. CASE EmitReflush
  <2>1. TypeStream' /\ EventLossesAdd' /\ lastPut' # "exited" /\ Len(events') <= EventBuffer + 1
    BY <1>0, <1>2, FlushKeeps DEF EmitReflush
  <2>2. TypeReader' BY <1>0, <1>2 DEF EmitReflush, TypeReader
  <2>3. SlotInv' BY <1>0, <1>2, <2>1 DEF EmitReflush, SlotInv
  <2>. QED BY <1>2, <2>1, <2>2, <2>3 DEF EmitReflush, IInv, TypeOK
<1>3. CASE EmitPublish /\ Room
  <2>1. Put("event") /\ emitting' = "no" /\ published' = published + 1
        /\ UNCHANGED <<totalDrops, pendingDrops>>
    BY <1>3 DEF EmitPublish
  <2>2. /\ events' \in Seq({"event", "report", "exited"})
        /\ Len(events') = Len(events) + 1 /\ lastPut' = "event" /\ Len(events) \in Nat
    BY <1>0, <2>1, PutLen
  <2>3. TypeStream' BY <1>0, <1>3, <2>1, <2>2 DEF EmitPublish, TypeStream
  <2>4. EventLossesAdd' BY <1>0, <1>3, <2>1 DEF EmitPublish, EventLossesAdd, TypeStream
  <2>5. TypeReader' BY <1>0, <1>3, <2>1 DEF EmitPublish, TypeReader
  <2>6. SlotInv' BY <1>0, <1>3, <2>1, <2>2 DEF EmitPublish, SlotInv, Room
  <2>. QED BY <1>3, <2>3, <2>4, <2>5, <2>6 DEF EmitPublish, IInv, TypeOK
<1>4. CASE EmitPublish /\ ~Room
  <2>1. /\ totalDrops' = totalDrops + 1 /\ pendingDrops' = pendingDrops + 1
        /\ emitting' = "reflush" /\ UNCHANGED <<events, lastPut, published>>
    BY <1>4 DEF EmitPublish
  <2>2. TypeStream' BY <1>0, <1>4, <2>1 DEF EmitPublish, TypeStream
  <2>3. EventLossesAdd' BY <1>0, <1>4, <2>1 DEF EmitPublish, EventLossesAdd, TypeStream
  <2>4. TypeReader' BY <1>0, <1>4, <2>1 DEF EmitPublish, TypeReader
  <2>5. SlotInv' BY <1>0, <1>4, <2>1 DEF EmitPublish, SlotInv
  <2>. QED BY <1>4, <2>2, <2>3, <2>4, <2>5 DEF EmitPublish, IInv, TypeOK
<1>. QED BY <1>1, <1>2, <1>3, <1>4 DEF Emit

LEMMA ReadInv ==
  ASSUME IInv, ReadEvent \/ (\E p \in Pane : ReadOutput(p)) \/ ReadEnd
  PROVE  IInv'
<1>. USE Frame DEF tapVars, At
<1>0. TypeReader /\ SlotInv /\ ClosingInv /\ FlagInv BY DEF IInv, TypeOK
<1>1. CASE ReadEvent
  <2>1. TypeReader' BY <1>0, <1>1 DEF ReadEvent, TypeReader
  <2>2. SlotInv' BY <1>0, <1>1 DEF ReadEvent, SlotInv, streamVars
  <2>. QED BY <1>1, <2>1, <2>2 DEF ReadEvent, IInv, TypeOK, streamVars
<1>2. ASSUME NEW p \in Pane, ReadOutput(p) PROVE IInv'
  <2>1. TypeReader' BY <1>0, <1>2 DEF ReadOutput, TypeReader
  <2>2. SlotInv' BY <1>0, <1>2 DEF ReadOutput, SlotInv, streamVars
  <2>3. ClosingInv' BY <1>0, <1>2 DEF ReadOutput, ClosingInv, Ending
  <2>4. FlagInv' BY <1>0, <1>2 DEF ReadOutput, FlagInv, Ending
  <2>. QED BY <1>2, <2>1, <2>2, <2>3, <2>4 DEF ReadOutput, IInv, TypeOK, streamVars
<1>3. CASE ReadEnd
  <2>1. TypeReader' BY <1>0, <1>3 DEF ReadEnd, TypeReader
  <2>2. SlotInv' BY <1>0, <1>3 DEF ReadEnd, SlotInv, streamVars
  <2>3. ClosingInv' BY <1>0, <1>3 DEF ReadEnd, ClosingInv, Ending
  <2>4. FlagInv' BY <1>0, <1>3 DEF ReadEnd, FlagInv, Ending
  <2>. QED BY <1>3, <2>1, <2>2, <2>3, <2>4 DEF ReadEnd, IInv, TypeOK, streamVars
<1>. QED BY <1>1, <1>2, <1>3

(* A tap that is delivered to is open: its channel cannot be sent on late. *)
LEMMA TapSendInv == ASSUME IInv, TapSend PROVE IInv'
<1>. USE Frame DEF tapVars, At
<1>. DEFINE t == taps[outPane]
<1>0. /\ TypeReader /\ TypeTaps /\ TypeCounts /\ SlotInv /\ MadeInv /\ ClosingInv
      /\ FlagInv /\ TapLossesAdd /\ ToldBeforeTheEnd /\ NoPanic
  BY DEF IInv, TypeOK
<1>1. SlotInv' BY <1>0 DEF TapSend, SlotInv, streamVars
<1>2. CASE ~Deliverable(t)
  <2>1. UNCHANGED <<emitting, tapVars, panicked>> BY <1>2 DEF TapSend
  <2>2. TypeReader' BY <1>0, <2>1 DEF TapSend, TypeReader
  <2>3. ClosingInv' BY <1>0, <2>1 DEF TapSend, ClosingInv, Ending
  <2>4. FlagInv' BY <1>0, <2>1 DEF TapSend, FlagInv, Ending
  <2>. QED BY <1>1, <2>1, <2>2, <2>3, <2>4 DEF TapSend, IInv, TypeOK, streamVars
<1>3. CASE Deliverable(t)
  <2>0. /\ panicked' = (panicked \/ chClosed[t])
        /\ fed' = Add(fed, t, 1)
        /\ UNCHANGED <<made, tapClosed, chClosed, taken>>
    BY <1>3 DEF TapSend
  <2>1. t \in Tap /\ ~tapClosed[t] /\ ~chClosed[t] /\ t \in made /\ closing = {}
    BY <1>0, <1>3 DEF TapSend, Deliverable, TypeReader, TypeTaps, FlagInv, MadeInv,
                      ClosingInv, Ending
  <2>2. NoPanic' BY <1>0, <2>0, <2>1 DEF NoPanic
  <2>3. /\ TypeReader' /\ TypeCounts' /\ TapLossesAdd'
    <3>1. CASE buffered[t] < OutputBuffer
      <4>1. /\ buffered' = Add(buffered, t, 1) /\ drops' = Zero(drops, t)
            /\ tapSaid' = Add(tapSaid, t, drops[t])
            /\ emitting' = IF drops[t] > 0 THEN "flush" ELSE "no"
            /\ UNCHANGED total
        BY <1>3, <3>1 DEF TapSend
      <4>2. TypeReader' BY <1>0, <4>1 DEF TapSend, TypeReader
      <4>3. TypeCounts' BY <1>0, <2>0, <2>1, <4>1 DEF TypeCounts, Add, Zero
      <4>a. /\ fed'[t] = fed[t] + 1 /\ buffered'[t] = buffered[t] + 1 /\ drops'[t] = 0
            /\ tapSaid'[t] = tapSaid[t] + drops[t]
            /\ \A u \in Tap : u # t =>
                 /\ fed'[u] = fed[u] /\ buffered'[u] = buffered[u]
                 /\ drops'[u] = drops[u] /\ tapSaid'[u] = tapSaid[u]
        BY <1>0, <2>0, <2>1, <4>1 DEF TypeCounts, Add, Zero
      <4>4. TapLossesAdd'
        <5>. SUFFICES ASSUME NEW u \in Tap
                      PROVE  /\ fed'[u] = taken'[u] + buffered'[u] + total'[u]
                             /\ total'[u] = drops'[u] + tapSaid'[u]
          BY DEF TapLossesAdd
        <5>1. /\ fed[u] = taken[u] + buffered[u] + total[u]
              /\ total[u] = drops[u] + tapSaid[u]
              /\ fed[u] \in Nat /\ taken[u] \in Nat /\ buffered[u] \in Nat
              /\ total[u] \in Nat /\ drops[u] \in Nat /\ tapSaid[u] \in Nat
          BY <1>0 DEF TapLossesAdd, TypeCounts
        <5>2. CASE u = t BY <2>0, <4>1, <4>a, <5>1, <5>2
        <5>3. CASE u # t BY <2>0, <4>1, <4>a, <5>1, <5>3
        <5>. QED BY <5>2, <5>3
      <4>. QED BY <4>2, <4>3, <4>4
    <3>2. CASE ~(buffered[t] < OutputBuffer)
      <4>1. /\ drops' = Add(drops, t, 1) /\ total' = Add(total, t, 1)
            /\ UNCHANGED <<buffered, tapSaid, emitting>>
        BY <1>3, <3>2 DEF TapSend
      <4>2. TypeReader' BY <1>0, <4>1 DEF TapSend, TypeReader
      <4>3. TypeCounts' BY <1>0, <2>0, <2>1, <4>1 DEF TypeCounts, Add
      <4>a. /\ fed'[t] = fed[t] + 1 /\ drops'[t] = drops[t] + 1
            /\ total'[t] = total[t] + 1
            /\ \A u \in Tap : u # t =>
                 fed'[u] = fed[u] /\ drops'[u] = drops[u] /\ total'[u] = total[u]
        BY <1>0, <2>0, <2>1, <4>1 DEF TypeCounts, Add
      <4>4. TapLossesAdd'
        <5>. SUFFICES ASSUME NEW u \in Tap
                      PROVE  /\ fed'[u] = taken'[u] + buffered'[u] + total'[u]
                             /\ total'[u] = drops'[u] + tapSaid'[u]
          BY DEF TapLossesAdd
        <5>1. /\ fed[u] = taken[u] + buffered[u] + total[u]
              /\ total[u] = drops[u] + tapSaid[u]
              /\ fed[u] \in Nat /\ taken[u] \in Nat /\ buffered[u] \in Nat
              /\ total[u] \in Nat /\ drops[u] \in Nat /\ tapSaid[u] \in Nat
          BY <1>0 DEF TapLossesAdd, TypeCounts
        <5>2. CASE u = t BY <2>0, <4>1, <4>a, <5>1, <5>2
        <5>3. CASE u # t BY <2>0, <4>1, <4>a, <5>1, <5>3
        <5>. QED BY <5>2, <5>3
      <4>. QED BY <4>2, <4>3, <4>4
    <3>. QED BY <3>1, <3>2
  <2>4. \A u \in Tap : u # t => drops'[u] = drops[u]
    <3>1. CASE drops' = Zero(drops, t) BY <1>0, <3>1 DEF TypeCounts, Zero
    <3>2. CASE drops' = Add(drops, t, 1) BY <1>0, <3>2 DEF TypeCounts, Add
    <3>. QED BY <1>3, <3>1, <3>2 DEF TapSend
  <2>5. MadeInv' BY <1>0, <2>0, <2>1, <2>4 DEF MadeInv, TapSend
  <2>6. ClosingInv' BY <1>0, <2>1 DEF ClosingInv, Ending, TapSend
  <2>7. FlagInv' BY <1>0, <2>0 DEF FlagInv, Ending, TapSend
  <2>8. ToldBeforeTheEnd'
    BY <1>0, <2>0, <2>1, <2>4 DEF ToldBeforeTheEnd, TapSend, TypeTaps
  <2>9. TypeTaps' BY <1>0, <2>0, <2>1 DEF TapSend, TypeTaps
  <2>. QED BY <1>1, <2>2, <2>3, <2>5, <2>6, <2>7, <2>8, <2>9
          DEF TapSend, IInv, TypeOK, streamVars
<1>. QED BY <1>2, <1>3

LEMMA FinishInv == ASSUME IInv, finishReader PROVE IInv'
<1>. USE Frame DEF At
<1>0. /\ TypeStream /\ TypeReader /\ TypeTaps /\ TypeCounts /\ SlotInv /\ MadeInv
      /\ ClosingInv /\ FlagInv /\ TapLossesAdd /\ ToldBeforeTheEnd /\ NoPanic /\ EventLossesAdd
  BY DEF IInv, TypeOK
<1>1. CASE FinishLocked
  <2>. USE <1>1 DEF FinishLocked
  <2>1. Registered \subseteq made /\ Registered \subseteq Tap
    BY <1>0 DEF Registered, MadeInv, TypeTaps
  <2>2. TypeReader' BY <1>0, <2>1 DEF TypeReader
  <2>3. TypeTaps' BY <1>0 DEF TypeTaps
  <2>4. SlotInv' BY <1>0 DEF SlotInv, streamVars
  <2>5. MadeInv' BY <1>0, <2>1 DEF MadeInv
  <2>6. ClosingInv' BY <1>0 DEF ClosingInv, Ending
  <2>7. \A t \in made : ~tapClosed[t] => t \in Registered
    BY <1>0, BuffersOK DEF FlagInv, Registered, TypeTaps
  <2>8. \A t \in Tap : tapClosed'[t] <=> tapClosed[t] \/ t \in Registered
    BY <1>0 DEF TypeTaps
  <2>9. FlagInv'
    <3>1. \A t \in Tap : chClosed[t] => tapClosed'[t] /\ t \notin closing'
      BY <1>0, <2>8 DEF FlagInv
    <3>2. \A t \in made : tapClosed'[t] => chClosed[t] \/ t \in closing'
      BY <1>0, <2>1, <2>8 DEF FlagInv, ClosingInv, Ending, TypeTaps
    <3>3. \A t \in made : tapClosed'[t] BY <1>0, <2>7, <2>8 DEF TypeTaps
    <3>. QED BY <3>1, <3>2, <3>3 DEF FlagInv
  <2>. QED BY <2>2, <2>3, <2>4, <2>5, <2>6, <2>9 DEF IInv, TypeOK, streamVars
<1>2. ASSUME NEW t \in Tap, FinishReport(t) PROVE IInv'
  <2>. USE <1>2 DEF FinishReport
  <2>1. TypeReader' BY <1>0 DEF TypeReader
  <2>2. TypeCounts' BY <1>0 DEF TypeCounts, Add, Zero
  <2>3. SlotInv' BY <1>0 DEF SlotInv, streamVars
  <2>4. drops'[t] = 0 /\ \A u \in Tap : u # t => drops'[u] = drops[u]
    BY <1>0 DEF TypeCounts, Zero
  <2>5. MadeInv' BY <1>0, <2>4 DEF MadeInv
  <2>6. ClosingInv' BY <1>0, <2>4 DEF ClosingInv, Ending, TypeReader
  <2>7. TapLossesAdd' BY <1>0 DEF TapLossesAdd, TypeCounts, Add, Zero
  <2>8. ToldBeforeTheEnd' BY <1>0, <2>4 DEF ToldBeforeTheEnd, TypeTaps
  <2>. QED BY <2>1, <2>2, <2>3, <2>5, <2>6, <2>7, <2>8 DEF IInv, TypeOK, streamVars
<1>3. CASE FinishExited
  <2>. USE <1>3 DEF FinishExited
  <2>0. lastPut # "exited" /\ Len(events) <= EventBuffer + 1 /\ EventBuffer \in Nat
        /\ Len(events) \in Nat
    BY <1>0, BuffersOK DEF SlotInv, TypeStream
  <2>1. Put("exited") /\ UNCHANGED totalDrops BY <2>0
  <2>2. events' \in Seq({"event", "report", "exited"}) /\ lastPut' = "exited"
    BY <1>0, <2>1, PutLen
  <2>3. TypeStream' BY <1>0, <2>1, <2>2 DEF TypeStream
  <2>4. TypeReader' BY <1>0 DEF TypeReader
  <2>5. SlotInv' BY <1>0, <2>2 DEF SlotInv
  <2>6. ClosingInv' BY <1>0 DEF ClosingInv, Ending, tapVars
  <2>7. FlagInv' BY <1>0 DEF FlagInv, Ending, tapVars
  <2>8. EventLossesAdd' BY <1>0, <2>1 DEF EventLossesAdd
  <2>. QED BY <2>3, <2>4, <2>5, <2>6, <2>7, <2>8 DEF IInv, TypeOK, tapVars
<1>4. ASSUME NEW t \in Tap, FinishCloseTap(t) PROVE IInv'
  <2>. USE <1>4 DEF FinishCloseTap
  <2>1. chClosed'[t] /\ \A u \in Tap : u # t => chClosed'[u] = chClosed[u]
    BY <1>0 DEF TypeTaps
  <2>2. t \in made /\ ~chClosed[t] /\ tapClosed[t] /\ drops[t] = 0
    BY <1>0 DEF FlagInv, MadeInv, ClosingInv, Ending
  <2>3. TypeReader' BY <1>0 DEF TypeReader
  <2>4. TypeTaps' BY <1>0 DEF TypeTaps
  <2>5. MadeInv' BY <1>0, <2>1, <2>2 DEF MadeInv
  <2>6. ClosingInv' BY <1>0 DEF ClosingInv, Ending
  <2>7. FlagInv' BY <1>0, <2>1, <2>2 DEF FlagInv, Ending, TypeTaps
  <2>8. NoPanic' BY <1>0, <2>2 DEF NoPanic
  <2>9. ToldBeforeTheEnd' BY <1>0, <2>1, <2>2 DEF ToldBeforeTheEnd, TypeTaps
  <2>10. SlotInv' BY <1>0 DEF SlotInv, streamVars
  <2>. QED BY <2>3, <2>4, <2>5, <2>6, <2>7, <2>8, <2>9, <2>10 DEF IInv, TypeOK, streamVars
<1>5. CASE FinishCloseEvents
  <2>. USE <1>5 DEF FinishCloseEvents
  <2>1. TypeStream' BY <1>0 DEF TypeStream
  <2>2. TypeReader' BY <1>0 DEF TypeReader
  <2>3. SlotInv' BY <1>0 DEF SlotInv
  <2>4. ClosingInv' BY <1>0 DEF ClosingInv, Ending
  <2>5. FlagInv' BY <1>0 DEF FlagInv, Ending, tapVars
  <2>. QED BY <2>1, <2>2, <2>3, <2>4, <2>5 DEF IInv, TypeOK, tapVars
<1>6. CASE FinishDone
  <2>. USE <1>6 DEF FinishDone
  <2>1. TypeReader' BY <1>0 DEF TypeReader
  <2>2. SlotInv' BY <1>0 DEF SlotInv, streamVars
  <2>3. ClosingInv' BY <1>0 DEF ClosingInv, Ending
  <2>4. FlagInv' BY <1>0 DEF FlagInv, Ending, tapVars
  <2>. QED BY <2>1, <2>2, <2>3, <2>4 DEF IInv, TypeOK, tapVars, streamVars
<1>. QED BY <1>1, <1>2, <1>3, <1>4, <1>5, <1>6 DEF finishReader

LEMMA CallerInv ==
  ASSUME IInv,
         \/ \E p \in Pane, t \in Tap : Output(p, t)
         \/ \E p \in Pane : Untap(p)
         \/ CloseMark \/ Receive \/ \E t \in Tap : TapReceive(t)
  PROVE  IInv'
<1>. USE Frame DEF callerKeeps, streamVars, readerVars
<1>0. /\ TypeStream /\ TypeTaps /\ TypeCounts /\ SlotInv /\ MadeInv
      /\ ClosingInv /\ FlagInv /\ TapLossesAdd /\ ToldBeforeTheEnd /\ NoPanic
  BY DEF IInv, TypeOK
<1>1. ASSUME NEW p \in Pane, NEW t \in Tap, Output(p, t) PROVE IInv'
  <2>. USE <1>1 DEF Output, BornClosed
  <2>1. /\ chClosed'[t] = closed /\ tapClosed'[t] = closed
        /\ \A u \in Tap : u # t => chClosed'[u] = chClosed[u] /\ tapClosed'[u] = tapClosed[u]
    BY <1>0 DEF TypeTaps
  <2>2. taps'[p] = t /\ \A q \in Pane : q # p => taps'[q] = taps[q]
    BY <1>0 DEF TypeTaps
  <2>3. drops[t] = 0 /\ t # NoTap /\ t \notin closing
    BY <1>0, BuffersOK DEF MadeInv
  <2>4. TypeTaps' BY <1>0 DEF TypeTaps
  <2>5. MadeInv' BY <1>0, <2>1, <2>2, <2>3 DEF MadeInv
  <2>6. FlagInv'
    <3>1. \A u \in Tap : chClosed'[u] => tapClosed'[u] /\ u \notin closing
      BY <1>0, <2>1, <2>3 DEF FlagInv
    <3>2. \A u \in made' : tapClosed'[u] => chClosed'[u] \/ u \in closing
      BY <1>0, <2>1 DEF FlagInv, TypeTaps
    <3>3. \A u \in made : ~tapClosed[u] => \E q \in Pane : q # p /\ taps[q] = u
      BY <1>0, BuffersOK DEF FlagInv, TypeTaps
    <3>4. \A u \in made' : ~tapClosed'[u] => ~Ending' /\ \E q \in Pane : taps'[q] = u
      <4>1. ASSUME NEW u \in made, u # t, ~tapClosed'[u]
            PROVE  ~Ending' /\ \E q \in Pane : taps'[q] = u
        BY <1>0, <2>1, <2>2, <3>3, <4>1 DEF FlagInv, Ending, TypeTaps
      <4>2. ~tapClosed'[t] => ~Ending' BY <1>0, <2>1 DEF ClosingInv, Ending
      <4>. QED BY <2>2, <4>1, <4>2
    <3>. QED BY <3>1, <3>2, <3>4 DEF FlagInv
  <2>7. ToldBeforeTheEnd' BY <1>0, <2>1, <2>2, <2>3 DEF ToldBeforeTheEnd, MadeInv, TypeTaps
  <2>. QED BY <2>4, <2>5, <2>6, <2>7 DEF IInv, TypeOK
<1>2. ASSUME NEW p \in Pane, Untap(p) PROVE IInv'
  <2>. DEFINE t == taps[p]
  <2>. USE <1>2 DEF Untap
  <2>1. t \in Tap /\ t \in made BY <1>0 DEF TypeTaps, MadeInv
  <2>2. taps'[p] = NoTap /\ \A q \in Pane : q # p => taps'[q] = taps[q]
    BY <1>0 DEF TypeTaps
  <2>3. \A q \in Pane : taps'[q] # NoTap => taps'[q] = taps[q] /\ taps'[q] # t
    BY <1>0, <2>2 DEF MadeInv
  <2>4. CASE tapClosed[t]
    <3>. USE <2>4
    <3>0. UNCHANGED <<tapClosed, chClosed, panicked>> OBVIOUS
    <3>1. TypeTaps' BY <1>0, <3>0 DEF TypeTaps
    <3>2. MadeInv' BY <1>0, <2>2, <3>0 DEF MadeInv
    <3>3. FlagInv' BY <1>0, <2>2, <3>0 DEF FlagInv, Ending
    <3>4. ToldBeforeTheEnd' BY <1>0, <2>3, <3>0 DEF ToldBeforeTheEnd
    <3>. QED BY <3>0, <3>1, <3>2, <3>3, <3>4 DEF IInv, TypeOK
  <2>5. CASE ~tapClosed[t]
    <3>. USE <2>5
    <3>0. /\ tapClosed' = [tapClosed EXCEPT ![t] = TRUE]
          /\ chClosed' = [chClosed EXCEPT ![t] = TRUE]
          /\ panicked' = (panicked \/ chClosed[t])
      OBVIOUS
    <3>a. /\ chClosed'[t] /\ tapClosed'[t]
          /\ \A u \in Tap : u # t => chClosed'[u] = chClosed[u] /\ tapClosed'[u] = tapClosed[u]
      BY <1>0, <2>1, <3>0 DEF TypeTaps
    <3>b. ~chClosed[t] /\ closing = {}
      BY <1>0, <2>1 DEF FlagInv, ClosingInv
    <3>1. TypeTaps' BY <1>0, <3>0 DEF TypeTaps
    <3>2. MadeInv' BY <1>0, <2>1, <2>2, <3>a DEF MadeInv
    <3>3. FlagInv' BY <1>0, <2>1, <2>2, <3>a, <3>b DEF FlagInv, Ending, TypeTaps
    <3>4. ToldBeforeTheEnd' BY <1>0, <2>3, <3>a DEF ToldBeforeTheEnd, TypeTaps
    <3>5. NoPanic' BY <1>0, <3>0, <3>b DEF NoPanic
    <3>. QED BY <3>1, <3>2, <3>3, <3>4, <3>5 DEF IInv, TypeOK
  <2>. QED BY <2>4, <2>5
<1>3. CASE CloseMark
  <2>. USE <1>3 DEF CloseMark, tapVars
  <2>1. TypeTaps' BY <1>0 DEF TypeTaps
  <2>2. ClosingInv' BY <1>0 DEF ClosingInv, Ending
  <2>. QED BY <2>1, <2>2 DEF IInv, TypeOK
<1>4. CASE Receive
  <2>. USE <1>4 DEF Receive, tapVars
  <2>1. /\ events' \in Seq({"event", "report", "exited"})
        /\ Len(events') = Len(events) - 1 /\ Len(events) \in Nat
    BY <1>0 DEF TypeStream
  <2>2. TypeStream' BY <1>0, <2>1 DEF TypeStream
  <2>a. EventBuffer \in Nat BY BuffersOK
  <2>b. UNCHANGED <<eventsClosed, lastPut, rpc, emitting>> OBVIOUS
  <2>c. lastPut # "exited" => Len(events') <= EventBuffer + 1
    <3>1. lastPut # "exited" => Len(events) <= EventBuffer + 1 BY <1>0 DEF SlotInv
    <3>2. \A m, n \in Nat : n <= m + 1 => n - 1 <= m + 1 OBVIOUS
    <3>. QED BY <2>1, <2>a, <3>1, <3>2
  <2>3. SlotInv' BY <1>0, <2>b, <2>c DEF SlotInv
  <2>. QED BY <2>2, <2>3 DEF IInv, TypeOK
<1>5. ASSUME NEW t \in Tap, TapReceive(t) PROVE IInv'
  <2>. USE <1>5 DEF TapReceive
  <2>1. TypeCounts' BY <1>0 DEF TypeCounts, Add
  <2>2. TapLossesAdd' BY <1>0 DEF TapLossesAdd, TypeCounts, Add
  <2>. QED BY <2>1, <2>2 DEF IInv, TypeOK
<1>. QED BY <1>1, <1>2, <1>3, <1>4, <1>5

LEMMA StepInv == IInv /\ [Next]_vars => IInv'
<1>. SUFFICES ASSUME IInv, [Next]_vars PROVE IInv' OBVIOUS
<1>1. CASE UNCHANGED vars
  BY <1>1, Frame DEF vars, streamVars, readerVars, tapVars, IInv, TypeOK
<1>. QED BY <1>1, EmitInv, ReadInv, TapSendInv, FinishInv, CallerInv DEF Next, ReaderWorks

LEMMA Inductive == Spec => []IInv
  BY InitInv, StepInv, PTL DEF Spec

(* Exited is the last thing on the event channel when it closes, for every *)
(* size of the buffers: no loss report ever takes its slot.                *)
THEOREM ExitedIsAlwaysLast == Spec => []ExitedIsLast
<1>1. IInv => ExitedIsLast BY DEF IInv, SlotInv, ExitedIsLast
<1>. QED BY <1>1, Inductive, PTL

(* Nothing is lost uncounted, on the event channel or on a tap.            *)
THEOREM EveryLossCounted == Spec => []LossesAdd
<1>1. IInv => LossesAdd BY DEF IInv, LossesAdd
<1>. QED BY <1>1, Inductive, PTL

(* No channel is sent on after it was closed, nor closed twice, whatever   *)
(* Output, Untap, Close and the teardown do to a tap at once.              *)
THEOREM NeverPanics == Spec => []NoPanic
<1>1. IInv => NoPanic BY DEF IInv
<1>. QED BY <1>1, Inductive, PTL

(* Every tap ever made is closed when the connection has ended, and a tap  *)
(* the teardown closes has had its losses announced.                       *)
THEOREM EndIsComplete == Spec => [](EndClosesTaps /\ ToldBeforeTheEnd)
<1>1. IInv => EndClosesTaps /\ ToldBeforeTheEnd
  BY DEF IInv, TypeOK, TypeTaps, FlagInv, ClosingInv, Ending, EndClosesTaps
<1>. QED BY <1>1, Inductive, PTL
=============================================================================
