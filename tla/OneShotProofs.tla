---------------------------- MODULE OneShotProofs ----------------------------
(***************************************************************************)
(* Proofs, for every set of callers and of identifiers and whether or not  *)
(* tmux has the fault, that the model of OneShot keeps its safety          *)
(* properties.                                                             *)
(***************************************************************************)
EXTENDS OneShot, FiniteSetTheorems, TLAPS

(* Where a call stands, and what it holds by then: what it is about; that  *)
(* only a reading call lists; that its rows miss nothing it is about that  *)
(* still lives, if it was connected to; and what it created.                                       *)
CallInv(c) ==
  /\ asked[c] \subseteq made
  /\ op[c] \in About /\ pc[c] # "idle" => asked[c] = {id[c]}
  /\ pc[c] \in {"list", "decode", "version", "find"} => op[c] \in {"Session", "NewSession"}
  /\ pc[c] \in {"decode", "version", "find"} =>
       asked[c] \intersect live \subseteq rows[c] \/ unreached[c]
  /\ pc[c] \in {"idle", "run"} => own[c] = NoId
  /\ op[c] = "NewSession" /\ pc[c] \in {"list", "decode", "version", "find"} =>
       own[c] # NoId /\ id[c] = own[c]
  /\ GoneAsSaid(c) /\ CreatedAsSaid(c)

(* One caller asks for the version, and a row is decoded once it answered. *)
NameInv ==
  /\ \A c, d \in Caller : pc[c] = "version" /\ pc[d] = "version" => c = d
  /\ \A c \in Caller : pc[c] = "find" /\ rows[c] # {} => once = "answered"
  /\ once # "answered" => version = "unknown" /\ \A s \in Id : told[s] = {}
  /\ \A s \in Id : told[s] \subseteq {decodeStored}

IInv == NameInv /\ \A c \in Caller : CallInv(c)

-----------------------------------------------------------------------------
(* How a process ends *)

Results == Errors \union {"nil", "true", "false"}
AnyExit == {"ok", "no-server", "missing", "missing-file", "not-started", "killed",
            "unreachable"}

(* run reads the exit right: nil is success, an absence is the server's    *)
(* own word or a connection that failed, and anything else had a context   *)
(* or a failure of its own.                                                *)
LEMMA RunIs ==
  ASSUME NEW c \in Caller, NEW reply \in {"ok", "no-server", "missing"},
         NEW exit \in ServerExits(c, reply)
  PROVE  /\ exit \in AnyExit /\ run(c, exit) \in Errors \union {"nil"}
         /\ run(c, exit) = "nil" <=> exit = "ok"
         /\ Gone(run(c, exit)) => (exit = reply /\ reply # "ok") \/ exit = "unreachable"
         /\ run(c, exit) = "nil" \/ Gone(run(c, exit))
              \/ exit \in {"killed", "missing-file", "not-started"} \/ ctxEnded[c]
<1>1. exit \in {reply, "missing-file", "not-started", "killed", "unreachable"}
  BY DEF ServerExits, Exits
<1>. QED BY <1>1 DEF run, noServerPatterns, Gone, Errors, AnyExit

LEMMA EndsIs ==
  ASSUME TypeOK, NEW c \in Caller, NEW exit, Ends(c, exit)
  PROVE  /\ ctxEnded' \in [Caller -> BOOLEAN] /\ upset' \in [Caller -> BOOLEAN]
         /\ unreached' \in [Caller -> BOOLEAN]
         /\ exit = "unreachable" \/ unreached[c] => unreached'[c]
         /\ exit = "killed" \/ ctxEnded[c] => ctxEnded'[c]
         /\ exit \in {"missing-file", "not-started"} => ctxEnded'[c] \/ upset'[c]
         /\ \A d \in Caller \ {c} :
              /\ ctxEnded'[d] = ctxEnded[d] /\ upset'[d] = upset[d]
              /\ unreached'[d] = unreached[d]
<1>. USE DEF TypeOK, TypeCalls, TypeHistory, Ends
<1>1. ctxEnded' \in [Caller -> BOOLEAN] /\ ctxEnded'[c] = (ctxEnded[c] \/ exit = "killed")
  OBVIOUS
<1>2. /\ upset' \in [Caller -> BOOLEAN]
      /\ upset'[c] = (upset[c] \/ (~ctxEnded[c] /\ exit \in {"missing-file", "not-started"}))
  OBVIOUS
<1>3. \A d \in Caller \ {c} : ctxEnded'[d] = ctxEnded[d] /\ upset'[d] = upset[d] OBVIOUS
<1>4. /\ unreached' \in [Caller -> BOOLEAN]
      /\ unreached'[c] = (unreached[c] \/ exit = "unreachable")
      /\ \A d \in Caller \ {c} : unreached'[d] = unreached[d]
  OBVIOUS
<1>. QED BY <1>1, <1>2, <1>3, <1>4

LEMMA ReturnIs ==
  ASSUME TypeOK, NEW c \in Caller, NEW err \in Results, Return(c, err)
  PROVE  /\ pc' \in [Caller -> {"idle", "run", "list", "decode", "version", "find", "returned"}]
         /\ result' \in [Caller -> Results]
         /\ pc'[c] = "returned" /\ result'[c] = err
         /\ \A d \in Caller \ {c} : pc'[d] = pc[d] /\ result'[d] = result[d]
BY DEF TypeOK, TypeCalls, Return, Results

-----------------------------------------------------------------------------
(* Types *)

LEMMA TypeFrame ==
  ASSUME TypeOK
  PROVE  /\ UNCHANGED <<live, made, told>> => TypeServer'
         /\ UNCHANGED <<once, version, pc>> => TypeOnce'
         /\ UNCHANGED callVars => TypeCalls'
         /\ UNCHANGED <<own, asked, upset, unreached>> => TypeHistory'
<1>1. UNCHANGED <<live, made, told>> => TypeServer' BY DEF TypeOK, TypeServer
<1>2. UNCHANGED <<once, version, pc>> => TypeOnce' BY DEF TypeOK, TypeOnce
<1>3. UNCHANGED callVars => TypeCalls' BY DEF TypeOK, TypeCalls, callVars
<1>4. UNCHANGED <<own, asked, upset, unreached>> => TypeHistory' BY DEF TypeOK, TypeHistory
<1>. QED BY <1>1, <1>2, <1>3, <1>4

(* A caller that neither starts nor ends asking leaves the question as is. *)
LEMMA OnceTypes ==
  ASSUME TypeOK, NEW c \in Caller, pc[c] # "version", pc'[c] # "version",
         \A d \in Caller \ {c} : pc'[d] = pc[d], UNCHANGED onceVars
  PROVE  TypeOnce'
<1>1. (\E d \in Caller : pc'[d] = "version") = (\E d \in Caller : pc[d] = "version") OBVIOUS
<1>. QED BY <1>1 DEF TypeOK, TypeOnce, onceVars

LEMMA TypeInit == Init => TypeOK
<1>. SUFFICES ASSUME Init PROVE TypeOK OBVIOUS
<1>. USE DEF Init
<1>1. TypeServer BY DEF TypeServer
<1>2. TypeOnce
  <2>1. ~\E c \in Caller : pc[c] = "version" OBVIOUS
  <2>. QED BY <2>1 DEF TypeOnce
<1>3. TypeCalls
  <2>1. calls \in 0..MaxCalls BY OneShotAssumption
  <2>. QED BY <2>1 DEF TypeCalls, Ops, Reads, Errors
<1>4. TypeHistory BY DEF TypeHistory
<1>. QED BY <1>1, <1>2, <1>3, <1>4 DEF TypeOK

LEMMA CallTypes ==
  ASSUME TypeOK, NEW c \in Caller, NEW o \in Ops, Call(c, o)
  PROVE  TypeOK'
<1>. USE DEF Call
<1>1. TypeServer' BY TypeFrame DEF serverVars
<1>2. pc' = [pc EXCEPT ![c] = IF o = "Session" THEN "list" ELSE "run"] /\ pc[c] = "idle" OBVIOUS
<1>3. TypeOnce' BY <1>2, OnceTypes DEF TypeOK, TypeCalls
<1>4. PICK s \in IF o \in About THEN made ELSE {NoId} :
        /\ id' = [id EXCEPT ![c] = s]
        /\ asked' = [asked EXCEPT ![c] = IF o \in About THEN {s} ELSE live]
  OBVIOUS
<1>5. s \in Id \union {NoId} /\ (o \in About => s \in Id) BY DEF TypeOK, TypeServer
<1>6. TypeCalls'
  <2>1. calls' \in 0..MaxCalls BY OneShotAssumption DEF TypeOK, TypeCalls
  <2>2. id' \in [Caller -> Id \union {NoId}] BY <1>4, <1>5 DEF TypeOK, TypeCalls
  <2>3. pc' \in [Caller -> {"idle", "run", "list", "decode", "version", "find", "returned"}]
    BY <1>2 DEF TypeOK, TypeCalls
  <2>4. op' \in [Caller -> Ops] BY DEF TypeOK, TypeCalls
  <2>. QED BY <2>1, <2>2, <2>3, <2>4 DEF TypeOK, TypeCalls
<1>7. TypeHistory'
  <2>1. (IF o \in About THEN {s} ELSE live) \in SUBSET Id BY <1>5 DEF TypeOK, TypeServer
  <2>. QED BY <1>4, <2>1 DEF TypeOK, TypeHistory
<1>. QED BY <1>1, <1>3, <1>6, <1>7 DEF TypeOK

(* What the processes of a call leave alone, and what they may leave.      *)
LEMMA WorkTypes ==
  ASSUME TypeOK, NEW c \in Caller, pc[c] # "version", pc'[c] # "version",
         pc' \in [Caller -> {"idle", "run", "list", "decode", "version", "find", "returned"}],
         \A d \in Caller \ {c} : pc'[d] = pc[d],
         result' \in [Caller -> Results], rows' \in [Caller -> SUBSET Id],
         id' \in [Caller -> Id \union {NoId}], own' \in [Caller -> Id \union {NoId}],
         ctxEnded' \in [Caller -> BOOLEAN], upset' \in [Caller -> BOOLEAN],
         unreached' \in [Caller -> BOOLEAN],
         UNCHANGED <<onceVars, op, calls, asked>>, TypeServer'
  PROVE  TypeOK'
<1>1. TypeOnce' BY OnceTypes
<1>2. TypeCalls' BY DEF TypeOK, TypeCalls, Results
<1>3. TypeHistory' BY DEF TypeOK, TypeHistory
<1>. QED BY <1>1, <1>2, <1>3 DEF TypeOK

(* A call that one process ends, and with it at most sessions.             *)
LEMMA ReturnTypes ==
  ASSUME TypeOK, NEW c \in Caller, NEW exit, NEW err \in Results, pc[c] = "run",
         Ends(c, exit), Return(c, err), live' \subseteq live,
         UNCHANGED <<made, onceVars, op, id, rows, calls, own, asked, told>>
  PROVE  TypeOK'
<1>1. TypeServer' BY DEF TypeOK, TypeServer
<1>2. /\ ctxEnded' \in [Caller -> BOOLEAN] /\ upset' \in [Caller -> BOOLEAN]
      /\ unreached' \in [Caller -> BOOLEAN]
  BY EndsIs
<1>3. UNCHANGED <<id, rows, own>> OBVIOUS
<1>. QED BY <1>1, <1>2, <1>3, ReturnIs, WorkTypes DEF TypeOK, TypeCalls, TypeHistory

LEMMA NewSessionTypes ==
  ASSUME TypeOK, NEW c \in Caller, NewSession(c)
  PROVE  TypeOK' /\ (\A d \in Caller \ {c} : pc'[d] = pc[d] /\ result'[d] = result[d])
<1>1. PICK exit \in ServerExits(c, "ok") :
        /\ \/ /\ exit \in {"ok", "killed"} /\ made # Id
              /\ \E s \in Id \ made :
                   /\ ServerBecomes(live \union {s})
                   /\ made' = made \union {s}
                   /\ own' = [own EXCEPT ![c] = s]
                   /\ id' = [id EXCEPT ![c] = IF exit = "ok" THEN s ELSE @]
           \/ exit # "ok" /\ UNCHANGED <<serverVars, own, id>>
        /\ Ends(c, exit)
        /\ IF exit = "ok"
           THEN pc' = [pc EXCEPT ![c] = "list"] /\ UNCHANGED result
           ELSE Return(c, run(c, exit))
  BY DEF NewSession
<1>2. UNCHANGED <<onceVars, op, rows, calls, asked, told>> /\ pc[c] = "run" BY DEF NewSession
<1>3. TypeServer'
  BY <1>1, <1>2 DEF TypeOK, TypeServer, ServerBecomes, serverVars
<1>4. run(c, exit) \in Results BY RunIs DEF Results
<1>5. /\ pc' \in [Caller -> {"idle", "run", "list", "decode", "version", "find", "returned"}]
      /\ result' \in [Caller -> Results] /\ pc'[c] \in {"list", "returned"}
      /\ \A d \in Caller \ {c} : pc'[d] = pc[d] /\ result'[d] = result[d]
  <2>1. CASE exit = "ok" BY <1>1, <2>1 DEF TypeOK, TypeCalls, Results
  <2>2. CASE exit # "ok" BY <1>1, <1>4, <2>2, ReturnIs
  <2>. QED BY <2>1, <2>2
<1>7. id' \in [Caller -> Id \union {NoId}] /\ own' \in [Caller -> Id \union {NoId}]
  <2>1. CASE UNCHANGED <<id, own>> BY <2>1 DEF TypeOK, TypeCalls, TypeHistory
  <2>2. ASSUME NEW s \in Id \ made, own' = [own EXCEPT ![c] = s],
               id' = [id EXCEPT ![c] = IF exit = "ok" THEN s ELSE @]
        PROVE  id' \in [Caller -> Id \union {NoId}] /\ own' \in [Caller -> Id \union {NoId}]
    <3>1. (IF exit = "ok" THEN s ELSE id[c]) \in Id \union {NoId} BY DEF TypeOK, TypeCalls
    <3>. QED BY <2>2, <3>1 DEF TypeOK, TypeCalls, TypeHistory
  <2>. QED BY <1>1, <2>1, <2>2
<1>8. /\ ctxEnded' \in [Caller -> BOOLEAN] /\ upset' \in [Caller -> BOOLEAN]
      /\ unreached' \in [Caller -> BOOLEAN]
  BY <1>1, EndsIs
<1>. QED BY <1>2, <1>3, <1>5, <1>7, <1>8, WorkTypes DEF TypeOK, TypeCalls

(* A listing: the error of run decides whether the call goes on.           *)
LEMMA ListIs ==
  ASSUME NEW c \in Caller, ListSessions(c)
  PROVE  \E exit \in ServerExits(c, IF ServerRunning THEN "ok" ELSE "no-server") :
           /\ Ends(c, exit)
           /\ \/ /\ run(c, exit) = "nil" \/ Gone(run(c, exit))
                 /\ rows' = [rows EXCEPT ![c] = IF run(c, exit) = "nil" THEN live ELSE {}]
                 /\ pc' = [pc EXCEPT ![c] = IF run(c, exit) = "nil" THEN "decode" ELSE "find"]
                 /\ UNCHANGED result
              \/ /\ run(c, exit) # "nil" /\ ~Gone(run(c, exit))
                 /\ Return(c, run(c, exit)) /\ UNCHANGED rows
<1>1. PICK exit \in ServerExits(c, IF ServerRunning THEN "ok" ELSE "no-server") :
        /\ Ends(c, exit)
        /\ IF run(c, exit) = "nil" \/ Gone(run(c, exit))
           THEN /\ rows' = [rows EXCEPT ![c] = IF run(c, exit) = "nil" THEN live ELSE {}]
                /\ pc' = [pc EXCEPT ![c] = IF run(c, exit) = "nil" THEN "decode" ELSE "find"]
                /\ UNCHANGED result
           ELSE Return(c, run(c, exit)) /\ UNCHANGED rows
  BY DEF ListSessions
<1>. QED BY <1>1

LEMMA ListTypes ==
  ASSUME TypeOK, NEW c \in Caller, ListSessions(c)
  PROVE  TypeOK'
<1>1. PICK exit \in ServerExits(c, IF ServerRunning THEN "ok" ELSE "no-server") :
        /\ Ends(c, exit)
        /\ \/ /\ rows' = [rows EXCEPT ![c] = IF run(c, exit) = "nil" THEN live ELSE {}]
              /\ pc' = [pc EXCEPT ![c] = IF run(c, exit) = "nil" THEN "decode" ELSE "find"]
              /\ UNCHANGED result
           \/ Return(c, run(c, exit)) /\ UNCHANGED rows
  BY ListIs
<1>2. run(c, exit) \in Results BY RunIs DEF Results
<1>3. pc[c] = "list" /\ UNCHANGED <<serverVars, onceVars, op, id, calls, own, asked, told>>
  BY DEF ListSessions
<1>4. TypeServer' BY <1>3, TypeFrame DEF serverVars
<1>5. live \in SUBSET Id BY DEF TypeOK, TypeServer
<1>6. /\ pc' \in [Caller -> {"idle", "run", "list", "decode", "version", "find", "returned"}]
      /\ pc'[c] # "version" /\ \A d \in Caller \ {c} : pc'[d] = pc[d]
      /\ result' \in [Caller -> Results] /\ rows' \in [Caller -> SUBSET Id]
  <2>1. CASE Return(c, run(c, exit)) /\ UNCHANGED rows
    BY <1>2, <2>1, ReturnIs DEF TypeOK, TypeCalls
  <2>2. CASE /\ rows' = [rows EXCEPT ![c] = IF run(c, exit) = "nil" THEN live ELSE {}]
             /\ pc' = [pc EXCEPT ![c] = IF run(c, exit) = "nil" THEN "decode" ELSE "find"]
             /\ UNCHANGED result
    BY <1>5, <2>2 DEF TypeOK, TypeCalls, Results
  <2>. QED BY <1>1, <2>1, <2>2
<1>7. /\ ctxEnded' \in [Caller -> BOOLEAN] /\ upset' \in [Caller -> BOOLEAN]
      /\ unreached' \in [Caller -> BOOLEAN]
  BY <1>1, EndsIs
<1>8. id' \in [Caller -> Id \union {NoId}] /\ own' \in [Caller -> Id \union {NoId}]
  BY <1>3 DEF TypeOK, TypeCalls, TypeHistory
<1>. QED BY <1>3, <1>4, <1>6, <1>7, <1>8, WorkTypes

LEMMA VersionTypes ==
  ASSUME TypeOK, NEW c \in Caller, AskVersion(c) \/ tmuxVersion(c),
         \A d, e \in Caller : pc[d] = "version" /\ pc[e] = "version" => d = e
  PROVE  TypeOK'
<1>1. CASE AskVersion(c)
  <2>. USE <1>1 DEF AskVersion
  <2>1. TypeServer' BY TypeFrame DEF serverVars, history
  <2>2. TypeHistory' BY TypeFrame DEF history
  <2>3. /\ pc' \in [Caller -> {"idle", "run", "list", "decode", "version", "find", "returned"}]
        /\ \A d \in Caller \ {c} : pc'[d] = pc[d]
        /\ \/ once = "unasked" /\ once' = "asking" /\ pc'[c] = "version"
           \/ once = "answered" /\ once' = once /\ pc'[c] = "find"
    BY DEF TypeOK, TypeCalls
  <2>4. pc[c] = "decode" /\ UNCHANGED <<version, op, id, rows, ctxEnded, result, calls>> OBVIOUS
  <2>. HIDE <1>1
  <2>5. TypeCalls' BY <2>3, <2>4 DEF TypeOK, TypeCalls
  <2>6. TypeOnce'
    <3>1. CASE once' = "asking" /\ pc'[c] = "version" BY <2>4, <3>1 DEF TypeOK, TypeOnce
    <3>2. CASE once = "answered" /\ once' = once /\ pc'[c] = "find"
      <4>1. ~\E d \in Caller : pc[d] = "version" BY <3>2 DEF TypeOK, TypeOnce
      <4>2. ~\E d \in Caller : pc'[d] = "version" BY <2>3, <3>2, <4>1
      <4>. QED BY <2>4, <3>2, <4>2 DEF TypeOK, TypeOnce
    <3>. QED BY <2>3, <3>1, <3>2
  <2>. QED BY <2>1, <2>2, <2>5, <2>6 DEF TypeOK
<1>2. CASE tmuxVersion(c)
  <2>1. PICK exit \in Exits(c, "ok") :
          /\ Ends(c, exit)
          /\ version' = IF exit = "ok" THEN "known" ELSE version
          /\ once' = "answered"
    BY <1>2 DEF tmuxVersion
  <2>2. /\ pc[c] = "version" /\ pc' = [pc EXCEPT ![c] = "find"]
        /\ UNCHANGED <<serverVars, op, id, rows, result, calls, own, asked, told>>
    BY <1>2 DEF tmuxVersion
  <2>3. TypeServer' BY <2>2, TypeFrame DEF serverVars
  <2>4. /\ ctxEnded' \in [Caller -> BOOLEAN] /\ upset' \in [Caller -> BOOLEAN]
        /\ unreached' \in [Caller -> BOOLEAN]
    BY <2>1, EndsIs
  <2>5. /\ pc' \in [Caller -> {"idle", "run", "list", "decode", "version", "find", "returned"}]
        /\ \A d \in Caller : pc'[d] = IF d = c THEN "find" ELSE pc[d]
    BY <2>2 DEF TypeOK, TypeCalls
  <2>6. ~\E d \in Caller : pc'[d] = "version" BY <2>2, <2>5
  <2>7. TypeOnce' BY <2>1, <2>6 DEF TypeOK, TypeOnce
  <2>8. TypeCalls' BY <2>2, <2>4, <2>5 DEF TypeOK, TypeCalls
  <2>9. TypeHistory' BY <2>2, <2>4 DEF TypeOK, TypeHistory
  <2>. QED BY <2>3, <2>7, <2>8, <2>9 DEF TypeOK
<1>. QED BY <1>1, <1>2

(* Session's answer: whether the rows have its identifier, or NewSession   *)
(* does not mind.                                                          *)
LEMMA FindIs ==
  ASSUME NEW c \in Caller, Find(c)
  PROVE  \E err \in {"nil", "ErrNoSession"} :
           /\ Return(c, err)
           /\ err = "nil" => id[c] \in rows[c] \/ op[c] = "NewSession"
           /\ err # "nil" => id[c] \notin rows[c] /\ op[c] # "NewSession"
BY DEF Find, NotFound

LEMMA FindTypes ==
  ASSUME TypeOK, NEW c \in Caller, Find(c)
  PROVE  TypeOK'
<1>1. PICK err \in {"nil", "ErrNoSession"} : Return(c, err) BY FindIs
<1>2. err \in Results BY DEF Results, Errors
<1>3. /\ UNCHANGED <<serverVars, onceVars, op, id, rows, ctxEnded, calls, own, asked, upset,
                   unreached>>
      /\ pc[c] = "find"
  BY DEF Find
<1>4. told' \in [Id -> SUBSET Names]
  <2>1. told' = [s \in Id |-> IF s \in rows[c] THEN told[s] \union {decodeStored} ELSE told[s]]
    BY DEF Find
  <2>2. decodeStored \in Names BY DEF decodeStored, Names
  <2>. QED BY <2>1, <2>2 DEF TypeOK, TypeServer
<1>5. TypeServer' BY <1>3, <1>4 DEF TypeOK, TypeServer, serverVars
<1>6. UNCHANGED <<rows, id, own, ctxEnded, upset, unreached>> BY <1>3
<1>. QED BY <1>1, <1>2, <1>3, <1>5, <1>6, ReturnIs, WorkTypes DEF TypeOK, TypeCalls, TypeHistory

LEMMA ReplyIs ==
  ASSUME NEW c \in Caller
  PROVE  /\ TargetReply(c) \in {"ok", "no-server", "missing"}
         /\ TargetReply(c) # "ok" => id[c] \notin live
         /\ ServerReply \in {"ok", "no-server", "missing"}
         /\ ServerReply # "ok" => live = {}
BY DEF TargetReply, ServerReply, ServerRunning

(* has-session, kill-session, list-sessions and kill-server: whichever way *)
(* the process ends, an answer that says gone is true of the server as it  *)
(* leaves it.                                                              *)
LEMMA HasIs ==
  ASSUME TypeOK, NEW c \in Caller, HasSession(c)
  PROVE  \E exit \in AnyExit, err \in Results :
           Ends(c, exit) /\ Return(c, err) /\ (err = "false" => id[c] \notin live \/ unreached'[c])
<1>. DEFINE reply == TargetReply(c)
            answer(e) == IF e = "nil" THEN "true" ELSE IF Gone(e) THEN "false" ELSE e
<1>1. PICK exit \in ServerExits(c, reply) : Ends(c, exit) /\ Return(c, answer(run(c, exit)))
  BY DEF HasSession
<1>2. reply \in {"ok", "no-server", "missing"} /\ (reply # "ok" => id[c] \notin live) BY ReplyIs
<1>. HIDE DEF reply
<1>3. /\ exit \in AnyExit /\ run(c, exit) \in Errors \union {"nil"}
      /\ Gone(run(c, exit)) => reply # "ok" \/ exit = "unreachable"
  BY <1>2, RunIs
<1>4. answer(run(c, exit)) \in Results BY <1>3 DEF Results
<1>5. answer(run(c, exit)) = "false" => Gone(run(c, exit)) BY <1>3 DEF Errors
<1>7. exit = "unreachable" => unreached'[c] BY <1>1, EndsIs
<1>. HIDE DEF answer
<1>. QED BY <1>1, <1>2, <1>3, <1>4, <1>5, <1>7

LEMMA KillIs ==
  ASSUME TypeOK, NEW c \in Caller, KillSession(c)
  PROVE  \E exit \in AnyExit, err \in Results :
           /\ Ends(c, exit) /\ Return(c, err)
           /\ live' \subseteq live /\ (err = "nil" => id[c] \notin live' \/ unreached'[c])
<1>. DEFINE reply == TargetReply(c)
            answer(e) == IF Gone(e) THEN "nil" ELSE e
<1>1. PICK exit \in ServerExits(c, reply) :
        /\ \/ exit \in {"ok", "killed"} /\ ServerBecomes(live \ {id[c]})
           \/ exit # "ok" /\ UNCHANGED live
        /\ Ends(c, exit) /\ Return(c, answer(run(c, exit)))
  BY DEF KillSession
<1>2. reply \in {"ok", "no-server", "missing"} /\ (reply # "ok" => id[c] \notin live) BY ReplyIs
<1>. HIDE DEF reply
<1>3. /\ exit \in AnyExit /\ run(c, exit) \in Errors \union {"nil"}
      /\ run(c, exit) = "nil" => exit = "ok"
      /\ Gone(run(c, exit)) => reply # "ok" \/ exit = "unreachable"
  BY <1>2, RunIs
<1>4. answer(run(c, exit)) \in Results BY <1>3 DEF Results
<1>5. answer(run(c, exit)) = "nil" => exit = "ok" \/ reply # "ok" \/ exit = "unreachable" BY <1>3
<1>6. live' \subseteq live /\ (exit = "ok" \/ id[c] \notin live => id[c] \notin live')
  BY <1>1 DEF ServerBecomes
<1>7. exit = "unreachable" => unreached'[c] BY <1>1, EndsIs
<1>. HIDE DEF answer
<1>. QED BY <1>1, <1>2, <1>3, <1>4, <1>5, <1>6, <1>7

LEMMA AskIs ==
  ASSUME TypeOK, NEW c \in Caller, AskServer(c)
  PROVE  \E exit \in AnyExit, err \in Results :
           Ends(c, exit) /\ Return(c, err) /\ (err = "false" => live = {} \/ unreached'[c])
<1>. DEFINE reply == ServerReply
            answer(e) == IF e = "nil" THEN "true" ELSE IF e = "ErrNoServer" THEN "false" ELSE e
<1>1. PICK exit \in ServerExits(c, reply) : Ends(c, exit) /\ Return(c, answer(run(c, exit)))
  BY DEF AskServer
<1>2. reply \in {"ok", "no-server", "missing"} /\ (reply # "ok" => live = {}) BY ReplyIs
<1>. HIDE DEF reply
<1>3. /\ exit \in AnyExit /\ run(c, exit) \in Errors \union {"nil"}
      /\ Gone(run(c, exit)) => reply # "ok" \/ exit = "unreachable"
  BY <1>2, RunIs
<1>4. answer(run(c, exit)) \in Results BY <1>3 DEF Results
<1>5. answer(run(c, exit)) = "false" => Gone(run(c, exit)) BY <1>3 DEF Errors, Gone
<1>7. exit = "unreachable" => unreached'[c] BY <1>1, EndsIs
<1>. HIDE DEF answer
<1>. QED BY <1>1, <1>2, <1>3, <1>4, <1>5, <1>7

LEMMA KillServerIs ==
  ASSUME TypeOK, NEW c \in Caller, KillServer(c)
  PROVE  \E exit \in AnyExit, err \in Results :
           /\ Ends(c, exit) /\ Return(c, err)
           /\ live' \subseteq live /\ (err = "nil" => live' = {} \/ unreached'[c])
<1>. DEFINE reply == ServerReply
            answer(e) == IF e = "ErrNoServer" THEN "nil" ELSE e
<1>1. PICK exit \in ServerExits(c, reply) :
        /\ \/ exit \in {"ok", "killed"} /\ ServerBecomes({})
           \/ exit # "ok" /\ UNCHANGED live
        /\ Ends(c, exit) /\ Return(c, answer(run(c, exit)))
  BY DEF KillServer
<1>2. reply \in {"ok", "no-server", "missing"} /\ (reply # "ok" => live = {}) BY ReplyIs
<1>. HIDE DEF reply
<1>3. /\ exit \in AnyExit /\ run(c, exit) \in Errors \union {"nil"}
      /\ run(c, exit) = "nil" => exit = "ok"
      /\ Gone(run(c, exit)) => reply # "ok" \/ exit = "unreachable"
  BY <1>2, RunIs
<1>4. answer(run(c, exit)) \in Results BY <1>3 DEF Results
<1>5. answer(run(c, exit)) = "nil" => exit = "ok" \/ reply # "ok" \/ exit = "unreachable" BY <1>3 DEF Gone
<1>6. live' \subseteq live /\ (exit = "ok" \/ live = {} => live' = {})
  BY <1>1 DEF ServerBecomes
<1>7. exit = "unreachable" => unreached'[c] BY <1>1, EndsIs
<1>. HIDE DEF answer
<1>. QED BY <1>1, <1>2, <1>3, <1>4, <1>5, <1>6, <1>7

LEMMA OtherTypes ==
  ASSUME TypeOK, NEW c \in Caller,
         \/ HasSession(c) \/ KillSession(c) \/ AskServer(c) \/ KillServer(c)
         \/ Taken(c) \/ CtxEnds(c)
  PROVE  TypeOK'
<1>1. CASE HasSession(c) \/ KillSession(c) \/ AskServer(c) \/ KillServer(c)
  <2>1. \E exit \in AnyExit, err \in Results :
          Ends(c, exit) /\ Return(c, err) /\ live' \subseteq live
    <3>1. CASE HasSession(c) BY <3>1, HasIs DEF HasSession, serverVars
    <3>2. CASE AskServer(c) BY <3>2, AskIs DEF AskServer, serverVars
    <3>3. CASE KillSession(c) BY <3>3, KillIs
    <3>4. CASE KillServer(c) BY <3>4, KillServerIs
    <3>. QED BY <1>1, <3>1, <3>2, <3>3, <3>4
  <2>2. pc[c] = "run" /\ UNCHANGED <<made, onceVars, op, id, rows, calls, own, asked, told>>
    BY <1>1 DEF HasSession, KillSession, AskServer, KillServer, serverVars
  <2>. QED BY <2>1, <2>2, ReturnTypes
<1>2. CASE Taken(c)
  <2>. USE <1>2 DEF Taken
  <2>1. TypeServer' BY TypeFrame DEF serverVars
  <2>2. pc[c] = "returned" /\ pc' = [pc EXCEPT ![c] = "idle"] /\ UNCHANGED onceVars OBVIOUS
  <2>3. TypeOnce' BY <2>2, OnceTypes DEF TypeOK, TypeCalls
  <2>4. TypeCalls' BY DEF TypeOK, TypeCalls, Ops, Reads
  <2>5. TypeHistory' BY DEF TypeOK, TypeHistory
  <2>. QED BY <2>1, <2>3, <2>4, <2>5 DEF TypeOK
<1>3. CASE CtxEnds(c)
  <2>. USE <1>3 DEF CtxEnds
  <2>1. TypeServer' BY TypeFrame DEF serverVars, history
  <2>2. TypeOnce' BY TypeFrame DEF onceVars
  <2>3. TypeCalls' BY DEF TypeOK, TypeCalls
  <2>4. TypeHistory' BY TypeFrame DEF history
  <2>. QED BY <2>1, <2>2, <2>3, <2>4 DEF TypeOK
<1>. QED BY <1>1, <1>2, <1>3

LEMMA TypeStep == TypeOK /\ NameInv /\ [Next]_vars => TypeOK'
<1>. SUFFICES ASSUME TypeOK, NameInv, [Next]_vars PROVE TypeOK' OBVIOUS
<1>1. CASE UNCHANGED vars
  BY <1>1, TypeFrame DEF vars, serverVars, onceVars, history, callVars, TypeOK
<1>2. ASSUME NEW c \in Caller, (\E o \in Ops : Call(c, o)) \/ Works(c) \/ Taken(c) \/ CtxEnds(c)
      PROVE  TypeOK'
  <2>1. \A d, e \in Caller : pc[d] = "version" /\ pc[e] = "version" => d = e BY DEF NameInv
  <2>. QED BY <1>2, <2>1, CallTypes, NewSessionTypes, ListTypes, VersionTypes, FindTypes,
              OtherTypes DEF Works
<1>3. ASSUME NEW s \in Id, SessionEnds(s) PROVE TypeOK'
  <2>. USE <1>3 DEF SessionEnds
  <2>1. TypeServer' BY DEF TypeOK, TypeServer, ServerBecomes
  <2>2. TypeOnce' BY TypeFrame DEF onceVars, callVars
  <2>3. TypeCalls' BY TypeFrame
  <2>4. TypeHistory' BY TypeFrame
  <2>. QED BY <2>1, <2>2, <2>3, <2>4 DEF TypeOK
<1>. QED BY <1>1, <1>2, <1>3 DEF Next

-----------------------------------------------------------------------------
(* The invariant *)

(* Identifiers are never reused: no step brings a session back.            *)
LEMMA NothingComesBack ==
  ASSUME TypeOK, [Next]_vars
  PROVE  made \subseteq made' /\ live' \intersect made \subseteq live
<1>1. CASE UNCHANGED vars BY <1>1 DEF vars, serverVars
<1>2. ASSUME NEW s \in Id, SessionEnds(s) PROVE UNCHANGED made /\ live' \subseteq live
  BY <1>2 DEF SessionEnds, ServerBecomes
<1>3. ASSUME NEW c \in Caller, NEW o \in Ops, Call(c, o) PROVE UNCHANGED <<made, live>>
  BY <1>3 DEF Call, serverVars
<1>4. ASSUME NEW c \in Caller, Works(c)
      PROVE  made \subseteq made' /\ live' \intersect made \subseteq live
  <2>1. CASE NewSession(c) BY <2>1 DEF NewSession, ServerBecomes, serverVars
  <2>2. CASE ListSessions(c) \/ AskVersion(c) \/ tmuxVersion(c) \/ Find(c)
               \/ HasSession(c) \/ AskServer(c)
    BY <2>2 DEF ListSessions, AskVersion, tmuxVersion, Find, HasSession, AskServer, serverVars
  <2>3. CASE KillSession(c) BY <2>3, KillIs DEF KillSession
  <2>4. CASE KillServer(c) BY <2>4, KillServerIs DEF KillServer
  <2>. QED BY <1>4, <2>1, <2>2, <2>3, <2>4 DEF Works
<1>5. ASSUME NEW c \in Caller, Taken(c) \/ CtxEnds(c) PROVE UNCHANGED <<made, live>>
  BY <1>5 DEF Taken, CtxEnds, serverVars
<1>. QED BY <1>1, <1>2, <1>3, <1>4, <1>5 DEF Next

(* Everything that belongs to one caller's call.                           *)
Same(d) ==
  /\ pc'[d] = pc[d] /\ op'[d] = op[d] /\ id'[d] = id[d] /\ rows'[d] = rows[d]
  /\ ctxEnded'[d] = ctxEnded[d] /\ result'[d] = result[d] /\ own'[d] = own[d]
  /\ asked'[d] = asked[d] /\ upset'[d] = upset[d] /\ unreached'[d] = unreached[d]

LEMMA OthersSame ==
  ASSUME TypeOK, NEW c \in Caller, NEW d \in Caller \ {c},
         (\E o \in Ops : Call(c, o)) \/ Works(c) \/ Taken(c) \/ CtxEnds(c)
  PROVE  Same(d)
<1>. USE DEF Same
<1>1. CASE \E o \in Ops : Call(c, o)
  BY <1>1 DEF Call, TypeOK, TypeCalls, TypeHistory
<1>2. CASE NewSession(c)
  <2>1. pc'[d] = pc[d] /\ result'[d] = result[d] BY <1>2, NewSessionTypes
  <2>2. \E exit \in ServerExits(c, "ok") : Ends(c, exit) BY <1>2 DEF NewSession
  <2>3. /\ ctxEnded'[d] = ctxEnded[d] /\ upset'[d] = upset[d]
        /\ unreached'[d] = unreached[d]
    BY <2>2, EndsIs
  <2>4. id'[d] = id[d] /\ own'[d] = own[d]
    BY <1>2 DEF NewSession, TypeOK, TypeCalls, TypeHistory
  <2>. QED BY <1>2, <2>1, <2>3, <2>4 DEF NewSession
<1>3. CASE ListSessions(c)
  <2>1. PICK exit \in ServerExits(c, IF ServerRunning THEN "ok" ELSE "no-server") :
          /\ Ends(c, exit)
          /\ \/ /\ rows' = [rows EXCEPT ![c] = IF run(c, exit) = "nil" THEN live ELSE {}]
                /\ pc' = [pc EXCEPT ![c] = IF run(c, exit) = "nil" THEN "decode" ELSE "find"]
                /\ UNCHANGED result
             \/ Return(c, run(c, exit)) /\ UNCHANGED rows
    BY <1>3, ListIs
  <2>2. run(c, exit) \in Results BY RunIs DEF Results
  <2>3. pc'[d] = pc[d] /\ result'[d] = result[d] /\ rows'[d] = rows[d]
    BY <2>1, <2>2, ReturnIs DEF TypeOK, TypeCalls
  <2>4. /\ ctxEnded'[d] = ctxEnded[d] /\ upset'[d] = upset[d]
        /\ unreached'[d] = unreached[d]
    BY <2>1, EndsIs
  <2>. QED BY <1>3, <2>3, <2>4 DEF ListSessions
<1>4. CASE AskVersion(c) BY <1>4 DEF AskVersion, history, TypeOK, TypeCalls
<1>5. CASE tmuxVersion(c)
  <2>1. \E exit \in Exits(c, "ok") : Ends(c, exit) BY <1>5 DEF tmuxVersion
  <2>2. /\ ctxEnded'[d] = ctxEnded[d] /\ upset'[d] = upset[d]
        /\ unreached'[d] = unreached[d]
    BY <2>1, EndsIs
  <2>3. pc'[d] = pc[d] BY <1>5 DEF tmuxVersion, TypeOK, TypeCalls
  <2>. QED BY <1>5, <2>2, <2>3 DEF tmuxVersion
<1>6. CASE Find(c)
  <2>1. \E err \in Results : Return(c, err) BY <1>6, FindIs DEF Results, Errors
  <2>2. pc'[d] = pc[d] /\ result'[d] = result[d] BY <2>1, ReturnIs
  <2>. QED BY <1>6, <2>2 DEF Find
<1>7. CASE HasSession(c) \/ KillSession(c) \/ AskServer(c) \/ KillServer(c)
  <2>1. \E exit \in AnyExit, err \in Results : Ends(c, exit) /\ Return(c, err)
    BY <1>7, HasIs, KillIs, AskIs, KillServerIs
  <2>2. /\ pc'[d] = pc[d] /\ result'[d] = result[d]
        /\ ctxEnded'[d] = ctxEnded[d] /\ upset'[d] = upset[d]
        /\ unreached'[d] = unreached[d]
    BY <2>1, ReturnIs, EndsIs
  <2>. QED BY <1>7, <2>2 DEF HasSession, KillSession, AskServer, KillServer
<1>8. CASE Taken(c) BY <1>8 DEF Taken, TypeOK, TypeCalls, TypeHistory
<1>9. CASE CtxEnds(c) BY <1>9 DEF CtxEnds, history, TypeOK, TypeCalls
<1>. QED BY <1>1, <1>2, <1>3, <1>4, <1>5, <1>6, <1>7, <1>8, <1>9 DEF Works

(* What is gone stays gone, so that a call another's step leaves alone     *)
(* loses nothing by it.                                                    *)
LEMMA SameKeeps ==
  ASSUME NEW d \in Caller, CallInv(d), Same(d),
         made \subseteq made', live' \intersect made \subseteq live
  PROVE  CallInv(d)'
<1>1. asked'[d] \intersect live' \subseteq asked[d] \intersect live BY DEF CallInv, Same
<1>. QED BY <1>1 DEF CallInv, Same, GoneAsSaid, SaysGone, CreatedAsSaid

LEMMA InvInit == Init => IInv
<1>. SUFFICES ASSUME Init PROVE IInv OBVIOUS
<1>. USE DEF Init
<1>1. NameInv BY DEF NameInv
<1>2. ASSUME NEW c \in Caller PROVE CallInv(c)
  BY DEF CallInv, GoneAsSaid, CreatedAsSaid
<1>. QED BY <1>1, <1>2 DEF IInv

LEMMA CallKeeps ==
  ASSUME TypeOK, NEW c \in Caller, CallInv(c), NEW o \in Ops, Call(c, o)
  PROVE  CallInv(c)'
<1>1. PICK s \in IF o \in About THEN made ELSE {NoId} :
        /\ id' = [id EXCEPT ![c] = s]
        /\ asked' = [asked EXCEPT ![c] = IF o \in About THEN {s} ELSE live]
  BY DEF Call
<1>2. /\ id'[c] = s /\ asked'[c] = (IF o \in About THEN {s} ELSE live)
      /\ pc'[c] = (IF o = "Session" THEN "list" ELSE "run") /\ op'[c] = o /\ own'[c] = own[c]
  BY <1>1 DEF Call, TypeOK, TypeCalls, TypeHistory
<1>3. pc[c] = "idle" /\ UNCHANGED made BY DEF Call, serverVars
<1>4. own[c] = NoId BY <1>3 DEF CallInv
<1>5. asked'[c] \subseteq made' BY <1>2, <1>3 DEF TypeOK, TypeServer
<1>6. o \in About => asked'[c] = {id'[c]} BY <1>2
<1>. QED BY <1>2, <1>4, <1>5, <1>6 DEF CallInv, GoneAsSaid, CreatedAsSaid

LEMMA NewSessionKeeps ==
  ASSUME TypeOK, NEW c \in Caller, CallInv(c), NewSession(c)
  PROVE  CallInv(c)'
<1>1. PICK exit \in ServerExits(c, "ok") :
        /\ \/ /\ exit \in {"ok", "killed"} /\ made # Id
              /\ \E s \in Id \ made :
                   /\ made' = made \union {s}
                   /\ own' = [own EXCEPT ![c] = s]
                   /\ id' = [id EXCEPT ![c] = IF exit = "ok" THEN s ELSE @]
           \/ exit # "ok" /\ UNCHANGED <<serverVars, own, id>>
        /\ Ends(c, exit)
        /\ IF exit = "ok"
           THEN pc' = [pc EXCEPT ![c] = "list"] /\ UNCHANGED result
           ELSE Return(c, run(c, exit))
  BY DEF NewSession
<1>2. /\ pc[c] = "run" /\ op[c] = "NewSession" /\ own[c] = NoId /\ asked[c] \subseteq made
      /\ op' = op /\ asked' = asked
  BY DEF NewSession, CallInv
<1>3. made \subseteq made' BY <1>1 DEF serverVars
<1>4. CASE exit = "ok"
  <2>1. PICK s \in Id \ made : /\ own' = [own EXCEPT ![c] = s]
                               /\ id' = [id EXCEPT ![c] = s]
    BY <1>1, <1>4
  <2>2. own'[c] = s /\ id'[c] = s BY <2>1 DEF TypeOK, TypeCalls, TypeHistory
  <2>3. s # NoId BY NoIdAssumption
  <2>4. pc'[c] = "list" BY <1>1, <1>4 DEF TypeOK, TypeCalls
  <2>. QED BY <1>2, <1>3, <2>2, <2>3, <2>4 DEF CallInv, GoneAsSaid, CreatedAsSaid, About
<1>5. CASE exit # "ok"
  <2>1. run(c, exit) \in Results /\ run(c, exit) # "nil" BY <1>5, RunIs DEF Results
  <2>2. pc'[c] = "returned" /\ result'[c] # "nil" BY <1>1, <1>5, <2>1, ReturnIs
  <2>3. own'[c] = NoId \/ exit = "killed"
    BY <1>1, <1>2, <1>5
  <2>4. own'[c] # NoId => ctxEnded'[c] BY <1>1, <2>3, EndsIs
  <2>. QED BY <1>2, <1>3, <2>2, <2>4 DEF CallInv, GoneAsSaid, SaysGone, CreatedAsSaid, About
<1>. QED BY <1>4, <1>5

LEMMA ListKeeps ==
  ASSUME TypeOK, NEW c \in Caller, CallInv(c), ListSessions(c)
  PROVE  CallInv(c)'
<1>. DEFINE reply == IF ServerRunning THEN "ok" ELSE "no-server"
<1>1. PICK exit \in ServerExits(c, reply) :
        /\ Ends(c, exit)
        /\ \/ /\ run(c, exit) = "nil" \/ Gone(run(c, exit))
              /\ rows' = [rows EXCEPT ![c] = IF run(c, exit) = "nil" THEN live ELSE {}]
              /\ pc' = [pc EXCEPT ![c] = IF run(c, exit) = "nil" THEN "decode" ELSE "find"]
              /\ UNCHANGED result
           \/ /\ run(c, exit) # "nil" /\ ~Gone(run(c, exit))
              /\ Return(c, run(c, exit)) /\ UNCHANGED rows
  BY ListIs
<1>2. /\ pc[c] = "list" /\ op[c] \in {"Session", "NewSession"}
      /\ UNCHANGED <<live, made, op, id, own, asked>>
  BY DEF ListSessions, CallInv, serverVars
<1>3. reply \in {"ok", "no-server", "missing"} /\ (reply # "ok" => live = {})
  BY DEF ServerRunning
<1>. HIDE DEF reply
<1>4. /\ exit \in AnyExit /\ run(c, exit) \in Errors \union {"nil"}
      /\ Gone(run(c, exit)) => reply # "ok" \/ exit = "unreachable"
      /\ run(c, exit) = "nil" \/ Gone(run(c, exit))
           \/ exit \in {"killed", "missing-file", "not-started"} \/ ctxEnded[c]
  BY <1>3, RunIs
<1>5. CASE run(c, exit) = "nil" \/ Gone(run(c, exit))
  <2>1. /\ rows'[c] = (IF run(c, exit) = "nil" THEN live ELSE {})
        /\ pc'[c] = (IF run(c, exit) = "nil" THEN "decode" ELSE "find")
    BY <1>1, <1>5 DEF TypeOK, TypeCalls
  <2>4. exit = "unreachable" => unreached'[c] BY <1>1, EndsIs
  <2>2. asked[c] \intersect live \subseteq rows'[c] \/ unreached'[c]
    BY <1>3, <1>4, <1>5, <2>1, <2>4
  <2>3. pc'[c] \in {"decode", "find"} BY <2>1
  <2>. QED BY <1>2, <2>2, <2>3 DEF CallInv, GoneAsSaid, CreatedAsSaid
<1>6. CASE run(c, exit) # "nil" /\ ~Gone(run(c, exit))
  <2>1. pc'[c] = "returned" /\ result'[c] = run(c, exit)
    BY <1>1, <1>4, <1>6, ReturnIs DEF Results
  <2>2. ctxEnded'[c] \/ upset'[c] BY <1>1, <1>4, <1>6, EndsIs
  <2>3. result'[c] \notin {"nil", "ErrNoSession", "ErrNoServer"} BY <1>6, <2>1 DEF Gone
  <2>. QED BY <1>2, <2>1, <2>2, <2>3 DEF CallInv, GoneAsSaid, SaysGone, CreatedAsSaid
<1>. QED BY <1>5, <1>6

LEMMA FindKeeps ==
  ASSUME TypeOK, NEW c \in Caller, CallInv(c), Find(c)
  PROVE  CallInv(c)'
<1>1. PICK err \in {"nil", "ErrNoSession"} :
        /\ Return(c, err)
        /\ err = "nil" => id[c] \in rows[c] \/ op[c] = "NewSession"
        /\ err # "nil" => id[c] \notin rows[c] /\ op[c] # "NewSession"
  BY FindIs
<1>2. err \in Results BY DEF Results, Errors
<1>3. pc'[c] = "returned" /\ result'[c] = err BY <1>1, <1>2, ReturnIs
<1>4. pc[c] = "find" /\ UNCHANGED <<live, made, op, id, own, asked, unreached>>
  BY DEF Find, serverVars
<1>5. /\ op[c] \in {"Session", "NewSession"}
      /\ asked[c] \intersect live \subseteq rows[c] \/ unreached[c]
  BY <1>4 DEF CallInv
<1>6. op[c] = "NewSession" => own[c] # NoId /\ id[c] = own[c] BY <1>4 DEF CallInv
<1>7. op[c] = "Session" => asked[c] = {id[c]} BY <1>4 DEF CallInv, About
<1>8. GoneAsSaid(c)' BY <1>1, <1>3, <1>4, <1>5, <1>7 DEF GoneAsSaid, SaysGone
<1>9. CreatedAsSaid(c)' BY <1>1, <1>3, <1>4, <1>6 DEF CreatedAsSaid
<1>. QED BY <1>3, <1>4, <1>8, <1>9 DEF CallInv

LEMMA AnswerKeeps ==
  ASSUME TypeOK, NEW c \in Caller, CallInv(c), NEW err \in Results,
         pc[c] = "run", op[c] # "NewSession", Return(c, err), UNCHANGED <<made, op, id, own, asked>>,
         op[c] \in {"KillSession", "KillServer"} /\ err = "nil" =>
           asked[c] \intersect live' = {} \/ unreached'[c],
         op[c] \in {"HasSession", "ServerRunning"} /\ err = "false" =>
           asked[c] \intersect live' = {} \/ unreached'[c],
         op[c] # "Session"
  PROVE  CallInv(c)'
<1>1. pc'[c] = "returned" /\ result'[c] = err BY ReturnIs
<1>2. GoneAsSaid(c)' BY <1>1 DEF GoneAsSaid, SaysGone
<1>. QED BY <1>1, <1>2 DEF CallInv, CreatedAsSaid

LEMMA CallerKeeps ==
  ASSUME TypeOK, NEW c \in Caller, CallInv(c),
         (\E o \in Ops : Call(c, o)) \/ Works(c) \/ Taken(c) \/ CtxEnds(c)
  PROVE  CallInv(c)'
<1>1. CASE AskVersion(c)
  <2>1. /\ pc[c] = "decode" /\ pc'[c] \in {"version", "find"}
        /\ UNCHANGED <<live, made, op, id, rows, own, asked, unreached>>
    BY <1>1 DEF AskVersion, serverVars, history, TypeOK, TypeCalls
  <2>. QED BY <2>1 DEF CallInv, GoneAsSaid, CreatedAsSaid
<1>2. CASE tmuxVersion(c)
  <2>1. /\ pc[c] = "version" /\ pc'[c] = "find"
        /\ UNCHANGED <<live, made, op, id, rows, own, asked>>
    BY <1>2 DEF tmuxVersion, serverVars, TypeOK, TypeCalls
  <2>2. \E exit \in Exits(c, "ok") : Ends(c, exit) BY <1>2 DEF tmuxVersion
  <2>3. unreached[c] => unreached'[c] BY <2>2, EndsIs
  <2>. QED BY <2>1, <2>3 DEF CallInv, GoneAsSaid, CreatedAsSaid
<1>3. CASE HasSession(c)
  <2>1. PICK err \in Results :
          Return(c, err) /\ (err = "false" => id[c] \notin live \/ unreached'[c])
    BY <1>3, HasIs
  <2>2. /\ pc[c] = "run" /\ op[c] = "HasSession"
        /\ UNCHANGED <<live, made, op, id, own, asked>>
    BY <1>3 DEF HasSession, serverVars
  <2>3. asked[c] = {id[c]} BY <2>2 DEF CallInv, About
  <2>4. err = "false" => asked[c] \intersect live' = {} \/ unreached'[c] BY <2>1, <2>2, <2>3
  <2>. QED BY <2>1, <2>2, <2>4, AnswerKeeps
<1>4. CASE KillSession(c)
  <2>1. PICK err \in Results :
          Return(c, err) /\ (err = "nil" => id[c] \notin live' \/ unreached'[c])
    BY <1>4, KillIs
  <2>2. /\ pc[c] = "run" /\ op[c] = "KillSession"
        /\ UNCHANGED <<made, op, id, own, asked>>
    BY <1>4 DEF KillSession
  <2>3. asked[c] = {id[c]} BY <2>2 DEF CallInv, About
  <2>4. err = "nil" => asked[c] \intersect live' = {} \/ unreached'[c] BY <2>1, <2>3
  <2>. QED BY <2>1, <2>2, <2>4, AnswerKeeps
<1>5. CASE AskServer(c)
  <2>1. PICK err \in Results :
          Return(c, err) /\ (err = "false" => live = {} \/ unreached'[c])
    BY <1>5, AskIs
  <2>2. /\ pc[c] = "run" /\ op[c] = "ServerRunning"
        /\ UNCHANGED <<live, made, op, id, own, asked>>
    BY <1>5 DEF AskServer, serverVars
  <2>3. err = "false" => asked[c] \intersect live' = {} \/ unreached'[c] BY <2>1, <2>2
  <2>. QED BY <2>1, <2>2, <2>3, AnswerKeeps
<1>6. CASE KillServer(c)
  <2>1. PICK err \in Results :
          Return(c, err) /\ (err = "nil" => live' = {} \/ unreached'[c])
    BY <1>6, KillServerIs
  <2>2. /\ pc[c] = "run" /\ op[c] = "KillServer"
        /\ UNCHANGED <<made, op, id, own, asked>>
    BY <1>6 DEF KillServer
  <2>3. err = "nil" => asked[c] \intersect live' = {} \/ unreached'[c] BY <2>1
  <2>. QED BY <2>1, <2>2, <2>3, AnswerKeeps
<1>7. CASE Taken(c)
  <2>1. /\ pc'[c] = "idle" /\ op'[c] = "ServerRunning" /\ own'[c] = NoId /\ asked'[c] = {}
    BY <1>7 DEF Taken, TypeOK, TypeCalls, TypeHistory
  <2>. QED BY <2>1 DEF CallInv, GoneAsSaid, CreatedAsSaid
<1>8. CASE CtxEnds(c)
  <2>1. pc[c] # "returned" /\ UNCHANGED <<live, made, pc, op, id, rows, own, asked, unreached>>
    BY <1>8 DEF CtxEnds, serverVars, history
  <2>. QED BY <2>1 DEF CallInv, GoneAsSaid, CreatedAsSaid
<1>. QED BY <1>1, <1>2, <1>3, <1>4, <1>5, <1>6, <1>7, <1>8,
            CallKeeps, NewSessionKeeps, ListKeeps, FindKeeps DEF Works

(* Before the version is answered nothing is decoded, and after it nothing *)
(* changes the answer.                                                     *)
LEMMA NameFrame ==
  ASSUME NameInv, UNCHANGED <<once, version, told>>,
         \A c \in Caller : pc'[c] = "version" => pc[c] = "version",
         \A c \in Caller : pc'[c] = "find" /\ rows'[c] # {} => pc[c] = "find" /\ rows[c] # {}
  PROVE  NameInv'
BY DEF NameInv, decodeStored

LEMMA NameKeeps ==
  ASSUME TypeOK, NameInv, NEW c \in Caller,
         (\E o \in Ops : Call(c, o)) \/ Works(c) \/ Taken(c) \/ CtxEnds(c)
  PROVE  NameInv'
<1>0. \A d \in Caller \ {c} : pc'[d] = pc[d] /\ rows'[d] = rows[d] BY OthersSame DEF Same
<1>1. CASE AskVersion(c)
  <2>1. /\ pc[c] = "decode" /\ UNCHANGED <<version, told, rows>>
        /\ \/ once = "unasked" /\ once' = "asking" /\ pc'[c] = "version"
           \/ once = "answered" /\ once' = once /\ pc'[c] = "find"
    BY <1>1 DEF AskVersion, history, TypeOK, TypeCalls
  <2>2. once # "asking" => \A d \in Caller : pc[d] # "version" BY DEF TypeOK, TypeOnce
  <2>3. \A d, e \in Caller : pc'[d] = "version" /\ pc'[e] = "version" => d = e
    BY <1>0, <2>1, <2>2 DEF NameInv
  <2>4. \A d \in Caller : pc'[d] = "find" /\ rows'[d] # {} => once' = "answered"
    BY <1>0, <2>1 DEF NameInv
  <2>5. once' # "answered" => once # "answered" BY <2>1
  <2>. QED BY <2>1, <2>3, <2>4, <2>5 DEF NameInv, decodeStored
<1>2. CASE tmuxVersion(c)
  <2>1. pc[c] = "version" /\ pc'[c] = "find" /\ once' = "answered" /\ UNCHANGED <<told, rows>>
    BY <1>2 DEF tmuxVersion, TypeOK, TypeCalls
  <2>2. once = "asking" BY <2>1 DEF TypeOK, TypeOnce
  <2>3. \A s \in Id : told'[s] = {} BY <2>1, <2>2 DEF NameInv
  <2>4. \A d \in Caller : pc'[d] = "version" => pc[d] = "version" BY <1>0, <2>1
  <2>. QED BY <2>1, <2>3, <2>4 DEF NameInv
<1>3. CASE Find(c)
  <2>1. /\ told' = [s \in Id |-> IF s \in rows[c] THEN told[s] \union {decodeStored} ELSE told[s]]
        /\ pc[c] = "find" /\ UNCHANGED <<once, version, rows>>
    BY <1>3 DEF Find, onceVars
  <2>2. \E err \in Results : Return(c, err) BY <1>3, FindIs DEF Results, Errors
  <2>3. pc'[c] = "returned" BY <2>2, ReturnIs
  <2>4. \A d, e \in Caller : pc'[d] = "version" /\ pc'[e] = "version" => d = e
    BY <1>0, <2>3 DEF NameInv
  <2>5. \A d \in Caller : pc'[d] = "find" /\ rows'[d] # {} => once' = "answered"
    BY <1>0, <2>1, <2>3 DEF NameInv
  <2>6. decodeStored' = decodeStored BY <2>1 DEF decodeStored
  <2>7. \A s \in Id : told'[s] \subseteq {decodeStored} BY <2>1 DEF NameInv
  <2>8. once # "answered" => \A s \in Id : told'[s] = {} BY <2>1 DEF NameInv
  <2>9. once # "answered" => version = "unknown" BY DEF NameInv
  <2>. QED BY <2>1, <2>4, <2>5, <2>6, <2>7, <2>8, <2>9 DEF NameInv
<1>4. CASE ListSessions(c)
  <2>1. PICK exit \in ServerExits(c, IF ServerRunning THEN "ok" ELSE "no-server") :
          \/ /\ rows' = [rows EXCEPT ![c] = IF run(c, exit) = "nil" THEN live ELSE {}]
             /\ pc' = [pc EXCEPT ![c] = IF run(c, exit) = "nil" THEN "decode" ELSE "find"]
          \/ Return(c, run(c, exit))
    BY <1>4, ListIs
  <2>2. run(c, exit) \in Results BY RunIs DEF Results
  <2>3. pc'[c] \in {"decode", "returned"} \/ (pc'[c] = "find" /\ rows'[c] = {})
    <3>1. CASE Return(c, run(c, exit)) BY <2>2, <3>1, ReturnIs
    <3>2. ASSUME rows' = [rows EXCEPT ![c] = IF run(c, exit) = "nil" THEN live ELSE {}],
                 pc' = [pc EXCEPT ![c] = IF run(c, exit) = "nil" THEN "decode" ELSE "find"]
          PROVE  pc'[c] = "decode" \/ (pc'[c] = "find" /\ rows'[c] = {})
      BY <3>2 DEF TypeOK, TypeCalls
    <3>. QED BY <2>1, <3>1, <3>2
  <2>4. UNCHANGED <<once, version, told>> BY <1>4 DEF ListSessions, onceVars
  <2>. QED BY <1>0, <2>3, <2>4, NameFrame
<1>5. CASE (\E o \in Ops : Call(c, o)) \/ NewSession(c) \/ Taken(c)
  <2>1. pc'[c] \notin {"version", "find"}
    <3>1. CASE NewSession(c)
      <4>1. \E exit \in ServerExits(c, "ok") :
              pc' = [pc EXCEPT ![c] = "list"] \/ Return(c, run(c, exit))
        BY <3>1 DEF NewSession
      <4>2. \A exit \in ServerExits(c, "ok") : run(c, exit) \in Results BY RunIs DEF Results
      <4>. QED BY <4>1, <4>2, ReturnIs DEF TypeOK, TypeCalls
    <3>2. CASE (\E o \in Ops : Call(c, o)) \/ Taken(c)
      BY <3>2 DEF Call, Taken, TypeOK, TypeCalls
    <3>. QED BY <1>5, <3>1, <3>2
  <2>2. UNCHANGED <<once, version, told>> BY <1>5 DEF Call, NewSession, Taken, onceVars
  <2>. QED BY <1>0, <2>1, <2>2, NameFrame
<1>6. CASE HasSession(c) \/ KillSession(c) \/ AskServer(c) \/ KillServer(c)
  <2>1. \E err \in Results : Return(c, err) BY <1>6, HasIs, KillIs, AskIs, KillServerIs
  <2>2. pc'[c] = "returned" BY <2>1, ReturnIs
  <2>3. UNCHANGED <<once, version, told>>
    BY <1>6 DEF HasSession, KillSession, AskServer, KillServer, onceVars
  <2>. QED BY <1>0, <2>2, <2>3, NameFrame
<1>7. CASE CtxEnds(c)
  <2>1. UNCHANGED <<once, version, told, pc, rows>> BY <1>7 DEF CtxEnds, onceVars, history
  <2>. QED BY <2>1, NameFrame
<1>. QED BY <1>1, <1>2, <1>3, <1>4, <1>5, <1>6, <1>7 DEF Works

LEMMA InvStep == TypeOK /\ IInv /\ [Next]_vars => IInv'
<1>. SUFFICES ASSUME TypeOK, IInv, [Next]_vars PROVE IInv' OBVIOUS
<1>1. made \subseteq made' /\ live' \intersect made \subseteq live BY NothingComesBack
<1>2. CASE UNCHANGED vars \/ \E s \in Id : SessionEnds(s)
  <2>1. UNCHANGED <<onceVars, callVars, own, asked, upset, unreached, told>>
    BY <1>2 DEF vars, history, SessionEnds
  <2>2. \A d \in Caller : Same(d) BY <2>1 DEF Same, callVars
  <2>3. NameInv' BY <2>1, NameFrame DEF IInv, onceVars, callVars
  <2>. QED BY <1>1, <2>2, <2>3, SameKeeps DEF IInv
<1>3. ASSUME NEW c \in Caller, (\E o \in Ops : Call(c, o)) \/ Works(c) \/ Taken(c) \/ CtxEnds(c)
      PROVE  IInv'
  <2>1. NameInv' BY <1>3, NameKeeps DEF IInv
  <2>2. CallInv(c)' BY <1>3, CallerKeeps DEF IInv
  <2>3. ASSUME NEW d \in Caller \ {c} PROVE CallInv(d)'
    <3>1. Same(d) BY <1>3, OthersSame
    <3>. QED BY <1>1, <3>1, SameKeeps DEF IInv
  <2>. QED BY <2>1, <2>2, <2>3 DEF IInv
<1>. QED BY <1>2, <1>3 DEF Next

-----------------------------------------------------------------------------
(* Theorems *)

(* OneShot's type invariant holds of every behavior, and with it that the  *)
(* version is being asked exactly while one caller waits for it.           *)
THEOREM InvCorrect == Spec => [](TypeOK /\ IInv)
<1>1. IInv => NameInv BY DEF IInv
<1>. QED BY <1>1, TypeInit, TypeStep, InvInit, InvStep, PTL DEF Spec

(* When a call says that what it was asked about is gone, killed or was    *)
(* never there, it is so, however its processes failed and whoever else    *)
(* changed the server meanwhile, unless a process of the call could not    *)
(* connect to the server, which the code cannot tell from there being none.*)
THEOREM GoneCorrect == Spec => []GoneIsGone
<1>1. IInv => GoneIsGone BY DEF IInv, CallInv, GoneIsGone
<1>. QED BY <1>1, InvCorrect, PTL

(* NewSession returns the session it made, or has a context or a failure   *)
(* of its own to blame.                                                    *)
THEOREM CreatedCorrect == Spec => []CreatedIsReported
<1>1. IInv => CreatedIsReported BY DEF IInv, CallInv, CreatedIsReported
<1>. QED BY <1>1, InvCorrect, PTL

(* No two readings of one session's name differ, since the version they    *)
(* are decoded by is asked once.                                           *)
THEOREM NamesCorrect == Spec => []NamesAgree
<1>1. ASSUME NEW S, NEW x, S \subseteq {x} PROVE Cardinality(S) <= 1
  <2>1. S = {} \/ S = {x} BY <1>1
  <2>2. CASE S = {}
    <3>1. Cardinality(S) = 0 BY <2>2, FS_EmptySet
    <3>. QED BY <3>1
  <2>3. CASE S = {x}
    <3>1. Cardinality(S) = 1 BY <2>3, FS_Singleton
    <3>. QED BY <3>1
  <2>. QED BY <2>1, <2>2, <2>3
<1>2. IInv => NamesAgree BY <1>1 DEF IInv, NameInv, NamesAgree
<1>. QED BY <1>2, InvCorrect, PTL
=============================================================================
