------------------------------ MODULE OneShot -------------------------------
(***************************************************************************)
(* The one-shot client: each call runs one tmux process or several, one    *)
(* after another, against a server that other callers and the sessions'    *)
(* own programs change in between.  The callers share one Client, and with *)
(* it the one thing a Client remembers, the answer to "tmux -V".           *)
(*                                                                         *)
(* A tmux process is one step: what it did to the server and how it ended. *)
(* A process that a caller's context kills may have done its work or not.  *)
(* A server runs while it has a session.  Identifiers are never reused, as *)
(* ListSessions' comment has it.                                           *)
(***************************************************************************)
EXTENDS Naturals, FiniteSets

CONSTANTS
  Caller,     \* goroutines that use the client
  Id,         \* bound: the identifiers tmux may give out
  NoId,
  Faulty,     \* does this tmux escape a '$' on the way in, as 3.4 does
  MaxCalls    \* bound: calls made of the client

ASSUME NoIdAssumption == NoId \notin Id
ASSUME OneShotAssumption == Faulty \in BOOLEAN /\ MaxCalls \in Nat

VARIABLES
  live,       \* sessions of the server
  made,       \* sessions there ever were
  once,       \* versionOnce
  version,    \* what the client remembers of it
  pc, op,     \* where a caller is, and in which call
  id,         \* the identifier the call is about, or was given
  rows,       \* the sessions its listing printed
  ctxEnded,
  result, calls,
  own,        \* history: the session this call created
  asked,      \* history: the sessions this call asks or decides about
  upset,      \* history: one of its processes failed for a reason of its own
  unreached,  \* history: one of its processes could not connect to the server
  told        \* history: the names read for each session

serverVars == <<live, made>>
onceVars == <<once, version>>
callVars == <<pc, op, id, rows, ctxEnded, result, calls>>
history == <<own, asked, upset, unreached, told>>
vars == <<serverVars, onceVars, callVars, history>>

Reads == {"Session", "HasSession", "ServerRunning"}
Ops == Reads \union {"NewSession", "KillSession", "KillServer"}
About == {"Session", "HasSession", "KillSession"}
Errors == {"ctx", "ErrNoServer", "ErrNoSession", "failure"}
Names == {"given", "stored"}

ServerRunning == live # {}

Init ==
  /\ live = {} /\ made = {}
  /\ once = "unasked" /\ version = "unknown"
  /\ pc = [c \in Caller |-> "idle"] /\ op = [c \in Caller |-> "ServerRunning"]
  /\ id = [c \in Caller |-> NoId] /\ rows = [c \in Caller |-> {}]
  /\ ctxEnded = [c \in Caller |-> FALSE]
  /\ result = [c \in Caller |-> "nil"]
  /\ calls = 0
  /\ own = [c \in Caller |-> NoId] /\ asked = [c \in Caller |-> {}]
  /\ upset = [c \in Caller |-> FALSE] /\ unreached = [c \in Caller |-> FALSE]
  /\ told = [s \in Id |-> {}]

-----------------------------------------------------------------------------
(* A process and its end *)

(* How a command may end that the server would answer with reply: with     *)
(* that, with a failure whose words name a missing file, without having    *)
(* started, or killed by its context.  A context that has ended already    *)
(* lets no process start.                                                  *)
Exits(c, reply) ==
  IF ctxEnded[c] THEN {"not-started"}
  ELSE {reply, "missing-file", "not-started", "killed"}

(* A command that talks to the server may not get through to one that      *)
(* runs: its socket may have been removed, or closed to this user.         *)
ServerExits(c, reply) == Exits(c, reply) \union (IF ctxEnded[c] THEN {} ELSE {"unreachable"})

(* Mutant: any "No such file or directory" is a missing server.            *)
noServerPatternsWide == {"no-server", "unreachable", "missing-file"}

(* noServerPatterns: every "error connecting to" is taken for an absence,  *)
(* whatever the errno after it says.                                       *)
noServerPatterns == {"no-server", "unreachable"}

(* The error of run: a context that has ended explains any failure.        *)
run(c, exit) ==
  IF exit = "ok" THEN "nil"
  ELSE IF exit = "killed" \/ ctxEnded[c] THEN "ctx"
  ELSE CASE exit \in noServerPatterns -> "ErrNoServer"
         [] exit = "missing" -> "ErrNoSession"
         [] OTHER -> "failure"

Gone(err) == err \in {"ErrNoServer", "ErrNoSession"}

(* The server becomes one with these sessions.                             *)
ServerBecomes(sessions) == live' = sessions

(* What a process that ended so leaves of its call.                        *)
Ends(c, exit) ==
  /\ ctxEnded' = [ctxEnded EXCEPT ![c] = @ \/ exit = "killed"]
  /\ upset' = [upset EXCEPT ![c] = @ \/ (~ctxEnded[c] /\ exit \in {"missing-file", "not-started"})]
  /\ unreached' = [unreached EXCEPT ![c] = @ \/ exit = "unreachable"]

Return(c, err) ==
  /\ pc' = [pc EXCEPT ![c] = "returned"]
  /\ result' = [result EXCEPT ![c] = err]

-----------------------------------------------------------------------------
(* Calls *)

Call(c, o) ==
  /\ pc[c] = "idle" /\ calls < MaxCalls
  /\ o = "NewSession" => made # Id
  /\ \E s \in IF o \in About THEN made ELSE {NoId} :
       /\ id' = [id EXCEPT ![c] = s]
       /\ asked' = [asked EXCEPT ![c] = IF o \in About THEN {s} ELSE live]
  /\ pc' = [pc EXCEPT ![c] = IF o = "Session" THEN "list" ELSE "run"]
  /\ op' = [op EXCEPT ![c] = o]
  /\ calls' = calls + 1
  /\ UNCHANGED <<serverVars, onceVars, rows, ctxEnded, result, own, upset, unreached, told>>

(* new-session starts a server if there is none.  Its identifier is        *)
(* printed, and read back with Session.                                    *)
NewSession(c) ==
  /\ pc[c] = "run" /\ op[c] = "NewSession"
  /\ \E exit \in ServerExits(c, "ok") :
       /\ \/ /\ exit \in {"ok", "killed"} /\ made # Id
             /\ \E s \in Id \ made :
                  /\ ServerBecomes(live \union {s})
                  /\ made' = made \union {s}
                  /\ own' = [own EXCEPT ![c] = s]
                  /\ id' = [id EXCEPT ![c] = IF exit = "ok" THEN s ELSE @]
          \/ exit # "ok" /\ UNCHANGED <<serverVars, own, id>>
       /\ Ends(c, exit)
       /\ IF exit = "ok"
          THEN pc' = [pc EXCEPT ![c] = "list"] /\ UNCHANGED result
          ELSE Return(c, run(c, exit))
  /\ UNCHANGED <<onceVars, op, rows, calls, asked, told>>

(* list-sessions, through QueryArgs: no server is an empty listing.  A row *)
(* has a name to decode.                                                   *)
ListSessions(c) ==
  /\ pc[c] = "list"
  /\ \E exit \in ServerExits(c, IF ServerRunning THEN "ok" ELSE "no-server") :
       LET err == run(c, exit) IN
       /\ Ends(c, exit)
       /\ IF err = "nil" \/ Gone(err)
          THEN /\ rows' = [rows EXCEPT ![c] = IF err = "nil" THEN live ELSE {}]
               /\ pc' = [pc EXCEPT ![c] = IF err = "nil" THEN "decode" ELSE "find"]
               /\ UNCHANGED result
          ELSE Return(c, err) /\ UNCHANGED rows
  /\ UNCHANGED <<serverVars, onceVars, op, id, calls, own, asked, told>>

(* decodeStored: the first to need the version asks for it, and a caller   *)
(* that comes meanwhile waits for that answer, its context unheard.        *)
AskVersion(c) ==
  /\ pc[c] = "decode"
  /\ \/ once = "unasked" /\ once' = "asking" /\ pc' = [pc EXCEPT ![c] = "version"]
     \/ once = "answered" /\ once' = once /\ pc' = [pc EXCEPT ![c] = "find"]
  /\ UNCHANGED <<serverVars, version, op, id, rows, ctxEnded, result, calls, history>>

(* Mutant: a failure is not remembered, so that the next reader asks.      *)
tmuxVersionAsksAgain(c) ==
  /\ pc[c] = "version"
  /\ \E exit \in Exits(c, "ok") :
       /\ Ends(c, exit)
       /\ version' = IF exit = "ok" THEN "known" ELSE version
       /\ once' = IF exit = "ok" THEN "answered" ELSE "unasked"
  /\ pc' = [pc EXCEPT ![c] = "find"]
  /\ UNCHANGED <<serverVars, op, id, rows, result, calls, own, asked, told>>

(* Mutant: a failure leaves the question open, as a once of one's own may. *)
tmuxVersionHangs(c) ==
  /\ pc[c] = "version"
  /\ \E exit \in Exits(c, "ok") :
       /\ Ends(c, exit)
       /\ version' = IF exit = "ok" THEN "known" ELSE version
       /\ once' = IF exit = "ok" THEN "answered" ELSE once
  /\ pc' = [pc EXCEPT ![c] = "find"]
  /\ UNCHANGED <<serverVars, op, id, rows, result, calls, own, asked, told>>

(* "tmux -V" ends, and whatever came of it is remembered: a failure too,   *)
(* that of a cancelled context included.                                   *)
tmuxVersion(c) ==
  /\ pc[c] = "version"
  /\ \E exit \in Exits(c, "ok") :
       /\ Ends(c, exit)
       /\ version' = IF exit = "ok" THEN "known" ELSE version
       /\ once' = "answered"
  /\ pc' = [pc EXCEPT ![c] = "find"]
  /\ UNCHANGED <<serverVars, op, id, rows, result, calls, own, asked, told>>

(* The name a listing gives, undone if the version says so.                *)
decodeStored == IF Faulty /\ version = "unknown" THEN "stored" ELSE "given"

(* Mutant: NewSession passes on what Session says.                         *)
NotFoundFails(c) == Return(c, "ErrNoSession")

(* Session fails, but NewSession knows that there was one.                 *)
NotFound(c) ==
  IF op[c] = "NewSession" THEN Return(c, "nil")
  ELSE Return(c, "ErrNoSession")

(* Session looks for its identifier among the rows.                        *)
Find(c) ==
  /\ pc[c] = "find"
  /\ told' = [s \in Id |-> IF s \in rows[c] THEN told[s] \union {decodeStored} ELSE told[s]]
  /\ IF id[c] \in rows[c] THEN Return(c, "nil") ELSE NotFound(c)
  /\ UNCHANGED <<serverVars, onceVars, op, id, rows, ctxEnded, calls, own, asked, upset, unreached>>

TargetReply(c) ==
  IF ~ServerRunning THEN "no-server" ELSE IF id[c] \in live THEN "ok" ELSE "missing"

(* has-session: either absence is an answer.                               *)
HasSession(c) ==
  /\ pc[c] = "run" /\ op[c] = "HasSession"
  /\ \E exit \in ServerExits(c, TargetReply(c)) :
       LET err == run(c, exit) IN
       /\ Ends(c, exit)
       /\ Return(c, IF err = "nil" THEN "true" ELSE IF Gone(err) THEN "false" ELSE err)
  /\ UNCHANGED <<serverVars, onceVars, op, id, rows, calls, own, asked, told>>

(* kill-session: what is already gone has been killed.                     *)
KillSession(c) ==
  /\ pc[c] = "run" /\ op[c] = "KillSession"
  /\ \E exit \in ServerExits(c, TargetReply(c)) :
       LET err == run(c, exit) IN
       /\ \/ exit \in {"ok", "killed"} /\ ServerBecomes(live \ {id[c]})
          \/ exit # "ok" /\ UNCHANGED live
       /\ Ends(c, exit)
       /\ Return(c, IF Gone(err) THEN "nil" ELSE err)
  /\ UNCHANGED <<made, onceVars, op, id, rows, calls, own, asked, told>>

ServerReply == IF ServerRunning THEN "ok" ELSE "no-server"

AskServer(c) ==
  /\ pc[c] = "run" /\ op[c] = "ServerRunning"
  /\ \E exit \in ServerExits(c, ServerReply) :
       LET err == run(c, exit) IN
       /\ Ends(c, exit)
       /\ Return(c, IF err = "nil" THEN "true" ELSE IF err = "ErrNoServer" THEN "false"
                    ELSE err)
  /\ UNCHANGED <<serverVars, onceVars, op, id, rows, calls, own, asked, told>>

KillServer(c) ==
  /\ pc[c] = "run" /\ op[c] = "KillServer"
  /\ \E exit \in ServerExits(c, ServerReply) :
       LET err == run(c, exit) IN
       /\ \/ exit \in {"ok", "killed"} /\ ServerBecomes({})
          \/ exit # "ok" /\ UNCHANGED live
       /\ Ends(c, exit)
       /\ Return(c, IF err = "ErrNoServer" THEN "nil" ELSE err)
  /\ UNCHANGED <<made, onceVars, op, id, rows, calls, own, asked, told>>

(* The caller takes its result and may call again; nothing is left of the  *)
(* call.                                                                   *)
Taken(c) ==
  /\ pc[c] = "returned"
  /\ pc' = [pc EXCEPT ![c] = "idle"] /\ op' = [op EXCEPT ![c] = "ServerRunning"]
  /\ id' = [id EXCEPT ![c] = NoId] /\ rows' = [rows EXCEPT ![c] = {}]
  /\ ctxEnded' = [ctxEnded EXCEPT ![c] = FALSE]
  /\ result' = [result EXCEPT ![c] = "nil"]
  /\ own' = [own EXCEPT ![c] = NoId] /\ asked' = [asked EXCEPT ![c] = {}]
  /\ upset' = [upset EXCEPT ![c] = FALSE] /\ unreached' = [unreached EXCEPT ![c] = FALSE]
  /\ UNCHANGED <<serverVars, onceVars, calls, told>>

-----------------------------------------------------------------------------
(* What happens around a call *)

CtxEnds(c) ==
  /\ pc[c] \notin {"idle", "returned"} /\ ~ctxEnded[c]
  /\ ctxEnded' = [ctxEnded EXCEPT ![c] = TRUE]
  /\ UNCHANGED <<serverVars, onceVars, pc, op, id, rows, result, calls, history>>

(* The last program in a session ends, and the session with it; a server   *)
(* with no sessions exits.                                                 *)
SessionEnds(s) ==
  /\ s \in live
  /\ ServerBecomes(live \ {s})
  /\ UNCHANGED <<made, onceVars, callVars, own, asked, upset, unreached, told>>

Works(c) ==
  \/ NewSession(c) \/ ListSessions(c) \/ AskVersion(c) \/ tmuxVersion(c) \/ Find(c)
  \/ HasSession(c) \/ KillSession(c) \/ AskServer(c) \/ KillServer(c)

Next ==
  \/ \E c \in Caller : (\E o \in Ops : Call(c, o)) \/ Works(c) \/ Taken(c) \/ CtxEnds(c)
  \/ \E s \in Id : SessionEnds(s)

Spec == Init /\ [][Next]_vars

(* Every process ends, by itself or by its context, and a caller goes on.  *)
CallSpec == Spec /\ \A c \in Caller : WF_vars(Works(c))

-----------------------------------------------------------------------------
(* Types, by what they are about: the server, the version, the calls and   *)
(* their histories.                                                        *)
TypeServer ==
  /\ live \subseteq made /\ made \subseteq Id
  /\ told \in [Id -> SUBSET Names]

TypeOnce ==
  /\ once \in {"unasked", "asking", "answered"} /\ version \in {"unknown", "known"}
  /\ (once = "asking") = (\E c \in Caller : pc[c] = "version")

TypeCalls ==
  /\ pc \in [Caller -> {"idle", "run", "list", "decode", "version", "find", "returned"}]
  /\ op \in [Caller -> Ops] /\ id \in [Caller -> Id \union {NoId}]
  /\ rows \in [Caller -> SUBSET Id] /\ ctxEnded \in [Caller -> BOOLEAN]
  /\ result \in [Caller -> Errors \union {"nil", "true", "false"}]
  /\ calls \in 0..MaxCalls

TypeHistory ==
  /\ own \in [Caller -> Id \union {NoId}] /\ asked \in [Caller -> SUBSET Id]
  /\ upset \in [Caller -> BOOLEAN] /\ unreached \in [Caller -> BOOLEAN]

TypeOK == TypeServer /\ TypeOnce /\ TypeCalls /\ TypeHistory

SaysGone(c) ==
  \/ op[c] \in {"KillSession", "KillServer"} /\ result[c] = "nil"
  \/ op[c] \in {"HasSession", "ServerRunning"} /\ result[c] = "false"
  \/ op[c] = "Session" /\ result[c] \in {"ErrNoSession", "ErrNoServer"}

(* When a call says that what it was asked about is gone, killed or was    *)
(* never there, every session it was about has ended, whatever failed or   *)
(* was cancelled on the way, but for one failure: noServerPatterns takes a *)
(* server that could not be connected to for none, and KillSession then    *)
(* reports as killed a session that lives.                                 *)
GoneAsSaid(c) ==
  pc[c] = "returned" /\ SaysGone(c) => asked[c] \intersect live = {} \/ unreached[c]

GoneIsGone == \A c \in Caller : GoneAsSaid(c)

(* NewSession returns the session it made even if that ended, and took the *)
(* server along, before it could be read back; only a caller that          *)
(* cancelled, or whose tmux could not be run, is left with an error for a  *)
(* session that exists.                                                    *)
CreatedAsSaid(c) ==
  pc[c] = "returned" /\ op[c] = "NewSession" =>
    IF result[c] = "nil" THEN own[c] # NoId /\ id[c] = own[c]
    ELSE own[c] # NoId => ctxEnded[c] \/ upset[c]

CreatedIsReported == \A c \in Caller : CreatedAsSaid(c)

(* The readers of one client never contradict each other about a name that *)
(* nobody changed, however asking for the version went and whoever asked.  *)
NamesAgree == \A s \in Id : Cardinality(told[s]) <= 1

(* Every call returns: the callers that wait for another's "tmux -V" are   *)
(* let go whatever becomes of it.                                          *)
CallsReturn == \A c \in Caller : pc[c] # "idle" ~> pc[c] = "returned"
=============================================================================
