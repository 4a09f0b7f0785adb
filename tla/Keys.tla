-------------------------------- MODULE Keys --------------------------------
(***************************************************************************)
(* SendKeys: a mixed sequence of keys goes to its pane as one send-keys    *)
(* per run of keys of one kind, one process after another, while other     *)
(* callers send to the same pane and the pane or a context may end.        *)
(***************************************************************************)
EXTENDS Naturals, Sequences, FiniteSets, SequencesExt

CONSTANTS
  Caller,
  MaxKeys    \* bound: keys in a call

ASSUME KeysAssumption == MaxKeys \in Nat

Kind == {"name", "literal", "hex"}

VARIABLES
  keys,       \* the keys each caller asks to send, by kind
  pc, at,     \* its call, and how many runs have been sent
  ctxEnded,
  result,
  pane,       \* what reached the pane: who sent it, as what, which key
  alive

vars == <<keys, pc, at, ctxEnded, result, pane, alive>>

(* A key that is empty is not sent, and fails the call.                    *)
Key == Kind \union {"empty"}

Init ==
  /\ keys \in [Caller -> SeqOf(Key, MaxKeys)]
  /\ pc = [c \in Caller |-> "idle"] /\ at = [c \in Caller |-> 0]
  /\ ctxEnded = [c \in Caller |-> FALSE]
  /\ result = [c \in Caller |-> "none"]
  /\ pane = <<>> /\ alive = TRUE

-----------------------------------------------------------------------------
(* Runs *)

valid(k) == k # "empty"

(* A run is the kind and the numbers of its keys.                          *)
Run(kind, numbers) == [kind |-> kind, keys |-> numbers]

(* Mutant: a key joins any earlier run of its kind.                        *)
batchKeysByKind(s) ==
  LET kinds == SetToSeq({s[i] : i \in 1..Len(s)})
  IN [r \in 1..Len(kinds) |->
        Run(kinds[r], SetToSortSeq({i \in 1..Len(s) : s[i] = kinds[r]}, <))]

(* The i-th key joins the last run if that is of its kind, or begins one.  *)
Joined(runs, kind, i) ==
  IF runs # <<>> /\ Last(runs).kind = kind
  THEN Append(Front(runs), Run(kind, Append(Last(runs).keys, i)))
  ELSE Append(runs, Run(kind, <<i>>))

(* Maximal runs of consecutive keys of one kind: of the first n keys, for  *)
(* each n in turn.                                                         *)
batchesUpTo(s) ==
  LET upTo[n \in 0..Len(s)] == IF n = 0 THEN <<>> ELSE Joined(upTo[n - 1], s[n], n)
  IN upTo

batchKeys(s) == batchesUpTo(s)[Len(s)]

-----------------------------------------------------------------------------
Return(c, err) ==
  /\ pc' = [pc EXCEPT ![c] = "returned"]
  /\ result' = [result EXCEPT ![c] = err]

SendKeys(c) ==
  /\ pc[c] = "idle"
  /\ IF keys[c] = <<>> THEN Return(c, "nil")
     ELSE IF \E i \in 1..Len(keys[c]) : ~valid(keys[c][i]) THEN Return(c, "empty key")
     ELSE pc' = [pc EXCEPT ![c] = "sending"] /\ UNCHANGED result
  /\ UNCHANGED <<keys, at, ctxEnded, pane, alive>>

(* Mutant: a run that failed is passed over.                               *)
AfterRunRegardless(c, runs, ok) ==
  /\ at' = [at EXCEPT ![c] = @ + 1]
  /\ IF at'[c] = Len(runs) THEN Return(c, IF ok THEN "nil" ELSE "failed")
     ELSE UNCHANGED <<pc, result>>

(* The first run that fails ends the call.                                 *)
AfterRun(c, runs, ok) ==
  /\ at' = [at EXCEPT ![c] = IF ok THEN @ + 1 ELSE @]
  /\ IF ~ok THEN Return(c, "failed")
     ELSE IF at'[c] = Len(runs) THEN Return(c, "nil")
     ELSE UNCHANGED <<pc, result>>

(* One send-keys process.  It fails if there is no pane, or of itself, or  *)
(* is killed by its context when it may have sent its run; a context that  *)
(* has ended already lets none start.                                      *)
SendRun(c) ==
  LET runs == batchKeys(keys[c])
      next == runs[at[c] + 1]
      arrives == [i \in 1..Len(next.keys) |->
                    [from |-> c, kind |-> next.kind, key |-> next.keys[i]]]
  IN /\ pc[c] = "sending"
     /\ \E exit \in {"ok", "failed", "killed"}, sent \in BOOLEAN :
          /\ ctxEnded[c] => exit = "failed"
          /\ sent => alive
          /\ exit # "killed" => sent = (exit = "ok")
          /\ pane' = IF sent THEN pane \o arrives ELSE pane
          /\ ctxEnded' = [ctxEnded EXCEPT ![c] = @ \/ exit = "killed"]
          /\ AfterRun(c, runs, exit = "ok")
     /\ UNCHANGED <<keys, alive>>

CtxEnds(c) ==
  /\ pc[c] = "sending" /\ ~ctxEnded[c]
  /\ ctxEnded' = [ctxEnded EXCEPT ![c] = TRUE]
  /\ UNCHANGED <<keys, pc, at, result, pane, alive>>

PaneEnds == alive /\ alive' = FALSE /\ UNCHANGED <<keys, pc, at, ctxEnded, result, pane>>

Next ==
  \/ \E c \in Caller : SendKeys(c) \/ SendRun(c) \/ CtxEnds(c)
  \/ PaneEnds

Spec == Init /\ [][Next]_vars

-----------------------------------------------------------------------------
(* The places in the pane that hold a key of a caller's, and how many of   *)
(* them come no later than the i-th.                                       *)
From(c) == {i \in 1..Len(pane) : pane[i].from = c}
Rank(c, i) == Cardinality({j \in From(c) : j <= i})

Delivered == [from : Caller, kind : Kind, key : Nat]

TypeOK ==
  /\ keys \in [Caller -> SeqOf(Key, MaxKeys)]
  /\ pc \in [Caller -> {"idle", "sending", "returned"}]
  /\ at \in [Caller -> Nat] /\ ctxEnded \in [Caller -> BOOLEAN]
  /\ result \in [Caller -> {"none", "nil", "failed", "empty key"}]
  /\ pane \in Seq(Delivered) /\ alive \in BOOLEAN

(* "The runs are sent in order and a failure part-way through leaves the   *)
(* earlier runs delivered": whoever else sends, what a caller has sent is  *)
(* the beginning of what it asked, each key once, in order and under the   *)
(* flag of its own kind.                                                   *)
InOrder(c, i) ==
  /\ Rank(c, i) \in 1..Len(keys[c])
  /\ pane[i].key = Rank(c, i) /\ pane[i].kind = keys[c][Rank(c, i)]

DeliveredIsPrefix == \A c \in Caller : \A i \in From(c) : InOrder(c, i)

(* A call that returns nil has delivered everything, one that fails has    *)
(* stopped: of a failed call at least one key is missing unless its        *)
(* context ended while the last run was on its way, and one refused for an *)
(* empty key sent none.                                                    *)
SaidTruly(c) ==
  /\ result[c] = "nil" => Cardinality(From(c)) = Len(keys[c])
  /\ result[c] = "failed" => Cardinality(From(c)) < Len(keys[c]) \/ ctxEnded[c]
  /\ result[c] = "empty key" => From(c) = {}

ResultTellsTruth == \A c \in Caller : SaidTruly(c)
=============================================================================
