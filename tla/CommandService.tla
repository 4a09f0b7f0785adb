--------------------------- MODULE CommandService ---------------------------
(***************************************************************************)
(* What ControlClient.Do promises its callers, with no wire, queue or      *)
(* reader: commands reach a server that takes them in one order and gives  *)
(* each at most one verdict, and a call that returns an answer returns the *)
(* verdict on its own command.  A call may fail at any time instead; what  *)
(* it asked for may still be carried out after that.                       *)
(***************************************************************************)
EXTENDS Naturals, Sequences

CONSTANT Cmd

VARIABLES
  call,     \* [Cmd -> "idle", "waiting", "answered end", "answered error" or "failed"]
  order,    \* the commands in the order the server has them
  verdict   \* [Cmd -> "none", "end" or "error"]

serviceVars == <<call, order, verdict>>

Has(c) == \E i \in 1..Len(order) : order[i] = c

Init ==
  /\ call = [c \in Cmd |-> "idle"]
  /\ order = <<>>
  /\ verdict = [c \in Cmd |-> "none"]

Ask(c) ==
  /\ call[c] = "idle"
  /\ call' = [call EXCEPT ![c] = "waiting"]
  /\ UNCHANGED <<order, verdict>>

(* A command is accepted once, while its caller waits.                     *)
Accept(c) ==
  /\ call[c] = "waiting" /\ ~Has(c)
  /\ order' = Append(order, c)
  /\ UNCHANGED <<call, verdict>>

(* In order: a command has its verdict after every command before it.      *)
Judge(i, v) ==
  /\ verdict[order[i]] = "none"
  /\ \A j \in 1..(i - 1) : verdict[order[j]] # "none"
  /\ verdict' = [verdict EXCEPT ![order[i]] = v]
  /\ UNCHANGED <<call, order>>

Answer(c) ==
  /\ call[c] = "waiting" /\ verdict[c] # "none"
  /\ call' = [call EXCEPT ![c] =
                IF verdict[c] = "end" THEN "answered end" ELSE "answered error"]
  /\ UNCHANGED <<order, verdict>>

Fail(c) ==
  /\ call[c] = "waiting"
  /\ call' = [call EXCEPT ![c] = "failed"]
  /\ UNCHANGED <<order, verdict>>

(* Every step changes something of this: what else the implementation does *)
(* is no step of the service.                                              *)
Next ==
  /\ serviceVars' # serviceVars
  /\ \/ \E c \in Cmd : Ask(c) \/ Accept(c) \/ Answer(c) \/ Fail(c)
     \/ \E i \in 1..Len(order), v \in {"end", "error"} : Judge(i, v)

Spec == Init /\ [][Next]_serviceVars
=============================================================================
