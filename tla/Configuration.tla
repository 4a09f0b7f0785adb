--------------------------- MODULE Configuration ----------------------------
(***************************************************************************)
(* What a list of Options makes of the process a Client or a ControlClient *)
(* starts: its program, arguments and environment, and the sizes and times *)
(* that go with it.  Left out: execPrefix, with which only tests run.      *)
(*                                                                         *)
(* An option is [with: its constructor's name, given: its argument].  A Go *)
(* slice is [nil, of]: os/exec reads a nil environment as the parent's and *)
(* an empty one as none.                                                   *)
(***************************************************************************)
EXTENDS Integers, Sequences

CONSTANTS
  SessionID,     \* the texts that are session identifiers, "" not among them
  ParentEnv,     \* this process's environment, as a sequence of entries
  Defaults       \* the binary, eventBuffer, outputBuffer and closeTimeout, above zero

Unset == ""
NilSlice == [nil |-> TRUE, of |-> <<>>]
Slice(s) == [nil |-> FALSE, of |-> s]

defaults ==
  [binary |-> Defaults.binary, socketPath |-> Unset, socketName |-> Unset,
   env |-> <<>>, inheritEnv |-> TRUE, controlArgs |-> <<>>, attach |-> Unset,
   eventBuffer |-> Defaults.eventBuffer, outputBuffer |-> Defaults.outputBuffer,
   closeTimeout |-> Defaults.closeTimeout, skipVersionCk |-> FALSE, doubleControl |-> FALSE]

Positive(n, otherwise) == IF n > 0 THEN n ELSE otherwise

(* One option applied; values that make no sense are ignored.              *)
Apply(c, opt) ==
  CASE opt.with = "WithSocketPath" -> [c EXCEPT !.socketPath = opt.given]
    [] opt.with = "WithSocketName" -> [c EXCEPT !.socketName = opt.given]
    [] opt.with = "WithEnv" -> [c EXCEPT !.env = @ \o opt.given]
    [] opt.with = "WithoutParentEnv" -> [c EXCEPT !.inheritEnv = FALSE]
    [] opt.with = "WithControlArgs" -> [c EXCEPT !.controlArgs = opt.given]
    [] opt.with = "WithAttach" -> [c EXCEPT !.attach = opt.given]
    [] opt.with = "WithBinary" ->
         [c EXCEPT !.binary = IF opt.given # Unset THEN opt.given ELSE @]
    [] opt.with = "WithEventBuffer" -> [c EXCEPT !.eventBuffer = Positive(opt.given, @)]
    [] opt.with = "WithOutputBuffer" -> [c EXCEPT !.outputBuffer = Positive(opt.given, @)]
    [] opt.with = "WithCloseTimeout" -> [c EXCEPT !.closeTimeout = Positive(opt.given, @)]
    [] opt.with = "WithoutVersionCheck" -> [c EXCEPT !.skipVersionCk = TRUE]
    [] opt.with = "WithDoubleControlMode" -> [c EXCEPT !.doubleControl = TRUE]

newConfig(opts) ==
  LET config[n \in 0..Len(opts)] ==
        IF n = 0 THEN defaults ELSE Apply(config[n - 1], opts[n])
  IN config[Len(opts)]

globalArgs(c) ==
  IF c.socketPath # Unset THEN <<"-S", c.socketPath>>
  ELSE IF c.socketName # Unset THEN <<"-L", c.socketName>> ELSE <<>>

(* Mutant: the entries are appended to a nil slice, which stays nil when   *)
(* there are none.                                                         *)
environAppended(c) ==
  IF ~c.inheritEnv /\ c.env # <<>> THEN Slice(c.env)
  ELSE IF c.env = <<>> THEN NilSlice ELSE Slice(ParentEnv \o c.env)

environ(c) ==
  IF ~c.inheritEnv THEN Slice(c.env)
  ELSE IF c.env = <<>> THEN NilSlice ELSE Slice(ParentEnv \o c.env)

(* No session once WithControlArgs has replaced the startup command.       *)
attachTarget(c) == IF c.controlArgs # <<>> THEN Unset ELSE c.attach

controlCommand(c) ==
  IF c.controlArgs # <<>> THEN c.controlArgs
  ELSE IF attachTarget(c) # Unset THEN <<"attach-session", "-t", attachTarget(c)>>
  ELSE <<"new-session">>

argv(c, args) == globalArgs(c) \o args

controlFlag(c) == IF c.doubleControl THEN "-CC" ELSE "-C"

(* Connect, as far as its options decide: it refuses a session that is no  *)
(* identifier if it would attach to it, then a tmux older than the floor   *)
(* if it is to look, or starts a process.  The event channel gets two      *)
(* slots more than asked.                                                  *)
Connect(opts, oldTmux) ==
  LET c == newConfig(opts)
  IN IF attachTarget(c) # Unset /\ attachTarget(c) \notin SessionID
     THEN [is |-> "ErrInvalidID"]
     ELSE IF ~c.skipVersionCk /\ oldTmux THEN [is |-> "ErrUnsupportedVersion"]
     ELSE [is |-> "started", binary |-> c.binary,
           args |-> argv(c, <<controlFlag(c)>> \o controlCommand(c)), env |-> environ(c),
           events |-> c.eventBuffer + 2, tap |-> c.outputBuffer, patience |-> c.closeTimeout]

(* A one-shot client's process, with the same options.                     *)
Run(opts, args) ==
  [binary |-> newConfig(opts).binary, args |-> argv(newConfig(opts), args),
   env |-> environ(newConfig(opts))]

(* os/exec, external: the environment the process gets.                    *)
Environment(env) == IF env.nil THEN ParentEnv ELSE env.of
=============================================================================
