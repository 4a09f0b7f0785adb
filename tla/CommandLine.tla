---------------------------- MODULE CommandLine -----------------------------
(***************************************************************************)
(* The text of a command, on its way to tmux.  Do refuses a line that tmux *)
(* would not read as exactly one command, since replies are bound by their *)
(* order only; DoArgs quotes its arguments into a line of one     *)
(* command; and the one-shot client disarms the one byte of an argument    *)
(* vector that tmux's own argument parser would take as a separator.       *)
(*                                                                         *)
(* A line is a sequence of bytes, and a byte stands for its class: "a" is  *)
(* any byte of safeByte, "n" the letter of tmux's "\n" escape, the others  *)
(* are the bytes that some rule names.                                     *)
(***************************************************************************)
EXTENDS Naturals, Sequences, SequencesExt

Byte == {"a", "n", "space", "'", "dquote", "bslash", ";", "{", "#", "$",
         "newline", "nul"}
Blank == {"space"}

-----------------------------------------------------------------------------
(* Quoting *)

safeByte(c) == c \in {"a", "n"}

needsQuoting(s) == \E i \in 1..Len(s) : ~safeByte(s[i])

(* Mutant: single quotes, whatever is inside.                              *)
quoteTokenSingle(s) ==
  IF ~needsQuoting(s) THEN s ELSE <<"'">> \o s \o <<"'">>

(* Single quotes where they can be, backslashes otherwise.                 *)
quoteToken(s) ==
  IF ~needsQuoting(s) THEN s
  ELSE IF ~Contains(s, "'") THEN <<"'">> \o s \o <<"'">>
  ELSE FlattenSeq([i \in 1..Len(s) |->
                     IF safeByte(s[i]) THEN <<s[i]>> ELSE <<"bslash", s[i]>>])

NewlineEscape == <<"dquote", "bslash", "n", "dquote">>

(* The runs of s between its newlines: those that have ended, and the one  *)
(* it is in, after each number of bytes.                                   *)
cuts(s) ==
  LET at[i \in 0..Len(s)] ==
        IF i = 0 THEN [runs |-> <<>>, run |-> <<>>]
        ELSE IF s[i] = "newline"
        THEN [runs |-> Append(at[i - 1].runs, at[i - 1].run), run |-> <<>>]
        ELSE [at[i - 1] EXCEPT !.run = Append(@, s[i])]
  IN at

Runs(s) == Append(cuts(s)[Len(s)].runs, cuts(s)[Len(s)].run)

(* No quoting reaches a newline: each is a double-quoted chunk of its own. *)
quoteArg(s) ==
  IF s = <<>> THEN <<"'", "'">>
  ELSE LET runs == Runs(s)
           Chunk(r) == IF r = <<>> THEN <<>> ELSE quoteToken(r)
       IN FlattenSeq([k \in 1..Len(runs) |->
            (IF k > 1 THEN NewlineEscape ELSE <<>>) \o Chunk(runs[k])])

(* The line DoArgs hands to Do.                                            *)
DoArgsLine(args) ==
  FlattenSeq([i \in 1..Len(args) |->
    (IF i > 1 THEN <<"space">> ELSE <<>>) \o quoteArg(args[i])])

-----------------------------------------------------------------------------
(* What Do lets through *)

(* Mutant: only a line that begins with '#' is a comment.                  *)
commentStartAtZero(line) == line # <<>> /\ line[1] = "#"

(* The first byte that is not blank is a '#'.                              *)
commentStart(line) ==
  \E i \in 1..Len(line) : line[i] = "#" /\ \A j \in 1..(i - 1) : line[j] \in Blank

Scan(quote, fresh, escaped, broken) ==
  [quote |-> quote, fresh |-> fresh, escaped |-> escaped, broken |-> broken]

(* commandBreak's loop, a byte at a time; fresh is atTokenStart.           *)
scanStep(st, c) ==
  IF st.broken THEN st
  ELSE IF st.escaped THEN Scan(st.quote, FALSE, FALSE, FALSE)
  ELSE IF c = "bslash" /\ st.quote # "'" THEN Scan(st.quote, FALSE, TRUE, FALSE)
  ELSE IF st.quote # "none"
       THEN Scan(IF c = st.quote THEN "none" ELSE st.quote, FALSE, FALSE, FALSE)
  ELSE IF c \in {"'", "dquote"} THEN Scan(c, FALSE, FALSE, FALSE)
  ELSE IF c = ";" \/ (c = "{" /\ st.fresh) THEN Scan("none", FALSE, FALSE, TRUE)
  ELSE Scan("none", c \in Blank, FALSE, FALSE)

ScanStart == Scan("none", TRUE, FALSE, FALSE)

(* Where the loop is after each number of bytes.                           *)
scans(line) ==
  LET at[i \in 0..Len(line)] == IF i = 0 THEN ScanStart ELSE scanStep(at[i - 1], line[i])
  IN at

commandBreak(line) == scans(line)[Len(line)].broken

(* The checks Do makes before it waits for the barrier.                    *)
Accepts(line) ==
  /\ \E i \in 1..Len(line) : line[i] \notin Blank \union {"newline"}
  /\ \A i \in 1..Len(line) : line[i] \notin {"newline", "nul"}
  /\ ~commentStart(line) /\ ~commandBreak(line)

-----------------------------------------------------------------------------
(* How tmux reads a line: external, as the comments of these functions     *)
(* report its lexer.                                                       *)

(* mode: "plain", the quote it is in, or "comment"; open: a token has      *)
(* begun; expands: a token was not taken byte for byte.                    *)
LexStart == [mode |-> "plain", escaped |-> FALSE, open |-> FALSE, token |-> <<>>,
             tokens |-> <<>>, done |-> <<>>, nested |-> FALSE, expands |-> FALSE]

Takes(st, c) == [st EXCEPT !.open = TRUE, !.escaped = FALSE, !.token = Append(@, c)]
Enters(st, mode) == [st EXCEPT !.open = TRUE, !.mode = mode]
EndToken(st) ==
  [st EXCEPT !.open = FALSE, !.token = <<>>,
             !.tokens = IF st.open THEN Append(@, st.token) ELSE @]
EndCommand(st) ==
  LET s == EndToken(st) IN
  [s EXCEPT !.tokens = <<>>,
            !.done = IF s.tokens = <<>> THEN @ ELSE Append(@, s.tokens)]

LexPlain(st, c) ==
  IF c \in Blank THEN EndToken(st)
  ELSE IF c = ";" THEN EndCommand(st)
  ELSE IF c \in {"'", "dquote"} THEN Enters(st, c)
  ELSE IF c = "bslash" THEN [st EXCEPT !.open = TRUE, !.escaped = TRUE]
  ELSE IF c = "#" /\ ~st.open THEN [st EXCEPT !.mode = "comment"]
  ELSE IF c = "{" /\ ~st.open THEN [Takes(st, c) EXCEPT !.nested = TRUE]
  ELSE IF c = "$" THEN [Takes(st, c) EXCEPT !.expands = TRUE]
  ELSE Takes(st, c)

LexQuoted(st, c) ==
  IF c = st.mode THEN [st EXCEPT !.mode = "plain"]
  ELSE IF st.mode = "dquote" /\ c = "bslash" THEN [st EXCEPT !.escaped = TRUE]
  ELSE IF st.mode = "dquote" /\ c \in {"$", "#"}
       THEN [Takes(st, c) EXCEPT !.expands = TRUE]
  ELSE Takes(st, c)

LexStep(st, c) ==
  IF st.mode = "comment" THEN st
  ELSE IF st.escaped THEN Takes(st, IF c = "n" THEN "newline" ELSE c)
  ELSE IF st.mode = "plain" THEN LexPlain(st, c)
  ELSE LexQuoted(st, c)

lexes(line) ==
  LET at[i \in 0..Len(line)] == IF i = 0 THEN LexStart ELSE LexStep(at[i - 1], line[i])
  IN at

Lex(line) == EndCommand(lexes(line)[Len(line)])

(* tmux reads one command, and none inside braces, each of which it would  *)
(* answer with a block of its own; to no command at all it gives no answer. *)
(* A command may still run others that it is given as a string or a file   *)
(* (if-shell, bind-key, source-file), which earn a block each: "what       *)
(* cannot be detected" of Do's comment, which tells callers not to.        *)
OneCommand(line) == Len(Lex(line).done) = 1 /\ ~Lex(line).nested

-----------------------------------------------------------------------------
(* The argument vector of the one-shot client *)

(* Mutant: backslashes before the semicolon are doubled, "as though it     *)
(* should need" that.                                                      *)
escapeArgDoubling(a) ==
  IF a # <<>> /\ Last(a) = ";"
  THEN FlattenSeq([i \in 1..(Len(a) - 1) |->
                     IF a[i] = "bslash" THEN <<"bslash", "bslash">> ELSE <<a[i]>>])
       \o <<"bslash", ";">>
  ELSE a

escapeArg(a) ==
  IF a # <<>> /\ Last(a) = ";" THEN Front(a) \o <<"bslash", ";">> ELSE a

escapeTrailingSemicolon(args) == [i \in 1..Len(args) |-> escapeArg(args[i])]

(* tmux's reading of an argument vector, external: a final ';' comes off   *)
(* its element and ends the command, unless what is then last is a         *)
(* backslash, which gives way to a literal ';'.                            *)
Separates(a) ==
  a # <<>> /\ Last(a) = ";" /\ (Len(a) > 1 => a[Len(a) - 1] # "bslash")

ReadElement(a) ==
  IF a = <<>> \/ Last(a) # ";" THEN a
  ELSE IF Separates(a) THEN Front(a)
  ELSE SubSeq(a, 1, Len(a) - 2) \o <<";">>

ReadVector(args) ==
  [whole |-> \A i \in 1..Len(args) : ~Separates(args[i]),
   args |-> [i \in 1..Len(args) |-> ReadElement(args[i])]]
=============================================================================
