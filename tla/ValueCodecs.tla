---------------------------- MODULE ValueCodecs -----------------------------
(***************************************************************************)
(* What a value goes through between a caller and tmux's storage and back: *)
(* the format doubling, vis(3) and the storage fault of tmux 3.4 on the    *)
(* way in, the printing of show-options and the octal escaping of pane     *)
(* output on the way out, and the decoders of this package.                *)
(*                                                                         *)
(* A value is a sequence of byte codes.  A decoder's loop is a function of *)
(* the place it has come to, since an escape makes it jump.                *)
(***************************************************************************)
EXTENDS Naturals, Sequences, SequencesExt

Space == 32
Dquote == 34
Hash == 35
Dollar == 36
Quote == 39
Zero == 48
Bslash == 92
Tilde == 126
Del == 127

(* The letters of vis(3)'s C style and the bytes they stand for.           *)
CStyle == [c \in {97, 98, 102, 110, 114, 116, 118} |->
             CASE c = 97 -> 7 [] c = 98 -> 8 [] c = 102 -> 12 [] c = 110 -> 10
               [] c = 114 -> 13 [] c = 116 -> 9 [] c = 118 -> 11]
LetterFor(b) == CHOOSE c \in DOMAIN CStyle : CStyle[c] = b
HasLetter(b) == \E c \in DOMAIN CStyle : CStyle[c] = b

OctalDigits(b) == <<Zero + (b \div 64), Zero + ((b \div 8) % 8), Zero + (b % 8)>>

Map(F(_), s) == FlattenSeq([i \in 1..Len(s) |-> F(s[i])])

-----------------------------------------------------------------------------
(* vis *)

(* A byte as it is stored, escaped or not.                                 *)
visEscape(b) ==
  IF b \in {Bslash, Dollar} THEN <<Bslash, b>>
  ELSE IF HasLetter(b) THEN <<Bslash, LetterFor(b)>>
  ELSE IF b >= Space /\ b # Del THEN <<b>>
  ELSE <<Bslash>> \o OctalDigits(b)

visEncode(s) == Map(visEscape, s)

(* Exactly three octal digits from i on that fit in a byte.                *)
IsOctal(v, i) ==
  /\ i + 2 <= Len(v)
  /\ \A j \in i..(i + 2) : v[j] \in Zero..(Zero + 7)
  /\ v[i] <= Zero + 3
octalByte(v, i) == (v[i] - Zero) * 64 + (v[i + 1] - Zero) * 8 + (v[i + 2] - Zero)

(* One pass, left to right; "\s" is a space, an unknown escape is kept.    *)
visDecode(v) ==
  LET from[i \in 1..(Len(v) + 4)] ==
        IF i > Len(v) THEN <<>>
        ELSE IF v[i] # Bslash \/ i = Len(v) THEN <<v[i]>> \o from[i + 1]
        ELSE IF v[i + 1] \in DOMAIN CStyle THEN <<CStyle[v[i + 1]]>> \o from[i + 2]
        ELSE IF v[i + 1] = 115 THEN <<Space>> \o from[i + 2]
        ELSE IF v[i + 1] \in {Bslash, Dquote, Quote, Dollar}
             THEN <<v[i + 1]>> \o from[i + 2]
        ELSE IF IsOctal(v, i + 1) THEN <<octalByte(v, i + 1)>> \o from[i + 4]
        ELSE <<Bslash, v[i + 1]>> \o from[i + 2]
  IN from[1]

-----------------------------------------------------------------------------
(* tmux 3.4 *)

(* Mutant: a '$' that ends the value is treated like any other.            *)
undoDollarEscapeAll(v) ==
  FlattenSeq([i \in 1..Len(v) |->
    IF v[i] = Bslash /\ i + 1 <= Len(v) /\ v[i + 1] = Dollar THEN <<>> ELSE <<v[i]>>])

(* A backslash goes if a '$' follows it and something follows that.        *)
undoDollarEscape(v) ==
  FlattenSeq([i \in 1..Len(v) |->
    IF v[i] = Bslash /\ i + 2 <= Len(v) /\ v[i + 1] = Dollar THEN <<>> ELSE <<v[i]>>])

decodeStored(faulty, v) == IF faulty THEN undoDollarEscape(v) ELSE v

(* Window.Name and Session.Name, from what a format printed.               *)
ListedName(faulty, stored) == decodeStored(faulty, visDecode(stored))

(* The name in a notification.                                             *)
NotifiedName(stored) == visDecode(stored)

-----------------------------------------------------------------------------
(* Format expansion *)

escapeFormat(s) == Map(LAMBDA b : IF b = Hash THEN <<b, b>> ELSE <<b>>, s)

-----------------------------------------------------------------------------
(* Session names *)

(* A ':' and a '.' separate the parts of a target.                         *)
targetSeparators == {58, 46}

checkSessionName(name) == ~\E i \in 1..Len(name) : name[i] \in targetSeparators

sessionNameAsStored(name) ==
  [i \in 1..Len(name) |-> IF name[i] \in targetSeparators THEN 95 ELSE name[i]]

-----------------------------------------------------------------------------
(* Option values *)

argsEscapeQuoted == {Hash, Quote, 59, Dollar, 123, 125, 37, Dquote}

unprefixOptionValue(v) ==
  IF /\ Len(v) >= 2 /\ v[1] = Bslash
     /\ v[2] = Tilde \/ (Len(v) = 2 /\ v[2] \in argsEscapeQuoted)
  THEN Tail(v) ELSE v

unquoteOptionValue(v) ==
  LET quoted == Len(v) >= 2 /\ v[1] \in {Quote, Dquote} /\ Last(v) = v[1]
      inner == IF quoted THEN SubSeq(v, 2, Len(v) - 1) ELSE v
  IN visDecode(unprefixOptionValue(inner))

-----------------------------------------------------------------------------
(* Pane output *)

Escape(s) ==
  Map(LAMBDA b : IF b < Space \/ b = Bslash THEN <<Bslash>> \o OctalDigits(b) ELSE <<b>>, s)

(* Mutant: two digits are enough for an escape.                            *)
unescapeTwo(v) ==
  LET from[i \in 1..(Len(v) + 4)] ==
        IF i > Len(v) THEN <<>>
        ELSE IF v[i] = Bslash /\ IsOctal(v, i + 1)
             THEN <<octalByte(v, i + 1)>> \o from[i + 3]
        ELSE <<v[i]>> \o from[i + 1]
  IN from[1]

(* A backslash that begins no octal triple is data.                        *)
unescape(v) ==
  LET from[i \in 1..(Len(v) + 4)] ==
        IF i > Len(v) THEN <<>>
        ELSE IF v[i] = Bslash /\ IsOctal(v, i + 1)
             THEN <<octalByte(v, i + 1)>> \o from[i + 4]
        ELSE <<v[i]>> \o from[i + 1]
  IN from[1]

-----------------------------------------------------------------------------
(* tmux, external, as the comments of the functions above report it.       *)

(* vis, as visEncode has it, but a byte that is no part of a valid UTF-8   *)
(* sequence is written in octal.                                           *)
TmuxVis(s) ==
  Map(LAMBDA b : IF b > Del THEN <<Bslash>> \o OctalDigits(b) ELSE visEscape(b), s)

(* 3.4 puts a backslash before a '$' that something follows.               *)
DollarFault(faulty, s) ==
  FlattenSeq([i \in 1..Len(s) |->
    IF faulty /\ s[i] = Dollar /\ i < Len(s) THEN <<Bslash, s[i]>> ELSE <<s[i]>>])

(* "##" is a '#'; a '#' before anything else begins a format, which is     *)
(* expanded to something else, here to nothing.                            *)
Expand(s) ==
  LET from[i \in 1..(Len(s) + 2)] ==
        IF i > Len(s) THEN <<>>
        ELSE IF s[i] # Hash THEN <<s[i]>> \o from[i + 1]
        ELSE IF i < Len(s) /\ s[i + 1] = Hash THEN <<Hash>> \o from[i + 2]
        ELSE from[i + 2]
  IN from[1]

(* The stored form of a name, by rename-window and its like, and by        *)
(* new-session -n, which alone does not run it through vis.                *)
StoredName(faulty, arg) == TmuxVis(Expand(DollarFault(faulty, arg)))
StoredRaw(faulty, arg) == Expand(DollarFault(faulty, arg))
StoredSession(faulty, arg) == TmuxVis(sessionNameAsStored(Expand(DollarFault(faulty, arg))))

(* The forms show-options may print a stored value in: quotes for no value *)
(* at all, a lone metacharacter after a backslash, anything else after the *)
(* vis pass, with a backslash before a leading tilde, and in quotes if it  *)
(* needs them.                                                             *)
Printed(v) ==
  IF v = <<>> THEN {<<Quote, Quote>>}
  ELSE IF Len(v) = 1 /\ v[1] \in argsEscapeQuoted THEN {<<Bslash, v[1]>>}
  ELSE LET tilde == IF v[1] = Tilde THEN <<Bslash>> ELSE <<>>
           body == tilde \o TmuxVis(v)
           inDouble == tilde \o Map(LAMBDA b : IF b = Dquote THEN <<Bslash, b>>
                                              ELSE visEscape(b), v)
           special == \E i \in 1..Len(v) : v[i] \in argsEscapeQuoted \union {Space}
       IN IF ~special THEN {body}
          ELSE {<<Dquote>> \o inDouble \o <<Dquote>>, <<Quote>> \o body \o <<Quote>>}
=============================================================================
