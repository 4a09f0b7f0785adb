---------------------------- MODULE ValuesProofs ----------------------------
(***************************************************************************)
(* Proofs, for lines, arguments and values of any length and any bytes, of *)
(* what MCValues has TLC try on short ones.                                *)
(*                                                                         *)
(* The loops over bytes are recursive functions.  That there is such a     *)
(* function, and what it computes, is shown by induction on the bytes it   *)
(* has seen: NatMin is that induction, the least number at which a         *)
(* property fails.                                                         *)
(***************************************************************************)
EXTENDS MCValues, SequenceTheorems, WellFoundedInduction, TLAPS

-----------------------------------------------------------------------------
(* Induction and recursion *)

(* A set of naturals that is not empty has a least element.                *)
LEMMA NatMin ==
  ASSUME NEW T, T \subseteq Nat, T # {}
  PROVE  \E n \in T : \A m \in T : n <= m
<1>. DEFINE R == OpToRel(<, Nat)
<1>1. IsWellFoundedOn(R, Nat) BY NatLessThanWellFounded
<1>. HIDE DEF R
<1>2. PICK n \in T : \A m \in T : <<m, n>> \notin R BY <1>1, WFMin
<1>3. ASSUME NEW m \in T PROVE n <= m
  <2>1. m < n => <<m, n>> \in R BY DEF R, OpToRel
  <2>2. ~(m < n) BY <1>2, <2>1
  <2>3. m \in Nat /\ n \in Nat OBVIOUS
  <2>. QED BY <2>2, <2>3
<1>. QED BY <1>3

(* A set that holds 0 and, with each number below N, the next one, holds   *)
(* all up to N.                                                            *)
LEMMA UpTo ==
  ASSUME NEW N0 \in Nat, NEW S, 0 \in S, \A n \in 1..N0 : n - 1 \in S => n \in S
  PROVE  0..N0 \subseteq S
<1>. DEFINE T == {n \in 0..N0 : n \notin S}
<1>1. T = {}
  <2>. SUFFICES ASSUME T # {} PROVE FALSE OBVIOUS
  <2>1. T \subseteq Nat OBVIOUS
  <2>2. PICK n \in T : \A m \in T : n <= m BY <2>1, NatMin
  <2>3. n \in 1..N0 /\ n - 1 \in 0..N0 /\ ~(n <= n - 1) BY <2>2
  <2>4. n - 1 \in S BY <2>2, <2>3
  <2>. QED BY <2>2, <2>3, <2>4
<1>. QED BY <1>1

(* A loop that begins at a and makes n-th place G[n][u] of the one before  *)
(* passes through some places, whatever the length of its input.           *)
LEMMA LoopExists ==
  ASSUME NEW S, NEW a \in S, NEW N0 \in Nat, NEW G \in [1..N0 -> [S -> S]]
  PROVE  \E u \in [0..N0 -> S] : u[0] = a /\ \A n \in 1..N0 : u[n] = G[n][u[n - 1]]
<1>. DEFINE Good(u, m) == u[0] = a /\ \A n \in 1..m : u[n] = G[n][u[n - 1]]
            T == {m \in 0..N0 : \E u \in [0..m -> S] : Good(u, m)}
<1>1. 0 \in T
  <2>. DEFINE v == [n \in 0..0 |-> a]
  <2>1. v \in [0..0 -> S] /\ Good(v, 0) OBVIOUS
  <2>2. 0 \in 0..N0 OBVIOUS
  <2>. HIDE DEF v, Good
  <2>. QED BY <2>1, <2>2
<1>2. ASSUME NEW m \in 1..N0, m - 1 \in T PROVE m \in T
  <2>1. PICK u \in [0..(m - 1) -> S] : Good(u, m - 1) BY <1>2
  <2>. DEFINE w == G[m][u[m - 1]]
              v == [n \in 0..m |-> IF n <= m - 1 THEN u[n] ELSE w]
  <2>2. w \in S
    <3>1. m - 1 \in 0..(m - 1) OBVIOUS
    <3>2. u[m - 1] \in S BY <3>1
    <3>. QED BY <3>2
  <2>. HIDE DEF w
  <2>3. v \in [0..m -> S]
    <3>1. \A n \in 0..m : n <= m - 1 => n \in 0..(m - 1) OBVIOUS
    <3>. QED BY <2>2, <3>1
  <2>4. v[0] = a BY <2>1
  <2>5. ASSUME NEW n \in 1..m PROVE v[n] = G[n][v[n - 1]]
    <3>1. n - 1 \in 0..m /\ n - 1 <= m - 1 /\ n \in 0..m OBVIOUS
    <3>2. v[n - 1] = u[n - 1] BY <3>1
    <3>3. CASE n <= m - 1
      <4>1. n \in 1..(m - 1) /\ v[n] = u[n] BY <3>1, <3>3
      <4>. QED BY <2>1, <3>2, <4>1
    <3>4. CASE n = m
      <4>1. v[n] = w BY <3>1, <3>4
      <4>. QED BY <3>2, <3>4, <4>1 DEF w
    <3>. QED BY <3>3, <3>4
  <2>. HIDE DEF v
  <2>6. Good(v, m) BY <2>4, <2>5
  <2>. QED BY <2>3, <2>6
<1>3. 0..N0 \subseteq T
  <2>. HIDE DEF T
  <2>. QED BY <1>1, <1>2, UpTo
<1>4. N0 \in T BY <1>3
<1>. QED BY <1>4

(* LoopExists, as one relation of the set, the beginning, the length and   *)
(* the steps.                                                              *)
Loops(S, a, N0, G) ==
  \E u \in [0..N0 -> S] : u[0] = a /\ \A n \in 1..N0 : u[n] = G[n][u[n - 1]]

(* LoopExists, in those terms.                                             *)
LEMMA LoopsAlways ==
  ASSUME NEW S, NEW a \in S, NEW N0 \in Nat, NEW G \in [1..N0 -> [S -> S]]
  PROVE  Loops(S, a, N0, G)
BY LoopExists DEF Loops

-----------------------------------------------------------------------------
(* One accepted line is one command                                        *)

ScanState == [quote : {"none", "'", "dquote"}, fresh : BOOLEAN, escaped : BOOLEAN,
              broken : BOOLEAN]
LexState == [mode : {"plain", "'", "dquote", "comment"}, escaped : BOOLEAN, open : BOOLEAN,
             token : Seq(Byte), tokens : Seq(Seq(Byte)), done : Seq(Seq(Seq(Byte))),
             nested : BOOLEAN, expands : BOOLEAN]

(* A step of commandBreak's scan is a state of it.                         *)
LEMMA ScanTyped ==
  ASSUME NEW st \in ScanState, NEW c \in Byte
  PROVE  scanStep(st, c) \in ScanState
<1>1. (c \in Blank) \in BOOLEAN BY DEF Blank
<1>. QED BY <1>1 DEF scanStep, Scan, ScanState

(* scans is that step, taken once a byte from the start.                   *)
LEMMA ScansAre ==
  ASSUME NEW line \in Seq(Byte)
  PROVE  /\ scans(line) \in [0..Len(line) -> ScanState] /\ scans(line)[0] = ScanStart
         /\ \A n \in 1..Len(line) : scans(line)[n] = scanStep(scans(line)[n - 1], line[n])
<1>. DEFINE L == Len(line)
            G == [n \in 1..L |-> [st \in ScanState |-> scanStep(st, line[n])]]
<1>1. L \in Nat OBVIOUS
<1>2. ScanStart \in ScanState BY DEF ScanStart, Scan, ScanState
<1>3. G \in [1..L -> [ScanState -> ScanState]] BY ScanTyped
<1>. HIDE DEF G, L
<1>4. PICK u \in [0..L -> ScanState] :
        u[0] = ScanStart /\ \A n \in 1..L : u[n] = G[n][u[n - 1]]
  BY SMTT(30), <1>1, <1>2, <1>3, LoopExists
<1>. USE DEF L
<1>5. ASSUME NEW n \in 1..L PROVE u[n] = scanStep(u[n - 1], line[n])
  <2>1. n - 1 \in 0..L OBVIOUS
  <2>2. u[n] = G[n][u[n - 1]] /\ u[n - 1] \in ScanState BY <1>4, <2>1
  <2>. QED BY <2>2 DEF G
<1>6. u = [i \in 0..L |-> IF i = 0 THEN ScanStart ELSE scanStep(u[i - 1], line[i])]
  <2>1. \A i \in 0..L : i # 0 => i \in 1..L OBVIOUS
  <2>. QED BY <1>4, <1>5, <2>1
<1>7. \E v : v = [i \in 0..L |-> IF i = 0 THEN ScanStart ELSE scanStep(v[i - 1], line[i])]
  BY <1>6
<1>8. scans(line) = [i \in 0..L |-> IF i = 0 THEN ScanStart
                                    ELSE scanStep(scans(line)[i - 1], line[i])]
  BY <1>7, Zenon DEF scans
<1>. DEFINE v == scans(line)
<1>. HIDE DEF v
<1>9. v = [i \in 0..L |-> IF i = 0 THEN ScanStart ELSE scanStep(v[i - 1], line[i])]
  BY <1>8 DEF v
<1>10. v[0] = ScanStart /\ \A n \in 1..L : v[n] = scanStep(v[n - 1], line[n]) BY <1>9
<1>11. \A n \in 0..L : v[n] \in ScanState
  <2>. DEFINE T == {n \in 0..L : v[n] \in ScanState}
  <2>1. 0 \in T BY <1>2, <1>10
  <2>2. ASSUME NEW n \in 1..L, n - 1 \in T PROVE n \in T
    <3>1. line[n] \in Byte OBVIOUS
    <3>. QED BY <1>10, <2>2, <3>1, ScanTyped
  <2>. HIDE DEF T
  <2>3. 0..L \subseteq T BY <1>1, <2>1, <2>2, UpTo
  <2>. QED BY <2>3 DEF T
<1>12. v \in [0..L -> ScanState] BY <1>9, <1>11
<1>. QED BY <1>10, <1>12 DEF v

(* A step of tmux's lexer is a state of it.                                *)
LEMMA LexTyped ==
  ASSUME NEW st \in LexState, NEW c \in Byte
  PROVE  LexStep(st, c) \in LexState
<1>1. \A b \in Byte : Takes(st, b) \in LexState
  <2>1. \A b \in Byte : Append(st.token, b) \in Seq(Byte) BY DEF LexState
  <2>. QED BY <2>1 DEF Takes, LexState
<1>2. \A mode \in {"plain", "'", "dquote", "comment"} :
        Enters(st, mode) \in LexState /\ [st EXCEPT !.mode = mode] \in LexState
  BY DEF Enters, LexState
<1>3. EndToken(st) \in LexState
  <2>1. (IF st.open THEN Append(st.tokens, st.token) ELSE st.tokens) \in Seq(Seq(Byte))
    BY DEF LexState
  <2>2. <<>> \in Seq(Byte) OBVIOUS
  <2>. QED BY <2>1, <2>2 DEF EndToken, LexState
<1>4. EndCommand(st) \in LexState
  <2>. DEFINE s == EndToken(st)
              done == IF s.tokens = <<>> THEN s.done ELSE Append(s.done, s.tokens)
  <2>1. <<>> \in Seq(Seq(Byte)) OBVIOUS
  <2>2. s \in LexState BY <1>3
  <2>. HIDE DEF s
  <2>3. done \in Seq(Seq(Seq(Byte))) BY <2>2 DEF LexState
  <2>4. EndCommand(st) = [s EXCEPT !.tokens = <<>>, !.done = done] BY DEF EndCommand, s
  <2>. HIDE DEF done
  <2>. QED BY <2>1, <2>2, <2>3, <2>4 DEF LexState
<1>5. [st EXCEPT !.open = TRUE, !.escaped = TRUE] \in LexState
      /\ [st EXCEPT !.escaped = TRUE] \in LexState
  BY DEF LexState
<1>6. \A b \in Byte : [Takes(st, b) EXCEPT !.nested = TRUE] \in LexState
                      /\ [Takes(st, b) EXCEPT !.expands = TRUE] \in LexState
  BY <1>1 DEF LexState
<1>7. LexPlain(st, c) \in LexState
  <2>1. c = "'" \/ c = "dquote" => Enters(st, c) \in LexState BY <1>2
  <2>. QED BY <1>1, <1>2, <1>3, <1>4, <1>5, <1>6, <2>1 DEF LexPlain
<1>8. LexQuoted(st, c) \in LexState BY <1>1, <1>2, <1>5, <1>6 DEF LexQuoted
<1>9. (IF c = "n" THEN "newline" ELSE c) \in Byte BY DEF Byte
<1>. QED BY <1>1, <1>7, <1>8, <1>9 DEF LexStep

(* lexes is that step, taken once a byte from the start.                   *)
LEMMA LexesAre ==
  ASSUME NEW line \in Seq(Byte)
  PROVE  /\ lexes(line) \in [0..Len(line) -> LexState] /\ lexes(line)[0] = LexStart
         /\ \A n \in 1..Len(line) : lexes(line)[n] = LexStep(lexes(line)[n - 1], line[n])
<1>. DEFINE L == Len(line)
            G == [n \in 1..L |-> [st \in LexState |-> LexStep(st, line[n])]]
<1>1. L \in Nat OBVIOUS
<1>2. LexStart \in LexState BY DEF LexStart, LexState
<1>3. G \in [1..L -> [LexState -> LexState]] BY LexTyped
<1>. HIDE DEF G, L
<1>4. PICK u \in [0..L -> LexState] :
        u[0] = LexStart /\ \A n \in 1..L : u[n] = G[n][u[n - 1]]
  BY SMTT(30), <1>1, <1>2, <1>3, LoopExists
<1>. USE DEF L
<1>5. ASSUME NEW n \in 1..L PROVE u[n] = LexStep(u[n - 1], line[n])
  <2>1. n - 1 \in 0..L OBVIOUS
  <2>2. u[n] = G[n][u[n - 1]] /\ u[n - 1] \in LexState BY <1>4, <2>1
  <2>. QED BY <2>2 DEF G
<1>6. u = [i \in 0..L |-> IF i = 0 THEN LexStart ELSE LexStep(u[i - 1], line[i])]
  <2>1. \A i \in 0..L : i # 0 => i \in 1..L OBVIOUS
  <2>. QED BY <1>4, <1>5, <2>1
<1>7. \E v : v = [i \in 0..L |-> IF i = 0 THEN LexStart ELSE LexStep(v[i - 1], line[i])]
  BY <1>6
<1>8. lexes(line) = [i \in 0..L |-> IF i = 0 THEN LexStart
                                    ELSE LexStep(lexes(line)[i - 1], line[i])]
  BY <1>7, Zenon DEF lexes
<1>. DEFINE v == lexes(line)
<1>. HIDE DEF v
<1>9. v = [i \in 0..L |-> IF i = 0 THEN LexStart ELSE LexStep(v[i - 1], line[i])]
  BY <1>8 DEF v
<1>10. v[0] = LexStart /\ \A n \in 1..L : v[n] = LexStep(v[n - 1], line[n]) BY <1>9
<1>11. \A n \in 0..L : v[n] \in LexState
  <2>. DEFINE T == {n \in 0..L : v[n] \in LexState}
  <2>1. 0 \in T BY <1>2, <1>10
  <2>2. ASSUME NEW n \in 1..L, n - 1 \in T PROVE n \in T
    <3>1. line[n] \in Byte OBVIOUS
    <3>. QED BY <1>10, <2>2, <3>1, LexTyped
  <2>. HIDE DEF T
  <2>3. 0..L \subseteq T BY <1>1, <2>1, <2>2, UpTo
  <2>. QED BY <2>3 DEF T
<1>12. v \in [0..L -> LexState] BY <1>9, <1>11
<1>. QED BY <1>10, <1>12 DEF v

(* What commandBreak's loop knows of tmux's lexer, when it has not met a   *)
(* break and the line is no comment: the quote and the escape it is in,    *)
(* and whether a token is open; and it has let nothing end a command.      *)
Follows(sc, lx) ==
  /\ lx.done = <<>> /\ ~lx.nested
  /\ \/ lx.mode = "comment" /\ ~lx.open /\ ~lx.escaped
     \/ /\ lx.mode = IF sc.quote = "none" THEN "plain" ELSE sc.quote
        /\ lx.escaped = sc.escaped /\ lx.open = ~sc.fresh
        /\ sc.quote # "none" => lx.open

(* A command has begun.                                                    *)
Begun(lx) == lx.open \/ lx.tokens # <<>>

(* Neither a command ends nor a token.                                     *)
Same(lx, lx2) == lx2.done = lx.done /\ lx2.nested = lx.nested /\ lx2.tokens = lx.tokens

(* A byte keeps the two scans in step, as long as commandBreak has not     *)
(* stopped at one that would end the command.                              *)
LEMMA StepFollows ==
  ASSUME NEW sc \in ScanState, NEW lx \in LexState, NEW c \in Byte, Follows(sc, lx),
         lx.mode = "comment" => Begun(lx), ~scanStep(sc, c).broken, c = "#" => Begun(lx)
  PROVE  LET lx2 == LexStep(lx, c) IN
         /\ Follows(scanStep(sc, c), lx2)
         /\ Begun(lx) \/ c \notin Blank => Begun(lx2)
         /\ lx2.mode = "comment" => Begun(lx2)
<1>. DEFINE lx2 == LexStep(lx, c)
            sc2 == scanStep(sc, c)
            Step == /\ Follows(sc2, lx2)
                    /\ Begun(lx) \/ c \notin Blank => Begun(lx2)
                    /\ lx2.mode = "comment" => Begun(lx2)
<1>. SUFFICES Step OBVIOUS
<1>0. ~sc.broken /\ lx.done = <<>> /\ ~lx.nested BY DEF scanStep, Follows
<1>1. /\ sc.fresh \in BOOLEAN /\ sc.escaped \in BOOLEAN /\ sc.quote \in {"none", "'", "dquote"}
      /\ lx.open \in BOOLEAN /\ lx.escaped \in BOOLEAN
  BY DEF ScanState, LexState
<1>2. lx.mode # "comment" =>
        /\ lx.mode = IF sc.quote = "none" THEN "plain" ELSE sc.quote
        /\ lx.escaped = sc.escaped /\ lx.open = ~sc.fresh
        /\ sc.quote # "none" => lx.open
  BY DEF Follows
(* A token is open after the step, in the quote the scan is in.            *)
<1>3. ASSUME Same(lx, lx2), lx2.open, lx2.mode = IF sc2.quote = "none" THEN "plain" ELSE sc2.quote,
             ~sc2.fresh, lx2.escaped = sc2.escaped, sc2.quote \in {"none", "'", "dquote"}
      PROVE  Step
  <2>. HIDE DEF lx2, sc2
  <2>1. lx2.done = <<>> /\ ~lx2.nested BY <1>0, <1>3 DEF Same
  <2>2. lx2.mode # "comment" BY <1>3
  <2>3. lx2.open \in BOOLEAN /\ sc2.fresh \in BOOLEAN
    BY LexTyped, ScanTyped DEF lx2, sc2, LexState, ScanState
  <2>4. lx2.open = ~sc2.fresh BY <1>3, <2>3
  <2>5. Follows(sc2, lx2) BY <1>3, <2>1, <2>4 DEF Follows
  <2>. QED BY <1>3, <2>2, <2>5 DEF Begun
<1>4. CASE lx.mode = "comment"
  <2>1. lx2 = lx BY <1>4 DEF LexStep
  <2>2. lx.open = FALSE /\ lx.escaped = FALSE BY <1>1, <1>4 DEF Follows, ScanState
  <2>. HIDE DEF lx2, sc2
  <2>3. Follows(sc2, lx2) BY <1>0, <1>4, <2>1, <2>2 DEF Follows
  <2>4. Begun(lx2) BY <1>4, <2>1
  <2>. QED BY <2>3, <2>4
<1>5. CASE lx.mode # "comment" /\ sc.escaped
  <2>1. lx2 = Takes(lx, IF c = "n" THEN "newline" ELSE c) BY <1>2, <1>5 DEF LexStep
  <2>2. sc2 = Scan(sc.quote, FALSE, FALSE, FALSE) BY <1>0, <1>5 DEF scanStep
  <2>3. Same(lx, lx2) /\ lx2.open = TRUE /\ lx2.escaped = FALSE /\ lx2.mode = lx.mode
    BY <2>1 DEF Same, Takes, Enters, EndToken, LexState
  <2>4. sc2.quote = sc.quote /\ sc2.fresh = FALSE /\ sc2.escaped = FALSE BY <2>2 DEF Scan
  <2>5. lx2.escaped \in BOOLEAN /\ sc2.escaped \in BOOLEAN
    BY LexTyped, ScanTyped DEF LexState, ScanState
  <2>. HIDE DEF lx2, sc2, Step
  <2>. QED BY <1>1, <1>2, <1>3, <1>5, <2>3, <2>4, <2>5
<1>6. CASE lx.mode # "comment" /\ ~sc.escaped /\ sc.quote # "none"
  <2>1. lx.mode = sc.quote /\ lx.open /\ ~lx.escaped /\ lx.mode # "plain"
    BY <1>1, <1>2, <1>6
  <2>2. lx2 = LexQuoted(lx, c) BY <2>1, <1>6 DEF LexStep
  <2>3. lx2.escaped \in BOOLEAN /\ sc2.escaped \in BOOLEAN
    BY LexTyped, ScanTyped DEF LexState, ScanState
  <2>4. CASE c = sc.quote
    <3>1. lx2 = [lx EXCEPT !.mode = "plain"] BY <2>1, <2>2, <2>4 DEF LexQuoted
    <3>2. c # "bslash" \/ sc.quote = "'" BY <1>1, <2>4
    <3>3. sc2 = Scan("none", FALSE, FALSE, FALSE) BY <1>0, <1>1, <1>6, <2>4, <3>2 DEF scanStep
    <3>4. Same(lx, lx2) /\ lx2.open = lx.open /\ lx2.escaped = lx.escaped /\ lx2.mode = "plain"
      BY <3>1 DEF Same, Takes, Enters, EndToken, LexState
    <3>5. sc2.quote = "none" /\ sc2.fresh = FALSE /\ sc2.escaped = FALSE BY <3>3 DEF Scan
    <3>. HIDE DEF lx2, sc2, Step
    <3>. QED BY <1>3, <2>1, <2>3, <3>4, <3>5
  <2>5. CASE c # sc.quote /\ c = "bslash" /\ sc.quote = "dquote"
    <3>1. lx2 = [lx EXCEPT !.escaped = TRUE] BY <2>1, <2>2, <2>5 DEF LexQuoted
    <3>2. sc2 = Scan("dquote", FALSE, TRUE, FALSE) BY <1>0, <1>6, <2>5 DEF scanStep
    <3>3. Same(lx, lx2) /\ lx2.open = lx.open /\ lx2.escaped = TRUE /\ lx2.mode = lx.mode
      BY <3>1 DEF Same, Takes, Enters, EndToken, LexState
    <3>4. sc2.quote = "dquote" /\ sc2.fresh = FALSE /\ sc2.escaped = TRUE BY <3>2 DEF Scan
    <3>. HIDE DEF lx2, sc2, Step
    <3>. QED BY <1>3, <2>1, <2>3, <2>5, <3>3, <3>4
  <2>6. CASE c # sc.quote /\ ~(c = "bslash" /\ sc.quote = "dquote")
    <3>1. lx2 = Takes(lx, c) \/ lx2 = [Takes(lx, c) EXCEPT !.expands = TRUE]
      BY <2>1, <2>2, <2>6 DEF LexQuoted
    <3>2. ~(c = "bslash" /\ sc.quote # "'") BY <1>1, <1>6, <2>6
    <3>3. sc2 = Scan(sc.quote, FALSE, FALSE, FALSE)
      BY <1>0, <1>6, <2>6, <3>2 DEF scanStep
    <3>4. Same(lx, lx2) /\ lx2.open = TRUE /\ lx2.escaped = FALSE /\ lx2.mode = lx.mode
      BY <3>1 DEF Same, Takes, Enters, EndToken, LexState
    <3>5. sc2.quote = sc.quote /\ sc2.fresh = FALSE /\ sc2.escaped = FALSE BY <3>3 DEF Scan
    <3>. HIDE DEF lx2, sc2, Step
    <3>. QED BY <1>1, <1>3, <1>6, <2>1, <2>3, <3>4, <3>5
  <2>. QED BY <2>4, <2>5, <2>6
<1>7. CASE lx.mode # "comment" /\ ~sc.escaped /\ sc.quote = "none"
  <2>1. lx.mode = "plain" /\ ~lx.escaped /\ lx.open = ~sc.fresh BY <1>2, <1>7
  <2>2. lx2 = LexPlain(lx, c) BY <2>1 DEF LexStep
  <2>3. c # ";" /\ (c = "{" => lx.open)
    <3>1. ~(c = ";" \/ (c = "{" /\ sc.fresh)) BY <1>0, <1>7 DEF scanStep, Scan
    <3>. QED BY <1>1, <2>1, <3>1
  <2>4. lx2.escaped \in BOOLEAN /\ sc2.escaped \in BOOLEAN
    BY LexTyped, ScanTyped DEF LexState, ScanState
  <2>5. CASE c \in Blank
    <3>1. lx2 = EndToken(lx) BY <2>2, <2>5 DEF LexPlain
    <3>2. sc2 = Scan("none", TRUE, FALSE, FALSE)
      BY <1>0, <1>7, <2>3, <2>5 DEF scanStep, Blank
    <3>3. /\ lx2.done = lx.done /\ lx2.nested = lx.nested /\ lx2.open = FALSE
          /\ lx2.escaped = lx.escaped /\ lx2.mode = lx.mode
          /\ lx2.tokens = IF lx.open THEN Append(lx.tokens, lx.token) ELSE lx.tokens
      BY <3>1 DEF Same, Takes, Enters, EndToken, LexState
    <3>4. sc2.quote = "none" /\ sc2.fresh = TRUE /\ sc2.escaped = FALSE BY <3>2 DEF Scan
    <3>5. Append(lx.tokens, lx.token) # <<>>
      <4>1. lx.tokens \in Seq(Seq(Byte)) BY DEF LexState
      <4>. QED BY <4>1
    <3>6. lx2.open \in BOOLEAN /\ sc2.fresh \in BOOLEAN
      BY LexTyped, ScanTyped DEF LexState, ScanState
    <3>. HIDE DEF lx2, sc2
    <3>7. Begun(lx) => Begun(lx2) BY <3>3, <3>5 DEF Begun
    <3>8. Follows(sc2, lx2) BY <1>0, <2>1, <2>4, <3>3, <3>4, <3>6 DEF Follows
    <3>. QED BY <2>1, <2>5, <3>3, <3>7, <3>8
  <2>6. CASE c \in {"'", "dquote"}
    <3>1. lx2 = Enters(lx, c) BY <2>2, <2>6 DEF LexPlain, Blank
    <3>2. sc2 = Scan(c, FALSE, FALSE, FALSE) BY <1>0, <1>7, <2>6 DEF scanStep
    <3>3. Same(lx, lx2) /\ lx2.open = TRUE /\ lx2.escaped = lx.escaped /\ lx2.mode = c
      BY <3>1 DEF Same, Takes, Enters, EndToken, LexState
    <3>4. sc2.quote = c /\ sc2.fresh = FALSE /\ sc2.escaped = FALSE BY <3>2 DEF Scan
    <3>. HIDE DEF lx2, sc2, Step
    <3>. QED BY <1>3, <2>1, <2>4, <2>6, <3>3, <3>4
  <2>7. CASE c = "bslash"
    <3>1. lx2 = [lx EXCEPT !.open = TRUE, !.escaped = TRUE] BY <2>2, <2>7 DEF LexPlain, Blank
    <3>2. sc2 = Scan("none", FALSE, TRUE, FALSE) BY <1>0, <1>7, <2>7 DEF scanStep
    <3>3. Same(lx, lx2) /\ lx2.open = TRUE /\ lx2.escaped = TRUE /\ lx2.mode = lx.mode
      BY <3>1 DEF Same, Takes, Enters, EndToken, LexState
    <3>4. sc2.quote = "none" /\ sc2.fresh = FALSE /\ sc2.escaped = TRUE BY <3>2 DEF Scan
    <3>. HIDE DEF lx2, sc2, Step
    <3>. QED BY <1>3, <2>1, <2>4, <3>3, <3>4
  <2>8. CASE c = "#" /\ ~lx.open
    <3>1. lx2 = [lx EXCEPT !.mode = "comment"] BY <2>2, <2>8 DEF LexPlain, Blank
    <3>2. Same(lx, lx2) /\ lx2.open = lx.open /\ lx2.escaped = lx.escaped /\ lx2.mode = "comment"
      BY <3>1 DEF Same, Takes, Enters, EndToken, LexState
    <3>. HIDE DEF lx2, sc2
    <3>3. Begun(lx) BY <2>8
    <3>4. Begun(lx2) BY <3>2, <3>3 DEF Begun, Same
    <3>5. Follows(sc2, lx2) BY <1>0, <2>1, <2>8, <3>2 DEF Follows, Same
    <3>. QED BY <3>4, <3>5
  <2>9. CASE c \notin Blank /\ c \notin {"'", "dquote", "bslash"} /\ ~(c = "#" /\ ~lx.open)
    <3>1. lx2 = Takes(lx, c) \/ lx2 = [Takes(lx, c) EXCEPT !.expands = TRUE]
      BY <2>2, <2>3, <2>9 DEF LexPlain
    <3>2. ~(c = ";" \/ (c = "{" /\ sc.fresh)) BY <1>1, <2>1, <2>3
    <3>3. sc2 = Scan("none", FALSE, FALSE, FALSE)
      <4>1. (c \in Blank) = FALSE BY <2>9
      <4>. QED BY <1>0, <1>7, <2>9, <3>2, <4>1 DEF scanStep
    <3>4. Same(lx, lx2) /\ lx2.open = TRUE /\ lx2.escaped = FALSE /\ lx2.mode = lx.mode
      BY <3>1 DEF Same, Takes, Enters, EndToken, LexState
    <3>5. sc2.quote = "none" /\ sc2.fresh = FALSE /\ sc2.escaped = FALSE BY <3>3 DEF Scan
    <3>. HIDE DEF lx2, sc2, Step
    <3>. QED BY <1>3, <2>1, <2>4, <3>4, <3>5
  <2>. QED BY <2>5, <2>6, <2>7, <2>8, <2>9
<1>. QED BY <1>4, <1>5, <1>6, <1>7

(* No break was met on the way if none was met at the end.                 *)
LEMMA NeverBroken ==
  ASSUME NEW line \in Seq(Byte), ~commandBreak(line)
  PROVE  \A n \in 0..Len(line) : ~scans(line)[n].broken
<1>. DEFINE L == Len(line)
            sc == scans(line)
            T == {k \in 0..L : ~sc[L - k].broken}
<1>1. L \in Nat OBVIOUS
<1>2. \A n \in 1..L : sc[n] = scanStep(sc[n - 1], line[n]) BY ScansAre
<1>3. ~sc[L].broken BY DEF commandBreak
<1>. HIDE DEF sc, L
<1>4. 0 \in T BY <1>1, <1>3
<1>5. ASSUME NEW k \in 1..L, k - 1 \in T PROVE k \in T
  <2>1. L - k + 1 \in 1..L /\ (L - k + 1) - 1 = L - k /\ L - (k - 1) = L - k + 1 BY <1>1
  <2>2. sc[L - k + 1] = scanStep(sc[L - k], line[L - k + 1]) BY <1>2, <2>1
  <2>3. ~sc[L - k + 1].broken BY <1>5, <2>1
  <2>4. ~sc[L - k].broken BY <2>2, <2>3 DEF scanStep
  <2>. QED BY <1>1, <2>4
<1>. HIDE DEF T
<1>6. 0..L \subseteq T BY <1>1, <1>4, <1>5, UpTo
<1>7. ASSUME NEW n \in 0..L PROVE ~sc[n].broken
  <2>1. L - n \in T /\ L - (L - n) = n BY <1>1, <1>6
  <2>. QED BY <2>1 DEF T
<1>. QED BY <1>7 DEF sc, L

(* A sequence with one more is not empty.                                  *)
LEMMA NotEmptied ==
  ASSUME NEW S, NEW s \in Seq(S), NEW x \in S
  PROVE  Append(s, x) # <<>>
<1>1. Len(Append(s, x)) = Len(s) + 1 /\ Len(s) \in Nat BY AppendProperties
<1>2. Len(<<>>) = 0 OBVIOUS
<1>. QED BY <1>1, <1>2

(* Do: the replies are bound by order, so that a line that its checks let  *)
(* through has to be exactly one command to tmux.  It is, however long.    *)
LEMMA AcceptedIsOne ==
  ASSUME NEW line \in Seq(Byte), Accepts(line)
  PROVE  OneCommand(line)
<1>. DEFINE L == Len(line)
            sc == scans(line)
            lx == lexes(line)
            Good(n) == /\ Follows(sc[n], lx[n])
                       /\ lx[n].mode = "comment" => Begun(lx[n])
                       /\ (\E j \in 1..n : line[j] \notin Blank) => Begun(lx[n])
            T == {n \in 0..L : Good(n)}
<1>1. L \in Nat OBVIOUS
<1>2. /\ sc \in [0..L -> ScanState] /\ sc[0] = ScanStart
      /\ \A n \in 1..L : sc[n] = scanStep(sc[n - 1], line[n])
  BY ScansAre
<1>3. /\ lx \in [0..L -> LexState] /\ lx[0] = LexStart
      /\ \A n \in 1..L : lx[n] = LexStep(lx[n - 1], line[n])
  BY LexesAre
<1>4. \A n \in 0..L : ~sc[n].broken BY NeverBroken DEF Accepts
<1>5. \A i \in 1..L : line[i] = "#" => \E j \in 1..(i - 1) : line[j] \notin Blank
  BY DEF Accepts, commentStart
<1>6. \E i \in 1..L : line[i] \notin Blank BY DEF Accepts
<1>7. Lex(line) = EndCommand(lx[L]) BY DEF Lex
<1>. HIDE DEF sc, lx, L
<1>8. 0 \in T
  <2>1. Follows(ScanStart, LexStart) BY DEF Follows, ScanStart, LexStart, Scan
  <2>2. LexStart.mode # "comment" BY DEF LexStart
  <2>3. ~\E j \in 1..0 : line[j] \notin Blank OBVIOUS
  <2>. QED BY <1>1, <1>2, <1>3, <2>1, <2>2, <2>3
<1>9. ASSUME NEW n \in 1..L, n - 1 \in T PROVE n \in T
  <2>1. n - 1 \in 0..L /\ n \in 0..L /\ line[n] \in Byte BY <1>1 DEF L
  <2>2. Good(n - 1) BY <1>9
  <2>3. line[n] = "#" => Begun(lx[n - 1]) BY <1>5, <2>2
  <2>4. sc[n - 1] \in ScanState /\ lx[n - 1] \in LexState BY <1>2, <1>3, <2>1
  <2>5. sc[n] = scanStep(sc[n - 1], line[n]) /\ lx[n] = LexStep(lx[n - 1], line[n])
    BY <1>2, <1>3
  <2>6. ~scanStep(sc[n - 1], line[n]).broken BY <1>4, <2>1, <2>5
  <2>7. /\ Follows(sc[n], lx[n])
        /\ Begun(lx[n - 1]) \/ line[n] \notin Blank => Begun(lx[n])
        /\ lx[n].mode = "comment" => Begun(lx[n])
    BY <2>1, <2>2, <2>3, <2>4, <2>5, <2>6, StepFollows
  <2>8. ASSUME NEW j \in 1..n, line[j] \notin Blank PROVE Begun(lx[n])
    <3>1. CASE j = n BY <2>7, <2>8, <3>1
    <3>2. CASE j # n
      <4>1. j \in 1..(n - 1) BY <3>2
      <4>. QED BY <2>2, <2>7, <2>8, <4>1
    <3>. QED BY <3>1, <3>2
  <2>. QED BY <2>1, <2>7, <2>8
<1>10. Good(L)
  <2>. HIDE DEF T
  <2>1. 0..L \subseteq T BY <1>1, <1>8, <1>9, UpTo
  <2>. QED BY <1>1, <2>1 DEF T
<1>11. Begun(lx[L]) /\ lx[L].done = <<>> /\ lx[L].nested = FALSE /\ lx[L] \in LexState
  <2>1. L \in 0..L BY <1>1
  <2>2. lx[L] \in LexState BY <1>3, <2>1
  <2>3. lx[L].nested \in BOOLEAN BY <2>2 DEF LexState
  <2>. QED BY <1>6, <1>10, <2>2, <2>3 DEF Follows
<1>12. /\ EndToken(lx[L]).tokens # <<>> /\ EndToken(lx[L]).done = <<>>
       /\ EndToken(lx[L]).nested = FALSE
  <2>1. Append(lx[L].tokens, lx[L].token) # <<>>
    <3>1. lx[L].tokens \in Seq(Seq(Byte)) /\ lx[L].token \in Seq(Byte) BY <1>11 DEF LexState
    <3>. QED BY <3>1, NotEmptied
  <2>. QED BY <1>11, <2>1 DEF Begun, EndToken, LexState
<1>13. EndToken(lx[L]) \in LexState
  <2>1. (IF lx[L].open THEN Append(lx[L].tokens, lx[L].token) ELSE lx[L].tokens) \in Seq(Seq(Byte))
    BY <1>11 DEF LexState
  <2>2. <<>> \in Seq(Byte) OBVIOUS
  <2>. QED BY <1>11, <2>1, <2>2 DEF EndToken, LexState
<1>14. EndCommand(lx[L]).done = Append(<<>>, EndToken(lx[L]).tokens)
       /\ EndCommand(lx[L]).nested = FALSE
  BY <1>12, <1>13 DEF EndCommand, LexState
<1>. QED BY <1>7, <1>14 DEF OneCommand

-----------------------------------------------------------------------------
(* Argument vectors                                                        *)

(* What a backslash before the last byte does to a vector's element, and   *)
(* what is left of it when the last two bytes give way to the last.        *)
LEMMA BackslashBeforeLast ==
  ASSUME NEW S, NEW a \in Seq(S), a # <<>>, NEW b \in S
  PROVE  LET e == Front(a) \o <<b, Last(a)>> IN
         /\ e # <<>> /\ Len(e) > 1 /\ e[Len(e)] = a[Len(a)] /\ e[Len(e) - 1] = b
         /\ SubSeq(e, 1, Len(e) - 2) \o <<Last(a)>> = a
<1>. DEFINE n == Len(a)
            c == a[n]
            f == SubSeq(a, 1, n - 1)
            x == <<b, c>>
            y == <<c>>
            e == f \o x
            r == SubSeq(e, 1, Len(e) - 2)
            Goal == /\ e # <<>> /\ Len(e) > 1 /\ e[Len(e)] = c /\ e[Len(e) - 1] = b
                    /\ r \o y = a
<1>1. n \in Nat \ {0} /\ c \in S BY EmptySeq
<1>2. Front(a) = f /\ Last(a) = c BY DEF Front, Last
<1>. SUFFICES Goal BY <1>2
<1>3. x \in Seq(S) /\ Len(x) = 2 /\ x[1] = b /\ x[2] = c BY <1>1
<1>4. y \in Seq(S) /\ Len(y) = 1 /\ y[1] = c BY <1>1
<1>5. \A i \in 1..n : a[i] \in S OBVIOUS
<1>. HIDE DEF n, x, y, c
<1>6. f \in Seq(S) /\ Len(f) = n - 1 /\ \A i \in 1..(n - 1) : f[i] = a[i]
  <2>1. n - 1 \in Int /\ n - 1 - 1 + 1 = n - 1 /\ \A i \in 1..(n - 1) : a[i] \in S
    BY <1>1, <1>5
  <2>2. /\ f \in Seq(S) /\ Len(f) = IF 1 <= n - 1 THEN n - 1 - 1 + 1 ELSE 0
        /\ \A i \in 1..(n - 1 - 1 + 1) : f[i] = a[1 + i - 1]
    BY <2>1, SubSeqProperties
  <2>. QED BY <1>1, <2>1, <2>2
<1>. HIDE DEF f
<1>7. /\ e \in Seq(S) /\ Len(e) = n + 1 /\ e[n + 1] = c /\ e[n] = b
      /\ \A i \in 1..(n - 1) : e[i] = a[i]
  <2>1. /\ e \in Seq(S) /\ Len(e) = Len(f) + Len(x)
        /\ \A i \in 1..(Len(f) + Len(x)) : e[i] = IF i <= Len(f) THEN f[i] ELSE x[i - Len(f)]
    BY <1>3, <1>6, ConcatProperties
  <2>. QED BY <1>1, <1>3, <1>6, <2>1
<1>. HIDE DEF e
<1>8. Len(e) # 0 /\ e # <<>> BY <1>1, <1>7, EmptySeq
<1>9. r \in Seq(S) /\ Len(r) = n - 1 /\ \A i \in 1..(n - 1) : r[i] = a[i]
  <2>. DEFINE q == SubSeq(e, 1, n - 1)
  <2>1. r = q BY <1>1, <1>7
  <2>2. \A i \in 1..(n - 1) : e[i] \in S BY <1>1, <1>5, <1>7
  <2>3. n - 1 \in Int /\ n - 1 - 1 + 1 = n - 1 BY <1>1
  <2>4. /\ q \in Seq(S) /\ Len(q) = IF 1 <= n - 1 THEN n - 1 - 1 + 1 ELSE 0
        /\ \A i \in 1..(n - 1 - 1 + 1) : q[i] = e[1 + i - 1]
    BY <2>2, <2>3, SubSeqProperties
  <2>. HIDE DEF r, q
  <2>. QED BY <1>1, <1>7, <2>1, <2>3, <2>4
<1>. HIDE DEF r
<1>10. r \o y = a
  <2>1. /\ r \o y \in Seq(S) /\ Len(r \o y) = Len(r) + Len(y)
        /\ \A i \in 1..(Len(r) + Len(y)) :
             (r \o y)[i] = IF i <= Len(r) THEN r[i] ELSE y[i - Len(r)]
    BY <1>4, <1>9, ConcatProperties
  <2>2. Len(r \o y) = Len(a) /\ \A i \in 1..Len(a) : (r \o y)[i] = a[i]
    BY <1>1, <1>4, <1>9, <2>1 DEF n, c
  <2>. QED BY <2>1, <2>2, SeqEqual
<1>11. Len(e) > 1 /\ e[Len(e)] = c /\ e[Len(e) - 1] = b BY <1>1, <1>7
<1>. QED BY <1>8, <1>10, <1>11

(* escapeTrailingSemicolon: one backslash is exact for every string, runs  *)
(* of backslashes included.                                                *)
LEMMA ElementArrives ==
  ASSUME NEW a \in Seq(Byte)
  PROVE  ~Separates(escapeArg(a)) /\ ReadElement(escapeArg(a)) = a
<1>1. CASE a = <<>> \/ Last(a) # ";" BY <1>1 DEF escapeArg, Separates, ReadElement
<1>2. CASE a # <<>> /\ Last(a) = ";"
  <2>. DEFINE e == Front(a) \o <<"bslash", ";">>
  <2>1. escapeArg(a) = e BY <1>2 DEF escapeArg
  <2>2. "bslash" \in Byte BY DEF Byte
  <2>3. Last(a) = ";" /\ a[Len(a)] = ";" BY <1>2 DEF Last
  <2>4. /\ e # <<>> /\ Len(e) > 1 /\ e[Len(e)] = ";" /\ e[Len(e) - 1] = "bslash"
        /\ SubSeq(e, 1, Len(e) - 2) \o <<";">> = a
    <3>. DEFINE w == Front(a) \o <<"bslash", Last(a)>>
    <3>1. /\ w # <<>> /\ Len(w) > 1 /\ w[Len(w)] = a[Len(a)] /\ w[Len(w) - 1] = "bslash"
          /\ SubSeq(w, 1, Len(w) - 2) \o <<Last(a)>> = a
      BY <1>2, <2>2, BackslashBeforeLast
    <3>2. w = e BY <2>3
    <3>. HIDE DEF e, w
    <3>. QED BY <2>3, <3>1, <3>2
  <2>. HIDE DEF e
  <2>5. Last(e) = ";" BY <2>4 DEF Last
  <2>6. ~Separates(e) BY <2>4 DEF Separates
  <2>7. ReadElement(e) = a BY <2>4, <2>5, <2>6 DEF ReadElement
  <2>. QED BY <2>1, <2>6, <2>7
<1>. QED BY <1>1, <1>2

-----------------------------------------------------------------------------
(* Sequences of sequences                                                  *)

(* FlattenSeq joins sequences one after the other: it ends where any       *)
(* running concatenation of them ends.                                     *)
LEMMA FlattenIs ==
  ASSUME NEW S, NEW ss \in Seq(Seq(S)), NEW v \in [0..Len(ss) -> Seq(S)], v[0] = <<>>,
         \A k \in 1..Len(ss) : v[k] = v[k - 1] \o ss[k]
  PROVE  FlattenSeq(ss) = v[Len(ss)]
<1>. DEFINE L == Len(ss)
            g == CHOOSE g : g = [i \in 1..Len(ss) |->
                                   IF i = 1 THEN ss[i] ELSE g[i - 1] \o ss[i]]
<1>1. L \in Nat /\ \A k \in 1..L : ss[k] \in Seq(S) OBVIOUS
<1>6. CASE L = 0
  <2>1. ss = <<>> BY <1>6, EmptySeq DEF L
  <2>2. FlattenSeq(ss) = <<>> BY <2>1 DEF FlattenSeq
  <2>. QED BY <1>6, <2>2
<1>7. CASE L # 0
  <2>. DEFINE f == [i \in 1..L |-> v[i]]
  <2>1. f[1] = ss[1] /\ 1 \in 1..L
    <3>1. 1 \in 1..L BY <1>1, <1>7
    <3>2. v[1] = v[1 - 1] \o ss[1] BY <3>1 DEF L
    <3>3. 1 - 1 = 0 OBVIOUS
    <3>4. v[1] = <<>> \o ss[1] BY <3>2, <3>3
    <3>5. ss[1] \in Seq(S) BY <1>1, <3>1
    <3>6. v[1] = ss[1] BY <3>4, <3>5, ConcatEmptySeq
    <3>. QED BY <3>1, <3>6
  <2>2. \A i \in 1..L : i # 1 => f[i] = f[i - 1] \o ss[i]
    <3>1. \A i \in 1..L : i # 1 => i - 1 \in 1..L BY <1>1
    <3>. QED BY <3>1 DEF L
  <2>3. f = [i \in 1..L |-> IF i = 1 THEN ss[i] ELSE f[i - 1] \o ss[i]]
    <3>. DEFINE e == f
    <3>1. e = [i \in 1..L |-> e[i]] OBVIOUS
    <3>. HIDE DEF f, e
    <3>2. \A i \in 1..L : f[i] = IF i = 1 THEN ss[i] ELSE f[i - 1] \o ss[i] BY <2>1, <2>2
    <3>. QED BY <3>1, <3>2 DEF e
  <2>. HIDE DEF f
  <2>4. \E w : w = [i \in 1..Len(ss) |-> IF i = 1 THEN ss[i] ELSE w[i - 1] \o ss[i]]
    BY <2>3 DEF L
  <2>5. g = [i \in 1..Len(ss) |-> IF i = 1 THEN ss[i] ELSE g[i - 1] \o ss[i]] BY <2>4, Zenon
  <2>6. FlattenSeq(ss) = g[Len(ss)] BY <1>7 DEF FlattenSeq, L
  <2>. HIDE DEF g
  <2>7. \A i \in 1..L : g[i] = IF i = 1 THEN ss[i] ELSE g[i - 1] \o ss[i] BY <2>5 DEF L
  <2>. DEFINE U == {k \in 0..L : k # 0 => g[k] = f[k]}
  <2>8. 0 \in U BY <1>1
  <2>9. \A k \in 1..L : k - 1 \in U => k \in U
    <3>. SUFFICES ASSUME NEW k \in 1..L, k - 1 \in U PROVE g[k] = f[k] BY <1>1
    <3>1. CASE k = 1 BY <2>1, <2>7, <3>1
    <3>2. CASE k # 1
      <4>1. k - 1 # 0 BY <1>1, <3>2
      <4>2. g[k - 1] = f[k - 1] BY <4>1
      <4>. QED BY ZenonT(40), <2>2, <2>7, <3>2, <4>2
    <3>. QED BY <3>1, <3>2
  <2>. HIDE DEF U
  <2>10. 0..L \subseteq U BY <1>1, <2>8, <2>9, UpTo
  <2>11. L \in U /\ L \in 1..L BY SMTT(30), <1>1, <1>7, <2>10
  <2>12. g[L] = f[L] BY <1>7, <2>11 DEF U
  <2>. QED BY <2>6, <2>11, <2>12 DEF f
<1>. QED BY <1>6, <1>7

(* v is a running concatenation of f, from e on.                           *)
Joins(W, e, L, f) ==
  \E v \in [0..L -> W] : v[0] = e /\ \A k \in 1..L : v[k] = v[k - 1] \o f[k]

(* There is one of any sequence of sequences.                              *)
LEMMA JoinsExist ==
  ASSUME NEW W, NEW e \in W, NEW L \in Nat, NEW f, \A n \in 1..L : f[n] \in W,
         \A x, y \in W : x \o y \in W
  PROVE  Joins(W, e, L, f)
<1>. DEFINE G == [n \in 1..L |-> [w \in W |-> w \o f[n]]]
<1>1. G \in [1..L -> [W -> W]] OBVIOUS
<1>. HIDE DEF G
<1>2. PICK v \in [0..L -> W] : v[0] = e /\ \A n \in 1..L : v[n] = G[n][v[n - 1]]
  <2>1. Loops(W, e, L, G) BY <1>1, LoopsAlways
  <2>. QED BY <2>1 DEF Loops
<1>3. \A n \in 1..L : v[n] = v[n - 1] \o f[n]
  <2>. SUFFICES ASSUME NEW n \in 1..L PROVE v[n] = v[n - 1] \o f[n] OBVIOUS
  <2>1. n - 1 \in 0..L OBVIOUS
  <2>. QED BY <1>2, <2>1 DEF G
<1>. QED BY <1>2, <1>3 DEF Joins

(* FlattenSeq is where the running concatenation of ss ends.               *)
LEMMA FlattenExists ==
  ASSUME NEW S, NEW ss \in Seq(Seq(S))
  PROVE  \E v \in [0..Len(ss) -> Seq(S)] :
           /\ v[0] = <<>> /\ v[Len(ss)] = FlattenSeq(ss)
           /\ \A k \in 1..Len(ss) : v[k] = v[k - 1] \o ss[k]
<1>2. <<>> \in Seq(S) /\ Len(ss) \in Nat /\ \A n \in 1..Len(ss) : ss[n] \in Seq(S)
  OBVIOUS
<1>3. \A x, y \in Seq(S) : x \o y \in Seq(S) BY ConcatProperties
<1>4. PICK v \in [0..Len(ss) -> Seq(S)] :
        v[0] = <<>> /\ \A k \in 1..Len(ss) : v[k] = v[k - 1] \o ss[k]
  <2>1. Joins(Seq(S), <<>>, Len(ss), ss) BY <1>2, <1>3, JoinsExist
  <2>. QED BY <2>1 DEF Joins
<1>5. FlattenSeq(ss) = v[Len(ss)] BY <1>4, FlattenIs
<1>. QED BY <1>4, <1>5

(* One more sequence is joined at the end.                                 *)
LEMMA FlattenAppend ==
  ASSUME NEW S, NEW ss \in Seq(Seq(S)), NEW x \in Seq(S)
  PROVE  FlattenSeq(Append(ss, x)) = FlattenSeq(ss) \o x /\ FlattenSeq(ss) \in Seq(S)
<1>. DEFINE L == Len(ss)
            ss2 == Append(ss, x)
<1>1. PICK v \in [0..L -> Seq(S)] :
        /\ v[0] = <<>> /\ v[L] = FlattenSeq(ss)
        /\ \A k \in 1..L : v[k] = v[k - 1] \o ss[k]
  BY FlattenExists
<1>2. /\ ss2 \in Seq(Seq(S)) /\ Len(ss2) = L + 1 /\ ss2[L + 1] = x
      /\ \A k \in 1..L : ss2[k] = ss[k]
  BY AppendProperties
<1>3. L \in Nat OBVIOUS
<1>. DEFINE w == [k \in 0..(L + 1) |-> IF k <= L THEN v[k] ELSE v[L] \o x]
<1>. HIDE DEF L, ss2
<1>4. /\ \A k \in 0..L : w[k] = v[k]
      /\ w[L + 1] = v[L] \o x /\ w \in [0..(L + 1) -> Seq(S)]
  <2>1. v[L] \in Seq(S) BY <1>1, <1>3
  <2>2. v[L] \o x \in Seq(S) BY <2>1, ConcatProperties
  <2>. QED BY <1>1, <1>3, <2>2
<1>. HIDE DEF w
<1>5. \A k \in 1..(L + 1) : w[k] = w[k - 1] \o ss2[k]
  <2>. SUFFICES ASSUME NEW k \in 1..(L + 1) PROVE w[k] = w[k - 1] \o ss2[k] OBVIOUS
  <2>1. k - 1 \in 0..L BY <1>3
  <2>2. CASE k \in 1..L
    <3>1. k \in 0..L BY <1>3, <2>2
    <3>. QED BY <1>1, <1>2, <1>4, <2>1, <2>2, <3>1
  <2>3. CASE k = L + 1
    <3>1. k - 1 = L BY <1>3, <2>3
    <3>. QED BY <1>2, <1>4, <2>1, <2>3, <3>1
  <2>4. k \in 1..L \/ k = L + 1 BY <1>3
  <2>. QED BY <2>2, <2>3, <2>4
<1>6. FlattenSeq(ss2) = w[L + 1]
  <2>1. w[0] = <<>> BY <1>1, <1>3, <1>4
  <2>2. w \in [0..Len(ss2) -> Seq(S)] /\ \A k \in 1..Len(ss2) : w[k] = w[k - 1] \o ss2[k]
    BY <1>2, <1>4, <1>5
  <2>3. FlattenSeq(ss2) = w[Len(ss2)] BY <1>2, <2>1, <2>2, FlattenIs
  <2>. QED BY <1>2, <2>3
<1>7. L \in 0..L BY <1>3
<1>. QED BY <1>1, <1>4, <1>6, <1>7 DEF ss2

(* f is a sequence of length L.                                            *)
SeqWith(S, L, f) == f \in Seq(S) /\ Len(f) = L

(* A function on 1..L is a sequence.                                       *)
LEMMA MadeSeq ==
  ASSUME NEW S, NEW L \in Nat, NEW f, f = [k \in 1..L |-> f[k]], \A k \in 1..L : f[k] \in S
  PROVE  SeqWith(S, L, f)
<1>1. DOMAIN f = 1..L OBVIOUS
<1>2. f \in [1..L -> S] OBVIOUS
<1>3. f \in Seq(S) BY <1>2
<1>4. Len(f) = L BY <1>1, <1>3
<1>. QED BY <1>3, <1>4 DEF SeqWith

(* s is where the running concatenation of ss ends.                        *)
Flattens(S, ss, L, s) ==
  \E v \in [0..L -> Seq(S)] :
    v[0] = <<>> /\ v[L] = s /\ \A k \in 1..L : v[k] = v[k - 1] \o ss[k]

(* FlattenExists, in those terms.                                          *)
LEMMA FlattensTo ==
  ASSUME NEW S, NEW ss \in Seq(Seq(S))
  PROVE  Flattens(S, ss, Len(ss), FlattenSeq(ss))
BY FlattenExists DEF Flattens

(* A sequence of one.                                                      *)
LEMMA Single ==
  ASSUME NEW S, NEW c \in S
  PROVE  <<c>> \in Seq(S) /\ Len(<<c>>) = 1 /\ <<c>>[1] = c
OBVIOUS

(* A sequence of two.                                                      *)
LEMMA Pair ==
  ASSUME NEW S, NEW b \in S, NEW c \in S
  PROVE  <<b, c>> = <<b>> \o <<c>> /\ <<b, c>> \in Seq(S)
<1>1. /\ <<b>> \in Seq(S) /\ <<c>> \in Seq(S) /\ <<b, c>> \in Seq(S)
      /\ Len(<<b, c>>) = 2 /\ <<b, c>>[1] = b /\ <<b, c>>[2] = c
      /\ Len(<<b>>) = 1 /\ Len(<<c>>) = 1 /\ <<b>>[1] = b /\ <<c>>[1] = c
  OBVIOUS
<1>. DEFINE x == <<b>>
            y == <<c>>
            z == <<b, c>>
<1>. HIDE DEF x, y, z
<1>2. /\ x \in Seq(S) /\ y \in Seq(S) /\ z \in Seq(S) /\ Len(z) = 2 /\ z[1] = b /\ z[2] = c
      /\ Len(x) = 1 /\ Len(y) = 1 /\ x[1] = b /\ y[1] = c
  BY <1>1 DEF x, y, z
<1>3. /\ x \o y \in Seq(S) /\ Len(x \o y) = Len(x) + Len(y)
      /\ \A i \in 1..(Len(x) + Len(y)) : (x \o y)[i] = IF i <= Len(x) THEN x[i] ELSE y[i - Len(x)]
  BY <1>2, ConcatProperties
<1>4. Len(x \o y) = Len(z) /\ \A i \in 1..Len(z) : (x \o y)[i] = z[i] BY <1>2, <1>3
<1>5. z = x \o y BY <1>2, <1>3, <1>4, SeqEqual
<1>. QED BY <1>1, <1>5 DEF x, y, z

(* The two ways to join three.                                             *)
Regroups(t, a, c) == (t \o a) \o c = t \o (a \o c)

(* Concatenation is associative.                                           *)
LEMMA Regrouped ==
  ASSUME NEW S, NEW t \in Seq(S), NEW a \in Seq(S), NEW c \in Seq(S)
  PROVE  Regroups(t, a, c)
BY ConcatAssociative DEF Regroups

(* A value that grows by the bytes of another.                             *)
GrowsBy(S, t, r) ==
  /\ t \o SubSeq(r, 1, 0) = t /\ t \o SubSeq(r, 1, Len(r)) = t \o r
  /\ \A i \in 0..Len(r) : t \o SubSeq(r, 1, i) \in Seq(S)
  /\ \A i \in 1..Len(r) :
       t \o SubSeq(r, 1, i) = Append(t \o SubSeq(r, 1, i - 1), r[i])

(* Each byte of r makes what was t one byte longer, until it is t \o r.    *)
LEMMA Grown ==
  ASSUME NEW S, NEW t \in Seq(S), NEW r \in Seq(S)
  PROVE  GrowsBy(S, t, r)
<1>1. SubSeq(r, 1, 0) = <<>> BY SubSeqEmpty
<1>2. t \o SubSeq(r, 1, 0) = t BY <1>1, ConcatEmptySeq
<1>3. SubSeq(r, 1, Len(r)) = r BY SubSeqFull
<1>4. \A i \in 0..Len(r) : SubSeq(r, 1, i) \in Seq(S)
  <2>. SUFFICES ASSUME NEW i \in 0..Len(r) PROVE SubSeq(r, 1, i) \in Seq(S) OBVIOUS
  <2>1. \A j \in 1..i : r[j] \in S OBVIOUS
  <2>2. i \in Int OBVIOUS
  <2>. QED BY <2>1, <2>2, SubSeqProperties
<1>5. \A i \in 0..Len(r) : t \o SubSeq(r, 1, i) \in Seq(S) BY <1>4, ConcatProperties
<1>6. ASSUME NEW i \in 1..Len(r)
      PROVE  t \o SubSeq(r, 1, i) = Append(t \o SubSeq(r, 1, i - 1), r[i])
  <2>. DEFINE a == SubSeq(r, 1, i - 1)
              c == <<r[i]>>
  <2>1. i - 1 \in 0..Len(r) /\ 1 \in 1..Len(r) /\ i \in 1..Len(r) /\ r[i] \in S OBVIOUS
  <2>2. a \in Seq(S) /\ t \o a \in Seq(S) BY <1>4, <1>5, <2>1
  <2>3. c \in Seq(S) BY <2>1, Single
  <2>4. SubSeq(r, 1, i) = a \o c BY <2>1, SubSeqRecursiveSecond
  <2>. HIDE DEF a
  <2>5. Append(t \o a, r[i]) = (t \o a) \o c BY <2>1, <2>2, AppendIsConcat
  <2>. HIDE DEF c
  <2>6. a \in Seq(S) BY <2>2
  <2>7. (t \o a) \o c = t \o (a \o c)
    <3>1. c \in Seq(S) BY <2>3
    <3>2. Regroups(t, a, c) BY <2>6, <3>1, Regrouped
    <3>. QED BY <3>2 DEF Regroups
  <2>. QED BY <2>4, <2>5, <2>7 DEF a
<1>. QED BY <1>2, <1>3, <1>5, <1>6 DEF GrowsBy

-----------------------------------------------------------------------------
(* The runs of an argument                                                 *)

(* What cuts is at after some bytes, and a byte's step.                    *)
CutState == [runs : Seq(Seq(Byte)), run : Seq(Byte)]
CutStart == [runs |-> <<>>, run |-> <<>>]
CutStep(st, c) ==
  IF c = "newline" THEN [runs |-> Append(st.runs, st.run), run |-> <<>>]
  ELSE [st EXCEPT !.run = Append(@, c)]

(* A step of cuts is made of bytes if what it is taken from is.            *)
LEMMA CutTyped == ASSUME NEW st \in CutState, NEW c \in Byte PROVE CutStep(st, c) \in CutState
<1>1. /\ st.runs \in Seq(Seq(Byte)) /\ st.run \in Seq(Byte)
      /\ st = [runs |-> st.runs, run |-> st.run]
  BY DEF CutState
<1>2. /\ Append(st.runs, st.run) \in Seq(Seq(Byte)) /\ Append(st.run, c) \in Seq(Byte)
      /\ <<>> \in Seq(Byte)
  BY <1>1
<1>. QED BY <1>1, <1>2 DEF CutStep, CutState

(* cuts is that step, taken once a byte from the start.                    *)
LEMMA CutsAre ==
  ASSUME NEW s \in Seq(Byte)
  PROVE  /\ cuts(s) \in [0..Len(s) -> CutState] /\ cuts(s)[0] = CutStart
         /\ \A n \in 1..Len(s) : cuts(s)[n] = CutStep(cuts(s)[n - 1], s[n])
<1>. DEFINE L == Len(s)
            G == [n \in 1..L |-> [st \in CutState |-> CutStep(st, s[n])]]
<1>1. L \in Nat OBVIOUS
<1>2. CutStart \in CutState
  <2>1. <<>> \in Seq(Byte) /\ <<>> \in Seq(Seq(Byte)) OBVIOUS
  <2>. QED BY <2>1 DEF CutStart, CutState
<1>3. G \in [1..L -> [CutState -> CutState]] BY CutTyped
<1>. HIDE DEF G, L
<1>4. PICK u \in [0..L -> CutState] :
        u[0] = CutStart /\ \A n \in 1..L : u[n] = G[n][u[n - 1]]
  <2>1. Loops(CutState, CutStart, L, G) BY <1>1, <1>2, <1>3, LoopsAlways
  <2>. QED BY <2>1 DEF Loops
<1>. USE DEF L
<1>5. ASSUME NEW n \in 1..L PROVE u[n] = CutStep(u[n - 1], s[n])
  <2>1. n - 1 \in 0..L OBVIOUS
  <2>2. u[n] = G[n][u[n - 1]] /\ u[n - 1] \in CutState BY <1>4, <2>1
  <2>. QED BY <2>2 DEF G
<1>6. u = [i \in 0..L |-> IF i = 0 THEN CutStart ELSE CutStep(u[i - 1], s[i])]
  <2>1. \A i \in 0..L : i # 0 => i \in 1..L OBVIOUS
  <2>. QED BY <1>4, <1>5, <2>1
<1>7. \E v : v = [i \in 0..L |->
                    IF i = 0 THEN CutStart
                    ELSE IF s[i] = "newline"
                    THEN [runs |-> Append(v[i - 1].runs, v[i - 1].run), run |-> <<>>]
                    ELSE [v[i - 1] EXCEPT !.run = Append(@, s[i])]]
  BY <1>6 DEF CutStep
<1>8. cuts(s) = [i \in 0..L |->
                    IF i = 0 THEN CutStart
                    ELSE IF s[i] = "newline"
                    THEN [runs |-> Append(cuts(s)[i - 1].runs, cuts(s)[i - 1].run), run |-> <<>>]
                    ELSE [cuts(s)[i - 1] EXCEPT !.run = Append(@, s[i])]]
  BY <1>7, Zenon DEF cuts, CutStart
<1>. DEFINE v == cuts(s)
<1>. HIDE DEF v
<1>9. v = [i \in 0..L |-> IF i = 0 THEN CutStart ELSE CutStep(v[i - 1], s[i])]
  BY <1>8 DEF v, CutStep
<1>10. v[0] = CutStart /\ \A n \in 1..L : v[n] = CutStep(v[n - 1], s[n]) BY <1>9
<1>11. \A n \in 0..L : v[n] \in CutState
  <2>. DEFINE T == {n \in 0..L : v[n] \in CutState}
  <2>1. 0 \in T BY <1>2, <1>10
  <2>2. ASSUME NEW n \in 1..L, n - 1 \in T PROVE n \in T
    <3>1. s[n] \in Byte OBVIOUS
    <3>. QED BY <1>10, <2>2, <3>1, CutTyped
  <2>. HIDE DEF T
  <2>3. 0..L \subseteq T BY <1>1, <2>1, <2>2, UpTo
  <2>. QED BY <2>3 DEF T
<1>12. v \in [0..L -> CutState] BY <1>9, <1>11
<1>. QED BY <1>10, <1>12 DEF v

(* What is between the newlines, and what they are in the value.           *)
Lead(rs) == IF rs = <<>> THEN <<>> ELSE <<"newline">>
Pieces(rs) == [k \in 1..Len(rs) |-> (IF k > 1 THEN <<"newline">> ELSE <<>>) \o rs[k]]

(* The pieces are sequences of bytes, one a run.                           *)
LEMMA PiecesTyped ==
  ASSUME NEW rs \in Seq(Seq(Byte))
  PROVE  Pieces(rs) \in Seq(Seq(Byte)) /\ Len(Pieces(rs)) = Len(rs) /\ Lead(rs) \in Seq(Byte)
<1>1. <<"newline">> \in Seq(Byte) /\ <<>> \in Seq(Byte)
  <2>1. "newline" \in Byte BY DEF Byte
  <2>. QED BY <2>1, Single
<1>. DEFINE lead(k) == IF k > 1 THEN <<"newline">> ELSE <<>>
<1>2. \A k \in 1..Len(rs) : lead(k) \o rs[k] \in Seq(Byte)
  <2>. SUFFICES ASSUME NEW k \in 1..Len(rs) PROVE lead(k) \o rs[k] \in Seq(Byte) OBVIOUS
  <2>1. rs[k] \in Seq(Byte) /\ lead(k) \in Seq(Byte) BY <1>1
  <2>. HIDE DEF lead
  <2>. QED BY <2>1, ConcatProperties
<1>3. Pieces(rs) = [k \in 1..Len(rs) |-> lead(k) \o rs[k]] BY DEF Pieces
<1>. HIDE DEF lead
<1>. QED BY <1>1, <1>2, <1>3 DEF Lead

(* One more run is one more piece.                                         *)
LEMMA PiecesAppend ==
  ASSUME NEW rs \in Seq(Seq(Byte)), NEW r \in Seq(Byte)
  PROVE  FlattenSeq(Pieces(Append(rs, r))) = FlattenSeq(Pieces(rs)) \o (Lead(rs) \o r)
<1>. DEFINE L == Len(rs)
            p == Append(Pieces(rs), Lead(rs) \o r)
            q == Pieces(Append(rs, r))
            x == Lead(rs) \o r
<1>1. Pieces(rs) \in Seq(Seq(Byte)) /\ Len(Pieces(rs)) = L /\ x \in Seq(Byte)
  BY PiecesTyped, ConcatProperties
<1>2. L \in Nat /\ (L = 0 <=> rs = <<>>) BY EmptySeq
<1>3. /\ Append(rs, r) \in Seq(Seq(Byte)) /\ Len(Append(rs, r)) = L + 1
      /\ Append(rs, r)[L + 1] = r /\ \A k \in 1..L : Append(rs, r)[k] = rs[k]
  BY AppendProperties
<1>4. q \in Seq(Seq(Byte)) /\ Len(q) = L + 1 BY <1>3, PiecesTyped
<1>. HIDE DEF x
<1>5. /\ p \in Seq(Seq(Byte)) /\ Len(p) = L + 1 /\ p[L + 1] = x
      /\ \A k \in 1..L : p[k] = Pieces(rs)[k]
  <2>. DEFINE ps == Pieces(rs)
  <2>. HIDE DEF ps, L
  <2>1. ps \in Seq(Seq(Byte)) /\ Len(ps) = L BY <1>1 DEF ps
  <2>2. /\ Append(ps, x) \in Seq(Seq(Byte)) /\ Len(Append(ps, x)) = L + 1
        /\ Append(ps, x)[L + 1] = x /\ \A k \in 1..L : Append(ps, x)[k] = ps[k]
    BY <1>1, <2>1, AppendProperties
  <2>3. p = Append(ps, x) BY DEF ps, x
  <2>. HIDE DEF p
  <2>. QED BY <2>2, <2>3 DEF ps
<1>6. \A k \in 1..(L + 1) : q[k] = (IF k > 1 THEN <<"newline">> ELSE <<>>) \o Append(rs, r)[k]
  BY <1>3 DEF Pieces
<1>7. \A k \in 1..L : Pieces(rs)[k] = (IF k > 1 THEN <<"newline">> ELSE <<>>) \o rs[k]
  BY DEF Pieces
<1>8. q[L + 1] = x
  <2>1. L + 1 \in 1..(L + 1) /\ (L + 1 > 1 <=> rs # <<>>) BY <1>2
  <2>2. q[L + 1] = (IF L + 1 > 1 THEN <<"newline">> ELSE <<>>) \o r BY <1>3, <1>6, <2>1
  <2>. QED BY <2>1, <2>2 DEF x, Lead
<1>. HIDE DEF p, q, L
<1>9. \A k \in 1..(L + 1) : q[k] = p[k]
  <2>1. \A k \in 1..L : q[k] = p[k]
    <3>1. \A k \in 1..L : k \in 1..(L + 1) BY <1>2
    <3>. QED BY <1>3, <1>5, <1>6, <1>7, <3>1
  <2>. QED BY <1>2, <1>5, <1>8, <2>1
<1>10. q = p BY <1>4, <1>5, <1>9, SeqEqual
<1>. QED BY <1>1, <1>10, FlattenAppend DEF p, q, x

(* quoteArg's parts are the argument, cut at its newlines.                 *)
LEMMA RunsAre ==
  ASSUME NEW s \in Seq(Byte)
  PROVE  /\ Runs(s) \in Seq(Seq(Byte)) /\ Runs(s) # <<>>
         /\ \A k \in 1..Len(Runs(s)) : \A i \in 1..Len(Runs(s)[k]) : Runs(s)[k][i] # "newline"
         /\ FlattenSeq(Pieces(Runs(s))) = s
<1>. DEFINE L == Len(s)
            c == cuts(s)
            Clean(r) == \A i \in 1..Len(r) : r[i] # "newline"
            Text(st) == FlattenSeq(Pieces(st.runs)) \o (Lead(st.runs) \o st.run)
            Good(n) == /\ Clean(c[n].run) /\ \A k \in 1..Len(c[n].runs) : Clean(c[n].runs[k])
                       /\ Text(c[n]) = SubSeq(s, 1, n)
            T == {n \in 0..L : Good(n)}
<1>1. /\ c \in [0..L -> CutState] /\ c[0] = CutStart
      /\ \A n \in 1..L : c[n] = CutStep(c[n - 1], s[n])
  BY CutsAre
<1>2. L \in Nat OBVIOUS
<1>3. \A n \in 0..L : c[n] \in CutState /\ c[n].runs \in Seq(Seq(Byte)) /\ c[n].run \in Seq(Byte)
  BY <1>1 DEF CutState
<1>. HIDE DEF c, L
<1>4. \A rs \in Seq(Seq(Byte)) : FlattenSeq(Pieces(rs)) \in Seq(Byte) /\ Lead(rs) \in Seq(Byte)
  BY PiecesTyped, FlattenAppend, EmptySeq
<1>5. <<>> \in Seq(Byte) /\ <<>> \in Seq(Seq(Byte)) /\ <<"newline">> \in Seq(Byte)
  <2>1. "newline" \in Byte BY DEF Byte
  <2>. QED BY <2>1, Single
<1>6. 0 \in T
  <2>1. c[0].runs = <<>> /\ c[0].run = <<>> BY <1>1 DEF CutStart
  <2>2. Lead(<<>>) = <<>> BY DEF Lead
  <2>3. Pieces(<<>>) = <<>> BY <1>5, PiecesTyped, EmptySeq
  <2>4. FlattenSeq(Pieces(<<>>)) = <<>> BY <2>3 DEF FlattenSeq
  <2>5. Text(c[0]) = <<>> BY <2>1, <2>2, <2>4, <1>5, ConcatEmptySeq
  <2>6. SubSeq(s, 1, 0) = <<>> BY SubSeqEmpty
  <2>7. Good(0) BY <2>1, <2>5, <2>6
  <2>8. 0 \in 0..L BY <1>2
  <2>. HIDE DEF Good
  <2>. QED BY <2>7, <2>8
<1>7. ASSUME NEW n \in 1..L, n - 1 \in T PROVE n \in T
  <2>. DEFINE a == c[n - 1]
              b == c[n]
              f == FlattenSeq(Pieces(a.runs))
              x == Lead(a.runs)
  <2>1. n - 1 \in 0..L /\ n \in 0..L BY <1>2
  <2>2. /\ a.runs \in Seq(Seq(Byte)) /\ a.run \in Seq(Byte) /\ s[n] \in Byte
        /\ a = [runs |-> a.runs, run |-> a.run]
    BY <1>3, <2>1 DEF CutState, L
  <2>3. b = CutStep(a, s[n]) BY <1>1
  <2>4. Clean(a.run) /\ (\A k \in 1..Len(a.runs) : Clean(a.runs[k])) /\ Text(a) = SubSeq(s, 1, n - 1)
    BY <1>7
  <2>5. SubSeq(s, 1, n) = SubSeq(s, 1, n - 1) \o <<s[n]>>
    <3>1. 1 \in 1..Len(s) /\ n \in 1..Len(s) BY <1>2 DEF L
    <3>. QED BY <3>1, SubSeqRecursiveSecond
  <2>6. f \in Seq(Byte) /\ x \in Seq(Byte) /\ <<s[n]>> \in Seq(Byte) BY <1>4, <2>2, Single
  <2>7. Text(a) = f \o (x \o a.run) OBVIOUS
  <2>8. x \o a.run \in Seq(Byte) BY <2>2, <2>6, ConcatProperties
  <2>. HIDE DEF a, b, f, x
  <2>9. CASE s[n] = "newline"
    <3>1. b.runs = Append(a.runs, a.run) /\ b.run = <<>> BY <2>3, <2>9 DEF CutStep
    <3>2. FlattenSeq(Pieces(b.runs)) = f \o (x \o a.run) BY <2>2, <3>1, PiecesAppend DEF f, x
    <3>3. b.runs # <<>> BY <2>2, <3>1, NotEmptied
    <3>4. Lead(b.runs) = <<"newline">> BY <3>3 DEF Lead
    <3>5. Lead(b.runs) \o b.run = <<s[n]>> BY <2>9, <1>5, <3>1, <3>4, ConcatEmptySeq
    <3>6. Text(b) = SubSeq(s, 1, n) BY <2>4, <2>5, <2>7, <3>2, <3>5
    <3>7. \A k \in 1..Len(b.runs) : Clean(b.runs[k])
      <4>1. /\ Len(b.runs) = Len(a.runs) + 1 /\ b.runs[Len(a.runs) + 1] = a.run
            /\ \A k \in 1..Len(a.runs) : b.runs[k] = a.runs[k]
        BY <2>2, <3>1, AppendProperties
      <4>2. \A k \in 1..Len(b.runs) : k \in 1..Len(a.runs) \/ k = Len(a.runs) + 1
        BY <2>2, <4>1
      <4>. QED BY <2>4, <4>1, <4>2
    <3>8. Clean(b.run) BY <3>1
    <3>. QED BY <2>1, <3>6, <3>7, <3>8 DEF b
  <2>10. CASE s[n] # "newline"
    <3>1. b.runs = a.runs /\ b.run = Append(a.run, s[n]) BY <2>2, <2>3, <2>10 DEF CutStep
    <3>2. b.run = a.run \o <<s[n]>> BY <2>2, <3>1, AppendIsConcat
    <3>3. Lead(b.runs) \o b.run = (x \o a.run) \o <<s[n]>>
      BY <2>2, <2>6, <3>1, <3>2, ConcatAssociative DEF x
    <3>4. Text(b) = f \o ((x \o a.run) \o <<s[n]>>) BY <3>1, <3>3 DEF f
    <3>5. f \o ((x \o a.run) \o <<s[n]>>) = (f \o (x \o a.run)) \o <<s[n]>>
      <4>. DEFINE y == x \o a.run
                  z == <<s[n]>>
      <4>1. y \in Seq(Byte) /\ z \in Seq(Byte) BY <2>6, <2>8
      <4>. HIDE DEF y, z
      <4>2. f \in Seq(Byte) BY <2>6
      <4>3. f \o (y \o z) = (f \o y) \o z BY SMTT(30), <4>1, <4>2, ConcatAssociative
      <4>. QED BY <4>3 DEF y, z
    <3>6. Text(b) = SubSeq(s, 1, n) BY <2>4, <2>5, <2>7, <3>4, <3>5
    <3>7. Clean(b.run)
      <4>1. /\ Len(b.run) = Len(a.run) + 1 /\ b.run[Len(a.run) + 1] = s[n]
            /\ \A k \in 1..Len(a.run) : b.run[k] = a.run[k]
        BY <2>2, <3>1, AppendProperties
      <4>2. \A k \in 1..Len(b.run) : k \in 1..Len(a.run) \/ k = Len(a.run) + 1
        BY <2>2, <4>1
      <4>. QED BY <2>4, <2>10, <4>1, <4>2
    <3>. QED BY <2>1, <2>4, <3>1, <3>6, <3>7 DEF b
  <2>. QED BY <2>9, <2>10
<1>8. Good(L)
  <2>. HIDE DEF T, Good
  <2>1. 0..L \subseteq T BY <1>2, <1>6, <1>7, UpTo
  <2>2. L \in T BY <1>2, <2>1
  <2>. QED BY <2>2 DEF T
<1>9. c[L].runs \in Seq(Seq(Byte)) /\ c[L].run \in Seq(Byte) BY <1>2, <1>3
<1>10. Runs(s) = Append(c[L].runs, c[L].run) BY DEF Runs, c, L
<1>11. FlattenSeq(Pieces(Runs(s))) = s
  <2>1. FlattenSeq(Pieces(Runs(s))) = Text(c[L]) BY <1>9, <1>10, PiecesAppend
  <2>2. SubSeq(s, 1, L) = s BY SubSeqFull DEF L
  <2>. QED BY <1>8, <2>1, <2>2
<1>12. \A k \in 1..Len(Runs(s)) : Clean(Runs(s)[k])
  <2>. DEFINE rs == c[L].runs
              R == Runs(s)
  <2>1. /\ Len(R) = Len(rs) + 1 /\ R[Len(rs) + 1] = c[L].run
        /\ \A k \in 1..Len(rs) : R[k] = rs[k]
    BY <1>9, <1>10, AppendProperties
  <2>2. Clean(c[L].run) /\ \A k \in 1..Len(rs) : Clean(rs[k]) BY <1>8
  <2>3. Len(rs) \in Nat BY <1>9
  <2>. HIDE DEF R, rs
  <2>4. \A k \in 1..Len(R) : k \in 1..Len(rs) \/ k = Len(rs) + 1 BY <2>1, <2>3
  <2>5. \A k \in 1..Len(R) : Clean(R[k]) BY <2>1, <2>2, <2>4
  <2>. QED BY <2>5 DEF R
<1>. QED BY <1>9, <1>10, <1>11, <1>12, AppendProperties

-----------------------------------------------------------------------------
(* What Do and tmux make of a byte                                         *)

(* What Do and tmux make of a line, byte by byte, and what was in it.      *)
Seen(m, c) ==
  [first |-> IF m.first # "none" THEN m.first
             ELSE IF c \in Blank \union {"newline", "#"} THEN "bad" ELSE "good",
   nul |-> m.nul \/ c = "nul",
   cut |-> m.cut \/ c = "newline"]
readStep(p, c) ==
  [sc |-> scanStep(p.sc, c), lx |-> LexStep(p.lx, c), seen |-> Seen(p.seen, c)]

(* A token holds a NUL.                                                    *)
NulIn(t, ts) == Contains(t, "nul") \/ \E i \in 1..Len(ts) : Contains(ts[i], "nul")

Token(mode, escaped, open, t, ts) ==
  [mode |-> mode, escaped |-> escaped, open |-> open, token |-> t, tokens |-> ts,
   done |-> <<>>, nested |-> FALSE, expands |-> FALSE]

(* Within quote q, after the tokens ts, t of the next having been taken.   *)
At(q, escaped, open, t, ts) ==
  [sc |-> Scan(q, ~open, escaped, FALSE),
   lx |-> Token(IF q = "none" THEN "plain" ELSE q, escaped, open, t, ts),
   seen |-> [first |-> IF open \/ ts # <<>> THEN "good" ELSE "none",
             nul |-> NulIn(t, ts), cut |-> FALSE]]

(* A byte of a token is a NUL if it is one.                                *)
LEMMA NulTaken ==
  ASSUME NEW t \in Seq(Byte), NEW c \in Byte, NEW ts
  PROVE  NulIn(Append(t, c), ts) = (NulIn(t, ts) \/ c = "nul")
<1>1. /\ Len(Append(t, c)) = Len(t) + 1 /\ Append(t, c)[Len(t) + 1] = c
      /\ \A i \in 1..Len(t) : Append(t, c)[i] = t[i]
  BY AppendProperties
<1>2. Len(t) \in Nat OBVIOUS
<1>. DEFINE u == Append(t, c)
            has(w) == \E i \in 1..Len(w) : w[i] = "nul"
<1>. HIDE DEF u
<1>3. Len(u) = Len(t) + 1 /\ u[Len(t) + 1] = c /\ \A i \in 1..Len(t) : u[i] = t[i] BY <1>1 DEF u
<1>4. has(u) <=> has(t) \/ c = "nul"
  <2>1. ASSUME has(u) PROVE has(t) \/ c = "nul"
    <3>1. PICK i \in 1..Len(u) : u[i] = "nul" BY <2>1
    <3>2. i \in 1..Len(t) \/ i = Len(t) + 1 BY <1>2, <1>3
    <3>. QED BY <1>3, <3>1, <3>2
  <2>2. ASSUME has(t) PROVE has(u)
    <3>1. PICK i \in 1..Len(t) : t[i] = "nul" BY <2>2
    <3>2. i \in 1..Len(u) BY <1>2, <1>3
    <3>. QED BY <1>3, <3>1, <3>2
  <2>3. ASSUME c = "nul" PROVE has(u)
    <3>1. Len(t) + 1 \in 1..Len(u) BY <1>2, <1>3
    <3>. QED BY <1>3, <2>3, <3>1
  <2>. QED BY <2>1, <2>2, <2>3
<1>5. (Contains(u, "nul") <=> has(u)) /\ (Contains(t, "nul") <=> has(t)) BY DEF Contains
<1>. HIDE DEF has
<1>6. NulIn(u, ts) <=> (NulIn(t, ts) \/ c = "nul") BY <1>4, <1>5 DEF NulIn
<1>7. NulIn(u, ts) \in BOOLEAN /\ NulIn(t, ts) \in BOOLEAN BY DEF NulIn
<1>. QED BY <1>6, <1>7 DEF u

(* A token that ends keeps its NULs.                                       *)
LEMMA NulEnds ==
  ASSUME NEW t \in Seq(Byte), NEW ts \in Seq(Seq(Byte))
  PROVE  NulIn(<<>>, Append(ts, t)) = NulIn(t, ts)
<1>. DEFINE us == Append(ts, t)
            has(w) == Contains(w, "nul")
<1>1. /\ Len(us) = Len(ts) + 1 /\ us[Len(ts) + 1] = t
      /\ \A i \in 1..Len(ts) : us[i] = ts[i]
  BY AppendProperties
<1>2. Len(ts) \in Nat OBVIOUS
<1>3. ~has(<<>>) BY DEF Contains
<1>. HIDE DEF us, has
<1>4. (\E i \in 1..Len(us) : has(us[i])) <=> has(t) \/ \E i \in 1..Len(ts) : has(ts[i])
  <2>1. ASSUME NEW i \in 1..Len(us), has(us[i])
        PROVE  has(t) \/ \E j \in 1..Len(ts) : has(ts[j])
    <3>1. i \in 1..Len(ts) \/ i = Len(ts) + 1 BY <1>1, <1>2
    <3>. QED BY <1>1, <2>1, <3>1
  <2>2. ASSUME NEW i \in 1..Len(ts), has(ts[i]) PROVE \E j \in 1..Len(us) : has(us[j])
    <3>1. i \in 1..Len(us) BY <1>1, <1>2
    <3>. QED BY <1>1, <2>2, <3>1
  <2>3. ASSUME has(t) PROVE \E j \in 1..Len(us) : has(us[j])
    <3>1. Len(ts) + 1 \in 1..Len(us) BY <1>1, <1>2
    <3>. QED BY <1>1, <2>3, <3>1
  <2>. QED BY <2>1, <2>2, <2>3
<1>5. NulIn(<<>>, us) <=> NulIn(t, ts)
  <2>1. NulIn(<<>>, us) <=> has(<<>>) \/ \E i \in 1..Len(us) : has(us[i]) BY DEF NulIn, has
  <2>2. NulIn(t, ts) <=> has(t) \/ \E i \in 1..Len(ts) : has(ts[i]) BY DEF NulIn, has
  <2>. QED BY <1>3, <1>4, <2>1, <2>2
<1>6. NulIn(<<>>, us) \in BOOLEAN /\ NulIn(t, ts) \in BOOLEAN BY DEF NulIn
<1>. QED BY <1>5, <1>6 DEF us

(* A byte that stands for itself where it is goes into the token: plain if *)
(* safeByte, within single quotes if it neither ends them nor the line.    *)
LEMMA TakesByte ==
  ASSUME NEW open \in BOOLEAN, NEW t \in Seq(Byte), NEW ts, NEW q \in {"none", "'"}, NEW c \in Byte,
         q = "none" => safeByte(c), q = "'" => open /\ c # "'" /\ c # "newline"
  PROVE  readStep(At(q, FALSE, open, t, ts), c) = At(q, FALSE, TRUE, Append(t, c), ts)
<1>. DEFINE p == At(q, FALSE, open, t, ts)
            r == At(q, FALSE, TRUE, Append(t, c), ts)
<1>1. scanStep(p.sc, c) = r.sc
  <2>1. p.sc = Scan(q, ~open, FALSE, FALSE) /\ r.sc = Scan(q, FALSE, FALSE, FALSE) BY DEF At
  <2>2. c # "bslash" \/ q = "'" BY DEF safeByte
  <2>3. CASE q = "'"
    <3>. HIDE DEF p, r
    <3>1. c # q BY <2>3
    <3>. QED BY <2>1, <2>2, <2>3, <3>1 DEF Scan, scanStep
  <2>4. CASE q = "none"
    <3>1. c \in {"a", "n"} BY <2>4 DEF safeByte
    <3>2. c \notin Blank BY <3>1 DEF Blank
    <3>3. (c \in Blank) = FALSE BY <3>2
    <3>4. c \notin {"'", "dquote"} /\ c # ";" /\ c # "{" /\ c # "bslash" BY <3>1
    <3>. HIDE DEF p, r
    <3>5. p.sc.broken = FALSE /\ p.sc.escaped = FALSE /\ p.sc.quote = "none"
      BY <2>1, <2>4 DEF Scan
    <3>6. scanStep(p.sc, c) = Scan("none", c \in Blank, FALSE, FALSE) BY <3>4, <3>5 DEF scanStep
    <3>. QED BY <2>1, <2>4, <3>3, <3>6
  <2>. QED BY <2>3, <2>4
<1>2. LexStep(p.lx, c) = r.lx
  <2>. DEFINE st == p.lx
  <2>1. st = Token(IF q = "none" THEN "plain" ELSE q, FALSE, open, t, ts)
        /\ r.lx = Token(IF q = "none" THEN "plain" ELSE q, FALSE, TRUE, Append(t, c), ts)
    BY DEF At
  <2>. HIDE DEF p, r, st
  <2>2. st.mode = (IF q = "none" THEN "plain" ELSE q) /\ st.escaped = FALSE BY <2>1 DEF Token
  <2>3. CASE q = "none"
    <3>1. c \in {"a", "n"} BY <2>3 DEF safeByte
    <3>2. LexPlain(st, c) = Takes(st, c) BY <3>1 DEF LexPlain, Blank
    <3>3. LexStep(st, c) = Takes(st, c) BY <2>2, <2>3, <3>2 DEF LexStep
    <3>7. LexStep(st, c) = r.lx BY <2>1, <3>3 DEF Takes, Token
    <3>. QED BY <3>7 DEF st
  <2>4. CASE q = "'"
    <3>1. LexQuoted(st, c) = Takes(st, c) BY <2>2, <2>4 DEF LexQuoted
    <3>2. LexStep(st, c) = Takes(st, c) BY <2>2, <2>4, <3>1 DEF LexStep
    <3>7. LexStep(st, c) = r.lx BY <2>1, <3>2 DEF Takes, Token
    <3>. QED BY <3>7 DEF st
  <2>. QED BY <2>3, <2>4
<1>3. Seen(p.seen, c) = r.seen
  <2>1. r.seen.nul = (p.seen.nul \/ c = "nul") BY NulTaken DEF At
  <2>. QED BY <2>1 DEF At, Seen, safeByte, Blank
<1>4. r = [sc |-> r.sc, lx |-> r.lx, seen |-> r.seen] BY DEF At
<1>. HIDE DEF p, r
<1>5. readStep(p, c) = r BY <1>1, <1>2, <1>3, <1>4 DEF readStep
<1>. QED BY <1>5 DEF p, r

(* A quote outside of quotes opens.                                        *)
LEMMA OpensQuote ==
  ASSUME NEW open \in BOOLEAN, NEW t, NEW ts, NEW c \in {"'", "dquote"}
  PROVE  readStep(At("none", FALSE, open, t, ts), c) = At(c, FALSE, TRUE, t, ts)
<1>. DEFINE p == At("none", FALSE, open, t, ts)
            r == At(c, FALSE, TRUE, t, ts)
<1>1. scanStep(p.sc, c) = r.sc BY DEF At, Scan, scanStep
<1>2. LexStep(p.lx, c) = r.lx
  <2>. DEFINE st == p.lx
  <2>1. st = Token("plain", FALSE, open, t, ts) /\ r.lx = Token(c, FALSE, TRUE, t, ts) BY DEF At
  <2>. HIDE DEF p, r, st
  <2>2. st.mode = "plain" /\ st.escaped = FALSE BY <2>1 DEF Token
  <2>3. LexPlain(st, c) = Enters(st, c) BY DEF LexPlain, Blank
  <2>4. LexStep(st, c) = Enters(st, c) BY <2>2, <2>3 DEF LexStep
  <2>7. LexStep(st, c) = r.lx BY <2>1, <2>4 DEF Enters, Token
  <2>. QED BY <2>7 DEF st
<1>3. Seen(p.seen, c) = r.seen
  <2>1. NulIn(t, ts) \in BOOLEAN BY DEF NulIn
  <2>. QED BY <2>1 DEF At, Seen, Blank
<1>4. r = [sc |-> r.sc, lx |-> r.lx, seen |-> r.seen] BY DEF At
<1>. HIDE DEF p, r
<1>5. readStep(p, c) = r BY <1>1, <1>2, <1>3, <1>4 DEF readStep
<1>. QED BY <1>5 DEF p, r

(* The same quote closes.                                                  *)
LEMMA ClosesQuote ==
  ASSUME NEW t, NEW ts, NEW c \in {"'", "dquote"}
  PROVE  readStep(At(c, FALSE, TRUE, t, ts), c) = At("none", FALSE, TRUE, t, ts)
<1>. DEFINE p == At(c, FALSE, TRUE, t, ts)
            r == At("none", FALSE, TRUE, t, ts)
<1>1. scanStep(p.sc, c) = r.sc BY DEF At, Scan, scanStep
<1>2. LexStep(p.lx, c) = r.lx
  <2>. DEFINE st == p.lx
  <2>1. st = Token(c, FALSE, TRUE, t, ts) /\ r.lx = Token("plain", FALSE, TRUE, t, ts) BY DEF At
  <2>. HIDE DEF p, r, st
  <2>2. st.mode = c /\ st.escaped = FALSE BY <2>1 DEF Token
  <2>3. LexQuoted(st, c) = [st EXCEPT !.mode = "plain"] BY <2>2 DEF LexQuoted
  <2>4. LexStep(st, c) = [st EXCEPT !.mode = "plain"] BY <2>2, <2>3 DEF LexStep
  <2>7. LexStep(st, c) = r.lx BY <2>1, <2>4 DEF Token
  <2>. QED BY <2>7 DEF st
<1>3. Seen(p.seen, c) = r.seen
  <2>1. NulIn(t, ts) \in BOOLEAN BY DEF NulIn
  <2>. QED BY <2>1 DEF At, Seen, Blank
<1>4. r = [sc |-> r.sc, lx |-> r.lx, seen |-> r.seen] BY DEF At
<1>. HIDE DEF p, r
<1>5. readStep(p, c) = r BY <1>1, <1>2, <1>3, <1>4 DEF readStep
<1>. QED BY <1>5 DEF p, r

(* A backslash escapes, except within single quotes.                       *)
LEMMA Escapes ==
  ASSUME NEW open \in BOOLEAN, NEW t, NEW ts, NEW q \in {"none", "dquote"}, q = "dquote" => open
  PROVE  readStep(At(q, FALSE, open, t, ts), "bslash") = At(q, TRUE, TRUE, t, ts)
<1>. DEFINE p == At(q, FALSE, open, t, ts)
            r == At(q, TRUE, TRUE, t, ts)
<1>1. scanStep(p.sc, "bslash") = r.sc BY DEF At, Scan, scanStep
<1>2. LexStep(p.lx, "bslash") = r.lx
  <2>. DEFINE st == p.lx
              mode == IF q = "none" THEN "plain" ELSE q
              b == "bslash"
  <2>1. st = Token(mode, FALSE, open, t, ts) /\ r.lx = Token(mode, TRUE, TRUE, t, ts) BY DEF At
  <2>. HIDE DEF p, r, st
  <2>2. st.mode = mode /\ st.escaped = FALSE /\ st.open = open BY <2>1 DEF Token
  <2>3. CASE q = "none"
    <3>1. LexPlain(st, b) = [st EXCEPT !.open = TRUE, !.escaped = TRUE] BY DEF LexPlain, Blank
    <3>2. LexStep(st, b) = [st EXCEPT !.open = TRUE, !.escaped = TRUE]
      BY <2>2, <2>3, <3>1 DEF LexStep
    <3>7. LexStep(st, "bslash") = r.lx BY <2>1, <3>2 DEF Token
    <3>. QED BY <3>7 DEF st
  <2>4. CASE q = "dquote"
    <3>1. LexQuoted(st, b) = [st EXCEPT !.escaped = TRUE] BY <2>2, <2>4 DEF LexQuoted
    <3>2. LexStep(st, b) = [st EXCEPT !.escaped = TRUE] BY <2>2, <2>4, <3>1 DEF LexStep
    <3>3. open = TRUE BY <2>4
    <3>7. LexStep(st, "bslash") = r.lx BY <2>1, <3>2, <3>3 DEF Token
    <3>. QED BY <3>7 DEF st
  <2>. QED BY <2>3, <2>4
<1>3. Seen(p.seen, "bslash") = r.seen
  <2>1. NulIn(t, ts) \in BOOLEAN BY DEF NulIn
  <2>. QED BY <2>1 DEF At, Seen, Blank
<1>4. r = [sc |-> r.sc, lx |-> r.lx, seen |-> r.seen] BY DEF At
<1>. HIDE DEF p, r
<1>5. readStep(p, "bslash") = r BY <1>1, <1>2, <1>3, <1>4 DEF readStep
<1>. QED BY <1>5 DEF p, r

(* The letter n stands for a newline, any other byte for itself.           *)
Meant(c) == IF c = "n" THEN "newline" ELSE c

(* An escaped byte is taken for what it means.                             *)
LEMMA TakesEscaped ==
  ASSUME NEW t \in Seq(Byte), NEW ts, NEW q \in {"none", "dquote"}, NEW c \in Byte, c # "newline"
  PROVE  readStep(At(q, TRUE, TRUE, t, ts), c) = At(q, FALSE, TRUE, Append(t, Meant(c)), ts)
<1>. DEFINE d == Meant(c)
            p == At(q, TRUE, TRUE, t, ts)
            r == At(q, FALSE, TRUE, Append(t, d), ts)
<1>6. d = IF c = "n" THEN "newline" ELSE c BY DEF Meant
<1>. HIDE DEF d
<1>1. scanStep(p.sc, c) = r.sc BY DEF At, Scan, scanStep
<1>2. LexStep(p.lx, c) = r.lx
  <2>. DEFINE st == p.lx
              mode == IF q = "none" THEN "plain" ELSE q
  <2>1. st = Token(mode, TRUE, TRUE, t, ts) /\ r.lx = Token(mode, FALSE, TRUE, Append(t, d), ts)
    BY DEF At
  <2>. HIDE DEF p, r, st
  <2>2. st.mode # "comment" /\ st.escaped = TRUE BY <2>1 DEF Token
  <2>3. LexStep(st, c) = Takes(st, d) BY <1>6, <2>2 DEF LexStep
  <2>7. LexStep(st, c) = r.lx BY <2>1, <2>3 DEF Takes, Token
  <2>. QED BY <2>7 DEF st
<1>3. Seen(p.seen, c) = r.seen
  <2>1. d \in Byte /\ (d = "nul") = (c = "nul") BY <1>6 DEF Byte
  <2>2. r.seen.nul = (p.seen.nul \/ c = "nul") BY <2>1, NulTaken DEF At
  <2>. QED BY <2>2 DEF At, Seen
<1>4. r = [sc |-> r.sc, lx |-> r.lx, seen |-> r.seen] BY DEF At
<1>. HIDE DEF p, r
<1>5. readStep(p, c) = r BY <1>1, <1>2, <1>3, <1>4 DEF readStep
<1>. QED BY <1>5 DEF p, r, d

(* A space outside of quotes ends the token.                               *)
LEMMA EndsToken ==
  ASSUME NEW t \in Seq(Byte), NEW ts \in Seq(Seq(Byte))
  PROVE  readStep(At("none", FALSE, TRUE, t, ts), "space")
           = At("none", FALSE, FALSE, <<>>, Append(ts, t))
<1>. DEFINE p == At("none", FALSE, TRUE, t, ts)
            r == At("none", FALSE, FALSE, <<>>, Append(ts, t))
<1>1. scanStep(p.sc, "space") = r.sc BY DEF At, Scan, scanStep, Blank
<1>2. LexStep(p.lx, "space") = r.lx
  <2>. DEFINE st == p.lx
              b == "space"
  <2>1. st = Token("plain", FALSE, TRUE, t, ts)
        /\ r.lx = Token("plain", FALSE, FALSE, <<>>, Append(ts, t))
    BY DEF At
  <2>. HIDE DEF p, r, st
  <2>2. st.mode = "plain" /\ st.escaped = FALSE /\ st.open = TRUE BY <2>1 DEF Token
  <2>3. LexPlain(st, b) = EndToken(st) BY DEF LexPlain, Blank
  <2>4. LexStep(st, b) = EndToken(st) BY <2>2, <2>3 DEF LexStep
  <2>7. LexStep(st, "space") = r.lx BY <2>1, <2>2, <2>4 DEF EndToken, Token
  <2>. QED BY <2>7 DEF st
<1>3. Seen(p.seen, "space") = r.seen
  <2>1. Append(ts, t) # <<>> BY NotEmptied
  <2>2. r.seen.nul = p.seen.nul /\ p.seen.nul \in BOOLEAN
    <3>1. NulIn(t, ts) \in BOOLEAN BY DEF NulIn
    <3>. QED BY <3>1, NulEnds DEF At
  <2>. QED BY <2>1, <2>2 DEF At, Seen
<1>4. r = [sc |-> r.sc, lx |-> r.lx, seen |-> r.seen] BY DEF At
<1>. HIDE DEF p, r
<1>5. readStep(p, "space") = r BY <1>1, <1>2, <1>3, <1>4 DEF readStep
<1>. QED BY <1>5 DEF p, r

-----------------------------------------------------------------------------
(* What they make of a text                                                *)

(* The bytes of w take p to q.                                             *)
Leads(w, p, q) ==
  \E v : v[0] = p /\ v[Len(w)] = q /\ \A i \in 1..Len(w) : v[i] = readStep(v[i - 1], w[i])

(* No byte leads nowhere.                                                  *)
LEMMA LeadsNothing == \A p : Leads(<<>>, p, p)
<1>. SUFFICES ASSUME NEW p PROVE Leads(<<>>, p, p) OBVIOUS
<1>. DEFINE v == [i \in 0..0 |-> p]
<1>1. Len(<<>>) = 0 OBVIOUS
<1>2. v[0] = p /\ \A i \in 1..0 : v[i] = readStep(v[i - 1], <<>>[i]) OBVIOUS
<1>. HIDE DEF v
<1>. QED BY <1>1, <1>2 DEF Leads

(* One byte leads a step on.                                               *)
LEMMA LeadsByte ==
  ASSUME NEW p, NEW c \in Byte
  PROVE  Leads(<<c>>, p, readStep(p, c))
<1>. DEFINE w == <<c>>
            q == readStep(p, c)
            v == [i \in 0..1 |-> IF i = 0 THEN p ELSE q]
<1>1. Len(w) = 1 /\ w[1] = c BY Single
<1>2. v[0] = p /\ v[1] = q OBVIOUS
<1>. HIDE DEF v, w
<1>3. \A i \in 1..1 : v[i] = readStep(v[i - 1], w[i]) BY <1>1, <1>2
<1>4. Leads(w, p, q) BY <1>1, <1>2, <1>3 DEF Leads
<1>. QED BY <1>4 DEF w

(* Where one text leads on from where another has led, the two together    *)
(* lead.                                                                   *)
LEMMA LeadsOn ==
  ASSUME NEW w \in Seq(Byte), NEW x \in Seq(Byte), NEW p, NEW q, NEW r, Leads(w, p, q), Leads(x, q, r)
  PROVE  Leads(w \o x, p, r)
<1>. DEFINE m == Len(w)
            n == Len(x)
            y == w \o x
<1>1. /\ m \in Nat /\ n \in Nat /\ Len(y) = m + n
      /\ \A i \in 1..(m + n) : y[i] = IF i <= m THEN w[i] ELSE x[i - m]
  BY ConcatProperties
<1>2. PICK f : f[0] = p /\ f[m] = q /\ \A i \in 1..m : f[i] = readStep(f[i - 1], w[i]) BY DEF Leads
<1>3. PICK g : g[0] = q /\ g[n] = r /\ \A i \in 1..n : g[i] = readStep(g[i - 1], x[i]) BY DEF Leads
<1>. DEFINE v == [i \in 0..(m + n) |-> IF i <= m THEN f[i] ELSE g[i - m]]
<1>. HIDE DEF m, n, y
<1>4. \A i \in 0..m : v[i] = f[i] BY <1>1
<1>5. \A j \in 0..n : v[m + j] = g[j]
  <2>. SUFFICES ASSUME NEW j \in 0..n PROVE v[m + j] = g[j] OBVIOUS
  <2>1. m + j \in 0..(m + n) /\ (m + j) - m = j BY <1>1
  <2>2. v[m + j] = IF m + j <= m THEN f[m + j] ELSE g[j] BY <2>1
  <2>. HIDE DEF v
  <2>3. CASE j = 0
    <3>1. m + j = m BY <1>1, <2>3
    <3>. QED BY <1>1, <1>2, <1>3, <2>2, <2>3, <3>1
  <2>4. CASE j # 0
    <3>1. ~(m + j <= m) BY <1>1, <2>4
    <3>. QED BY <2>2, <3>1
  <2>. QED BY <2>3, <2>4
<1>. HIDE DEF v
<1>6. v[0] = p /\ v[m + n] = r BY <1>1, <1>2, <1>3, <1>4, <1>5
<1>7. \A i \in 1..(m + n) : v[i] = readStep(v[i - 1], y[i])
  <2>. SUFFICES ASSUME NEW i \in 1..(m + n) PROVE v[i] = readStep(v[i - 1], y[i]) OBVIOUS
  <2>1. CASE i <= m
    <3>1. i \in 1..m /\ i \in 0..m /\ i - 1 \in 0..m BY <1>1, <2>1
    <3>. QED BY <1>1, <1>2, <1>4, <2>1, <3>1
  <2>2. CASE ~(i <= m)
    <3>. DEFINE j == i - m
    <3>1. j \in 1..n /\ j \in 0..n /\ j - 1 \in 0..n /\ m + j = i /\ m + (j - 1) = i - 1
      BY <1>1, <2>2
    <3>2. y[i] = x[j] BY <1>1, <2>2
    <3>. HIDE DEF j
    <3>3. v[i] = g[j] /\ v[i - 1] = g[j - 1] BY <1>5, <3>1
    <3>. QED BY <1>3, <3>1, <3>2, <3>3
  <2>. QED BY <2>1, <2>2
<1>8. Leads(y, p, r) BY <1>1, <1>6, <1>7 DEF Leads
<1>. QED BY <1>8 DEF y

(* So does a whole sequence of texts.                                      *)
LEMMA LeadsAlong ==
  ASSUME NEW ss \in Seq(Seq(Byte)), NEW m, \A k \in 1..Len(ss) : Leads(ss[k], m[k - 1], m[k])
  PROVE  Leads(FlattenSeq(ss), m[0], m[Len(ss)]) /\ FlattenSeq(ss) \in Seq(Byte)
<1>. DEFINE L == Len(ss)
<1>1. PICK v \in [0..L -> Seq(Byte)] :
        /\ v[0] = <<>> /\ v[L] = FlattenSeq(ss)
        /\ \A k \in 1..L : v[k] = v[k - 1] \o ss[k]
  BY FlattenExists
<1>2. L \in Nat /\ \A k \in 1..L : ss[k] \in Seq(Byte) OBVIOUS
<1>. DEFINE T == {k \in 0..L : Leads(v[k], m[0], m[k])}
<1>. HIDE DEF L
<1>3. 0 \in T
  <2>1. Leads(v[0], m[0], m[0]) BY <1>1, LeadsNothing
  <2>. QED BY <1>2, <2>1
<1>4. ASSUME NEW k \in 1..L, k - 1 \in T PROVE k \in T
  <2>1. k - 1 \in 0..L /\ k \in 0..L BY <1>2
  <2>2. Leads(v[k - 1], m[0], m[k - 1]) BY <1>4
  <2>3. Leads(ss[k], m[k - 1], m[k]) BY DEF L
  <2>4. v[k - 1] \in Seq(Byte) /\ ss[k] \in Seq(Byte) BY <1>1, <1>2, <2>1
  <2>5. Leads(v[k - 1] \o ss[k], m[0], m[k]) BY <2>2, <2>3, <2>4, LeadsOn
  <2>. QED BY <1>1, <2>1, <2>5
<1>. HIDE DEF T
<1>5. 0..L \subseteq T BY <1>2, <1>3, <1>4, UpTo
<1>6. L \in T BY <1>2, <1>5
<1>7. FlattenSeq(ss) \in Seq(Byte) BY <1>1, <1>2
<1>. QED BY <1>1, <1>6, <1>7 DEF T, L

(* Before the first byte.                                                  *)
Start == At("none", FALSE, FALSE, <<>>, <<>>)

(* That is where commandBreak and tmux begin.                              *)
LEMMA StartIs ==
  /\ Start.sc = ScanStart /\ Start.lx = LexStart /\ ~Start.seen.nul /\ ~Start.seen.cut
  /\ Start.seen.first = "none"
<1>1. Start.sc = ScanStart
  <2>1. Scan("none", ~FALSE, FALSE, FALSE) = ScanStart BY DEF ScanStart, Scan
  <2>. QED BY <2>1 DEF Start, At
<1>2. Start.lx = LexStart BY DEF Start, At, Token, LexStart
<1>3. ~NulIn(<<>>, <<>>) BY DEF NulIn, Contains
<1>4. NulIn(<<>>, <<>>) = FALSE BY <1>3 DEF NulIn
<1>5. Start.seen = [first |-> "none", nul |-> FALSE, cut |-> FALSE] BY <1>4 DEF Start, At
<1>. QED BY <1>1, <1>2, <1>5

(* What a byte adds to what was seen.                                      *)
LEMMA SeenSays ==
  ASSUME NEW m, NEW c
  PROVE  /\ Seen(m, c).nul <=> m.nul \/ c = "nul"
         /\ Seen(m, c).cut <=> m.cut \/ c = "newline"
         /\ Seen(m, c).first = IF m.first # "none" THEN m.first
                               ELSE IF c \in Blank \union {"newline", "#"} THEN "bad" ELSE "good"
BY DEF Seen

(* Where a line leads from the start is where commandBreak and tmux end    *)
(* it, and it says what bytes are in it.                                   *)
LEMMA LeadsToEnd ==
  ASSUME NEW line \in Seq(Byte), NEW q, Leads(line, Start, q)
  PROVE  /\ scans(line)[Len(line)] = q.sc /\ lexes(line)[Len(line)] = q.lx
         /\ q.seen.nul <=> \E i \in 1..Len(line) : line[i] = "nul"
         /\ q.seen.cut <=> \E i \in 1..Len(line) : line[i] = "newline"
         /\ q.seen.first = "good" =>
              line # <<>> /\ line[1] \notin Blank \union {"newline", "#"}
<1>. DEFINE L == Len(line)
            sc == scans(line)
            lx == lexes(line)
            has(n, c) == \E i \in 1..n : line[i] = c
<1>1. PICK v : v[0] = Start /\ v[L] = q /\ \A i \in 1..L : v[i] = readStep(v[i - 1], line[i])
  BY DEF Leads
<1>2. L \in Nat OBVIOUS
<1>3. sc[0] = ScanStart /\ \A n \in 1..L : sc[n] = scanStep(sc[n - 1], line[n]) BY ScansAre
<1>4. lx[0] = LexStart /\ \A n \in 1..L : lx[n] = LexStep(lx[n - 1], line[n]) BY LexesAre
<1>. DEFINE Good(n) == /\ v[n].sc = sc[n] /\ v[n].lx = lx[n]
                       /\ v[n].seen.nul <=> has(n, "nul")
                       /\ v[n].seen.cut <=> has(n, "newline")
                       /\ v[n].seen.first = IF n = 0 THEN "none"
                                            ELSE IF line[1] \in Blank \union {"newline", "#"}
                                            THEN "bad" ELSE "good"
            T == {n \in 0..L : Good(n)}
<1>. HIDE DEF L, sc, lx
<1>5. 0 \in T
  <2>2. ~has(0, "nul") /\ ~has(0, "newline") OBVIOUS
  <2>3. Good(0) BY <1>1, <1>3, <1>4, <2>2, StartIs
  <2>4. 0 \in 0..L BY <1>2
  <2>. HIDE DEF Good
  <2>. QED BY <2>3, <2>4
<1>6. ASSUME NEW n \in 1..L, n - 1 \in T PROVE n \in T
  <2>. DEFINE a == v[n - 1]
              b == v[n]
              c == line[n]
  <2>1. n \in 0..L BY <1>2
  <2>2. Good(n - 1) BY <1>6
  <2>3. b = readStep(a, c) BY <1>1
  <2>4. b.sc = scanStep(a.sc, c) /\ b.lx = LexStep(a.lx, c) /\ b.seen = Seen(a.seen, c)
    BY <2>3 DEF readStep
  <2>5. (b.seen.nul <=> a.seen.nul \/ c = "nul") /\ (b.seen.cut <=> a.seen.cut \/ c = "newline")
    BY <2>4, SeenSays
  <2>6. \A x : has(n, x) <=> has(n - 1, x) \/ line[n] = x
    <3>1. \A i \in 1..n : i \in 1..(n - 1) \/ i = n OBVIOUS
    <3>2. \A i \in 1..(n - 1) : i \in 1..n OBVIOUS
    <3>3. n \in 1..n OBVIOUS
    <3>. QED BY <3>1, <3>2, <3>3
  <2>7. b.seen.first = IF line[1] \in Blank \union {"newline", "#"} THEN "bad" ELSE "good"
    <3>1. b.seen.first = IF a.seen.first # "none" THEN a.seen.first
                         ELSE IF c \in Blank \union {"newline", "#"} THEN "bad" ELSE "good"
      BY <2>4, SeenSays
    <3>2. CASE n = 1 BY <2>2, <3>1, <3>2
    <3>3. CASE n # 1
      <4>1. n - 1 # 0 BY <3>3
      <4>. QED BY <2>2, <3>1, <4>1
    <3>. QED BY <3>2, <3>3
  <2>8. b.sc = sc[n] /\ b.lx = lx[n] BY <1>3, <1>4, <2>2, <2>4
  <2>9. (a.seen.nul <=> has(n - 1, "nul")) /\ (a.seen.cut <=> has(n - 1, "newline")) BY <2>2
  <2>. HIDE DEF has, a, b
  <2>10. (b.seen.nul <=> has(n, "nul")) /\ (b.seen.cut <=> has(n, "newline"))
    BY <2>5, <2>6, <2>9
  <2>11. n # 0 OBVIOUS
  <2>12. Good(n) BY <2>7, <2>8, <2>10, <2>11 DEF b
  <2>. HIDE DEF Good
  <2>. QED BY <2>1, <2>12
<1>7. Good(L)
  <2>. HIDE DEF T, Good
  <2>1. 0..L \subseteq T BY <1>2, <1>5, <1>6, UpTo
  <2>2. L \in T BY <1>2, <2>1
  <2>. QED BY <2>2 DEF T
<1>8. q.sc = sc[L] /\ q.lx = lx[L] /\ (q.seen.nul <=> has(L, "nul"))
      /\ (q.seen.cut <=> has(L, "newline"))
  BY <1>1, <1>7
<1>9. q.seen.first = "good" => L # 0 /\ line[1] \notin Blank \union {"newline", "#"}
  BY <1>1, <1>7
<1>10. L # 0 => line # <<>> BY EmptySeq DEF L
<1>. QED BY <1>8, <1>9, <1>10 DEF L, sc, lx

-----------------------------------------------------------------------------
(* What they make of what quoting writes                                   *)

(* The steps that quoteToken's bytes take, as relations.                   *)
Stands(q, o, c) ==
  (q = "none" => safeByte(c)) /\ (q = "'" => o /\ c # "'" /\ c # "newline")
Taken(q, o, t, c, ts) ==
  readStep(At(q, FALSE, o, t, ts), c) = At(q, FALSE, TRUE, Append(t, c), ts)
BeginsEscape(o, t, ts) ==
  readStep(At("none", FALSE, o, t, ts), "bslash") = At("none", TRUE, TRUE, t, ts)
EndsEscape(t, c, ts) ==
  readStep(At("none", TRUE, TRUE, t, ts), c) = At("none", FALSE, TRUE, Append(t, c), ts)

(* TakesByte in those terms.                                               *)
LEMMA TakesIt ==
  ASSUME NEW o \in BOOLEAN, NEW t \in Seq(Byte), NEW ts, NEW q \in {"none", "'"}, NEW c \in Byte,
         Stands(q, o, c)
  PROVE  Taken(q, o, t, c, ts)
<1>1. q = "none" => safeByte(c) BY DEF Stands
<1>2. q = "'" => o /\ c # "'" /\ c # "newline" BY DEF Stands
<1>3. readStep(At(q, FALSE, o, t, ts), c) = At(q, FALSE, TRUE, Append(t, c), ts)
  BY <1>1, <1>2, TakesByte, Zenon
<1>. QED BY <1>3 DEF Taken

(* A backslash and a byte other than n take that byte.                     *)
LEMMA EscapesIt ==
  ASSUME NEW o \in BOOLEAN, NEW t \in Seq(Byte), NEW ts, NEW c \in Byte, c # "newline", c # "n"
  PROVE  BeginsEscape(o, t, ts) /\ EndsEscape(t, c, ts)
<1>. DEFINE n == "none"
<1>1. n \in {"none", "dquote"} /\ n # "dquote" OBVIOUS
<1>2. Meant(c) = c BY DEF Meant
<1>. HIDE DEF n
<1>3. n = "dquote" => o BY <1>1
<1>4. readStep(At(n, FALSE, o, t, ts), "bslash") = At(n, TRUE, TRUE, t, ts)
  BY <1>1, <1>3, Escapes, ZenonT(30)
<1>5. readStep(At(n, TRUE, TRUE, t, ts), c) = At(n, FALSE, TRUE, Append(t, Meant(c)), ts)
  BY <1>1, TakesEscaped, Zenon
<1>. QED BY <1>2, <1>4, <1>5 DEF n, BeginsEscape, EndsEscape

(* Bytes that stand for themselves.                                        *)
LEMMA BytesTaken ==
  ASSUME NEW r \in Seq(Byte), NEW open \in BOOLEAN, NEW t \in Seq(Byte), NEW ts,
         NEW q \in {"none", "'"}, q = "'" => open,
         \A i \in 1..Len(r) : IF q = "none" THEN safeByte(r[i]) ELSE r[i] # "'" /\ r[i] # "newline"
  PROVE  Leads(r, At(q, FALSE, open, t, ts), At(q, FALSE, open \/ r # <<>>, t \o r, ts))
<1>. DEFINE L == Len(r)
            u(i) == t \o SubSeq(r, 1, i)
            v == [i \in 0..L |-> At(q, FALSE, IF i = 0 THEN open ELSE TRUE, u(i), ts)]
<1>1. L \in Nat /\ \A i \in 1..L : r[i] \in Byte OBVIOUS
<1>2. u(0) = t /\ u(L) = t \o r /\ (\A i \in 0..L : u(i) \in Seq(Byte))
      /\ \A i \in 1..L : u(i) = Append(u(i - 1), r[i])
  <2>1. GrowsBy(Byte, t, r) BY Grown
  <2>. QED BY <2>1, Zenon DEF GrowsBy
<1>3. (open \/ r # <<>>) = IF L = 0 THEN open ELSE TRUE BY EmptySeq
<1>. HIDE DEF u, L
<1>4. \A i \in 0..L : v[i] = At(q, FALSE, IF i = 0 THEN open ELSE TRUE, u(i), ts) OBVIOUS
<1>. HIDE DEF v
<1>5. v[0] = At(q, FALSE, open, t, ts)
      /\ v[L] = At(q, FALSE, open \/ r # <<>>, t \o r, ts)
  <2>1. 0 \in 0..L /\ L \in 0..L BY <1>1
  <2>2. v[0] = At(q, FALSE, open, u(0), ts) BY <1>4, <2>1
  <2>3. v[L] = At(q, FALSE, IF L = 0 THEN open ELSE TRUE, u(L), ts) BY <1>4, <2>1
  <2>. QED BY <1>2, <1>3, <2>2, <2>3
<1>6. \A i \in 1..L : v[i] = readStep(v[i - 1], r[i])
  <2>. SUFFICES ASSUME NEW i \in 1..L PROVE v[i] = readStep(v[i - 1], r[i]) OBVIOUS
  <2>. DEFINE o == IF i - 1 = 0 THEN open ELSE TRUE
  <2>1. i - 1 \in 0..L /\ i \in 0..L /\ i # 0 BY <1>1
  <2>2. v[i - 1] = At(q, FALSE, o, u(i - 1), ts) /\ v[i] = At(q, FALSE, TRUE, u(i), ts)
    BY <1>4, <2>1
  <2>3. u(i - 1) \in Seq(Byte) /\ r[i] \in Byte /\ o \in BOOLEAN /\ (q = "'" => o)
    BY <1>1, <1>2, <2>1
  <2>4. (q = "none" => safeByte(r[i])) /\ (q = "'" => r[i] # "'" /\ r[i] # "newline") BY DEF L
  <2>. HIDE DEF o
  <2>5. readStep(At(q, FALSE, o, u(i - 1), ts), r[i]) = At(q, FALSE, TRUE, Append(u(i - 1), r[i]), ts)
    <3>1. Stands(q, o, r[i]) BY <2>3, <2>4 DEF Stands
    <3>2. Taken(q, o, u(i - 1), r[i], ts) BY <2>3, <3>1, TakesIt
    <3>. QED BY <3>2 DEF Taken
  <2>. QED BY <1>2, <2>2, <2>5
<1>. QED BY <1>5, <1>6 DEF Leads, L

(* quoteToken, whichever of its three ways it takes: tmux has the run it   *)
(* was given, within the token it was in.                                  *)
LEMMA TokenRead ==
  ASSUME NEW r \in Seq(Byte), r # <<>>, \A i \in 1..Len(r) : r[i] # "newline",
         NEW open \in BOOLEAN, NEW t \in Seq(Byte), NEW ts
  PROVE  /\ quoteToken(r) \in Seq(Byte)
         /\ Leads(quoteToken(r), At("none", FALSE, open, t, ts), At("none", FALSE, TRUE, t \o r, ts))
<1>. DEFINE p == At("none", FALSE, open, t, ts)
            z == At("none", FALSE, TRUE, t \o r, ts)
<1>1. CASE ~needsQuoting(r)
  <2>1. quoteToken(r) = r BY <1>1 DEF quoteToken
  <2>2. \A i \in 1..Len(r) : safeByte(r[i]) BY <1>1 DEF needsQuoting
  <2>3. (open \/ r # <<>>) = TRUE OBVIOUS
  <2>4. Leads(r, p, At("none", FALSE, open \/ r # <<>>, t \o r, ts)) BY <2>2, BytesTaken
  <2>. QED BY <2>1, <2>3, <2>4
<1>2. CASE needsQuoting(r) /\ ~Contains(r, "'")
  <2>. DEFINE c == "'"
              d == <<c>>
              p1 == At(c, FALSE, TRUE, t, ts)
              p2 == At(c, FALSE, TRUE, t \o r, ts)
  <2>1. quoteToken(r) = (d \o r) \o d BY <1>2 DEF quoteToken
  <2>2. c \in Byte BY DEF Byte
  <2>3. d \in Seq(Byte) BY <2>2, Single
  <2>4. readStep(p, c) = p1 BY OpensQuote
  <2>5. Leads(d, p, p1) BY <2>2, <2>4, LeadsByte
  <2>6. \A i \in 1..Len(r) : r[i] # "'" BY <1>2 DEF Contains
  <2>7. (TRUE \/ r # <<>>) = TRUE OBVIOUS
  <2>8. Leads(r, p1, p2)
    <3>1. Leads(r, p1, At(c, FALSE, TRUE \/ r # <<>>, t \o r, ts)) BY <2>6, BytesTaken
    <3>. QED BY <2>7, <3>1
  <2>9. readStep(p2, c) = z BY ClosesQuote
  <2>10. Leads(d, p2, z) BY <2>2, <2>9, LeadsByte
  <2>. HIDE DEF p, p1, p2, z, d
  <2>11. d \o r \in Seq(Byte) BY <2>3, ConcatProperties
  <2>12. Leads(d \o r, p, p2) BY <2>3, <2>5, <2>8, LeadsOn
  <2>13. Leads((d \o r) \o d, p, z) BY <2>3, <2>10, <2>11, <2>12, LeadsOn
  <2>14. (d \o r) \o d \in Seq(Byte) BY <2>3, <2>11, ConcatProperties
  <2>. QED BY <2>1, <2>13, <2>14 DEF p, z
<1>3. CASE needsQuoting(r) /\ Contains(r, "'")
  <2>. DEFINE L == Len(r)
              b == "bslash"
              ss == [i \in 1..L |-> IF safeByte(r[i]) THEN <<r[i]>> ELSE <<b, r[i]>>]
              u(i) == t \o SubSeq(r, 1, i)
              m == [i \in 0..L |-> At("none", FALSE, IF i = 0 THEN open ELSE TRUE, u(i), ts)]
  <2>1. quoteToken(r) = FlattenSeq(ss) BY <1>3 DEF quoteToken
  <2>2. L \in Nat \ {0} /\ (\A i \in 1..L : r[i] \in Byte) /\ b \in Byte
    <3>1. "bslash" \in Byte BY DEF Byte
    <3>. QED BY <3>1, EmptySeq
  <2>3. u(0) = t /\ u(L) = t \o r /\ (\A i \in 0..L : u(i) \in Seq(Byte))
        /\ \A i \in 1..L : u(i) = Append(u(i - 1), r[i])
    <3>1. /\ t \o SubSeq(r, 1, 0) = t /\ t \o SubSeq(r, 1, Len(r)) = t \o r
          /\ \A i \in 0..Len(r) : t \o SubSeq(r, 1, i) \in Seq(Byte)
          /\ \A i \in 1..Len(r) :
               t \o SubSeq(r, 1, i) = Append(t \o SubSeq(r, 1, i - 1), r[i])
      <4>. HIDE DEF ss, m, L, u
      <4>1. GrowsBy(Byte, t, r) BY Grown
      <4>. QED BY <4>1, Zenon DEF GrowsBy
    <3>. HIDE DEF ss, m
    <3>. QED BY <3>1, Zenon
  <2>4. \A i \in 1..L : ss[i] \in Seq(Byte)
    <3>. SUFFICES ASSUME NEW i \in 1..L PROVE ss[i] \in Seq(Byte) OBVIOUS
    <3>1. r[i] \in Byte BY <2>2
    <3>2. <<r[i]>> \in Seq(Byte) BY <3>1, Single
    <3>3. <<b, r[i]>> \in Seq(Byte) BY <2>2, <3>1, Pair
    <3>. QED BY <3>2, <3>3
  <2>5. ss \in Seq(Seq(Byte)) /\ Len(ss) = L BY <2>2, <2>4
  <2>6. \A i \in 1..L : ss[i] = IF safeByte(r[i]) THEN <<r[i]>> ELSE <<b, r[i]>> OBVIOUS
  <2>. HIDE DEF ss, u, L
  <2>7. \A i \in 0..L : m[i] = At("none", FALSE, IF i = 0 THEN open ELSE TRUE, u(i), ts) OBVIOUS
  <2>. HIDE DEF m
  <2>8. ASSUME NEW i \in 1..L PROVE Leads(ss[i], m[i - 1], m[i])
    <3>. DEFINE o == IF i - 1 = 0 THEN open ELSE TRUE
                c == r[i]
                w == u(i - 1)
    <3>1. i - 1 \in 0..L /\ i \in 0..L /\ i # 0 BY <2>2
    <3>2. m[i - 1] = At("none", FALSE, o, w, ts) /\ m[i] = At("none", FALSE, TRUE, Append(w, c), ts)
      BY <2>3, <2>7, <3>1
    <3>3. w \in Seq(Byte) /\ c \in Byte /\ o \in BOOLEAN /\ c # "newline" BY <2>2, <2>3, <3>1 DEF L
    <3>. HIDE DEF o, w, c
    <3>4. CASE safeByte(c)
      <4>1. readStep(m[i - 1], c) = m[i]
        <5>. DEFINE n == "none"
        <5>1. n \in {"none", "'"} /\ n # "'" OBVIOUS
        <5>. HIDE DEF n
        <5>2. Stands(n, o, c) BY <3>4, <5>1 DEF Stands
        <5>3. Taken(n, o, w, c, ts) BY <3>3, <5>1, <5>2, TakesIt
        <5>. QED BY <3>2, <5>3 DEF Taken, n
      <4>2. ss[i] = <<c>> BY <2>6, <3>4 DEF c
      <4>3. Leads(<<c>>, m[i - 1], readStep(m[i - 1], c)) BY <3>3, LeadsByte
      <4>. QED BY <4>1, <4>2, <4>3
    <3>5. CASE ~safeByte(c)
      <4>. DEFINE e == At("none", TRUE, TRUE, w, ts)
      <4>1. ss[i] = <<b, c>> BY <2>6, <3>5 DEF c
      <4>2. <<b, c>> = <<b>> \o <<c>> BY <2>2, <3>3, Pair
      <4>4. c # "n" BY <3>5 DEF safeByte
      <4>3. readStep(m[i - 1], b) = e
        <5>1. BeginsEscape(o, w, ts) BY <3>3, <4>4, EscapesIt
        <5>. QED BY <3>2, <5>1 DEF BeginsEscape
      <4>5. readStep(e, c) = m[i]
        <5>1. EndsEscape(w, c, ts) BY <3>3, <4>4, EscapesIt
        <5>. QED BY <3>2, <5>1 DEF EndsEscape
      <4>. HIDE DEF e
      <4>6. Leads(<<b>>, m[i - 1], e) BY <2>2, <4>3, LeadsByte
      <4>7. Leads(<<c>>, e, m[i]) BY <3>3, <4>5, LeadsByte
      <4>8. <<b>> \in Seq(Byte) /\ <<c>> \in Seq(Byte) BY <2>2, <3>3, Single
      <4>9. Leads(<<b>> \o <<c>>, m[i - 1], m[i]) BY <4>6, <4>7, <4>8, LeadsOn
      <4>. QED BY <4>1, <4>2, <4>9
    <3>. QED BY <3>4, <3>5
  <2>9. Leads(FlattenSeq(ss), m[0], m[L]) /\ FlattenSeq(ss) \in Seq(Byte)
    <3>1. \A k \in 1..Len(ss) : Leads(ss[k], m[k - 1], m[k]) BY <2>5, <2>8
    <3>. QED BY <2>5, <3>1, LeadsAlong
  <2>10. m[0] = p /\ m[L] = z
    <3>1. 0 \in 0..L /\ L \in 0..L /\ L # 0 BY <2>2
    <3>2. m[0] = At("none", FALSE, open, u(0), ts) BY <2>7, <3>1
    <3>3. m[L] = At("none", FALSE, TRUE, u(L), ts) BY <2>7, <3>1
    <3>. QED BY <2>3, <3>2, <3>3
  <2>. QED BY <2>1, <2>9, <2>10
<1>. QED BY <1>1, <1>2, <1>3

(* Outside of quotes.                                                      *)
Plain(open, t, ts) == At("none", FALSE, open, t, ts)

(* The bytes that quoting writes.                                          *)
LEMMA BytesAre ==
  /\ "newline" \in Byte /\ "space" \in Byte /\ "'" \in Byte /\ "dquote" \in Byte /\ "n" \in Byte
  /\ "bslash" \in Byte
BY DEF Byte

(* The letter n, escaped within double quotes, is a newline.               *)
EndsNewline(t, ts) ==
  readStep(At("dquote", TRUE, TRUE, t, ts), "n")
    = At("dquote", FALSE, TRUE, Append(t, "newline"), ts)

(* An escaped n is taken so.                                               *)
LEMMA EndsNewlineRead ==
  ASSUME NEW t \in Seq(Byte), NEW ts
  PROVE  EndsNewline(t, ts)
<1>. DEFINE k == "dquote"
            y == "n"
            z == "newline"
<1>1. y \in Byte BY BytesAre
<1>2. y # "newline" OBVIOUS
<1>3. Meant(y) = z BY DEF Meant
<1>4. k \in {"none", "dquote"} OBVIOUS
<1>. HIDE DEF y, z, k
<1>5. readStep(At(k, TRUE, TRUE, t, ts), y) = At(k, FALSE, TRUE, Append(t, Meant(y)), ts)
  BY <1>1, <1>2, <1>4, TakesEscaped, Zenon
<1>. QED BY <1>3, <1>5 DEF y, z, k, EndsNewline

(* quoteArg's NewlineEscape is a newline of the token it is in.            *)
LEMMA NewlineRead ==
  ASSUME NEW open \in BOOLEAN, NEW t \in Seq(Byte), NEW ts
  PROVE  /\ NewlineEscape \in Seq(Byte)
         /\ Leads(NewlineEscape, Plain(open, t, ts), Plain(TRUE, Append(t, "newline"), ts))
<1>. DEFINE w == NewlineEscape
            d == "dquote"
            p0 == Plain(open, t, ts)
            p1 == At(d, FALSE, TRUE, t, ts)
            p2 == At(d, TRUE, TRUE, t, ts)
            p3 == At(d, FALSE, TRUE, Append(t, "newline"), ts)
            p4 == Plain(TRUE, Append(t, "newline"), ts)
            v == [i \in 0..4 |-> IF i = 0 THEN p0 ELSE IF i = 1 THEN p1 ELSE IF i = 2 THEN p2
                                 ELSE IF i = 3 THEN p3 ELSE p4]
<1>1. w \in Seq(Byte) /\ Len(w) = 4 /\ w[1] = d /\ w[2] = "bslash" /\ w[3] = "n" /\ w[4] = d
  BY BytesAre DEF NewlineEscape
<1>2. readStep(p0, d) = p1 BY OpensQuote DEF Plain
<1>3. readStep(p1, "bslash") = p2 BY Escapes
<1>4. readStep(p2, "n") = p3 BY EndsNewlineRead DEF EndsNewline
<1>5. readStep(p3, d) = p4 BY ClosesQuote DEF Plain
<1>6. v[0] = p0 /\ v[1] = p1 /\ v[2] = p2 /\ v[3] = p3 /\ v[4] = p4 OBVIOUS
<1>. HIDE DEF w, v, p0, p1, p2, p3, p4, d
<1>7. \A i \in 1..4 : v[i] = readStep(v[i - 1], w[i])
  <2>1. v[1] = readStep(v[1 - 1], w[1]) /\ v[2] = readStep(v[2 - 1], w[2])
        /\ v[3] = readStep(v[3 - 1], w[3]) /\ v[4] = readStep(v[4 - 1], w[4])
    BY <1>1, <1>2, <1>3, <1>4, <1>5, <1>6
  <2>2. \A i \in 1..4 : i = 1 \/ i = 2 \/ i = 3 \/ i = 4 OBVIOUS
  <2>. QED BY <2>1, <2>2
<1>8. Leads(w, p0, p4) BY <1>1, <1>6, <1>7 DEF Leads
<1>. QED BY <1>1, <1>8 DEF w, p0, p4

(* A pair of quotes is a token that holds nothing.                         *)
LEMMA QuotesRead ==
  ASSUME NEW t, NEW ts
  PROVE  /\ <<"'", "'">> \in Seq(Byte)
         /\ Leads(<<"'", "'">>, Plain(FALSE, t, ts), Plain(TRUE, t, ts))
<1>. DEFINE c == "'"
            w == <<c, c>>
            p0 == Plain(FALSE, t, ts)
            p1 == At(c, FALSE, TRUE, t, ts)
            p2 == Plain(TRUE, t, ts)
            v == [i \in 0..2 |-> IF i = 0 THEN p0 ELSE IF i = 1 THEN p1 ELSE p2]
<1>1. w \in Seq(Byte) /\ Len(w) = 2 /\ w[1] = c /\ w[2] = c BY BytesAre
<1>2. readStep(p0, c) = p1 BY OpensQuote DEF Plain
<1>3. readStep(p1, c) = p2 BY ClosesQuote DEF Plain
<1>4. v[0] = p0 /\ v[1] = p1 /\ v[2] = p2 OBVIOUS
<1>. HIDE DEF w, v, p0, p1, p2, c
<1>5. \A i \in 1..2 : v[i] = readStep(v[i - 1], w[i])
  <2>1. v[1] = readStep(v[1 - 1], w[1]) /\ v[2] = readStep(v[2 - 1], w[2])
    BY <1>1, <1>2, <1>3, <1>4
  <2>2. \A i \in 1..2 : i = 1 \/ i = 2 OBVIOUS
  <2>. QED BY <2>1, <2>2
<1>6. Leads(w, p0, p2) BY <1>1, <1>4, <1>5 DEF Leads
<1>. QED BY <1>1, <1>6 DEF w, c, p0, p2

(* quoteArg's Chunk, of a run that holds no newline.                       *)
ChunkOf(r) == IF r = <<>> THEN <<>> ELSE quoteToken(r)
CleanOf(r) == \A i \in 1..Len(r) : r[i] # "newline"

(* A run goes into the token, and opens one unless it is empty.            *)
LEMMA ChunkRead ==
  ASSUME NEW r \in Seq(Byte), CleanOf(r), NEW open \in BOOLEAN, NEW t \in Seq(Byte), NEW ts
  PROVE  /\ ChunkOf(r) \in Seq(Byte)
         /\ Leads(ChunkOf(r), Plain(open, t, ts), Plain(open \/ r # <<>>, t \o r, ts))
<1>1. CASE r = <<>>
  <2>1. ChunkOf(r) = <<>> /\ (open \/ r # <<>>) = open BY <1>1 DEF ChunkOf
  <2>2. t \o r = t BY <1>1, ConcatEmptySeq
  <2>3. <<>> \in Seq(Byte) OBVIOUS
  <2>4. Leads(<<>>, Plain(open, t, ts), Plain(open, t, ts)) BY LeadsNothing
  <2>. QED BY <2>1, <2>2, <2>3, <2>4
<1>2. CASE r # <<>>
  <2>1. ChunkOf(r) = quoteToken(r) /\ (open \/ r # <<>>) = TRUE BY <1>2 DEF ChunkOf
  <2>2. quoteToken(r) \in Seq(Byte)
        /\ Leads(quoteToken(r), At("none", FALSE, open, t, ts), At("none", FALSE, TRUE, t \o r, ts))
    BY <1>2, TokenRead DEF CleanOf
  <2>. QED BY <2>1, <2>2 DEF Plain
<1>. QED BY <1>1, <1>2

(* One run of an argument, with the newline before it unless it is first.  *)
PieceOf(first, r) == (IF first THEN <<>> ELSE NewlineEscape) \o ChunkOf(r)
PartOf(first, r) == (IF first THEN <<>> ELSE <<"newline">>) \o r

(* A run and the newline before it go into the token.                      *)
LEMMA PieceRead ==
  ASSUME NEW r \in Seq(Byte), CleanOf(r), NEW first \in BOOLEAN, NEW t \in Seq(Byte), NEW ts,
         first => t = <<>>
  PROVE  /\ PieceOf(first, r) \in Seq(Byte)
         /\ Leads(PieceOf(first, r), Plain(t # <<>>, t, ts),
                  Plain(t \o PartOf(first, r) # <<>>, t \o PartOf(first, r), ts))
<1>. DEFINE w == ChunkOf(r)
<1>1. CASE first
  <2>1. t = <<>> /\ (t # <<>>) = FALSE BY <1>1
  <2>2. w \in Seq(Byte) /\ Leads(w, Plain(FALSE, t, ts), Plain(FALSE \/ r # <<>>, t \o r, ts))
    BY ChunkRead
  <2>3. (FALSE \/ r # <<>>) = (r # <<>>) OBVIOUS
  <2>. HIDE DEF w
  <2>4. PieceOf(first, r) = w BY <1>1, <2>2, ConcatEmptySeq DEF PieceOf, w
  <2>5. PartOf(first, r) = r /\ t \o r = r BY <1>1, <2>1, ConcatEmptySeq DEF PartOf
  <2>. QED BY <2>1, <2>2, <2>3, <2>4, <2>5
<1>2. CASE ~first
  <2>. DEFINE c == "newline"
              x == Append(t, c)
              e == NewlineEscape
              o == t # <<>>
  <2>1. x \in Seq(Byte) BY BytesAre
  <2>2. e \in Seq(Byte) /\ Leads(e, Plain(o, t, ts), Plain(TRUE, x, ts)) BY NewlineRead
  <2>3. (TRUE \/ r # <<>>) = TRUE OBVIOUS
  <2>. HIDE DEF x
  <2>4. w \in Seq(Byte) /\ Leads(w, Plain(TRUE, x, ts), Plain(TRUE \/ r # <<>>, x \o r, ts))
    BY <2>1, ChunkRead
  <2>. HIDE DEF w, e
  <2>5. Leads(e \o w, Plain(o, t, ts), Plain(TRUE, x \o r, ts)) BY <2>2, <2>3, <2>4, LeadsOn
  <2>6. e \o w \in Seq(Byte) BY <2>2, <2>4, ConcatProperties
  <2>7. x \o r = t \o (<<c>> \o r)
    <3>. DEFINE d == <<c>>
    <3>1. c \in Byte BY BytesAre
    <3>2. d \in Seq(Byte) BY <3>1, Single
    <3>3. x = t \o d BY <3>1, AppendIsConcat DEF x
    <3>. HIDE DEF d
    <3>4. (t \o d) \o r = t \o (d \o r) BY <3>2, ConcatAssociative
    <3>. QED BY <3>3, <3>4 DEF d
  <2>8. (x \o r # <<>>) = TRUE
    <3>1. Len(x) = Len(t) + 1 BY BytesAre, AppendProperties DEF x
    <3>2. Len(x \o r) = Len(x) + Len(r) BY <2>1, ConcatProperties
    <3>3. Len(x \o r) # 0
      <4>1. Len(t) \in Nat /\ Len(r) \in Nat OBVIOUS
      <4>. QED BY <3>1, <3>2, <4>1
    <3>. QED BY <3>3
  <2>9. PieceOf(first, r) = e \o w BY <1>2 DEF PieceOf, e, w
  <2>10. PartOf(first, r) = <<c>> \o r BY <1>2 DEF PartOf
  <2>. QED BY <2>5, <2>6, <2>7, <2>8, <2>9, <2>10
<1>. QED BY <1>1, <1>2

(* quoteArg: tmux reads the argument as one token, however it is cut.      *)
LEMMA ArgRead ==
  ASSUME NEW s \in Seq(Byte), NEW ts
  PROVE  /\ quoteArg(s) \in Seq(Byte)
         /\ Leads(quoteArg(s), Plain(FALSE, <<>>, ts), Plain(TRUE, s, ts))
<1>1. CASE s = <<>>
  <2>1. quoteArg(s) = <<"'", "'">> BY <1>1 DEF quoteArg
  <2>. QED BY <1>1, <2>1, QuotesRead
<1>2. CASE s # <<>>
  <2>. DEFINE rs == Runs(s)
              L == Len(rs)
              ps == Pieces(rs)
              ss == [k \in 1..L |-> PieceOf(k = 1, rs[k])]
  <2>1. /\ rs \in Seq(Seq(Byte)) /\ rs # <<>> /\ FlattenSeq(ps) = s
        /\ \A k \in 1..L : CleanOf(rs[k])
    BY RunsAre DEF CleanOf
  <2>2. L \in Nat /\ L # 0 /\ \A k \in 1..L : rs[k] \in Seq(Byte) BY <2>1, EmptySeq
  <2>3. quoteArg(s) = FlattenSeq(ss)
    <3>1. quoteArg(s) = FlattenSeq([k \in 1..L |->
            (IF k > 1 THEN NewlineEscape ELSE <<>>) \o ChunkOf(rs[k])])
      BY <1>2 DEF quoteArg, ChunkOf
    <3>2. \A k \in 1..L : PieceOf(k = 1, rs[k])
            = (IF k > 1 THEN NewlineEscape ELSE <<>>) \o ChunkOf(rs[k])
      <4>. SUFFICES ASSUME NEW k \in 1..L
                    PROVE  PieceOf(k = 1, rs[k])
                             = (IF k > 1 THEN NewlineEscape ELSE <<>>) \o ChunkOf(rs[k])
        OBVIOUS
      <4>1. k > 1 <=> k # 1 BY <2>2
      <4>. QED BY <4>1 DEF PieceOf
    <3>. QED BY <3>1, <3>2
  <2>4. ps \in Seq(Seq(Byte)) /\ Len(ps) = L BY <2>1, PiecesTyped
  <2>5. \A k \in 1..L : ps[k] = PartOf(k = 1, rs[k])
    <3>. SUFFICES ASSUME NEW k \in 1..L PROVE ps[k] = PartOf(k = 1, rs[k]) OBVIOUS
    <3>1. k > 1 <=> k # 1 BY <2>2
    <3>2. ps[k] = (IF k > 1 THEN <<"newline">> ELSE <<>>) \o rs[k] BY DEF Pieces
    <3>. QED BY <3>1, <3>2 DEF PartOf
  <2>6. PICK v \in [0..L -> Seq(Byte)] :
          v[0] = <<>> /\ v[L] = s /\ \A k \in 1..L : v[k] = v[k - 1] \o ps[k]
    <3>. HIDE DEF ps, ss, L, rs
    <3>1. Flattens(Byte, ps, Len(ps), FlattenSeq(ps)) BY <2>4, FlattensTo
    <3>2. Flattens(Byte, ps, L, s) BY <2>1, <2>4, <3>1
    <3>. QED BY <3>2 DEF Flattens
  <2>. DEFINE m == [k \in 0..L |-> Plain(v[k] # <<>>, v[k], ts)]
  <2>7. \A k \in 0..L : m[k] = Plain(v[k] # <<>>, v[k], ts) /\ v[k] \in Seq(Byte) OBVIOUS
  <2>8. \A k \in 1..L : ss[k] = PieceOf(k = 1, rs[k]) OBVIOUS
  <2>10. ss = [k \in 1..L |-> ss[k]] OBVIOUS
  <2>. HIDE DEF m, ss, ps, L, rs
  <2>11. ASSUME NEW k \in 1..L
         PROVE  ss[k] \in Seq(Byte) /\ Leads(ss[k], m[k - 1], m[k])
    <3>. DEFINE first == k = 1
                t == v[k - 1]
                r == rs[k]
    <3>1. k - 1 \in 0..L /\ k \in 0..L BY <2>2
    <3>2. t \in Seq(Byte) /\ r \in Seq(Byte) /\ CleanOf(r) BY <2>1, <2>2, <2>7, <3>1
    <3>3. first => t = <<>>
      <4>1. 1 - 1 = 0 OBVIOUS
      <4>. QED BY <2>6, <4>1
    <3>4. m[k - 1] = Plain(t # <<>>, t, ts) BY <2>7, <3>1
    <3>5. v[k] = t \o PartOf(first, r) BY ZenonT(40), <2>5, <2>6
    <3>6. m[k] = Plain(t \o PartOf(first, r) # <<>>, t \o PartOf(first, r), ts)
      BY <2>7, <3>1, <3>5
    <3>7. ss[k] = PieceOf(first, r) BY <2>8
    <3>8. first \in BOOLEAN OBVIOUS
    <3>. HIDE DEF first, t, r
    <3>9. /\ PieceOf(first, r) \in Seq(Byte)
          /\ Leads(PieceOf(first, r), Plain(t # <<>>, t, ts),
                   Plain(t \o PartOf(first, r) # <<>>, t \o PartOf(first, r), ts))
      BY <3>2, <3>3, <3>8, PieceRead
    <3>. QED BY <3>4, <3>6, <3>7, <3>9
  <2>12. ss \in Seq(Seq(Byte)) /\ Len(ss) = L
    <3>1. \A k \in 1..L : ss[k] \in Seq(Byte) BY <2>11
    <3>2. SeqWith(Seq(Byte), L, ss) BY <2>2, <2>10, <3>1, MadeSeq
    <3>. QED BY <3>2 DEF SeqWith
  <2>13. Leads(FlattenSeq(ss), m[0], m[L]) /\ FlattenSeq(ss) \in Seq(Byte)
    <3>1. \A k \in 1..Len(ss) : Leads(ss[k], m[k - 1], m[k]) BY <2>11, <2>12
    <3>. QED BY <2>12, <3>1, LeadsAlong
  <2>14. m[0] = Plain(FALSE, <<>>, ts)
    <3>1. m[0] = Plain(v[0] # <<>>, v[0], ts) BY <2>2, <2>7
    <3>2. (<<>> # <<>>) = FALSE OBVIOUS
    <3>. QED BY <2>6, <3>1, <3>2
  <2>15. m[L] = Plain(TRUE, s, ts)
    <3>1. m[L] = Plain(v[L] # <<>>, v[L], ts) BY <2>2, <2>7
    <3>2. (s # <<>>) = TRUE BY <1>2
    <3>. QED BY <2>6, <3>1, <3>2
  <2>. QED BY <2>3, <2>13, <2>14, <2>15
<1>. QED BY <1>1, <1>2

(* An argument, with the space before it unless it is the first.           *)
WordOf(first, s) == (IF first THEN <<>> ELSE <<"space">>) \o quoteArg(s)

(* After its space, it is the token after the one before.                  *)
LEMMA WordRead ==
  ASSUME NEW s \in Seq(Byte), NEW t \in Seq(Byte), NEW ts \in Seq(Seq(Byte))
  PROVE  /\ WordOf(TRUE, s) \in Seq(Byte) /\ WordOf(FALSE, s) \in Seq(Byte)
         /\ Leads(WordOf(TRUE, s), Plain(FALSE, <<>>, <<>>), Plain(TRUE, s, <<>>))
         /\ Leads(WordOf(FALSE, s), Plain(TRUE, t, ts), Plain(TRUE, s, Append(ts, t)))
<1>. DEFINE w == quoteArg(s)
            c == "space"
            d == <<c>>
            us == Append(ts, t)
<1>1. w \in Seq(Byte) /\ Leads(w, Plain(FALSE, <<>>, <<>>), Plain(TRUE, s, <<>>)) BY ArgRead
<1>2. Leads(w, Plain(FALSE, <<>>, us), Plain(TRUE, s, us)) BY ArgRead
<1>3. c \in Byte BY BytesAre
<1>4. d \in Seq(Byte) BY <1>3, Single
<1>5. readStep(Plain(TRUE, t, ts), c) = Plain(FALSE, <<>>, us) BY EndsToken DEF Plain
<1>. HIDE DEF w, c, us
<1>6. Leads(d, Plain(TRUE, t, ts), Plain(FALSE, <<>>, us)) BY <1>3, <1>5, LeadsByte
<1>. HIDE DEF d
<1>7. Leads(d \o w, Plain(TRUE, t, ts), Plain(TRUE, s, us)) BY <1>1, <1>2, <1>4, <1>6, LeadsOn
<1>8. d \o w \in Seq(Byte) BY <1>1, <1>4, ConcatProperties
<1>9. WordOf(TRUE, s) = w BY <1>1, ConcatEmptySeq DEF WordOf, w
<1>10. WordOf(FALSE, s) = d \o w BY DEF WordOf, w, c, d
<1>. QED BY <1>1, <1>7, <1>8, <1>9, <1>10 DEF us

(* DoArgsLine: all but the last argument have become tokens when the line  *)
(* ends, and the last one is the token it is in.                           *)
LEMMA LineRead ==
  ASSUME NEW a \in Seq(Seq(Byte)), a # <<>>
  PROVE  /\ DoArgsLine(a) \in Seq(Byte)
         /\ Leads(DoArgsLine(a), Start, Plain(TRUE, a[Len(a)], SubSeq(a, 1, Len(a) - 1)))
<1>. DEFINE L == Len(a)
            b(k) == SubSeq(a, 1, k - 1)
            ss == [k \in 1..L |-> WordOf(k = 1, a[k])]
            m == [k \in 0..L |-> IF k = 0 THEN Start ELSE Plain(TRUE, a[k], b(k))]
<1>1. L \in Nat /\ L # 0 /\ \A k \in 1..L : a[k] \in Seq(Byte) BY EmptySeq
<1>2. DoArgsLine(a) = FlattenSeq(ss)
  <2>1. DoArgsLine(a) = FlattenSeq([k \in 1..L |->
          (IF k > 1 THEN <<"space">> ELSE <<>>) \o quoteArg(a[k])])
    BY DEF DoArgsLine
  <2>2. \A k \in 1..L : WordOf(k = 1, a[k])
          = (IF k > 1 THEN <<"space">> ELSE <<>>) \o quoteArg(a[k])
    <3>. SUFFICES ASSUME NEW k \in 1..L
                  PROVE  WordOf(k = 1, a[k])
                           = (IF k > 1 THEN <<"space">> ELSE <<>>) \o quoteArg(a[k])
      OBVIOUS
    <3>1. k > 1 <=> k # 1 BY <1>1
    <3>. QED BY <3>1 DEF WordOf
  <2>. QED BY <2>1, <2>2
<1>3. b(1) = <<>>
  <2>1. 1 - 1 = 0 OBVIOUS
  <2>. QED BY <2>1, SubSeqEmpty
<1>4. \A k \in 1..L : k # 1 => b(k - 1) \in Seq(Seq(Byte)) /\ b(k) = Append(b(k - 1), a[k - 1])
  <2>. SUFFICES ASSUME NEW k \in 1..L, k # 1
                PROVE  b(k - 1) \in Seq(Seq(Byte)) /\ b(k) = Append(b(k - 1), a[k - 1])
    OBVIOUS
  <2>. DEFINE n == k - 1
              x == SubSeq(a, 1, n - 1)
              y == a[n]
              W == Seq(Byte)
  <2>1. n \in 1..L /\ n \in 1..Len(a) /\ n - 1 \in Int /\ 1 \in 1..Len(a) BY <1>1
  <2>2. \A j \in 1..(n - 1) : j \in 1..Len(a) BY <2>1
  <2>3. \A j \in 1..(n - 1) : a[j] \in W BY <1>1, <2>2
  <2>. HIDE DEF W, n
  <2>4. x \in Seq(W) BY <2>1, <2>3, SubSeqProperties
  <2>5. y \in W BY <1>1, <2>1 DEF W
  <2>6. SubSeq(a, 1, n) = x \o <<y>> BY <2>1, SubSeqRecursiveSecond DEF W
  <2>. HIDE DEF x, y
  <2>7. Append(x, y) = x \o <<y>> BY <2>4, <2>5, AppendIsConcat
  <2>. QED BY <2>4, <2>6, <2>7 DEF x, y, n, W
<1>5. \A k \in 1..L : ss[k] = WordOf(k = 1, a[k]) OBVIOUS
<1>6. ss = [k \in 1..L |-> ss[k]] OBVIOUS
<1>7. \A k \in 0..L : m[k] = IF k = 0 THEN Start ELSE Plain(TRUE, a[k], b(k)) OBVIOUS
<1>. HIDE DEF L, ss, m, b
<1>8. ASSUME NEW k \in 1..L
      PROVE  ss[k] \in Seq(Byte) /\ Leads(ss[k], m[k - 1], m[k])
  <2>1. k - 1 \in 0..L /\ k \in 0..L /\ k # 0 /\ a[k] \in Seq(Byte) BY <1>1
  <2>2. m[k] = Plain(TRUE, a[k], b(k)) BY <1>7, <2>1
  <2>3. CASE k = 1
    <3>1. m[k - 1] = Plain(FALSE, <<>>, <<>>)
      <4>1. k - 1 = 0 BY <2>3
      <4>2. m[k - 1] = Start BY <1>7, <2>1, <4>1
      <4>. QED BY <4>2 DEF Start, Plain
    <3>2. (k = 1) = TRUE BY <2>3
    <3>3. ss[k] = WordOf(TRUE, a[k]) BY <1>5, <3>2
    <3>4. b(k) = <<>> BY <1>3, <2>3
    <3>5. <<>> \in Seq(Byte) /\ <<>> \in Seq(Seq(Byte)) OBVIOUS
    <3>6. /\ WordOf(TRUE, a[k]) \in Seq(Byte)
          /\ Leads(WordOf(TRUE, a[k]), Plain(FALSE, <<>>, <<>>), Plain(TRUE, a[k], <<>>))
      BY <2>1, <3>5, WordRead
    <3>. QED BY <2>2, <3>1, <3>3, <3>4, <3>6
  <2>4. CASE k # 1
    <3>. DEFINE t == a[k - 1]
                ts == b(k - 1)
                s == a[k]
    <3>1. k - 1 \in 1..L /\ k - 1 # 0 BY <1>1, <2>4
    <3>2. m[k - 1] = Plain(TRUE, t, ts) BY <1>7, <2>1, <3>1
    <3>3. (k = 1) = FALSE BY <2>4
    <3>4. ss[k] = WordOf(FALSE, s) BY <1>5, <3>3
    <3>5. ts \in Seq(Seq(Byte)) /\ b(k) = Append(ts, t) BY <1>4, <2>4
    <3>6. t \in Seq(Byte) /\ s \in Seq(Byte) BY <1>1, <3>1
    <3>. HIDE DEF t, ts, s
    <3>7. /\ WordOf(FALSE, s) \in Seq(Byte)
          /\ Leads(WordOf(FALSE, s), Plain(TRUE, t, ts), Plain(TRUE, s, Append(ts, t)))
      BY <3>5, <3>6, WordRead
    <3>. QED BY <2>2, <3>2, <3>4, <3>5, <3>7 DEF s
  <2>. QED BY <2>3, <2>4
<1>9. ss \in Seq(Seq(Byte)) /\ Len(ss) = L
  <2>1. \A k \in 1..L : ss[k] \in Seq(Byte) BY <1>8
  <2>2. SeqWith(Seq(Byte), L, ss) BY <1>1, <1>6, <2>1, MadeSeq
  <2>. QED BY <2>2 DEF SeqWith
<1>10. Leads(FlattenSeq(ss), m[0], m[L]) /\ FlattenSeq(ss) \in Seq(Byte)
  <2>1. \A k \in 1..Len(ss) : Leads(ss[k], m[k - 1], m[k]) BY <1>8, <1>9
  <2>. QED BY <1>9, <2>1, LeadsAlong
<1>11. m[0] = Start /\ m[L] = Plain(TRUE, a[L], b(L))
  <2>1. 0 \in 0..L /\ L \in 0..L /\ L # 0 BY <1>1
  <2>2. m[0] = Start BY <1>7, <2>1
  <2>3. m[L] = Plain(TRUE, a[L], b(L)) BY <1>7, <2>1
  <2>. QED BY <2>2, <2>3
<1>. QED BY <1>2, <1>10, <1>11 DEF L, b

(* The end of the line ends the last token, and the one command.           *)
LEMMA EndsAs ==
  ASSUME NEW t \in Seq(Byte), NEW ts \in Seq(Seq(Byte))
  PROVE  /\ ~Plain(TRUE, t, ts).sc.broken
         /\ EndCommand(Plain(TRUE, t, ts).lx).done = <<Append(ts, t)>>
         /\ ~EndCommand(Plain(TRUE, t, ts).lx).nested /\ ~EndCommand(Plain(TRUE, t, ts).lx).expands
         /\ Plain(TRUE, t, ts).seen = [first |-> "good", nul |-> NulIn(t, ts), cut |-> FALSE]
<1>. DEFINE q == Plain(TRUE, t, ts)
            st == q.lx
            us == Append(ts, t)
<1>1. q.sc = Scan("none", ~TRUE, FALSE, FALSE) BY DEF Plain, At
<1>2. st = Token("plain", FALSE, TRUE, t, ts) BY DEF Plain, At
<1>3. q.seen = [first |-> "good", nul |-> NulIn(t, ts), cut |-> FALSE] BY DEF Plain, At
<1>4. us # <<>> BY NotEmptied
<1>5. Append(<<>>, us) = <<us>> OBVIOUS
<1>. HIDE DEF q, st, us
<1>6. /\ st.open = TRUE /\ st.tokens = ts /\ st.token = t /\ st.done = <<>>
      /\ st.nested = FALSE /\ st.expands = FALSE
  BY <1>2 DEF Token
<1>7. EndToken(st) = [st EXCEPT !.open = FALSE, !.token = <<>>, !.tokens = us]
  BY <1>6 DEF EndToken, us
<1>8. EndToken(st) = [Token("plain", FALSE, FALSE, <<>>, us) EXCEPT !.done = <<>>]
  BY <1>2, <1>7 DEF Token
<1>9. EndToken(st).tokens = us /\ EndToken(st).done = <<>> /\ EndToken(st).nested = FALSE
      /\ EndToken(st).expands = FALSE
  BY <1>8 DEF Token
<1>10. EndCommand(st) = [EndToken(st) EXCEPT !.tokens = <<>>, !.done = Append(<<>>, us)]
  BY <1>4, <1>9 DEF EndCommand
<1>11. EndCommand(st).done = <<us>> /\ EndCommand(st).nested = FALSE
       /\ EndCommand(st).expands = FALSE
  BY <1>5, <1>8, <1>10 DEF Token
<1>12. ~q.sc.broken BY <1>1 DEF Scan
<1>. QED BY <1>3, <1>11, <1>12 DEF q, st, us

(* DoArgs: Do lets its line through unless an argument holds a NUL, and    *)
(* tmux reads from it the arguments that were given.                       *)
LEMMA ArgsArrive ==
  ASSUME NEW a \in Seq(Seq(Byte)), a # <<>>
  PROVE  LET line == DoArgsLine(a)
             holdsNul == \E i \in 1..Len(a) : Contains(a[i], "nul")
         IN IF holdsNul THEN ~Accepts(line)
            ELSE /\ Accepts(line) /\ Lex(line).done = <<a>>
                 /\ ~Lex(line).nested /\ ~Lex(line).expands
<1>. DEFINE line == DoArgsLine(a)
            L == Len(a)
            t == a[L]
            ts == SubSeq(a, 1, L - 1)
            q == Plain(TRUE, t, ts)
            holdsNul == \E i \in 1..L : Contains(a[i], "nul")
<1>1. line \in Seq(Byte) /\ Leads(line, Start, q) BY LineRead
<1>2. L \in Nat /\ L # 0 /\ t \in Seq(Byte) BY EmptySeq
<1>3. ts \in Seq(Seq(Byte)) /\ Append(ts, t) = a /\ Len(ts) = L - 1
      /\ \A i \in 1..(L - 1) : ts[i] = a[i]
  <2>. DEFINE W == Seq(Byte)
  <2>1. L - 1 \in Int /\ L \in 1..Len(a) /\ 1 \in 1..Len(a) BY <1>2
  <2>2. \A j \in 1..(L - 1) : j \in 1..Len(a) BY <1>2
  <2>3. \A j \in 1..(L - 1) : a[j] \in W BY <2>2
  <2>4. t \in W BY <1>2
  <2>. HIDE DEF W, L
  <2>5. /\ ts \in Seq(W) /\ Len(ts) = IF 1 <= L - 1 THEN L - 1 - 1 + 1 ELSE 0
        /\ \A i \in 1..(L - 1 - 1 + 1) : ts[i] = a[1 + i - 1]
    BY <2>1, <2>3, SubSeqProperties
  <2>6. Len(ts) = L - 1 /\ \A i \in 1..(L - 1) : ts[i] = a[i] BY <1>2, <2>5
  <2>7. SubSeq(a, 1, L) = ts \o <<t>> BY <2>1, SubSeqRecursiveSecond DEF W
  <2>8. SubSeq(a, 1, L) = a BY SubSeqFull DEF L
  <2>. HIDE DEF ts, t
  <2>9. Append(ts, t) = ts \o <<t>> BY <2>4, <2>5, AppendIsConcat
  <2>. QED BY <2>5, <2>6, <2>7, <2>8, <2>9 DEF W
<1>. HIDE DEF q, t, ts, line, L
<1>4. NulIn(t, ts) <=> holdsNul
  <2>. DEFINE has(x) == Contains(x, "nul")
  <2>1. NulIn(t, ts) <=> has(t) \/ \E i \in 1..(L - 1) : has(ts[i]) BY <1>3 DEF NulIn
  <2>2. t = a[L] BY DEF t
  <2>. HIDE DEF has
  <2>3. (\E i \in 1..(L - 1) : has(ts[i])) <=> \E i \in 1..(L - 1) : has(a[i]) BY <1>3
  <2>4. (\E i \in 1..L : has(a[i])) <=> has(a[L]) \/ \E i \in 1..(L - 1) : has(a[i])
    <3>1. \A i \in 1..L : i = L \/ i \in 1..(L - 1) BY <1>2
    <3>2. L \in 1..L /\ \A i \in 1..(L - 1) : i \in 1..L BY <1>2
    <3>. QED BY <3>1, <3>2
  <2>. QED BY <2>1, <2>2, <2>3, <2>4 DEF has
<1>5. /\ ~q.sc.broken /\ EndCommand(q.lx).done = <<Append(ts, t)>>
      /\ ~EndCommand(q.lx).nested /\ ~EndCommand(q.lx).expands
      /\ q.seen = [first |-> "good", nul |-> NulIn(t, ts), cut |-> FALSE]
  <2>1. t \in Seq(Byte) /\ ts \in Seq(Seq(Byte)) BY <1>2, <1>3
  <2>. QED BY <2>1, EndsAs DEF q
<1>6. q.seen.first = "good" /\ q.seen.cut = FALSE /\ (q.seen.nul <=> holdsNul)
  BY <1>4, <1>5
<1>7. /\ scans(line)[Len(line)] = q.sc /\ lexes(line)[Len(line)] = q.lx
      /\ q.seen.nul <=> \E i \in 1..Len(line) : line[i] = "nul"
      /\ q.seen.cut <=> \E i \in 1..Len(line) : line[i] = "newline"
      /\ q.seen.first = "good" => line # <<>> /\ line[1] \notin Blank \union {"newline", "#"}
  BY <1>1, LeadsToEnd
<1>8. ~commandBreak(line) BY <1>5, <1>7 DEF commandBreak
<1>9. Lex(line).done = <<a>> /\ ~Lex(line).nested /\ ~Lex(line).expands
  BY <1>3, <1>5, <1>7 DEF Lex
<1>10. (\E i \in 1..Len(line) : line[i] = "nul") <=> holdsNul BY <1>6, <1>7
<1>11. ~\E i \in 1..Len(line) : line[i] = "newline" BY <1>6, <1>7
<1>12. line # <<>> /\ line[1] \notin Blank /\ line[1] # "newline" /\ line[1] # "#"
  BY <1>6, <1>7
<1>13. Len(line) \in Nat /\ Len(line) # 0 BY <1>1, <1>12, EmptySeq
<1>. HIDE DEF holdsNul
<1>14. ~commentStart(line)
  <2>. SUFFICES ASSUME NEW i \in 1..Len(line), line[i] = "#",
                       \A j \in 1..(i - 1) : line[j] \in Blank
                PROVE  FALSE
    BY DEF commentStart
  <2>1. i # 1 BY <1>12
  <2>2. 1 \in 1..(i - 1) BY <1>13, <2>1
  <2>. QED BY <1>12, <2>2
<1>15. \E i \in 1..Len(line) : line[i] \notin Blank \union {"newline"}
  <2>1. 1 \in 1..Len(line) BY <1>13
  <2>. QED BY <1>12, <2>1
<1>16. Accepts(line) <=> ~holdsNul BY <1>8, <1>10, <1>11, <1>14, <1>15 DEF Accepts
<1>. QED BY <1>9, <1>16 DEF holdsNul, line, L

-----------------------------------------------------------------------------
(* What holds of every line and every vector                               *)

(* The arguments are bytes, and there is one.                              *)
ArgsTyped == args \in Seq(Seq(Byte)) /\ args # <<>>

(* There is always a last argument to add to, and it is made of bytes.     *)
LEMMA ArgsAreBytes == Spec => []ArgsTyped
<1>1. Init => ArgsTyped
  <2>1. NoArgs \in Seq(Seq(Byte)) /\ NoArgs # <<>> BY DEF NoArgs
  <2>. QED BY <2>1 DEF Init, ArgsTyped
<1>2. ArgsTyped /\ [Next]_<<args, value, faulty, input>> => ArgsTyped'
  <2>. SUFFICES ASSUME ArgsTyped, [Next]_<<args, value, faulty, input>> PROVE ArgsTyped' OBVIOUS
  <2>1. CASE TypeByte
    <3>1. PICK c \in Byte : args' = [args EXCEPT ![Len(args)] = Append(@, c)] BY <2>1 DEF TypeByte
    <3>2. Len(args) \in 1..Len(args) /\ args[Len(args)] \in Seq(Byte)
      BY EmptySeq DEF ArgsTyped
    <3>3. Append(args[Len(args)], c) \in Seq(Byte) BY <3>2
    <3>4. args' \in Seq(Seq(Byte)) /\ Len(args') = Len(args)
      BY <3>1, <3>2, <3>3, ExceptSeq DEF ArgsTyped
    <3>. QED BY <3>2, <3>4, EmptySeq DEF ArgsTyped
  <2>2. CASE NextArg
    <3>1. <<>> \in Seq(Byte) OBVIOUS
    <3>. QED BY SMTT(30), <2>2, <3>1, NotEmptied DEF NextArg, ArgsTyped
  <2>3. CASE UNCHANGED args BY <2>3 DEF ArgsTyped
  <2>. QED BY <2>1, <2>2, <2>3
       DEF Next, AddByte, Grows, AddCall, AddRow, AddRelease, AddNotice, AddNoise, AddSubscription,
           AddPause, AddOption
<1>. QED BY <1>1, <1>2, PTL DEF Spec

(* Do: a line that its checks let through is exactly one command to tmux,  *)
(* however long it is and whatever quotes, escapes and comments are in it. *)
THEOREM AcceptedCorrect == Spec => []AcceptedIsOneCommand
<1>1. ArgsTyped => AcceptedIsOneCommand
  <2>. SUFFICES ASSUME ArgsTyped, Accepts(args[1]) PROVE OneCommand(args[1])
    BY DEF AcceptedIsOneCommand
  <2>1. args[1] \in Seq(Byte) BY EmptySeq DEF ArgsTyped
  <2>. QED BY <2>1, AcceptedIsOne
<1>. QED BY <1>1, ArgsAreBytes, PTL

(* escapeTrailingSemicolon: a vector of any arguments reaches tmux as one  *)
(* command with those very arguments.                                      *)
LEMMA VectorArrivesAlways == ArgsTyped => VectorArrives
<1>. SUFFICES ASSUME ArgsTyped PROVE VectorArrives OBVIOUS
<1>. DEFINE n == Len(args)
            sent == escapeTrailingSemicolon(args)
<1>1. n \in Nat /\ \A i \in 1..n : args[i] \in Seq(Byte) BY DEF ArgsTyped
<1>2. Len(sent) = n /\ \A i \in 1..n : sent[i] = escapeArg(args[i])
  BY <1>1 DEF escapeTrailingSemicolon
<1>. HIDE DEF sent
<1>3. \A i \in 1..n : ~Separates(sent[i]) /\ ReadElement(sent[i]) = args[i]
  BY <1>1, <1>2, ElementArrives
<1>4. args = [i \in 1..n |-> args[i]] BY DEF ArgsTyped
<1>5. [i \in 1..Len(sent) |-> ReadElement(sent[i])] = args BY <1>2, <1>3, <1>4
<1>6. ReadVector(sent).whole /\ ReadVector(sent).args = args
  BY <1>2, <1>3, <1>5 DEF ReadVector
<1>. QED BY <1>6 DEF VectorArrives, sent

(* DoArgs, and the one-shot client: arguments of any number, of any length *)
(* and of any bytes reach tmux as one command with those very arguments,   *)
(* nothing expanded; only a NUL is refused, and only by the line.          *)
THEOREM ArgumentsCorrect == Spec => []ArgumentsArrive
<1>1. ArgsTyped => ArgumentsArrive
  <2>1. ArgsTyped => DoArgsArrives BY ArgsArrive DEF DoArgsArrives, ArgsTyped
  <2>. QED BY <2>1, VectorArrivesAlways DEF ArgumentsArrive
<1>. QED BY <1>1, ArgsAreBytes, PTL

-----------------------------------------------------------------------------
(***************************************************************************)
(* The value codecs.  An encoder maps the bytes one by one (Mapped); a     *)
(* decoder is a loop that reads a piece at its place and jumps over it     *)
(* (ReadFrom).  "Reads(d, Z, p, t)" says that whatever follows it, d reads *)
(* the piece p as t, so the pieces that an encoder makes of the bytes are  *)
(* read as the bytes (ReadsMapped).  What is to be shown of a pair of them *)
(* is then a lemma about one byte.                                         *)
(***************************************************************************)

Code == 0..255

(* A function each of whose values is made from those further on.          *)
JumpsBack(S, M, G) ==
  \E u \in [1..M -> S] : \A i \in 1..M : u[i] = G[i][u]

(* There is one, if what is made for a place depends on nothing before it. *)
LEMMA JumpsExist ==
  ASSUME NEW S, NEW a \in S, NEW M \in Nat, NEW G \in [1..M -> [[1..M -> S] -> S]],
         \A i \in 1..M : \A u, w \in [1..M -> S] :
           (\A j \in (i + 1)..M : u[j] = w[j]) => G[i][u] = G[i][w]
  PROVE  JumpsBack(S, M, G)
<1>. DEFINE Done(u, m) == \A i \in 1..M : i > M - m => u[i] = G[i][u]
            T == {m \in 0..M : \E u \in [1..M -> S] : Done(u, m)}
<1>1. 0 \in T
  <2>. DEFINE v == [i \in 1..M |-> a]
  <2>1. v \in [1..M -> S] /\ Done(v, 0) OBVIOUS
  <2>. HIDE DEF v, Done
  <2>. QED BY <2>1
<1>2. ASSUME NEW m \in 1..M, m - 1 \in T PROVE m \in T
  <2>1. PICK u \in [1..M -> S] : Done(u, m - 1) BY <1>2
  <2>. DEFINE k == M - m + 1
              w == G[k][u]
              v == [u EXCEPT ![k] = w]
  <2>2. k \in 1..M /\ w \in S OBVIOUS
  <2>. HIDE DEF w
  <2>3. v \in [1..M -> S] /\ v[k] = w /\ \A i \in 1..M : i # k => v[i] = u[i] BY <2>2
  <2>. HIDE DEF v
  <2>4. ASSUME NEW i \in 1..M, i > M - m PROVE v[i] = G[i][v]
    <3>1. \A j \in (i + 1)..M : v[j] = u[j]
      <4>1. \A j \in (i + 1)..M : j \in 1..M /\ j # k BY <2>4
      <4>. QED BY <2>3, <4>1
    <3>2. G[i][v] = G[i][u] BY <2>3, <3>1
    <3>3. CASE i = k BY <2>3, <3>2, <3>3 DEF w
    <3>4. CASE i # k
      <4>1. i > M - (m - 1) BY <2>4, <3>4
      <4>. QED BY <2>1, <2>3, <3>2, <3>4, <4>1
    <3>. QED BY <3>3, <3>4
  <2>5. Done(v, m) BY <2>4
  <2>. HIDE DEF Done
  <2>. QED BY <2>3, <2>5
<1>3. 0..M \subseteq T
  <2>. HIDE DEF T
  <2>. QED BY <1>1, <1>2, UpTo
<1>4. M \in T
  <2>. HIDE DEF T
  <2>. QED BY <1>3
<1>5. PICK u \in [1..M -> S] : Done(u, M) BY <1>4
<1>6. \A i \in 1..M : i > M - M OBVIOUS
<1>. QED BY <1>5, <1>6 DEF JumpsBack

-----------------------------------------------------------------------------
(* What a byte becomes, and what bytes do *)

(* The bytes of s one after the other, each as h has it.                   *)
Mapped(h, s) == FlattenSeq([i \in 1..Len(s) |-> h[s[i]]])

(* Nothing is mapped to nothing, and one byte more to its image more.      *)
LEMMA MappedAppend ==
  ASSUME NEW A, NEW B, NEW h \in [A -> Seq(B)]
  PROVE  /\ Mapped(h, <<>>) = <<>>
         /\ \A s \in Seq(A) : Mapped(h, s) \in Seq(B)
         /\ \A s \in Seq(A), x \in A : Mapped(h, Append(s, x)) = Mapped(h, s) \o h[x]
<1>. DEFINE Images(s) == [i \in 1..Len(s) |-> h[s[i]]]
<1>1. Images(<<>>) = <<>> /\ Mapped(h, <<>>) = FlattenSeq(<<>>) BY DEF Mapped
<1>2. FlattenSeq(<<>>) = <<>> BY DEF FlattenSeq
<1>3. ASSUME NEW s \in Seq(A) PROVE Images(s) \in Seq(Seq(B)) /\ Len(Images(s)) = Len(s)
  <2>1. Len(s) \in Nat /\ \A i \in 1..Len(s) : Images(s)[i] \in Seq(B) OBVIOUS
  <2>2. Images(s) = [i \in 1..Len(s) |-> Images(s)[i]] OBVIOUS
  <2>3. SeqWith(Seq(B), Len(s), Images(s))
    <3>. HIDE DEF Images
    <3>. QED BY <2>1, <2>2, MadeSeq
  <2>. QED BY <2>3 DEF SeqWith
<1>4. ASSUME NEW s \in Seq(A), NEW x \in A
      PROVE  Images(Append(s, x)) = Append(Images(s), h[x])
  <2>. DEFINE t == Append(s, x)
              f == Images(t)
              g == Append(Images(s), h[x])
  <2>1. t \in Seq(A) /\ Len(t) = Len(s) + 1 /\ t[Len(s) + 1] = x
        /\ \A i \in 1..Len(s) : t[i] = s[i]
    BY AppendProperties
  <2>2. f \in Seq(Seq(B)) /\ Len(f) = Len(s) + 1 BY <1>3, <2>1
  <2>3. /\ g \in Seq(Seq(B)) /\ Len(g) = Len(s) + 1 /\ g[Len(s) + 1] = h[x]
        /\ \A i \in 1..Len(s) : g[i] = Images(s)[i]
    <3>1. h[x] \in Seq(B) OBVIOUS
    <3>. HIDE DEF Images
    <3>. QED BY <1>3, <3>1, AppendProperties
  <2>4. \A i \in 1..Len(f) : f[i] = g[i]
    <3>1. \A i \in 1..Len(f) : f[i] = h[t[i]] BY <2>1
    <3>2. \A i \in 1..Len(s) : g[i] = h[s[i]] BY <2>3
    <3>3. f[Len(s) + 1] = h[x] BY <2>1
    <3>4. \A i \in 1..Len(s) : f[i] = h[s[i]] BY <2>1
    <3>. HIDE DEF f, g, t
    <3>5. Len(s) \in Nat /\ \A i \in 1..(Len(s) + 1) : i \in 1..Len(s) \/ i = Len(s) + 1 OBVIOUS
    <3>. QED BY <2>2, <2>3, <3>2, <3>3, <3>4, <3>5
  <2>. HIDE DEF f, g
  <2>5. f = g BY <2>2, <2>3, <2>4, SeqEqual
  <2>. QED BY <2>5 DEF f, g
<1>5. \A s \in Seq(A) : Mapped(h, s) = FlattenSeq(Images(s)) BY DEF Mapped
<1>. HIDE DEF Images
<1>6. ASSUME NEW s \in Seq(A), NEW x \in A
      PROVE  Mapped(h, Append(s, x)) = Mapped(h, s) \o h[x] /\ Mapped(h, s) \in Seq(B)
  <2>1. Append(s, x) \in Seq(A) /\ h[x] \in Seq(B) OBVIOUS
  <2>. QED BY <1>3, <1>4, <1>5, <2>1, FlattenAppend
<1>7. ASSUME NEW s \in Seq(A) PROVE Mapped(h, s) \in Seq(B)
  <2>1. CASE s = <<>>
    <3>1. <<>> \in Seq(B) OBVIOUS
    <3>. QED BY <1>1, <1>2, <2>1, <3>1
  <2>2. CASE s # <<>>
    <3>1. s[1] \in A BY <2>2
    <3>. QED BY <1>6, <3>1
  <2>. QED BY <2>1, <2>2
<1>. QED BY <1>1, <1>2, <1>6, <1>7

(* A set that holds the empty sequence and, with each sequence, those one  *)
(* longer, holds all.                                                      *)
LEMMA ByAppend ==
  ASSUME NEW A, NEW Z, <<>> \in Z,
         \A s \in Seq(A), x \in A : s \in Z => Append(s, x) \in Z
  PROVE  \A s \in Seq(A) : s \in Z
<1>. SUFFICES ASSUME NEW s \in Seq(A) PROVE s \in Z OBVIOUS
<1>. DEFINE L == Len(s)
            T == {n \in 0..L : SubSeq(s, 1, n) \in Z}
<1>1. L \in Nat /\ SubSeq(s, 1, 0) = <<>> /\ SubSeq(s, 1, L) = s
  BY SubSeqEmpty, SubSeqFull
<1>2. 0 \in T
  <2>1. 0 \in 0..L BY <1>1
  <2>. HIDE DEF L
  <2>. QED BY <1>1, <2>1
<1>3. ASSUME NEW n \in 1..L, n - 1 \in T PROVE n \in T
  <2>. DEFINE p == SubSeq(s, 1, n - 1)
  <2>1. n - 1 \in 0..L /\ 1 \in 1..L /\ s[n] \in A /\ p \in Z BY <1>3
  <2>2. p \in Seq(A)
    <3>1. n - 1 \in Int /\ \A j \in 1..(n - 1) : s[j] \in A OBVIOUS
    <3>. QED BY <3>1, SubSeqProperties
  <2>3. SubSeq(s, 1, n) = p \o <<s[n]>> BY <2>1, SubSeqRecursiveSecond
  <2>. HIDE DEF p
  <2>4. Append(p, s[n]) = p \o <<s[n]>> BY <2>1, <2>2, AppendIsConcat
  <2>5. Append(p, s[n]) \in Z BY <2>1, <2>2 DEF p
  <2>6. SubSeq(s, 1, n) \in Z BY <2>3, <2>4, <2>5
  <2>7. n \in 0..L BY <1>1
  <2>. QED BY <2>6, <2>7
<1>4. 0..L \subseteq T
  <2>. HIDE DEF T, L
  <2>. QED BY <1>1, <1>2, <1>3, UpTo
<1>5. L \in T
  <2>. HIDE DEF T
  <2>. QED BY <1>1, <1>4
<1>. QED BY <1>1, <1>5

(* The images of two texts are joined as the texts are.                    *)
JoinsImages(A, h) ==
  \A s, t \in Seq(A) : Mapped(h, s \o t) = Mapped(h, s) \o Mapped(h, t)

(* They are, whatever the image of a byte.                                 *)
LEMMA MappedConcat ==
  ASSUME NEW A, NEW B, NEW h \in [A -> Seq(B)]
  PROVE  JoinsImages(A, h)
<1>. SUFFICES ASSUME NEW s \in Seq(A)
              PROVE  \A t \in Seq(A) : Mapped(h, s \o t) = Mapped(h, s) \o Mapped(h, t)
  BY DEF JoinsImages
<1>. DEFINE Z == {t \in Seq(A) : Mapped(h, s \o t) = Mapped(h, s) \o Mapped(h, t)}
<1>1. /\ Mapped(h, <<>>) = <<>>
      /\ \A w \in Seq(A) : Mapped(h, w) \in Seq(B)
      /\ \A w \in Seq(A), x \in A : Mapped(h, Append(w, x)) = Mapped(h, w) \o h[x]
  BY MappedAppend
<1>2. <<>> \in Z
  <2>1. <<>> \in Seq(A) /\ s \o <<>> = s BY ConcatEmptySeq
  <2>2. Mapped(h, s) \o <<>> = Mapped(h, s) BY <1>1, ConcatEmptySeq
  <2>. QED BY <1>1, <2>1, <2>2
<1>3. ASSUME NEW t \in Seq(A), NEW x \in A, t \in Z PROVE Append(t, x) \in Z
  <2>1. <<x>> \in Seq(A) /\ Append(t, x) \in Seq(A) BY Single
  <2>2. Append(t, x) = t \o <<x>> BY AppendIsConcat
  <2>3. s \o Append(t, x) = Append(s \o t, x)
    <3>1. s \o t \in Seq(A) BY ConcatProperties
    <3>2. Append(s \o t, x) = (s \o t) \o <<x>> BY <3>1, AppendIsConcat
    <3>3. (s \o t) \o <<x>> = s \o (t \o <<x>>) BY <2>1, ConcatAssociative
    <3>. QED BY <2>2, <3>2, <3>3
  <2>. DEFINE a == Mapped(h, s)
              b == Mapped(h, t)
              c == h[x]
  <2>4. a \in Seq(B) /\ b \in Seq(B) /\ c \in Seq(B) BY <1>1
  <2>5. Mapped(h, s \o Append(t, x)) = (a \o b) \o c
    <3>1. s \o t \in Seq(A) BY ConcatProperties
    <3>2. Mapped(h, Append(s \o t, x)) = Mapped(h, s \o t) \o c BY <1>1, <3>1
    <3>. QED BY <1>3, <2>3, <3>2
  <2>6. Mapped(h, Append(t, x)) = b \o c BY <1>1
  <2>. HIDE DEF a, b, c
  <2>7. (a \o b) \o c = a \o (b \o c) BY <2>4, ConcatAssociative
  <2>. QED BY <2>1, <2>5, <2>6, <2>7 DEF a
<1>4. \A t \in Seq(A) : t \in Z
  <2>. HIDE DEF Z
  <2>. QED BY <1>2, <1>3, ByAppend
<1>. QED BY <1>4

(* What is mapped by h and then by g is mapped by f.                       *)
MapsTwice(A, h, g, f) == \A s \in Seq(A) : Mapped(g, Mapped(h, s)) = Mapped(f, s)

(* It is, if the image of each byte is.                                    *)
LEMMA MappedTwice ==
  ASSUME NEW A, NEW B, NEW D, NEW h \in [A -> Seq(B)], NEW g \in [B -> Seq(D)],
         NEW f \in [A -> Seq(D)], \A x \in A : f[x] = Mapped(g, h[x])
  PROVE  MapsTwice(A, h, g, f)
<1>. DEFINE Z == {s \in Seq(A) : Mapped(g, Mapped(h, s)) = Mapped(f, s)}
<1>1. /\ Mapped(h, <<>>) = <<>> /\ Mapped(f, <<>>) = <<>> /\ Mapped(g, <<>>) = <<>>
      /\ \A w \in Seq(A) : Mapped(h, w) \in Seq(B)
      /\ \A w \in Seq(A), x \in A : Mapped(h, Append(w, x)) = Mapped(h, w) \o h[x]
      /\ \A w \in Seq(A), x \in A : Mapped(f, Append(w, x)) = Mapped(f, w) \o f[x]
  BY MappedAppend
<1>2. <<>> \in Z BY <1>1
<1>3. ASSUME NEW s \in Seq(A), NEW x \in A, s \in Z PROVE Append(s, x) \in Z
  <2>1. Mapped(h, s) \in Seq(B) /\ h[x] \in Seq(B) BY <1>1
  <2>2. Mapped(g, Mapped(h, s) \o h[x]) = Mapped(g, Mapped(h, s)) \o Mapped(g, h[x])
    <3>. DEFINE p == Mapped(h, s)
                q == h[x]
    <3>1. p \in Seq(B) /\ q \in Seq(B) BY <2>1
    <3>. HIDE DEF p, q
    <3>2. JoinsImages(B, g) BY MappedConcat
    <3>3. Mapped(g, p \o q) = Mapped(g, p) \o Mapped(g, q) BY <3>1, <3>2 DEF JoinsImages
    <3>. QED BY <3>3 DEF p, q
  <2>3. Append(s, x) \in Seq(A) OBVIOUS
  <2>. QED BY <1>1, <1>3, <2>2, <2>3
<1>4. \A s \in Seq(A) : s \in Z
  <2>. HIDE DEF Z
  <2>. QED BY <1>2, <1>3, ByAppend
<1>. QED BY <1>4 DEF MapsTwice

(* Bytes mapped each to itself.                                            *)
LEMMA MappedSelf ==
  ASSUME NEW A, NEW h \in [A -> Seq(A)], \A x \in A : h[x] = <<x>>
  PROVE  \A s \in Seq(A) : Mapped(h, s) = s
<1>. DEFINE Z == {s \in Seq(A) : Mapped(h, s) = s}
<1>1. /\ Mapped(h, <<>>) = <<>>
      /\ \A w \in Seq(A), x \in A : Mapped(h, Append(w, x)) = Mapped(h, w) \o h[x]
  BY MappedAppend
<1>2. <<>> \in Z BY <1>1
<1>3. ASSUME NEW s \in Seq(A), NEW x \in A, s \in Z PROVE Append(s, x) \in Z
  <2>1. Append(s, x) = s \o <<x>> /\ Append(s, x) \in Seq(A) BY AppendIsConcat
  <2>. QED BY <1>1, <1>3, <2>1
<1>4. \A s \in Seq(A) : s \in Z
  <2>. HIDE DEF Z
  <2>. QED BY <1>2, <1>3, ByAppend
<1>. QED BY <1>4

-----------------------------------------------------------------------------
(* Before anything that may come next, of Z, d reads p as the bytes t.     *)
Reads(d, Z, p, t) == \A z \in Z : p \o z \in Z /\ d[p \o z] = t \o d[z]

(* What is read piece by piece is read as a whole.                         *)
LEMMA ReadsMapped ==
  ASSUME NEW A, NEW B, NEW D, NEW Z, Z \subseteq Seq(B), NEW d \in [Z -> Seq(D)],
         NEW h \in [A -> Seq(B)], NEW g \in [A -> Seq(D)],
         \A x \in A : Reads(d, Z, h[x], g[x])
  PROVE  \A s \in Seq(A) : Reads(d, Z, Mapped(h, s), Mapped(g, s))
<1>. DEFINE T == {s \in Seq(A) : Reads(d, Z, Mapped(h, s), Mapped(g, s))}
<1>1. /\ Mapped(h, <<>>) = <<>> /\ Mapped(g, <<>>) = <<>>
      /\ \A w \in Seq(A) : Mapped(h, w) \in Seq(B) /\ Mapped(g, w) \in Seq(D)
      /\ \A w \in Seq(A), x \in A : Mapped(h, Append(w, x)) = Mapped(h, w) \o h[x]
      /\ \A w \in Seq(A), x \in A : Mapped(g, Append(w, x)) = Mapped(g, w) \o g[x]
  BY MappedAppend
<1>2. <<>> \in T
  <2>1. ASSUME NEW z \in Z PROVE <<>> \o z = z /\ <<>> \o d[z] = d[z]
    <3>1. z \in Seq(B) /\ d[z] \in Seq(D) OBVIOUS
    <3>. QED BY <3>1, ConcatEmptySeq
  <2>2. Reads(d, Z, <<>>, <<>>) BY <2>1 DEF Reads
  <2>3. <<>> \in Seq(A) OBVIOUS
  <2>. QED BY <1>1, <2>2, <2>3
<1>3. ASSUME NEW s \in Seq(A), NEW x \in A, s \in T PROVE Append(s, x) \in T
  <2>. DEFINE p == Mapped(h, s)
              q == h[x]
              t == Mapped(g, s)
              r == g[x]
  <2>1. /\ p \in Seq(B) /\ q \in Seq(B) /\ t \in Seq(D) /\ r \in Seq(D)
        /\ Mapped(h, Append(s, x)) = p \o q /\ Mapped(g, Append(s, x)) = t \o r
    BY <1>1
  <2>2. Reads(d, Z, p, t) /\ Reads(d, Z, q, r) BY <1>3
  <2>. HIDE DEF p, q, t, r
  <2>3. ASSUME NEW z \in Z
        PROVE  (p \o q) \o z \in Z /\ d[(p \o q) \o z] = (t \o r) \o d[z]
    <3>1. q \o z \in Z /\ d[q \o z] = r \o d[z] BY <2>2 DEF Reads
    <3>2. p \o (q \o z) \in Z /\ d[p \o (q \o z)] = t \o (r \o d[z]) BY <2>2, <3>1 DEF Reads
    <3>3. z \in Seq(B) /\ d[z] \in Seq(D) OBVIOUS
    <3>4. Regroups(p, q, z) BY <2>1, <3>3, Regrouped
    <3>. DEFINE e == d[z]
    <3>5. e \in Seq(D) BY <3>3
    <3>. HIDE DEF e
    <3>6. Regroups(t, r, e) BY <2>1, <3>5, Regrouped
    <3>. QED BY <3>2, <3>4, <3>6 DEF e, Regroups
  <2>4. Append(s, x) \in Seq(A) OBVIOUS
  <2>. QED BY <2>1, <2>3, <2>4 DEF Reads
<1>4. \A s \in Seq(A) : s \in T
  <2>. HIDE DEF T
  <2>. QED BY <1>2, <1>3, ByAppend
<1>. QED BY <1>4

(* c[i] is what is read of a text of L bytes from its i-th on: out[i] at   *)
(* that place, and then what is read skip[i] bytes further.                *)
ReadFrom(L, K, out, skip, c) ==
  c = [i \in 1..(L + K) |-> IF i > L THEN <<>> ELSE out[i] \o c[i + skip[i]]]

(* There is such a function.                                               *)
LEMMA ReadFromExists ==
  ASSUME NEW B, NEW L \in Nat, NEW K \in Nat, NEW out \in [1..L -> Seq(B)],
         NEW skip \in [1..L -> 1..K]
  PROVE  \E c : ReadFrom(L, K, out, skip, c)
<1>. DEFINE M == L + K
            S == Seq(B)
            Place(i, u) == IF i > L THEN <<>> ELSE out[i] \o u[i + skip[i]]
            G == [i \in 1..M |-> [u \in [1..M -> S] |-> Place(i, u)]]
<1>1. M \in Nat /\ <<>> \in S OBVIOUS
<1>2. ASSUME NEW i \in 1..M, NEW u \in [1..M -> S] PROVE Place(i, u) \in S
  <2>1. CASE i > L BY <1>1, <2>1
  <2>2. CASE ~(i > L)
    <3>1. i \in 1..L /\ i + skip[i] \in 1..M BY <2>2
    <3>2. out[i] \in Seq(B) /\ u[i + skip[i]] \in Seq(B) BY <3>1
    <3>3. out[i] \o u[i + skip[i]] \in Seq(B) BY <3>2, ConcatProperties
    <3>. QED BY <2>2, <3>3
  <2>. QED BY <2>1, <2>2
<1>3. ASSUME NEW i \in 1..M, NEW u \in [1..M -> S], NEW w \in [1..M -> S],
             \A j \in (i + 1)..M : u[j] = w[j]
      PROVE  Place(i, u) = Place(i, w)
  <2>1. CASE i > L BY <2>1
  <2>2. CASE ~(i > L)
    <3>1. i \in 1..L /\ i + skip[i] \in (i + 1)..M BY <2>2
    <3>. QED BY <1>3, <2>2, <3>1
  <2>. QED BY <2>1, <2>2
<1>. HIDE DEF Place, M, S
<1>4. G \in [1..M -> [[1..M -> S] -> S]] BY <1>2
<1>5. \A i \in 1..M : \A u, w \in [1..M -> S] :
        (\A j \in (i + 1)..M : u[j] = w[j]) => G[i][u] = G[i][w]
  BY <1>3
<1>6. \A i \in 1..M : \A u \in [1..M -> S] : G[i][u] = Place(i, u) OBVIOUS
<1>. HIDE DEF G
<1>7. JumpsBack(S, M, G) BY <1>1, <1>4, <1>5, JumpsExist
<1>8. PICK c \in [1..M -> S] : \A i \in 1..M : c[i] = G[i][c] BY <1>7 DEF JumpsBack
<1>9. c = [i \in 1..M |-> Place(i, c)]
  <2>1. c = [i \in 1..M |-> c[i]] OBVIOUS
  <2>. QED BY <1>6, <1>8, <2>1
<1>. QED BY <1>9 DEF ReadFrom, Place, M

(* A function on 1..M, by its values from the last one down.               *)
LEMMA DownFrom ==
  ASSUME NEW M \in Nat, NEW Z,
         \A i \in 1..M : (\A j \in (i + 1)..M : j \in Z) => i \in Z
  PROVE  \A i \in 1..M : i \in Z
<1>. DEFINE T == {m \in 0..M : \A i \in 1..M : i > M - m => i \in Z}
<1>1. 0 \in T OBVIOUS
<1>2. ASSUME NEW m \in 1..M, m - 1 \in T PROVE m \in T
  <2>1. ASSUME NEW i \in 1..M, i > M - m PROVE i \in Z
    <3>1. \A j \in (i + 1)..M : j \in 1..M /\ j > M - (m - 1) BY <2>1
    <3>2. \A j \in (i + 1)..M : j \in Z BY <1>2, <3>1
    <3>. QED BY <3>2
  <2>. QED BY <2>1
<1>3. 0..M \subseteq T
  <2>. HIDE DEF T
  <2>. QED BY <1>1, <1>2, UpTo
<1>4. M \in 0..M /\ \A i \in 1..M : i > M - M OBVIOUS
<1>5. M \in T
  <2>. HIDE DEF T
  <2>. QED BY <1>3, <1>4
<1>. QED BY <1>4, <1>5

(* What is read at any place is bytes.                                     *)
LEMMA ReadFromTyped ==
  ASSUME NEW B, NEW L \in Nat, NEW K \in Nat, NEW out \in [1..L -> Seq(B)],
         NEW skip \in [1..L -> 1..K], NEW c, ReadFrom(L, K, out, skip, c)
  PROVE  \A i \in 1..(L + K) :
           /\ c[i] \in Seq(B)
           /\ i > L => c[i] = <<>>
           /\ i <= L => c[i] = out[i] \o c[i + skip[i]]
<1>1. \A i \in 1..(L + K) : c[i] = IF i > L THEN <<>> ELSE out[i] \o c[i + skip[i]]
  BY DEF ReadFrom
<1>. DEFINE Z == {i \in 1..(L + K) : c[i] \in Seq(B)}
<1>2. ASSUME NEW i \in 1..(L + K), \A j \in (i + 1)..(L + K) : j \in Z PROVE i \in Z
  <2>1. CASE i > L
    <3>1. <<>> \in Seq(B) OBVIOUS
    <3>. QED BY <1>1, <2>1, <3>1
  <2>2. CASE ~(i > L)
    <3>1. i \in 1..L /\ i + skip[i] \in (i + 1)..(L + K) BY <2>2
    <3>2. out[i] \in Seq(B) /\ c[i + skip[i]] \in Seq(B) BY <1>2, <3>1
    <3>3. out[i] \o c[i + skip[i]] \in Seq(B) BY <3>2, ConcatProperties
    <3>. QED BY <1>1, <2>2, <3>3
  <2>. QED BY <2>1, <2>2
<1>3. \A i \in 1..(L + K) : i \in Z
  <2>1. L + K \in Nat OBVIOUS
  <2>. HIDE DEF Z
  <2>. QED BY <1>2, <2>1, DownFrom
<1>4. \A i \in 1..(L + K) : c[i] \in Seq(B) /\ (i <= L <=> ~(i > L)) BY <1>3
<1>. QED BY <1>1, <1>4

(* A text of L bytes is the end of another, after S more: the same is read *)
(* at each of its places, and from each on.                                *)
IsEndOf(L, S, out, skip, out2, skip2) ==
  \A i \in 1..L : out2[S + i] = out[i] /\ skip2[S + i] = skip[i]
ReadsSame(L, K, S, c, c2) == \A i \in 1..(L + K) : c2[S + i] = c[i]

(* What is read of the end of a text is what is read of that text alone.   *)
LEMMA ReadFromShift ==
  ASSUME NEW L \in Nat, NEW K \in Nat, NEW out, NEW skip \in [1..L -> 1..K], NEW c,
         ReadFrom(L, K, out, skip, c),
         NEW S \in Nat, NEW out2, NEW skip2, NEW c2, ReadFrom(S + L, K, out2, skip2, c2),
         IsEndOf(L, S, out, skip, out2, skip2)
  PROVE  ReadsSame(L, K, S, c, c2)
<1>1. \A i \in 1..(L + K) : c[i] = IF i > L THEN <<>> ELSE out[i] \o c[i + skip[i]]
  BY DEF ReadFrom
<1>2. \A i \in 1..(S + L + K) :
        c2[i] = IF i > S + L THEN <<>> ELSE out2[i] \o c2[i + skip2[i]]
  BY DEF ReadFrom
<1>. DEFINE Z == {i \in 1..(L + K) : c2[S + i] = c[i]}
<1>3. ASSUME NEW i \in 1..(L + K), \A j \in (i + 1)..(L + K) : j \in Z PROVE i \in Z
  <2>1. S + i \in 1..(S + L + K) /\ (S + i > S + L <=> i > L) OBVIOUS
  <2>2. CASE i > L BY <1>1, <1>2, <2>1, <2>2
  <2>3. CASE ~(i > L)
    <3>1. i \in 1..L /\ i + skip[i] \in (i + 1)..(L + K) BY <2>3
    <3>2. c2[S + (i + skip[i])] = c[i + skip[i]] BY <1>3, <3>1
    <3>3. S + (i + skip[i]) = (S + i) + skip[i] BY <3>1
    <3>4. c2[S + i] = out2[S + i] \o c2[(S + i) + skip2[S + i]] BY <1>2, <2>1, <2>3
    <3>5. c[i] = out[i] \o c[i + skip[i]] BY <1>1, <2>3
    <3>6. out2[S + i] = out[i] /\ skip2[S + i] = skip[i] BY <3>1 DEF IsEndOf
    <3>. QED BY <3>2, <3>3, <3>4, <3>5, <3>6
  <2>. QED BY <2>2, <2>3
<1>4. \A i \in 1..(L + K) : i \in Z
  <2>1. L + K \in Nat OBVIOUS
  <2>. HIDE DEF Z
  <2>. QED BY <1>3, <2>1, DownFrom
<1>. QED BY <1>4 DEF ReadsSame

(* What visDecode reads at the i-th byte, and how many bytes of it.        *)
visOut(v, i) ==
  IF v[i] # Bslash \/ i = Len(v) THEN <<v[i]>>
  ELSE IF v[i + 1] \in DOMAIN CStyle THEN <<CStyle[v[i + 1]]>>
  ELSE IF v[i + 1] = 115 THEN <<Space>>
  ELSE IF v[i + 1] \in {Bslash, Dquote, Quote, Dollar} THEN <<v[i + 1]>>
  ELSE IF IsOctal(v, i + 1) THEN <<octalByte(v, i + 1)>>
  ELSE <<Bslash, v[i + 1]>>
visSkip(v, i) ==
  IF v[i] # Bslash \/ i = Len(v) THEN 1
  ELSE IF /\ v[i + 1] \notin DOMAIN CStyle
          /\ v[i + 1] \notin {115, Bslash, Dquote, Quote, Dollar}
          /\ IsOctal(v, i + 1) THEN 4 ELSE 2

VisOuts(v) == [i \in 1..Len(v) |-> visOut(v, i)]
VisSkips(v) == [i \in 1..Len(v) |-> visSkip(v, i)]
VisFrom(v, c) == ReadFrom(Len(v), 4, VisOuts(v), VisSkips(v), c)

(* The bytes a C-style letter stands for.                                  *)
LEMMA CStyleIs ==
  /\ DOMAIN CStyle = {97, 98, 102, 110, 114, 116, 118}
  /\ \A c \in DOMAIN CStyle : CStyle[c] \in {7, 8, 12, 10, 13, 9, 11}
  /\ CStyle[97] = 7 /\ CStyle[98] = 8 /\ CStyle[102] = 12 /\ CStyle[110] = 10
  /\ CStyle[114] = 13 /\ CStyle[116] = 9 /\ CStyle[118] = 11
BY DEF CStyle

(* An octal escape is of a number.                                         *)
LEMMA OctalTyped ==
  ASSUME NEW v \in Seq(Nat), NEW i \in Nat \ {0}, IsOctal(v, i)
  PROVE  octalByte(v, i) \in Nat
<1>1. v[i] \in Zero..(Zero + 7) /\ v[i + 1] \in Zero..(Zero + 7) /\ v[i + 2] \in Zero..(Zero + 7)
  <2>1. i \in i..(i + 2) /\ i + 1 \in i..(i + 2) /\ i + 2 \in i..(i + 2) OBVIOUS
  <2>. QED BY <2>1 DEF IsOctal
<1>2. \A x \in Zero..(Zero + 7) : x - Zero \in 0..7 BY DEF Zero
<1>. DEFINE a == v[i] - Zero
            b == v[i + 1] - Zero
            c == v[i + 2] - Zero
<1>3. a \in 0..7 /\ b \in 0..7 /\ c \in 0..7 BY <1>1, <1>2
<1>4. octalByte(v, i) = a * 64 + b * 8 + c BY DEF octalByte
<1>. HIDE DEF a, b, c
<1>. QED BY <1>3, <1>4

(* They are bytes, and some are read.                                      *)
LEMMA VisTyped ==
  ASSUME NEW v \in Seq(Nat)
  PROVE  VisOuts(v) \in [1..Len(v) -> Seq(Nat)] /\ VisSkips(v) \in [1..Len(v) -> 1..4]
<1>1. ASSUME NEW i \in 1..Len(v) PROVE visOut(v, i) \in Seq(Nat)
  <2>1. v[i] \in Nat /\ Len(v) \in Nat /\ (i # Len(v) => v[i + 1] \in Nat) OBVIOUS
  <2>2. i # Len(v) /\ v[i + 1] \in DOMAIN CStyle => CStyle[v[i + 1]] \in Nat
    <3>1. \A n \in {7, 8, 12, 10, 13, 9, 11} : n \in Nat OBVIOUS
    <3>. QED BY <3>1, CStyleIs
  <2>3. IsOctal(v, i + 1) => octalByte(v, i + 1) \in Nat
    <3>1. i + 1 \in Nat \ {0} OBVIOUS
    <3>. QED BY <3>1, OctalTyped
  <2>4. \A x, y \in Nat : <<x>> \in Seq(Nat) /\ <<x, y>> \in Seq(Nat) OBVIOUS
  <2>5. Bslash \in Nat /\ Space \in Nat BY DEF Bslash, Space
  <2>. QED BY <2>1, <2>2, <2>3, <2>4, <2>5 DEF visOut
<1>2. \A i \in 1..Len(v) : visSkip(v, i) \in 1..4 BY DEF visSkip
<1>. QED BY <1>1, <1>2 DEF VisOuts, VisSkips

(* visDecode reads from the first byte.                                    *)
LEMMA VisDecodeIs ==
  ASSUME NEW v \in Seq(Nat)
  PROVE  \E c : VisFrom(v, c) /\ visDecode(v) = c[1]
<1>. DEFINE Place(c, i) ==
              IF i > Len(v) THEN <<>>
              ELSE IF v[i] # Bslash \/ i = Len(v) THEN <<v[i]>> \o c[i + 1]
              ELSE IF v[i + 1] \in DOMAIN CStyle THEN <<CStyle[v[i + 1]]>> \o c[i + 2]
              ELSE IF v[i + 1] = 115 THEN <<Space>> \o c[i + 2]
              ELSE IF v[i + 1] \in {Bslash, Dquote, Quote, Dollar}
                   THEN <<v[i + 1]>> \o c[i + 2]
              ELSE IF IsOctal(v, i + 1) THEN <<octalByte(v, i + 1)>> \o c[i + 4]
              ELSE <<Bslash, v[i + 1]>> \o c[i + 2]
            from == CHOOSE c : c = [i \in 1..(Len(v) + 4) |-> Place(c, i)]
            out == VisOuts(v)
            skip == VisSkips(v)
<1>1. visDecode(v) = from[1] BY DEF visDecode
<1>2. ASSUME NEW c, NEW i \in 1..(Len(v) + 4)
      PROVE  Place(c, i) = IF i > Len(v) THEN <<>> ELSE out[i] \o c[i + skip[i]]
  <2>1. CASE i > Len(v) BY <2>1
  <2>2. CASE ~(i > Len(v))
    <3>1. i \in 1..Len(v) BY <2>2
    <3>2. out[i] = visOut(v, i) /\ skip[i] = visSkip(v, i) BY <3>1 DEF VisOuts, VisSkips
    <3>3. Place(c, i) = visOut(v, i) \o c[i + visSkip(v, i)]
      <4>1. CASE v[i] # Bslash \/ i = Len(v) BY <2>2, <4>1 DEF visOut, visSkip
      <4>2. CASE ~(v[i] # Bslash \/ i = Len(v)) /\ v[i + 1] \in DOMAIN CStyle
        BY <2>2, <4>2 DEF visOut, visSkip
      <4>3. CASE ~(v[i] # Bslash \/ i = Len(v)) /\ v[i + 1] \notin DOMAIN CStyle
        BY <2>2, <4>3 DEF visOut, visSkip
      <4>. QED BY <4>1, <4>2, <4>3
    <3>. QED BY <2>2, <3>2, <3>3
  <2>. QED BY <2>1, <2>2
<1>. HIDE DEF Place
<1>3. \A c : c = [i \in 1..(Len(v) + 4) |-> Place(c, i)] <=> VisFrom(v, c)
  BY <1>2, Zenon DEF VisFrom, ReadFrom
<1>4. \E c : VisFrom(v, c)
  <2>. DEFINE L == Len(v)
  <2>1. out \in [1..L -> Seq(Nat)] /\ skip \in [1..L -> 1..4] /\ L \in Nat /\ 4 \in Nat
    BY VisTyped
  <2>2. \A c : VisFrom(v, c) <=> ReadFrom(L, 4, out, skip, c) BY DEF VisFrom
  <2>. HIDE DEF L, out, skip
  <2>3. \E c : ReadFrom(L, 4, out, skip, c) BY <2>1, ReadFromExists
  <2>. QED BY <2>2, <2>3
<1>5. \E c : c = [i \in 1..(Len(v) + 4) |-> Place(c, i)] BY <1>3, <1>4
<1>6. from = [i \in 1..(Len(v) + 4) |-> Place(from, i)] BY <1>5, Zenon
<1>. QED BY <1>1, <1>3, <1>6

(* A text that follows another.                                            *)
LEMMA Follow ==
  ASSUME NEW B, NEW p \in Seq(B), NEW z \in Seq(B)
  PROVE  /\ p \o z \in Seq(B) /\ Len(p \o z) = Len(p) + Len(z)
         /\ \A i \in 1..Len(p) : (p \o z)[i] = p[i]
         /\ \A i \in 1..Len(z) : (p \o z)[Len(p) + i] = z[i]
<1>1. /\ p \o z \in Seq(B) /\ Len(p \o z) = Len(p) + Len(z)
      /\ \A i \in 1..(Len(p) + Len(z)) :
           (p \o z)[i] = IF i <= Len(p) THEN p[i] ELSE z[i - Len(p)]
  BY ConcatProperties
<1>2. Len(p) \in Nat /\ Len(z) \in Nat OBVIOUS
<1>3. ASSUME NEW i \in 1..Len(z) PROVE (p \o z)[Len(p) + i] = z[i]
  <2>1. Len(p) + i \in 1..(Len(p) + Len(z)) /\ ~(Len(p) + i <= Len(p)) /\ (Len(p) + i) - Len(p) = i
    BY <1>2
  <2>. QED BY <1>1, <2>1
<1>4. \A i \in 1..Len(p) : i \in 1..(Len(p) + Len(z)) /\ i <= Len(p) BY <1>2
<1>. QED BY <1>1, <1>3, <1>4

(* Whether there are octal digits is the same wherever a text ends.        *)
LEMMA OctalFollows ==
  ASSUME NEW p \in Seq(Nat), NEW z \in Seq(Nat), NEW i \in Nat \ {0}
  PROVE  /\ IsOctal(p \o z, Len(p) + i) <=> IsOctal(z, i)
         /\ IsOctal(z, i) => octalByte(p \o z, Len(p) + i) = octalByte(z, i)
<1>. DEFINE v == p \o z
            S == Len(p)
            L == Len(z)
<1>1. S \in Nat /\ L \in Nat /\ Len(v) = S + L /\ \A j \in 1..L : v[S + j] = z[j] BY Follow
<1>. HIDE DEF v, S, L
<1>2. (S + i) + 2 <= Len(v) <=> i + 2 <= L BY <1>1
<1>3. CASE i + 2 <= L
  <2>1. /\ i \in 1..L /\ i + 1 \in 1..L /\ i + 2 \in 1..L
        /\ S + (i + 1) = (S + i) + 1 /\ S + (i + 2) = (S + i) + 2
    BY <1>1, <1>3
  <2>2. v[S + i] = z[i] /\ v[(S + i) + 1] = z[i + 1] /\ v[(S + i) + 2] = z[i + 2]
    BY <1>1, <2>1
  <2>3. octalByte(v, S + i) = octalByte(z, i) BY <2>2 DEF octalByte
  <2>4. (\A j \in (S + i)..(S + i + 2) : v[j] \in Zero..(Zero + 7))
          <=> \A j \in i..(i + 2) : z[j] \in Zero..(Zero + 7)
    <3>1. \A j : j \in i..(i + 2) <=> j \in {i, i + 1, i + 2} OBVIOUS
    <3>2. \A j : j \in (S + i)..(S + i + 2) <=> j \in {S + i, (S + i) + 1, (S + i) + 2}
      <4>. DEFINE k == S + i
      <4>1. k \in Nat BY <1>1
      <4>. HIDE DEF k
      <4>2. \A j : j \in k..(k + 2) <=> j \in {k, k + 1, k + 2} BY <4>1
      <4>. QED BY <4>2 DEF k
    <3>. QED BY <2>2, <3>1, <3>2
  <2>. QED BY <1>2, <1>3, <2>2, <2>3, <2>4 DEF IsOctal, v, S, L
<1>4. CASE ~(i + 2 <= L) BY <1>2, <1>4 DEF IsOctal, v, S, L
<1>. QED BY <1>3, <1>4

(* The bytes of vis.                                                       *)
vis == [w \in Seq(Nat) |-> visDecode(w)]

(* What visDecode reads of a text does not depend on what is before it.    *)
LEMMA VisFollows ==
  ASSUME NEW p \in Seq(Nat), NEW z \in Seq(Nat), NEW i \in 1..Len(z)
  PROVE  /\ visOut(p \o z, Len(p) + i) = visOut(z, i)
         /\ visSkip(p \o z, Len(p) + i) = visSkip(z, i)
<1>. DEFINE v == p \o z
            S == Len(p)
            L == Len(z)
<1>1. S \in Nat /\ L \in Nat /\ Len(v) = S + L /\ \A j \in 1..L : v[S + j] = z[j] BY Follow
<1>2. i + 1 \in Nat \ {0} /\ S + (i + 1) = (S + i) + 1 OBVIOUS
<1>3. /\ IsOctal(v, (S + i) + 1) <=> IsOctal(z, i + 1)
      /\ IsOctal(z, i + 1) => octalByte(v, (S + i) + 1) = octalByte(z, i + 1)
  BY <1>2, OctalFollows
<1>4. i \in 1..L OBVIOUS
<1>. HIDE DEF v, S, L
<1>5. v[S + i] = z[i] /\ (S + i = Len(v) <=> i = L) BY <1>1, <1>4
<1>6. CASE i = L BY <1>5, <1>6 DEF visOut, visSkip, v, S, L
<1>7. CASE i # L
  <2>1. v[(S + i) + 1] = z[i + 1]
    <3>1. i + 1 \in 1..L BY <1>1, <1>4, <1>7
    <3>. QED BY <1>1, <1>2, <3>1
  <2>2. visOut(v, S + i) = visOut(z, i) BY <1>3, <1>5, <1>7, <2>1 DEF visOut, L
  <2>3. visSkip(v, S + i) = visSkip(z, i) BY <1>3, <1>5, <1>7, <2>1 DEF visSkip, L
  <2>. QED BY <2>2, <2>3 DEF v, S
<1>. QED BY <1>6, <1>7

(* visDecode reads a text whose first escape, or byte, is all of p as what *)
(* that stands for and then the rest.                                      *)
LEMMA VisStep ==
  ASSUME NEW p \in Seq(Nat), p # <<>>, NEW z \in Seq(Nat), visSkip(p \o z, 1) = Len(p)
  PROVE  /\ visDecode(z) \in Seq(Nat)
         /\ visDecode(p \o z) = visOut(p \o z, 1) \o visDecode(z)
<1>. DEFINE v == p \o z
            S == Len(p)
            L == Len(z)
<1>1. S \in Nat \ {0} /\ L \in Nat /\ Len(v) = S + L /\ v \in Seq(Nat) BY Follow
<1>2. PICK c : VisFrom(v, c) /\ visDecode(v) = c[1] BY <1>1, VisDecodeIs
<1>3. PICK e : VisFrom(z, e) /\ visDecode(z) = e[1] BY VisDecodeIs
<1>. DEFINE out == VisOuts(v)
            skip == VisSkips(v)
            out2 == VisOuts(z)
            skip2 == VisSkips(z)
<1>4. /\ out \in [1..(S + L) -> Seq(Nat)] /\ skip \in [1..(S + L) -> 1..4]
      /\ out2 \in [1..L -> Seq(Nat)] /\ skip2 \in [1..L -> 1..4]
  BY <1>1, VisTyped
<1>5. ReadFrom(S + L, 4, out, skip, c) /\ ReadFrom(L, 4, out2, skip2, e)
  BY <1>1, <1>2, <1>3 DEF VisFrom
<1>6. \A i \in 1..L : out[S + i] = out2[i] /\ skip[S + i] = skip2[i]
  <2>. SUFFICES ASSUME NEW i \in 1..L PROVE out[S + i] = out2[i] /\ skip[S + i] = skip2[i]
    OBVIOUS
  <2>1. S + i \in 1..Len(v) BY <1>1
  <2>. QED BY <2>1, VisFollows DEF VisOuts, VisSkips
<1>7. out[1] = visOut(v, 1) /\ skip[1] = S
  <2>1. 1 \in 1..Len(v) BY <1>1
  <2>. QED BY <2>1 DEF VisOuts, VisSkips
<1>. HIDE DEF v, S, L, out, skip, out2, skip2
<1>8. \A i \in 1..(L + 4) : c[S + i] = e[i]
  <2>1. S \in Nat /\ L \in Nat /\ 4 \in Nat BY <1>1
  <2>2. IsEndOf(L, S, out2, skip2, out, skip) BY <1>6 DEF IsEndOf
  <2>3. ReadsSame(L, 4, S, e, c)  BY <1>4, <1>5, <2>1, <2>2, ReadFromShift
  <2>. QED BY <2>3 DEF ReadsSame
<1>9. c[1] = out[1] \o c[1 + skip[1]]
  <2>. DEFINE M == S + L
  <2>1. 1 \in 1..(M + 4) /\ 1 <= M /\ M \in Nat /\ 4 \in Nat BY <1>1
  <2>2. /\ out \in [1..M -> Seq(Nat)] /\ skip \in [1..M -> 1..4]
        /\ ReadFrom(M, 4, out, skip, c)
    BY <1>4, <1>5
  <2>. HIDE DEF M
  <2>3. c[1] = IF 1 > M THEN <<>> ELSE out[1] \o c[1 + skip[1]] BY <2>1, <2>2 DEF ReadFrom
  <2>4. ~(1 > M) BY <2>1
  <2>. QED BY <2>3, <2>4, Zenon
<1>10. e[1] \in Seq(Nat)
  <2>1. 1 \in 1..(L + 4) /\ 4 \in Nat BY <1>1
  <2>. QED BY <1>1, <1>4, <1>5, <2>1, ReadFromTyped
<1>11. c[1 + S] = e[1]
  <2>1. 1 \in 1..(L + 4) /\ 1 + S = S + 1 BY <1>1
  <2>. QED BY <1>8, <2>1
<1>. QED BY <1>2, <1>3, <1>7, <1>9, <1>10, <1>11 DEF v

(* Before any bytes.                                                       *)
AnyBytes == Seq(Nat)

(* vis reads bytes.                                                        *)
LEMMA VisIs == vis \in [AnyBytes -> Seq(Nat)] /\ vis[<<>>] = <<>>
<1>1. ASSUME NEW w \in Seq(Nat) PROVE visDecode(w) \in Seq(Nat)
  <2>. DEFINE o == VisOuts(w)
              k == VisSkips(w)
              L == Len(w)
  <2>1. PICK c : VisFrom(w, c) /\ visDecode(w) = c[1] BY VisDecodeIs
  <2>2. ReadFrom(L, 4, o, k, c) /\ o \in [1..L -> Seq(Nat)] /\ k \in [1..L -> 1..4]
    BY <2>1, VisTyped DEF VisFrom
  <2>3. L \in Nat /\ 4 \in Nat OBVIOUS
  <2>. HIDE DEF o, k, L
  <2>4. \A i \in 1..(L + 4) : c[i] \in Seq(Nat) BY <2>2, <2>3, ReadFromTyped
  <2>5. 1 \in 1..(L + 4) BY <2>3
  <2>. QED BY <2>1, <2>4, <2>5
<1>2. visDecode(<<>>) = <<>>
  <2>1. <<>> \in Seq(Nat) /\ Len(<<>>) = 0 OBVIOUS
  <2>2. PICK c : VisFrom(<<>>, c) /\ visDecode(<<>>) = c[1] BY <2>1, VisDecodeIs
  <2>3. c[1] = <<>>
    <3>1. 1 \in 1..(0 + 4) /\ 1 > 0 OBVIOUS
    <3>. QED BY <2>1, <2>2, <3>1 DEF VisFrom, ReadFrom
  <2>. QED BY <2>2, <2>3
<1>. QED BY <1>1, <1>2 DEF vis, AnyBytes

(* A piece that visDecode takes at once is read as what it stands for.     *)
LEMMA VisReads ==
  ASSUME NEW p \in Seq(Nat), p # <<>>, NEW t,
         \A z \in Seq(Nat) : visSkip(p \o z, 1) = Len(p) /\ visOut(p \o z, 1) = t
  PROVE  Reads(vis, AnyBytes, p, t)
<1>1. ASSUME NEW z \in Seq(Nat)
      PROVE  p \o z \in Seq(Nat) /\ vis[p \o z] = t \o vis[z]
  <2>1. p \o z \in Seq(Nat) BY ConcatProperties
  <2>2. visSkip(p \o z, 1) = Len(p) /\ visOut(p \o z, 1) = t OBVIOUS
  <2>3. visDecode(p \o z) = visOut(p \o z, 1) \o visDecode(z) BY <2>2, VisStep
  <2>. QED BY <2>1, <2>2, <2>3 DEF vis
<1>. QED BY <1>1 DEF Reads, AnyBytes

(* A byte that is no backslash is read as it is.                           *)
LEMMA VisPlain ==
  ASSUME NEW b \in Nat, b # Bslash
  PROVE  Reads(vis, AnyBytes, <<b>>, <<b>>)
<1>. DEFINE p == <<b>>
<1>1. p \in Seq(Nat) /\ p # <<>> /\ Len(p) = 1 /\ p[1] = b OBVIOUS
<1>. HIDE DEF p
<1>2. ASSUME NEW z \in Seq(Nat)
      PROVE  visSkip(p \o z, 1) = Len(p) /\ visOut(p \o z, 1) = <<b>>
  <2>1. (p \o z)[1] = b
    <3>1. 1 \in 1..Len(p) BY <1>1
    <3>. QED BY <1>1, <3>1, Follow
  <2>. QED BY <1>1, <2>1 DEF visSkip, visOut
<1>3. Reads(vis, AnyBytes, p, <<b>>) BY <1>1, <1>2, VisReads
<1>. QED BY <1>3 DEF p

(* A backslash and what it protects, or a letter, is one byte.             *)
LEMMA VisTwo ==
  ASSUME NEW a \in Nat, NEW b \in Nat,
         \/ a \in {Bslash, Dquote, Quote, Dollar} /\ b = a
         \/ a \in DOMAIN CStyle /\ b = CStyle[a]
  PROVE  Reads(vis, AnyBytes, <<Bslash, a>>, <<b>>)
<1>. DEFINE p == <<Bslash, a>>
<1>0. Bslash \in Nat BY DEF Bslash
<1>1. p \in Seq(Nat) /\ p # <<>> /\ Len(p) = 2 /\ p[1] = Bslash /\ p[2] = a BY <1>0
<1>. HIDE DEF p
<1>2. ASSUME NEW z \in Seq(Nat)
      PROVE  visSkip(p \o z, 1) = Len(p) /\ visOut(p \o z, 1) = <<b>>
  <2>. DEFINE v == p \o z
  <2>1. v[1] = Bslash /\ v[1 + 1] = a /\ 1 # Len(v)
    <3>1. 1 \in 1..Len(p) /\ 2 \in 1..Len(p) /\ 1 + 1 = 2 /\ Len(z) \in Nat BY <1>1
    <3>2. v[1] = p[1] /\ v[2] = p[2] /\ Len(v) = Len(p) + Len(z) BY <3>1, Follow
    <3>. QED BY <1>1, <3>1, <3>2
  <2>. HIDE DEF v
  <2>2. CASE a \in DOMAIN CStyle
    <3>1. b = CStyle[a] BY <2>2, CStyleIs DEF Bslash, Dquote, Quote, Dollar
    <3>. QED BY <1>1, <2>1, <2>2, <3>1 DEF visSkip, visOut, v
  <2>3. CASE a \notin DOMAIN CStyle
    <3>1. a \in {Bslash, Dquote, Quote, Dollar} /\ b = a /\ a # 115
      BY <2>3 DEF Bslash, Dquote, Quote, Dollar
    <3>. QED BY <1>1, <2>1, <2>3, <3>1 DEF visSkip, visOut, v
  <2>. QED BY <2>2, <2>3
<1>3. Reads(vis, AnyBytes, p, <<b>>) BY <1>1, <1>2, VisReads
<1>. QED BY <1>3 DEF p

(* The octal digits of a byte: three, and the number they write.           *)
LEMMA OctalIs ==
  ASSUME NEW b \in Code
  PROVE  LET o == OctalDigits(b) IN
         /\ o = <<o[1], o[2], o[3]>>
         /\ o[1] \in Zero..(Zero + 3) /\ o[2] \in Zero..(Zero + 7) /\ o[3] \in Zero..(Zero + 7)
         /\ (o[1] - Zero) * 64 + (o[2] - Zero) * 8 + (o[3] - Zero) = b
<1>. DEFINE x == b \div 64
            y == (b \div 8) % 8
            w == b % 8
<1>1. x \in 0..3 /\ y \in 0..7 /\ w \in 0..7 BY DEF Code
<1>2. x * 64 + y * 8 + w = b BY DEF Code
<1>3. OctalDigits(b) = <<Zero + x, Zero + y, Zero + w>> BY DEF OctalDigits
<1>. HIDE DEF x, y, w
<1>. QED BY <1>1, <1>2, <1>3 DEF Zero

(* One byte and three more.                                                *)
LEMMA OneAndThree ==
  ASSUME NEW S, NEW m \in S, NEW x \in S, NEW y \in S, NEW w \in S
  PROVE  <<m>> \o <<x, y, w>> = <<m, x, y, w>>
<1>. DEFINE a == <<m>>
            b == <<x, y, w>>
            c == <<m, x, y, w>>
<1>1. /\ a \in Seq(S) /\ b \in Seq(S) /\ c \in Seq(S) /\ Len(a) = 1 /\ Len(b) = 3 /\ Len(c) = 4
      /\ a[1] = c[1] /\ b[1] = c[2] /\ b[2] = c[3] /\ b[3] = c[4]
  OBVIOUS
<1>. HIDE DEF a, b, c
<1>2. /\ a \o b \in Seq(S) /\ Len(a \o b) = 4
      /\ (a \o b)[1] = c[1] /\ (a \o b)[2] = c[2] /\ (a \o b)[3] = c[3] /\ (a \o b)[4] = c[4]
  <2>0. a \in Seq(S) /\ b \in Seq(S) BY <1>1
  <2>1. /\ a \o b \in Seq(S) /\ Len(a \o b) = Len(a) + Len(b)
        /\ \A i \in 1..Len(a) : (a \o b)[i] = a[i]
        /\ \A i \in 1..Len(b) : (a \o b)[Len(a) + i] = b[i]
    BY <2>0, Follow
  <2>2. 1 \in 1..Len(a) /\ 1 \in 1..Len(b) /\ 2 \in 1..Len(b) /\ 3 \in 1..Len(b) BY <1>1
  <2>. QED BY <1>1, <2>1, <2>2
<1>3. \A i \in 1..4 : i = 1 \/ i = 2 \/ i = 3 \/ i = 4 OBVIOUS
<1>4. \A i \in 1..Len(a \o b) : (a \o b)[i] = c[i] BY <1>2, <1>3
<1>5. a \o b = c BY <1>1, <1>2, <1>4, SeqEqual
<1>. QED BY <1>5 DEF a, b, c

(* A backslash and the octal digits of a byte are that byte.               *)
LEMMA VisOctal ==
  ASSUME NEW b \in Code
  PROVE  Reads(vis, AnyBytes, <<Bslash>> \o OctalDigits(b), <<b>>)
<1>. DEFINE o == OctalDigits(b)
            p == <<Bslash, o[1], o[2], o[3]>>
<1>0. Bslash \in Nat /\ o[1] \in Nat /\ o[2] \in Nat /\ o[3] \in Nat /\ b \in Nat
  <2>1. o[1] \in 48..51 /\ o[2] \in 48..55 /\ o[3] \in 48..55 BY OctalIs DEF Zero
  <2>2. b \in Nat /\ Bslash \in Nat BY DEF Code, Bslash
  <2>. HIDE DEF o
  <2>. QED BY <2>1, <2>2
<1>1. /\ p \in Seq(Nat) /\ p # <<>> /\ Len(p) = 4 /\ p[1] = Bslash
      /\ p[2] = o[1] /\ p[3] = o[2] /\ p[4] = o[3]
  BY <1>0
<1>2. <<Bslash>> \o o = p
  <2>1. o = <<o[1], o[2], o[3]>> BY OctalIs
  <2>. HIDE DEF o
  <2>. QED BY <1>0, <2>1, OneAndThree
<1>. HIDE DEF p
<1>3. ASSUME NEW z \in Seq(Nat)
      PROVE  visSkip(p \o z, 1) = Len(p) /\ visOut(p \o z, 1) = <<b>>
  <2>. DEFINE v == p \o z
  <2>1. /\ v[1] = Bslash /\ v[1 + 1] = o[1] /\ v[1 + 2] = o[2] /\ v[1 + 3] = o[3]
        /\ Len(v) \in Nat /\ Len(v) >= 4
    <3>1. /\ 1 \in 1..Len(p) /\ 2 \in 1..Len(p) /\ 3 \in 1..Len(p) /\ 4 \in 1..Len(p)
          /\ 1 + 1 = 2 /\ 1 + 2 = 3 /\ 1 + 3 = 4 /\ Len(z) \in Nat
      BY <1>1
    <3>2. /\ v[1] = p[1] /\ v[2] = p[2] /\ v[3] = p[3] /\ v[4] = p[4]
          /\ Len(v) = Len(p) + Len(z)
      BY <3>1, Follow
    <3>. QED BY <1>1, <3>1, <3>2
  <2>. HIDE DEF v
  <2>2. o[1] \in 48..51 /\ o[2] \in 48..55 /\ o[3] \in 48..55 BY OctalIs DEF Zero
  <2>. HIDE DEF o
  <2>3. IsOctal(v, 1 + 1)
    <3>1. \A j \in (1 + 1)..(1 + 1 + 2) : j = 1 + 1 \/ j = 1 + 2 \/ j = 1 + 3 OBVIOUS
    <3>. QED BY <2>1, <2>2, <3>1 DEF IsOctal, Zero
  <2>4. octalByte(v, 1 + 1) = b
    <3>1. octalByte(v, 1 + 1) = (o[1] - Zero) * 64 + (o[2] - Zero) * 8 + (o[3] - Zero)
      <4>1. 1 + 1 + 1 = 1 + 2 /\ 1 + 1 + 2 = 1 + 3 OBVIOUS
      <4>. QED BY <2>1, <4>1 DEF octalByte
    <3>. QED BY <3>1, OctalIs DEF o
  <2>5. /\ o[1] \notin DOMAIN CStyle /\ o[1] # 115 /\ o[1] \notin {Bslash, Dquote, Quote, Dollar}
    <3>1. \A x \in 48..51 : x \notin {97, 98, 102, 110, 114, 116, 118, 115, 92, 34, 39, 36}
      OBVIOUS
    <3>2. o[1] \notin {97, 98, 102, 110, 114, 116, 118, 115, 92, 34, 39, 36} BY <2>2, <3>1
    <3>3. o[1] \notin DOMAIN CStyle BY <3>2, CStyleIs
    <3>. QED BY <3>2, <3>3 DEF Bslash, Dquote, Quote, Dollar
  <2>. QED BY <1>1, <2>1, <2>3, <2>4, <2>5 DEF visSkip, visOut, v
<1>4. Reads(vis, AnyBytes, p, <<b>>) BY <1>1, <1>3, VisReads
<1>. QED BY <1>2, <1>4

(* The images of a byte.                                                   *)
visImage == [b \in Code |-> visEscape(b)]
tmuxVis == [b \in Code |-> IF b > Del THEN <<Bslash>> \o OctalDigits(b) ELSE visEscape(b)]
itself == [b \in Code |-> <<b>>]

(* Bytes are numbers.                                                      *)
LEMMA CodesAreNats ==
  /\ Seq(Code) \subseteq Seq(Nat) /\ \A b \in Code : b \in Nat
  /\ \A h \in [Code -> Seq(Code)] : h \in [Code -> Seq(Nat)]
<1>1. \A b \in Code : b \in Nat BY DEF Code
<1>2. Seq(Code) \subseteq Seq(Nat)
  <2>. SUFFICES ASSUME NEW s \in Seq(Code) PROVE s \in Seq(Nat) OBVIOUS
  <2>1. s \in [1..Len(s) -> Code] /\ Len(s) \in Nat OBVIOUS
  <2>2. s \in [1..Len(s) -> Nat] BY <1>1, <2>1
  <2>. QED BY <2>1, <2>2
<1>3. ASSUME NEW h \in [Code -> Seq(Code)] PROVE h \in [Code -> Seq(Nat)]
  <2>1. h = [b \in Code |-> h[b]] /\ \A b \in Code : h[b] \in Seq(Nat) BY <1>2
  <2>. QED BY <2>1
<1>. QED BY <1>1, <1>2, <1>3

(* The letter for a byte that has one stands for it.                       *)
LEMMA LetterIs ==
  ASSUME NEW b, HasLetter(b)
  PROVE  LetterFor(b) \in DOMAIN CStyle /\ CStyle[LetterFor(b)] = b
BY DEF HasLetter, LetterFor

(* An octal escape is bytes.                                               *)
LEMMA OctalEscapeTyped ==
  ASSUME NEW b \in Code
  PROVE  <<Bslash>> \o OctalDigits(b) \in Seq(Code)
<1>. DEFINE o == OctalDigits(b)
<1>1. o = <<o[1], o[2], o[3]>> BY OctalIs
<1>2. o[1] \in 48..51 /\ o[2] \in 48..55 /\ o[3] \in 48..55 BY OctalIs DEF Zero
<1>. HIDE DEF o
<1>3. o[1] \in Code /\ o[2] \in Code /\ o[3] \in Code /\ Bslash \in Code
  BY <1>2 DEF Code, Bslash
<1>4. \A x, y, w \in Code : <<x, y, w>> \in Seq(Code) OBVIOUS
<1>5. o \in Seq(Code) BY <1>1, <1>3, <1>4
<1>6. <<Bslash>> \in Seq(Code) BY <1>3
<1>7. <<Bslash>> \o o \in Seq(Code) BY <1>5, <1>6, ConcatProperties
<1>. QED BY <1>7 DEF o

(* visEscape makes bytes of a byte, which are read as that byte.           *)
LEMMA VisImage ==
  ASSUME NEW b \in Code
  PROVE  visEscape(b) \in Seq(Code) /\ Reads(vis, AnyBytes, visEscape(b), <<b>>)
<1>1. b \in Nat /\ Bslash \in Code BY DEF Code, Bslash
<1>2. \A x, y \in Code : <<x>> \in Seq(Code) /\ <<x, y>> \in Seq(Code) OBVIOUS
<1>3. CASE b \in {Bslash, Dollar}
  <2>1. visEscape(b) = <<Bslash, b>> BY <1>3 DEF visEscape
  <2>2. Reads(vis, AnyBytes, <<Bslash, b>>, <<b>>) BY <1>1, <1>3, VisTwo
  <2>. QED BY <1>1, <1>2, <2>1, <2>2
<1>4. CASE b \notin {Bslash, Dollar} /\ HasLetter(b)
  <2>. DEFINE a == LetterFor(b)
  <2>1. visEscape(b) = <<Bslash, a>> BY <1>4 DEF visEscape
  <2>2. a \in DOMAIN CStyle /\ CStyle[a] = b BY <1>4, LetterIs
  <2>. HIDE DEF a
  <2>3. a \in Code /\ a \in Nat
    <3>1. \A x \in {97, 98, 102, 110, 114, 116, 118} : x \in Code /\ x \in Nat BY DEF Code
    <3>. QED BY <2>2, <3>1, CStyleIs
  <2>4. Reads(vis, AnyBytes, <<Bslash, a>>, <<b>>) BY <1>1, <2>2, <2>3, VisTwo
  <2>. QED BY <1>1, <1>2, <2>1, <2>3, <2>4
<1>5. CASE b \notin {Bslash, Dollar} /\ ~HasLetter(b) /\ b >= Space /\ b # Del
  <2>1. visEscape(b) = <<b>> BY <1>5 DEF visEscape
  <2>2. Reads(vis, AnyBytes, <<b>>, <<b>>) BY <1>1, <1>5, VisPlain
  <2>. QED BY <1>2, <2>1, <2>2
<1>6. CASE b \notin {Bslash, Dollar} /\ ~HasLetter(b) /\ ~(b >= Space /\ b # Del)
  <2>1. visEscape(b) = <<Bslash>> \o OctalDigits(b) BY <1>6 DEF visEscape
  <2>. QED BY <2>1, VisOctal, OctalEscapeTyped
<1>. QED BY <1>3, <1>4, <1>5, <1>6

(* So does vis as tmux has it.                                             *)
LEMMA TmuxVisImage ==
  ASSUME NEW b \in Code
  PROVE  tmuxVis[b] \in Seq(Code) /\ Reads(vis, AnyBytes, tmuxVis[b], <<b>>)
BY VisImage, VisOctal, OctalEscapeTyped DEF tmuxVis

(* The two encoders, and their types.                                      *)
LEMMA EncodersMap ==
  /\ visImage \in [Code -> Seq(Code)] /\ tmuxVis \in [Code -> Seq(Code)]
  /\ itself \in [Code -> Seq(Code)]
  /\ \A s \in Seq(Code) : visEncode(s) = Mapped(visImage, s) /\ TmuxVis(s) = Mapped(tmuxVis, s)
<1>1. visImage \in [Code -> Seq(Code)] BY VisImage DEF visImage
<1>2. tmuxVis \in [Code -> Seq(Code)]
  <2>1. tmuxVis = [b \in Code |-> tmuxVis[b]] BY DEF tmuxVis
  <2>. QED BY <2>1, TmuxVisImage
<1>3. itself \in [Code -> Seq(Code)] BY DEF itself
<1>4. ASSUME NEW s \in Seq(Code)
      PROVE  visEncode(s) = Mapped(visImage, s) /\ TmuxVis(s) = Mapped(tmuxVis, s)
  <2>1. \A i \in 1..Len(s) : s[i] \in Code OBVIOUS
  <2>2. [i \in 1..Len(s) |-> visEscape(s[i])] = [i \in 1..Len(s) |-> visImage[s[i]]]
    BY <2>1 DEF visImage
  <2>3. [i \in 1..Len(s) |-> IF s[i] > Del THEN <<Bslash>> \o OctalDigits(s[i]) ELSE visEscape(s[i])]
          = [i \in 1..Len(s) |-> tmuxVis[s[i]]]
    BY <2>1 DEF tmuxVis
  <2>. QED BY <2>2, <2>3, Zenon DEF visEncode, TmuxVis, Map, Mapped
<1>. QED BY <1>1, <1>2, <1>3, <1>4

(* What reads each image as its byte undoes the encoding.                  *)
LEMMA ImagesUndone ==
  ASSUME NEW h \in [Code -> Seq(Code)], \A b \in Code : Reads(vis, AnyBytes, h[b], <<b>>)
  PROVE  \A w \in Seq(Code) : visDecode(Mapped(h, w)) = w
<1>1. h \in [Code -> Seq(Nat)] /\ itself \in [Code -> Seq(Nat)] BY CodesAreNats, EncodersMap
<1>2. \A b \in Code : Reads(vis, AnyBytes, h[b], itself[b]) BY DEF itself
<1>3. \A w \in Seq(Code) : Reads(vis, AnyBytes, Mapped(h, w), Mapped(itself, w))
  <2>1. AnyBytes \subseteq Seq(Nat) /\ vis \in [AnyBytes -> Seq(Nat)] BY VisIs DEF AnyBytes
  <2>. QED BY <1>1, <1>2, <2>1, ReadsMapped
<1>4. \A w \in Seq(Code) : Mapped(itself, w) = w
  <2>1. itself \in [Code -> Seq(Code)] /\ \A x \in Code : itself[x] = <<x>>
    BY EncodersMap DEF itself
  <2>. QED BY <2>1, MappedSelf
<1>. SUFFICES ASSUME NEW w \in Seq(Code) PROVE visDecode(Mapped(h, w)) = w OBVIOUS
<1>. DEFINE e == Mapped(h, w)
<1>5. e \in Seq(Nat) /\ w \in Seq(Nat) BY <1>1, MappedAppend, CodesAreNats
<1>6. Reads(vis, AnyBytes, e, w) BY <1>3, <1>4
<1>. HIDE DEF e
<1>7. vis[e \o <<>>] = w \o vis[<<>>]
  <2>1. <<>> \in AnyBytes BY DEF AnyBytes
  <2>. QED BY <1>6, <2>1 DEF Reads
<1>8. e \o <<>> = e /\ w \o <<>> = w BY <1>5, ConcatEmptySeq
<1>9. vis[e] = w BY <1>7, <1>8, VisIs
<1>. QED BY <1>5, <1>9 DEF vis, e

(* visDecode undoes them.                                                  *)
LEMMA VisUndone ==
  ASSUME NEW s \in Seq(Code)
  PROVE  visDecode(visEncode(s)) = s /\ visDecode(TmuxVis(s)) = s
<1>1. \A b \in Code : Reads(vis, AnyBytes, visImage[b], <<b>>) BY VisImage DEF visImage
<1>2. visDecode(Mapped(visImage, s)) = s BY <1>1, ImagesUndone, EncodersMap
<1>3. visDecode(Mapped(tmuxVis, s)) = s BY TmuxVisImage, ImagesUndone, EncodersMap
<1>. QED BY <1>2, <1>3, EncodersMap

(* c reads a text of L bytes by what there is at each of its places.       *)
Reader(L, K, out, skip, c) ==
  /\ out \in [1..L -> Seq(Nat)] /\ skip \in [1..L -> 1..K]
  /\ ReadFrom(L, K, out, skip, c)

(* c reads M bytes, the last L of them as e does, and first takes the S    *)
(* before them.                                                            *)
TakesFirst(S, L, M, K, out, skip, e, out2, skip2, c) ==
  /\ S \in Nat \ {0} /\ L \in Nat /\ M = S + L /\ K \in Nat
  /\ Reader(L, K, out, skip, e) /\ Reader(M, K, out2, skip2, c)
  /\ IsEndOf(L, S, out, skip, out2, skip2) /\ skip2[1] = S

(* It reads what is at the first place, and then what e reads.             *)
ReadsOn(out2, e, c) == c[1] = out2[1] \o e[1]

(* It does, if it takes that first.                                        *)
LEMMA FirstThenRest ==
  ASSUME NEW S, NEW L, NEW M, NEW K, NEW out, NEW skip, NEW e, NEW out2, NEW skip2, NEW c,
         TakesFirst(S, L, M, K, out, skip, e, out2, skip2, c)
  PROVE  e[1] \in Seq(Nat) /\ ReadsOn(out2, e, c)
<1>0. /\ S \in Nat \ {0} /\ L \in Nat /\ M = S + L /\ K \in Nat /\ M \in Nat
      /\ out \in [1..L -> Seq(Nat)] /\ skip \in [1..L -> 1..K]
      /\ out2 \in [1..(S + L) -> Seq(Nat)] /\ skip2 \in [1..(S + L) -> 1..K]
      /\ ReadFrom(L, K, out, skip, e) /\ ReadFrom(S + L, K, out2, skip2, c)
      /\ IsEndOf(L, S, out, skip, out2, skip2) /\ skip2[1] = S
  BY DEF TakesFirst, Reader
<1>1. K >= 1
  <2>1. 1 \in 1..(S + L) BY <1>0
  <2>2. skip2[1] \in 1..K BY <1>0, <2>1
  <2>. QED BY <1>0, <2>2
<1>2. ReadsSame(L, K, S, e, c) BY <1>0, ReadFromShift
<1>3. c[1] = out2[1] \o c[1 + S]
  <2>1. 1 \in 1..(M + K) /\ 1 <= M /\ M \in Nat BY <1>0, <1>1
  <2>2. ReadFrom(M, K, out2, skip2, c) BY <1>0
  <2>3. c[1] = IF 1 > M THEN <<>> ELSE out2[1] \o c[1 + skip2[1]] BY <2>1, <2>2 DEF ReadFrom
  <2>4. ~(1 > M) BY <2>1
  <2>. QED BY <1>0, <2>3, <2>4, Zenon
<1>4. 1 \in 1..(L + K) BY <1>0, <1>1
<1>5. e[1] \in Seq(Nat) BY <1>0, <1>4, ReadFromTyped
<1>6. c[S + 1] = e[1] BY <1>2, <1>4 DEF ReadsSame
<1>7. S + 1 = 1 + S BY <1>0
<1>. QED BY <1>0, <1>3, <1>5, <1>6, <1>7 DEF ReadsOn

-----------------------------------------------------------------------------
(* Expand *)

(* What Expand reads at the i-th byte, and how many bytes of it.           *)
expandOut(v, i) ==
  IF v[i] # Hash THEN <<v[i]>>
  ELSE IF i < Len(v) /\ v[i + 1] = Hash THEN <<Hash>> ELSE <<>>
expandSkip(v, i) == IF v[i] # Hash THEN 1 ELSE 2

ExpandOuts(v) == [i \in 1..Len(v) |-> expandOut(v, i)]
ExpandSkips(v) == [i \in 1..Len(v) |-> expandSkip(v, i)]
ExpandFrom(v, c) == ReadFrom(Len(v), 2, ExpandOuts(v), ExpandSkips(v), c)

(* They are bytes, and some are read.                                      *)
LEMMA ExpandTyped ==
  ASSUME NEW v \in Seq(Nat)
  PROVE  ExpandOuts(v) \in [1..Len(v) -> Seq(Nat)] /\ ExpandSkips(v) \in [1..Len(v) -> 1..2]
<1>1. ASSUME NEW i \in 1..Len(v) PROVE expandOut(v, i) \in Seq(Nat)
  <2>1. v[i] \in Nat /\ Hash \in Nat BY DEF Hash
  <2>2. <<v[i]>> \in Seq(Nat) /\ <<Hash>> \in Seq(Nat) /\ <<>> \in Seq(Nat) BY <2>1
  <2>. QED BY <2>2 DEF expandOut
<1>2. \A i \in 1..Len(v) : expandSkip(v, i) \in 1..2 BY DEF expandSkip
<1>. QED BY <1>1, <1>2 DEF ExpandOuts, ExpandSkips

(* Expand reads from the first byte.                                       *)
LEMMA ExpandIs ==
  ASSUME NEW v \in Seq(Nat)
  PROVE  \E c : ExpandFrom(v, c) /\ Expand(v) = c[1]
<1>. DEFINE Place(c, i) ==
              IF i > Len(v) THEN <<>>
              ELSE IF v[i] # Hash THEN <<v[i]>> \o c[i + 1]
              ELSE IF i < Len(v) /\ v[i + 1] = Hash THEN <<Hash>> \o c[i + 2]
              ELSE c[i + 2]
            from == CHOOSE c : c = [i \in 1..(Len(v) + 2) |-> Place(c, i)]
            out == ExpandOuts(v)
            skip == ExpandSkips(v)
            L == Len(v)
<1>1. Expand(v) = from[1] BY DEF Expand
<1>2. out \in [1..L -> Seq(Nat)] /\ skip \in [1..L -> 1..2] /\ L \in Nat /\ 2 \in Nat
  BY ExpandTyped
<1>3. \A c : ExpandFrom(v, c) <=> ReadFrom(L, 2, out, skip, c) BY DEF ExpandFrom
<1>4. PICK c : ReadFrom(L, 2, out, skip, c)
  <2>. HIDE DEF L, out, skip
  <2>. QED BY <1>2, ReadFromExists
<1>5. ASSUME NEW e, NEW i \in 1..(L + 2),
             i <= L => e[i + skip[i]] \in Seq(Nat)
      PROVE  Place(e, i) = IF i > L THEN <<>> ELSE out[i] \o e[i + skip[i]]
  <2>1. CASE i > L BY <2>1
  <2>2. CASE ~(i > L)
    <3>1. i \in 1..L /\ i <= L BY <2>2
    <3>2. out[i] = expandOut(v, i) /\ skip[i] = expandSkip(v, i) BY <3>1 DEF ExpandOuts, ExpandSkips
    <3>3. <<>> \o e[i + skip[i]] = e[i + skip[i]] BY <1>5, <3>1, ConcatEmptySeq
    <3>4. Place(e, i) = out[i] \o e[i + skip[i]]
      <4>1. CASE v[i] # Hash BY <2>2, <3>2, <4>1 DEF expandOut, expandSkip
      <4>2. CASE v[i] = Hash
        <5>1. skip[i] = 2 BY <3>2, <4>2 DEF expandSkip
        <5>2. CASE i < L /\ v[i + 1] = Hash BY <2>2, <3>2, <4>2, <5>1, <5>2 DEF expandOut
        <5>3. CASE ~(i < L /\ v[i + 1] = Hash)
          <6>1. out[i] = <<>> BY <3>2, <4>2, <5>3 DEF expandOut
          <6>2. Place(e, i) = e[i + 2] BY <2>2, <4>2, <5>3
          <6>. QED BY <3>3, <5>1, <6>1, <6>2
        <5>. QED BY <5>2, <5>3
      <4>. QED BY <4>1, <4>2
    <3>. QED BY <2>2, <3>4
  <2>. QED BY <2>1, <2>2
<1>6. \A i \in 1..L : i + skip[i] \in (i + 1)..(L + 2) BY <1>2
<1>. HIDE DEF Place, L, out, skip
<1>7. \A i \in 1..(L + 2) : c[i] \in Seq(Nat) BY <1>2, <1>4, ReadFromTyped
<1>8. \A i \in 1..(L + 2) : Place(c, i) = IF i > L THEN <<>> ELSE out[i] \o c[i + skip[i]]
  <2>. SUFFICES ASSUME NEW i \in 1..(L + 2)
                PROVE  Place(c, i) = IF i > L THEN <<>> ELSE out[i] \o c[i + skip[i]]
    OBVIOUS
  <2>1. i <= L => i + skip[i] \in 1..(L + 2) BY <1>2, <1>6
  <2>2. i <= L => c[i + skip[i]] \in Seq(Nat) BY <1>7, <2>1
  <2>. QED BY <1>5, <2>2
<1>9. c = [i \in 1..(L + 2) |-> Place(c, i)] BY <1>4, <1>8, Zenon DEF ReadFrom
<1>10. from = [i \in 1..(L + 2) |-> Place(from, i)]
  <2>1. \E e : e = [i \in 1..(Len(v) + 2) |-> Place(e, i)] BY <1>9 DEF L
  <2>. QED BY <2>1, Zenon DEF L
<1>11. \A i \in 1..(L + 2) : from[i] = Place(from, i) BY <1>10, Zenon
<1>. HIDE DEF from
<1>. DEFINE Z == {i \in 1..(L + 2) : from[i] \in Seq(Nat)}
<1>12. ASSUME NEW i \in 1..(L + 2), \A j \in (i + 1)..(L + 2) : j \in Z PROVE i \in Z
  <2>1. i <= L => from[i + skip[i]] \in Seq(Nat) BY <1>2, <1>6, <1>12
  <2>2. from[i] = IF i > L THEN <<>> ELSE out[i] \o from[i + skip[i]] BY <1>5, <1>11, <2>1
  <2>3. CASE i > L
    <3>1. <<>> \in Seq(Nat) OBVIOUS
    <3>. QED BY <2>2, <2>3, <3>1
  <2>4. CASE ~(i > L)
    <3>1. i \in 1..L /\ i <= L BY <1>2, <2>4
    <3>2. out[i] \in Seq(Nat) /\ from[i + skip[i]] \in Seq(Nat) BY <1>2, <2>1, <3>1
    <3>3. out[i] \o from[i + skip[i]] \in Seq(Nat) BY <3>2, ConcatProperties
    <3>. QED BY <2>2, <2>4, <3>3
  <2>. QED BY <2>3, <2>4
<1>13. \A i \in 1..(L + 2) : i \in Z
  <2>1. L + 2 \in Nat BY <1>2
  <2>. HIDE DEF Z
  <2>. QED BY <1>12, <2>1, DownFrom
<1>14. \A i \in 1..(L + 2) : Place(from, i) = IF i > L THEN <<>> ELSE out[i] \o from[i + skip[i]]
  <2>. SUFFICES ASSUME NEW i \in 1..(L + 2)
                PROVE  Place(from, i) = IF i > L THEN <<>> ELSE out[i] \o from[i + skip[i]]
    OBVIOUS
  <2>1. i <= L => i + skip[i] \in 1..(L + 2) BY <1>2, <1>6
  <2>2. i <= L => from[i + skip[i]] \in Seq(Nat) BY <1>13, <2>1
  <2>. QED BY <1>5, <2>2
<1>15. ReadFrom(L, 2, out, skip, from) BY <1>10, <1>14, Zenon DEF ReadFrom
<1>. QED BY <1>1, <1>3, <1>15

(* What Expand reads, byte by byte.                                        *)
expand == [w \in Seq(Nat) |-> Expand(w)]

(* It is bytes.                                                            *)
LEMMA ExpandReadsBytes == expand \in [AnyBytes -> Seq(Nat)] /\ expand[<<>>] = <<>>
<1>1. ASSUME NEW w \in Seq(Nat) PROVE Expand(w) \in Seq(Nat)
  <2>. DEFINE o == ExpandOuts(w)
              k == ExpandSkips(w)
              L == Len(w)
  <2>1. PICK c : ExpandFrom(w, c) /\ Expand(w) = c[1] BY ExpandIs
  <2>2. ReadFrom(L, 2, o, k, c) /\ o \in [1..L -> Seq(Nat)] /\ k \in [1..L -> 1..2]
    BY <2>1, ExpandTyped DEF ExpandFrom
  <2>3. L \in Nat /\ 2 \in Nat OBVIOUS
  <2>. HIDE DEF o, k, L
  <2>4. \A i \in 1..(L + 2) : c[i] \in Seq(Nat) BY <2>2, <2>3, ReadFromTyped
  <2>5. 1 \in 1..(L + 2) BY <2>3
  <2>. QED BY <2>1, <2>4, <2>5
<1>2. Expand(<<>>) = <<>>
  <2>1. <<>> \in Seq(Nat) /\ Len(<<>>) = 0 OBVIOUS
  <2>2. PICK c : ExpandFrom(<<>>, c) /\ Expand(<<>>) = c[1] BY <2>1, ExpandIs
  <2>3. c[1] = <<>>
    <3>1. 1 \in 1..(0 + 2) /\ 1 > 0 OBVIOUS
    <3>. QED BY <2>1, <2>2, <3>1 DEF ExpandFrom, ReadFrom
  <2>. QED BY <2>2, <2>3
<1>. QED BY <1>1, <1>2 DEF expand, AnyBytes

(* What Expand reads of a text does not depend on what is before it.       *)
LEMMA ExpandFollows ==
  ASSUME NEW p \in Seq(Nat), NEW z \in Seq(Nat), NEW i \in 1..Len(z)
  PROVE  /\ expandOut(p \o z, Len(p) + i) = expandOut(z, i)
         /\ expandSkip(p \o z, Len(p) + i) = expandSkip(z, i)
<1>. DEFINE v == p \o z
            S == Len(p)
            L == Len(z)
<1>1. S \in Nat /\ L \in Nat /\ Len(v) = S + L /\ \A j \in 1..L : v[S + j] = z[j] BY Follow
<1>2. S + (i + 1) = (S + i) + 1 OBVIOUS
<1>3. i \in 1..L OBVIOUS
<1>. HIDE DEF v, S, L
<1>4. v[S + i] = z[i] /\ (S + i < Len(v) <=> i < L) BY <1>1, <1>3
<1>5. i < L => v[(S + i) + 1] = z[i + 1]
  <2>1. i < L => i + 1 \in 1..L BY <1>1, <1>3
  <2>. QED BY <1>1, <1>2, <2>1
<1>6. expandOut(v, S + i) = expandOut(z, i) BY <1>4, <1>5 DEF expandOut, L
<1>7. expandSkip(v, S + i) = expandSkip(z, i) BY <1>4 DEF expandSkip
<1>. QED BY <1>6, <1>7 DEF v, S

(* Expand reads a text whose first piece is all of p as what that stands   *)
(* for and then the rest.                                                  *)
LEMMA ExpandStep ==
  ASSUME NEW p \in Seq(Nat), p # <<>>, NEW z \in Seq(Nat), expandSkip(p \o z, 1) = Len(p)
  PROVE  Expand(p \o z) = expandOut(p \o z, 1) \o Expand(z)
<1>. DEFINE v == p \o z
            S == Len(p)
            L == Len(z)
            M == Len(v)
            out == ExpandOuts(z)
            skip == ExpandSkips(z)
            out2 == ExpandOuts(v)
            skip2 == ExpandSkips(v)
<1>1. S \in Nat \ {0} /\ L \in Nat /\ M = S + L /\ v \in Seq(Nat) /\ 2 \in Nat BY Follow
<1>2. PICK c : ExpandFrom(v, c) /\ Expand(v) = c[1] BY <1>1, ExpandIs
<1>3. PICK e : ExpandFrom(z, e) /\ Expand(z) = e[1] BY ExpandIs
<1>4. Reader(M, 2, out2, skip2, c) /\ Reader(L, 2, out, skip, e)
  BY <1>1, <1>2, <1>3, ExpandTyped DEF ExpandFrom, Reader
<1>5. IsEndOf(L, S, out, skip, out2, skip2)
  <2>1. ASSUME NEW i \in 1..L PROVE out2[S + i] = out[i] /\ skip2[S + i] = skip[i]
    <3>1. S + i \in 1..Len(v) BY <1>1
    <3>. QED BY <3>1, ExpandFollows DEF ExpandOuts, ExpandSkips
  <2>. QED BY <2>1 DEF IsEndOf
<1>6. out2[1] = expandOut(v, 1) /\ skip2[1] = S
  <2>1. 1 \in 1..Len(v) BY <1>1
  <2>. QED BY <2>1 DEF ExpandOuts, ExpandSkips
<1>7. c[1] = out2[1] \o e[1]
  <2>1. TakesFirst(S, L, M, 2, out, skip, e, out2, skip2, c)
    BY <1>1, <1>4, <1>5, <1>6 DEF TakesFirst
  <2>. HIDE DEF v, S, L, M, out, skip, out2, skip2
  <2>2. ReadsOn(out2, e, c) BY <2>1, FirstThenRest
  <2>. QED BY <2>2 DEF ReadsOn
<1>. QED BY <1>2, <1>3, <1>6, <1>7

(* A piece that Expand takes at once is read as what it stands for.        *)
LEMMA ExpandReads ==
  ASSUME NEW p \in Seq(Nat), p # <<>>, NEW t,
         \A z \in Seq(Nat) : expandSkip(p \o z, 1) = Len(p) /\ expandOut(p \o z, 1) = t
  PROVE  Reads(expand, AnyBytes, p, t)
<1>1. ASSUME NEW z \in Seq(Nat)
      PROVE  p \o z \in Seq(Nat) /\ expand[p \o z] = t \o expand[z]
  <2>1. p \o z \in Seq(Nat) BY ConcatProperties
  <2>2. expandSkip(p \o z, 1) = Len(p) /\ expandOut(p \o z, 1) = t OBVIOUS
  <2>3. Expand(p \o z) = expandOut(p \o z, 1) \o Expand(z) BY <2>2, ExpandStep
  <2>. QED BY <2>1, <2>2, <2>3 DEF expand
<1>. QED BY <1>1 DEF Reads, AnyBytes

(* A byte that is no '#' is read as it is, and two '#' are one.            *)
LEMMA ExpandPlain ==
  ASSUME NEW b \in Nat
  PROVE  /\ b # Hash => Reads(expand, AnyBytes, <<b>>, <<b>>)
         /\ b = Hash => Reads(expand, AnyBytes, <<b, b>>, <<b>>)
<1>1. CASE b # Hash
  <2>. DEFINE p == <<b>>
  <2>1. p \in Seq(Nat) /\ p # <<>> /\ Len(p) = 1 /\ p[1] = b OBVIOUS
  <2>. HIDE DEF p
  <2>2. ASSUME NEW z \in Seq(Nat)
        PROVE  expandSkip(p \o z, 1) = Len(p) /\ expandOut(p \o z, 1) = <<b>>
    <3>1. (p \o z)[1] = b
      <4>1. 1 \in 1..Len(p) BY <2>1
      <4>. QED BY <2>1, <4>1, Follow
    <3>. QED BY <1>1, <2>1, <3>1 DEF expandSkip, expandOut
  <2>3. Reads(expand, AnyBytes, p, <<b>>) BY <2>1, <2>2, ExpandReads
  <2>. QED BY <1>1, <2>3 DEF p
<1>2. CASE b = Hash
  <2>. DEFINE p == <<b, b>>
  <2>1. p \in Seq(Nat) /\ p # <<>> /\ Len(p) = 2 /\ p[1] = b /\ p[2] = b OBVIOUS
  <2>. HIDE DEF p
  <2>2. ASSUME NEW z \in Seq(Nat)
        PROVE  expandSkip(p \o z, 1) = Len(p) /\ expandOut(p \o z, 1) = <<b>>
    <3>. DEFINE v == p \o z
    <3>1. v[1] = b /\ v[1 + 1] = b /\ 1 < Len(v)
      <4>1. 1 \in 1..Len(p) /\ 2 \in 1..Len(p) /\ 1 + 1 = 2 /\ Len(z) \in Nat BY <2>1
      <4>2. v[1] = p[1] /\ v[2] = p[2] /\ Len(v) = Len(p) + Len(z) BY <4>1, Follow
      <4>. QED BY <2>1, <4>1, <4>2
    <3>. HIDE DEF v
    <3>2. expandOut(v, 1) = <<Hash>> BY <1>2, <3>1 DEF expandOut
    <3>3. expandSkip(v, 1) = 2 BY <1>2, <3>1 DEF expandSkip
    <3>. QED BY <1>2, <2>1, <3>2, <3>3 DEF v
  <2>3. Reads(expand, AnyBytes, p, <<b>>) BY <2>1, <2>2, ExpandReads
  <2>. QED BY <1>2, <2>3 DEF p
<1>. QED BY <1>1, <1>2

-----------------------------------------------------------------------------
(* The fault of 3.4, and undoing it *)

(* Two runs of sequences are joined as each of them is.                    *)
FlattensApart(a, c) == FlattenSeq(a \o c) = FlattenSeq(a) \o FlattenSeq(c)

(* They are, and one sequence is joined to itself.                         *)
LEMMA FlattenConcat ==
  ASSUME NEW S
  PROVE  /\ \A a, c \in Seq(Seq(S)) : FlattensApart(a, c)
         /\ \A q \in Seq(S) : FlattenSeq(<<q>>) = q
<1>. DEFINE h == [q \in Seq(S) |-> q]
<1>1. \A ss \in Seq(Seq(S)) : Mapped(h, ss) = FlattenSeq(ss)
  <2>. SUFFICES ASSUME NEW ss \in Seq(Seq(S)) PROVE Mapped(h, ss) = FlattenSeq(ss) OBVIOUS
  <2>1. \A i \in 1..Len(ss) : h[ss[i]] = ss[i] OBVIOUS
  <2>2. [i \in 1..Len(ss) |-> h[ss[i]]] = ss
    <3>1. ss = [i \in 1..Len(ss) |-> ss[i]] OBVIOUS
    <3>. HIDE DEF h
    <3>. QED BY <2>1, <3>1
  <2>. QED BY <2>2 DEF Mapped
<1>2. h \in [Seq(S) -> Seq(S)] OBVIOUS
<1>3. ASSUME NEW a \in Seq(Seq(S)), NEW c \in Seq(Seq(S)) PROVE FlattensApart(a, c)
  <2>. DEFINE A == Seq(S)
  <2>1. JoinsImages(A, h)
    <3>1. h \in [A -> Seq(S)] BY <1>2
    <3>. HIDE DEF A, h
    <3>. QED BY <3>1, MappedConcat
  <2>2. a \o c \in Seq(Seq(S)) BY ConcatProperties
  <2>. HIDE DEF h
  <2>3. Mapped(h, a \o c) = Mapped(h, a) \o Mapped(h, c) BY <2>1 DEF JoinsImages
  <2>. QED BY <1>1, <2>2, <2>3 DEF FlattensApart
<1>4. ASSUME NEW q \in Seq(S) PROVE FlattenSeq(<<q>>) = q
  <2>1. <<>> \in Seq(Seq(S)) /\ <<q>> = Append(<<>>, q) OBVIOUS
  <2>2. FlattenSeq(Append(<<>>, q)) = FlattenSeq(<<>>) \o q BY <2>1, FlattenAppend
  <2>3. FlattenSeq(<<>>) = <<>> BY DEF FlattenSeq
  <2>4. <<>> \o q = q BY ConcatEmptySeq
  <2>. QED BY <2>1, <2>2, <2>3, <2>4
<1>. QED BY <1>3, <1>4

(* What is left of each byte.                                              *)
undoAt(v, i) == IF v[i] = Bslash /\ i + 2 <= Len(v) /\ v[i + 1] = Dollar THEN <<>> ELSE <<v[i]>>
undoParts(v) == [i \in 1..Len(v) |-> undoAt(v, i)]

(* They are bytes.                                                         *)
LEMMA UndoTyped ==
  ASSUME NEW v \in Seq(Nat)
  PROVE  /\ undoParts(v) \in Seq(Seq(Nat)) /\ Len(undoParts(v)) = Len(v)
         /\ undoDollarEscape(v) = FlattenSeq(undoParts(v)) /\ undoDollarEscape(v) \in Seq(Nat)
<1>1. undoDollarEscape(v) = FlattenSeq(undoParts(v)) BY DEF undoDollarEscape, undoParts, undoAt
<1>. DEFINE u == undoParts(v)
            L == Len(v)
<1>2. SeqWith(Seq(Nat), L, u)
  <2>1. L \in Nat /\ u = [i \in 1..L |-> u[i]] BY DEF undoParts
  <2>2. \A i \in 1..L : u[i] \in Seq(Nat)
    <3>. SUFFICES ASSUME NEW i \in 1..L PROVE undoAt(v, i) \in Seq(Nat) BY DEF undoParts
    <3>1. v[i] \in Nat OBVIOUS
    <3>2. <<v[i]>> \in Seq(Nat) /\ <<>> \in Seq(Nat) BY <3>1
    <3>. QED BY <3>2 DEF undoAt
  <2>. HIDE DEF u, L
  <2>. QED BY <2>1, <2>2, MadeSeq
<1>3. u \in Seq(Seq(Nat)) /\ Len(u) = L BY <1>2 DEF SeqWith
<1>. HIDE DEF u
<1>4. FlattenSeq(u) \in Seq(Nat)
  <2>1. <<>> \in Seq(Nat) OBVIOUS
  <2>. QED BY <1>3, <2>1, FlattenAppend
<1>. QED BY <1>1, <1>3, <1>4 DEF u

(* What is left of a byte put before a text.                               *)
undoFirst(b, z) == IF b = Bslash /\ Len(z) >= 2 /\ z[1] = Dollar THEN <<>> ELSE <<b>>
UndoesFirst(b, z) == undoDollarEscape(<<b>> \o z) = undoFirst(b, z) \o undoDollarEscape(z)

(* undoDollarEscape looks ahead of a byte and never back.                  *)
LEMMA UndoStep ==
  ASSUME NEW b \in Nat, NEW z \in Seq(Nat)
  PROVE  UndoesFirst(b, z)
<1>. DEFINE p == <<b>>
            v == p \o z
            L == Len(z)
            q == undoFirst(b, z)
<1>1. p \in Seq(Nat) /\ Len(p) = 1 /\ p[1] = b OBVIOUS
<1>2. /\ v \in Seq(Nat) /\ L \in Nat /\ Len(v) = 1 + L /\ v[1] = b
      /\ \A i \in 1..L : v[1 + i] = z[i]
  <2>. HIDE DEF p
  <2>0. p \in Seq(Nat) BY <1>1
  <2>1. /\ p \o z \in Seq(Nat) /\ Len(p \o z) = Len(p) + Len(z)
        /\ \A i \in 1..Len(p) : (p \o z)[i] = p[i]
        /\ \A i \in 1..Len(z) : (p \o z)[Len(p) + i] = z[i]
    BY <2>0, Follow
  <2>2. 1 \in 1..Len(p) BY <1>1
  <2>. QED BY <1>1, <2>1, <2>2
<1>3. q \in Seq(Nat) /\ <<q>> \in Seq(Seq(Nat)) /\ Len(<<q>>) = 1 /\ <<q>>[1] = q
  <2>1. q \in Seq(Nat) BY DEF undoFirst
  <2>. HIDE DEF q
  <2>. QED BY <2>1
<1>. HIDE DEF p, v, L, q
<1>4. undoAt(v, 1) = q
  <2>1. 1 + 2 <= Len(v) <=> L >= 2 BY <1>2
  <2>2. L >= 2 => v[1 + 1] = z[1] BY <1>2
  <2>. QED BY <1>2, <2>1, <2>2 DEF undoAt, undoFirst, q, L
<1>5. \A i \in 1..L : undoAt(v, 1 + i) = undoAt(z, i)
  <2>. SUFFICES ASSUME NEW i \in 1..L PROVE undoAt(v, 1 + i) = undoAt(z, i) OBVIOUS
  <2>1. v[1 + i] = z[i] BY <1>2
  <2>2. (1 + i) + 2 <= Len(v) <=> i + 2 <= L BY <1>2
  <2>3. i + 2 <= L => v[(1 + i) + 1] = z[i + 1]
    <3>1. (1 + i) + 1 = 1 + (i + 1) /\ (i + 2 <= L => i + 1 \in 1..L) BY <1>2
    <3>. QED BY <1>2, <3>1
  <2>. QED BY <2>1, <2>2, <2>3 DEF undoAt, L
<1>6. undoParts(v) = <<q>> \o undoParts(z)
  <2>. DEFINE x == <<q>>
              y == undoParts(z)
              w == undoParts(v)
  <2>1. /\ y \in Seq(Seq(Nat)) /\ Len(y) = L /\ w \in Seq(Seq(Nat)) /\ Len(w) = 1 + L
        /\ x \in Seq(Seq(Nat)) /\ Len(x) = 1 /\ x[1] = q
    BY <1>2, <1>3, UndoTyped DEF L
  <2>2. w[1] = q /\ \A i \in 1..L : w[1 + i] = y[i]
    <3>1. 1 \in 1..Len(v) /\ \A i \in 1..L : 1 + i \in 1..Len(v) BY <1>2
    <3>. QED BY <1>4, <1>5, <3>1 DEF undoParts, L
  <2>. HIDE DEF x, y, w
  <2>3. /\ x \o y \in Seq(Seq(Nat)) /\ Len(x \o y) = 1 + L /\ (x \o y)[1] = q
        /\ \A i \in 1..L : (x \o y)[1 + i] = y[i]
    <3>. DEFINE B == Seq(Nat)
    <3>0. x \in Seq(B) /\ y \in Seq(B) BY <2>1
    <3>. HIDE DEF B
    <3>1. /\ x \o y \in Seq(B) /\ Len(x \o y) = Len(x) + Len(y)
          /\ \A i \in 1..Len(x) : (x \o y)[i] = x[i]
          /\ \A i \in 1..Len(y) : (x \o y)[Len(x) + i] = y[i]
      BY <3>0, Follow
    <3>2. 1 \in 1..Len(x) BY <2>1
    <3>. QED BY <2>1, <3>1, <3>2 DEF B
  <2>4. \A i \in 1..(1 + L) : w[i] = (x \o y)[i]
    <3>. SUFFICES ASSUME NEW i \in 1..(1 + L) PROVE w[i] = (x \o y)[i] OBVIOUS
    <3>1. CASE i = 1 BY <2>2, <2>3, <3>1
    <3>2. CASE i # 1
      <4>1. i - 1 \in 1..L /\ 1 + (i - 1) = i BY <1>2, <3>2
      <4>. QED BY <2>2, <2>3, <4>1
    <3>. QED BY <3>1, <3>2
  <2>5. w = x \o y BY <2>1, <2>3, <2>4, SeqEqual
  <2>. QED BY <2>5 DEF x, y, w
<1>7. FlattenSeq(undoParts(v)) = q \o FlattenSeq(undoParts(z))
  <2>. DEFINE x == <<q>>
              y == undoParts(z)
  <2>1. x \in Seq(Seq(Nat)) /\ y \in Seq(Seq(Nat)) BY <1>3, UndoTyped
  <2>2. FlattenSeq(x) = q BY <1>3, FlattenConcat
  <2>. HIDE DEF x, y
  <2>3. FlattensApart(x, y) BY <2>1, FlattenConcat
  <2>4. FlattenSeq(x \o y) = q \o FlattenSeq(y) BY <2>2, <2>3 DEF FlattensApart
  <2>. QED BY <1>6, <2>4 DEF x, y
<1>8. undoDollarEscape(v) = FlattenSeq(undoParts(v)) /\ undoDollarEscape(z) = FlattenSeq(undoParts(z))
  BY <1>2, UndoTyped
<1>. QED BY <1>7, <1>8 DEF UndoesFirst, v, p, q

(* A sequence has no last element only if it is empty.                     *)
LEMMA HasLast ==
  ASSUME NEW A
  PROVE  \A v \in Seq(A) : v = <<>> \/ \E s \in Seq(A), x \in A : v = Append(s, x)
<1>. DEFINE Z == {v \in Seq(A) : v = <<>> \/ \E s \in Seq(A), x \in A : v = Append(s, x)}
<1>1. <<>> \in Z OBVIOUS
<1>2. ASSUME NEW s \in Seq(A), NEW x \in A, s \in Z PROVE Append(s, x) \in Z
  <2>1. Append(s, x) \in Seq(A) OBVIOUS
  <2>. QED BY <2>1
<1>3. \A v \in Seq(A) : v \in Z
  <2>. HIDE DEF Z
  <2>. QED BY <1>1, <1>2, ByAppend
<1>. QED BY <1>3

(* The image of a byte that something follows, in a faulty tmux.           *)
dollars(f) == [b \in Code |-> IF f /\ b = Dollar THEN <<Bslash, b>> ELSE <<b>>]

(* It is bytes.                                                            *)
LEMMA DollarsTyped ==
  ASSUME NEW f \in BOOLEAN
  PROVE  dollars(f) \in [Code -> Seq(Code)]
<1>1. ASSUME NEW b \in Code PROVE <<b>> \in Seq(Code) /\ <<Bslash, b>> \in Seq(Code)
  <2>1. Bslash \in Code BY DEF Code, Bslash
  <2>. QED BY <2>1
<1>. QED BY <1>1 DEF dollars

(* A value is stored as the images of its bytes, but for the last, which   *)
(* is stored as it is.                                                     *)
FaultOf(f, s, x) == DollarFault(f, Append(s, x)) = Mapped(dollars(f), s) \o <<x>>

(* It is, and nothing is stored as nothing.                                *)
LEMMA FaultIs ==
  ASSUME NEW f \in BOOLEAN
  PROVE  DollarFault(f, <<>>) = <<>> /\ \A s \in Seq(Code), x \in Code : FaultOf(f, s, x)
<1>. DEFINE part(v, i) == IF f /\ v[i] = Dollar /\ i < Len(v) THEN <<Bslash, v[i]>> ELSE <<v[i]>>
            parts(v) == [i \in 1..Len(v) |-> part(v, i)]
<1>1. \A v : DollarFault(f, v) = FlattenSeq(parts(v)) BY DEF DollarFault
<1>2. DollarFault(f, <<>>) = <<>>
  <2>1. parts(<<>>) = <<>> OBVIOUS
  <2>2. FlattenSeq(<<>>) = <<>> BY DEF FlattenSeq
  <2>. QED BY <1>1, <2>1, <2>2
<1>3. ASSUME NEW s \in Seq(Code), NEW x \in Code PROVE FaultOf(f, s, x)
  <2>. DEFINE v == Append(s, x)
              L == Len(s)
              h == dollars(f)
              u == [i \in 1..L |-> h[s[i]]]
              w == parts(v)
  <2>1. /\ v \in Seq(Code) /\ L \in Nat /\ Len(v) = L + 1 /\ v[L + 1] = x
        /\ \A i \in 1..L : v[i] = s[i] /\ s[i] \in Code
    BY AppendProperties
  <2>2. h \in [Code -> Seq(Code)] /\ \A b \in Code : h[b] = IF f /\ b = Dollar THEN <<Bslash, b>> ELSE <<b>>
    BY DollarsTyped DEF dollars
  <2>3. SeqWith(Seq(Code), L, u)
    <3>1. \A i \in 1..L : u[i] \in Seq(Code) BY <2>1, <2>2
    <3>2. u = [i \in 1..L |-> u[i]] /\ L \in Nat OBVIOUS
    <3>. HIDE DEF u, L
    <3>. QED BY <3>1, <3>2, MadeSeq
  <2>4. u \in Seq(Seq(Code)) /\ Len(u) = L BY <2>3 DEF SeqWith
  <2>5. <<x>> \in Seq(Code) OBVIOUS
  <2>6. \A i \in 1..L : part(v, i) = u[i]
    <3>. SUFFICES ASSUME NEW i \in 1..L PROVE part(v, i) = u[i] OBVIOUS
    <3>1. v[i] = s[i] /\ i < Len(v) /\ u[i] = h[s[i]] /\ s[i] \in Code BY <2>1
    <3>. HIDE DEF v, u, h
    <3>. QED BY <2>2, <3>1
  <2>7. part(v, L + 1) = <<x>>
    <3>1. ~(L + 1 < Len(v)) BY <2>1
    <3>. HIDE DEF v, L
    <3>. QED BY <2>1, <3>1
  <2>8. w = [i \in 1..(L + 1) |-> part(v, i)] BY <2>1
  <2>. HIDE DEF part, v, L, h, u, w
  <2>9. w = Append(u, <<x>>)
    <3>. DEFINE B == Seq(Code)
                y == Append(u, <<x>>)
    <3>1. \A i \in 1..(L + 1) : part(v, i) \in B
      <4>1. \A i \in 1..(L + 1) : i \in 1..L \/ i = L + 1 BY <2>1
      <4>2. \A i \in 1..L : u[i] \in B BY <2>4
      <4>. QED BY <2>5, <2>6, <2>7, <4>1, <4>2
    <3>2. SeqWith(B, L + 1, w)
      <4>1. L + 1 \in Nat BY <2>1
      <4>2. w = [i \in 1..(L + 1) |-> w[i]] /\ \A i \in 1..(L + 1) : w[i] \in B BY <2>8, <3>1
      <4>. DEFINE M == L + 1
      <4>. HIDE DEF B, M
      <4>3. SeqWith(B, M, w) BY <4>1, <4>2, MadeSeq DEF M
      <4>. QED BY <4>3 DEF M
    <3>3. w \in Seq(B) /\ Len(w) = L + 1 BY <3>2 DEF SeqWith
    <3>4. /\ y \in Seq(B) /\ Len(y) = L + 1 /\ y[L + 1] = <<x>>
          /\ \A i \in 1..L : y[i] = u[i]
      <4>1. u \in Seq(B) /\ <<x>> \in B BY <2>4, <2>5
      <4>. HIDE DEF B
      <4>. QED BY <2>4, <4>1, AppendProperties
    <3>5. \A i \in 1..(L + 1) : w[i] = y[i]
      <4>. SUFFICES ASSUME NEW i \in 1..(L + 1) PROVE w[i] = y[i] OBVIOUS
      <4>1. w[i] = part(v, i) BY <2>8
      <4>2. i \in 1..L \/ i = L + 1 BY <2>1
      <4>. HIDE DEF y
      <4>. QED BY <2>6, <2>7, <3>4, <4>1, <4>2
    <3>. HIDE DEF y, B
    <3>6. w = y BY <3>3, <3>4, <3>5, SeqEqual
    <3>. QED BY <3>6 DEF y
  <2>10. FlattenSeq(Append(u, <<x>>)) = FlattenSeq(u) \o <<x>> BY <2>4, <2>5, FlattenAppend
  <2>11. Mapped(h, s) = FlattenSeq(u) BY DEF Mapped, u, L
  <2>12. DollarFault(f, v) = FlattenSeq(w) BY <1>1 DEF w
  <2>. QED BY <2>9, <2>10, <2>11, <2>12 DEF FaultOf, v, h
<1>. QED BY <1>2, <1>3

(* The texts undoDollarEscape may come to: a '$' it has come to is the     *)
(* last byte, or had a backslash.                                          *)
Undoable == {z \in Seq(Nat) : z # <<>> /\ (z[1] = Dollar => Len(z) = 1)}
undo == [z \in Undoable |-> undoDollarEscape(z)]

(* The image of a byte is read as that byte.                               *)
LEMMA UndoReads ==
  /\ undo \in [Undoable -> Seq(Nat)] /\ Undoable \subseteq Seq(Nat)
  /\ \A b \in Code : Reads(undo, Undoable, dollars(TRUE)[b], <<b>>)
<1>1. undo \in [Undoable -> Seq(Nat)] /\ Undoable \subseteq Seq(Nat)
  BY UndoTyped DEF undo, Undoable
<1>2. ASSUME NEW b \in Nat, NEW z \in Seq(Nat)
      PROVE  /\ <<b>> \o z \in Seq(Nat) /\ <<b>> \o z # <<>> /\ Len(<<b>> \o z) = 1 + Len(z)
             /\ (<<b>> \o z)[1] = b /\ Len(z) \in Nat
  <2>. DEFINE p == <<b>>
  <2>1. p \in Seq(Nat) /\ Len(p) = 1 /\ p[1] = b OBVIOUS
  <2>. HIDE DEF p
  <2>2. p \in Seq(Nat) BY <2>1
  <2>3. /\ p \o z \in Seq(Nat) /\ Len(p \o z) = Len(p) + Len(z)
        /\ \A i \in 1..Len(p) : (p \o z)[i] = p[i]
    BY <2>2, Follow
  <2>4. 1 \in 1..Len(p) /\ Len(z) \in Nat BY <2>1
  <2>5. p \o z # <<>>
    <3>1. Len(p \o z) # 0 BY <2>1, <2>3, <2>4
    <3>. QED BY <3>1
  <2>. QED BY <2>1, <2>3, <2>4, <2>5 DEF p
<1>3. ASSUME NEW b \in Code, b # Dollar PROVE Reads(undo, Undoable, <<b>>, <<b>>)
  <2>. SUFFICES ASSUME NEW z \in Undoable
                PROVE  <<b>> \o z \in Undoable /\ undo[<<b>> \o z] = <<b>> \o undo[z]
    BY DEF Reads
  <2>1. b \in Nat /\ z \in Seq(Nat) BY CodesAreNats DEF Undoable
  <2>2. <<b>> \o z \in Undoable BY <1>2, <1>3, <2>1 DEF Undoable
  <2>3. undoFirst(b, z) = <<b>>
    <3>1. z[1] = Dollar => Len(z) = 1 BY DEF Undoable
    <3>2. ~(Len(z) >= 2 /\ z[1] = Dollar)
      <4>1. Len(z) = 1 => ~(Len(z) >= 2) OBVIOUS
      <4>. QED BY <3>1, <4>1
    <3>. QED BY <3>2 DEF undoFirst
  <2>4. UndoesFirst(b, z) BY <2>1, UndoStep
  <2>. QED BY <2>2, <2>3, <2>4 DEF UndoesFirst, undo
<1>4. Reads(undo, Undoable, <<Bslash, Dollar>>, <<Dollar>>)
  <2>. SUFFICES ASSUME NEW z \in Undoable
                PROVE  /\ <<Bslash, Dollar>> \o z \in Undoable
                       /\ undo[<<Bslash, Dollar>> \o z] = <<Dollar>> \o undo[z]
    BY DEF Reads
  <2>. DEFINE p == <<Bslash>>
              q == <<Dollar>>
              e == undoDollarEscape(z)
  <2>1. Bslash \in Nat /\ Dollar \in Nat /\ Bslash # Dollar /\ z \in Seq(Nat)
    BY DEF Undoable, Bslash, Dollar
  <2>2. q \o z \in Seq(Nat) /\ (q \o z)[1] = Dollar /\ Len(q \o z) >= 2
    <3>1. Len(z) # 0 BY DEF Undoable
    <3>. QED BY <1>2, <2>1, <3>1
  <2>3. <<Bslash, Dollar>> \o z = p \o (q \o z)
    <3>1. <<Bslash, Dollar>> = p \o q BY <2>1, Pair
    <3>2. p \in Seq(Nat) /\ q \in Seq(Nat) BY <2>1
    <3>. HIDE DEF p, q
    <3>3. Regroups(p, q, z) BY <2>1, <3>2, Regrouped
    <3>. QED BY <3>1, <3>3 DEF Regroups
  <2>4. p \o (q \o z) \in Undoable
    <3>. DEFINE y == q \o z
    <3>1. y \in Seq(Nat) BY <2>2
    <3>. HIDE DEF y
    <3>2. p \o y \in Seq(Nat) /\ p \o y # <<>> /\ (p \o y)[1] = Bslash BY <1>2, <2>1, <3>1
    <3>3. p \o y \in Undoable BY <2>1, <3>2 DEF Undoable
    <3>. QED BY <3>3 DEF y
  <2>5. undoDollarEscape(q \o z) = q \o e
    <3>1. UndoesFirst(Dollar, z) BY <2>1, UndoStep
    <3>2. undoFirst(Dollar, z) = q BY <2>1 DEF undoFirst
    <3>. QED BY <3>1, <3>2 DEF UndoesFirst
  <2>6. undoDollarEscape(p \o (q \o z)) = q \o e
    <3>. DEFINE y == q \o z
    <3>1. UndoesFirst(Bslash, y) BY <2>1, <2>2, UndoStep
    <3>2. undoFirst(Bslash, y) = <<>> BY <2>1, <2>2 DEF undoFirst
    <3>3. undoDollarEscape(p \o y) = <<>> \o undoDollarEscape(y) BY <3>1, <3>2 DEF UndoesFirst
    <3>4. undoDollarEscape(y) \in Seq(Nat) BY <2>2, UndoTyped
    <3>5. <<>> \o undoDollarEscape(y) = undoDollarEscape(y) BY <3>4, ConcatEmptySeq
    <3>. QED BY <2>5, <3>3, <3>5
  <2>. QED BY <2>3, <2>4, <2>6 DEF undo
<1>5. \A b \in Code : dollars(TRUE)[b] = IF b = Dollar THEN <<Bslash, Dollar>> ELSE <<b>>
  BY DEF dollars
<1>. QED BY <1>1, <1>3, <1>4, <1>5

(* Only a faulty tmux escapes.                                             *)
LEMMA NoFault == \A s \in Seq(Code) : Mapped(dollars(FALSE), s) = s
<1>1. \A b \in Code : dollars(FALSE)[b] = <<b>> BY DEF dollars
<1>2. dollars(FALSE) \in [Code -> Seq(Code)] BY DollarsTyped
<1>. QED BY <1>1, <1>2, MappedSelf

(* decodeStored undoes what the fault did to a value.                      *)
LEMMA FaultUndone ==
  ASSUME NEW f \in BOOLEAN, NEW v \in Seq(Code)
  PROVE  decodeStored(f, DollarFault(f, v)) = v
<1>1. CASE v = <<>>
  <2>1. DollarFault(f, v) = <<>> BY <1>1, FaultIs
  <2>2. undoDollarEscape(<<>>) = <<>>
    <3>1. undoDollarEscape(<<>>) = FlattenSeq(<<>>) BY DEF undoDollarEscape
    <3>. QED BY <3>1 DEF FlattenSeq
  <2>. QED BY <1>1, <2>1, <2>2 DEF decodeStored
<1>2. CASE v # <<>>
  <2>1. PICK s \in Seq(Code), x \in Code : v = Append(s, x) BY <1>2, HasLast
  <2>2. DollarFault(f, v) = Mapped(dollars(f), s) \o <<x>> BY <2>1, FaultIs DEF FaultOf
  <2>3. v = s \o <<x>> BY <2>1, AppendIsConcat
  <2>4. CASE ~f
    <3>1. f = FALSE BY <2>4
    <3>. QED BY <2>2, <2>3, <3>1, NoFault DEF decodeStored
  <2>5. CASE f
    <3>0. f = TRUE BY <2>5
    <3>. DEFINE h == dollars(TRUE)
                p == Mapped(h, s)
    <3>1. h \in [Code -> Seq(Nat)] /\ itself \in [Code -> Seq(Nat)]
      BY DollarsTyped, CodesAreNats, EncodersMap
    <3>2. \A b \in Code : Reads(undo, Undoable, h[b], itself[b]) BY UndoReads DEF itself
    <3>3. Mapped(itself, s) = s
      <4>1. itself \in [Code -> Seq(Code)] /\ \A b \in Code : itself[b] = <<b>>
        BY EncodersMap DEF itself
      <4>. QED BY <4>1, MappedSelf
    <3>. HIDE DEF h
    <3>4. Reads(undo, Undoable, p, s)
      <4>1. undo \in [Undoable -> Seq(Nat)] /\ Undoable \subseteq Seq(Nat) BY UndoReads
      <4>2. \A w \in Seq(Code) : Reads(undo, Undoable, Mapped(h, w), Mapped(itself, w))
        BY <3>1, <3>2, <4>1, ReadsMapped
      <4>. QED BY <3>3, <4>2
    <3>. HIDE DEF p
    <3>5. <<x>> \in Undoable /\ undo[<<x>>] = <<x>>
      <4>1. x \in Nat /\ <<>> \in Seq(Nat) /\ Len(<<>>) = 0 BY CodesAreNats
      <4>. DEFINE q == <<x>>
      <4>2. q \in Seq(Nat) /\ q # <<>> /\ Len(q) = 1 BY <4>1
      <4>3. q \in Undoable BY <4>2 DEF Undoable
      <4>4. UndoesFirst(x, <<>>) BY <4>1, UndoStep
      <4>5. undoFirst(x, <<>>) = q BY <4>1 DEF undoFirst
      <4>6. undoDollarEscape(<<>>) = <<>>
        <5>1. undoDollarEscape(<<>>) = FlattenSeq(<<>>) BY DEF undoDollarEscape
        <5>. QED BY <5>1 DEF FlattenSeq
      <4>7. q \o <<>> = q BY <4>2, ConcatEmptySeq
      <4>8. undoDollarEscape(q) = q BY <4>4, <4>5, <4>6, <4>7 DEF UndoesFirst
      <4>. QED BY <4>3, <4>8 DEF undo
    <3>6. p \o <<x>> \in Undoable /\ undo[p \o <<x>>] = s \o undo[<<x>>]
      BY <3>4, <3>5 DEF Reads
    <3>7. undoDollarEscape(p \o <<x>>) = s \o <<x>> BY <3>5, <3>6 DEF undo
    <3>. QED BY <2>2, <2>3, <3>0, <3>7 DEF decodeStored, p, h
  <2>. QED BY <2>4, <2>5
<1>. QED BY <1>1, <1>2

(* So is it of what is more than one byte long.                            *)
LEMMA FaultTyped ==
  ASSUME NEW f \in BOOLEAN, NEW v \in Seq(Code)
  PROVE  DollarFault(f, v) \in Seq(Code)
<1>1. CASE v = <<>> BY <1>1, FaultIs
<1>2. CASE v # <<>>
  <2>1. PICK s \in Seq(Code), x \in Code : v = Append(s, x) BY <1>2, HasLast
  <2>2. DollarFault(f, v) = Mapped(dollars(f), s) \o <<x>> BY <2>1, FaultIs DEF FaultOf
  <2>3. Mapped(dollars(f), s) \in Seq(Code) BY DollarsTyped, MappedAppend
  <2>4. <<x>> \in Seq(Code) OBVIOUS
  <2>. QED BY <2>2, <2>3, <2>4, ConcatProperties
<1>. QED BY <1>1, <1>2

(* What has no '$' is stored as it is.                                     *)
NoDollars == Seq(Code \ {Dollar})

(* Without a dollar the fault of 3.4 shows nowhere.                        *)
LEMMA NoDollarsStored ==
  ASSUME NEW f \in BOOLEAN, NEW r \in NoDollars
  PROVE  r \in Seq(Code) /\ Mapped(dollars(f), r) = r
<1>. DEFINE A == Code \ {Dollar}
            g == [b \in A |-> <<b>>]
            h == dollars(f)
<1>1. r \in Seq(A) /\ A \subseteq Code BY DEF NoDollars
<1>2. r \in Seq(Code)
  <2>1. r \in [1..Len(r) -> Code] /\ Len(r) \in Nat BY <1>1
  <2>. QED BY <2>1
<1>3. \A i \in 1..Len(r) : r[i] \in A BY <1>1
<1>4. \A b \in A : h[b] = <<b>> /\ g[b] = <<b>> BY DEF dollars
<1>5. [i \in 1..Len(r) |-> h[r[i]]] = [i \in 1..Len(r) |-> g[r[i]]] BY <1>3, <1>4
<1>6. Mapped(h, r) = Mapped(g, r) BY <1>5, Zenon DEF Mapped
<1>7. g \in [A -> Seq(A)] OBVIOUS
<1>8. Mapped(g, r) = r
  <2>. HIDE DEF A, g
  <2>. QED BY <1>1, <1>4, <1>7, MappedSelf
<1>. QED BY <1>2, <1>6, <1>8

(* A value that ends in bytes none of which but the last is a '$': those   *)
(* are stored as they are.                                                 *)
FaultEnds(f, s, e) == DollarFault(f, s \o e) = Mapped(dollars(f), s) \o e

(* They are.                                                               *)
LEMMA FaultAtEnd ==
  ASSUME NEW f \in BOOLEAN, NEW s \in Seq(Code), NEW r \in Seq(Code \ {Dollar}), NEW y \in Code
  PROVE  FaultEnds(f, s, Append(r, y))
<1>. DEFINE h == dollars(f)
            p == Mapped(h, s)
            q == <<y>>
<1>1. r \in Seq(Code) /\ q \in Seq(Code) BY NoDollarsStored DEF NoDollars
<1>2. h \in [Code -> Seq(Code)] BY DollarsTyped
<1>3. Mapped(h, r) = r BY NoDollarsStored DEF NoDollars
<1>. HIDE DEF h
<1>4. p \in Seq(Code) BY <1>2, MappedAppend
<1>5. Mapped(h, s \o r) = p \o r
  <2>1. JoinsImages(Code, h) BY <1>2, MappedConcat
  <2>. QED BY <1>1, <1>3, <2>1 DEF JoinsImages
<1>6. s \o r \in Seq(Code) BY <1>1, ConcatProperties
<1>7. DollarFault(f, Append(s \o r, y)) = Mapped(h, s \o r) \o q BY <1>6, FaultIs DEF FaultOf, h
<1>8. Append(s \o r, y) = (s \o r) \o q /\ Append(r, y) = r \o q
  <2>. DEFINE u == s \o r
  <2>1. u \in Seq(Code) BY <1>6
  <2>. HIDE DEF u
  <2>2. Append(u, y) = u \o q BY <2>1, AppendIsConcat
  <2>3. Append(r, y) = r \o q BY <1>1, AppendIsConcat
  <2>. QED BY <2>2, <2>3 DEF u
<1>. HIDE DEF p, q
<1>9. Regroups(s, r, q) /\ Regroups(p, r, q) BY <1>1, <1>4, Regrouped
<1>. QED BY <1>5, <1>7, <1>8, <1>9 DEF FaultEnds, Regroups, p, h

(* What is mapped byte by byte.                                            *)
MapsEach(A, B, h) ==
  /\ Mapped(h, <<>>) = <<>> /\ \A s \in Seq(A) : Mapped(h, s) \in Seq(B)
  /\ \A s \in Seq(A), x \in A : Mapped(h, Append(s, x)) = Mapped(h, s) \o h[x]

(* It is.                                                                  *)
LEMMA MappedEach ==
  ASSUME NEW A, NEW B, NEW h \in [A -> Seq(B)]
  PROVE  MapsEach(A, B, h)
BY MappedAppend DEF MapsEach

(* The image of one byte.                                                  *)
LEMMA MappedOne ==
  ASSUME NEW A, NEW B, NEW h \in [A -> Seq(B)], NEW x \in A
  PROVE  Mapped(h, <<x>>) = h[x]
<1>1. Mapped(h, <<>>) = <<>> /\ \A s \in Seq(A) : Mapped(h, Append(s, x)) = Mapped(h, s) \o h[x]
  BY MappedAppend
<1>2. <<>> \in Seq(A) /\ Append(<<>>, x) = <<x>> OBVIOUS
<1>3. <<>> \o h[x] = h[x] BY ConcatEmptySeq
<1>. QED BY <1>1, <1>2, <1>3

(* A piece after a piece.                                                  *)
LEMMA ReadsBoth ==
  ASSUME NEW B, NEW D, NEW Z, Z \subseteq Seq(B), NEW d \in [Z -> Seq(D)],
         NEW p \in Seq(B), NEW q \in Seq(B), NEW t \in Seq(D), NEW r \in Seq(D),
         Reads(d, Z, p, t), Reads(d, Z, q, r)
  PROVE  Reads(d, Z, p \o q, t \o r)
<1>1. ASSUME NEW z \in Z
      PROVE  (p \o q) \o z \in Z /\ d[(p \o q) \o z] = (t \o r) \o d[z]
  <2>1. q \o z \in Z /\ d[q \o z] = r \o d[z] BY DEF Reads
  <2>2. p \o (q \o z) \in Z /\ d[p \o (q \o z)] = t \o (r \o d[z]) BY <2>1 DEF Reads
  <2>3. z \in Seq(B) /\ d[z] \in Seq(D) OBVIOUS
  <2>4. Regroups(p, q, z) BY <2>3, Regrouped
  <2>. DEFINE e == d[z]
  <2>5. e \in Seq(D) BY <2>3
  <2>. HIDE DEF e
  <2>6. Regroups(t, r, e) BY <2>5, Regrouped
  <2>. QED BY <2>2, <2>4, <2>6 DEF e, Regroups
<1>. QED BY <1>1 DEF Reads

(* What ends in any byte and has no '$' before it.                         *)
EndsInAny(w) == \E r \in NoDollars, y \in Code : w = Append(r, y)

(* d reads what a faulty tmux makes of an encoded value as what it makes   *)
(* of the value itself.                                                    *)
ReadsFault(f, e, d) == \A v \in Seq(Code) : d[DollarFault(f, Mapped(e, v))] = DollarFault(f, v)

(* It does, if it reads what becomes of each byte so.                      *)
LEMMA ThroughFault ==
  ASSUME NEW f \in BOOLEAN, NEW e \in [Code -> Seq(Code)],
         NEW d \in [AnyBytes -> Seq(Nat)], d[<<>>] = <<>>,
         \A b \in Code : EndsInAny(e[b]) /\ Reads(d, AnyBytes, e[b], <<b>>),
         \A b \in Code : Reads(d, AnyBytes, Mapped(dollars(f), e[b]), dollars(f)[b])
  PROVE  ReadsFault(f, e, d)
<1>. SUFFICES ASSUME NEW v \in Seq(Code)
              PROVE  d[DollarFault(f, Mapped(e, v))] = DollarFault(f, v)
  BY DEF ReadsFault
<1>1. /\ Mapped(e, <<>>) = <<>> /\ \A s \in Seq(Code) : Mapped(e, s) \in Seq(Code)
      /\ \A s \in Seq(Code), x \in Code : Mapped(e, Append(s, x)) = Mapped(e, s) \o e[x]
  <2>1. MapsEach(Code, Code, e) BY MappedEach
  <2>. QED BY <2>1 DEF MapsEach
<1>2. CASE v = <<>> BY <1>1, <1>2, FaultIs
<1>3. CASE v # <<>>
  <2>1. PICK s \in Seq(Code), x \in Code : v = Append(s, x) BY <1>3, HasLast
  <2>. DEFINE h == dollars(f)
              g == [b \in Code |-> Mapped(h, e[b])]
              p == Mapped(g, s)
              t == Mapped(h, s)
              q == e[x]
  <2>2. h \in [Code -> Seq(Code)] BY DollarsTyped
  <2>3. \A w \in Seq(Code) : Mapped(h, w) \in Seq(Code)
    <3>. HIDE DEF h
    <3>. QED BY <2>2, MappedAppend
  <2>4. g \in [Code -> Seq(Code)]
    <3>. HIDE DEF h
    <3>. QED BY <2>3
  <2>5. DollarFault(f, Mapped(e, v)) = p \o q
    <3>1. PICK r \in NoDollars, y \in Code : q = Append(r, y) BY DEF EndsInAny
    <3>. DEFINE w == Mapped(e, s)
    <3>2. Mapped(e, v) = w \o q BY <1>1, <2>1
    <3>3. w \in Seq(Code) BY <1>1
    <3>4. Mapped(h, w) = p
      <4>1. \A b \in Code : g[b] = Mapped(h, e[b]) OBVIOUS
      <4>. HIDE DEF g, h
      <4>2. MapsTwice(Code, e, h, g) BY <2>2, <2>4, <4>1, MappedTwice
      <4>. QED BY <4>2 DEF MapsTwice
    <3>. HIDE DEF w, p, q, h
    <3>5. FaultEnds(f, w, Append(r, y)) BY <3>1, <3>3, FaultAtEnd DEF NoDollars
    <3>. QED BY <3>1, <3>2, <3>4, <3>5 DEF FaultEnds, h
  <2>6. Reads(d, AnyBytes, p, t)
    <3>1. \A b \in Code : Reads(d, AnyBytes, g[b], h[b]) OBVIOUS
    <3>2. g \in [Code -> Seq(Nat)] /\ h \in [Code -> Seq(Nat)] /\ AnyBytes \subseteq Seq(Nat)
      BY <2>2, <2>4, CodesAreNats DEF AnyBytes
    <3>. HIDE DEF g, h
    <3>. QED BY <3>1, <3>2, ReadsMapped
  <2>7. d[q] = <<x>>
    <3>1. Reads(d, AnyBytes, q, <<x>>) /\ q \in Seq(Code) OBVIOUS
    <3>2. <<>> \in AnyBytes BY DEF AnyBytes
    <3>. HIDE DEF q
    <3>3. d[q \o <<>>] = <<x>> \o <<>> BY <3>1, <3>2 DEF Reads
    <3>4. q \o <<>> = q /\ <<x>> \o <<>> = <<x>>
      <4>1. <<x>> \in Seq(Code) OBVIOUS
      <4>. QED BY <3>1, <4>1, ConcatEmptySeq
    <3>. QED BY <3>3, <3>4
  <2>8. d[p \o q] = t \o <<x>>
    <3>1. q \in AnyBytes BY CodesAreNats DEF AnyBytes
    <3>. HIDE DEF p, q, t
    <3>. QED BY <2>6, <2>7, <3>1 DEF Reads
  <2>9. DollarFault(f, v) = t \o <<x>> BY <2>1, FaultIs DEF FaultOf
  <2>. QED BY <2>5, <2>8, <2>9
<1>. QED BY <1>2, <1>3

-----------------------------------------------------------------------------
(* Names *)

(* The image of a byte in a format.                                        *)
hashes == [b \in Code |-> IF b = Hash THEN <<b, b>> ELSE <<b>>]

(* escapeFormat maps each byte to it.                                      *)
LEMMA HashesTyped ==
  /\ hashes \in [Code -> Seq(Code)]
  /\ \A s \in Seq(Code) : escapeFormat(s) = Mapped(hashes, s)
<1>1. hashes \in [Code -> Seq(Code)]
  <2>1. \A b \in Code : <<b>> \in Seq(Code) /\ <<b, b>> \in Seq(Code) OBVIOUS
  <2>. QED BY <2>1 DEF hashes
<1>2. ASSUME NEW s \in Seq(Code) PROVE escapeFormat(s) = Mapped(hashes, s)
  <2>1. \A i \in 1..Len(s) : s[i] \in Code OBVIOUS
  <2>2. [i \in 1..Len(s) |-> IF s[i] = Hash THEN <<s[i], s[i]>> ELSE <<s[i]>>]
          = [i \in 1..Len(s) |-> hashes[s[i]]]
    BY <2>1 DEF hashes
  <2>. QED BY <2>2, Zenon DEF escapeFormat, Map, Mapped
<1>. QED BY <1>1, <1>2

(* The last byte of an image is any, and there is no '$' before it.        *)
LEMMA EndsInOne ==
  ASSUME NEW x \in Code
  PROVE  /\ EndsInAny(<<x>>)
         /\ \A y \in Code : y # Dollar => EndsInAny(<<y, x>>)
<1>1. <<>> \in NoDollars /\ <<x>> = Append(<<>>, x) BY DEF NoDollars
<1>2. ASSUME NEW y \in Code, y # Dollar PROVE EndsInAny(<<y, x>>)
  <2>1. <<y>> \in NoDollars BY <1>2 DEF NoDollars
  <2>2. <<y, x>> = Append(<<y>>, x)
    <3>. DEFINE p == <<y>>
    <3>1. p \in Seq(Code) OBVIOUS
    <3>2. <<y, x>> = p \o <<x>> BY Pair
    <3>. HIDE DEF p
    <3>3. Append(p, x) = p \o <<x>> BY <3>1, AppendIsConcat
    <3>. QED BY <3>2, <3>3 DEF p
  <2>. QED BY <2>1, <2>2 DEF EndsInAny
<1>. QED BY <1>1, <1>2 DEF EndsInAny

(* A format's escapes are undone by its expansion, in a faulty tmux too.   *)
LEMMA FormatUndone ==
  ASSUME NEW f \in BOOLEAN, NEW v \in Seq(Code)
  PROVE  Expand(DollarFault(f, escapeFormat(v))) = DollarFault(f, v)
<1>1. ASSUME NEW b \in Code
      PROVE  EndsInAny(hashes[b]) /\ Reads(expand, AnyBytes, hashes[b], <<b>>)
  <2>1. b \in Nat BY CodesAreNats
  <2>2. CASE b = Hash
    <3>1. hashes[b] = <<b, b>> /\ b # Dollar BY <2>2 DEF hashes, Hash, Dollar
    <3>. QED BY <2>1, <2>2, <3>1, EndsInOne, ExpandPlain
  <2>3. CASE b # Hash
    <3>1. hashes[b] = <<b>> BY <2>3 DEF hashes
    <3>. QED BY <2>1, <2>3, <3>1, EndsInOne, ExpandPlain
  <2>. QED BY <2>2, <2>3
<1>2. ASSUME NEW b \in Code
      PROVE  Reads(expand, AnyBytes, Mapped(dollars(f), hashes[b]), dollars(f)[b])
  <2>. DEFINE h == dollars(f)
  <2>1. b \in Nat /\ h \in [Code -> Seq(Code)] BY CodesAreNats, DollarsTyped
  <2>2. CASE b = Dollar
    <3>1. hashes[b] = <<b>> BY <2>2 DEF hashes, Hash, Dollar
    <3>2. Mapped(h, <<b>>) = h[b]
      <4>. HIDE DEF h
      <4>. QED BY <2>1, MappedOne
    <3>3. Reads(expand, AnyBytes, h[b], h[b])
      <4>1. b # Hash /\ Bslash # Hash /\ Bslash \in Nat BY <2>2 DEF Hash, Dollar, Bslash
      <4>2. Reads(expand, AnyBytes, <<b>>, <<b>>) /\ Reads(expand, AnyBytes, <<Bslash>>, <<Bslash>>)
        BY <2>1, <4>1, ExpandPlain
      <4>3. Reads(expand, AnyBytes, <<Bslash, b>>, <<Bslash, b>>)
        <5>. DEFINE p == <<Bslash>>
                    q == <<b>>
        <5>1. p \in Seq(Nat) /\ q \in Seq(Nat) BY <2>1, <4>1
        <5>2. <<Bslash, b>> = p \o q BY <2>1, <4>1, Pair
        <5>3. expand \in [AnyBytes -> Seq(Nat)] /\ AnyBytes \subseteq Seq(Nat)
          BY ExpandReadsBytes DEF AnyBytes
        <5>4. Reads(expand, AnyBytes, p, p) /\ Reads(expand, AnyBytes, q, q) BY <4>2
        <5>. HIDE DEF p, q
        <5>5. Reads(expand, AnyBytes, p \o q, p \o q) BY <5>1, <5>3, <5>4, ReadsBoth
        <5>. QED BY <5>2, <5>5
      <4>4. h[b] = <<b>> \/ h[b] = <<Bslash, b>> BY DEF dollars
      <4>. QED BY <4>2, <4>3, <4>4
    <3>. QED BY <3>1, <3>2, <3>3
  <2>3. CASE b # Dollar
    <3>1. h[b] = <<b>> BY <2>3 DEF dollars
    <3>2. hashes[b] \in NoDollars
      <4>1. <<b>> \in NoDollars /\ <<b, b>> \in NoDollars BY <2>3 DEF NoDollars
      <4>. QED BY <4>1 DEF hashes
    <3>3. Mapped(h, hashes[b]) = hashes[b] BY <3>2, NoDollarsStored
    <3>. QED BY <1>1, <3>1, <3>3
  <2>. QED BY <2>2, <2>3
<1>3. ReadsFault(f, hashes, expand) BY <1>1, <1>2, ThroughFault, HashesTyped, ExpandReadsBytes
<1>4. expand[DollarFault(f, escapeFormat(v))] = DollarFault(f, v)
  BY <1>3, HashesTyped DEF ReadsFault
<1>5. DollarFault(f, escapeFormat(v)) \in Seq(Nat)
  <2>1. escapeFormat(v) \in Seq(Code)
    <3>1. MapsEach(Code, Code, hashes) BY HashesTyped, MappedEach
    <3>. QED BY <3>1, HashesTyped DEF MapsEach
  <2>. QED BY <2>1, FaultTyped, CodesAreNats
<1>. QED BY <1>4, <1>5 DEF expand

(* What a byte is encoded as ends in any byte, and has no '$' unless it is *)
(* one.                                                                    *)
LEMMA VisEnds ==
  ASSUME NEW b \in Code
  PROVE  EndsInAny(visEscape(b)) /\ (b # Dollar => visEscape(b) \in NoDollars)
<1>1. Bslash \in Code /\ Bslash # Dollar BY DEF Code, Bslash, Dollar
<1>2. CASE b \in {Bslash, Dollar}
  <2>1. visEscape(b) = <<Bslash, b>> BY <1>2 DEF visEscape
  <2>2. b # Dollar => <<Bslash, b>> \in NoDollars BY <1>1 DEF NoDollars
  <2>. QED BY <1>1, <2>1, <2>2, EndsInOne
<1>3. CASE b \notin {Bslash, Dollar} /\ HasLetter(b)
  <2>. DEFINE a == LetterFor(b)
  <2>1. visEscape(b) = <<Bslash, a>> BY <1>3 DEF visEscape
  <2>2. a \in Code /\ a # Dollar
    <3>1. \A x \in {97, 98, 102, 110, 114, 116, 118} : x \in Code /\ x # Dollar BY DEF Code, Dollar
    <3>2. a \in DOMAIN CStyle BY <1>3, LetterIs
    <3>. HIDE DEF a
    <3>. QED BY <3>1, <3>2, CStyleIs
  <2>. HIDE DEF a
  <2>3. <<Bslash, a>> \in NoDollars BY <1>1, <2>2 DEF NoDollars
  <2>. QED BY <1>1, <2>1, <2>2, <2>3, EndsInOne
<1>4. CASE b \notin {Bslash, Dollar} /\ ~HasLetter(b) /\ b >= Space /\ b # Del
  <2>1. visEscape(b) = <<b>> BY <1>4 DEF visEscape
  <2>2. <<b>> \in NoDollars BY <1>4 DEF NoDollars
  <2>. QED BY <2>1, <2>2, EndsInOne
<1>5. CASE b \notin {Bslash, Dollar} /\ ~HasLetter(b) /\ ~(b >= Space /\ b # Del)
  <2>. DEFINE o == OctalDigits(b)
  <2>1. visEscape(b) = <<Bslash>> \o o BY <1>5 DEF visEscape
  <2>2. o = <<o[1], o[2], o[3]>> BY OctalIs
  <2>3. o[1] \in 48..51 /\ o[2] \in 48..55 /\ o[3] \in 48..55 BY OctalIs DEF Zero
  <2>. HIDE DEF o
  <2>. DEFINE A == Code \ {Dollar}
              r == <<Bslash, o[1], o[2]>>
              y == o[3]
  <2>4. Bslash \in A /\ o[1] \in A /\ o[2] \in A /\ y \in A BY <1>1, <2>3 DEF Code, Dollar
  <2>5. <<Bslash>> \o o = <<Bslash, o[1], o[2], o[3]>>
    <3>. HIDE DEF A
    <3>. QED BY <2>2, <2>4, OneAndThree
  <2>6. <<Bslash, o[1], o[2], o[3]>> = Append(r, y) BY <2>4
  <2>7. r \in NoDollars /\ <<Bslash, o[1], o[2], o[3]>> \in NoDollars /\ y \in Code
    BY <2>4 DEF NoDollars
  <2>. QED BY <2>1, <2>5, <2>6, <2>7 DEF EndsInAny
<1>. QED BY <1>2, <1>3, <1>4, <1>5

(* visDecode undoes visEncode, in a faulty tmux too.                       *)
LEMMA VisFaultUndone ==
  ASSUME NEW f \in BOOLEAN, NEW v \in Seq(Code)
  PROVE  visDecode(DollarFault(f, visEncode(v))) = DollarFault(f, v)
<1>1. \A b \in Code : visImage[b] = visEscape(b) BY DEF visImage
<1>2. \A b \in Code : EndsInAny(visImage[b]) /\ Reads(vis, AnyBytes, visImage[b], <<b>>)
  BY <1>1, VisEnds, VisImage
<1>3. ASSUME NEW b \in Code
      PROVE  Reads(vis, AnyBytes, Mapped(dollars(f), visImage[b]), dollars(f)[b])
  <2>. DEFINE h == dollars(f)
  <2>1. b \in Nat /\ h \in [Code -> Seq(Code)] BY CodesAreNats, DollarsTyped
  <2>2. CASE b # Dollar
    <3>1. h[b] = <<b>> BY <2>2 DEF dollars
    <3>2. Mapped(h, visImage[b]) = visImage[b] BY <1>1, <2>2, VisEnds, NoDollarsStored
    <3>. QED BY <1>2, <3>1, <3>2
  <2>3. CASE b = Dollar
    <3>1. Bslash \in Code /\ Bslash # Dollar /\ Bslash \in Nat BY DEF Code, Bslash, Dollar
    <3>. DEFINE p == <<Bslash>>
                q == <<b>>
    <3>2. visImage[b] = p \o q
      <4>1. visImage[b] = <<Bslash, b>> BY <1>1, <2>3 DEF visEscape
      <4>. QED BY <2>1, <3>1, <4>1, Pair
    <3>3. h[Bslash] = p BY <3>1 DEF dollars
    <3>4. p \in Seq(Code) /\ q \in Seq(Code) BY <3>1
    <3>5. Mapped(h, p) = p /\ Mapped(h, q) = h[b]
      <4>. HIDE DEF h
      <4>1. Mapped(h, <<Bslash>>) = h[Bslash] /\ Mapped(h, <<b>>) = h[b]
        BY <2>1, <3>1, MappedOne
      <4>. QED BY <3>3, <4>1
    <3>6. Mapped(h, visImage[b]) = p \o h[b]
      <4>. HIDE DEF h, p, q
      <4>1. JoinsImages(Code, h) BY <2>1, MappedConcat
      <4>. QED BY <3>2, <3>4, <3>5, <4>1 DEF JoinsImages
    <3>7. CASE ~f
      <4>1. h[b] = q BY <3>7 DEF dollars
      <4>. QED BY <1>2, <3>2, <3>6, <4>1
    <3>8. CASE f
      <4>1. h[b] = <<Bslash, b>> BY <2>3, <3>8 DEF dollars
      <4>2. <<Bslash, b>> = p \o q BY <2>1, <3>1, Pair
      <4>. DEFINE x == <<Bslash, Bslash>>
      <4>3. p \o (p \o q) = x \o q
        <5>1. x = p \o p BY <3>1, Pair
        <5>. HIDE DEF p, q, x
        <5>2. Regroups(p, p, q) BY <3>4, Regrouped
        <5>. QED BY <5>1, <5>2 DEF Regroups
      <4>4. Reads(vis, AnyBytes, x, p) BY <3>1, VisTwo
      <4>5. Reads(vis, AnyBytes, q, q)
        <5>1. b # Bslash BY <2>3, <3>1
        <5>. QED BY <2>1, <5>1, VisPlain
      <4>6. Reads(vis, AnyBytes, x \o q, p \o q)
        <5>1. x \in Seq(Nat) /\ p \in Seq(Nat) /\ q \in Seq(Nat) BY <2>1, <3>1
        <5>2. vis \in [AnyBytes -> Seq(Nat)] /\ AnyBytes \subseteq Seq(Nat) BY VisIs DEF AnyBytes
        <5>. HIDE DEF x, p, q
        <5>. QED BY <4>4, <4>5, <5>1, <5>2, ReadsBoth
      <4>. QED BY <3>6, <4>1, <4>2, <4>3, <4>6
    <3>. QED BY <3>7, <3>8
  <2>. QED BY <2>2, <2>3
<1>4. ReadsFault(f, visImage, vis) BY <1>2, <1>3, ThroughFault, EncodersMap, VisIs
<1>5. vis[DollarFault(f, visEncode(v))] = DollarFault(f, v)
  BY <1>4, EncodersMap DEF ReadsFault
<1>6. DollarFault(f, visEncode(v)) \in Seq(Nat)
  <2>1. visEncode(v) \in Seq(Code)
    <3>1. MapsEach(Code, Code, visImage) BY EncodersMap, MappedEach
    <3>. QED BY <3>1, EncodersMap DEF MapsEach
  <2>. QED BY <2>1, FaultTyped, CodesAreNats
<1>. QED BY <1>5, <1>6 DEF vis

(* The byte that a session's name is stored with.                          *)
underscore == [b \in Code |-> IF b \in targetSeparators THEN 95 ELSE b]
underscored == [b \in Code |-> <<underscore[b]>>]

(* sessionNameAsStored maps each byte to it.                               *)
LEMMA UnderscoredTyped ==
  /\ underscored \in [Code -> Seq(Code)]
  /\ \A b \in Code : underscore[b] \in Code
  /\ \A s \in Seq(Code) : sessionNameAsStored(s) = Mapped(underscored, s)
<1>1. \A b \in Code : underscore[b] \in Code BY DEF underscore, Code
<1>2. underscored \in [Code -> Seq(Code)] BY <1>1 DEF underscored
<1>. DEFINE Z == {s \in Seq(Code) : sessionNameAsStored(s) = Mapped(underscored, s)}
<1>3. \A s \in Seq(Code) : sessionNameAsStored(s) = [i \in 1..Len(s) |-> underscore[s[i]]]
  <2>. SUFFICES ASSUME NEW s \in Seq(Code)
                PROVE  sessionNameAsStored(s) = [i \in 1..Len(s) |-> underscore[s[i]]]
    OBVIOUS
  <2>1. \A i \in 1..Len(s) : s[i] \in Code OBVIOUS
  <2>. QED BY <2>1 DEF sessionNameAsStored, underscore
<1>4. MapsEach(Code, Code, underscored) BY <1>2, MappedEach
<1>5. <<>> \in Z
  <2>1. <<>> \in Seq(Code) /\ sessionNameAsStored(<<>>) = <<>> BY DEF sessionNameAsStored
  <2>. QED BY <1>4, <2>1 DEF MapsEach
<1>6. ASSUME NEW s \in Seq(Code), NEW x \in Code, s \in Z PROVE Append(s, x) \in Z
  <2>. DEFINE v == Append(s, x)
              L == Len(s)
              g == sessionNameAsStored(s)
              y == underscore[x]
  <2>1. /\ v \in Seq(Code) /\ L \in Nat /\ Len(v) = L + 1 /\ v[L + 1] = x
        /\ \A i \in 1..L : v[i] = s[i] /\ s[i] \in Code
    BY AppendProperties
  <2>2. /\ sessionNameAsStored(v) = [i \in 1..(L + 1) |-> underscore[v[i]]]
        /\ g = [i \in 1..L |-> underscore[s[i]]]
    BY <1>3, <2>1
  <2>3. y \in Code BY <1>1
  <2>. HIDE DEF v, L, g, y
  <2>4. SeqWith(Code, L, g)
    <3>1. g = [i \in 1..L |-> g[i]] /\ \A i \in 1..L : g[i] \in Code BY <1>1, <2>1, <2>2
    <3>. QED BY <2>1, <3>1, MadeSeq
  <2>5. SeqWith(Code, L + 1, sessionNameAsStored(v))
    <3>. DEFINE u == sessionNameAsStored(v)
                M == L + 1
    <3>1. M \in Nat /\ u = [i \in 1..M |-> u[i]] /\ \A i \in 1..M : u[i] \in Code
      <4>1. \A i \in 1..(L + 1) : v[i] \in Code
        <5>1. \A i \in 1..(L + 1) : i \in 1..L \/ i = L + 1 BY <2>1
        <5>. QED BY <2>1, <5>1
      <4>. QED BY <1>1, <2>1, <2>2, <4>1
    <3>. HIDE DEF u, M
    <3>2. SeqWith(Code, M, u) BY <3>1, MadeSeq
    <3>. QED BY <3>2 DEF u, M
  <2>6. sessionNameAsStored(v) = Append(g, y)
    <3>. DEFINE u == sessionNameAsStored(v)
                w == Append(g, y)
    <3>1. u \in Seq(Code) /\ Len(u) = L + 1 /\ g \in Seq(Code) /\ Len(g) = L
      BY <2>4, <2>5 DEF SeqWith
    <3>2. /\ w \in Seq(Code) /\ Len(w) = L + 1 /\ w[L + 1] = y
          /\ \A i \in 1..L : w[i] = g[i]
      BY <2>3, <3>1, AppendProperties
    <3>3. \A i \in 1..(L + 1) : u[i] = w[i]
      <4>. SUFFICES ASSUME NEW i \in 1..(L + 1) PROVE u[i] = w[i] OBVIOUS
      <4>1. u[i] = underscore[v[i]] BY <2>2
      <4>2. CASE i \in 1..L
        <5>1. w[i] = underscore[s[i]] BY <2>2, <3>2, <4>2
        <5>2. v[i] = s[i] BY <2>1, <4>2
        <5>. HIDE DEF u, w
        <5>. QED BY <4>1, <5>1, <5>2
      <4>3. CASE i = L + 1
        <5>1. v[i] = x BY <2>1, <4>3
        <5>2. w[i] = y BY <3>2, <4>3
        <5>. HIDE DEF u, w
        <5>. QED BY <4>1, <5>1, <5>2 DEF y
      <4>4. i \in 1..L \/ i = L + 1 BY <2>1
      <4>. QED BY <4>2, <4>3, <4>4
    <3>. HIDE DEF u, w
    <3>4. u = w BY <3>1, <3>2, <3>3, SeqEqual
    <3>. QED BY <3>4 DEF u, w
  <2>7. Append(g, y) = g \o <<y>>
    <3>1. g \in Seq(Code) BY <2>4 DEF SeqWith
    <3>. QED BY <2>3, <3>1, AppendIsConcat
  <2>8. g = Mapped(underscored, s) BY <1>6 DEF g
  <2>9. Mapped(underscored, v) = Mapped(underscored, s) \o underscored[x] BY <1>4 DEF MapsEach, v
  <2>10. underscored[x] = <<y>> BY DEF underscored, y
  <2>11. v \in Z BY <2>1, <2>6, <2>7, <2>8, <2>9, <2>10
  <2>. QED BY <2>11 DEF v
<1>7. \A s \in Seq(Code) : s \in Z
  <2>. HIDE DEF Z
  <2>. QED BY <1>5, <1>6, ByAppend
<1>. QED BY <1>1, <1>2, <1>7

(* What becomes of a session's name can be done before tmux or by it.      *)
LEMMA SessionFault ==
  ASSUME NEW f \in BOOLEAN, NEW v \in Seq(Code)
  PROVE  /\ sessionNameAsStored(v) \in Seq(Code)
         /\ sessionNameAsStored(DollarFault(f, v)) = DollarFault(f, sessionNameAsStored(v))
<1>. DEFINE h == dollars(f)
            u == underscored
<1>1. h \in [Code -> Seq(Code)] /\ u \in [Code -> Seq(Code)] BY DollarsTyped, UnderscoredTyped
<1>2. MapsEach(Code, Code, h) /\ MapsEach(Code, Code, u) BY <1>1, MappedEach
<1>3. \A s \in Seq(Code) : sessionNameAsStored(s) = Mapped(u, s) /\ Mapped(u, s) \in Seq(Code)
  BY <1>2, UnderscoredTyped DEF MapsEach
<1>4. CASE v = <<>>
  <2>1. sessionNameAsStored(<<>>) = <<>>
    <3>1. <<>> \in Seq(Code) OBVIOUS
    <3>. QED BY <1>2, <1>3, <3>1 DEF MapsEach
  <2>. QED BY <1>3, <1>4, <2>1, FaultIs
<1>5. CASE v # <<>>
  <2>1. PICK s \in Seq(Code), x \in Code : v = Append(s, x) BY <1>5, HasLast
  <2>. DEFINE g == [b \in Code |-> Mapped(u, h[b])]
              y == underscore[x]
              w == Mapped(u, s)
  <2>2. g \in [Code -> Seq(Code)] /\ \A b \in Code : g[b] = Mapped(u, h[b])
    <3>. HIDE DEF h, u
    <3>. QED BY <1>1, <1>2 DEF MapsEach
  <2>3. \A b \in Code : g[b] = Mapped(h, u[b])
    <3>. SUFFICES ASSUME NEW b \in Code PROVE Mapped(u, h[b]) = Mapped(h, u[b]) OBVIOUS
    <3>. DEFINE c == underscore[b]
    <3>1. c \in Code /\ u[b] = <<c>> BY UnderscoredTyped DEF underscored
    <3>2. Mapped(h, <<c>>) = h[c] /\ Mapped(u, <<b>>) = u[b]
      <4>. HIDE DEF h, u, c
      <4>. QED BY <1>1, <3>1, MappedOne
    <3>3. CASE f /\ b = Dollar
      <4>1. c = b BY <3>3 DEF underscore, targetSeparators, Dollar
      <4>2. h[b] = <<Bslash, b>> /\ h[c] = <<Bslash, b>> BY <3>3, <4>1 DEF dollars
      <4>3. Bslash \in Code BY DEF Code, Bslash
      <4>4. u[Bslash] = <<Bslash>> BY <4>3 DEF underscored, underscore, targetSeparators, Bslash
      <4>. DEFINE p == <<Bslash>>
                  q == <<b>>
      <4>5. p \in Seq(Code) /\ q \in Seq(Code) /\ <<Bslash, b>> = p \o q BY <4>3, Pair
      <4>6. Mapped(u, p) = p /\ Mapped(u, q) = q
        <5>1. Mapped(u, <<Bslash>>) = u[Bslash]
          <6>. HIDE DEF u
          <6>. QED BY <1>1, <4>3, MappedOne
        <5>. QED BY <3>1, <3>2, <4>1, <4>4, <5>1
      <4>7. Mapped(u, p \o q) = p \o q
        <5>. HIDE DEF u, p, q
        <5>1. JoinsImages(Code, u) BY <1>1, MappedConcat
        <5>. QED BY <4>5, <4>6, <5>1 DEF JoinsImages
      <4>. QED BY <3>1, <3>2, <4>2, <4>5, <4>7
    <3>4. CASE ~(f /\ b = Dollar)
      <4>1. h[b] = <<b>> BY <3>4 DEF dollars
      <4>2. ~(f /\ c = Dollar) BY <3>4 DEF underscore, Dollar
      <4>3. h[c] = <<c>> BY <3>1, <4>2 DEF dollars
      <4>. QED BY <3>1, <3>2, <4>1, <4>3
    <3>. QED BY <3>3, <3>4
  <2>4. MapsTwice(Code, h, u, g) /\ MapsTwice(Code, u, h, g)
    <3>. HIDE DEF g, h, u
    <3>1. MapsTwice(Code, h, u, g) BY <1>1, <2>2, MappedTwice
    <3>2. MapsTwice(Code, u, h, g) BY <1>1, <2>2, <2>3, MappedTwice
    <3>. QED BY <3>1, <3>2
  <2>5. sessionNameAsStored(DollarFault(f, v)) = Mapped(g, s) \o <<y>>
    <3>. DEFINE p == Mapped(h, s)
                q == <<x>>
    <3>1. DollarFault(f, v) = p \o q BY <2>1, FaultIs DEF FaultOf
    <3>2. p \in Seq(Code) /\ q \in Seq(Code) BY <1>2 DEF MapsEach
    <3>3. Mapped(u, q) = <<y>>
      <4>1. Mapped(u, <<x>>) = u[x]
        <5>. HIDE DEF u
        <5>. QED BY <1>1, MappedOne
      <4>. QED BY <4>1 DEF underscored
    <3>4. Mapped(u, p \o q) = Mapped(u, p) \o Mapped(u, q)
      <4>. HIDE DEF u, p, q
      <4>1. JoinsImages(Code, u) BY <1>1, MappedConcat
      <4>. QED BY <3>2, <4>1 DEF JoinsImages
    <3>5. p \o q \in Seq(Code)
      <4>. HIDE DEF p, q
      <4>. QED BY <3>2, ConcatProperties
    <3>. QED BY <1>3, <2>4, <3>1, <3>3, <3>4, <3>5 DEF MapsTwice
  <2>6. DollarFault(f, sessionNameAsStored(v)) = Mapped(g, s) \o <<y>>
    <3>1. y \in Code /\ u[x] = <<y>> BY UnderscoredTyped DEF underscored
    <3>2. w \in Seq(Code) BY <1>2 DEF MapsEach
    <3>3. sessionNameAsStored(v) = Append(w, y)
      <4>1. sessionNameAsStored(v) = w \o <<y>>
        <5>1. sessionNameAsStored(v) = Mapped(u, v) BY <1>3
        <5>2. Mapped(u, Append(s, x)) = Mapped(u, s) \o u[x]
          <6>. HIDE DEF u, w, y
          <6>. QED BY <1>2, Zenon DEF MapsEach
        <5>. HIDE DEF u, y
        <5>. QED BY <2>1, <3>1, <5>1, <5>2, Zenon
      <4>. HIDE DEF w, y
      <4>2. Append(w, y) = w \o <<y>> BY <3>1, <3>2, AppendIsConcat
      <4>. QED BY <4>1, <4>2
    <3>. HIDE DEF y
    <3>4. FaultOf(f, w, y) BY <3>1, <3>2, FaultIs
    <3>. QED BY <2>4, <3>3, <3>4 DEF FaultOf, MapsTwice
  <2>. QED BY <1>3, <2>5, <2>6
<1>. QED BY <1>4, <1>5

(* A value is bytes, and tmux is faulty or not.                            *)
ValueTyped == value \in Seq(Code) /\ faulty \in BOOLEAN

(* It always is.                                                           *)
LEMMA ValueIsBytes == Spec => []ValueTyped
<1>1. Init => ValueTyped
  <2>1. <<>> \in Seq(Code) OBVIOUS
  <2>. QED BY <2>1 DEF Init, NoValue, ValueTyped
<1>2. ValueTyped /\ [Next]_<<args, value, faulty, input>> => ValueTyped'
  <2>. SUFFICES ASSUME ValueTyped, [Next]_<<args, value, faulty, input>> PROVE ValueTyped' OBVIOUS
  <2>1. CASE AddByte
    <3>1. PICK b \in Bytes : value' = Append(value, b) /\ faulty' = faulty BY <2>1 DEF AddByte
    <3>2. b \in Code BY ValuesAssumption DEF Code
    <3>. QED BY <3>1, <3>2 DEF ValueTyped
  <2>2. CASE UNCHANGED <<value, faulty>> BY <2>2 DEF ValueTyped
  <2>. QED BY <2>1, <2>2
       DEF Next, TypeByte, NextArg, Grows, AddCall, AddRow, AddRelease, AddNotice, AddNoise,
           AddSubscription, AddPause, AddOption
<1>. QED BY <1>1, <1>2, PTL DEF Spec

(* A session is stored under the name it was given if and only if that was *)
(* not to be refused.                                                      *)
LEMMA StoredAsChecked ==
  ASSUME NEW v \in Seq(Code)
  PROVE  checkSessionName(v) <=> sessionNameAsStored(v) = v
<1>1. CASE checkSessionName(v)
  <2>1. \A i \in 1..Len(v) : v[i] \notin targetSeparators BY <1>1 DEF checkSessionName
  <2>2. sessionNameAsStored(v) = [i \in 1..Len(v) |-> v[i]] BY <2>1 DEF sessionNameAsStored
  <2>. QED BY <1>1, <2>2
<1>2. CASE ~checkSessionName(v)
  <2>1. PICK i \in 1..Len(v) : v[i] \in targetSeparators BY <1>2 DEF checkSessionName
  <2>2. sessionNameAsStored(v)[i] = 95 BY <2>1 DEF sessionNameAsStored
  <2>3. v[i] # 95 BY <2>1 DEF targetSeparators
  <2>. QED BY <1>2, <2>2, <2>3
<1>. QED BY <1>1, <1>2

(* The calls that name windows and sessions: any name of any bytes reads   *)
(* back as it was given, whichever call set it and with the fault of 3.4   *)
(* or without, and a session's is refused only if it would not.            *)
THEOREM NamesCorrect == Spec => []NameReadsBack
<1>1. ValueTyped => NameReadsBack
  <2>. SUFFICES ASSUME ValueTyped PROVE NameReadsBack OBVIOUS
  <2>. DEFINE D == DollarFault(faulty, value)
              stored == sessionNameAsStored(value)
  <2>1. value \in Seq(Code) /\ faulty \in BOOLEAN BY DEF ValueTyped
  <2>2. D \in Seq(Code) BY <2>1, FaultTyped
  <2>3. decodeStored(faulty, D) = value BY <2>1, FaultUndone
  <2>4. Expand(DollarFault(faulty, escapeFormat(value))) = D BY <2>1, FormatUndone
  <2>5. ListedName(faulty, StoredName(faulty, escapeFormat(value))) = value
    <3>1. visDecode(TmuxVis(D)) = D BY <2>2, VisUndone
    <3>. QED BY <2>3, <2>4, <3>1 DEF ListedName, StoredName
  <2>6. ListedName(faulty, StoredRaw(faulty, escapeFormat(visEncode(value)))) = value
    <3>1. visEncode(value) \in Seq(Code)
      <4>1. MapsEach(Code, Code, visImage) BY EncodersMap, MappedEach
      <4>. QED BY <2>1, <4>1, EncodersMap DEF MapsEach
    <3>2. Expand(DollarFault(faulty, escapeFormat(visEncode(value))))
            = DollarFault(faulty, visEncode(value))
      BY <2>1, <3>1, FormatUndone
    <3>3. visDecode(DollarFault(faulty, visEncode(value))) = D BY <2>1, VisFaultUndone
    <3>. QED BY <2>3, <3>2, <3>3 DEF ListedName, StoredRaw
  <2>7. ListedName(faulty, StoredSession(faulty, escapeFormat(value))) = stored
    <3>1. stored \in Seq(Code) /\ sessionNameAsStored(D) = DollarFault(faulty, stored)
      BY <2>1, SessionFault
    <3>. HIDE DEF stored, D
    <3>2. DollarFault(faulty, stored) \in Seq(Code) /\ decodeStored(faulty, DollarFault(faulty, stored)) = stored
      BY <2>1, <3>1, FaultTyped, FaultUndone
    <3>3. visDecode(TmuxVis(DollarFault(faulty, stored))) = DollarFault(faulty, stored)
      BY <3>2, VisUndone
    <3>. QED BY <2>4, <3>1, <3>2, <3>3 DEF ListedName, StoredSession
  <2>8. checkSessionName(value) <=> stored = value BY <2>1, StoredAsChecked
  <2>. QED BY <2>5, <2>6, <2>7, <2>8 DEF NameReadsBack
<1>. QED BY <1>1, ValueIsBytes, PTL

-----------------------------------------------------------------------------
(* Pane output *)

(* What unescape reads at the i-th byte, and how many bytes of it.         *)
outputOut(v, i) ==
  IF v[i] = Bslash /\ IsOctal(v, i + 1) THEN <<octalByte(v, i + 1)>> ELSE <<v[i]>>
outputSkip(v, i) == IF v[i] = Bslash /\ IsOctal(v, i + 1) THEN 4 ELSE 1

OutputOuts(v) == [i \in 1..Len(v) |-> outputOut(v, i)]
OutputSkips(v) == [i \in 1..Len(v) |-> outputSkip(v, i)]
OutputFrom(v, c) == ReadFrom(Len(v), 4, OutputOuts(v), OutputSkips(v), c)

(* They are bytes, and some are read.                                      *)
LEMMA OutputTyped ==
  ASSUME NEW v \in Seq(Nat)
  PROVE  OutputOuts(v) \in [1..Len(v) -> Seq(Nat)] /\ OutputSkips(v) \in [1..Len(v) -> 1..4]
<1>1. ASSUME NEW i \in 1..Len(v) PROVE outputOut(v, i) \in Seq(Nat)
  <2>1. v[i] \in Nat OBVIOUS
  <2>2. CASE v[i] = Bslash /\ IsOctal(v, i + 1)
    <3>1. octalByte(v, i + 1) \in Nat BY <2>2, OctalTyped
    <3>2. <<octalByte(v, i + 1)>> \in Seq(Nat) BY <3>1
    <3>. QED BY <2>2, <3>2 DEF outputOut
  <2>3. CASE ~(v[i] = Bslash /\ IsOctal(v, i + 1))
    <3>1. <<v[i]>> \in Seq(Nat) BY <2>1
    <3>. QED BY <2>3, <3>1 DEF outputOut
  <2>. QED BY <2>2, <2>3
<1>2. \A i \in 1..Len(v) : outputSkip(v, i) \in 1..4 BY DEF outputSkip
<1>. QED BY <1>1, <1>2 DEF OutputOuts, OutputSkips

(* unescape reads from the first byte.                                     *)
LEMMA OutputIs ==
  ASSUME NEW v \in Seq(Nat)
  PROVE  \E c : OutputFrom(v, c) /\ unescape(v) = c[1]
<1>. DEFINE Place(c, i) ==
              IF i > Len(v) THEN <<>>
              ELSE IF v[i] = Bslash /\ IsOctal(v, i + 1)
                   THEN <<octalByte(v, i + 1)>> \o c[i + 4]
              ELSE <<v[i]>> \o c[i + 1]
            from == CHOOSE c : c = [i \in 1..(Len(v) + 4) |-> Place(c, i)]
            out == OutputOuts(v)
            skip == OutputSkips(v)
            L == Len(v)
<1>1. unescape(v) = from[1] BY DEF unescape
<1>2. out \in [1..L -> Seq(Nat)] /\ skip \in [1..L -> 1..4] /\ L \in Nat /\ 4 \in Nat
  BY OutputTyped
<1>3. \A c : OutputFrom(v, c) <=> ReadFrom(L, 4, out, skip, c) BY DEF OutputFrom
<1>4. PICK c : ReadFrom(L, 4, out, skip, c)
  <2>. HIDE DEF L, out, skip
  <2>. QED BY <1>2, ReadFromExists
<1>5. ASSUME NEW e, NEW i \in 1..(L + 4)
      PROVE  Place(e, i) = IF i > L THEN <<>> ELSE out[i] \o e[i + skip[i]]
  <2>1. CASE i > L BY <2>1
  <2>2. CASE ~(i > L)
    <3>1. i \in 1..L BY <2>2
    <3>2. out[i] = outputOut(v, i) /\ skip[i] = outputSkip(v, i) BY <3>1 DEF OutputOuts, OutputSkips
    <3>3. CASE v[i] = Bslash /\ IsOctal(v, i + 1)
      <4>1. out[i] = <<octalByte(v, i + 1)>> /\ skip[i] = 4 BY <3>2, <3>3 DEF outputOut, outputSkip
      <4>2. Place(e, i) = <<octalByte(v, i + 1)>> \o e[i + 4] BY <2>2, <3>3
      <4>. QED BY <2>2, <4>1, <4>2
    <3>4. CASE ~(v[i] = Bslash /\ IsOctal(v, i + 1))
      <4>1. out[i] = <<v[i]>> /\ skip[i] = 1 BY <3>2, <3>4 DEF outputOut, outputSkip
      <4>2. Place(e, i) = <<v[i]>> \o e[i + 1] BY <2>2, <3>4
      <4>. QED BY <2>2, <4>1, <4>2
    <3>. QED BY <3>3, <3>4
  <2>. QED BY <2>1, <2>2
<1>. HIDE DEF Place, L, out, skip
<1>6. \A i \in 1..(L + 4) : Place(c, i) = IF i > L THEN <<>> ELSE out[i] \o c[i + skip[i]]
  BY <1>5
<1>7. c = [i \in 1..(L + 4) |-> Place(c, i)] BY <1>4, <1>6, Zenon DEF ReadFrom
<1>8. from = [i \in 1..(L + 4) |-> Place(from, i)]
  <2>1. \E e : e = [i \in 1..(Len(v) + 4) |-> Place(e, i)] BY <1>7 DEF L
  <2>. QED BY <2>1, Zenon DEF L
<1>9. \A i \in 1..(L + 4) : Place(from, i) = IF i > L THEN <<>> ELSE out[i] \o from[i + skip[i]]
  <2>. HIDE DEF from
  <2>. QED BY <1>5
<1>. HIDE DEF from
<1>10. ReadFrom(L, 4, out, skip, from) BY <1>8, <1>9, Zenon DEF ReadFrom
<1>. QED BY <1>1, <1>3, <1>10

(* What unescape reads, byte by byte.                                      *)
output == [w \in Seq(Nat) |-> unescape(w)]

(* It is bytes.                                                            *)
LEMMA OutputReadsBytes == output \in [AnyBytes -> Seq(Nat)] /\ output[<<>>] = <<>>
<1>1. ASSUME NEW w \in Seq(Nat) PROVE unescape(w) \in Seq(Nat)
  <2>. DEFINE o == OutputOuts(w)
              k == OutputSkips(w)
              L == Len(w)
  <2>1. PICK c : OutputFrom(w, c) /\ unescape(w) = c[1] BY OutputIs
  <2>2. ReadFrom(L, 4, o, k, c) /\ o \in [1..L -> Seq(Nat)] /\ k \in [1..L -> 1..4]
    BY <2>1, OutputTyped DEF OutputFrom
  <2>3. L \in Nat /\ 4 \in Nat OBVIOUS
  <2>. HIDE DEF o, k, L
  <2>4. \A i \in 1..(L + 4) : c[i] \in Seq(Nat) BY <2>2, <2>3, ReadFromTyped
  <2>5. 1 \in 1..(L + 4) BY <2>3
  <2>. QED BY <2>1, <2>4, <2>5
<1>2. unescape(<<>>) = <<>>
  <2>1. <<>> \in Seq(Nat) /\ Len(<<>>) = 0 OBVIOUS
  <2>2. PICK c : OutputFrom(<<>>, c) /\ unescape(<<>>) = c[1] BY <2>1, OutputIs
  <2>3. c[1] = <<>>
    <3>1. 1 \in 1..(0 + 4) /\ 1 > 0 OBVIOUS
    <3>. QED BY <2>1, <2>2, <3>1 DEF OutputFrom, ReadFrom
  <2>. QED BY <2>2, <2>3
<1>. QED BY <1>1, <1>2 DEF output, AnyBytes

(* What unescape reads of a text does not depend on what is before it.     *)
LEMMA OutputFollows ==
  ASSUME NEW p \in Seq(Nat), NEW z \in Seq(Nat), NEW i \in 1..Len(z)
  PROVE  /\ outputOut(p \o z, Len(p) + i) = outputOut(z, i)
         /\ outputSkip(p \o z, Len(p) + i) = outputSkip(z, i)
<1>. DEFINE v == p \o z
            S == Len(p)
<1>1. v[S + i] = z[i] BY Follow
<1>2. i + 1 \in Nat \ {0} /\ S + (i + 1) = (S + i) + 1 OBVIOUS
<1>3. /\ IsOctal(v, (S + i) + 1) <=> IsOctal(z, i + 1)
      /\ IsOctal(z, i + 1) => octalByte(v, (S + i) + 1) = octalByte(z, i + 1)
  BY <1>2, OctalFollows
<1>. HIDE DEF v, S
<1>4. outputOut(v, S + i) = outputOut(z, i) BY <1>1, <1>3 DEF outputOut
<1>5. outputSkip(v, S + i) = outputSkip(z, i) BY <1>1, <1>3 DEF outputSkip
<1>. QED BY <1>4, <1>5 DEF v, S

(* A piece that unescape takes at once is read as what it stands for.      *)
LEMMA OutputReads ==
  ASSUME NEW p \in Seq(Nat), p # <<>>, NEW t,
         \A z \in Seq(Nat) : outputSkip(p \o z, 1) = Len(p) /\ outputOut(p \o z, 1) = t
  PROVE  Reads(output, AnyBytes, p, t)
<1>1. ASSUME NEW z \in Seq(Nat)
      PROVE  p \o z \in Seq(Nat) /\ unescape(p \o z) = t \o unescape(z)
  <2>. DEFINE v == p \o z
              S == Len(p)
              L == Len(z)
              M == Len(v)
              out == OutputOuts(z)
              skip == OutputSkips(z)
              out2 == OutputOuts(v)
              skip2 == OutputSkips(v)
  <2>1. S \in Nat \ {0} /\ L \in Nat /\ M = S + L /\ v \in Seq(Nat) /\ 4 \in Nat BY Follow
  <2>2. PICK c : OutputFrom(v, c) /\ unescape(v) = c[1] BY <2>1, OutputIs
  <2>3. PICK e : OutputFrom(z, e) /\ unescape(z) = e[1] BY OutputIs
  <2>4. Reader(M, 4, out2, skip2, c) /\ Reader(L, 4, out, skip, e)
    BY <2>1, <2>2, <2>3, OutputTyped DEF OutputFrom, Reader
  <2>5. IsEndOf(L, S, out, skip, out2, skip2)
    <3>1. ASSUME NEW i \in 1..L PROVE out2[S + i] = out[i] /\ skip2[S + i] = skip[i]
      <4>1. S + i \in 1..Len(v) BY <2>1
      <4>. QED BY <4>1, OutputFollows DEF OutputOuts, OutputSkips
    <3>. QED BY <3>1 DEF IsEndOf
  <2>6. out2[1] = t /\ skip2[1] = S
    <3>1. 1 \in 1..Len(v) BY <2>1
    <3>. QED BY <3>1 DEF OutputOuts, OutputSkips
  <2>7. c[1] = out2[1] \o e[1]
    <3>1. TakesFirst(S, L, M, 4, out, skip, e, out2, skip2, c)
      BY <2>1, <2>4, <2>5, <2>6 DEF TakesFirst
    <3>. HIDE DEF v, S, L, M, out, skip, out2, skip2
    <3>2. ReadsOn(out2, e, c) BY <3>1, FirstThenRest
    <3>. QED BY <3>2 DEF ReadsOn
  <2>. QED BY <2>1, <2>2, <2>3, <2>6, <2>7
<1>. QED BY <1>1 DEF Reads, AnyBytes, output

(* What tmux writes of a byte.                                             *)
outputImage ==
  [b \in Code |-> IF b < Space \/ b = Bslash THEN <<Bslash>> \o OctalDigits(b) ELSE <<b>>]

(* It is read as that byte.                                                *)
LEMMA OutputImage ==
  ASSUME NEW b \in Code
  PROVE  outputImage[b] \in Seq(Code) /\ Reads(output, AnyBytes, outputImage[b], <<b>>)
<1>. DEFINE o == OctalDigits(b)
<1>1. b \in Nat BY DEF Code
<1>2. CASE ~(b < Space \/ b = Bslash)
  <2>. DEFINE p == <<b>>
  <2>1. outputImage[b] = p BY <1>2 DEF outputImage
  <2>2. p \in Seq(Code) /\ p \in Seq(Nat) /\ p # <<>> /\ Len(p) = 1 /\ p[1] = b BY <1>1
  <2>. HIDE DEF p
  <2>3. ASSUME NEW z \in Seq(Nat)
        PROVE  outputSkip(p \o z, 1) = Len(p) /\ outputOut(p \o z, 1) = <<b>>
    <3>1. (p \o z)[1] = b
      <4>1. 1 \in 1..Len(p) BY <2>2
      <4>. QED BY <2>2, <4>1, Follow
    <3>. QED BY <1>2, <2>2, <3>1 DEF outputSkip, outputOut
  <2>4. Reads(output, AnyBytes, p, <<b>>) BY <2>2, <2>3, OutputReads
  <2>. QED BY <2>1, <2>2, <2>4
<1>3. CASE b < Space \/ b = Bslash
  <2>. DEFINE p == <<Bslash, o[1], o[2], o[3]>>
  <2>0. outputImage[b] = <<Bslash>> \o o BY <1>3 DEF outputImage
  <2>1. o[1] \in 48..51 /\ o[2] \in 48..55 /\ o[3] \in 48..55 /\ o = <<o[1], o[2], o[3]>>
        /\ (o[1] - Zero) * 64 + (o[2] - Zero) * 8 + (o[3] - Zero) = b
    BY OctalIs DEF Zero
  <2>. HIDE DEF o
  <2>2. Bslash \in Nat /\ o[1] \in Nat /\ o[2] \in Nat /\ o[3] \in Nat BY <2>1 DEF Bslash
  <2>3. /\ p \in Seq(Nat) /\ p # <<>> /\ Len(p) = 4 /\ p[1] = Bslash
        /\ p[2] = o[1] /\ p[3] = o[2] /\ p[4] = o[3]
    BY <2>2
  <2>4. <<Bslash>> \o o = p
    <3>1. o = <<o[1], o[2], o[3]>> BY <2>1
    <3>2. <<Bslash>> \o <<o[1], o[2], o[3]>> = p BY <2>2, OneAndThree
    <3>. QED BY ONLY <3>1, <3>2, Zenon
  <2>. HIDE DEF p
  <2>5. ASSUME NEW z \in Seq(Nat)
        PROVE  outputSkip(p \o z, 1) = Len(p) /\ outputOut(p \o z, 1) = <<b>>
    <3>. DEFINE v == p \o z
    <3>1. /\ v[1] = Bslash /\ v[1 + 1] = o[1] /\ v[1 + 2] = o[2] /\ v[1 + 3] = o[3]
          /\ Len(v) \in Nat /\ Len(v) >= 4
      <4>1. /\ 1 \in 1..Len(p) /\ 2 \in 1..Len(p) /\ 3 \in 1..Len(p) /\ 4 \in 1..Len(p)
            /\ 1 + 1 = 2 /\ 1 + 2 = 3 /\ 1 + 3 = 4 /\ Len(z) \in Nat
        BY <2>3
      <4>2. /\ v[1] = p[1] /\ v[2] = p[2] /\ v[3] = p[3] /\ v[4] = p[4]
            /\ Len(v) = Len(p) + Len(z)
        <5>1. p \in Seq(Nat) /\ z \in Seq(Nat) BY <2>3
        <5>. QED BY ONLY <4>1, <5>1, Follow
      <4>. QED BY <2>3, <4>1, <4>2
    <3>. HIDE DEF v
    <3>2. IsOctal(v, 1 + 1)
      <4>1. \A j \in (1 + 1)..(1 + 1 + 2) : j = 1 + 1 \/ j = 1 + 2 \/ j = 1 + 3 OBVIOUS
      <4>2. o[1] \in 48..51 /\ o[2] \in 48..55 /\ o[3] \in 48..55 BY <2>1
      <4>. QED BY <3>1, <4>1, <4>2 DEF IsOctal, Zero
    <3>3. octalByte(v, 1 + 1) = b
      <4>1. 1 + 1 + 1 = 1 + 2 /\ 1 + 1 + 2 = 1 + 3 OBVIOUS
      <4>. QED BY <2>1, <3>1, <4>1 DEF octalByte
    <3>. QED BY <2>3, <3>1, <3>2, <3>3 DEF outputSkip, outputOut, v
  <2>6. Reads(output, AnyBytes, p, <<b>>) BY <2>3, <2>5, OutputReads
  <2>7. <<Bslash>> \o OctalDigits(b) \in Seq(Code) BY OctalEscapeTyped
  <2>. QED BY <2>0, <2>4, <2>6, <2>7 DEF o
<1>. QED BY <1>2, <1>3

(* unescape undoes Escape.                                                 *)
LEMMA OutputUndone ==
  ASSUME NEW s \in Seq(Code)
  PROVE  unescape(Escape(s)) = s
<1>. DEFINE e == Mapped(outputImage, s)
<1>1. Escape(s) = e
  <2>1. \A i \in 1..Len(s) : s[i] \in Code OBVIOUS
  <2>2. [i \in 1..Len(s) |-> IF s[i] < Space \/ s[i] = Bslash
                             THEN <<Bslash>> \o OctalDigits(s[i]) ELSE <<s[i]>>]
          = [i \in 1..Len(s) |-> outputImage[s[i]]]
    BY <2>1 DEF outputImage
  <2>. QED BY <2>2, Zenon DEF Escape, Map, Mapped
<1>2. outputImage \in [Code -> Seq(Code)]
  <2>1. outputImage = [b \in Code |-> outputImage[b]] BY DEF outputImage
  <2>2. \A b \in Code : outputImage[b] \in Seq(Code) BY OutputImage
  <2>. QED BY ONLY <2>1, <2>2
<1>3. outputImage \in [Code -> Seq(Nat)] /\ itself \in [Code -> Seq(Nat)]
  BY <1>2, CodesAreNats, EncodersMap
<1>4. \A b \in Code : Reads(output, AnyBytes, outputImage[b], itself[b]) BY OutputImage DEF itself
<1>5. Reads(output, AnyBytes, e, Mapped(itself, s))
  <2>1. AnyBytes \subseteq Seq(Nat) /\ output \in [AnyBytes -> Seq(Nat)]
    BY OutputReadsBytes DEF AnyBytes
  <2>. QED BY <1>3, <1>4, <2>1, ReadsMapped
<1>6. Mapped(itself, s) = s
  <2>1. itself \in [Code -> Seq(Code)] /\ \A x \in Code : itself[x] = <<x>>
    BY EncodersMap DEF itself
  <2>. QED BY <2>1, MappedSelf
<1>7. e \in Seq(Nat) /\ s \in Seq(Nat) BY <1>3, MappedAppend, CodesAreNats
<1>. HIDE DEF e
<1>8. output[e \o <<>>] = s \o output[<<>>]
  <2>1. <<>> \in AnyBytes BY DEF AnyBytes
  <2>. QED BY <1>5, <1>6, <2>1 DEF Reads
<1>9. e \o <<>> = e /\ s \o <<>> = s BY <1>7, ConcatEmptySeq
<1>. QED BY <1>1, <1>7, <1>8, <1>9, OutputReadsBytes DEF output

-----------------------------------------------------------------------------
(***************************************************************************)
(* Calls of any number.  A recursive function over a sequence is a loop    *)
(* that exists (Passes), and what it comes to follows from what one step   *)
(* does: after any calls tmux has the subscriptions asked for, and any     *)
(* list of Options makes the processes it asks for.                        *)
(***************************************************************************)

-----------------------------------------------------------------------------
(* What a loop makes of a sequence, element by element                     *)

(* f is a loop over s that begins at a, and comes to z.                    *)
LoopsOver(a, step, s, f, z) ==
  f[0] = a /\ (\A n \in 1..Len(s) : f[n] = step[f[n - 1]][s[n]]) /\ z = f[Len(s)]

(* g is a for nothing, and one step more for one element more.             *)
Folds(S, A, a, step, g) ==
  /\ g[<<>>] = a /\ \A s \in Seq(A) : g[s] \in S
  /\ \A s \in Seq(A), x \in A : g[Append(s, x)] = step[g[s]][x]

(* So is what loops come to.                                               *)
LEMMA FoldOf ==
  ASSUME NEW S, NEW A, NEW a \in S, NEW step \in [S -> [A -> S]], NEW g,
         \A s \in Seq(A) : \E f : LoopsOver(a, step, s, f, g[s])
  PROVE  Folds(S, A, a, step, g)
<1>1. ASSUME NEW s \in Seq(A), NEW f, LoopsOver(a, step, s, f, g[s])
      PROVE  \A n \in 0..Len(s) : f[n] \in S
  <2>. DEFINE L == Len(s)
              T == {n \in 0..L : f[n] \in S}
  <2>1. L \in Nat /\ f[0] = a /\ \A n \in 1..L : f[n] = step[f[n - 1]][s[n]] BY <1>1 DEF LoopsOver
  <2>2. 0 \in T BY <2>1
  <2>3. ASSUME NEW n \in 1..L, n - 1 \in T PROVE n \in T
    <3>1. s[n] \in A /\ f[n - 1] \in S BY <2>3
    <3>. QED BY <2>1, <3>1
  <2>. HIDE DEF T, L
  <2>4. 0..L \subseteq T BY <2>1, <2>2, <2>3, UpTo
  <2>. QED BY <2>4 DEF T, L
<1>2. ASSUME NEW s \in Seq(A) PROVE g[s] \in S
  <2>1. PICK f : LoopsOver(a, step, s, f, g[s]) OBVIOUS
  <2>2. Len(s) \in 0..Len(s) OBVIOUS
  <2>3. f[Len(s)] \in S BY <1>1, <2>1, <2>2
  <2>4. g[s] = f[Len(s)] BY <2>1 DEF LoopsOver
  <2>. QED BY <2>3, <2>4
<1>3. g[<<>>] = a
  <2>1. <<>> \in Seq(A) /\ Len(<<>>) = 0 OBVIOUS
  <2>2. PICK f : LoopsOver(a, step, <<>>, f, g[<<>>]) BY <2>1
  <2>. QED BY <2>1, <2>2 DEF LoopsOver
<1>4. ASSUME NEW s \in Seq(A), NEW x \in A PROVE g[Append(s, x)] = step[g[s]][x]
  <2>. DEFINE t == Append(s, x)
              L == Len(s)
  <2>1. t \in Seq(A) /\ L \in Nat /\ Len(t) = L + 1 /\ t[L + 1] = x
        /\ \A i \in 1..L : t[i] = s[i]
    BY AppendProperties
  <2>. HIDE DEF t
  <2>2. PICK f : LoopsOver(a, step, s, f, g[s]) OBVIOUS
  <2>3. PICK h : LoopsOver(a, step, t, h, g[t]) BY <2>1
  <2>4. /\ f[0] = a /\ h[0] = a /\ g[s] = f[L] /\ g[t] = h[L + 1]
        /\ \A n \in 1..L : f[n] = step[f[n - 1]][s[n]]
        /\ \A n \in 1..(L + 1) : h[n] = step[h[n - 1]][t[n]]
    BY <2>1, <2>2, <2>3 DEF LoopsOver
  <2>. DEFINE T == {n \in 0..L : f[n] = h[n]}
  <2>. HIDE DEF L
  <2>5. 0 \in T BY <2>1, <2>4
  <2>6. ASSUME NEW n \in 1..L, n - 1 \in T PROVE n \in T
    <3>1. n \in 1..(L + 1) /\ n \in 0..L BY <2>1
    <3>2. f[n - 1] = h[n - 1] /\ t[n] = s[n] BY <2>1, <2>6
    <3>3. f[n] = step[f[n - 1]][s[n]] /\ h[n] = step[h[n - 1]][t[n]] BY <2>4, <3>1
    <3>4. f[n] = h[n] BY <3>2, <3>3, Zenon
    <3>. QED BY <3>1, <3>4
  <2>7. f[L] = h[L]
    <3>. HIDE DEF T
    <3>1. 0..L \subseteq T BY <2>1, <2>5, <2>6, UpTo
    <3>2. L \in T BY <2>1, <3>1
    <3>. QED BY <3>2 DEF T
  <2>8. h[L + 1] = step[h[L]][x]
    <3>1. L + 1 \in 1..(L + 1) /\ (L + 1) - 1 = L BY <2>1
    <3>. QED BY <2>1, <2>4, <3>1
  <2>. QED BY <2>4, <2>7, <2>8 DEF t
<1>. QED BY <1>2, <1>3, <1>4 DEF Folds

(* There is a loop over every sequence, and its places are in S.           *)
Passes(S, a, step, s) ==
  \E u : /\ u = [n \in 0..Len(s) |-> u[n]] /\ \A n \in 0..Len(s) : u[n] \in S
         /\ u[0] = a /\ \A n \in 1..Len(s) : u[n] = step[u[n - 1]][s[n]]

(* So a recursive definition of one has the values that it says.           *)
LEMMA PassesAlways ==
  ASSUME NEW S, NEW A, NEW a \in S, NEW step \in [S -> [A -> S]], NEW s \in Seq(A)
  PROVE  Passes(S, a, step, s)
<1>. DEFINE L == Len(s)
            G == [n \in 1..L |-> [z \in S |-> step[z][s[n]]]]
<1>1. L \in Nat /\ \A n \in 1..L : s[n] \in A OBVIOUS
<1>2. G \in [1..L -> [S -> S]] BY <1>1
<1>3. \A n \in 1..L : \A z \in S : G[n][z] = step[z][s[n]] OBVIOUS
<1>. HIDE DEF G, L
<1>4. Loops(S, a, L, G) BY <1>1, <1>2, LoopsAlways
<1>5. PICK u \in [0..L -> S] : u[0] = a /\ \A n \in 1..L : u[n] = G[n][u[n - 1]] BY <1>4 DEF Loops
<1>6. ASSUME NEW n \in 1..L PROVE u[n] = step[u[n - 1]][s[n]]
  <2>1. n - 1 \in 0..L BY <1>1
  <2>. QED BY <1>3, <1>5, <2>1
<1>7. u = [n \in 0..L |-> u[n]] /\ \A n \in 0..L : u[n] \in S BY <1>5
<1>. QED BY <1>5, <1>6, <1>7 DEF Passes, L

-----------------------------------------------------------------------------
(* Splitting and cutting *)

Parts(A) == Seq(Seq(A)) \ {<<>>}

(* A byte more makes parts of parts.                                       *)
LEMMA PartedTyped ==
  ASSUME NEW A, NEW p \in Parts(A), NEW b \in A, NEW sep
  PROVE  Parted(p, b, sep) \in Parts(A)
<1>1. p \in Seq(Seq(A)) /\ Len(p) \in 1..Len(p) /\ p[Len(p)] \in Seq(A) BY EmptySeq DEF Parts
<1>2. CASE b = sep
  <2>1. <<>> \in Seq(A) OBVIOUS
  <2>2. Append(p, <<>>) \in Seq(Seq(A)) /\ Len(Append(p, <<>>)) = Len(p) + 1
    BY <1>1, <2>1, AppendProperties
  <2>3. Append(p, <<>>) # <<>>
    <3>1. Len(<<>>) = 0 OBVIOUS
    <3>. QED BY <1>1, <2>2, <3>1
  <2>. QED BY <1>2, <2>2, <2>3 DEF Parted, Parts
<1>3. CASE b # sep
  <2>. DEFINE q == Append(p[Len(p)], b)
              r == [p EXCEPT ![Len(p)] = q]
  <2>1. q \in Seq(A) BY <1>1
  <2>2. Parted(p, b, sep) = r BY <1>3 DEF Parted
  <2>. HIDE DEF q
  <2>3. r \in Seq(Seq(A)) /\ Len(r) = Len(p) BY <1>1, <2>1, ExceptSeq
  <2>4. r # <<>>
    <3>1. Len(<<>>) = 0 OBVIOUS
    <3>. QED BY <1>1, <2>3, <3>1
  <2>. QED BY <2>2, <2>3, <2>4 DEF Parts
<1>. QED BY <1>2, <1>3

(* Split, as what is made of each byte in turn.                            *)
split(A, sep) == [s \in Seq(A) |-> Split(s, sep)]
parted(A, sep) == [p \in Parts(A) |-> [b \in A |-> Parted(p, b, sep)]]

(* Split is such a loop.                                                   *)
LEMMA SplitFolds ==
  ASSUME NEW A, NEW sep
  PROVE  Folds(Parts(A), A, << <<>> >>, parted(A, sep), split(A, sep))
<1>. DEFINE S == Parts(A)
            a == << <<>> >>
            step == parted(A, sep)
            g == split(A, sep)
<1>1. a \in S
  <2>1. <<>> \in Seq(A) OBVIOUS
  <2>2. a \in Seq(Seq(A)) /\ a # <<>> BY <2>1
  <2>. QED BY <2>2 DEF Parts
<1>2. step \in [S -> [A -> S]] /\ \A p \in S, b \in A : step[p][b] = Parted(p, b, sep)
  BY PartedTyped DEF parted
<1>3. ASSUME NEW s \in Seq(A) PROVE \E f : LoopsOver(a, step, s, f, g[s])
  <2>. DEFINE L == Len(s)
              f == CHOOSE f : f = [n \in 0..L |-> IF n = 0 THEN a ELSE Parted(f[n - 1], s[n], sep)]
  <2>1. L \in Nat /\ \A n \in 1..L : s[n] \in A OBVIOUS
  <2>2. Split(s, sep) = f[L] BY DEF Split
  <2>3. Passes(S, a, step, s)
    <3>. HIDE DEF S, a, step
    <3>. QED BY <1>1, <1>2, PassesAlways
  <2>. HIDE DEF L, S, a, step
  <2>4. PICK u : /\ u = [n \in 0..L |-> u[n]] /\ \A n \in 0..L : u[n] \in S
                 /\ u[0] = a /\ \A n \in 1..L : u[n] = step[u[n - 1]][s[n]]
    BY <2>3 DEF Passes, L
  <2>5. \A n \in 0..L : u[n] = IF n = 0 THEN a ELSE Parted(u[n - 1], s[n], sep)
    <3>. SUFFICES ASSUME NEW n \in 0..L, n # 0 PROVE u[n] = Parted(u[n - 1], s[n], sep) BY <2>4
    <3>1. n \in 1..L /\ n - 1 \in 0..L BY <2>1
    <3>2. u[n] = step[u[n - 1]][s[n]] /\ u[n - 1] \in S /\ s[n] \in A BY <2>1, <2>4, <3>1
    <3>. QED BY <1>2, <3>2
  <2>6. u = [n \in 0..L |-> IF n = 0 THEN a ELSE Parted(u[n - 1], s[n], sep)]
    BY <2>4, <2>5, Zenon
  <2>7. f = [n \in 0..L |-> IF n = 0 THEN a ELSE Parted(f[n - 1], s[n], sep)] BY <2>6, Zenon
  <2>. HIDE DEF f
  <2>8. f[0] = a /\ \A n \in 1..L : f[n] = Parted(f[n - 1], s[n], sep) BY <2>1, <2>7
  <2>. DEFINE T == {n \in 0..L : f[n] \in S}
  <2>9. 0 \in T BY <1>1, <2>1, <2>8
  <2>10. ASSUME NEW n \in 1..L, n - 1 \in T PROVE n \in T
    <3>1. f[n] = Parted(f[n - 1], s[n], sep) /\ f[n - 1] \in S /\ s[n] \in A /\ n \in 0..L
      BY <2>1, <2>8, <2>10
    <3>2. f[n] \in S BY <3>1, PartedTyped DEF S
    <3>. QED BY <3>1, <3>2
  <2>11. 0..L \subseteq T
    <3>. HIDE DEF T
    <3>. QED BY <2>1, <2>9, <2>10, UpTo
  <2>12. ASSUME NEW n \in 1..L PROVE f[n] = step[f[n - 1]][s[n]]
    <3>1. n - 1 \in 0..L BY <2>1
    <3>2. f[n - 1] \in S /\ s[n] \in A BY <2>1, <2>11, <3>1
    <3>. QED BY <1>2, <2>8, <3>2
  <2>13. g[s] = f[L] BY <2>2 DEF split
  <2>. QED BY <2>8, <2>12, <2>13 DEF LoopsOver, L
<1>. HIDE DEF S, a, step, g
<1>4. Folds(S, A, a, step, g) BY <1>1, <1>2, <1>3, FoldOf
<1>. QED BY <1>4 DEF S, a, step, g

(* What has no separator is one part.                                      *)
LEMMA SplitWhole ==
  ASSUME NEW A, NEW sep, NEW s \in Seq(A), \A i \in 1..Len(s) : s[i] # sep
  PROVE  Split(s, sep) = <<s>>
<1>. DEFINE B == A \ {sep}
            g == split(B, sep)
            Z == {t \in Seq(B) : Split(t, sep) = <<t>>}
<1>1. Folds(Parts(B), B, << <<>> >>, parted(B, sep), g) BY SplitFolds
<1>2. \A t \in Seq(B) : g[t] = Split(t, sep) BY DEF split
<1>3. <<>> \in Z
  <2>1. <<>> \in Seq(B) OBVIOUS
  <2>. QED BY <1>1, <1>2, <2>1 DEF Folds
<1>4. ASSUME NEW t \in Seq(B), NEW x \in B, t \in Z PROVE Append(t, x) \in Z
  <2>1. Append(t, x) \in Seq(B) OBVIOUS
  <2>2. <<t>> \in Parts(B)
    <3>. HIDE DEF B
    <3>. QED BY DEF Parts
  <2>3. Split(Append(t, x), sep) = Parted(<<t>>, x, sep)
    <3>1. g[Append(t, x)] = parted(B, sep)[g[t]][x] BY <1>1 DEF Folds
    <3>2. g[t] = <<t>> BY <1>2, <1>4
    <3>3. parted(B, sep)[<<t>>][x] = Parted(<<t>>, x, sep) BY <2>2 DEF parted
    <3>. QED BY <1>2, <2>1, <3>1, <3>2, <3>3
  <2>4. Parted(<<t>>, x, sep) = <<Append(t, x)>> BY DEF Parted
  <2>. QED BY <2>1, <2>3, <2>4
<1>5. \A t \in Seq(B) : t \in Z
  <2>. HIDE DEF B, Z
  <2>. QED BY <1>3, <1>4, ByAppend
<1>6. s \in Seq(B)
  <2>1. s \in [1..Len(s) -> B] /\ Len(s) \in Nat OBVIOUS
  <2>. QED BY <2>1
<1>. QED BY <1>5, <1>6

(* A text is cut at the first separator, or not at all.                    *)
CutInTwo(a, r, sep) ==
  CutAt((a \o <<sep>>) \o r, sep) = [before |-> a, after |-> r, found |-> TRUE]

(* Cut at the first of them,                                               *)
LEMMA CutThere ==
  ASSUME NEW A, NEW sep \in A, NEW a \in Seq(A), NEW r \in Seq(A), \A i \in 1..Len(a) : a[i] # sep
  PROVE  CutInTwo(a, r, sep)
<1>. DEFINE p == a \o <<sep>>
            s == p \o r
            L == Len(a)
            at == {i \in 1..Len(s) : s[i] = sep}
            first == CHOOSE i \in at : \A j \in at : i <= j
<1>1. <<sep>> \in Seq(A) /\ Len(<<sep>>) = 1 /\ L \in Nat /\ Len(r) \in Nat OBVIOUS
<1>2. p \in Seq(A) /\ Len(p) = L + 1 /\ p[L + 1] = sep /\ \A i \in 1..L : p[i] = a[i]
  BY <1>1, Follow
<1>. HIDE DEF p
<1>3. /\ s \in Seq(A) /\ Len(s) = (L + 1) + Len(r) /\ \A i \in 1..(L + 1) : s[i] = p[i]
      /\ \A i \in 1..Len(r) : s[(L + 1) + i] = r[i]
  <2>1. /\ s \in Seq(A) /\ Len(s) = Len(p) + Len(r) /\ \A i \in 1..Len(p) : s[i] = p[i]
        /\ \A i \in 1..Len(r) : s[Len(p) + i] = r[i]
    <3>1. p \in Seq(A) /\ r \in Seq(A) BY <1>2
    <3>. QED BY <3>1, Follow
  <2>. HIDE DEF s
  <2>. QED BY <1>2, <2>1
<1>4. s[L + 1] = sep /\ \A i \in 1..L : s[i] = a[i] BY <1>1, <1>2, <1>3
<1>. HIDE DEF s
<1>5. L + 1 \in at /\ \A j \in at : L + 1 <= j BY <1>1, <1>3, <1>4
<1>6. first = L + 1
  <2>1. first \in at /\ \A j \in at : first <= j
    <3>. HIDE DEF at
    <3>. QED BY <1>5, Zenon
  <2>2. first \in Nat BY <2>1
  <2>. HIDE DEF first, at
  <2>. QED BY <1>1, <1>5, <2>1, <2>2
<1>7. SubSeq(s, 1, (L + 1) - 1) = a
  <2>1. (L + 1) - 1 = L /\ L \in 0..Len(s) BY <1>1, <1>3
  <2>2. SubSeq(s, 1, L) \in Seq(A) /\ Len(SubSeq(s, 1, L)) = L
        /\ \A i \in 1..L : SubSeq(s, 1, L)[i] = s[i]
    BY <1>1, <1>3, <2>1, SubSeqProperties
  <2>. QED BY <1>4, <2>1, <2>2, SeqEqual
<1>8. SubSeq(s, (L + 1) + 1, Len(s)) = r
  <2>. DEFINE t == SubSeq(s, (L + 1) + 1, Len(s))
  <2>1. t \in Seq(A) /\ Len(t) = Len(r) /\ \A i \in 1..Len(r) : t[i] = s[(L + 1) + i]
    <3>1. \A i \in 1..Len(r) : ((L + 1) + 1) + i - 1 = (L + 1) + i BY <1>1
    <3>2. (L + 1) + 1 \in 1..(Len(s) + 1) /\ Len(s) - ((L + 1) + 1) + 1 = Len(r) BY <1>1, <1>3
    <3>. QED BY <1>1, <1>3, <3>1, <3>2, SubSeqProperties
  <2>. HIDE DEF t
  <2>2. \A i \in 1..Len(t) : t[i] = r[i] BY <1>3, <2>1
  <2>3. t = r BY <2>1, <2>2, SeqEqual
  <2>. QED BY <2>3 DEF t
<1>9. at # {} BY <1>5
<1>. HIDE DEF at, first
<1>10. CutAt(s, sep) = [before |-> SubSeq(s, 1, first - 1), after |-> SubSeq(s, first + 1, Len(s)),
                        found |-> TRUE]
  BY <1>9 DEF CutAt, at, first
<1>. QED BY <1>6, <1>7, <1>8, <1>10 DEF CutInTwo, s, p

(* or nowhere, if there is none.                                           *)
LEMMA CutNowhere ==
  ASSUME NEW s, NEW sep, \A i \in 1..Len(s) : s[i] # sep
  PROVE  CutAt(s, sep) = [before |-> s, after |-> <<>>, found |-> FALSE]
<1>1. {i \in 1..Len(s) : s[i] = sep} = {} OBVIOUS
<1>. QED BY <1>1 DEF CutAt

-----------------------------------------------------------------------------
(* Subscriptions *)

SubscriptionCall ==
  [op : {"subscribe"}, name : Seq(Code), format : Seq(Code), target : Seq(Code)]
    \union [op : {"unsubscribe"}, name : Seq(Code)]

(* What a call that subscribes asks for.                                   *)
AskedBy(c) == [name |-> c.name, target |-> c.target, format |-> c.format]

(* A target that is not refused has no colon.                              *)
LEMMA TargetHasNoColon ==
  ASSUME NEW t \in Seq(Code), checkSubscribeTarget(t)
  PROVE  \A i \in 1..Len(t) : t[i] # Colon
<1>. SUFFICES ASSUME NEW i \in 1..Len(t) PROVE t[i] # Colon OBVIOUS
<1>1. CASE t \in {SubscribeSession, SubscribeAllPanes, SubscribeAllWindows}
  BY <1>1 DEF SubscribeSession, SubscribeAllPanes, SubscribeAllWindows, PaneSigil, WindowSigil,
              Star, Colon
<1>2. CASE t[1] \in {PaneSigil, WindowSigil} /\ ValidID(t)
  <2>1. CASE i = 1 BY <1>2, <2>1 DEF PaneSigil, WindowSigil, Colon
  <2>2. CASE i # 1
    <3>1. i \in 2..Len(t) BY <2>2
    <3>. QED BY <1>2, <3>1 DEF ValidID, Zero, Colon
  <2>. QED BY <2>1, <2>2
<1>. QED BY <1>1, <1>2 DEF checkSubscribeTarget

(* Nor has a name; and it has no space and no newline.                     *)
LEMMA NameIsPlain ==
  ASSUME NEW n \in Seq(Code), checkSubscribeName(n)
  PROVE  n \in Seq(Code \ {Newline}) /\ \A i \in 1..Len(n) : n[i] # Colon /\ n[i] # SpaceByte
<1>1. \A i \in 1..Len(n) : n[i] \in Code \ {Newline} /\ n[i] # Colon /\ n[i] # SpaceByte
  <2>. SUFFICES ASSUME NEW i \in 1..Len(n)
                PROVE  n[i] \in Code \ {Newline} /\ n[i] # Colon /\ n[i] # SpaceByte
    OBVIOUS
  <2>. DEFINE b == n[i]
  <2>1. b > SpaceByte /\ b # Colon BY DEF checkSubscribeName
  <2>2. b \in Code OBVIOUS
  <2>. HIDE DEF b
  <2>3. b \in Nat /\ b > 32 BY <2>1, <2>2 DEF SpaceByte, Code
  <2>4. b # Newline /\ b # SpaceByte BY <2>3 DEF Newline, SpaceByte
  <2>. QED BY <2>1, <2>2, <2>4 DEF b
<1>2. n \in [1..Len(n) -> Code \ {Newline}] /\ Len(n) \in Nat BY <1>1
<1>. QED BY <1>1, <1>2

(* What tmux makes of an argument: the name's subscription goes, and the   *)
(* one that was asked for, if any, takes its place.                        *)
Replaces(c) ==
  \A subs, arg : arg \in Argument(c) =>
    Refreshed(subs, arg) =
      {s \in subs : s.name # c.name} \union (IF c.op = "subscribe" THEN {AskedBy(c)} ELSE {})

(* It does.                                                                *)
LEMMA CallReplaces ==
  ASSUME NEW c \in SubscriptionCall
  PROVE  Replaces(c)
<1>. SUFFICES ASSUME NEW subs, NEW arg \in Argument(c)
              PROVE  Refreshed(subs, arg) = {s \in subs : s.name # c.name} \union
                                              (IF c.op = "subscribe" THEN {AskedBy(c)} ELSE {})
  BY DEF Replaces
<1>1. CASE c.op = "subscribe"
  <2>1. c.name \in Seq(Code) /\ c.target \in Seq(Code) /\ c.format \in Seq(Code)
    BY <1>1 DEF SubscriptionCall
  <2>2. /\ checkSubscribeName(c.name) /\ checkSubscribeTarget(c.target)
        /\ arg = c.name \o <<Colon>> \o c.target \o <<Colon>> \o c.format
    BY <1>1 DEF Argument, Subscribe
  <2>. DEFINE n == c.name
              t == c.target
              f == c.format
              k == <<Colon>>
              r == (t \o k) \o f
  <2>3. Colon \in Code /\ k \in Seq(Code) BY DEF Colon, Code
  <2>. HIDE DEF n, t, f, k
  <2>4. n \in Seq(Code) /\ t \in Seq(Code) /\ f \in Seq(Code) BY <2>1 DEF n, t, f
  <2>5. n \o k \in Seq(Code) /\ t \o k \in Seq(Code) /\ r \in Seq(Code)
    BY <2>3, <2>4, ConcatProperties
  <2>6. arg = (n \o k) \o r
    <3>. DEFINE p == n \o k
    <3>1. arg = ((p \o t) \o k) \o f BY <2>2 DEF n, t, f, k
    <3>2. p \in Seq(Code) BY <2>5
    <3>. HIDE DEF p
    <3>3. Regroups(p, t, k) BY <2>3, <2>4, <3>2, Regrouped
    <3>. DEFINE q == t \o k
    <3>4. q \in Seq(Code) BY <2>5
    <3>. HIDE DEF q
    <3>5. Regroups(p, q, f) BY <2>4, <3>2, <3>4, Regrouped
    <3>. QED BY <3>1, <3>3, <3>5 DEF Regroups, p, q
  <2>. HIDE DEF r
  <2>7. CutAt((n \o k) \o r, Colon) = [before |-> n, after |-> r, found |-> TRUE]
    <3>1. \A i \in 1..Len(n) : n[i] # Colon BY <2>1, <2>2, NameIsPlain DEF n
    <3>2. CutInTwo(n, r, Colon) BY <2>3, <2>4, <2>5, <3>1, CutThere
    <3>. QED BY <3>2 DEF CutInTwo, k
  <2>8. CutAt(r, Colon) = [before |-> t, after |-> f, found |-> TRUE]
    <3>1. \A i \in 1..Len(t) : t[i] # Colon BY <2>1, <2>2, TargetHasNoColon DEF t
    <3>2. CutInTwo(t, f, Colon) BY <2>3, <2>4, <3>1, CutThere
    <3>. QED BY <3>2 DEF CutInTwo, k, r
  <2>9. Refreshed(subs, arg) = {s \in subs : s.name # n} \union
                                 {[name |-> n, target |-> t, format |-> f]}
    BY <2>6, <2>7, <2>8 DEF Refreshed
  <2>. QED BY <1>1, <2>9 DEF AskedBy, n, t, f
<1>2. CASE c.op # "subscribe"
  <2>1. c.name \in Seq(Code) BY <1>2 DEF SubscriptionCall
  <2>2. checkSubscribeName(c.name) /\ arg = c.name BY <1>2 DEF Argument, Unsubscribe
  <2>3. \A i \in 1..Len(arg) : arg[i] # Colon BY <2>1, <2>2, NameIsPlain
  <2>4. CutAt(arg, Colon) = [before |-> arg, after |-> <<>>, found |-> FALSE] BY <2>3, CutNowhere
  <2>5. Refreshed(subs, arg) = {s \in subs : s.name # c.name} BY <2>2, <2>4 DEF Refreshed
  <2>. QED BY <1>2, <2>5
<1>. QED BY <1>1, <1>2

(* The first part of a text whose beginning h is without the separator     *)
(* begins with h; and it is the only part unless a separator follows.      *)
FirstKeeps(A, h, v, sep) ==
  LET parts == Split(h \o v, sep)
  IN /\ \E u \in Seq(A) : parts[1] = h \o u
     /\ Len(parts) = 1 <=> \A i \in 1..Len(v) : v[i] # sep

LEMMA FirstIsKept ==
  ASSUME NEW A, NEW sep \in A, NEW h \in Seq(A \ {sep})
  PROVE  \A v \in Seq(A) : FirstKeeps(A, h, v, sep)
<1>. DEFINE g == split(A, sep)
            Z == {v \in Seq(A) : FirstKeeps(A, h, v, sep)}
<1>1. Folds(Parts(A), A, << <<>> >>, parted(A, sep), g) BY SplitFolds
<1>2. \A t \in Seq(A) : g[t] = Split(t, sep) BY DEF split
<1>3. h \in Seq(A) /\ \A i \in 1..Len(h) : h[i] # sep
  <2>1. h \in [1..Len(h) -> A \ {sep}] /\ Len(h) \in Nat OBVIOUS
  <2>2. h \in [1..Len(h) -> A] /\ \A i \in 1..Len(h) : h[i] # sep BY <2>1
  <2>. QED BY <2>1, <2>2
<1>4. <<>> \in Z
  <2>1. <<>> \in Seq(A) /\ h \o <<>> = h /\ Len(<<>>) = 0 BY <1>3, ConcatEmptySeq
  <2>2. Split(h, sep) = <<h>> BY <1>3, SplitWhole
  <2>3. <<h>>[1] = h /\ Len(<<h>>) = 1 OBVIOUS
  <2>. DEFINE v == <<>>
              parts == Split(h \o v, sep)
  <2>4. parts = <<h>> BY <2>1, <2>2
  <2>5. v \in Seq(A) /\ h = h \o v /\ \A i \in 1..Len(v) : v[i] # sep BY <2>1
  <2>. HIDE DEF v
  <2>6. parts[1] = h \o v /\ Len(parts) = 1 BY <2>3, <2>4, <2>5
  <2>7. FirstKeeps(A, h, v, sep) BY <2>5, <2>6 DEF FirstKeeps
  <2>. QED BY <2>5, <2>7 DEF v
<1>5. ASSUME NEW v \in Seq(A), NEW x \in A, v \in Z PROVE Append(v, x) \in Z
  <2>. DEFINE t == h \o v
              p == Split(t, sep)
              w == Append(v, x)
              q == Split(h \o w, sep)
  <2>1. t \in Seq(A) /\ w \in Seq(A) /\ Len(w) = Len(v) + 1 /\ Len(v) \in Nat
        /\ w[Len(v) + 1] = x /\ \A i \in 1..Len(v) : w[i] = v[i]
    BY <1>3, AppendProperties, ConcatProperties
  <2>2. h \o w = Append(t, x)
    <3>. DEFINE m == <<x>>
    <3>1. m \in Seq(A) OBVIOUS
    <3>2. w = v \o m BY AppendIsConcat
    <3>3. Append(t, x) = t \o m BY <2>1, AppendIsConcat
    <3>. HIDE DEF m
    <3>4. (h \o v) \o m = h \o (v \o m) BY <1>3, <3>1, ConcatAssociative
    <3>. QED BY <3>2, <3>3, <3>4
  <2>3. p \in Parts(A) /\ q = Parted(p, x, sep)
    <3>1. g[Append(t, x)] = parted(A, sep)[g[t]][x] /\ g[t] \in Parts(A) BY <1>1, <2>1 DEF Folds
    <3>2. g[t] = p /\ Append(t, x) \in Seq(A)
      <4>1. g[t] = p BY <1>2, <2>1
      <4>2. Append(t, x) \in Seq(A) BY <2>1, AppendProperties
      <4>. QED BY <4>1, <4>2
    <3>3. parted(A, sep)[p][x] = Parted(p, x, sep) BY <3>1, <3>2 DEF parted
    <3>. QED BY <1>2, <2>2, <3>1, <3>2, <3>3
  <2>4. p \in Seq(Seq(A)) /\ Len(p) \in Nat /\ Len(p) >= 1 /\ p[Len(p)] \in Seq(A)
    BY <2>3, EmptySeq DEF Parts
  <2>5. PICK u \in Seq(A) : p[1] = h \o u BY <1>5 DEF FirstKeeps
  <2>6. Len(p) = 1 <=> \A i \in 1..Len(v) : v[i] # sep BY <1>5 DEF FirstKeeps
  <2>7. (\A i \in 1..Len(w) : w[i] # sep) <=> (\A i \in 1..Len(v) : v[i] # sep) /\ x # sep
    BY <2>1
  <2>. HIDE DEF p, q, w, t
  <2>8. CASE x = sep
    <3>1. q = Append(p, <<>>) BY <2>3, <2>8 DEF Parted
    <3>2. <<>> \in Seq(A) OBVIOUS
    <3>3. Len(q) = Len(p) + 1 /\ q[1] = p[1] BY <2>4, <3>1, <3>2, AppendProperties
    <3>4. Len(q) # 1 BY <2>4, <3>3
    <3>. QED BY <2>1, <2>5, <2>7, <2>8, <3>3, <3>4 DEF FirstKeeps, q, w
  <2>9. CASE x # sep
    <3>. DEFINE e == Append(p[Len(p)], x)
    <3>1. q = [p EXCEPT ![Len(p)] = e] BY <2>3, <2>9 DEF Parted
    <3>2. e \in Seq(A) BY <2>4
    <3>3. Len(q) = Len(p) BY <2>4, <3>1, <3>2, ExceptSeq
    <3>4. \E y \in Seq(A) : q[1] = h \o y
      <4>1. CASE Len(p) = 1
        <5>1. q[1] = Append(h \o u, x) BY <2>4, <2>5, <3>1, <4>1
        <5>. DEFINE m == <<x>>
        <5>2. m \in Seq(A) /\ u \o m \in Seq(A) /\ h \o u \in Seq(A)
          BY <1>3, ConcatProperties
        <5>3. Append(h \o u, x) = (h \o u) \o m BY <5>2, AppendIsConcat
        <5>. HIDE DEF m
        <5>4. (h \o u) \o m = h \o (u \o m) BY <1>3, <5>2, ConcatAssociative
        <5>. QED BY <5>1, <5>2, <5>3, <5>4
      <4>2. CASE Len(p) # 1
        <5>1. q[1] = p[1] BY <2>4, <3>1, <4>2
        <5>. QED BY <2>5, <5>1
      <4>. QED BY <4>1, <4>2
    <3>. QED BY <2>1, <2>6, <2>7, <2>9, <3>3, <3>4 DEF FirstKeeps, q, w
  <2>. QED BY <2>8, <2>9
<1>6. \A v \in Seq(A) : v \in Z
  <2>. HIDE DEF Z
  <2>. QED BY <1>4, <1>5, ByAppend
<1>. QED BY <1>6

(* Any value is told under the name of the subscription that it is of, and *)
(* in one line unless there is a newline in it.                            *)
LEMMA ValueIsTold ==
  ASSUME NEW sub, sub.name \in Seq(Code), checkSubscribeName(sub.name), NEW v \in Seq(Code)
  PROVE  ToldAsNamed(sub, v)
<1>. DEFINE A == Code \ {Newline}
            n == sub.name
            lead == <<SpaceByte>>
            mid == <<36, Zero, SpaceByte, Colon, SpaceByte>>
            ids == <<SpaceByte, 36, Zero, SpaceByte, Colon, SpaceByte>>
            h == n \o ids
            lines == Split(h \o v, Newline)
<1>1. /\ SpaceByte \in A /\ 36 \in A /\ Zero \in A /\ Colon \in A
      /\ SpaceByte \in Code /\ Newline \in Code
  BY DEF SpaceByte, Zero, Colon, Newline, Code
<1>. HIDE DEF A
<1>2. lead \in Seq(A) /\ mid \in Seq(A) /\ ids \in Seq(A) BY <1>1
<1>3. ids = lead \o mid
  <2>1. Len(lead) = 1 /\ Len(mid) = 5 /\ Len(ids) = 6 OBVIOUS
  <2>2. lead \o mid \in Seq(A) /\ Len(lead \o mid) = 6
        /\ \A i \in 1..6 : (lead \o mid)[i] = IF i <= 1 THEN lead[i] ELSE mid[i - 1]
    BY <1>2, <2>1, ConcatProperties
  <2>3. \A i \in 1..6 : ids[i] = IF i <= 1 THEN lead[i] ELSE mid[i - 1] OBVIOUS
  <2>. DEFINE both == lead \o mid
  <2>. HIDE DEF lead, mid, ids
  <2>4. both \in Seq(A) /\ Len(both) = Len(ids) /\ \A i \in 1..Len(ids) : ids[i] = both[i]
    BY <2>1, <2>2, <2>3
  <2>. HIDE DEF both
  <2>5. ids = both BY <1>2, <2>4, SeqEqual
  <2>. QED BY <2>5 DEF both
<1>4. n \in Seq(A) /\ \A i \in 1..Len(n) : n[i] # SpaceByte BY NameIsPlain DEF A
<1>. HIDE DEF lead, mid, ids, n
<1>5. h \in Seq(A) /\ h = (n \o lead) \o mid
  <2>1. Regroups(n, lead, mid) BY <1>2, <1>4, Regrouped
  <2>. QED BY <1>2, <1>3, <1>4, <2>1, ConcatProperties DEF Regroups
<1>6. ToldBy(sub, v) = lines BY DEF ToldBy, ids, n
<1>. HIDE DEF h
<1>7. FirstKeeps(Code, h, v, Newline) BY <1>1, <1>5, FirstIsKept DEF A
<1>8. PICK u \in Seq(Code) : lines[1] = h \o u BY <1>7 DEF FirstKeeps
<1>9. CutAt(lines[1], SpaceByte).before = n
  <2>1. n \in Seq(Code) /\ lead \in Seq(Code) /\ mid \in Seq(Code)
    BY <1>1 DEF n, lead, mid, Code, Zero, Colon
  <2>. DEFINE p == n \o lead
              r == mid \o u
  <2>2. p \in Seq(Code) /\ r \in Seq(Code) BY <2>1, ConcatProperties
  <2>. HIDE DEF p
  <2>3. Regroups(p, mid, u) BY <2>1, <2>2, Regrouped
  <2>4. lines[1] = p \o r BY <1>5, <1>8, <2>3 DEF Regroups, p
  <2>. HIDE DEF r, lines
  <2>5. CutInTwo(n, r, SpaceByte) BY <1>1, <1>4, <2>1, <2>2, CutThere
  <2>. QED BY <2>4, <2>5 DEF CutInTwo, p, lead
<1>10. Len(lines) = 1 <=> ~Contains(v, Newline) BY <1>7 DEF FirstKeeps, Contains
<1>. QED BY <1>6, <1>9, <1>10 DEF ToldAsNamed, NameRead, n

(* The calls among the first n that asked for what is still there.         *)
Live(calls, n) ==
  {i \in Accepted(calls) :
     /\ i <= n /\ calls[i].op = "subscribe"
     /\ \A k \in Accepted(calls) : k > i /\ k <= n => calls[k].name # calls[i].name}
Asked(calls, n) == {AskedBy(calls[i]) : i \in Live(calls, n)}

(* One call more, refused or not.                                          *)
NextAsked(calls, n) ==
  Asked(calls, n) =
    IF n \notin Accepted(calls) THEN Asked(calls, n - 1)
    ELSE {s \in Asked(calls, n - 1) : s.name # calls[n].name} \union
           (IF calls[n].op = "subscribe" THEN {AskedBy(calls[n])} ELSE {})

(* Which changes what is asked for under its own name, and no other.       *)
LEMMA AskedGrows ==
  ASSUME NEW calls \in Seq(SubscriptionCall), NEW n \in 1..Len(calls)
  PROVE  NextAsked(calls, n)
<1>. DEFINE C0 == Accepted(calls)
<1>1. C0 \subseteq Nat BY DEF Accepted
<1>2. CASE n \notin C0
  <2>1. \A i \in C0 : i <= n <=> i <= n - 1 BY <1>1, <1>2
  <2>2. Live(calls, n) = Live(calls, n - 1)
    <3>. HIDE DEF C0
    <3>. QED BY <2>1 DEF Live, C0
  <2>. QED BY <1>2, <2>2 DEF NextAsked, Asked
<1>3. CASE n \in C0
  <2>1. \A i \in C0 : i <= n <=> i <= n - 1 \/ i = n BY <1>1
  <2>2. \A i \in C0 : i <= n - 1 => n > i BY <1>1
  <2>3. \A i \in C0 : ~(n <= n - 1) /\ n <= n /\ ~(i > n /\ i <= n) BY <1>1
  <2>4. ASSUME NEW i
        PROVE  i \in Live(calls, n) <=>
                 \/ i \in Live(calls, n - 1) /\ calls[n].name # calls[i].name
                 \/ i = n /\ calls[n].op = "subscribe"
    <3>. HIDE DEF C0
    <3>1. CASE i \in C0 /\ i <= n - 1
      <4>1. i # n BY <2>3, <3>1
      <4>. QED BY <1>3, <2>1, <2>2, <3>1, <4>1 DEF Live, C0
    <3>2. CASE ~(i \in C0 /\ i <= n - 1)
      <4>1. i \notin Live(calls, n - 1) BY <3>2 DEF Live, C0
      <4>2. i \in Live(calls, n) => i = n BY <2>1, <3>2 DEF Live, C0
      <4>3. n \in Live(calls, n) <=> calls[n].op = "subscribe" BY <1>3, <2>3 DEF Live, C0
      <4>. QED BY <4>1, <4>2, <4>3
    <3>. QED BY <3>1, <3>2
  <2>5. \A i : AskedBy(calls[i]).name = calls[i].name BY DEF AskedBy
  <2>6. Asked(calls, n) = {s \in Asked(calls, n - 1) : s.name # calls[n].name} \union
                            (IF calls[n].op = "subscribe" THEN {AskedBy(calls[n])} ELSE {})
    <3>1. ASSUME NEW s
          PROVE  s \in Asked(calls, n) <=>
                   \/ s \in Asked(calls, n - 1) /\ s.name # calls[n].name
                   \/ calls[n].op = "subscribe" /\ s = AskedBy(calls[n])
      <4>1. ASSUME s \in Asked(calls, n)
            PROVE  \/ s \in Asked(calls, n - 1) /\ s.name # calls[n].name
                   \/ calls[n].op = "subscribe" /\ s = AskedBy(calls[n])
        <5>1. PICK i \in Live(calls, n) : s = AskedBy(calls[i]) BY <4>1 DEF Asked
        <5>2. s.name = calls[i].name BY <2>5, <5>1
        <5>. QED BY <2>4, <5>1, <5>2 DEF Asked
      <4>2. ASSUME s \in Asked(calls, n - 1), s.name # calls[n].name
            PROVE  s \in Asked(calls, n)
        <5>1. PICK i \in Live(calls, n - 1) : s = AskedBy(calls[i]) BY <4>2 DEF Asked
        <5>2. s.name = calls[i].name BY <2>5, <5>1
        <5>3. i \in Live(calls, n) BY <2>4, <4>2, <5>2
        <5>. QED BY <5>1, <5>3 DEF Asked
      <4>3. ASSUME calls[n].op = "subscribe" PROVE AskedBy(calls[n]) \in Asked(calls, n)
        BY <2>4, <4>3 DEF Asked
      <4>. QED BY <4>1, <4>2, <4>3
    <3>. QED BY <3>1
  <2>. QED BY <1>3, <2>6 DEF NextAsked
<1>. QED BY <1>2, <1>3

(* Subscribe and Unsubscribe: however many calls there are, tmux has the   *)
(* subscriptions of the last call about each name, and tells every value,  *)
(* not only those that the run tries, under the name it is of.             *)
THEOREM SubscriptionsCorrect ==
  \A calls \in Seq(SubscriptionCall) :
    /\ SubscribedAsCalled(calls)
    /\ \A sub \in Subscribed(calls), told \in Seq(Code) : ToldAsNamed(sub, told)
<1>. SUFFICES ASSUME NEW calls \in Seq(SubscriptionCall)
              PROVE  /\ SubscribedAsCalled(calls)
                     /\ \A sub \in Subscribed(calls), told \in Seq(Code) : ToldAsNamed(sub, told)
  OBVIOUS
<1>. DEFINE L == Len(calls)
            Next0(s, n) == IF n \notin Accepted(calls) THEN s
                           ELSE Refreshed(s, CHOOSE arg \in Argument(calls[n]) : TRUE)
            subs == CHOOSE s : s = [n \in 0..L |->
                      IF n = 0 THEN {} ELSE Next0(s[n - 1], n)]
<1>1. L \in Nat /\ \A n \in 1..L : calls[n] \in SubscriptionCall OBVIOUS
<1>2. Subscribed(calls) = subs[L]
  <2>1. subs = CHOOSE s : s = [n \in 0..Len(calls) |->
                 IF n = 0 THEN {}
                 ELSE IF n \notin Accepted(calls) THEN s[n - 1]
                 ELSE Refreshed(s[n - 1], CHOOSE arg \in Argument(calls[n]) : TRUE)]
    OBVIOUS
  <2>. QED BY <2>1, Zenon DEF Subscribed
<1>3. \A n \in 1..L : Next0(Asked(calls, n - 1), n) = Asked(calls, n)
  <2>. SUFFICES ASSUME NEW n \in 1..L PROVE Next0(Asked(calls, n - 1), n) = Asked(calls, n) OBVIOUS
  <2>. DEFINE old == Asked(calls, n - 1)
              arg == CHOOSE arg \in Argument(calls[n]) : TRUE
  <2>. HIDE DEF old
  <2>1. NextAsked(calls, n) BY AskedGrows
  <2>2. CASE n \notin Accepted(calls) BY <2>1, <2>2 DEF NextAsked, old
  <2>3. CASE n \in Accepted(calls)
    <3>1. arg \in Argument(calls[n]) BY <2>3 DEF Accepted
    <3>. HIDE DEF arg
    <3>2. Replaces(calls[n]) BY <1>1, CallReplaces
    <3>3. Refreshed(old, arg) =
            {s \in old : s.name # calls[n].name} \union
              (IF calls[n].op = "subscribe" THEN {AskedBy(calls[n])} ELSE {})
      BY <3>1, <3>2 DEF Replaces
    <3>. QED BY <2>1, <2>3, <3>3 DEF NextAsked, old, arg
  <2>. QED BY <2>2, <2>3
<1>4. Asked(calls, 0) = {}
  <2>1. \A i \in Accepted(calls) : ~(i <= 0) BY DEF Accepted
  <2>2. Live(calls, 0) = {} BY <2>1 DEF Live
  <2>. QED BY <2>2 DEF Asked
<1>. HIDE DEF Next0, L
<1>5. subs = [n \in 0..L |-> IF n = 0 THEN {} ELSE Next0(subs[n - 1], n)]
  <2>. DEFINE u == [n \in 0..L |-> Asked(calls, n)]
  <2>1. \A n \in 0..L : u[n] = IF n = 0 THEN {} ELSE Next0(u[n - 1], n)
    <3>. SUFFICES ASSUME NEW n \in 0..L, n # 0 PROVE u[n] = Next0(u[n - 1], n) BY <1>4
    <3>1. n \in 1..L /\ n - 1 \in 0..L BY <1>1
    <3>. QED BY <1>3, <3>1
  <2>2. u = [n \in 0..L |-> u[n]] OBVIOUS
  <2>. HIDE DEF u
  <2>3. u = [n \in 0..L |-> IF n = 0 THEN {} ELSE Next0(u[n - 1], n)] BY <2>1, <2>2, Zenon
  <2>. QED BY <2>3, Zenon
<1>. HIDE DEF subs
<1>6. subs[0] = {} /\ \A n \in 1..L : subs[n] = Next0(subs[n - 1], n)
  <2>1. \A n \in 0..L : subs[n] = IF n = 0 THEN {} ELSE Next0(subs[n - 1], n) BY <1>5, Zenon
  <2>2. L \in Nat /\ 0 \in 0..L /\ \A n \in 1..L : n \in 0..L /\ n # 0 BY <1>1
  <2>. QED BY <2>1, <2>2
<1>7. subs[L] = Asked(calls, L)
  <2>. DEFINE T == {n \in 0..L : subs[n] = Asked(calls, n)}
  <2>1. 0 \in T
    <3>1. 0 \in 0..L BY <1>1
    <3>. QED BY <1>4, <1>6, <3>1
  <2>2. \A n \in 1..L : n - 1 \in T => n \in T
    <3>1. \A n \in 1..L : n \in 0..L OBVIOUS
    <3>. QED BY <1>3, <1>6, <3>1
  <2>3. 0..L \subseteq T
    <3>. HIDE DEF T
    <3>. QED BY <1>1, <2>1, <2>2, UpTo
  <2>. QED BY <1>1, <2>3
<1>8. \A i \in Accepted(calls) : i <= L BY DEF Accepted, L
<1>9. Subscribed(calls) =
        {[name |-> calls[i].name, target |-> calls[i].target, format |-> calls[i].format] :
           i \in {j \in {i \in Accepted(calls) :
                           \A k \in Accepted(calls) : k > i => calls[k].name # calls[i].name} :
                    calls[j].op = "subscribe"}}
  BY <1>2, <1>7, <1>8 DEF Asked, AskedBy, Live
<1>10. ASSUME NEW sub \in Subscribed(calls), NEW told \in Seq(Code)
       PROVE  ToldAsNamed(sub, told)
  <2>1. PICK i \in Live(calls, L) : sub = AskedBy(calls[i]) BY <1>2, <1>7 DEF Asked
  <2>2. calls[i].op = "subscribe" /\ Argument(calls[i]) # {} /\ calls[i] \in SubscriptionCall
    BY <1>1, <2>1 DEF Live, Accepted, L
  <2>3. checkSubscribeName(calls[i].name) /\ calls[i].name \in Seq(Code)
    BY <2>2 DEF Argument, Subscribe, SubscriptionCall
  <2>4. sub.name = calls[i].name BY <2>1 DEF AskedBy
  <2>. QED BY <2>3, <2>4, ValueIsTold
<1>11. ToldValues \subseteq Seq(Code) BY DEF ToldValues, Code, Newline
<1>. QED BY <1>9, <1>10, <1>11 DEF SubscribedAsCalled

-----------------------------------------------------------------------------
(* Pauses *)

(* The seconds are the fewest that are not less than the time, but for the *)
(* longest pause there is.                                                 *)
LEMMA PausesCorrect == \A d \in Int : PausedAsAsked(d)
<1>. SUFFICES ASSUME NEW d \in Int PROVE PausedAsAsked(d) OBVIOUS
<1>. DEFINE w == d \div Second
            r == d % Second
            secs == IF r # 0 \/ w = 0 THEN w + 1 ELSE w
<1>0. Second \in Nat \ {0} /\ MaxInt32 \in Nat \ {0} BY PauseAssumption
<1>1. CASE d <= 0
  <2>1. PauseAfter(d) = {} BY <1>1 DEF PauseAfter
  <2>. QED BY <1>1, <2>1 DEF PausedAsAsked
<1>2. CASE d > 0
  <2>1. w \in Int /\ r \in Int /\ d = Second * w + r /\ 0 <= r /\ r < Second BY <1>0
  <2>. HIDE DEF w, r
  <2>2. w >= 0
    <3>1. w <= -1 => Second * w <= -Second BY <1>0, <2>1
    <3>. QED BY <1>0, <1>2, <2>1, <3>1
  <2>3. PauseAfter(d) = {IF secs > MaxInt32 THEN MaxInt32 ELSE secs}
    <3>1. ~(d <= 0) BY <1>2
    <3>. QED BY <3>1 DEF PauseAfter, w, r
  <2>4. secs \in Nat BY <2>1, <2>2
  <2>5. Second * secs >= d /\ Second * (secs - 1) < d
    <3>1. Second * (w + 1) = Second * w + Second BY <1>0, <2>1
    <3>2. Second * (w - 1) = Second * w - Second BY <1>0, <2>1
    <3>3. CASE r # 0 \/ w = 0
      <4>1. secs = w + 1 /\ secs - 1 = w BY <2>1, <3>3
      <4>2. Second * w < d
        <5>1. w = 0 => Second * w = 0 BY <1>0
        <5>. QED BY <1>0, <1>2, <2>1, <3>3, <5>1
      <4>. QED BY <1>0, <2>1, <3>1, <4>1, <4>2
    <3>4. CASE ~(r # 0 \/ w = 0)
      <4>1. secs = w BY <3>4
      <4>. QED BY <1>0, <2>1, <3>2, <3>4, <4>1
    <3>. QED BY <3>3, <3>4
  <2>6. secs > MaxInt32 => d >= Second * MaxInt32
    <3>. SUFFICES ASSUME secs > MaxInt32 PROVE d >= Second * MaxInt32 OBVIOUS
    <3>1. w >= MaxInt32 BY <1>0, <2>1
    <3>2. Second * (w - MaxInt32) >= 0 BY <1>0, <2>1, <3>1
    <3>3. Second * w >= Second * MaxInt32 BY <1>0, <2>1, <3>2
    <3>. QED BY <1>0, <2>1, <3>3
  <2>. HIDE DEF secs
  <2>7. PauseAfter(d) # {} BY <2>3
  <2>. QED BY <1>0, <1>2, <2>3, <2>4, <2>5, <2>6, <2>7 DEF PausedAsAsked
<1>. QED BY <1>1, <1>2

-----------------------------------------------------------------------------
(* Configuration *)

(* The provers do not know of any literal that it is a string.             *)
Strings == STRING \union {"", "tmux", "s", "c", "E=1", "$0", "work"}

Option ==
  [with : {"WithBinary", "WithSocketPath", "WithSocketName", "WithAttach"}, given : Strings]
    \union [with : {"WithoutParentEnv", "WithoutVersionCheck", "WithDoubleControlMode"},
            given : Strings]
    \union [with : {"WithEventBuffer", "WithOutputBuffer", "WithCloseTimeout"}, given : Int]
    \union [with : {"WithEnv", "WithControlArgs"}, given : Seq(Strings)]

Config ==
  [binary : Strings \ {""}, socketPath : Strings, socketName : Strings, env : Seq(Strings),
   inheritEnv : BOOLEAN, controlArgs : Seq(Strings), attach : Strings, eventBuffer : Nat \ {0},
   outputBuffer : Nat \ {0}, closeTimeout : Nat \ {0}, skipVersionCk : BOOLEAN,
   doubleControl : BOOLEAN]

(* What a configuration has for a constructor's argument.                  *)
Overridden == {"WithSocketPath", "WithSocketName", "WithControlArgs", "WithAttach"}
FieldOf(c, name) ==
  CASE name = "WithSocketPath" -> c.socketPath
    [] name = "WithSocketName" -> c.socketName
    [] name = "WithControlArgs" -> c.controlArgs
    [] name = "WithAttach" -> c.attach

(* What one option does to a configuration.                                *)
Applies(c, opt) ==
  LET d == C!Apply(c, opt)
  IN /\ d \in Config
     /\ \A name \in Overridden :
          FieldOf(d, name) = IF opt.with = name THEN opt.given ELSE FieldOf(c, name)
     /\ d.env = IF opt.with = "WithEnv" THEN c.env \o opt.given ELSE c.env
     /\ d.inheritEnv = (c.inheritEnv /\ opt.with # "WithoutParentEnv")
     /\ d.skipVersionCk = (c.skipVersionCk \/ opt.with = "WithoutVersionCheck")
     /\ d.doubleControl = (c.doubleControl \/ opt.with = "WithDoubleControlMode")

(* A size that makes no sense is ignored.                                  *)
LEMMA PositiveStays ==
  ASSUME NEW n \in Int, NEW m \in Nat \ {0}
  PROVE  C!Positive(n, m) \in Nat \ {0}
BY DEF C!Positive

(* Of every option, whatever its argument.                                 *)
LEMMA OptionApplies ==
  ASSUME NEW c \in Config, NEW opt \in Option
  PROVE  Applies(c, opt)
<1>. DEFINE d == C!Apply(c, opt)
<1>. USE DEF Config, Overridden, FieldOf
<1>0. opt.with \in {"WithBinary", "WithSocketPath", "WithSocketName", "WithAttach",
        "WithoutParentEnv", "WithoutVersionCheck", "WithDoubleControlMode",
        "WithEventBuffer", "WithOutputBuffer", "WithCloseTimeout", "WithEnv", "WithControlArgs"}
  BY DEF Option
<1>1. CASE opt.with = "WithSocketPath"
  <2>1. d = [c EXCEPT !.socketPath = opt.given] /\ opt.given \in Strings BY <1>1 DEF Option, C!Apply
  <2>. HIDE DEF d
  <2>. QED BY <1>1, <2>1 DEF Applies, d
<1>2. CASE opt.with = "WithSocketName"
  <2>1. d = [c EXCEPT !.socketName = opt.given] /\ opt.given \in Strings
    BY <1>2 DEF Option, C!Apply
  <2>. HIDE DEF d
  <2>. QED BY <1>2, <2>1 DEF Applies, d
<1>3. CASE opt.with = "WithAttach"
  <2>1. d = [c EXCEPT !.attach = opt.given] /\ opt.given \in Strings
    BY <1>3 DEF Option, C!Apply
  <2>. HIDE DEF d
  <2>. QED BY <1>3, <2>1 DEF Applies, d
<1>4. CASE opt.with = "WithControlArgs"
  <2>1. d = [c EXCEPT !.controlArgs = opt.given] /\ opt.given \in Seq(Strings)
    BY <1>4 DEF Option, C!Apply
  <2>. HIDE DEF d
  <2>. QED BY <1>4, <2>1 DEF Applies, d
<1>5. CASE opt.with = "WithEnv"
  <2>1. d = [c EXCEPT !.env = @ \o opt.given] /\ opt.given \in Seq(Strings)
    BY <1>5 DEF Option, C!Apply
  <2>. DEFINE e == c.env \o opt.given
  <2>2. e \in Seq(Strings) BY <2>1, ConcatProperties
  <2>. HIDE DEF d, e
  <2>3. d = [c EXCEPT !.env = e] BY <2>1 DEF e
  <2>4. c.env \o opt.given = e BY DEF e
  <2>. QED BY <1>5, <2>2, <2>3, <2>4 DEF Applies, d
<1>6. CASE opt.with = "WithoutParentEnv"
  <2>1. d = [c EXCEPT !.inheritEnv = FALSE]
    BY <1>6 DEF Option, C!Apply
  <2>. HIDE DEF d
  <2>. QED BY <1>6, <2>1 DEF Applies, d
<1>7. CASE opt.with = "WithoutVersionCheck"
  <2>1. d = [c EXCEPT !.skipVersionCk = TRUE]
    BY <1>7 DEF Option, C!Apply
  <2>. HIDE DEF d
  <2>. QED BY <1>7, <2>1 DEF Applies, d
<1>8. CASE opt.with = "WithDoubleControlMode"
  <2>1. d = [c EXCEPT !.doubleControl = TRUE]
    BY <1>8 DEF Option, C!Apply
  <2>. HIDE DEF d
  <2>. QED BY <1>8, <2>1 DEF Applies, d
<1>9. CASE opt.with = "WithBinary"
  <2>1. d = [c EXCEPT !.binary = IF opt.given # "" THEN opt.given ELSE @] /\ opt.given \in Strings
    BY <1>9 DEF Option, C!Apply, C!Unset
  <2>. HIDE DEF d
  <2>. QED BY <1>9, <2>1 DEF Applies, d
<1>10. CASE opt.with = "WithEventBuffer"
  <2>1. d = [c EXCEPT !.eventBuffer = C!Positive(opt.given, @)] /\ opt.given \in Int
    BY <1>10 DEF Option, C!Apply
  <2>. DEFINE e == C!Positive(opt.given, c.eventBuffer)
  <2>2. d = [c EXCEPT !.eventBuffer = e] BY <2>1
  <2>. HIDE DEF d, e
  <2>3. c.eventBuffer \in Nat \ {0} /\ opt.given \in Int BY <2>1
  <2>4. e \in Nat \ {0} BY ONLY <2>3, PositiveStays DEF e
  <2>. QED BY <1>10, <2>2, <2>4 DEF Applies, d
<1>11. CASE opt.with = "WithOutputBuffer"
  <2>1. d = [c EXCEPT !.outputBuffer = C!Positive(opt.given, @)] /\ opt.given \in Int
    BY <1>11 DEF Option, C!Apply
  <2>. DEFINE e == C!Positive(opt.given, c.outputBuffer)
  <2>2. d = [c EXCEPT !.outputBuffer = e] BY <2>1
  <2>. HIDE DEF d, e
  <2>3. c.outputBuffer \in Nat \ {0} /\ opt.given \in Int BY <2>1
  <2>4. e \in Nat \ {0} BY ONLY <2>3, PositiveStays DEF e
  <2>. QED BY <1>11, <2>2, <2>4 DEF Applies, d
<1>12. CASE opt.with = "WithCloseTimeout"
  <2>1. d = [c EXCEPT !.closeTimeout = C!Positive(opt.given, @)] /\ opt.given \in Int
    BY <1>12 DEF Option, C!Apply
  <2>. DEFINE e == C!Positive(opt.given, c.closeTimeout)
  <2>2. d = [c EXCEPT !.closeTimeout = e] BY <2>1
  <2>. HIDE DEF d, e
  <2>3. c.closeTimeout \in Nat \ {0} /\ opt.given \in Int BY <2>1
  <2>4. e \in Nat \ {0} BY ONLY <2>3, PositiveStays DEF e
  <2>. QED BY <1>12, <2>2, <2>4 DEF Applies, d
<1>. QED
  BY <1>0, <1>1, <1>2, <1>3, <1>4, <1>5, <1>6, <1>7, <1>8, <1>9, <1>10, <1>11, <1>12

(* The entries that the first n options bring.                             *)
EntriesOf(opt) == IF opt.with = "WithEnv" THEN opt.given ELSE <<>>
EntriesUpTo(opts, n) == FlattenSeq([i \in 1..n |-> EntriesOf(opts[i])])

EntriesTo(opts, n) ==
  /\ EntriesUpTo(opts, n) \in Seq(Strings)
  /\ EntriesUpTo(opts, n) =
       IF opts[n].with = "WithEnv" THEN EntriesUpTo(opts, n - 1) \o opts[n].given
       ELSE EntriesUpTo(opts, n - 1)

(* One option more.                                                        *)
LEMMA EntriesGrow ==
  ASSUME NEW opts \in Seq(Option), NEW n \in 1..Len(opts)
  PROVE  EntriesTo(opts, n)
<1>. DEFINE e == EntriesOf(opts[n])
            s == [i \in 1..(n - 1) |-> EntriesOf(opts[i])]
            t == [i \in 1..n |-> EntriesOf(opts[i])]
<1>1. \A i \in 1..Len(opts) : EntriesOf(opts[i]) \in Seq(Strings)
  <2>1. ASSUME NEW o \in Option PROVE EntriesOf(o) \in Seq(Strings)
    <3>1. o.with = "WithEnv" => o.given \in Seq(Strings) BY DEF Option
    <3>2. <<>> \in Seq(Strings) OBVIOUS
    <3>. QED BY <3>1, <3>2 DEF EntriesOf
  <2>. QED BY <2>1
<1>2. s \in Seq(Seq(Strings)) /\ t \in Seq(Seq(Strings)) /\ e \in Seq(Strings)
      /\ Len(s) = n - 1 /\ Len(t) = n /\ t[n] = e /\ \A i \in 1..(n - 1) : t[i] = s[i]
  BY <1>1
<1>. HIDE DEF s, t, e
<1>3. t = Append(s, e)
  <2>1. Append(s, e) \in Seq(Seq(Strings)) /\ Len(Append(s, e)) = n
        /\ Append(s, e)[n] = e /\ \A i \in 1..(n - 1) : Append(s, e)[i] = s[i]
    BY <1>2, AppendProperties
  <2>. DEFINE a == Append(s, e)
  <2>2. a = Append(s, e) OBVIOUS
  <2>. HIDE DEF a
  <2>3. \A i \in 1..n : t[i] = a[i] BY <1>2, <2>1, <2>2
  <2>. QED BY <1>2, <2>1, <2>2, <2>3, SeqEqual
<1>4. FlattenSeq(t) = FlattenSeq(s) \o e /\ FlattenSeq(s) \in Seq(Strings) /\ FlattenSeq(t) \in Seq(Strings)
  BY <1>2, <1>3, FlattenAppend
<1>5. FlattenSeq(s) \o <<>> = FlattenSeq(s) BY <1>4
<1>. QED BY <1>4, <1>5 DEF EntriesTo, EntriesUpTo, EntriesOf, s, t, e

(* v is the argument of the last option that one constructor made, of the  *)
(* first n, or else none.                                                  *)
MadeUpTo(opts, name, n) == {i \in MadeBy(opts, name) : i <= n}
IsLast(opts, name, n, none, v) ==
  \/ MadeUpTo(opts, name, n) = {} /\ v = none
  \/ \E i \in MadeUpTo(opts, name, n) :
       v = opts[i].given /\ \A j \in MadeUpTo(opts, name, n) : j <= i

(* One option more is the last of its kind.                                *)
LEMMA LastGrows ==
  ASSUME NEW opts \in Seq(Option), NEW n \in 1..Len(opts), NEW name, NEW none, NEW v,
         IsLast(opts, name, n - 1, none, v)
  PROVE  IsLast(opts, name, n, none, IF opts[n].with = name THEN opts[n].given ELSE v)
<1>1. \A i \in MadeBy(opts, name) : i \in Nat BY DEF MadeBy
<1>2. CASE opts[n].with = name
  <2>1. n \in MadeUpTo(opts, name, n) BY <1>2 DEF MadeBy, MadeUpTo
  <2>2. \A j \in MadeUpTo(opts, name, n) : j <= n BY DEF MadeUpTo
  <2>. QED BY <1>2, <2>1, <2>2 DEF IsLast
<1>3. CASE opts[n].with # name
  <2>1. MadeUpTo(opts, name, n) = MadeUpTo(opts, name, n - 1)
    <3>1. n \notin MadeBy(opts, name) BY <1>3 DEF MadeBy
    <3>2. \A i \in MadeBy(opts, name) : i <= n <=> i <= n - 1 BY <1>1, <3>1
    <3>. QED BY <3>2 DEF MadeUpTo
  <2>. QED BY <1>3, <2>1 DEF IsLast
<1>. QED BY <1>2, <1>3

(* There is one such, and LastOf is it.                                    *)
LEMMA LastIsLastOf ==
  ASSUME NEW opts \in Seq(Option), NEW name, NEW none, NEW v,
         IsLast(opts, name, Len(opts), none, v)
  PROVE  v = LastOf(opts, name, none)
<1>. DEFINE M == MadeBy(opts, name)
            Latest(i) == i \in M /\ \A j \in M : j <= i
<1>1. MadeUpTo(opts, name, Len(opts)) = M BY DEF MadeUpTo, MadeBy
<1>2. M \subseteq Nat BY DEF MadeBy
<1>. HIDE DEF M
<1>3. CASE M = {} BY <1>1, <1>3 DEF IsLast, LastOf, M
<1>4. CASE M # {}
  <2>1. PICK i \in M : v = opts[i].given /\ \A j \in M : j <= i BY <1>1, <1>4 DEF IsLast
  <2>. DEFINE k == CHOOSE i0 \in M : \A j \in M : j <= i0
  <2>2. k \in M /\ \A j \in M : j <= k BY <2>1
  <2>. HIDE DEF k
  <2>3. k = i BY <1>2, <2>1, <2>2
  <2>4. LastOf(opts, name, none) = opts[k].given BY <1>4 DEF LastOf, M, k
  <2>. QED BY <2>1, <2>3, <2>4
<1>. QED BY <1>3, <1>4

(* The configuration after n options.                                      *)
Holds(opts, n, c) ==
  /\ c \in Config
  /\ \A name \in Overridden :
       IsLast(opts, name, n, IF name = "WithControlArgs" THEN <<>> ELSE "", FieldOf(c, name))
  /\ c.env = EntriesUpTo(opts, n)
  /\ c.inheritEnv <=> MadeUpTo(opts, "WithoutParentEnv", n) = {}
  /\ c.skipVersionCk <=> MadeUpTo(opts, "WithoutVersionCheck", n) # {}
  /\ c.doubleControl <=> MadeUpTo(opts, "WithDoubleControlMode", n) # {}

(* One option more was made by its own constructor.                        *)
LEMMA MadeGrows ==
  ASSUME NEW opts \in Seq(Option), NEW n \in 1..Len(opts), NEW name
  PROVE  MadeUpTo(opts, name, n) = {}
           <=> MadeUpTo(opts, name, n - 1) = {} /\ opts[n].with # name
<1>1. \A i \in MadeBy(opts, name) : i \in Nat BY DEF MadeBy
<1>2. n \in MadeBy(opts, name) <=> opts[n].with = name BY DEF MadeBy
<1>3. \A i \in MadeBy(opts, name) : i <= n <=> i <= n - 1 \/ i = n BY <1>1
<1>. QED BY <1>2, <1>3 DEF MadeUpTo

(* An option keeps the configuration what the options so far ask for.      *)
LEMMA NextHolds ==
  ASSUME NEW opts \in Seq(Option), NEW n \in 1..Len(opts), NEW c, Holds(opts, n - 1, c)
  PROVE  Holds(opts, n, C!Apply(c, opts[n]))
<1>. DEFINE d == C!Apply(c, opts[n])
<1>0. opts[n] \in Option OBVIOUS
<1>1. c \in Config /\ opts[n] \in Option BY <1>0 DEF Holds
<1>2. Applies(c, opts[n]) BY <1>1, OptionApplies
<1>3. /\ d \in Config
      /\ \A name \in Overridden :
           FieldOf(d, name) = IF opts[n].with = name THEN opts[n].given ELSE FieldOf(c, name)
      /\ d.env = IF opts[n].with = "WithEnv" THEN c.env \o opts[n].given ELSE c.env
      /\ d.inheritEnv = (c.inheritEnv /\ opts[n].with # "WithoutParentEnv")
      /\ d.skipVersionCk = (c.skipVersionCk \/ opts[n].with = "WithoutVersionCheck")
      /\ d.doubleControl = (c.doubleControl \/ opts[n].with = "WithDoubleControlMode")
  BY <1>2 DEF Applies
<1>. HIDE DEF d
<1>4. ASSUME NEW name \in Overridden
      PROVE  IsLast(opts, name, n, IF name = "WithControlArgs" THEN <<>> ELSE "", FieldOf(d, name))
  <2>. DEFINE none == IF name = "WithControlArgs" THEN <<>> ELSE ""
              v == FieldOf(c, name)
  <2>1. IsLast(opts, name, n - 1, none, v) BY DEF Holds
  <2>2. FieldOf(d, name) = IF opts[n].with = name THEN opts[n].given ELSE v BY <1>3
  <2>. HIDE DEF none, v
  <2>3. IsLast(opts, name, n, none, IF opts[n].with = name THEN opts[n].given ELSE v)
    BY <2>1, LastGrows
  <2>4. IsLast(opts, name, n, none, FieldOf(d, name)) BY <2>2, <2>3, Zenon
  <2>. QED BY <2>4 DEF none
<1>5. d.env = EntriesUpTo(opts, n)
  <2>1. EntriesTo(opts, n) BY EntriesGrow
  <2>2. c.env = EntriesUpTo(opts, n - 1) BY DEF Holds
  <2>. QED BY <1>3, <2>1, <2>2, Zenon DEF EntriesTo
<1>6. d.inheritEnv <=> MadeUpTo(opts, "WithoutParentEnv", n) = {}
  <2>1. c.inheritEnv <=> MadeUpTo(opts, "WithoutParentEnv", n - 1) = {} BY DEF Holds
  <2>2. MadeUpTo(opts, "WithoutParentEnv", n) = {}
          <=> MadeUpTo(opts, "WithoutParentEnv", n - 1) = {} /\ opts[n].with # "WithoutParentEnv"
    BY MadeGrows
  <2>. QED BY <1>3, <2>1, <2>2, Zenon
<1>7. d.skipVersionCk <=> MadeUpTo(opts, "WithoutVersionCheck", n) # {}
  <2>1. c.skipVersionCk <=> MadeUpTo(opts, "WithoutVersionCheck", n - 1) # {} BY DEF Holds
  <2>2. MadeUpTo(opts, "WithoutVersionCheck", n) = {}
          <=> MadeUpTo(opts, "WithoutVersionCheck", n - 1) = {} /\ opts[n].with # "WithoutVersionCheck"
    BY MadeGrows
  <2>. QED BY <1>3, <2>1, <2>2, Zenon
<1>8. d.doubleControl <=> MadeUpTo(opts, "WithDoubleControlMode", n) # {}
  <2>1. c.doubleControl <=> MadeUpTo(opts, "WithDoubleControlMode", n - 1) # {} BY DEF Holds
  <2>2. MadeUpTo(opts, "WithDoubleControlMode", n) = {}
          <=> MadeUpTo(opts, "WithDoubleControlMode", n - 1) = {} /\ opts[n].with # "WithDoubleControlMode"
    BY MadeGrows
  <2>. QED BY <1>3, <2>1, <2>2, Zenon
<1>. QED BY <1>3, <1>4, <1>5, <1>6, <1>7, <1>8 DEF Holds, d

(* And the defaults are what no options ask for.                           *)
LEMMA NoneHolds ==
  ASSUME NEW opts \in Seq(Option)
  PROVE  Holds(opts, 0, C!defaults)
<1>. DEFINE c == C!defaults
<1>1. c = [binary |-> "tmux", socketPath |-> "", socketName |-> "",
           env |-> <<>>, inheritEnv |-> TRUE, controlArgs |-> <<>>, attach |-> "",
           eventBuffer |-> 256, outputBuffer |-> 64, closeTimeout |-> 5,
           skipVersionCk |-> FALSE, doubleControl |-> FALSE]
  BY DEF C!defaults, C!Unset
<1>. HIDE DEF c
<1>2. \A name : MadeUpTo(opts, name, 0) = {} BY DEF MadeUpTo, MadeBy
<1>3. c \in Config
  <2>1. <<>> \in Seq(Strings) OBVIOUS
  <2>2. "tmux" \in Strings /\ "" \in Strings BY DEF Strings
  <2>3. "tmux" # "" OBVIOUS
  <2>4. 5 \in Nat \ {0} /\ 64 \in Nat \ {0} /\ 256 \in Nat \ {0} OBVIOUS
  <2>. QED BY <1>1, <2>1, <2>2, <2>3, <2>4 DEF Config
<1>4. EntriesUpTo(opts, 0) = <<>>
  <2>1. [i \in 1..0 |-> EntriesOf(opts[i])] = <<>> OBVIOUS
  <2>2. FlattenSeq(<<>>) = <<>> BY DEF FlattenSeq
  <2>. QED BY <2>1, <2>2 DEF EntriesUpTo
<1>5. \A name \in Overridden : FieldOf(c, name) = IF name = "WithControlArgs" THEN <<>> ELSE ""
  BY <1>1 DEF Overridden, FieldOf
<1>. QED BY <1>1, <1>2, <1>3, <1>4, <1>5 DEF Holds, IsLast, c

(* After all of them.                                                      *)
LEMMA ConfigHolds ==
  ASSUME NEW opts \in Seq(Option)
  PROVE  Holds(opts, Len(opts), C!newConfig(opts))
<1>. DEFINE L == Len(opts)
            step == [c \in Config |-> [o \in Option |-> C!Apply(c, o)]]
            config == CHOOSE f : f =
                        [n \in 0..L |-> IF n = 0 THEN C!defaults ELSE C!Apply(f[n - 1], opts[n])]
<1>1. L \in Nat /\ \A n \in 1..L : opts[n] \in Option OBVIOUS
<1>2. step \in [Config -> [Option -> Config]]
  <2>1. \A c \in Config, o \in Option : C!Apply(c, o) \in Config BY OptionApplies DEF Applies
  <2>. QED BY <2>1
<1>3. \A c \in Config, o \in Option : step[c][o] = C!Apply(c, o) OBVIOUS
<1>4. C!newConfig(opts) = config[L]
  <2>1. config = CHOOSE f : f =
          [n \in 0..Len(opts) |-> IF n = 0 THEN C!defaults ELSE C!Apply(f[n - 1], opts[n])]
    OBVIOUS
  <2>. QED BY <2>1, Zenon DEF C!newConfig
<1>5. Holds(opts, 0, C!defaults) BY NoneHolds
<1>6. C!defaults \in Config BY <1>5 DEF Holds
<1>. HIDE DEF step, L
<1>7. config = [n \in 0..L |-> IF n = 0 THEN C!defaults ELSE C!Apply(config[n - 1], opts[n])]
  <2>1. Passes(Config, C!defaults, step, opts) BY <1>2, <1>6, PassesAlways
  <2>2. PICK u : /\ u = [n \in 0..L |-> u[n]] /\ \A n \in 0..L : u[n] \in Config
                 /\ u[0] = C!defaults /\ \A n \in 1..L : u[n] = step[u[n - 1]][opts[n]]
    BY <2>1 DEF Passes, L
  <2>3. \A n \in 0..L : u[n] = IF n = 0 THEN C!defaults ELSE C!Apply(u[n - 1], opts[n])
    <3>. SUFFICES ASSUME NEW n \in 0..L, n # 0 PROVE u[n] = C!Apply(u[n - 1], opts[n]) BY <2>2
    <3>1. n \in 1..L /\ n - 1 \in 0..L BY <1>1
    <3>2. u[n - 1] \in Config /\ opts[n] \in Option BY <1>1, <2>2, <3>1
    <3>3. u[n] = step[u[n - 1]][opts[n]] BY <2>2, <3>1
    <3>. QED BY <1>3, <3>2, <3>3, Zenon
  <2>4. u = [n \in 0..L |-> IF n = 0 THEN C!defaults ELSE C!Apply(u[n - 1], opts[n])]
    BY <2>2, <2>3, Zenon
  <2>. QED BY <2>4, Zenon
<1>. HIDE DEF config
<1>8. config[0] = C!defaults /\ \A n \in 1..L : config[n] = C!Apply(config[n - 1], opts[n])
  <2>1. \A n \in 0..L : config[n] = IF n = 0 THEN C!defaults ELSE C!Apply(config[n - 1], opts[n])
    BY <1>7, Zenon
  <2>2. L \in Nat /\ 0 \in 0..L /\ \A n \in 1..L : n \in 0..L /\ n # 0 BY <1>1
  <2>. QED BY <2>1, <2>2
<1>9. Holds(opts, L, config[L])
  <2>. DEFINE T == {n \in 0..L : Holds(opts, n, config[n])}
  <2>1. 0 \in T
    <3>1. 0 \in 0..L BY <1>1
    <3>. QED BY <1>5, <1>8, <3>1
  <2>2. ASSUME NEW n \in 1..L, n - 1 \in T PROVE n \in T
    <3>1. n \in 0..L /\ n \in 1..Len(opts) BY DEF L
    <3>2. Holds(opts, n - 1, config[n - 1]) BY <2>2
    <3>3. Holds(opts, n, C!Apply(config[n - 1], opts[n])) BY <3>1, <3>2, NextHolds
    <3>. QED BY <1>8, <3>1, <3>3
  <2>3. 0..L \subseteq T
    <3>. HIDE DEF T
    <3>. QED BY <1>1, <2>1, <2>2, UpTo
  <2>. QED BY <1>1, <2>3
<1>. QED BY <1>4, <1>9 DEF L

(* However many Options there are, and in whatever order: a connection and *)
(* a client run the same program, with the server, the environment and the *)
(* command that the last of them ask for.                                  *)
THEOREM OptionsCorrect == \A opts \in Seq(Option) : OptionsAsAsked(opts)
<1>. SUFFICES ASSUME NEW opts \in Seq(Option) PROVE OptionsAsAsked(opts) OBVIOUS
<1>. DEFINE c == C!newConfig(opts)
            Given(name) == MadeBy(opts, name) # {}
            L == Len(opts)
<1>1. Holds(opts, L, c) BY ConfigHolds
<1>. HIDE DEF c
<1>2. \A name : MadeUpTo(opts, name, L) = MadeBy(opts, name) BY DEF MadeUpTo, MadeBy
<1>3. c \in Config BY <1>1 DEF Holds
<1>4. ASSUME NEW name \in Overridden
      PROVE  FieldOf(c, name) = LastOf(opts, name, IF name = "WithControlArgs" THEN <<>> ELSE "")
  <2>. DEFINE none == IF name = "WithControlArgs" THEN <<>> ELSE ""
              v == FieldOf(c, name)
  <2>1. IsLast(opts, name, L, none, v) BY <1>1 DEF Holds
  <2>. HIDE DEF none, v
  <2>2. v = LastOf(opts, name, none) BY <2>1, LastIsLastOf
  <2>. QED BY <2>2 DEF none, v
<1>5. /\ c.socketPath = LastOf(opts, "WithSocketPath", "")
      /\ c.socketName = LastOf(opts, "WithSocketName", "")
      /\ c.controlArgs = LastOf(opts, "WithControlArgs", <<>>)
      /\ c.attach = LastOf(opts, "WithAttach", "")
  BY <1>4 DEF Overridden, FieldOf
<1>6. c.env = Entries(opts)
  <2>1. c.env = EntriesUpTo(opts, L) BY <1>1 DEF Holds
  <2>. QED BY <2>1 DEF EntriesUpTo, EntriesOf, Entries
<1>7. /\ c.inheritEnv <=> ~Given("WithoutParentEnv")
      /\ c.skipVersionCk <=> Given("WithoutVersionCheck")
      /\ c.doubleControl <=> Given("WithDoubleControlMode")
  BY <1>1, <1>2 DEF Holds
<1>. DEFINE env == (IF Given("WithoutParentEnv") THEN <<>> ELSE <<"P=1">>) \o Entries(opts)
            server == IF c.socketPath # "" THEN <<"-S", c.socketPath>>
                      ELSE IF c.socketName # "" THEN <<"-L", c.socketName>> ELSE <<>>
            flag == IF Given("WithDoubleControlMode") THEN "-CC" ELSE "-C"
            attaches == c.controlArgs = <<>> /\ c.attach # ""
            command == IF attaches THEN <<"attach-session", "-t", c.attach>>
                       ELSE IF c.controlArgs # <<>> THEN c.controlArgs ELSE <<"new-session">>
<1>8. C!globalArgs(c) = server BY DEF C!globalArgs, C!Unset
<1>9. C!Environment(C!environ(c)) = env
  <2>1. c.env \in Seq(Strings) /\ c.inheritEnv \in BOOLEAN BY <1>3 DEF Config
  <2>2. <<>> \o c.env = c.env BY <2>1
  <2>3. <<"P=1">> \o <<>> = <<"P=1">>
    <3>1. <<"P=1">> \in Seq({"P=1"}) OBVIOUS
    <3>. QED BY <3>1
  <2>4. CASE ~c.inheritEnv
    BY <1>6, <1>7, <2>2, <2>4 DEF C!environ, C!Environment, C!Slice
  <2>5. CASE c.inheritEnv /\ c.env = <<>>
    BY <1>6, <1>7, <2>3, <2>5 DEF C!environ, C!Environment, C!NilSlice
  <2>6. CASE c.inheritEnv /\ c.env # <<>>
    BY <1>6, <1>7, <2>6 DEF C!environ, C!Environment, C!Slice
  <2>. QED BY <2>1, <2>4, <2>5, <2>6
<1>10. C!attachTarget(c) = IF attaches THEN c.attach ELSE ""
  BY DEF C!attachTarget, C!Unset
<1>11. C!controlCommand(c) = command
  BY <1>10 DEF C!controlCommand, C!Unset
<1>12. C!controlFlag(c) = flag BY <1>7 DEF C!controlFlag
<1>13. C!Run(opts, <<"-V">>).args = server \o <<"-V">> /\ C!Run(opts, <<"-V">>).binary = c.binary
       /\ C!Environment(C!Run(opts, <<"-V">>).env) = env
  BY <1>8, <1>9 DEF C!Run, C!argv, c
<1>14. ASSUME NEW oldTmux \in BOOLEAN
       PROVE  LET connection == C!Connect(opts, oldTmux)
              IN /\ connection.is = "ErrInvalidID" <=> attaches /\ c.attach # "$0"
                 /\ connection.is # "ErrInvalidID" =>
                      (connection.is = "ErrUnsupportedVersion"
                         <=> oldTmux /\ ~Given("WithoutVersionCheck"))
                 /\ connection.is = "started" =>
                      /\ connection.args = server \o <<flag>> \o command
                      /\ C!Environment(connection.env) = env
                      /\ connection.binary = c.binary /\ c.binary # ""
                      /\ connection.events >= 3 /\ connection.tap > 0 /\ connection.patience > 0
  <2>. DEFINE connection == C!Connect(opts, oldTmux)
              all == server \o (<<flag>> \o command)
              started == [is |-> "started", binary |-> c.binary, args |-> all, env |-> C!environ(c),
                          events |-> c.eventBuffer + 2, tap |-> c.outputBuffer, patience |-> c.closeTimeout]
  <2>1. c.binary # "" /\ c.eventBuffer + 2 >= 3 /\ c.outputBuffer > 0 /\ c.closeTimeout > 0
    <3>1. c.binary # "" /\ c.eventBuffer \in Nat \ {0} /\ c.outputBuffer \in Nat \ {0}
          /\ c.closeTimeout \in Nat \ {0}
      BY <1>3 DEF Config
    <3>2. \A k \in Nat \ {0} : k > 0 /\ k + 2 >= 3 BY ONLY SMT
    <3>. QED BY ONLY <3>1, <3>2, Zenon
  <2>2. all = server \o <<flag>> \o command
    <3>. DEFINE A == Strings \union {"-S", "-L", "-C", "-CC", "attach-session", "-t", "new-session"}
    <3>1. c.socketPath \in A /\ c.socketName \in A /\ c.attach \in A /\ c.controlArgs \in Seq(A)
      <4>1. c.socketPath \in Strings /\ c.socketName \in Strings /\ c.attach \in Strings
            /\ c.controlArgs \in Seq(Strings)
        BY <1>3 DEF Config
      <4>. QED BY <4>1
    <3>2. {"-S", "-L", "-C", "-CC", "attach-session", "-t", "new-session"} \subseteq A OBVIOUS
    <3>. HIDE DEF A
    <3>3. server \in Seq(A)
      <4>1. \A x \in A : <<"-S", x>> \in Seq(A) /\ <<"-L", x>> \in Seq(A) BY <3>2
      <4>2. <<>> \in Seq(A) OBVIOUS
      <4>. QED BY ONLY <3>1, <4>1, <4>2, Zenon DEF server
    <3>4. <<flag>> \in Seq(A) BY <3>2
    <3>5. command \in Seq(A)
      <4>1. \A x \in A : <<"attach-session", "-t", x>> \in Seq(A) BY <3>2
      <4>2. <<"new-session">> \in Seq(A) BY <3>2
      <4>. QED BY <3>1, <4>1, <4>2
    <3>. HIDE DEF server, flag, command
    <3>. QED BY <3>3, <3>4, <3>5, ConcatAssociative
  <2>3. connection =
          IF attaches /\ c.attach \notin {"$0"} THEN [is |-> "ErrInvalidID"]
          ELSE IF ~c.skipVersionCk /\ oldTmux THEN [is |-> "ErrUnsupportedVersion"]
          ELSE started
    BY <1>8, <1>10, <1>11, <1>12 DEF C!Connect, C!argv, C!Unset, c
  <2>. DEFINE Good(x) == /\ x.is = "ErrInvalidID" <=> attaches /\ c.attach # "$0"
                         /\ x.is # "ErrInvalidID" =>
                              (x.is = "ErrUnsupportedVersion"
                                 <=> oldTmux /\ ~Given("WithoutVersionCheck"))
                         /\ x.is = "started" =>
                              /\ x.args = server \o <<flag>> \o command
                              /\ C!Environment(x.env) = env
                              /\ x.binary = c.binary /\ c.binary # ""
                              /\ x.events >= 3 /\ x.tap > 0 /\ x.patience > 0
  <2>. HIDE DEF connection, all, server, flag, command, attaches, env, Given
  <2>4. ASSUME attaches /\ c.attach # "$0" PROVE Good(connection)
    <3>1. connection = [is |-> "ErrInvalidID"] BY <2>3, <2>4
    <3>. QED BY <2>4, <3>1
  <2>5. ASSUME ~(attaches /\ c.attach # "$0") /\ ~c.skipVersionCk /\ oldTmux
        PROVE  Good(connection)
    <3>1. connection = [is |-> "ErrUnsupportedVersion"] BY <2>3, <2>5
    <3>. QED BY <1>7, <2>5, <3>1
  <2>6. ASSUME ~(attaches /\ c.attach # "$0") /\ ~(~c.skipVersionCk /\ oldTmux)
        PROVE  Good(connection)
    <3>1. connection = started BY <2>3, <2>6
    <3>2. connection.is = "started" /\ connection.args = all /\ connection.env = C!environ(c)
          /\ connection.binary = c.binary /\ connection.events = c.eventBuffer + 2
          /\ connection.tap = c.outputBuffer /\ connection.patience = c.closeTimeout
      BY <3>1
    <3>. HIDE DEF started
    <3>3. ~(oldTmux /\ ~Given("WithoutVersionCheck")) BY <1>7, <2>6
    <3>. QED BY <1>9, <2>1, <2>2, <2>6, <3>2, <3>3
  <2>. HIDE DEF Good
  <2>7. Good(connection) BY <2>4, <2>5, <2>6
  <2>. QED BY <2>7, Zenon DEF Good, connection
<1>15. /\ LastOf(opts, "WithSocketPath", "") = c.socketPath
       /\ LastOf(opts, "WithSocketName", "") = c.socketName
       /\ LastOf(opts, "WithControlArgs", <<>>) = c.controlArgs
       /\ LastOf(opts, "WithAttach", "") = c.attach
  BY <1>5
<1>. QED BY <1>13, <1>14, <1>15, Zenon DEF OptionsAsAsked
=============================================================================
