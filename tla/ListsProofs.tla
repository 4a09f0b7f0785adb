------------------------------ MODULE ListsProofs ------------------------------
(***************************************************************************)
(* Proofs about what MCValues makes of lists that no length bounds: after  *)
(* any calls that set and unset options, what tmux prints of them reads    *)
(* back as they left it; the rows of any listing are read as they were     *)
(* printed; and of any notifications, the events are what was told.        *)
(***************************************************************************)
EXTENDS ValuesProofs

-----------------------------------------------------------------------------
(* Joining what was split *)

(* An element after two sequences comes after the second.                  *)
EndsLater(q, r, x) == Append(q \o r, x) = q \o Append(r, x)

(* It does.                                                                *)
LEMMA AppendLater ==
  ASSUME NEW S, NEW q \in Seq(S), NEW r \in Seq(S), NEW x \in S
  PROVE  EndsLater(q, r, x)
<1>1. <<x>> \in Seq(S) /\ q \o r \in Seq(S) BY ConcatProperties
<1>2. Append(r, x) = r \o <<x>> BY AppendIsConcat
<1>3. Append(q \o r, x) = (q \o r) \o <<x>> BY <1>1, AppendIsConcat
<1>4. (q \o r) \o <<x>> = q \o (r \o <<x>>) BY <1>1, ConcatAssociative
<1>. QED BY <1>2, <1>3, <1>4 DEF EndsLater

(* The last part grows where it is.                                        *)
PartsLater(q, r, x, sep) == Parted(q \o r, x, sep) = q \o Parted(r, x, sep)

(* It does, in whatever comes before.                                      *)
LEMMA PartedLater ==
  ASSUME NEW A, NEW sep, NEW q \in Seq(Seq(A)), NEW r \in Parts(A), NEW x \in A
  PROVE  PartsLater(q, r, x, sep)
<1>. DEFINE L == Len(q)
            M == Len(r)
            y == Append(r[M], x)
            w == q \o r
<1>1. r \in Seq(Seq(A)) /\ L \in Nat /\ M \in 1..M /\ r[M] \in Seq(A) BY EmptySeq DEF Parts
<1>2. CASE x = sep
  <2>1. <<>> \in Seq(A) OBVIOUS
  <2>2. EndsLater(q, r, <<>>) BY <1>1, <2>1, AppendLater
  <2>. QED BY <1>2, <2>2 DEF PartsLater, Parted, EndsLater
<1>3. CASE x # sep
  <2>1. y \in Seq(A) BY <1>1
  <2>2. w \in Seq(Seq(A)) /\ Len(w) = L + M /\ (\A i \in 1..L : w[i] = q[i])
        /\ \A i \in 1..M : w[L + i] = r[i]
    BY <1>1, Follow
  <2>. DEFINE s == [r EXCEPT ![M] = y]
              t == [w EXCEPT ![L + M] = y]
  <2>3. Parted(r, x, sep) = s BY <1>3 DEF Parted
  <2>4. Parted(w, x, sep) = t BY <1>1, <1>3, <2>2 DEF Parted
  <2>. HIDE DEF w, y
  <2>5. s \in Seq(Seq(A)) /\ Len(s) = M /\ \A i \in 1..M : s[i] = IF i = M THEN y ELSE r[i]
    BY <1>1, <2>1, ExceptSeq
  <2>6. t \in Seq(Seq(A)) /\ Len(t) = L + M
        /\ \A i \in 1..(L + M) : t[i] = IF i = L + M THEN y ELSE w[i]
    <3>1. L + M \in 1..(L + M) BY <1>1
    <3>. QED BY <2>1, <2>2, <3>1, ExceptSeq
  <2>. HIDE DEF s, t
  <2>. DEFINE u == q \o s
  <2>7. u \in Seq(Seq(A)) /\ Len(u) = L + M /\ (\A i \in 1..L : u[i] = q[i])
        /\ \A i \in 1..M : u[L + i] = s[i]
    <3>1. s \in Seq(Seq(A)) /\ Len(s) = M BY <2>5
    <3>2. /\ u \in Seq(Seq(A)) /\ Len(u) = L + Len(s) /\ (\A i \in 1..L : u[i] = q[i])
          /\ \A i \in 1..Len(s) : u[L + i] = s[i]
      <4>. HIDE DEF M
      <4>1. s \in Seq(Seq(A)) /\ q \in Seq(Seq(A)) BY <3>1
      <4>. QED BY ONLY <4>1, Follow
    <3>. HIDE DEF u, L, M
    <3>. QED BY <3>1, <3>2
  <2>. HIDE DEF u, L, M
  <2>8. \A i \in 1..(L + M) : t[i] = u[i]
    <3>. SUFFICES ASSUME NEW i \in 1..(L + M) PROVE t[i] = u[i] OBVIOUS
    <3>0. L \in Nat /\ M \in Nat BY <1>1
    <3>1. CASE i \in 1..L
      <4>1. i # L + M BY <1>1, <3>0, <3>1
      <4>. QED BY <2>2, <2>6, <2>7, <3>1, <4>1
    <3>2. CASE i - L \in 1..M
      <4>1. i = L + (i - L) BY <3>0
      <4>2. u[i] = s[i - L] /\ w[i] = r[i - L] BY <2>2, <2>7, <3>2, <4>1
      <4>3. i = L + M <=> i - L = M BY <3>0
      <4>. QED BY <2>5, <2>6, <3>2, <4>2, <4>3
    <3>. QED BY <3>0, <3>1, <3>2
  <2>9. t = u BY <2>6, <2>7, <2>8, SeqEqual
  <2>. QED BY <2>3, <2>4, <2>9 DEF PartsLater, u, w
<1>. QED BY <1>2, <1>3

(* What is on either side of a separator is split apart.                   *)
SplitsApart(p, s, sep) == Split((p \o <<sep>>) \o s, sep) = Split(p, sep) \o Split(s, sep)

(* It is.                                                                  *)
LEMMA SplitConcat ==
  ASSUME NEW A, NEW sep \in A, NEW p \in Seq(A)
  PROVE  \A s \in Seq(A) : SplitsApart(p, s, sep) /\ Split(s, sep) \in Parts(A)
<1>. DEFINE g == split(A, sep)
            q == p \o <<sep>>
            Z == {s \in Seq(A) : SplitsApart(p, s, sep)}
<1>1. Folds(Parts(A), A, << <<>> >>, parted(A, sep), g) BY SplitFolds
<1>2. \A s \in Seq(A) : g[s] = Split(s, sep) BY DEF split
<1>3. \A s \in Seq(A) : Split(s, sep) \in Parts(A) BY <1>1, <1>2 DEF Folds
<1>4. \A s \in Seq(A), x \in A : Split(Append(s, x), sep) = Parted(Split(s, sep), x, sep)
  <2>. SUFFICES ASSUME NEW s \in Seq(A), NEW x \in A
                PROVE  Split(Append(s, x), sep) = Parted(Split(s, sep), x, sep)
    OBVIOUS
  <2>1. Append(s, x) \in Seq(A) OBVIOUS
  <2>2. g[Append(s, x)] = parted(A, sep)[g[s]][x] BY <1>1 DEF Folds
  <2>3. parted(A, sep)[Split(s, sep)][x] = Parted(Split(s, sep), x, sep) BY <1>3 DEF parted
  <2>. QED BY <1>2, <2>1, <2>2, <2>3
<1>5. Split(<<>>, sep) = << <<>> >>
  <2>1. <<>> \in Seq(A) OBVIOUS
  <2>. QED BY <1>1, <1>2, <2>1 DEF Folds
<1>6. q \in Seq(A) /\ q = Append(p, sep) BY AppendIsConcat
<1>7. <<>> \in Z
  <2>1. q \o <<>> = q BY <1>6
  <2>2. Split(q, sep) = Append(Split(p, sep), <<>>) BY <1>4, <1>6 DEF Parted
  <2>3. Append(Split(p, sep), <<>>) = Split(p, sep) \o << <<>> >>
    <3>1. Split(p, sep) \in Seq(Seq(A)) /\ <<>> \in Seq(A) BY <1>3 DEF Parts
    <3>. QED BY <3>1, AppendIsConcat
  <2>4. <<>> \in Seq(A) OBVIOUS
  <2>. QED BY <1>5, <2>1, <2>2, <2>3, <2>4 DEF SplitsApart
<1>8. ASSUME NEW s \in Seq(A), NEW x \in A, s \in Z PROVE Append(s, x) \in Z
  <2>. DEFINE a == Split(p, sep)
              c == Split(s, sep)
  <2>1. EndsLater(q, s, x) BY <1>6, AppendLater
  <2>2. q \o s \in Seq(A) /\ Append(s, x) \in Seq(A) BY <1>6
  <2>3. Split(Append(q \o s, x), sep) = Parted(Split(q \o s, sep), x, sep) BY <1>4, <2>2
  <2>4. a \in Seq(Seq(A)) /\ c \in Parts(A) BY <1>3 DEF Parts
  <2>5. Split(q \o s, sep) = a \o c BY <1>8 DEF SplitsApart
  <2>6. Split(Append(s, x), sep) = Parted(c, x, sep) BY <1>4
  <2>. HIDE DEF a, c, q
  <2>7. PartsLater(a, c, x, sep) BY <2>4, PartedLater
  <2>8. Split(q \o Append(s, x), sep) = a \o Split(Append(s, x), sep)
    BY <2>1, <2>3, <2>5, <2>6, <2>7 DEF EndsLater, PartsLater
  <2>. QED BY <2>2, <2>8 DEF SplitsApart, a, q
<1>9. \A s \in Seq(A) : s \in Z
  <2>. HIDE DEF Z
  <2>. QED BY <1>7, <1>8, ByAppend
<1>. QED BY <1>3, <1>9

(* Parts are joined one after the other, with the separator between.       *)
JoinsOn(p, s, sep) ==
  Join(Append(p, s), sep) = IF p = <<>> THEN s ELSE (Join(p, sep) \o <<sep>>) \o s

(* They are.                                                               *)
LEMMA JoinAppend ==
  ASSUME NEW A, NEW sep \in A
  PROVE  /\ Join(<<>>, sep) = <<>>
         /\ \A p \in Seq(Seq(A)) : Join(p, sep) \in Seq(A)
         /\ \A p \in Seq(Seq(A)), s \in Seq(A) : JoinsOn(p, s, sep)
<1>. DEFINE Cells(p) == [k \in 1..Len(p) |-> (IF k > 1 THEN <<sep>> ELSE <<>>) \o p[k]]
<1>1. <<sep>> \in Seq(A) /\ <<>> \in Seq(A) OBVIOUS
<1>2. ASSUME NEW p \in Seq(Seq(A))
      PROVE  Cells(p) \in Seq(Seq(A)) /\ Len(Cells(p)) = Len(p)
  <2>1. \A k \in 1..Len(p) : (IF k > 1 THEN <<sep>> ELSE <<>>) \o p[k] \in Seq(A)
    <3>. SUFFICES ASSUME NEW k \in 1..Len(p)
                  PROVE  (IF k > 1 THEN <<sep>> ELSE <<>>) \o p[k] \in Seq(A)
      OBVIOUS
    <3>1. p[k] \in Seq(A) OBVIOUS
    <3>. DEFINE c == IF k > 1 THEN <<sep>> ELSE <<>>
    <3>2. c \in Seq(A) BY <1>1
    <3>. HIDE DEF c
    <3>3. c \o p[k] \in Seq(A) BY <3>1, <3>2, ConcatProperties
    <3>. QED BY <3>3 DEF c
  <2>2. Len(p) \in Nat OBVIOUS
  <2>. QED BY <2>1, <2>2
<1>3. \A p : Join(p, sep) = FlattenSeq(Cells(p)) BY DEF Join
<1>4. Join(<<>>, sep) = <<>>
  <2>1. Cells(<<>>) = <<>> OBVIOUS
  <2>2. FlattenSeq(<<>>) = <<>> BY DEF FlattenSeq
  <2>. QED BY <1>3, <2>1, <2>2
<1>5. ASSUME NEW p \in Seq(Seq(A)) PROVE Join(p, sep) \in Seq(A)
  <2>1. Cells(p) \in Seq(Seq(A)) BY <1>2
  <2>. HIDE DEF Cells
  <2>2. FlattenSeq(Cells(p)) \in Seq(A) BY <1>1, <2>1, FlattenAppend
  <2>. QED BY <1>3, <2>2
<1>6. ASSUME NEW p \in Seq(Seq(A)), NEW s \in Seq(A) PROVE JoinsOn(p, s, sep)
  <2>. DEFINE L == Len(p)
              t == Append(p, s)
              c == IF L + 1 > 1 THEN <<sep>> ELSE <<>>
              y == c \o s
              u == Append(Cells(p), y)
  <2>1. c \in Seq(A) BY <1>1
  <2>. HIDE DEF c
  <2>2. y \in Seq(A) BY <2>1, ConcatProperties
  <2>. HIDE DEF y
  <2>3. t \in Seq(Seq(A)) /\ Len(t) = L + 1 /\ t[L + 1] = s /\ \A k \in 1..L : t[k] = p[k]
    BY AppendProperties
  <2>4. L \in Nat OBVIOUS
  <2>5. Cells(p) \in Seq(Seq(A)) /\ Len(Cells(p)) = L /\ Cells(t) \in Seq(Seq(A)) /\ Len(Cells(t)) = L + 1
    <3>. HIDE DEF t, L, Cells
    <3>1. Len(p) = L BY DEF L
    <3>. QED BY <1>2, <2>3, <3>1
  <2>6. Cells(t)[L + 1] = y
    <3>1. L + 1 \in 1..Len(t) BY <2>3, <2>4
    <3>. HIDE DEF t, L
    <3>. QED BY <2>3, <3>1 DEF y, c
  <2>7. \A k \in 1..L : Cells(t)[k] = Cells(p)[k]
    <3>. SUFFICES ASSUME NEW k \in 1..L PROVE Cells(t)[k] = Cells(p)[k] OBVIOUS
    <3>1. k \in 1..Len(t) /\ t[k] = p[k] BY <2>3, <2>4
    <3>. HIDE DEF t
    <3>. QED BY <3>1
  <2>. HIDE DEF Cells, L, t
  <2>8. u \in Seq(Seq(A)) /\ Len(u) = L + 1 /\ u[L + 1] = y /\ \A k \in 1..L : u[k] = Cells(p)[k]
    BY <2>2, <2>5, AppendProperties
  <2>. HIDE DEF u
  <2>9. \A k \in 1..(L + 1) : Cells(t)[k] = u[k]
    <3>. SUFFICES ASSUME NEW k \in 1..(L + 1) PROVE Cells(t)[k] = u[k] OBVIOUS
    <3>1. CASE k = L + 1 BY <2>6, <2>8, <3>1
    <3>2. CASE k \in 1..L BY <2>7, <2>8, <3>2
    <3>. QED BY <2>4, <3>1, <3>2
  <2>10. Cells(t) = u BY <2>5, <2>8, <2>9, SeqEqual
  <2>11. FlattenSeq(u) = FlattenSeq(Cells(p)) \o y BY <2>2, <2>5, FlattenAppend DEF u
  <2>12. Join(t, sep) = Join(p, sep) \o y BY <1>3, <2>10, <2>11
  <2>13. CASE p = <<>>
    <3>1. L = 0 BY <2>13 DEF L
    <3>2. c = <<>> BY <3>1 DEF c
    <3>3. y = s BY <3>2, ConcatEmptySeq DEF y
    <3>4. <<>> \o s = s BY ConcatEmptySeq
    <3>. QED BY <1>4, <2>12, <2>13, <3>3, <3>4 DEF JoinsOn, t
  <2>14. CASE p # <<>>
    <3>1. L > 0 BY <2>4, <2>14, EmptySeq DEF L
    <3>2. c = <<sep>> BY <2>4, <3>1 DEF c
    <3>3. Join(p, sep) \in Seq(A) BY <1>5
    <3>4. (Join(p, sep) \o <<sep>>) \o s = Join(p, sep) \o (<<sep>> \o s)
      BY <1>1, <3>3, ConcatAssociative
    <3>. QED BY <2>12, <2>14, <3>2, <3>4 DEF JoinsOn, t, y
  <2>. QED BY <2>13, <2>14
<1>. QED BY <1>4, <1>5, <1>6

(* What was split is joined again.                                         *)
LEMMA JoinSplit ==
  ASSUME NEW A, NEW sep \in A
  PROVE  \A s \in Seq(A) : Join(Split(s, sep), sep) = s
<1>. DEFINE g == split(A, sep)
            Z == {s \in Seq(A) : Join(Split(s, sep), sep) = s}
<1>1. Folds(Parts(A), A, << <<>> >>, parted(A, sep), g) BY SplitFolds
<1>2. \A s \in Seq(A) : g[s] = Split(s, sep) BY DEF split
<1>3. \A s \in Seq(A) : Split(s, sep) \in Parts(A) BY <1>1, <1>2 DEF Folds
<1>4. \A s \in Seq(A), x \in A : Split(Append(s, x), sep) = Parted(Split(s, sep), x, sep)
  <2>. SUFFICES ASSUME NEW s \in Seq(A), NEW x \in A
                PROVE  Split(Append(s, x), sep) = Parted(Split(s, sep), x, sep)
    OBVIOUS
  <2>1. Append(s, x) \in Seq(A) OBVIOUS
  <2>2. g[Append(s, x)] = parted(A, sep)[g[s]][x] BY <1>1 DEF Folds
  <2>3. parted(A, sep)[Split(s, sep)][x] = Parted(Split(s, sep), x, sep) BY <1>3 DEF parted
  <2>. QED BY <1>2, <2>1, <2>2, <2>3
<1>5. <<>> \in Z
  <2>1. <<>> \in Seq(A) OBVIOUS
  <2>2. Split(<<>>, sep) = << <<>> >> BY <1>1, <1>2, <2>1 DEF Folds
  <2>3. JoinsOn(<<>>, <<>>, sep)
    <3>1. <<>> \in Seq(Seq(A)) OBVIOUS
    <3>. QED BY <2>1, <3>1, JoinAppend
  <2>4. Append(<<>>, <<>>) = << <<>> >> OBVIOUS
  <2>. QED BY <2>1, <2>2, <2>3, <2>4 DEF JoinsOn
<1>6. ASSUME NEW s \in Seq(A), NEW x \in A, s \in Z PROVE Append(s, x) \in Z
  <2>. DEFINE p == Split(s, sep)
  <2>1. p \in Seq(Seq(A)) /\ p # <<>> /\ Join(p, sep) = s BY <1>3, <1>6 DEF Parts
  <2>2. Split(Append(s, x), sep) = Parted(p, x, sep) BY <1>4
  <2>. HIDE DEF p
  <2>3. Append(s, x) \in Seq(A) /\ Append(s, x) = s \o <<x>> BY AppendIsConcat
  <2>4. CASE x = sep
    <3>1. <<>> \in Seq(A) OBVIOUS
    <3>2. JoinsOn(p, <<>>, sep) BY <2>1, <3>1, JoinAppend
    <3>3. Parted(p, x, sep) = Append(p, <<>>) BY <2>4 DEF Parted
    <3>4. (s \o <<sep>>) \o <<>> = s \o <<sep>>
      <4>1. s \o <<sep>> \in Seq(A) BY <2>3, <2>4
      <4>. QED BY <4>1, ConcatEmptySeq
    <3>. QED BY <2>1, <2>2, <2>3, <2>4, <3>2, <3>3, <3>4 DEF JoinsOn
  <2>5. CASE x # sep
    <3>1. PICK q \in Seq(Seq(A)), l \in Seq(A) : p = Append(q, l) BY <2>1, HasLast
    <3>. DEFINE L == Len(q)
                m == Append(l, x)
                t == [p EXCEPT ![Len(p)] = Append(@, x)]
                u == Append(q, m)
    <3>2. m \in Seq(A) /\ m = l \o <<x>> BY AppendIsConcat
    <3>3. Len(p) = L + 1 /\ p[L + 1] = l /\ (\A i \in 1..L : p[i] = q[i]) /\ L \in Nat
      BY <3>1, AppendProperties
    <3>4. t = [p EXCEPT ![L + 1] = m] BY <3>3
    <3>. HIDE DEF m, t
    <3>5. t \in Seq(Seq(A)) /\ Len(t) = L + 1
          /\ \A i \in 1..(L + 1) : t[i] = IF i = L + 1 THEN m ELSE p[i]
      <4>1. L + 1 \in 1..Len(p) BY <3>3
      <4>. HIDE DEF L
      <4>. QED BY <2>1, <3>2, <3>3, <3>4, <4>1, ExceptSeq
    <3>6. u \in Seq(Seq(A)) /\ Len(u) = L + 1 /\ u[L + 1] = m /\ \A i \in 1..L : u[i] = q[i]
      BY <3>2, AppendProperties
    <3>. HIDE DEF u, L
    <3>7. \A i \in 1..(L + 1) : t[i] = u[i]
      <4>. SUFFICES ASSUME NEW i \in 1..(L + 1) PROVE t[i] = u[i] OBVIOUS
      <4>1. CASE i = L + 1 BY <3>3, <3>5, <3>6, <4>1
      <4>2. CASE i \in 1..L
        <5>1. i # L + 1 BY <3>3, <4>2
        <5>. QED BY <3>3, <3>5, <3>6, <4>2, <5>1
      <4>. QED BY <3>3, <4>1, <4>2
    <3>8. t = u BY <3>5, <3>6, <3>7, SeqEqual
    <3>9. Parted(p, x, sep) = t BY <2>5 DEF Parted, t
    <3>10. JoinsOn(q, m, sep) /\ JoinsOn(q, l, sep) BY <3>2, JoinAppend
    <3>11. CASE q = <<>>
      BY <2>1, <2>2, <2>3, <3>1, <3>2, <3>8, <3>9, <3>10, <3>11 DEF JoinsOn, u, m
    <3>12. CASE q # <<>>
      <4>. DEFINE j == Join(q, sep) \o <<sep>>
      <4>1. j \in Seq(A)
        <5>1. Join(q, sep) \in Seq(A) /\ <<sep>> \in Seq(A) BY JoinAppend
        <5>. QED BY <5>1, ConcatProperties
      <4>. HIDE DEF j
      <4>2. <<x>> \in Seq(A) OBVIOUS
      <4>3. (j \o l) \o <<x>> = j \o (l \o <<x>>) BY <4>1, <4>2, ConcatAssociative
      <4>4. s = j \o l /\ Join(u, sep) = j \o m BY <2>1, <3>1, <3>10, <3>12 DEF JoinsOn, u, j
      <4>. QED BY <2>2, <2>3, <3>2, <3>8, <3>9, <4>3, <4>4
    <3>. QED BY <3>11, <3>12
  <2>. QED BY <2>4, <2>5
<1>7. \A s \in Seq(A) : s \in Z
  <2>. HIDE DEF Z
  <2>. QED BY <1>5, <1>6, ByAppend
<1>. QED BY <1>7

(* Sequences of some things are sequences of more.                         *)
LEMMA SeqOfMore == ASSUME NEW A, NEW B, A \subseteq B PROVE Seq(A) \subseteq Seq(B)
<1>. SUFFICES ASSUME NEW s \in Seq(A) PROVE s \in Seq(B) OBVIOUS
<1>1. s \in [1..Len(s) -> B] /\ Len(s) \in Nat OBVIOUS
<1>. QED BY <1>1

(* Parts without the separator are found again when they were joined, the  *)
(* last of them in as many parts as it has.                                *)
SplitsLast(p, s, sep) == Split(Join(Append(p, s), sep), sep) = p \o Split(s, sep)

(* They are.                                                               *)
LEMMA SplitJoin ==
  ASSUME NEW A, NEW sep \in A
  PROVE  \A p \in Seq(Seq(A \ {sep})), s \in Seq(A) : SplitsLast(p, s, sep)
<1>. DEFINE Free == Seq(A \ {sep})
            Z == {p \in Seq(Free) : \A s \in Seq(A) : SplitsLast(p, s, sep)}
<1>1. Free \subseteq Seq(A)
  <2>1. A \ {sep} \subseteq A OBVIOUS
  <2>. QED BY <2>1, SeqOfMore
<1>2. Seq(Free) \subseteq Seq(Seq(A)) BY <1>1, SeqOfMore
<1>3. <<>> \in Z
  <2>1. ASSUME NEW s \in Seq(A) PROVE SplitsLast(<<>>, s, sep)
    <3>1. <<>> \in Seq(Seq(A)) OBVIOUS
    <3>2. JoinsOn(<<>>, s, sep) BY <3>1, JoinAppend
    <3>3. Split(s, sep) \in Seq(Seq(A))
      <4>1. <<>> \in Seq(A) OBVIOUS
      <4>. QED BY <4>1, SplitConcat DEF Parts
    <3>4. <<>> \o Split(s, sep) = Split(s, sep) BY <3>3, ConcatEmptySeq
    <3>. QED BY <3>2, <3>4 DEF SplitsLast, JoinsOn
  <2>2. <<>> \in Seq(Free) OBVIOUS
  <2>. QED BY <2>1, <2>2
<1>4. ASSUME NEW p \in Seq(Free), NEW l \in Free, p \in Z PROVE Append(p, l) \in Z
  <2>1. ASSUME NEW s \in Seq(A) PROVE SplitsLast(Append(p, l), s, sep)
    <3>. DEFINE q == Append(p, l)
                j == Join(q, sep)
                w == Split(s, sep)
    <3>1. l \in Seq(A) /\ p \in Seq(Seq(A)) /\ q \in Seq(Seq(A)) /\ q # <<>>
      <4>1. l \in Seq(A) /\ p \in Seq(Seq(A)) BY <1>1, <1>2
      <4>. QED BY <4>1, NotEmptied
    <3>2. w \in Seq(Seq(A))
      <4>1. <<>> \in Seq(A) OBVIOUS
      <4>. QED BY <4>1, SplitConcat DEF Parts
    <3>3. Split(l, sep) = <<l>>
      <4>1. \A i \in 1..Len(l) : l[i] # sep OBVIOUS
      <4>. QED BY <3>1, <4>1, SplitWhole
    <3>4. SplitsLast(p, l, sep) BY <1>4, <3>1
    <3>5. p \o <<l>> = q BY <3>1, AppendIsConcat
    <3>6. Split(j, sep) = q BY <3>3, <3>4, <3>5 DEF SplitsLast
    <3>7. j \in Seq(A) /\ JoinsOn(q, s, sep)
      <4>. HIDE DEF q
      <4>. QED BY <3>1, JoinAppend
    <3>. HIDE DEF q, j, w
    <3>8. SplitsApart(j, s, sep) BY <3>7, SplitConcat
    <3>. QED BY <3>1, <3>6, <3>7, <3>8 DEF SplitsLast, SplitsApart, JoinsOn, j, q, w
  <2>2. Append(p, l) \in Seq(Free) OBVIOUS
  <2>. QED BY <2>1, <2>2
<1>5. \A p \in Seq(Free) : p \in Z
  <2>. HIDE DEF Z, Free
  <2>. QED BY <1>3, <1>4, ByAppend
<1>. QED BY <1>5

(* Lines are joined by newlines, and end in one.                           *)
LinesJoined(ls) == Lines(ls) = IF ls = <<>> THEN <<>> ELSE Join(ls, Newline) \o <<Newline>>

(* They are, and do.                                                       *)
LEMMA LinesAreJoined ==
  ASSUME NEW A, Newline \in A
  PROVE  \A ls \in Seq(Seq(A)) : LinesJoined(ls)
<1>. DEFINE h == [l \in Seq(A) |-> l \o <<Newline>>]
            Z == {ls \in Seq(Seq(A)) : LinesJoined(ls)}
<1>1. <<Newline>> \in Seq(A) OBVIOUS
<1>2. h \in [Seq(A) -> Seq(A)] BY <1>1, ConcatProperties
<1>3. ASSUME NEW ls \in Seq(Seq(A)) PROVE Lines(ls) = Mapped(h, ls)
  <2>1. \A i \in 1..Len(ls) : h[ls[i]] = ls[i] \o <<Newline>> OBVIOUS
  <2>. HIDE DEF h
  <2>2. [i \in 1..Len(ls) |-> h[ls[i]]] = [i \in 1..Len(ls) |-> ls[i] \o <<Newline>>] BY <2>1, Zenon
  <2>. QED BY <2>2, Zenon DEF Lines, Mapped
<1>4. \A l \in Seq(A) : h[l] = l \o <<Newline>> OBVIOUS
<1>. HIDE DEF h
<1>5. /\ Mapped(h, <<>>) = <<>>
      /\ \A ls \in Seq(Seq(A)), l \in Seq(A) : Mapped(h, Append(ls, l)) = Mapped(h, ls) \o h[l]
  BY <1>2, MappedAppend
<1>6. <<>> \in Z
  <2>1. <<>> \in Seq(Seq(A)) OBVIOUS
  <2>. QED BY <1>3, <1>5, <2>1 DEF LinesJoined
<1>7. ASSUME NEW ls \in Seq(Seq(A)), NEW l \in Seq(A), ls \in Z PROVE Append(ls, l) \in Z
  <2>. DEFINE q == Append(ls, l)
              j == Join(ls, Newline)
  <2>1. q \in Seq(Seq(A)) /\ q # <<>> BY NotEmptied
  <2>2. Lines(q) = Lines(ls) \o (l \o <<Newline>>) BY <1>3, <1>4, <1>5, <2>1
  <2>3. JoinsOn(ls, l, Newline) /\ j \in Seq(A) BY JoinAppend
  <2>4. CASE ls = <<>>
    <3>1. l \o <<Newline>> \in Seq(A) BY <1>1, ConcatProperties
    <3>2. <<>> \o (l \o <<Newline>>) = l \o <<Newline>> BY <3>1, ConcatEmptySeq
    <3>3. Lines(ls) = <<>> BY <1>7, <2>4 DEF LinesJoined
    <3>4. Join(q, Newline) = l BY <2>3, <2>4 DEF JoinsOn
    <3>. QED BY <2>1, <2>2, <3>2, <3>3, <3>4 DEF LinesJoined
  <2>5. CASE ls # <<>>
    <3>. DEFINE k == j \o <<Newline>>
    <3>1. Lines(ls) = k BY <1>7, <2>5 DEF LinesJoined
    <3>2. Join(q, Newline) = k \o l BY <2>3, <2>5 DEF JoinsOn
    <3>3. k \in Seq(A) BY <1>1, <2>3, ConcatProperties
    <3>. HIDE DEF q, k
    <3>4. (k \o l) \o <<Newline>> = k \o (l \o <<Newline>>) BY <1>1, <3>3, ConcatAssociative
    <3>. QED BY <2>1, <2>2, <3>1, <3>2, <3>4 DEF LinesJoined, q
  <2>. QED BY <2>4, <2>5
<1>8. \A ls \in Seq(Seq(A)) : ls \in Z
  <2>. HIDE DEF Z
  <2>. QED BY <1>6, <1>7, ByAppend
<1>. QED BY <1>8

(* A row may lose the carriage returns that it ends in, and nothing else.  *)
Loses(w, v) ==
  /\ Len(w) <= Len(v) /\ \A i \in 1..Len(w) : w[i] = v[i]
  /\ \A i \in (Len(w) + 1)..Len(v) : v[i] = Return

(* An end is trimmed from the end, whatever comes before it.               *)
TrimsLater(q, v, b) == TrimSuffix(q \o v, b) = q \o TrimSuffix(v, b)

(* What is not empty has an end, which TrimSuffix looks at.                *)
LEMMA TrimEnd ==
  ASSUME NEW A, NEW v \in Seq(A), NEW x \in A, NEW b
  PROVE  TrimSuffix(Append(v, x), b) = IF x = b THEN v ELSE Append(v, x)
<1>. DEFINE s == Append(v, x)
<1>1. s \in Seq(A) /\ Len(s) = Len(v) + 1 /\ s # <<>> /\ s[Len(s)] = x BY NotEmptied
<1>2. Last(s) = x BY <1>1 DEF Last
<1>3. Front(s) = v
  <2>1. Front(s) = SubSeq(s, 1, Len(s) - 1) BY DEF Front
  <2>2. SubSeq(s, 1, Len(v)) = v OBVIOUS
  <2>. QED BY <1>1, <2>1, <2>2
<1>. HIDE DEF s
<1>. QED BY <1>1, <1>2, <1>3 DEF TrimSuffix, s

(* A line that is trimmed loses only that.                                 *)
LEMMA TrimLoses ==
  ASSUME NEW A, NEW v \in Seq(A)
  PROVE  TrimSuffix(v, Return) \in Seq(A) /\ Loses(TrimSuffix(v, Return), v)
<1>. DEFINE w == TrimSuffix(v, Return)
<1>1. CASE v = <<>>
  <2>1. w = v BY <1>1 DEF TrimSuffix
  <2>2. Len(v) \in Nat OBVIOUS
  <2>. HIDE DEF w
  <2>. QED BY <2>1, <2>2 DEF Loses, w
<1>2. CASE v # <<>>
  <2>1. PICK s \in Seq(A), x \in A : v = Append(s, x) BY <1>2, HasLast
  <2>2. w = IF x = Return THEN s ELSE v BY <2>1, TrimEnd
  <2>3. Len(v) = Len(s) + 1 /\ v[Len(s) + 1] = x /\ \A i \in 1..Len(s) : v[i] = s[i]
    BY <2>1, AppendProperties
  <2>. HIDE DEF w
  <2>4. CASE x = Return
    <3>1. w = s /\ Len(s) \in Nat BY <2>2, <2>4
    <3>2. \A i \in (Len(s) + 1)..Len(v) : v[i] = Return BY <2>3, <2>4, <3>1
    <3>. QED BY <2>3, <3>1, <3>2 DEF Loses, w
  <2>5. CASE x # Return
    <3>1. w = v /\ Len(v) \in Nat BY <2>2, <2>5
    <3>. QED BY <3>1 DEF Loses, w
  <2>. QED BY <2>4, <2>5
<1>. QED BY <1>1, <1>2

(* Twice is no worse.                                                      *)
LEMMA LosesMore ==
  ASSUME NEW A, NEW u \in Seq(A), NEW w \in Seq(A), NEW v \in Seq(A), Loses(u, w), Loses(w, v)
  PROVE  Loses(u, v)
<1>1. Len(u) \in Nat /\ Len(w) \in Nat /\ Len(v) \in Nat OBVIOUS
<1>2. Len(u) <= Len(v) /\ \A i \in 1..Len(u) : u[i] = v[i] BY <1>1 DEF Loses
<1>3. ASSUME NEW i \in (Len(u) + 1)..Len(v) PROVE v[i] = Return
  <2>1. CASE i > Len(w) BY <1>1, <2>1 DEF Loses
  <2>2. CASE i <= Len(w)
    <3>1. i \in 1..Len(w) /\ i \in (Len(u) + 1)..Len(w) BY <1>1, <2>2
    <3>. QED BY <3>1 DEF Loses
  <2>. QED BY <1>1, <2>1, <2>2
<1>. QED BY <1>2, <1>3 DEF Loses

(* Only what is empty lets the trimming reach what comes before.           *)
LEMMA TrimLater ==
  ASSUME NEW A, NEW p \in Seq(A), NEW sep \in A, NEW b, sep # b
  PROVE  \A v \in Seq(A) : TrimsLater(p \o <<sep>>, v, b)
<1>. DEFINE q == p \o <<sep>>
<1>. SUFFICES ASSUME NEW v \in Seq(A) PROVE TrimsLater(q, v, b) OBVIOUS
<1>1. q \in Seq(A) /\ q = Append(p, sep) BY AppendIsConcat
<1>2. CASE v = <<>>
  <2>1. TrimSuffix(v, b) = <<>> BY <1>2 DEF TrimSuffix
  <2>2. q \o <<>> = q BY <1>1, ConcatEmptySeq
  <2>3. TrimSuffix(q, b) = q BY <1>1, TrimEnd
  <2>. QED BY <1>2, <2>1, <2>2, <2>3 DEF TrimsLater
<1>3. CASE v # <<>>
  <2>1. PICK s \in Seq(A), x \in A : v = Append(s, x) BY <1>3, HasLast
  <2>2. EndsLater(q, s, x) BY <1>1, AppendLater
  <2>3. q \o s \in Seq(A) BY <1>1, ConcatProperties
  <2>. DEFINE r == q \o s
  <2>. HIDE DEF q, r
  <2>4. TrimSuffix(Append(r, x), b) = IF x = b THEN r ELSE Append(r, x)
    <3>1. r \in Seq(A) BY <2>3 DEF r
    <3>. QED BY <3>1, TrimEnd
  <2>5. TrimSuffix(v, b) = IF x = b THEN s ELSE v BY <2>1, TrimEnd
  <2>6. q \o v = Append(r, x) BY <2>1, <2>2 DEF EndsLater, r
  <2>7. CASE x = b BY <2>4, <2>5, <2>6, <2>7 DEF TrimsLater, r
  <2>8. CASE x # b BY <2>4, <2>5, <2>6, <2>8 DEF TrimsLater, r
  <2>. QED BY <2>7, <2>8
<1>. QED BY <1>2, <1>3

(* Of what is joined only the last part is trimmed.                        *)
TrimsLast(p, s, sep, b) ==
  TrimSuffix(Join(Append(p, s), sep), b) = Join(Append(p, TrimSuffix(s, b)), sep)

(* The separator in front of it is not.                                    *)
LEMMA JoinTrimmed ==
  ASSUME NEW A, NEW sep \in A, sep # Return, NEW p \in Seq(Seq(A)), NEW s \in Seq(A)
  PROVE  TrimsLast(p, s, sep, Return)
<1>. DEFINE w == TrimSuffix(s, Return)
            j == Join(p, sep)
<1>1. w \in Seq(A) BY TrimLoses
<1>. HIDE DEF w
<1>2. JoinsOn(p, s, sep) /\ JoinsOn(p, w, sep) /\ j \in Seq(A) BY <1>1, JoinAppend
<1>. HIDE DEF j
<1>3. TrimsLater(j \o <<sep>>, s, Return) BY <1>2, TrimLater
<1>4. CASE p = <<>> BY <1>2, <1>4 DEF JoinsOn, TrimsLast, w
<1>5. CASE p # <<>> BY <1>2, <1>3, <1>5 DEF JoinsOn, TrimsLast, TrimsLater, w, j
<1>. QED BY <1>4, <1>5

(* A line is a row of these fields.                                        *)
ReadAs(spec, line, row) ==
  /\ ~skips(spec, line) /\ ~(Len(Split(line, Tab)) < Len(spec))
  /\ Fields(spec, line) = row

(* It is, if they were joined by tabs and only the last one has any.       *)
LEMMA FieldsJoined ==
  ASSUME NEW A, Tab \in A, NEW f \in Seq(Seq(A \ {Tab})), NEW v \in Seq(A),
         NEW spec, Len(spec) = Len(f) + 1
  PROVE  ReadAs(spec, Join(Append(f, v), Tab), Append(f, v))
<1>. DEFINE line == Join(Append(f, v), Tab)
            w == Split(v, Tab)
            vals == f \o w
            L == Len(f)
<1>1. f \in Seq(Seq(A)) /\ L \in Nat
  <2>1. A \ {Tab} \subseteq A OBVIOUS
  <2>2. Seq(A \ {Tab}) \subseteq Seq(A) BY <2>1, SeqOfMore
  <2>. QED BY <2>2, SeqOfMore
<1>2. w \in Seq(Seq(A)) /\ Len(w) \in Nat \ {0}
  <2>1. <<>> \in Seq(A) OBVIOUS
  <2>2. w \in Parts(A) BY <2>1, SplitConcat
  <2>. HIDE DEF w
  <2>. QED BY <2>2, EmptySeq DEF Parts
<1>3. Split(line, Tab) = vals BY SplitJoin DEF SplitsLast
<1>4. Join(w, Tab) = v BY JoinSplit
<1>5. JoinsOn(f, v, Tab) /\ Join(f, Tab) \in Seq(A) BY <1>1, JoinAppend
<1>. HIDE DEF line, w, L
<1>6. /\ vals \in Seq(Seq(A)) /\ Len(vals) = L + Len(w) /\ (\A i \in 1..L : vals[i] = f[i])
      /\ \A i \in 1..Len(w) : vals[L + i] = w[i]
  BY <1>1, <1>2, Follow DEF L
<1>. HIDE DEF vals
<1>7. ~skips(spec, line)
  <2>. SUFFICES ASSUME line = <<>>, L + 1 > 1 PROVE FALSE BY DEF skips, L
  <2>1. f # <<>> BY <1>1 DEF L
  <2>. DEFINE j == Join(f, Tab) \o <<Tab>>
  <2>2. j \in Seq(A) /\ j = Append(Join(f, Tab), Tab) BY <1>5, AppendIsConcat
  <2>3. j # <<>> BY <1>5, <2>2, NotEmptied
  <2>4. line = j \o v BY <1>5, <2>1 DEF JoinsOn, line
  <2>. HIDE DEF j
  <2>5. Len(line) = Len(j) + Len(v)
    <3>1. Len(j \o v) = Len(j) + Len(v) BY <2>2, Follow
    <3>. QED BY <2>4, <3>1
  <2>6. Len(j) \in Nat /\ Len(j) # 0 /\ Len(v) \in Nat BY <2>2, <2>3, EmptySeq
  <2>7. Len(line) = 0 OBVIOUS
  <2>. QED BY <2>5, <2>6, <2>7
<1>8. ~(Len(Split(line, Tab)) < Len(spec)) BY <1>1, <1>2, <1>3, <1>6 DEF L
<1>9. Fields(spec, line) = Append(f, v)
  <2>1. CASE Len(w) = 1
    <3>1. w = <<w[1]>> BY <1>2, <2>1
    <3>2. w[1] \in Seq(A)
      <4>1. 1 \in 1..Len(w) BY <2>1
      <4>. QED BY <1>2, <4>1
    <3>3. Join(<<w[1]>>, Tab) = w[1]
      <4>. DEFINE x == w[1]
      <4>1. <<>> \in Seq(Seq(A)) /\ x \in Seq(A) BY <3>2
      <4>. HIDE DEF x
      <4>2. JoinsOn(<<>>, x, Tab) BY <4>1, JoinAppend
      <4>3. Append(<<>>, x) = <<x>> OBVIOUS
      <4>. QED BY <4>2, <4>3 DEF JoinsOn, x
    <3>4. w = <<v>> BY <1>4, <3>1, <3>3
    <3>5. Append(f, v) = f \o <<v>> BY <1>1, AppendIsConcat
    <3>6. Fields(spec, line) = vals BY <1>1, <1>3, <1>6, <2>1 DEF Fields, L
    <3>. QED BY <3>4, <3>5, <3>6 DEF vals
  <2>2. CASE Len(w) # 1
    <3>. DEFINE n == L + 1
                r == SubSeq(vals, 1, n - 1)
                u == SubSeq(vals, n, Len(vals))
    <3>1. n \in Nat /\ n - 1 = L /\ Len(spec) = n BY <1>1 DEF L
    <3>2. Fields(spec, line) = Append(r, Join(u, Tab))
      <4>1. ~(Len(vals) <= n)
        <5>. DEFINE m == Len(w)
        <5>1. m \in Nat /\ m # 0 /\ m # 1 BY <1>2, <2>2
        <5>2. Len(vals) = L + m /\ L \in Nat BY <1>1, <1>6
        <5>. HIDE DEF m
        <5>3. m > 1 BY <5>1
        <5>. QED BY <5>1, <5>2, <5>3
      <4>. HIDE DEF n
      <4>. QED BY <1>3, <3>1, <4>1 DEF Fields
    <3>3. r = f
      <4>1. r \in Seq(Seq(A)) /\ Len(r) = L /\ \A i \in 1..L : r[i] = vals[i] BY <1>1, <1>2, <1>6
      <4>. HIDE DEF r
      <4>2. f \in Seq(Seq(A)) /\ Len(f) = L BY <1>1 DEF L
      <4>3. \A i \in 1..Len(r) : r[i] = f[i] BY ONLY <1>6, <4>1
      <4>. QED BY ONLY <4>1, <4>2, <4>3, SeqEqual
    <3>4. u = w
      <4>1. u \in Seq(Seq(A)) /\ Len(u) = Len(w) /\ \A i \in 1..Len(w) : u[i] = vals[L + i]
        BY <1>1, <1>2, <1>6
      <4>. HIDE DEF u
      <4>. QED BY <1>2, <1>6, <4>1, SeqEqual
    <3>. QED BY <1>4, <3>2, <3>3, <3>4
  <2>. QED BY <2>1, <2>2
<1>. QED BY <1>7, <1>8, <1>9 DEF ReadAs, line

(* Lines that are read as rows are all of them read.                       *)
LEMMA ParsesAll ==
  ASSUME NEW R, NEW spec, NEW lines, NEW rows \in Seq(R), Len(lines) = Len(rows),
         \A k \in 1..Len(rows) : ReadAs(spec, lines[k], rows[k])
  PROVE  ParseRows(spec, lines) = [ok |-> TRUE, rows |-> rows]
<1>. DEFINE L == Len(lines)
            a == [ok |-> TRUE, rows |-> <<>>]
            u == [n \in 0..L |-> [ok |-> TRUE, rows |-> SubSeq(rows, 1, n)]]
            f == CHOOSE c : c = [n \in 0..L |-> IF n = 0 THEN a ELSE TakeLine(spec, c[n - 1], lines[n])]
<1>1. L \in Nat /\ Len(rows) = L OBVIOUS
<1>2. ParseRows(spec, lines) = f[L] BY DEF ParseRows
<1>. HIDE DEF L
<1>3. ASSUME NEW n \in 1..L
      PROVE  TakeLine(spec, [ok |-> TRUE, rows |-> SubSeq(rows, 1, n - 1)], lines[n])
               = [ok |-> TRUE, rows |-> SubSeq(rows, 1, n)]
  <2>. DEFINE s == SubSeq(rows, 1, n - 1)
              t == SubSeq(rows, 1, n)
  <2>1. ReadAs(spec, lines[n], rows[n]) BY <1>1
  <2>2. t = Append(s, rows[n])
    <3>1. s \in Seq(R) /\ Len(s) = n - 1 /\ \A i \in 1..(n - 1) : s[i] = rows[i] BY <1>1
    <3>2. t \in Seq(R) /\ Len(t) = n /\ \A i \in 1..n : t[i] = rows[i] BY <1>1
    <3>3. rows[n] \in R BY <1>1
    <3>. DEFINE w == Append(s, rows[n])
    <3>. HIDE DEF s, t
    <3>4. w \in Seq(R) /\ Len(w) = (n - 1) + 1 /\ w[(n - 1) + 1] = rows[n]
          /\ \A i \in 1..(n - 1) : w[i] = s[i]
      BY <3>1, <3>3, AppendProperties
    <3>. HIDE DEF w
    <3>5. \A i \in 1..n : t[i] = w[i]
      <4>. SUFFICES ASSUME NEW i \in 1..n PROVE t[i] = w[i] OBVIOUS
      <4>1. CASE i = n BY <3>2, <3>4, <4>1
      <4>2. CASE i \in 1..(n - 1) BY <3>1, <3>2, <3>4, <4>2
      <4>. QED BY <4>1, <4>2
    <3>6. Len(w) = n BY <3>4
    <3>7. t = w BY <3>2, <3>4, <3>5, <3>6, SeqEqual
    <3>. QED BY <3>7 DEF w
  <2>. DEFINE read == [ok |-> TRUE, rows |-> s]
              l == lines[n]
              row == rows[n]
  <2>3. read.ok = TRUE /\ read.rows = s OBVIOUS
  <2>. HIDE DEF s, t, read, l, row
  <2>4. TakeLine(spec, read, l) = [ok |-> TRUE, rows |-> Append(s, row)]
    <3>1. ReadAs(spec, l, row) BY <2>1 DEF l, row
    <3>. QED BY <2>3, <3>1, Zenon DEF ReadAs, TakeLine
  <2>. QED BY <2>2, <2>4 DEF read, s, t, l, row
<1>4. \A n \in 0..L : u[n] = IF n = 0 THEN a ELSE TakeLine(spec, u[n - 1], lines[n])
  <2>. SUFFICES ASSUME NEW n \in 0..L
                PROVE  u[n] = IF n = 0 THEN a ELSE TakeLine(spec, u[n - 1], lines[n])
    OBVIOUS
  <2>1. CASE n = 0
    <3>1. SubSeq(rows, 1, 0) = <<>> BY SubSeqEmpty
    <3>. QED BY <1>1, <2>1, <3>1
  <2>2. CASE n # 0
    <3>1. n \in 1..L /\ n - 1 \in 0..L BY <1>1, <2>2
    <3>2. u[n - 1] = [ok |-> TRUE, rows |-> SubSeq(rows, 1, n - 1)] BY <3>1
    <3>3. u[n] = [ok |-> TRUE, rows |-> SubSeq(rows, 1, n)] OBVIOUS
    <3>. HIDE DEF u
    <3>. QED BY <1>3, <2>2, <3>1, <3>2, <3>3
  <2>. QED BY <2>1, <2>2
<1>5. u = [n \in 0..L |-> u[n]] OBVIOUS
<1>. HIDE DEF u
<1>6. u = [n \in 0..L |-> IF n = 0 THEN a ELSE TakeLine(spec, u[n - 1], lines[n])]
  BY <1>4, <1>5, Zenon
<1>7. f = [n \in 0..L |-> IF n = 0 THEN a ELSE TakeLine(spec, f[n - 1], lines[n])] BY <1>6, Zenon
<1>. HIDE DEF f
<1>8. \A n \in 0..L : f[n] = IF n = 0 THEN a ELSE TakeLine(spec, f[n - 1], lines[n]) BY <1>7
<1>. DEFINE T == {n \in 0..L : f[n] = u[n]}
<1>9. 0 \in T
  <2>1. 0 \in 0..L BY <1>1
  <2>. QED BY <1>4, <1>8, <2>1
<1>10. ASSUME NEW n \in 1..L, n - 1 \in T PROVE n \in T
  <2>1. n \in 0..L /\ n # 0 BY <1>1
  <2>2. f[n] = TakeLine(spec, f[n - 1], lines[n]) /\ u[n] = TakeLine(spec, u[n - 1], lines[n])
    BY <1>4, <1>8, <2>1
  <2>3. f[n - 1] = u[n - 1] BY <1>10
  <2>. QED BY <2>1, <2>2, <2>3
<1>11. L \in T
  <2>. HIDE DEF T
  <2>1. 0..L \subseteq T BY <1>1, <1>9, <1>10, UpTo
  <2>. QED BY <1>1, <2>1
<1>12. f[L] = [ok |-> TRUE, rows |-> SubSeq(rows, 1, L)] BY <1>11 DEF u
<1>13. SubSeq(rows, 1, L) = rows BY <1>1, SubSeqFull
<1>. QED BY <1>2, <1>12, <1>13

(* What is read of lines: the lines, each but the last of them trimmed     *)
(* once, and the last of them twice.                                       *)
trimmed(l) == TrimSuffix(l, Return)
LinesRead(ls, l) ==
  splitLines(Lines(Append(ls, l)))
    = [i \in 1..(Len(ls) + 1) |-> IF i <= Len(ls) THEN trimmed(ls[i]) ELSE trimmed(trimmed(l))]

(* It is, if none of them holds a newline.                                 *)
LEMMA SplitsLines ==
  ASSUME NEW A, Newline \in A, NEW ls \in Seq(Seq(A \ {Newline})), NEW l \in Seq(A \ {Newline})
  PROVE  LinesRead(ls, l)
<1>. DEFINE B == A \ {Newline}
            q == Append(ls, l)
            j == Join(q, Newline)
            m == trimmed(l)
            r == Append(ls, m)
            L == Len(ls)
<1>1. Seq(B) \subseteq Seq(A) /\ Seq(Seq(B)) \subseteq Seq(Seq(A))
  <2>1. B \subseteq A OBVIOUS
  <2>2. Seq(B) \subseteq Seq(A) BY <2>1, SeqOfMore
  <2>. QED BY <2>2, SeqOfMore
<1>2. ls \in Seq(Seq(A)) /\ l \in Seq(A) /\ m \in Seq(B) /\ m \in Seq(A)
  <2>1. m \in Seq(B) BY TrimLoses DEF trimmed
  <2>. QED BY <1>1, <2>1
<1>3. q \in Seq(Seq(A)) /\ q # <<>> BY <1>2, NotEmptied
<1>4. j \in Seq(A) BY <1>3, JoinAppend
<1>5. Lines(q) = j \o <<Newline>> BY <1>3, LinesAreJoined DEF LinesJoined
<1>6. TrimsLast(ls, l, Newline, Return)
  <2>1. Newline # Return BY DEF Newline, Return
  <2>. QED BY <1>2, <2>1, JoinTrimmed
<1>7. Split(Join(r, Newline), Newline) = r
  <2>. HIDE DEF m
  <2>1. SplitsLast(ls, m, Newline) BY <1>2, SplitJoin
  <2>2. Split(m, Newline) = <<m>>
    <3>1. \A i \in 1..Len(m) : m[i] # Newline BY <1>2
    <3>. QED BY <1>2, <3>1, SplitWhole
  <2>3. r = ls \o <<m>> BY <1>2, AppendIsConcat
  <2>. QED BY <2>1, <2>2, <2>3 DEF SplitsLast
<1>8. r \in Seq(Seq(A)) /\ Len(r) = L + 1 /\ r[L + 1] = m /\ (\A i \in 1..L : r[i] = ls[i])
  <2>. HIDE DEF m
  <2>. QED BY <1>2, AppendProperties
<1>9. TrimSuffix(j, Return) = Join(r, Newline) BY <1>6 DEF TrimsLast, trimmed
<1>. HIDE DEF q, j, m, r
<1>10. Lines(q) # <<>> /\ TrimSuffix(Lines(q), Newline) = j
  <2>1. Lines(q) = Append(j, Newline) BY <1>4, <1>5, AppendIsConcat
  <2>2. TrimSuffix(Append(j, Newline), Newline) = j BY <1>4, TrimEnd
  <2>3. Append(j, Newline) # <<>> BY <1>4, NotEmptied
  <2>. QED BY <2>1, <2>2, <2>3
<1>11. splitLines(Lines(q)) = [i \in 1..Len(r) |-> trimmed(r[i])]
  BY <1>7, <1>9, <1>10, Zenon DEF splitLines, trimmed
<1>12. L \in Nat OBVIOUS
<1>13. \A i \in 1..(L + 1) :
         trimmed(r[i]) = IF i <= L THEN trimmed(ls[i]) ELSE trimmed(m)
  <2>. SUFFICES ASSUME NEW i \in 1..(L + 1)
                PROVE  trimmed(r[i]) = IF i <= L THEN trimmed(ls[i]) ELSE trimmed(m)
    OBVIOUS
  <2>1. CASE i <= L BY <1>8, <1>12, <2>1
  <2>2. CASE ~(i <= L) 
    <3>1. i = L + 1 BY <1>12, <2>2
    <3>. QED BY <1>8, <2>2, <3>1
  <2>. QED BY <2>1, <2>2
<1>14. [i \in 1..(L + 1) |-> trimmed(r[i])]
         = [i \in 1..(L + 1) |-> IF i <= L THEN trimmed(ls[i]) ELSE trimmed(m)]
  BY <1>13, Zenon
<1>. QED BY <1>8, <1>11, <1>14, Zenon DEF LinesRead, q, m, L

(* Replacing rids a value of the bytes that are replaced, and leaves one   *)
(* without them as it is.                                                  *)
LEMMA ReplacedIs ==
  ASSUME NEW A, SpaceByte \in A, NEW v \in Seq(A), NEW bytes, SpaceByte \notin bytes
  PROVE  /\ Replaced(v, bytes) \in Seq(A \ bytes)
         /\ v \in Seq(A \ bytes) => Replaced(v, bytes) = v
<1>. DEFINE w == Replaced(v, bytes)
            L == Len(v)
<1>1. L \in Nat /\ w = [i \in 1..L |-> w[i]]
      /\ \A i \in 1..L : w[i] = IF v[i] \in bytes THEN SpaceByte ELSE v[i]
  BY DEF Replaced
<1>2. \A i \in 1..L : v[i] \in A OBVIOUS
<1>. HIDE DEF w, L
<1>3. \A i \in 1..L : w[i] \in A \ bytes BY <1>1, <1>2
<1>4. SeqWith(A \ bytes, L, w) BY <1>1, <1>3, MadeSeq
<1>5. w \in Seq(A \ bytes) /\ Len(w) = L BY <1>4 DEF SeqWith
<1>6. ASSUME v \in Seq(A \ bytes) PROVE w = v
  <2>1. \A i \in 1..L : v[i] \in A \ bytes BY <1>6 DEF L
  <2>2. \A i \in 1..L : w[i] = v[i] BY <1>1, <2>1
  <2>. QED BY <1>5, <1>6, <2>2, SeqEqual DEF L
<1>. QED BY <1>5, <1>6 DEF w

(* The first column of an entry is the only one.                           *)
LEMMA LookupIs ==
  ASSUME NEW spec, NEW n \in Nat, Len(spec) = n, NEW i \in 1..n,
         \A j, k \in 1..n : spec[j] = spec[k] => j = k, NEW row
  PROVE  Lookup(spec, row, spec[i]) = row[i]
<1>. DEFINE columns == {j \in 1..Len(spec) : spec[j] = spec[i]}
<1>1. columns = {i} OBVIOUS
<1>. HIDE DEF columns
<1>2. (CHOOSE j \in columns : \A k \in columns : j <= k) = i
  <2>1. i \in columns /\ \A k \in columns : i <= k BY <1>1
  <2>. QED BY <1>1, <2>1
<1>. QED BY <1>2, Zenon DEF Lookup, columns

(* What a row may be of, and what all but the last of its fields may be.   *)
RowText == Code \ {Newline}
Field == RowText \ {Tab}

(* K rows, each of fields f[k] and of a last one, v[k], are read as they   *)
(* were printed, but for carriage returns at the end of the last.          *)
printed(K, f, v) == Lines([k \in 1..K |-> Join(Append(f[k], v[k]), Tab)])
ReadsRows(spec, K, f, v) ==
  \E w \in [1..K -> Seq(RowText)] :
    /\ \A k \in 1..K : Loses(w[k], v[k])
    /\ ParseRows(spec, splitLines(printed(K, f, v)))
         = [ok |-> TRUE, rows |-> [k \in 1..K |-> Append(f[k], w[k])]]

(* They are, if the spec has as many columns.                              *)
LEMMA RowsAreRead ==
  ASSUME NEW spec, NEW K \in Nat, NEW f \in [1..K -> Seq(Seq(Field))],
         NEW v \in [1..K -> Seq(RowText)], \A k \in 1..K : Len(spec) = Len(f[k]) + 1
  PROVE  ReadsRows(spec, K, f, v)
<1>. DEFINE row(k, x) == Join(Append(f[k], x), Tab)
            lines == [k \in 1..K |-> row(k, v[k])]
            w == [k \in 1..K |-> IF k < K THEN trimmed(v[k]) ELSE trimmed(trimmed(v[k]))]
            rows == [k \in 1..K |-> Append(f[k], w[k])]
            read == [k \in 1..K |-> row(k, w[k])]
<1>1. Tab \in RowText /\ Tab # Return /\ Newline \in Code
  BY DEF RowText, Code, Tab, Newline, Return
<1>2. Field \subseteq RowText /\ Field = RowText \ {Tab} BY DEF Field
<1>3. \A k \in 1..K : f[k] \in Seq(Seq(RowText))
  <2>1. Seq(Field) \subseteq Seq(RowText) BY <1>2, SeqOfMore
  <2>2. Seq(Seq(Field)) \subseteq Seq(Seq(RowText)) BY <2>1, SeqOfMore
  <2>. QED BY <2>2
<1>4. \A x \in Seq(RowText) : trimmed(x) \in Seq(RowText) /\ Loses(trimmed(x), x)
  BY TrimLoses DEF trimmed
<1>5. w \in [1..K -> Seq(RowText)] /\ \A k \in 1..K : Loses(w[k], v[k])
  <2>1. ASSUME NEW x \in Seq(RowText)
        PROVE  trimmed(trimmed(x)) \in Seq(RowText) /\ Loses(trimmed(trimmed(x)), x)
    <3>1. trimmed(x) \in Seq(RowText) /\ Loses(trimmed(x), x) BY <1>4
    <3>2. trimmed(trimmed(x)) \in Seq(RowText) /\ Loses(trimmed(trimmed(x)), trimmed(x))
      BY <1>4, <3>1
    <3>. QED BY <3>1, <3>2, LosesMore
  <2>2. \A k \in 1..K : v[k] \in Seq(RowText) OBVIOUS
  <2>. QED BY <1>4, <2>1, <2>2
<1>6. ASSUME NEW k \in 1..K, NEW x \in Seq(RowText)
      PROVE  row(k, x) \in Seq(RowText) /\ trimmed(row(k, x)) = row(k, trimmed(x))
  <2>. DEFINE p == f[k]
  <2>1. p \in Seq(Seq(RowText)) BY <1>3
  <2>. HIDE DEF p
  <2>2. Append(p, x) \in Seq(Seq(RowText)) BY <2>1, AppendProperties
  <2>3. Join(Append(p, x), Tab) \in Seq(RowText) BY <1>1, <2>2, JoinAppend
  <2>4. TrimsLast(p, x, Tab, Return) BY <1>1, <2>1, JoinTrimmed
  <2>. QED BY <2>3, <2>4 DEF TrimsLast, trimmed, p
<1>7. splitLines(Lines(lines)) = read
  <2>. HIDE DEF row
  <2>1. lines \in Seq(Seq(RowText)) /\ Len(lines) = K BY <1>6
  <2>2. CASE K = 0
    <3>1. lines = <<>> /\ read = <<>> BY <2>2
    <3>2. Lines(<<>>) = <<>>
      <4>1. <<>> \in Seq(Seq(Code)) OBVIOUS
      <4>. QED BY <1>1, <4>1, LinesAreJoined DEF LinesJoined
    <3>. QED BY <3>1, <3>2 DEF splitLines
  <2>3. CASE K # 0
    <3>1. lines # <<>> BY <2>1, <2>3, EmptySeq
    <3>2. PICK ls \in Seq(Seq(RowText)), l \in Seq(RowText) : lines = Append(ls, l)
      <4>. HIDE DEF lines
      <4>. QED BY <2>1, <3>1, HasLast
    <3>3. Len(ls) + 1 = K /\ Len(ls) \in Nat /\ l = lines[K] /\ \A i \in 1..Len(ls) : ls[i] = lines[i]
      <4>. HIDE DEF lines
      <4>. QED BY <2>1, <3>2, AppendProperties
    <3>4. LinesRead(ls, l) BY <1>1, SplitsLines DEF RowText
    <3>. DEFINE got(i) == IF i <= Len(ls) THEN trimmed(ls[i]) ELSE trimmed(trimmed(l))
    <3>5. splitLines(Lines(lines)) = [i \in 1..K |-> got(i)]
      <4>. HIDE DEF lines
      <4>. QED BY <3>2, <3>3, <3>4, Zenon DEF LinesRead
    <3>6. ASSUME NEW i \in 1..K PROVE got(i) = row(i, w[i])
      <4>1. v[i] \in Seq(RowText) /\ trimmed(v[i]) \in Seq(RowText) BY <1>4
      <4>2. lines[i] = row(i, v[i]) OBVIOUS
      <4>3. trimmed(lines[i]) = row(i, trimmed(v[i]))
            /\ trimmed(trimmed(lines[i])) = row(i, trimmed(trimmed(v[i])))
        BY <1>6, <4>1, <4>2
      <4>. HIDE DEF lines
      <4>4. CASE i <= Len(ls)
        <5>1. i < K /\ i \in 1..Len(ls) BY <3>3, <4>4
        <5>2. w[i] = trimmed(v[i]) BY <5>1
        <5>. QED BY <3>3, <4>3, <4>4, <5>1, <5>2
      <4>5. CASE ~(i <= Len(ls))
        <5>1. i = K BY <3>3, <4>5
        <5>2. w[i] = trimmed(trimmed(v[i])) BY <5>1
        <5>. QED BY <3>3, <4>3, <4>5, <5>1, <5>2
      <4>. QED BY <4>4, <4>5
    <3>. HIDE DEF got, w
    <3>7. [i \in 1..K |-> got(i)] = read BY <3>6, Zenon
    <3>. QED BY <3>5, <3>7
  <2>. QED BY <2>2, <2>3
<1>8. rows \in Seq(Seq(Seq(RowText))) /\ Len(rows) = K
  <2>. HIDE DEF w
  <2>1. \A k \in 1..K : Append(f[k], w[k]) \in Seq(Seq(RowText)) BY <1>3, <1>5
  <2>. QED BY <2>1
<1>9. read \in Seq(Seq(RowText)) /\ Len(read) = K
  <2>. HIDE DEF row, w
  <2>1. \A k \in 1..K : row(k, w[k]) \in Seq(RowText) BY <1>5, <1>6
  <2>. QED BY <2>1
<1>10. ASSUME NEW k \in 1..K PROVE ReadAs(spec, read[k], rows[k])
  <2>. DEFINE p == f[k]
              x == w[k]
  <2>1. p \in Seq(Seq(RowText \ {Tab})) /\ x \in Seq(RowText) /\ Len(spec) = Len(p) + 1
    BY <1>2, <1>5
  <2>2. read[k] = Join(Append(p, x), Tab) /\ rows[k] = Append(p, x) OBVIOUS
  <2>. HIDE DEF p, x, w, read, rows
  <2>. QED BY <1>1, <2>1, <2>2, FieldsJoined
<1>11. printed(K, f, v) = Lines(lines) BY DEF printed
<1>. HIDE DEF w, read, rows, lines
<1>12. ParseRows(spec, read) = [ok |-> TRUE, rows |-> rows]
  <2>1. Len(read) = Len(rows) /\ \A k \in 1..Len(rows) : ReadAs(spec, read[k], rows[k])
    BY <1>8, <1>9, <1>10
  <2>. QED BY <1>8, <2>1, ParsesAll
<1>13. ParseRows(spec, splitLines(printed(K, f, v))) = [ok |-> TRUE, rows |-> rows]
  BY <1>7, <1>11, <1>12
<1>. QED BY <1>5, <1>13, Zenon DEF ReadsRows, rows

(* Objects that can be listed: a spec names no column twice, the value of  *)
(* each is of bytes, and that of one that is not a bare variable, which    *)
(* nothing is replaced in, has no tab or newline in it.                    *)
Listable(spec, objects) ==
  /\ spec # <<>>
  /\ \A i, j \in 1..Len(spec) : spec[i] = spec[j] => i = j
  /\ \A k \in 1..Len(objects), i \in 1..Len(spec) :
       /\ objects[k][spec[i].var] \in Seq(Code)
       /\ isBareVar(spec[i]) \/ objects[k][spec[i].var] \in Seq(Field)

(* What a column prints has a space for each newline, and for each tab     *)
(* unless it is the last, and what separates rows or fields is not in it.  *)
asked(last) == {Newline} \union (IF last THEN {} ELSE {Tab})
Prints(x, v, last) ==
  /\ x = Replaced(v, asked(last)) /\ x \in Seq(RowText) /\ (~last => x \in Seq(Field))

(* It does, and is not.                                                    *)
LEMMA ColumnPrints ==
  ASSUME NEW spec, NEW i \in 1..Len(spec), NEW v \in Seq(Code), Len(spec) \in Nat,
         isBareVar(spec[i]) \/ v \in Seq(Field)
  PROVE  Prints(Replaced(v, Arg(spec)[i]), v, i = Len(spec))
<1>. DEFINE last == i = Len(spec)
            x == Replaced(v, Arg(spec)[i])
<1>1. Arg(spec)[i] = IF isBareVar(spec[i]) THEN rowSafeVar(i < Len(spec)) ELSE {} BY DEF Arg
<1>2. rowSafeVar(i < Len(spec)) = asked(last) BY DEF rowSafeVar, asked
<1>3. SpaceByte \in Code /\ SpaceByte \notin asked(last)
  BY DEF SpaceByte, Code, asked, Newline, Tab
<1>4. /\ Replaced(v, asked(last)) \in Seq(Code \ asked(last))
      /\ v \in Seq(Code \ asked(last)) => Replaced(v, asked(last)) = v
  BY <1>3, ReplacedIs
<1>5. Replaced(v, {}) = v
  <2>1. Code \ {} = Code OBVIOUS
  <2>. QED BY <1>3, <2>1, ReplacedIs
<1>6. Field \subseteq Code \ asked(last) BY DEF Field, RowText, asked
<1>7. x = Replaced(v, asked(last))
  <2>1. CASE isBareVar(spec[i]) BY <1>1, <1>2, <2>1
  <2>2. CASE ~isBareVar(spec[i])
    <3>1. v \in Seq(Code \ asked(last))
      <4>1. Seq(Field) \subseteq Seq(Code \ asked(last)) BY <1>6, SeqOfMore
      <4>. QED BY <2>2, <4>1
    <3>. QED BY <1>1, <1>4, <1>5, <2>2, <3>1
  <2>. QED BY <2>1, <2>2
<1>8. Code \ asked(last) \subseteq RowText /\ (~last => Code \ asked(last) \subseteq Field)
  BY DEF Field, RowText, asked
<1>9. x \in Seq(Code \ asked(last)) BY <1>4, <1>7
<1>. HIDE DEF x, last
<1>10. x \in Seq(RowText)
  <2>1. Seq(Code \ asked(last)) \subseteq Seq(RowText) BY <1>8, SeqOfMore
  <2>. QED BY <1>9, <2>1
<1>11. ASSUME ~last PROVE x \in Seq(Field)
  <2>1. Seq(Code \ asked(last)) \subseteq Seq(Field) BY <1>8, <1>11, SeqOfMore
  <2>. QED BY <1>9, <2>1
<1>. QED BY <1>7, <1>10, <1>11 DEF Prints, x, last

(* What lost no more than its end begins as it was, and is all there if it *)
(* lost nothing.                                                           *)
Kept(w, v) == IsPrefix(w, v) /\ Range(SubSeq(v, Len(w) + 1, Len(v))) \subseteq {Return}

(* Of what lost only carriage returns the value is kept; what lost nothing *)
(* is kept whole.                                                          *)
LEMMA LosesKeeps ==
  ASSUME NEW A, NEW w \in Seq(A), NEW v \in Seq(A)
  PROVE  /\ Loses(w, v) => Kept(w, v)
         /\ Kept(v, v) /\ SubSeq(v, Len(v) + 1, Len(v)) = <<>>
<1>1. ASSUME NEW u \in Seq(A), Loses(u, v) PROVE Kept(u, v)
  <2>. DEFINE r == SubSeq(v, Len(u) + 1, Len(v))
              a == SubSeq(u, 1, Len(u))
              c == SubSeq(v, 1, Len(u))
  <2>1. Len(u) \in Nat /\ Len(v) \in Nat /\ Len(u) <= Len(v) BY <1>1 DEF Loses
  <2>2. a = c
    <3>1. a \in Seq(A) /\ Len(a) = Len(u) /\ \A i \in 1..Len(u) : a[i] = u[i] OBVIOUS
    <3>2. c \in Seq(A) /\ Len(c) = Len(u) /\ \A i \in 1..Len(u) : c[i] = v[i] BY <2>1
    <3>3. \A i \in 1..Len(u) : u[i] = v[i] BY <1>1 DEF Loses
    <3>. HIDE DEF a, c
    <3>. QED BY <3>1, <3>2, <3>3, SeqEqual
  <2>3. ASSUME NEW x \in Range(r) PROVE x = Return
    <3>1. PICK i \in DOMAIN r : x = r[i] BY <2>3 DEF Range
    <3>2. DOMAIN r = 1..(Len(v) - Len(u)) /\ r[i] = v[Len(u) + i] BY <2>1, <3>1
    <3>3. Len(u) + i \in (Len(u) + 1)..Len(v) BY <2>1, <3>1, <3>2
    <3>. QED BY <1>1, <3>1, <3>2, <3>3 DEF Loses
  <2>. QED BY <2>1, <2>2, <2>3 DEF Kept, IsPrefix
<1>2. Loses(v, v)
  <2>1. Len(v) \in Nat OBVIOUS
  <2>. QED BY <2>1 DEF Loses
<1>3. SubSeq(v, Len(v) + 1, Len(v)) = <<>> BY SubSeqEmpty
<1>. QED BY <1>1, <1>2, <1>3

(* Every listing reads back: a row for each object, in order, with what    *)
(* each column was asked for, whatever the values hold, but for carriage   *)
(* returns at the end of a row.                                            *)
THEOREM ListingsCorrect ==
  ASSUME NEW S, NEW O, NEW spec \in Seq(S), NEW objects \in Seq(O), Listable(spec, objects)
  PROVE  RowsAsListed(spec, objects)
<1>. DEFINE n == Len(spec)
            m == n - 1
            K == Len(objects)
            of(k, i) == objects[k][spec[i].var]
            cell(k, i) == Replaced(of(k, i), Arg(spec)[i])
            f == [k \in 1..K |-> [i \in 1..m |-> cell(k, i)]]
            v == [k \in 1..K |-> cell(k, n)]
<1>1. n \in Nat \ {0} /\ m \in Nat /\ n = m + 1 /\ K \in Nat BY EmptySeq DEF Listable
<1>2. ASSUME NEW k \in 1..K, NEW i \in 1..n PROVE Prints(cell(k, i), of(k, i), i = n)
  <2>1. of(k, i) \in Seq(Code) /\ (isBareVar(spec[i]) \/ of(k, i) \in Seq(Field)) BY DEF Listable
  <2>2. n \in Nat OBVIOUS
  <2>. HIDE DEF of
  <2>. QED BY <2>1, <2>2, ColumnPrints
<1>. HIDE DEF cell, of, n, m, K
<1>a. ASSUME NEW k \in 1..K, NEW i \in 1..n
      PROVE  /\ cell(k, i) = Replaced(of(k, i), {Newline} \union (IF i < n THEN {Tab} ELSE {}))
             /\ cell(k, i) \in Seq(RowText) /\ (i # n => cell(k, i) \in Seq(Field))
  <2>. DEFINE last == i = n
              x == cell(k, i)
              y == of(k, i)
  <2>1. Prints(x, y, last) BY <1>2
  <2>2. asked(last) = {Newline} \union (IF i < n THEN {Tab} ELSE {})
    <3>1. CASE i = n BY <1>1, <3>1 DEF asked
    <3>2. CASE i # n
      <4>1. i < n BY <1>1, <3>2
      <4>. QED BY <3>2, <4>1 DEF asked
    <3>. QED BY <3>1, <3>2
  <2>. HIDE DEF x, y, last
  <2>3. x = Replaced(y, asked(last)) /\ x \in Seq(RowText) /\ (~last => x \in Seq(Field))
    BY <2>1, Zenon DEF Prints
  <2>. QED BY <2>2, <2>3, Zenon DEF x, y, last
<1>3. f \in [1..K -> Seq(Seq(Field))]
      /\ \A k \in 1..K : Len(f[k]) = m /\ \A i \in 1..m : f[k][i] = cell(k, i)
  <2>. SUFFICES ASSUME NEW k \in 1..K
                PROVE  f[k] \in Seq(Seq(Field)) /\ Len(f[k]) = m /\ \A i \in 1..m : f[k][i] = cell(k, i)
    OBVIOUS
  <2>1. \A i \in 1..m : cell(k, i) \in Seq(Field)
    <3>. SUFFICES ASSUME NEW i \in 1..m PROVE cell(k, i) \in Seq(Field) OBVIOUS
    <3>1. i \in 1..n /\ i # n BY <1>1
    <3>. QED BY <1>a, <3>1
  <2>. QED BY <1>1, <2>1
<1>4. v \in [1..K -> Seq(RowText)]
  <2>1. n \in 1..n BY <1>1
  <2>. QED BY <1>a, <2>1
<1>5. Listing(spec, objects) = printed(K, f, v)
  <2>. DEFINE cells(k) == [i \in 1..n |-> cell(k, i)]
  <2>1. ASSUME NEW k \in 1..K PROVE cells(k) = Append(f[k], v[k])
    <3>. DEFINE p == f[k]
                x == v[k]
                c == cells(k)
                t == Append(p, x)
    <3>1. Field \subseteq RowText /\ Seq(Field) \subseteq Seq(RowText)
      <4>1. Field \subseteq RowText BY DEF Field
      <4>. QED BY <4>1, SeqOfMore
    <3>2. /\ p \in Seq(Seq(RowText)) /\ Len(p) = m /\ (\A i \in 1..m : p[i] = cell(k, i))
          /\ x \in Seq(RowText) /\ x = cell(k, n)
      <4>1. Seq(Seq(Field)) \subseteq Seq(Seq(RowText)) BY <3>1, SeqOfMore
      <4>2. x = cell(k, n) OBVIOUS
      <4>. HIDE DEF f, v
      <4>. QED BY <1>3, <1>4, <4>1, <4>2
    <3>3. \A i \in 1..n : cell(k, i) \in Seq(RowText) BY <1>a
    <3>4. c \in Seq(Seq(RowText)) /\ Len(c) = n /\ \A i \in 1..n : c[i] = cell(k, i)
      <4>. QED BY <1>1, <3>3
    <3>. HIDE DEF p, x, c, f, v
    <3>5. t \in Seq(Seq(RowText)) /\ Len(t) = m + 1 /\ t[m + 1] = x /\ \A i \in 1..m : t[i] = p[i]
      BY <3>2, AppendProperties
    <3>. HIDE DEF t
    <3>6. ASSUME NEW i \in 1..n PROVE c[i] = t[i]
      <4>1. CASE i = n BY <1>1, <3>2, <3>4, <3>5, <4>1
      <4>2. CASE i \in 1..m BY <3>2, <3>4, <3>5, <4>2
      <4>. QED BY <1>1, <4>1, <4>2
    <3>7. c = t BY <1>1, <3>4, <3>5, <3>6, SeqEqual
    <3>. QED BY <3>7 DEF c, t, p, x
  <2>2. \A k \in 1..K : Join(cells(k), Tab) = Join(Append(f[k], v[k]), Tab)
    <3>. HIDE DEF cells, f, v
    <3>. QED BY <2>1
  <2>3. [k \in 1..K |-> Join(cells(k), Tab)] = [k \in 1..K |-> Join(Append(f[k], v[k]), Tab)]
    <3>. HIDE DEF cells, f, v
    <3>. QED BY <2>2, Zenon
  <2>4. Listing(spec, objects) = Lines([k \in 1..K |-> Join(cells(k), Tab)])
    BY Zenon DEF Listing, cell, of, n, K
  <2>. HIDE DEF cells, f, v
  <2>. QED BY <2>3, <2>4, Zenon DEF printed
<1>6. ReadsRows(spec, K, f, v)
  <2>1. \A k \in 1..K : Len(spec) = Len(f[k]) + 1 BY <1>1, <1>3 DEF n
  <2>. HIDE DEF f, v
  <2>. QED BY <1>1, <1>3, <1>4, <2>1, RowsAreRead
<1>7. PICK w \in [1..K -> Seq(RowText)] :
        /\ \A k \in 1..K : Loses(w[k], v[k])
        /\ ParseRows(spec, splitLines(Listing(spec, objects)))
             = [ok |-> TRUE, rows |-> [k \in 1..K |-> Append(f[k], w[k])]]
  BY <1>5, <1>6 DEF ReadsRows
<1>. DEFINE read == ParseRows(spec, splitLines(Listing(spec, objects)))
            sent(k, i) == Replaced(of(k, i), {Newline} \union (IF i < n THEN {Tab} ELSE {}))
            got(k, i) == Lookup(spec, read.rows[k], spec[i])
            lost(k, i) == SubSeq(sent(k, i), Len(got(k, i)) + 1, Len(sent(k, i)))
<1>8. ASSUME NEW k \in 1..K, NEW i \in 1..n
      PROVE  /\ IsPrefix(got(k, i), sent(k, i)) /\ (i < n => lost(k, i) = <<>>)
             /\ Range(lost(k, i)) \subseteq {Return}
  <2>1. sent(k, i) = cell(k, i) /\ cell(k, i) \in Seq(RowText) BY <1>a
  <2>. DEFINE p == f[k]
              x == w[k]
  <2>2. read.rows[k] = Append(p, x)
    <3>. DEFINE rows == [l \in 1..K |-> Append(f[l], w[l])]
    <3>1. rows[k] = Append(p, x) OBVIOUS
    <3>. HIDE DEF rows
    <3>2. read = [ok |-> TRUE, rows |-> rows] BY <1>7 DEF rows
    <3>. HIDE DEF read
    <3>. QED BY <3>1, <3>2
  <2>3. p \in Seq(Seq(Field)) /\ Len(p) = m /\ (\A j \in 1..m : p[j] = cell(k, j)) BY <1>3
  <2>4. x \in Seq(RowText) /\ Loses(x, cell(k, n)) BY <1>7
  <2>5. got(k, i) = Append(p, x)[i]
    <3>. HIDE DEF read, p, x
    <3>1. \A j, l \in 1..n : spec[j] = spec[l] => j = l BY DEF Listable, n
    <3>2. Len(spec) = n /\ n \in Nat BY <1>1 DEF n
    <3>. DEFINE r == read.rows[k]
    <3>3. Lookup(spec, r, spec[i]) = r[i]
      <4>. HIDE DEF r
      <4>. QED BY <3>1, <3>2, LookupIs
    <3>. QED BY <2>2, <3>3
  <2>. HIDE DEF p, x, got, sent
  <2>6. CASE i = n
    <3>1. Append(p, x)[i] = x BY <1>1, <2>3, <2>6
    <3>2. Loses(got(k, i), sent(k, i)) /\ got(k, i) \in Seq(RowText) /\ sent(k, i) \in Seq(RowText)
      BY <2>1, <2>4, <2>5, <2>6, <3>1
    <3>3. Kept(got(k, i), sent(k, i)) BY <3>2, LosesKeeps
    <3>. QED BY <1>1, <2>6, <3>3 DEF Kept
  <2>7. CASE i # n
    <3>1. i \in 1..m BY <1>1, <2>7
    <3>2. Append(p, x)[i] = cell(k, i) BY <2>3, <3>1
    <3>3. got(k, i) = sent(k, i) /\ sent(k, i) \in Seq(RowText) BY <2>1, <2>5, <3>2
    <3>4. Kept(sent(k, i), sent(k, i)) /\ SubSeq(sent(k, i), Len(sent(k, i)) + 1, Len(sent(k, i))) = <<>>
      BY <3>3, LosesKeeps
    <3>. QED BY <3>3, <3>4 DEF Kept
  <2>. QED BY <2>6, <2>7
<1>9. read.ok /\ Len(read.rows) = K
  <2>. HIDE DEF f
  <2>. QED BY <1>1, <1>7
<1>10. \A k \in 1..K, i \in 1..n :
         /\ IsPrefix(got(k, i), sent(k, i)) /\ (i < n => lost(k, i) = <<>>)
         /\ Range(lost(k, i)) \subseteq {Return}
  <2>. HIDE DEF got, sent, lost
  <2>. QED BY <1>8
<1>11. 1..Len(read.rows) = 1..K /\ Len(objects) = K /\ Len(spec) = n BY <1>9 DEF K, n
<1>. HIDE DEF f, v
<1>. QED BY <1>9, <1>10, <1>11, Zenon DEF RowsAsListed, of, n, K

-----------------------------------------------------------------------------
(* Option values *)

(* What is not empty has a first element, and something after it.          *)
LEMMA HasFirst ==
  ASSUME NEW A, NEW v \in Seq(A), v # <<>>
  PROVE  \E x \in A, r \in Seq(A) : v = <<x>> \o r /\ Len(v) = 1 + Len(r) /\ v[1] = x
<1>. DEFINE x == v[1]
            r == Tail(v)
            w == <<x>> \o r
<1>1. Len(v) \in Nat /\ Len(v) >= 1 BY EmptySeq
<1>2. x \in A BY <1>1
<1>3. r \in Seq(A) /\ Len(r) = Len(v) - 1 /\ \A i \in 1..Len(r) : r[i] = v[i + 1]
  BY HeadTailProperties
<1>4. <<x>> \in Seq(A) /\ Len(<<x>>) = 1 /\ <<x>>[1] = x BY <1>2
<1>. HIDE DEF x, r
<1>5. /\ w \in Seq(A) /\ Len(w) = 1 + Len(r) /\ \A i \in 1..1 : w[i] = <<x>>[i]
      /\ \A i \in 1..Len(r) : w[1 + i] = r[i]
  <2>. DEFINE p == <<x>>
  <2>1. p \in Seq(A) /\ Len(p) = 1 BY <1>4
  <2>. HIDE DEF p
  <2>2. /\ p \o r \in Seq(A) /\ Len(p \o r) = Len(p) + Len(r)
        /\ \A i \in 1..Len(p) : (p \o r)[i] = p[i]
        /\ \A i \in 1..Len(r) : (p \o r)[Len(p) + i] = r[i]
    <3>1. p \in Seq(A) /\ r \in Seq(A) BY <1>3, <2>1
    <3>. QED BY ONLY <3>1, Follow
  <2>3. w = p \o r BY DEF p
  <2>. HIDE DEF w
  <2>. QED BY <2>1, <2>2, <2>3 DEF p
<1>. HIDE DEF w
<1>6. ASSUME NEW i \in 1..Len(v) PROVE w[i] = v[i]
  <2>1. CASE i = 1 BY <1>4, <1>5, <2>1 DEF x
  <2>2. CASE i # 1
    <3>1. i - 1 \in 1..Len(r) /\ (i - 1) + 1 = i /\ 1 + (i - 1) = i BY <1>1, <1>3, <2>2
    <3>. QED BY <1>3, <1>5, <3>1
  <2>. QED BY <2>1, <2>2
<1>7. Len(w) = Len(v) BY <1>1, <1>3, <1>5
<1>8. w = v BY <1>5, <1>6, <1>7, SeqEqual
<1>9. Len(v) = 1 + Len(r) BY <1>1, <1>3
<1>. QED BY <1>2, <1>3, <1>8, <1>9 DEF w, x

(* The image of a byte that begins a value, of what is read as the value.  *)
Shown == Space..255
Shows(h) ==
  /\ h \in [Code -> Seq(Shown)] /\ h[Tilde] = <<Tilde>>
  /\ \A b \in Code :
       /\ Reads(vis, AnyBytes, h[b], <<b>>) /\ h[b] # <<>>
       /\ h[b][1] = Bslash =>
            /\ Len(h[b]) >= 2 /\ h[b][2] # Tilde
            /\ Len(h[b]) = 2 /\ h[b][2] \in argsEscapeQuoted => b \in argsEscapeQuoted
       /\ h[b][1] # Bslash => h[b] = <<b>>

(* Between double quotes, one of these has a backslash as well.            *)
doubleVis == [b \in Code |-> IF b = Dquote THEN <<Bslash, b>> ELSE visEscape(b)]

(* Of an escape.                                                           *)
EscapeShows(b, e) ==
  /\ e \in Seq(Shown) /\ e # <<>>
  /\ e[1] = Bslash =>
       /\ Len(e) >= 2 /\ e[2] # Tilde
       /\ Len(e) = 2 /\ e[2] \in argsEscapeQuoted => b \in argsEscapeQuoted
  /\ e[1] # Bslash => e = <<b>>

(* Of an octal one.                                                        *)
LEMMA OctalShows ==
  ASSUME NEW b \in Code
  PROVE  EscapeShows(b, <<Bslash>> \o OctalDigits(b))
<1>. DEFINE o == OctalDigits(b)
            x == o[1]
            y == o[2]
            w == o[3]
<1>1. o = <<x, y, w>> BY OctalIs
<1>2. x \in Zero..(Zero + 3) /\ y \in Zero..(Zero + 7) /\ w \in Zero..(Zero + 7) BY OctalIs
<1>. HIDE DEF o, x, y, w
<1>3. Bslash \in Shown /\ x \in Shown /\ y \in Shown /\ w \in Shown /\ x # Tilde
  BY <1>2 DEF Shown, Bslash, Zero, Space, Tilde
<1>4. <<Bslash>> \o <<x, y, w>> = <<Bslash, x, y, w>> BY <1>3, OneAndThree
<1>5. EscapeShows(b, <<Bslash, x, y, w>>) BY <1>3 DEF EscapeShows
<1>. QED BY <1>1, <1>4, <1>5 DEF o

(* Of one by vis.                                                          *)
LEMMA VisShows ==
  ASSUME NEW b \in Code
  PROVE  EscapeShows(b, visEscape(b))
<1>1. CASE b \in {Bslash, Dollar}
  <2>1. visEscape(b) = <<Bslash, b>> BY <1>1 DEF visEscape
  <2>2. Bslash \in Shown /\ b \in Shown /\ b # Tilde BY <1>1 DEF Shown, Bslash, Dollar, Space, Tilde
  <2>. QED BY <2>1, <2>2 DEF EscapeShows
<1>2. CASE b \notin {Bslash, Dollar} /\ HasLetter(b)
  <2>. DEFINE a == LetterFor(b)
  <2>1. visEscape(b) = <<Bslash, a>> BY <1>2 DEF visEscape
  <2>2. a \in {97, 98, 102, 110, 114, 116, 118} BY <1>2, LetterIs, CStyleIs
  <2>. HIDE DEF a
  <2>3. Bslash \in Shown /\ a \in Shown /\ a # Tilde /\ a \notin argsEscapeQuoted
    BY <2>2 DEF Shown, Bslash, Space, Tilde, argsEscapeQuoted, Hash, Quote, Dollar, Dquote
  <2>. QED BY <2>1, <2>3 DEF EscapeShows
<1>3. CASE b \notin {Bslash, Dollar} /\ ~HasLetter(b) /\ b >= Space /\ b # Del
  <2>1. visEscape(b) = <<b>> BY <1>3 DEF visEscape
  <2>2. b \in Shown BY <1>3 DEF Shown, Code, Space
  <2>. QED BY <1>3, <2>1, <2>2 DEF EscapeShows
<1>4. CASE b \notin {Bslash, Dollar} /\ ~HasLetter(b) /\ ~(b >= Space /\ b # Del)
  <2>1. visEscape(b) = <<Bslash>> \o OctalDigits(b) BY <1>4 DEF visEscape
  <2>. QED BY <2>1, OctalShows
<1>. QED BY <1>1, <1>2, <1>3, <1>4

(* The images that show-options prints are such.                           *)
LEMMA ImagesShow == Shows(tmuxVis) /\ Shows(doubleVis)
<1>1. ~HasLetter(Tilde)
  <2>1. \A c \in DOMAIN CStyle : CStyle[c] # Tilde BY CStyleIs DEF Tilde
  <2>. QED BY <2>1 DEF HasLetter
<1>2. visEscape(Tilde) = <<Tilde>> BY <1>1 DEF visEscape, Tilde, Bslash, Dollar, Space, Del
<1>3. Tilde \in Code /\ ~(Tilde > Del) /\ Tilde # Dquote BY DEF Tilde, Code, Del, Dquote
<1>4. ASSUME NEW h, h = [b \in Code |-> h[b]], h[Tilde] = <<Tilde>>,
             \A b \in Code : EscapeShows(b, h[b]) /\ Reads(vis, AnyBytes, h[b], <<b>>)
      PROVE  Shows(h)
  <2>1. \A b \in Code : h[b] \in Seq(Shown) BY <1>4 DEF EscapeShows
  <2>2. h \in [Code -> Seq(Shown)] BY <1>4, <2>1
  <2>. QED BY <1>4, <2>2 DEF Shows, EscapeShows
<1>5. Shows(tmuxVis)
  <2>1. tmuxVis = [b \in Code |-> tmuxVis[b]] BY DEF tmuxVis
  <2>2. tmuxVis[Tilde] = <<Tilde>> BY <1>2, <1>3 DEF tmuxVis
  <2>3. \A b \in Code : EscapeShows(b, tmuxVis[b]) BY OctalShows, VisShows DEF tmuxVis
  <2>. QED BY <1>4, <2>1, <2>2, <2>3, TmuxVisImage
<1>6. Shows(doubleVis)
  <2>1. doubleVis = [b \in Code |-> doubleVis[b]] BY DEF doubleVis
  <2>2. doubleVis[Tilde] = <<Tilde>> BY <1>2, <1>3 DEF doubleVis
  <2>3. ASSUME NEW b \in Code
        PROVE  EscapeShows(b, doubleVis[b]) /\ Reads(vis, AnyBytes, doubleVis[b], <<b>>)
    <3>1. CASE b = Dquote
      <4>1. doubleVis[b] = <<Bslash, b>> BY <3>1 DEF doubleVis
      <4>2. b \in Nat /\ Bslash \in Shown /\ b \in Shown /\ b # Tilde /\ b \in argsEscapeQuoted
        BY <3>1 DEF Shown, Bslash, Dquote, Space, Tilde, argsEscapeQuoted
      <4>3. EscapeShows(b, <<Bslash, b>>) BY <4>2 DEF EscapeShows
      <4>4. Reads(vis, AnyBytes, <<Bslash, b>>, <<b>>) BY <3>1, <4>2, VisTwo
      <4>. QED BY <4>1, <4>3, <4>4
    <3>2. CASE b # Dquote
      <4>1. doubleVis[b] = visEscape(b) BY <3>2 DEF doubleVis
      <4>. QED BY <4>1, VisShows, VisImage
    <3>. QED BY <3>1, <3>2
  <2>. QED BY <1>4, <2>1, <2>2, <2>3
<1>. QED BY <1>5, <1>6

(* What show-options prints of a value, quotes apart: its image, after a   *)
(* backslash if the value begins with a tilde.                             *)
tilde(v) == IF v[1] = Tilde THEN <<Bslash>> ELSE <<>>
ReadsInner(h, v, e) ==
  /\ e = tilde(v) \o Mapped(h, v)
  /\ e \in Seq(Shown) /\ e # <<>> /\ e[1] \in {Bslash, v[1]}
  /\ visDecode(unprefixOptionValue(e)) = v

(* A value is printed as something, unless it is empty.                    *)
LEMMA ImageOfFirst ==
  ASSUME NEW h, Shows(h), NEW x \in Code, NEW r \in Seq(Code)
  PROVE  LET m == Mapped(h, <<x>> \o r) IN
         /\ m \in Seq(Shown) /\ Len(m) >= Len(h[x])
         /\ \A i \in 1..Len(h[x]) : m[i] = h[x][i]
         /\ Len(m) = Len(h[x]) => r = <<>>
<1>. DEFINE o == <<x>>
            e == Mapped(h, r)
<1>1. h \in [Code -> Seq(Shown)] BY DEF Shows
<1>2. MapsEach(Code, Shown, h) /\ JoinsImages(Code, h) BY <1>1, MappedEach, MappedConcat
<1>3. o \in Seq(Code) /\ Mapped(h, o) = h[x] BY <1>1, MappedOne
<1>4. e \in Seq(Shown) /\ h[x] \in Seq(Shown) BY <1>1, <1>2 DEF MapsEach
<1>5. Mapped(h, o \o r) = h[x] \o e
  <2>. HIDE DEF o, e
  <2>1. Mapped(h, o \o r) = Mapped(h, o) \o Mapped(h, r) BY <1>2, <1>3 DEF JoinsImages
  <2>. QED BY <1>3, <2>1 DEF e
<1>6. r # <<>> => Len(e) >= 1
  <2>. SUFFICES ASSUME r # <<>> PROVE Len(e) >= 1 OBVIOUS
  <2>1. PICK s \in Seq(Code), y \in Code : r = Append(s, y) BY HasLast
  <2>2. e = Mapped(h, s) \o h[y] BY <1>2, <2>1 DEF MapsEach
  <2>3. Mapped(h, s) \in Seq(Shown) /\ h[y] \in Seq(Shown) /\ h[y] # <<>>
    BY <1>1, <1>2 DEF MapsEach, Shows
  <2>. DEFINE m == Mapped(h, s)
  <2>. HIDE DEF m
  <2>4. Len(m) \in Nat /\ Len(h[y]) >= 1 BY <2>3, EmptySeq DEF m
  <2>5. Len(m \o h[y]) = Len(m) + Len(h[y]) BY <2>3 DEF m
  <2>6. Len(h[y]) \in Nat BY <2>3
  <2>. HIDE DEF e
  <2>. QED BY <2>2, <2>4, <2>5, <2>6 DEF m
<1>. DEFINE p == h[x]
<1>. HIDE DEF e, p, o
<1>7. /\ p \o e \in Seq(Shown) /\ Len(p \o e) = Len(p) + Len(e)
      /\ \A i \in 1..Len(p) : (p \o e)[i] = p[i]
  <2>1. p \in Seq(Shown) /\ e \in Seq(Shown) BY <1>4 DEF p
  <2>. QED BY ONLY <2>1, Follow
<1>8. Len(p) \in Nat /\ Len(e) \in Nat BY <1>4 DEF p
<1>. DEFINE w == p \o e
<1>9. Mapped(h, <<x>> \o r) = w BY <1>5 DEF p, o
<1>. HIDE DEF w
<1>10. /\ w \in Seq(Shown) /\ Len(w) >= Len(p) /\ \A i \in 1..Len(p) : w[i] = p[i]
       /\ Len(w) = Len(p) => r = <<>>
  BY <1>6, <1>7, <1>8 DEF w
<1>. QED BY <1>9, <1>10 DEF p

(* It is read as the value, unless it is one that is printed alone.        *)
LEMMA InnerRead ==
  ASSUME NEW h, Shows(h), NEW v \in Seq(Code), v # <<>>,
         ~(Len(v) = 1 /\ v[1] \in argsEscapeQuoted)
  PROVE  ReadsInner(h, v, tilde(v) \o Mapped(h, v))
<1>. DEFINE m == Mapped(h, v)
<1>1. PICK x \in Code, r \in Seq(Code) : v = <<x>> \o r /\ Len(v) = 1 + Len(r) /\ v[1] = x
  BY HasFirst
<1>2. /\ m \in Seq(Shown) /\ Len(m) >= Len(h[x]) /\ \A i \in 1..Len(h[x]) : m[i] = h[x][i]
      /\ Len(m) = Len(h[x]) => r = <<>>
  BY <1>1, ImageOfFirst
<1>3. visDecode(m) = v
  <2>1. h \in [Code -> Seq(Code)]
    <3>1. Shown \subseteq Code BY DEF Shown, Code, Space
    <3>2. Seq(Shown) \subseteq Seq(Code) BY <3>1, SeqOfMore
    <3>3. h = [b \in Code |-> h[b]] /\ \A b \in Code : h[b] \in Seq(Code) BY <3>2 DEF Shows
    <3>. QED BY <3>3
  <2>2. \A b \in Code : Reads(vis, AnyBytes, h[b], <<b>>) BY DEF Shows
  <2>. QED BY <2>1, <2>2, ImagesUndone
<1>. HIDE DEF m
<1>4. h[x] \in Seq(Shown) /\ Len(h[x]) \in Nat /\ Len(h[x]) >= 1 /\ Len(m) \in Nat
  <2>1. h[x] \in Seq(Shown) /\ h[x] # <<>> BY DEF Shows
  <2>. QED BY <1>2, <2>1, EmptySeq
<1>5. m # <<>> /\ m[1] = h[x][1] BY <1>2, <1>4
<1>6. CASE x = Tilde
  <2>. DEFINE o == <<Bslash>>
              e == o \o m
  <2>1. o \in Seq(Shown) /\ Len(o) = 1 /\ o[1] = Bslash BY DEF Shown, Bslash, Space
  <2>. HIDE DEF o
  <2>2. /\ e \in Seq(Shown) /\ Len(e) = Len(o) + Len(m)
        /\ \A i \in 1..Len(o) : e[i] = o[i]
        /\ \A i \in 1..Len(m) : e[Len(o) + i] = m[i]
    <3>1. o \in Seq(Shown) /\ m \in Seq(Shown) BY <1>2, <2>1
    <3>. QED BY ONLY <3>1, Follow
  <2>3. tilde(v) = o BY <1>1, <1>6 DEF tilde, o
  <2>4. m[1] = Tilde BY <1>5, <1>6 DEF Shows
  <2>. HIDE DEF e
  <2>5. e[1] = Bslash /\ e[2] = Tilde /\ Len(e) >= 2 /\ e # <<>> /\ Len(e) = 1 + Len(m)
    BY <1>2, <1>4, <2>1, <2>2, <2>4
  <2>6. Tail(e) = m
    <3>1. Tail(e) \in Seq(Shown) /\ Len(Tail(e)) = Len(e) - 1
          /\ \A i \in 1..Len(Tail(e)) : Tail(e)[i] = e[i + 1]
      BY <2>2, <2>5, HeadTailProperties
    <3>. DEFINE t == Tail(e)
    <3>. HIDE DEF t
    <3>2. t \in Seq(Shown) /\ Len(t) = Len(m) /\ \A i \in 1..Len(m) : t[i] = m[i]
      <4>1. \A i \in 1..Len(m) : 1 + i = i + 1 BY <1>4
      <4>. QED BY <1>4, <2>1, <2>2, <2>5, <3>1, <4>1 DEF t
    <3>3. t = m BY <1>2, <3>2, SeqEqual
    <3>. QED BY <3>3 DEF t
  <2>7. unprefixOptionValue(e) = m BY <2>5, <2>6 DEF unprefixOptionValue
  <2>. QED BY <1>3, <2>2, <2>3, <2>5, <2>7 DEF ReadsInner, e, m
<1>7. CASE x # Tilde
  <2>1. tilde(v) = <<>> BY <1>1, <1>7 DEF tilde
  <2>2. <<>> \o m = m BY <1>2, ConcatEmptySeq
  <2>3. m[1] \in {Bslash, x}
    <3>1. h[x][1] # Bslash => h[x] = <<x>> BY DEF Shows
    <3>2. <<x>>[1] = x OBVIOUS
    <3>. QED BY <1>5, <3>1, <3>2
  <2>4. unprefixOptionValue(m) = m
    <3>. SUFFICES ASSUME Len(m) >= 2, m[1] = Bslash,
                         m[2] = Tilde \/ (Len(m) = 2 /\ m[2] \in argsEscapeQuoted)
                  PROVE  FALSE
      BY DEF unprefixOptionValue
    <3>1. /\ Len(h[x]) >= 2 /\ h[x][2] # Tilde
          /\ Len(h[x]) = 2 /\ h[x][2] \in argsEscapeQuoted => x \in argsEscapeQuoted
      BY <1>5 DEF Shows
    <3>2. m[2] = h[x][2] BY <1>2, <1>4, <3>1
    <3>3. Len(m) = 2 /\ m[2] \in argsEscapeQuoted BY <3>1, <3>2
    <3>4. Len(h[x]) = 2 BY <1>2, <1>4, <3>1, <3>3
    <3>5. x \in argsEscapeQuoted BY <3>1, <3>2, <3>3, <3>4
    <3>6. Len(r) = 0 BY <1>2, <3>3, <3>4
    <3>7. Len(v) = 1 BY <1>1, <3>6
    <3>. QED BY <1>1, <3>5, <3>7
  <2>. QED BY <1>1, <1>2, <1>3, <1>5, <2>1, <2>2, <2>3, <2>4 DEF ReadsInner, m
<1>. QED BY <1>6, <1>7

(* What a value is printed as is of bytes that are shown, and some, and is *)
(* read as the value.                                                      *)
PrintRead(v, p) == p \in Seq(Shown) /\ p # <<>> /\ unquoteOptionValue(p) = v

(* A pair of quotes comes off,                                             *)
LEMMA Unquoted ==
  ASSUME NEW A, NEW q \in A, q \in {Quote, Dquote}, NEW e \in Seq(A)
  PROVE  LET p == <<q>> \o e \o <<q>> IN
         /\ p \in Seq(A) /\ p # <<>>
         /\ unquoteOptionValue(p) = visDecode(unprefixOptionValue(e))
<1>. DEFINE s == <<q>>
            a == s \o e
            p == a \o s
            m == Len(e)
<1>1. s \in Seq(A) /\ Len(s) = 1 /\ s[1] = q OBVIOUS
<1>. HIDE DEF s
<1>2. /\ a \in Seq(A) /\ Len(a) = Len(s) + Len(e)
      /\ \A i \in 1..Len(s) : a[i] = s[i]
      /\ \A i \in 1..Len(e) : a[Len(s) + i] = e[i]
  BY ONLY <1>1, e \in Seq(A), Follow
<1>. HIDE DEF a
<1>3. /\ p \in Seq(A) /\ Len(p) = Len(a) + Len(s)
      /\ \A i \in 1..Len(a) : p[i] = a[i]
      /\ \A i \in 1..Len(s) : p[Len(a) + i] = s[i]
  <2>1. a \in Seq(A) /\ s \in Seq(A) BY <1>1, <1>2
  <2>. QED BY ONLY <2>1, Follow
<1>. HIDE DEF p
<1>4. m \in Nat OBVIOUS
<1>5. Len(a) = m + 1 /\ Len(p) = m + 2 BY <1>1, <1>2, <1>3, <1>4
<1>6. p[1] = q /\ p[m + 2] = q
  <2>1. 1 \in 1..Len(a) /\ 1 \in 1..Len(s) /\ Len(a) + 1 = m + 2 BY <1>1, <1>4, <1>5
  <2>. QED BY <1>1, <1>2, <1>3, <2>1
<1>7. \A i \in 1..m : p[i + 1] = e[i]
  <2>1. \A i \in 1..m : i + 1 \in 1..Len(a) /\ 1 + i = i + 1 BY <1>4, <1>5
  <2>. QED BY <1>1, <1>2, <1>3, <2>1
<1>8. SubSeq(p, 2, Len(p) - 1) = e
  <2>. DEFINE t == SubSeq(p, 2, Len(p) - 1)
  <2>1. 2 \in 1..(Len(p) + 1) /\ Len(p) - 1 \in (2 - 1)..Len(p) BY <1>4, <1>5
  <2>2. /\ t \in Seq(A) /\ Len(t) = (Len(p) - 1) - 2 + 1
        /\ \A i \in 1..((Len(p) - 1) - 2 + 1) : t[i] = p[2 + i - 1]
    BY <1>3, <2>1, SubSeqProperties
  <2>. HIDE DEF t
  <2>3. (Len(p) - 1) - 2 + 1 = m /\ \A i \in 1..m : 2 + i - 1 = i + 1 BY <1>4, <1>5
  <2>4. Len(t) = m /\ \A i \in 1..m : t[i] = e[i] BY <1>7, <2>2, <2>3
  <2>5. t = e BY <2>2, <2>4, SeqEqual
  <2>. QED BY <2>5 DEF t
<1>9. Len(p) >= 2 /\ Last(p) = q /\ p # <<>> BY <1>4, <1>5, <1>6 DEF Last
<1>10. unquoteOptionValue(p) = visDecode(unprefixOptionValue(e))
  BY <1>6, <1>8, <1>9 DEF unquoteOptionValue
<1>. QED BY <1>3, <1>9, <1>10 DEF p, a, s

(* and nothing else does.                                                  *)
LEMMA NotQuoted ==
  ASSUME NEW p, p[1] \notin {Quote, Dquote}
  PROVE  unquoteOptionValue(p) = visDecode(unprefixOptionValue(p))
BY DEF unquoteOptionValue

(* Whatever the value and the form.                                        *)
LEMMA ValueRead ==
  ASSUME NEW v \in Seq(Code), NEW p \in Printed(v)
  PROVE  PrintRead(v, p)
<1>1. visDecode(<<>>) = <<>>
  <2>1. <<>> \in Seq(Nat) OBVIOUS
  <2>. QED BY <2>1, VisIs DEF vis
<1>2. Quote \in Shown /\ Dquote \in Shown /\ Bslash \in Shown /\ argsEscapeQuoted \subseteq Shown
  BY DEF Shown, Quote, Dquote, Bslash, argsEscapeQuoted, Hash, Dollar, Space
<1>3. CASE v = <<>>
  <2>1. p = <<Quote, Quote>> BY <1>3 DEF Printed
  <2>2. p \in Seq(Shown) /\ Len(p) = 2 /\ p # <<>> BY <1>2, <2>1
  <2>3. SubSeq(p, 2, Len(p) - 1) = <<>> BY <2>2
  <2>4. unprefixOptionValue(<<>>) = <<>> BY DEF unprefixOptionValue
  <2>5. Last(p) = Quote /\ p[1] = Quote BY <2>1 DEF Last
  <2>6. unquoteOptionValue(p) = visDecode(<<>>)
    <3>1. Len(p) >= 2 /\ Last(p) = p[1] /\ p[1] \in {Quote, Dquote} BY <2>2, <2>5
    <3>. QED BY <2>3, <2>4, <3>1, Zenon DEF unquoteOptionValue
  <2>. QED BY <1>1, <1>3, <2>2, <2>6 DEF PrintRead
<1>4. CASE v # <<>> /\ Len(v) = 1 /\ v[1] \in argsEscapeQuoted
  <2>. DEFINE b == v[1]
  <2>1. p = <<Bslash, b>> BY <1>4 DEF Printed
  <2>2. b \in argsEscapeQuoted /\ b \in Nat /\ b # Bslash /\ b \in Shown
    BY <1>2, <1>4 DEF argsEscapeQuoted, Bslash, Hash, Quote, Dollar, Dquote
  <2>3. v = <<b>> BY <1>4
  <2>. HIDE DEF b
  <2>4. p \in Seq(Shown) /\ Len(p) = 2 /\ p # <<>> /\ p[1] = Bslash /\ p[2] = b /\ Tail(p) = <<b>>
    BY <1>2, <2>1, <2>2
  <2>5. Bslash \notin {Quote, Dquote} BY DEF Bslash, Quote, Dquote
  <2>6. unprefixOptionValue(p) = <<b>> BY <2>2, <2>4 DEF unprefixOptionValue
  <2>7. visDecode(<<b>>) = <<b>>
    <3>. DEFINE o == <<b>>
    <3>1. o \in Seq(Nat) BY <2>2
    <3>2. Reads(vis, AnyBytes, o, o) BY <2>2, VisPlain
    <3>. HIDE DEF o
    <3>3. <<>> \in AnyBytes BY DEF AnyBytes
    <3>4. vis[o \o <<>>] = o \o vis[<<>>] BY <3>2, <3>3 DEF Reads
    <3>5. o \o <<>> = o BY <3>1, ConcatEmptySeq
    <3>6. vis[o] = o BY <3>4, <3>5, VisIs
    <3>7. visDecode(o) = o BY <3>1, <3>6 DEF vis
    <3>. QED BY <3>7 DEF o
  <2>8. unquoteOptionValue(p) = v BY <2>3, <2>4, <2>5, <2>6, <2>7, NotQuoted
  <2>. QED BY <2>4, <2>8 DEF PrintRead
<1>5. CASE v # <<>> /\ ~(Len(v) = 1 /\ v[1] \in argsEscapeQuoted)
  <2>. DEFINE body == tilde(v) \o Mapped(tmuxVis, v)
              inDouble == tilde(v) \o Mapped(doubleVis, v)
              special == \E i \in 1..Len(v) : v[i] \in argsEscapeQuoted \union {Space}
  <2>1. ReadsInner(tmuxVis, v, body) /\ ReadsInner(doubleVis, v, inDouble)
    BY <1>5, InnerRead, ImagesShow
  <2>2. Map(LAMBDA b : IF b = Dquote THEN <<Bslash, b>> ELSE visEscape(b), v) = Mapped(doubleVis, v)
    <3>1. \A i \in 1..Len(v) : v[i] \in Code OBVIOUS
    <3>2. [i \in 1..Len(v) |-> IF v[i] = Dquote THEN <<Bslash, v[i]>> ELSE visEscape(v[i])]
            = [i \in 1..Len(v) |-> doubleVis[v[i]]]
      BY <3>1 DEF doubleVis
    <3>. QED BY <3>2, Zenon DEF Map, Mapped
  <2>3. TmuxVis(v) = Mapped(tmuxVis, v) BY EncodersMap
  <2>4. Printed(v) =
          IF ~special THEN {body}
          ELSE {<<Dquote>> \o inDouble \o <<Dquote>>, <<Quote>> \o body \o <<Quote>>}
    BY <1>5, <2>2, <2>3, Zenon DEF Printed, tilde
  <2>. HIDE DEF body, inDouble
  <2>5. CASE ~special
    <3>1. p = body BY <2>4, <2>5
    <3>2. v[1] \notin {Quote, Dquote}
      <4>1. 1 \in 1..Len(v) BY <1>5, EmptySeq
      <4>. QED BY <2>5, <4>1 DEF argsEscapeQuoted
    <3>3. body[1] \notin {Quote, Dquote}
      <4>1. body[1] = Bslash \/ body[1] = v[1] BY <2>1, Zenon DEF ReadsInner
      <4>2. Bslash \notin {Quote, Dquote} BY DEF Bslash, Quote, Dquote
      <4>. QED BY ONLY <3>2, <4>1, <4>2
    <3>. QED BY <2>1, <3>1, <3>3, NotQuoted DEF ReadsInner, PrintRead
  <2>6. CASE p = <<Dquote>> \o inDouble \o <<Dquote>>
    <3>1. inDouble \in Seq(Shown) /\ visDecode(unprefixOptionValue(inDouble)) = v
      BY <2>1 DEF ReadsInner
    <3>. QED BY <1>2, <2>6, <3>1, Unquoted DEF PrintRead
  <2>7. CASE p = <<Quote>> \o body \o <<Quote>>
    <3>1. body \in Seq(Shown) /\ visDecode(unprefixOptionValue(body)) = v
      BY <2>1 DEF ReadsInner
    <3>. QED BY <1>2, <2>7, <3>1, Unquoted DEF PrintRead
  <2>. QED BY <2>4, <2>5, <2>6, <2>7
<1>. QED BY <1>3, <1>4, <1>5

-----------------------------------------------------------------------------
(* A name and the elements of its array *)

(* What ends without a '$' ended so before a faulty tmux stored it.        *)
LEMMA EndKept ==
  ASSUME NEW f \in BOOLEAN
  PROVE  \A s \in Seq(Code) : \A p \in Seq(Code), y \in NoDollars :
           Mapped(dollars(f), s) = p \o y => \E q \in Seq(Code) : s = q \o y
<1>. DEFINE h == dollars(f)
            Ends(s) == \A p \in Seq(Code), y \in NoDollars :
                         Mapped(h, s) = p \o y => \E q \in Seq(Code) : s = q \o y
            Z == {s \in Seq(Code) : Ends(s)}
<1>1. h \in [Code -> Seq(Code)] /\ \A x \in Code : \E k \in Seq(Code) :
        h[x] = Append(k, x) /\ (x # Dollar => k = <<>>)
  <2>1. h \in [Code -> Seq(Code)] BY DollarsTyped
  <2>2. ASSUME NEW x \in Code
        PROVE  \E k \in Seq(Code) : h[x] = Append(k, x) /\ (x # Dollar => k = <<>>)
    <3>1. CASE f /\ x = Dollar
      <4>1. Bslash \in Code BY DEF Bslash, Code
      <4>2. <<Bslash>> \in Seq(Code) /\ <<Bslash, x>> = Append(<<Bslash>>, x) BY <4>1
      <4>3. h[x] = <<Bslash, x>> BY <3>1 DEF dollars
      <4>. QED BY <3>1, <4>2, <4>3
    <3>2. CASE ~(f /\ x = Dollar)
      <4>1. h[x] = <<x>> BY <3>2 DEF dollars
      <4>2. <<>> \in Seq(Code) /\ <<x>> = Append(<<>>, x) OBVIOUS
      <4>. QED BY <4>1, <4>2
    <3>. QED BY <3>1, <3>2
  <2>. QED BY <2>1, <2>2
<1>2. MapsEach(Code, Code, h) BY <1>1, MappedEach
<1>. HIDE DEF h
<1>3. NoDollars \subseteq Seq(Code)
  <2>1. Code \ {Dollar} \subseteq Code OBVIOUS
  <2>. QED BY <2>1, SeqOfMore DEF NoDollars
<1>4. <<>> \in Z
  <2>. SUFFICES ASSUME NEW p \in Seq(Code), NEW y \in NoDollars, <<>> = p \o y
                PROVE  \E q \in Seq(Code) : <<>> = q \o y
    BY <1>2 DEF MapsEach
  <2>1. <<>> \in Seq(Code) /\ y \in Seq(Code) BY <1>3
  <2>2. Len(p \o y) = Len(p) + Len(y) /\ Len(p) \in Nat /\ Len(y) \in Nat BY <2>1
  <2>3. Len(y) = 0 BY <2>2
  <2>4. y = <<>> BY <2>1, <2>3, EmptySeq
  <2>. QED BY <2>1, <2>4, ConcatEmptySeq
<1>5. ASSUME NEW s \in Seq(Code), NEW x \in Code, s \in Z
      PROVE  Append(s, x) \in Z
  <2>1. Append(s, x) \in Seq(Code) OBVIOUS
  <2>. SUFFICES ASSUME NEW p \in Seq(Code), NEW y \in NoDollars, Mapped(h, Append(s, x)) = p \o y
                PROVE  \E q \in Seq(Code) : Append(s, x) = q \o y
    BY <2>1
  <2>2. CASE y = <<>> BY <2>1, <2>2, ConcatEmptySeq
  <2>3. CASE y # <<>>
    <3>1. PICK r \in NoDollars, z \in Code \ {Dollar} : y = Append(r, z)
      BY <2>3, HasLast DEF NoDollars
    <3>2. r \in Seq(Code) /\ z \in Code BY <1>3, <3>1
    <3>3. PICK k \in Seq(Code) : h[x] = Append(k, x) /\ (x # Dollar => k = <<>>) BY <1>1
    <3>. DEFINE m == Mapped(h, s)
                u == m \o k
                w == p \o r
    <3>4. m \in Seq(Code) BY <1>2 DEF MapsEach
    <3>. HIDE DEF m
    <3>5. u \in Seq(Code) /\ w \in Seq(Code) BY <3>2, <3>4, ConcatProperties
    <3>6. EndsLater(m, k, x) /\ EndsLater(p, r, z) BY <3>2, <3>4, AppendLater
    <3>7. Mapped(h, Append(s, x)) = m \o h[x] BY <1>2 DEF MapsEach, m
    <3>8. Append(u, x) = Append(w, z) BY <3>1, <3>3, <3>6, <3>7 DEF EndsLater
    <3>. HIDE DEF u, w
    <3>9. u = w /\ x = z
      <4>. DEFINE a == Append(u, x)
                  c == Append(w, z)
      <4>1. /\ Len(a) = Len(u) + 1 /\ a[Len(u) + 1] = x /\ \A i \in 1..Len(u) : a[i] = u[i]
            /\ Len(c) = Len(w) + 1 /\ c[Len(w) + 1] = z /\ \A i \in 1..Len(w) : c[i] = w[i]
        BY <3>2, <3>5, AppendProperties
      <4>2. a = c BY <3>8
      <4>. HIDE DEF a, c
      <4>3. Len(u) \in Nat /\ Len(w) \in Nat BY <3>5
      <4>4. Len(u) = Len(w) BY <4>1, <4>2, <4>3
      <4>5. x = z /\ \A i \in 1..Len(w) : u[i] = w[i] BY <4>1, <4>2, <4>4
      <4>6. u = w BY <3>5, <4>4, <4>5, SeqEqual
      <4>. QED BY <4>5, <4>6
    <3>10. m = p \o r
      <4>1. k = <<>> BY <3>1, <3>3, <3>9
      <4>2. u = m BY <3>4, <4>1, ConcatEmptySeq DEF u
      <4>. QED BY <3>9, <4>2 DEF w
    <3>11. PICK q \in Seq(Code) : s = q \o r BY <1>5, <3>1, <3>10 DEF m
    <3>12. EndsLater(q, r, x) BY <3>2, AppendLater
    <3>13. Append(s, x) = q \o y BY <3>1, <3>9, <3>11, <3>12 DEF EndsLater
    <3>. QED BY <3>13
  <2>. QED BY <2>2, <2>3
<1>. HIDE DEF Z
<1>6. \A s \in Seq(Code) : s \in Z BY <1>4, <1>5, ByAppend
<1>. QED BY <1>6 DEF Z, h

(* What begins like the index of an array at o and ends with it.           *)
IndexAt(w, o) ==
  /\ o \in 1..Len(w) /\ o + 2 <= Len(w) /\ w[o] = Open /\ w[Len(w)] = Close
  /\ \A j \in (o + 1)..(Len(w) - 1) : w[j] \in Digits

(* What splitArrayElement finds.                                           *)
LEMMA ElementHasIndex ==
  ASSUME NEW w \in Seq(Code), NEW name, isArrayElement(w, name)
  PROVE  \E o \in 2..Len(w) : IndexAt(w, o) /\ name = SubSeq(w, 1, o - 1)
<1>. DEFINE L == Len(w)
            opens == {i \in 1..Len(w) : w[i] = Open}
            o == CHOOSE i \in opens : \A j \in opens : j <= i
            index == SubSeq(w, o + 1, Len(w) - 1)
<1>1. /\ opens # {} /\ o > 1 /\ Last(w) = Close /\ index # <<>>
      /\ \A j \in 1..Len(index) : index[j] \in Digits
      /\ SubSeq(w, 1, o - 1) = name
  <2>1. (opens # {} /\ o > 1 /\ Last(w) = Close
           /\ index # <<>> /\ \A j \in 1..Len(index) : index[j] \in Digits)
    BY Zenon DEF isArrayElement, splitArrayElement
  <2>2. splitArrayElement(w).base = SubSeq(w, 1, o - 1) BY <2>1, Zenon DEF splitArrayElement
  <2>. QED BY <2>1, <2>2 DEF isArrayElement
<1>2. L \in Nat OBVIOUS
<1>3. o \in opens
  <2>. DEFINE S == {n \in Nat : L - n \in opens}
  <2>1. S \subseteq Nat OBVIOUS
  <2>2. S # {}
    <3>1. PICK i \in opens : TRUE BY <1>1
    <3>2. L - i \in Nat /\ L - (L - i) = i BY <1>2
    <3>3. L - i \in S BY <3>1, <3>2
    <3>. QED BY <3>3
  <2>3. PICK n \in S : \A k \in S : n <= k
    <3>. HIDE DEF S
    <3>. QED BY <2>1, <2>2, NatMin
  <2>4. ASSUME NEW j \in opens PROVE j <= L - n
    <3>1. L - j \in Nat /\ L - (L - j) = j BY <1>2
    <3>2. L - j \in S BY <3>1
    <3>3. n <= L - j /\ n \in Nat BY <2>3, <3>2
    <3>. QED BY <1>2, <3>3
  <2>5. L - n \in opens BY <2>3
  <2>6. \E i \in opens : \A j \in opens : j <= i BY <2>4, <2>5
  <2>. HIDE DEF opens
  <2>. QED BY <2>6, Zenon
<1>4. o \in 1..L /\ w[o] = Open BY <1>3
<1>. HIDE DEF o, opens, L
<1>5. o + 1 <= L - 1
  <2>. SUFFICES ASSUME o + 1 > L - 1 PROVE FALSE BY <1>2, <1>4
  <2>1. SubSeq(w, o + 1, L - 1) = <<>> BY <1>2, <1>4, SubSeqEmpty
  <2>. QED BY <1>1, <2>1 DEF L
<1>6. ASSUME NEW j \in (o + 1)..(L - 1) PROVE w[j] \in Digits
  <2>1. o + 1 \in 1..(L + 1) /\ L - 1 \in o..L /\ (o + 1) - 1 = o BY <1>2, <1>4, <1>5
  <2>2. /\ Len(index) = (L - 1) - (o + 1) + 1
        /\ \A i \in 1..((L - 1) - (o + 1) + 1) : index[i] = w[(o + 1) + i - 1]
    BY <2>1, SubSeqProperties DEF L
  <2>. HIDE DEF index
  <2>3. j - o \in 1..((L - 1) - (o + 1) + 1) /\ (o + 1) + (j - o) - 1 = j BY <1>2, <1>4, <1>5
  <2>. QED BY <1>1, <2>2, <2>3
<1>7. w[L] = Close BY <1>1 DEF Last, L
<1>8. o \in 2..L /\ o + 2 <= L BY <1>1, <1>2, <1>4, <1>5
<1>9. IndexAt(w, o) BY <1>4, <1>6, <1>7, <1>8 DEF IndexAt, L
<1>. QED BY <1>1, <1>8, <1>9 DEF L

(* What a name is stored as is no element of the array of that name, if    *)
(* the name is not one of an element.                                      *)
LEMMA NotItsElement ==
  ASSUME NEW f \in BOOLEAN, NEW name \in Seq(Code), ~Indexed(name)
  PROVE  ~isArrayElement(DollarFault(f, name), name)
<1>. DEFINE D == DollarFault(f, name)
            h == dollars(f)
<1>. SUFFICES ASSUME isArrayElement(D, name) PROVE FALSE OBVIOUS
<1>1. D \in Seq(Code) BY FaultTyped
<1>. HIDE DEF D
<1>2. PICK o \in 2..Len(D) : IndexAt(D, o) /\ name = SubSeq(D, 1, o - 1)
  BY <1>1, ElementHasIndex
<1>. DEFINE m == Len(D)
            y == SubSeq(D, o, m)
<1>3. m \in Nat /\ o \in Nat /\ o >= 2 /\ o + 2 <= m BY <1>1, <1>2 DEF IndexAt
<1>4. Len(name) = o - 1
  <2>1. 1 \in 1..(m + 1) /\ o - 1 \in (1 - 1)..m BY <1>3
  <2>2. Len(SubSeq(D, 1, o - 1)) = (o - 1) - 1 + 1 BY <1>1, <2>1, SubSeqProperties
  <2>. QED BY <1>2, <1>3, <2>2
<1>5. y \in Seq(Code) /\ Len(y) = m - o + 1 /\ \A i \in 1..(m - o + 1) : y[i] = D[o + i - 1]
  <2>1. o \in 1..(m + 1) /\ m \in (o - 1)..m BY <1>3
  <2>. QED BY <1>1, <2>1, SubSeqProperties
<1>6. D = name \o y
  <2>. DEFINE w == name \o y
              n == Len(name)
  <2>. HIDE DEF y
  <2>1. /\ w \in Seq(Code) /\ Len(w) = Len(name) + Len(y)
        /\ \A i \in 1..Len(name) : w[i] = name[i]
        /\ \A i \in 1..Len(y) : w[Len(name) + i] = y[i]
    <3>1. name \in Seq(Code) /\ y \in Seq(Code) BY <1>5 DEF y
    <3>. QED BY ONLY <3>1, Follow
  <2>. HIDE DEF w
  <2>2. Len(w) = m BY <1>3, <1>4, <1>5, <2>1
  <2>3. ASSUME NEW i \in 1..m PROVE w[i] = D[i]
    <3>1. CASE i <= o - 1
      <4>1. 1 \in 1..(m + 1) /\ o - 1 \in (1 - 1)..m BY <1>3
      <4>2. \A k \in 1..((o - 1) - 1 + 1) : SubSeq(D, 1, o - 1)[k] = D[1 + k - 1]
        BY <1>1, <4>1, SubSeqProperties
      <4>3. i \in 1..((o - 1) - 1 + 1) /\ 1 + i - 1 = i /\ i \in 1..Len(name) BY <1>3, <1>4, <3>1
      <4>. QED BY <1>2, <2>1, <4>2, <4>3
    <3>2. CASE i > o - 1
      <4>1. i - (o - 1) \in 1..Len(y) /\ Len(name) + (i - (o - 1)) = i
            /\ o + (i - (o - 1)) - 1 = i /\ i - (o - 1) \in 1..(m - o + 1)
        BY <1>3, <1>4, <1>5, <3>2
      <4>. QED BY <1>5, <2>1, <4>1
    <3>. QED BY <1>3, <3>1, <3>2
  <2>4. w = D BY <1>1, <2>1, <2>2, <2>3, SeqEqual
  <2>. QED BY <2>4 DEF w
<1>7. y \in NoDollars /\ y # <<>>
  <2>1. ASSUME NEW i \in 1..Len(y) PROVE y[i] \in Code \ {Dollar}
    <3>1. y[i] = D[o + i - 1] /\ y[i] \in Code BY <1>5
    <3>2. o + i - 1 \in o..m BY <1>3, <1>5
    <3>3. \A k \in o..m : k = o \/ k = m \/ k \in (o + 1)..(m - 1) BY <1>3
    <3>4. D[o + i - 1] \in {Open, Close} \union Digits BY <1>2, <3>2, <3>3 DEF IndexAt
    <3>5. Dollar \notin {Open, Close} \union Digits BY DEF Dollar, Open, Close, Digits, Zero
    <3>. QED BY <3>1, <3>4, <3>5
  <2>. HIDE DEF y
  <2>2. y \in Seq(Code \ {Dollar})
    <3>1. y \in [1..Len(y) -> Code \ {Dollar}] /\ Len(y) \in Nat BY <1>5, <2>1
    <3>. QED BY <3>1
  <2>3. Len(y) # 0 BY <1>3, <1>5
  <2>. QED BY <2>2, <2>3 DEF NoDollars
<1>. HIDE DEF y
<1>8. Mapped(h, name) = D
  <2>1. name # <<>> BY <1>3, <1>4
  <2>2. PICK s \in Seq(Code), x \in Code : name = Append(s, x) BY <2>1, HasLast
  <2>3. FaultOf(f, s, x) BY FaultIs
  <2>. DEFINE k == Mapped(h, s)
              v == k \o <<x>>
  <2>4. MapsEach(Code, Code, h) BY DollarsTyped, MappedEach
  <2>5. k \in Seq(Code) /\ Mapped(h, name) = k \o h[x] BY <2>2, <2>4 DEF MapsEach
  <2>6. D = v BY <2>2, <2>3 DEF FaultOf, D
  <2>7. v[Len(v)] = x
    <3>. DEFINE e == <<x>>
    <3>1. e \in Seq(Code) /\ Len(e) = 1 /\ e[1] = x OBVIOUS
    <3>. HIDE DEF e, k
    <3>2. Len(k \o e) = Len(k) + Len(e) /\ \A i \in 1..Len(e) : (k \o e)[Len(k) + i] = e[i]
      <4>1. k \in Seq(Code) /\ e \in Seq(Code) BY <2>5, <3>1 DEF k
      <4>. QED BY ONLY <4>1, Follow
    <3>. QED BY <3>1, <3>2 DEF e
  <2>. HIDE DEF v, k
  <2>8. x = Close BY <1>2, <2>6, <2>7 DEF IndexAt
  <2>9. h[x] = <<x>> BY <2>8 DEF dollars, Close, Dollar
  <2>. QED BY <2>5, <2>6, <2>9 DEF v
<1>9. PICK q \in Seq(Code) : name = q \o y 
  <2>1. Mapped(dollars(f), name) = name \o y BY <1>6, <1>8
  <2>. HIDE DEF h
  <2>. DEFINE d == dollars(f)
  <2>2. \A s \in Seq(Code) : \A p \in Seq(Code), z \in NoDollars :
          Mapped(d, s) = p \o z => \E q \in Seq(Code) : s = q \o z
    BY EndKept
  <2>. HIDE DEF d
  <2>. QED BY <1>7, <2>1, <2>2, Zenon DEF d
<1>10. CASE q = <<>>
  <2>1. name = y BY <1>5, <1>9, <1>10, ConcatEmptySeq
  <2>2. D = name BY <1>7, <1>8, <2>1, NoDollarsStored
  <2>. QED BY <1>3, <1>4, <2>2
<1>11. CASE q # <<>>
  <2>. DEFINE a == Len(q)
              c == Len(y)
              n == Len(name)
  <2>1. a \in Nat /\ a >= 1 BY <1>11, EmptySeq
  <2>2. /\ n = a + c /\ \A i \in 1..c : name[a + i] = y[i]
    <3>1. q \in Seq(Code) /\ y \in Seq(Code) BY <1>5
    <3>2. Len(q \o y) = Len(q) + Len(y) /\ \A i \in 1..Len(y) : (q \o y)[Len(q) + i] = y[i]
      BY ONLY <3>1, Follow
    <3>. QED BY <1>9, <3>2
  <2>3. c = m - o + 1 /\ c \in Nat /\ c >= 3 BY <1>3, <1>5
  <2>. HIDE DEF a, c
  <2>4. n >= 1 /\ name # <<>> BY <2>1, <2>2, <2>3
  <2>5. name[n] = Close
    <3>1. c \in 1..c /\ c \in 1..(m - o + 1) /\ o + c - 1 = m BY <1>3, <2>3
    <3>2. name[a + c] = D[m] BY <1>5, <2>2, <3>1
    <3>. QED BY <1>2, <2>2, <3>2 DEF IndexAt
  <2>6. a + 1 \in 2..(n - 2) BY <2>1, <2>2, <2>3
  <2>7. name[a + 1] = Open
    <3>1. 1 \in 1..c /\ 1 \in 1..(m - o + 1) /\ o + 1 - 1 = o BY <1>3, <2>3
    <3>2. name[a + 1] = D[o] BY <1>5, <2>2, <3>1
    <3>. QED BY <1>2, <3>2 DEF IndexAt
  <2>8. ASSUME NEW j \in ((a + 1) + 1)..(n - 1) PROVE name[j] \in Digits
    <3>. DEFINE i == j - a
    <3>1. /\ i \in 1..c /\ i \in 1..(m - o + 1) /\ a + i = j /\ o + i - 1 \in (o + 1)..(m - 1)
      BY <1>3, <2>1, <2>2, <2>3
    <3>. HIDE DEF i
    <3>2. name[j] = D[o + i - 1] BY <1>5, <2>2, <3>1
    <3>. QED BY <1>2, <3>1, <3>2 DEF IndexAt
  <2>9. Indexed(name) BY <2>4, <2>5, <2>6, <2>7, <2>8 DEF Indexed, Last
  <2>. QED BY <2>9
<1>. QED BY <1>10, <1>11

-----------------------------------------------------------------------------
(* The lines of show-options *)

(* The bytes of a name, and the names that are not refused.                *)
Graphic == (Space + 1)..255
OptionName == {n \in Seq(Code) : checkOptionName(n)}

(* A name is stored as such bytes, and some.                               *)
LEMMA NameStored ==
  ASSUME NEW f \in BOOLEAN, NEW n \in OptionName
  PROVE  /\ n \in Seq(Code) /\ DollarFault(f, n) \in Seq(Code)
         /\ DollarFault(f, n) \in Seq(Graphic) /\ DollarFault(f, n) # <<>>
<1>. DEFINE h == dollars(f)
            Z == {s \in Seq(Graphic) : Mapped(h, s) \in Seq(Graphic)}
<1>1. n \in Seq(Code) /\ n # <<>> /\ \A i \in 1..Len(n) : n[i] > Space
  BY DEF OptionName, checkOptionName
<1>2. n \in Seq(Graphic)
  <2>1. \A i \in 1..Len(n) : n[i] \in Graphic
    <3>1. \A b \in Code : b > Space => b \in Graphic BY DEF Code, Graphic, Space
    <3>2. \A i \in 1..Len(n) : n[i] \in Code BY <1>1
    <3>. QED BY <1>1, <3>1, <3>2
  <2>2. n \in [1..Len(n) -> Graphic] /\ Len(n) \in Nat BY <1>1, <2>1
  <2>. QED BY <2>2
<1>3. Graphic \subseteq Code BY DEF Graphic, Code, Space
<1>4. Seq(Graphic) \subseteq Seq(Code) BY <1>3, SeqOfMore
<1>5. MapsEach(Code, Code, h) BY DollarsTyped, MappedEach
<1>6. \A x \in Graphic : h[x] \in Seq(Graphic)
  <2>1. Bslash \in Graphic BY DEF Bslash, Graphic, Space
  <2>2. \A x \in Graphic : <<x>> \in Seq(Graphic) /\ <<Bslash, x>> \in Seq(Graphic) BY <2>1
  <2>3. \A x \in Graphic : h[x] \in {<<x>>, <<Bslash, x>>} BY <1>3 DEF dollars
  <2>. QED BY <2>2, <2>3
<1>. HIDE DEF h
<1>7. <<>> \in Z
  <2>1. <<>> \in Seq(Graphic) OBVIOUS
  <2>. QED BY <1>5, <2>1 DEF MapsEach
<1>8. ASSUME NEW s \in Seq(Graphic), NEW x \in Graphic, s \in Z PROVE Append(s, x) \in Z
  <2>1. s \in Seq(Code) /\ x \in Code BY <1>3, <1>4
  <2>2. Mapped(h, Append(s, x)) = Mapped(h, s) \o h[x] BY <1>5, <2>1 DEF MapsEach
  <2>3. Mapped(h, s) \o h[x] \in Seq(Graphic) BY <1>6, <1>8, ConcatProperties
  <2>4. Append(s, x) \in Seq(Graphic) OBVIOUS
  <2>. QED BY <2>2, <2>3, <2>4
<1>. HIDE DEF Z
<1>9. \A s \in Seq(Graphic) : s \in Z BY <1>7, <1>8, ByAppend
<1>10. PICK s \in Seq(Graphic), x \in Graphic : n = Append(s, x) BY <1>1, <1>2, HasLast
<1>11. DollarFault(f, n) = Mapped(h, s) \o <<x>>
  <2>1. s \in Seq(Code) /\ x \in Code BY <1>3, <1>4
  <2>2. FaultOf(f, s, x) BY <2>1, FaultIs
  <2>. QED BY <1>10, <2>2 DEF FaultOf, h
<1>. DEFINE m == Mapped(h, s)
            e == <<x>>
<1>12. m \in Seq(Graphic) /\ e \in Seq(Graphic) /\ Len(e) = 1 BY <1>9 DEF Z
<1>. HIDE DEF m, e
<1>13. m \o e \in Seq(Graphic) /\ Len(m \o e) = Len(m) + Len(e) /\ Len(m) \in Nat
  BY <1>12, ConcatProperties
<1>. DEFINE D == m \o e
<1>. HIDE DEF D
<1>14. D \in Seq(Graphic) /\ D # <<>>
  <2>1. D \in Seq(Graphic) /\ Len(D) # 0 BY <1>12, <1>13 DEF D
  <2>. QED BY <2>1
<1>15. DollarFault(f, n) = D BY <1>11 DEF D, m, e
<1>. QED BY <1>1, <1>4, <1>14, <1>15

(* An entry of a table that stores the option w.                           *)
OptionEntry == [of : Seq(Code), name : Seq(Code), value : Seq(Code)]
StoredAs(f, e, w) ==
  /\ e \in OptionEntry /\ w \in [name : OptionName, value : Seq(Code)]
  /\ e.name = DollarFault(f, w.name) /\ e.value = DollarFault(f, w.value)

(* A line that is read as the entry's name and the option's value.         *)
Says(f, e, w, line) ==
  /\ line \in Seq(Shown) /\ line # <<>>
  /\ CutAt(line, Space).before = e.name
  /\ decodeStored(f, e.name) = w.name
  /\ (IF CutAt(line, Space).found
      THEN decodeStored(f, unquoteOptionValue(CutAt(line, Space).after)) ELSE <<>>) = w.value

(* Each line that there may be is.                                         *)
LEMMA LineIsRead ==
  ASSUME NEW f \in BOOLEAN, NEW e, NEW w, StoredAs(f, e, w), NEW line \in LineOf(e)
  PROVE  Says(f, e, w, line)
<1>. DEFINE n == e.name
            v == e.value
<1>1. /\ n \in Seq(Code) /\ n \in Seq(Graphic) /\ n # <<>> /\ v \in Seq(Code)
      /\ w.value \in Seq(Code) /\ w.name \in Seq(Code)
      /\ decodeStored(f, n) = w.name /\ decodeStored(f, v) = w.value
  <2>1. w.name \in OptionName /\ w.value \in Seq(Code) /\ e \in OptionEntry BY DEF StoredAs
  <2>2. n = DollarFault(f, w.name) /\ v = DollarFault(f, w.value) BY DEF StoredAs
  <2>3. w.name \in Seq(Code) BY <2>1 DEF OptionName
  <2>4. v \in Seq(Code) BY <2>1 DEF OptionEntry
  <2>. QED BY <2>1, <2>2, <2>3, <2>4, NameStored, FaultUndone
<1>. HIDE DEF n, v
<1>2. Graphic \subseteq Shown /\ Space \in Shown /\ Shown \subseteq Code
  BY DEF Graphic, Shown, Space, Code
<1>3. n \in Seq(Shown) BY <1>1, <1>2, SeqOfMore
<1>4. \A i \in 1..Len(n) : n[i] # Space
  <2>1. \A b \in Graphic : b # Space BY DEF Graphic, Space
  <2>. QED BY <1>1, <2>1
<1>5. CASE \E p \in Printed(v) : line = n \o <<Space>> \o p
  <2>1. PICK p \in Printed(v) : line = n \o <<Space>> \o p BY <1>5
  <2>2. PrintRead(v, p) BY <1>1, ValueRead
  <2>. DEFINE s == <<Space>>
              k == n \o s
              l == k \o p
  <2>3. s \in Seq(Shown) /\ Len(s) = 1 BY <1>2
  <2>4. p \in Seq(Shown) BY <2>2 DEF PrintRead
  <2>5. CutInTwo(n, p, Space) BY <1>2, <1>3, <1>4, <2>4, CutThere
  <2>. HIDE DEF s
  <2>6. k \in Seq(Shown) /\ Len(k) = Len(n) + Len(s) BY <1>3, <2>3, ConcatProperties
  <2>. HIDE DEF k
  <2>7. l \in Seq(Shown) /\ Len(l) = Len(k) + Len(p) BY <2>4, <2>6, ConcatProperties
  <2>. HIDE DEF l
  <2>8. line = l BY <2>1 DEF l, k, s
  <2>9. l # <<>>
    <3>1. Len(n) \in Nat /\ Len(p) \in Nat BY <1>1, <2>4
    <3>2. Len(l) # 0 BY <2>3, <2>6, <2>7, <3>1
    <3>. QED BY <2>7, <3>2
  <2>10. CutAt(line, Space) = [before |-> n, after |-> p, found |-> TRUE]
    BY <2>5, <2>8 DEF CutInTwo, l, k, s
  <2>11. unquoteOptionValue(p) = v BY <2>2 DEF PrintRead
  <2>. QED BY <1>1, <2>7, <2>8, <2>9, <2>10, <2>11 DEF Says, n
<1>6. CASE line = n /\ v = <<>>
  <2>1. CutAt(line, Space) = [before |-> n, after |-> <<>>, found |-> FALSE]
    BY <1>4, <1>6, CutNowhere
  <2>2. w.value = <<>>
    <3>1. <<>> \in Seq(Code) OBVIOUS
    <3>2. DollarFault(f, <<>>) = <<>> BY FaultIs
    <3>3. decodeStored(f, <<>>) = <<>> BY <3>1, <3>2, FaultUndone
    <3>. QED BY <1>1, <1>6, <3>3
  <2>. QED BY <1>1, <1>3, <1>6, <2>1, <2>2 DEF Says, n
<1>7. line \in {n \o <<Space>> \o p : p \in Printed(v)} \/ (v = <<>> /\ line = n)
  BY DEF LineOf, n, v
<1>. QED BY <1>5, <1>6, <1>7

(* Lines in which everything is shown come back.                           *)
LEMMA LinesBack ==
  ASSUME NEW lines \in Seq(Seq(Shown))
  PROVE  splitLines(Lines(lines)) = lines
<1>. DEFINE A == Code \ {Newline}
<1>1. Newline \in Code /\ Shown \subseteq A /\ Return \notin Shown
  BY DEF Newline, Code, Shown, Space, Return
<1>2. Seq(Shown) \subseteq Seq(A) BY <1>1, SeqOfMore
<1>3. ASSUME NEW l \in Seq(Shown) PROVE trimmed(l) = l
  <2>1. CASE l = <<>> BY <2>1 DEF trimmed, TrimSuffix
  <2>2. CASE l # <<>>
    <3>1. Len(l) \in 1..Len(l) BY <2>2, EmptySeq
    <3>2. Last(l) \in Shown BY <3>1 DEF Last
    <3>. QED BY <1>1, <3>2 DEF trimmed, TrimSuffix
  <2>. QED BY <2>1, <2>2
<1>4. CASE lines = <<>>
  <2>1. LinesJoined(lines)
    <3>1. Seq(Shown) \subseteq Seq(Code)
      <4>1. Shown \subseteq Code BY <1>1
      <4>. QED BY <4>1, SeqOfMore
    <3>2. lines \in Seq(Seq(Code)) BY <3>1, SeqOfMore
    <3>. QED BY <1>1, <3>2, LinesAreJoined
  <2>. QED BY <1>4, <2>1 DEF LinesJoined, splitLines
<1>5. CASE lines # <<>>
  <2>1. PICK ls \in Seq(Seq(Shown)), l \in Seq(Shown) : lines = Append(ls, l) BY <1>5, HasLast
  <2>. DEFINE n == Len(ls)
              t == splitLines(Lines(Append(ls, l)))
  <2>2. LinesRead(ls, l)
    <3>1. ls \in Seq(Seq(A)) /\ l \in Seq(A) BY <1>2, <2>1, SeqOfMore
    <3>. HIDE DEF A
    <3>2. A = Code \ {Newline} BY DEF A
    <3>. QED BY <1>1, <3>1, <3>2, SplitsLines
  <2>3. n \in Nat /\ \A i \in 1..n : ls[i] \in Seq(Shown) BY <2>1
  <2>4. t = [i \in 1..(n + 1) |-> IF i <= n THEN trimmed(ls[i]) ELSE trimmed(trimmed(l))]
    BY <2>2 DEF LinesRead
  <2>5. lines \in Seq(Seq(Shown)) /\ Len(lines) = n + 1 /\ lines[n + 1] = l
        /\ \A i \in 1..n : lines[i] = ls[i]
    BY <2>1, AppendProperties
  <2>. HIDE DEF t, n
  <2>6. ASSUME NEW i \in 1..(n + 1) PROVE t[i] = lines[i]
    <3>1. CASE i = n + 1
      <4>1. ~(i <= n) BY <2>3, <3>1
      <4>2. t[i] = trimmed(trimmed(l)) BY <2>4, <4>1
      <4>3. trimmed(trimmed(l)) = l BY <1>3, <2>1
      <4>. QED BY <2>5, <3>1, <4>2, <4>3
    <3>2. CASE i \in 1..n
      <4>1. t[i] = trimmed(ls[i]) BY <2>4, <3>2
      <4>. QED BY <1>3, <2>3, <2>5, <3>2, <4>1
    <3>. QED BY <2>3, <3>1, <3>2
  <2>7. lines = [i \in 1..(n + 1) |-> lines[i]] BY <2>5
  <2>8. t = [i \in 1..(n + 1) |-> t[i]] BY <2>4
  <2>9. t = lines BY <2>6, <2>7, <2>8
  <2>. QED BY <2>1, <2>9 DEF t
<1>. QED BY <1>4, <1>5

(* An entry stores one option.                                             *)
LEMMA StoredOnce ==
  ASSUME NEW f \in BOOLEAN, NEW e, NEW w, NEW u, StoredAs(f, e, w), StoredAs(f, e, u)
  PROVE  w = u
<1>1. w \in [name : OptionName, value : Seq(Code)] /\ u \in [name : OptionName, value : Seq(Code)]
  BY DEF StoredAs
<1>2. w.name \in Seq(Code) /\ u.name \in Seq(Code) /\ w.value \in Seq(Code) /\ u.value \in Seq(Code)
  BY <1>1 DEF OptionName
<1>3. DollarFault(f, w.name) = DollarFault(f, u.name) /\ DollarFault(f, w.value) = DollarFault(f, u.value)
  BY DEF StoredAs
<1>4. w.name = u.name /\ w.value = u.value
  <2>1. /\ decodeStored(f, DollarFault(f, w.name)) = w.name
        /\ decodeStored(f, DollarFault(f, u.name)) = u.name
        /\ decodeStored(f, DollarFault(f, w.value)) = w.value
        /\ decodeStored(f, DollarFault(f, u.value)) = u.value
    BY <1>2, FaultUndone
  <2>. QED BY <1>3, <2>1
<1>. QED BY <1>1, <1>4

(* No two entries of a table have one name, and it stores the options W.   *)
NamesDiffer(t) == \A i, j \in 1..Len(t) : t[i].name = t[j].name => i = j
TableOf(f, t, W) ==
  /\ t \in Seq(OptionEntry) /\ NamesDiffer(t)
  /\ \A e \in Range(t) : \E w \in W : StoredAs(f, e, w)
  /\ \A w \in W : \E e \in Range(t) : StoredAs(f, e, w)

(* ShowOptions reads all of them and nothing else, however they are        *)
(* printed.                                                                *)
LEMMA AllRead ==
  ASSUME NEW f \in BOOLEAN, NEW t, NEW W, TableOf(f, t, W), NEW lines \in Listings(t)
  PROVE  ShowOptions(f, splitLines(Lines(lines))) = W
<1>. DEFINE L == Len(t)
            w(i) == CHOOSE u \in W : StoredAs(f, t[i], u)
<1>1. L \in Nat /\ t \in Seq(OptionEntry) /\ NamesDiffer(t) BY DEF TableOf
<1>2. ASSUME NEW i \in 1..L PROVE w(i) \in W /\ StoredAs(f, t[i], w(i))
  <2>1. t[i] \in Range(t) BY <1>1 DEF Range
  <2>2. \E u \in W : StoredAs(f, t[i], u) BY <2>1 DEF TableOf
  <2>. QED BY <2>2
<1>3. DOMAIN lines = 1..L /\ \A i \in 1..L : lines[i] \in LineOf(t[i]) BY DEF Listings
<1>. HIDE DEF w, L
<1>4. \A i \in 1..L : Says(f, t[i], w(i), lines[i]) BY <1>2, <1>3, LineIsRead
<1>5. lines \in Seq(Seq(Shown)) /\ Len(lines) = L
  <2>1. \A i \in 1..L : lines[i] \in Seq(Shown) BY <1>4 DEF Says
  <2>2. lines = [i \in 1..L |-> lines[i]] BY <1>3 DEF Listings, L
  <2>. QED BY <1>1, <2>1, <2>2
<1>6. splitLines(Lines(lines)) = lines BY <1>5, LinesBack
<1>7. ASSUME NEW i \in 1..L PROVE entryOf(f, lines[i]) = w(i)
  <2>1. Says(f, t[i], w(i), lines[i]) BY <1>4
  <2>2. w(i) \in [name : OptionName, value : Seq(Code)] BY <1>2 DEF StoredAs
  <2>3. w(i) = [name |-> w(i).name, value |-> w(i).value] BY <2>2
  <2>. DEFINE field == CutAt(lines[i], Space)
              u == w(i)
              x == IF field.found THEN decodeStored(f, unquoteOptionValue(field.after)) ELSE <<>>
  <2>4. entryOf(f, lines[i]) = [name |-> decodeStored(f, field.before), value |-> x]
    BY DEF entryOf
  <2>5. decodeStored(f, field.before) = u.name /\ x = u.value BY <2>1 DEF Says
  <2>. HIDE DEF field, x
  <2>. QED BY <2>3, <2>4, <2>5
<1>8. ASSUME NEW i \in 1..L, NEW j \in 1..L, w(i).name = w(j).name PROVE i = j
  <2>1. t[i].name = DollarFault(f, w(i).name) /\ t[j].name = DollarFault(f, w(j).name)
    BY <1>2 DEF StoredAs
  <2>. QED BY <1>1, <1>8, <2>1 DEF NamesDiffer, L
<1>9. \A u \in W : \E i \in 1..L : u = w(i)
  <2>. SUFFICES ASSUME NEW u \in W PROVE \E i \in 1..L : u = w(i) OBVIOUS
  <2>1. PICK e \in Range(t) : StoredAs(f, e, u) BY DEF TableOf
  <2>2. PICK i \in 1..L : e = t[i] BY <1>1 DEF Range, L
  <2>3. u = w(i) BY <1>2, <2>1, <2>2, StoredOnce
  <2>. QED BY <2>3
<1>. DEFINE used == {i \in 1..Len(lines) : lines[i] # <<>>}
            entry == [i \in used |-> entryOf(f, lines[i])]
            last == {j \in used : \A k \in used : k > j => entry[k].name # entry[j].name}
<1>10. used = 1..L
  <2>1. \A i \in 1..L : lines[i] # <<>> BY <1>4 DEF Says
  <2>. QED BY <1>5, <2>1
<1>11. \A i \in 1..L : entry[i] = w(i) BY <1>7, <1>10
<1>12. ShowOptions(f, lines) = {entry[i] : i \in last} BY Zenon DEF ShowOptions
<1>. HIDE DEF used, entry
<1>13. last = 1..L
  <2>1. ASSUME NEW j \in 1..L, NEW k \in 1..L, k > j PROVE entry[k].name # entry[j].name
    <3>1. k # j BY <1>1, <2>1
    <3>. QED BY <1>8, <1>11, <3>1
  <2>. QED BY <1>10, <2>1
<1>. HIDE DEF last
<1>14. {entry[i] : i \in last} = W
  <2>1. \A i \in last : entry[i] \in W BY <1>2, <1>11, <1>13
  <2>2. \A u \in W : \E i \in last : u = entry[i] BY <1>9, <1>11, <1>13
  <2>. QED BY <2>1, <2>2
<1>. QED BY <1>6, <1>12, <1>14

(* ShowOption reads one of the options, or the array it is an element of.  *)
ReadsOne(f, t, W, name, answer) ==
  IF t = <<>> THEN answer = NotSet
  ELSE \E e \in Range(t), w \in W :
         /\ StoredAs(f, e, w)
         /\ answer = IF isArrayElement(e.name, name) THEN IsArray ELSE SetTo(w.value)

(* It does, from the first line.                                           *)
LEMMA OneRead ==
  ASSUME NEW f \in BOOLEAN, NEW t, NEW W, TableOf(f, t, W), NEW lines \in Listings(t),
         NEW name, checkOptionName(name)
  PROVE  ReadsOne(f, t, W, name, ShowOption(f, splitLines(Lines(lines)), name))
<1>. DEFINE L == Len(t)
<1>1. L \in Nat /\ t \in Seq(OptionEntry) BY DEF TableOf
<1>2. ASSUME NEW i \in 1..L PROVE \E u \in W : StoredAs(f, t[i], u)
  <2>1. t[i] \in Range(t) BY <1>1 DEF Range
  <2>. QED BY <2>1 DEF TableOf
<1>3. DOMAIN lines = 1..L /\ \A i \in 1..L : lines[i] \in LineOf(t[i]) BY DEF Listings
<1>. HIDE DEF L
<1>4. lines \in Seq(Seq(Shown)) /\ Len(lines) = L
  <2>1. ASSUME NEW i \in 1..L PROVE lines[i] \in Seq(Shown)
    <3>1. PICK u \in W : StoredAs(f, t[i], u) BY <1>2
    <3>2. Says(f, t[i], u, lines[i]) BY <1>3, <3>1, LineIsRead
    <3>. QED BY <3>2 DEF Says
  <2>2. lines = [i \in 1..L |-> lines[i]] BY <1>3 DEF Listings, L
  <2>. QED BY <1>1, <2>1, <2>2
<1>5. splitLines(Lines(lines)) = lines BY <1>4, LinesBack
<1>6. CASE t = <<>>
  <2>1. L = 0 BY <1>6 DEF L
  <2>2. lines = <<>> BY <1>4, <2>1, EmptySeq
  <2>3. ShowOption(f, lines, name) = NotSet BY <2>2, Zenon DEF ShowOption
  <2>. QED BY <1>5, <1>6, <2>3 DEF ReadsOne
<1>7. CASE t # <<>>
  <2>1. 1 \in 1..L BY <1>1, <1>7, EmptySeq DEF L
  <2>2. PICK w \in W : StoredAs(f, t[1], w) BY <1>2, <2>1
  <2>3. Says(f, t[1], w, lines[1]) BY <1>3, <2>1, <2>2, LineIsRead
  <2>. DEFINE e == t[1]
              field == CutAt(lines[1], Space)
              x == IF field.found THEN decodeStored(f, unquoteOptionValue(field.after)) ELSE <<>>
              answer == ShowOption(f, lines, name)
  <2>4. lines # <<>> /\ lines[1] # <<>>
    <3>1. Len(lines) # 0 BY <1>4, <2>1
    <3>. QED BY <2>3, <3>1 DEF Says
  <2>5. field.before = e.name /\ x = w.value BY <2>3 DEF Says
  <2>6. answer = IF isArrayElement(field.before, name) THEN IsArray
                 ELSE IF ~field.found THEN SetTo(<<>>)
                 ELSE SetTo(decodeStored(f, unquoteOptionValue(field.after)))
    BY <2>4, Zenon DEF ShowOption
  <2>7. answer = IF isArrayElement(e.name, name) THEN IsArray ELSE SetTo(w.value)
    <3>. HIDE DEF answer, field
    <3>1. (IF ~field.found THEN SetTo(<<>>)
           ELSE SetTo(decodeStored(f, unquoteOptionValue(field.after)))) = SetTo(x)
      BY Zenon
    <3>. QED BY <2>5, <2>6, <3>1
  <2>8. e \in Range(t) BY <1>1, <2>1 DEF Range, L
  <2>. HIDE DEF answer, e
  <2>9. ReadsOne(f, t, W, name, answer) BY <1>7, <2>2, <2>7, <2>8 DEF ReadsOne, e
  <2>. QED BY <1>5, <2>9 DEF answer
<1>. QED BY <1>6, <1>7

(* An entry more.                                                          *)
LEMMA EntryMore ==
  ASSUME NEW s \in Seq(OptionEntry), NEW e \in OptionEntry
  PROVE  /\ Append(s, e) \in Seq(OptionEntry) /\ Range(Append(s, e)) = Range(s) \union {e}
         /\ NamesDiffer(Append(s, e)) <=> NamesDiffer(s) /\ \A o \in Range(s) : o.name # e.name
<1>. DEFINE t == Append(s, e)
            L == Len(s)
<1>1. t \in Seq(OptionEntry) /\ Len(t) = L + 1 /\ t[L + 1] = e /\ \A i \in 1..L : t[i] = s[i]
  BY AppendProperties
<1>2. L \in Nat OBVIOUS
<1>3. Range(s) = {s[i] : i \in 1..L} BY DEF Range
<1>. HIDE DEF t
<1>4. Range(t) = {t[i] : i \in 1..(L + 1)} BY <1>1 DEF Range
<1>. HIDE DEF L
<1>5. \A i \in 1..(L + 1) : i \in 1..L \/ i = L + 1 BY <1>2
<1>6. 1..L \subseteq 1..(L + 1) /\ L + 1 \in 1..(L + 1) /\ L + 1 \notin 1..L BY <1>2
<1>7. Range(t) = Range(s) \union {e}
  <2>1. Range(t) \subseteq Range(s) \union {e} BY <1>1, <1>3, <1>4, <1>5
  <2>2. Range(s) \union {e} \subseteq Range(t) BY <1>1, <1>3, <1>4, <1>6
  <2>. QED BY <2>1, <2>2
<1>8. ASSUME NamesDiffer(t) PROVE NamesDiffer(s) /\ \A o \in Range(s) : o.name # e.name
  <2>1. \A i, j \in 1..(L + 1) : t[i].name = t[j].name => i = j BY <1>1, <1>8 DEF NamesDiffer
  <2>2. \A i, j \in 1..L : s[i].name = s[j].name => i = j BY <1>1, <1>6, <2>1
  <2>3. \A i \in 1..L : s[i].name # e.name BY <1>1, <1>6, <2>1
  <2>. QED BY <1>3, <2>2, <2>3 DEF NamesDiffer, L
<1>9. ASSUME NamesDiffer(s), \A o \in Range(s) : o.name # e.name PROVE NamesDiffer(t)
  <2>1. \A i, j \in 1..L : s[i].name = s[j].name => i = j BY <1>9 DEF NamesDiffer, L
  <2>2. \A i \in 1..L : s[i].name # e.name BY <1>3, <1>9
  <2>3. \A i, j \in 1..(L + 1) : t[i].name = t[j].name => i = j BY <1>1, <1>5, <2>1, <2>2
  <2>. QED BY <1>1, <2>3 DEF NamesDiffer
<1>. QED BY <1>1, <1>7, <1>8, <1>9 DEF t

-----------------------------------------------------------------------------
(* The table of options *)

(* The entries of t that are in K.                                         *)
picking(K) == [e \in OptionEntry |-> IF e \in K THEN <<e>> ELSE <<>>]
Picks(t, u, K) ==
  /\ u \in Seq(OptionEntry) /\ Range(u) = Range(t) \intersect K
  /\ NamesDiffer(t) => NamesDiffer(u)

(* They are what is left if each of the others goes.                       *)
LEMMA PicksThem ==
  ASSUME NEW K
  PROVE  \A t \in Seq(OptionEntry) : Picks(t, Mapped(picking(K), t), K)
<1>. DEFINE h == picking(K)
            Z == {t \in Seq(OptionEntry) : Picks(t, Mapped(h, t), K)}
<1>1. h \in [OptionEntry -> Seq(OptionEntry)]
  <2>1. \A e \in OptionEntry : <<e>> \in Seq(OptionEntry) /\ <<>> \in Seq(OptionEntry) OBVIOUS
  <2>. QED BY <2>1 DEF picking
<1>2. MapsEach(OptionEntry, OptionEntry, h) BY <1>1, MappedEach
<1>3. \A e \in OptionEntry : h[e] = IF e \in K THEN <<e>> ELSE <<>> BY DEF picking
<1>. HIDE DEF h
<1>4. <<>> \in Z
  <2>1. <<>> \in Seq(OptionEntry) /\ Len(<<>>) = 0 /\ Range(<<>>) = {} BY DEF Range
  <2>2. NamesDiffer(<<>>) BY <2>1 DEF NamesDiffer
  <2>. QED BY <1>2, <2>1, <2>2 DEF MapsEach, Picks
<1>5. ASSUME NEW t \in Seq(OptionEntry), NEW e \in OptionEntry, t \in Z
      PROVE  Append(t, e) \in Z
  <2>. DEFINE a == Append(t, e)
              u == Mapped(h, t)
              z == Mapped(h, a)
  <2>1. /\ a \in Seq(OptionEntry) /\ Range(a) = Range(t) \union {e}
        /\ NamesDiffer(a) <=> NamesDiffer(t) /\ \A o \in Range(t) : o.name # e.name
    BY EntryMore
  <2>2. u \in Seq(OptionEntry) /\ z = u \o h[e] BY <1>2 DEF MapsEach
  <2>3. Picks(t, u, K) BY <1>5
  <2>. HIDE DEF a, u, z
  <2>4. CASE e \in K
    <3>1. z = Append(u, e)
      <4>1. u \o <<e>> = Append(u, e) BY <2>2, AppendIsConcat
      <4>. QED BY <1>3, <2>2, <2>4, <4>1
    <3>2. /\ z \in Seq(OptionEntry) /\ Range(z) = Range(u) \union {e}
          /\ NamesDiffer(z) <=> NamesDiffer(u) /\ \A o \in Range(u) : o.name # e.name
      BY <2>2, <3>1, EntryMore
    <3>3. Picks(a, z, K) BY <2>1, <2>3, <2>4, <3>2 DEF Picks
    <3>. QED BY <2>1, <3>3 DEF a, z
  <2>5. CASE e \notin K
    <3>1. z = u
      <4>1. u \o <<>> = u BY <2>2, ConcatEmptySeq
      <4>. QED BY <1>3, <2>2, <2>5, <4>1
    <3>2. Picks(a, z, K) BY <2>1, <2>3, <2>5, <3>1 DEF Picks
    <3>. QED BY <2>1, <3>2 DEF a, z
  <2>. QED BY <2>4, <2>5
<1>. HIDE DEF Z
<1>6. \A t \in Seq(OptionEntry) : t \in Z BY <1>4, <1>5, ByAppend
<1>. QED BY <1>6 DEF Z, h

(* So tmux picks those that are of an option, or the others.               *)
LEMMA OptionPicked ==
  ASSUME NEW t \in Seq(OptionEntry), NEW s
  PROVE  /\ Picks(t, OnlyOf(t, s), {e \in OptionEntry : e.of = s})
         /\ Picks(t, Without(t, s), {e \in OptionEntry : e.of # s})
<1>. DEFINE K == {e \in OptionEntry : e.of = s}
            J == {e \in OptionEntry : e.of # s}
<1>1. \A i \in 1..Len(t) : t[i] \in OptionEntry OBVIOUS
<1>2. OnlyOf(t, s) = Mapped(picking(K), t)
  <2>1. [i \in 1..Len(t) |-> IF t[i].of = s THEN <<t[i]>> ELSE <<>>]
          = [i \in 1..Len(t) |-> picking(K)[t[i]]]
    BY <1>1 DEF picking
  <2>. QED BY <2>1, Zenon DEF OnlyOf, Mapped
<1>3. Without(t, s) = Mapped(picking(J), t)
  <2>1. [i \in 1..Len(t) |-> IF t[i].of = s THEN <<>> ELSE <<t[i]>>]
          = [i \in 1..Len(t) |-> picking(J)[t[i]]]
    BY <1>1 DEF picking
  <2>. QED BY <2>1, Zenon DEF Without, Mapped
<1>. HIDE DEF K, J
<1>4. Picks(t, Mapped(picking(K), t), K) /\ Picks(t, Mapped(picking(J), t), J) BY PicksThem
<1>. QED BY <1>2, <1>3, <1>4 DEF K, J

(* What has no '$' is stored as it is.                                     *)
LEMMA NoDollarsKept ==
  ASSUME NEW f \in BOOLEAN, NEW r \in NoDollars
  PROVE  r \in Seq(Code) /\ DollarFault(f, r) = r
<1>1. r \in Seq(Code) BY NoDollarsStored
<1>2. CASE r = <<>> BY <1>1, <1>2, FaultIs
<1>3. CASE r # <<>>
  <2>1. PICK s \in NoDollars, x \in Code \ {Dollar} : r = Append(s, x)
    BY <1>3, HasLast DEF NoDollars
  <2>2. s \in Seq(Code) /\ Mapped(dollars(f), s) = s BY <2>1, NoDollarsStored
  <2>3. FaultOf(f, s, x) BY <2>1, <2>2, FaultIs
  <2>4. s \o <<x>> = Append(s, x) BY <2>2, AppendIsConcat
  <2>. QED BY <1>1, <2>1, <2>2, <2>3, <2>4 DEF FaultOf
<1>. QED BY <1>2, <1>3

(* Two values that are stored as one are one.                              *)
LEMMA FaultDiffers ==
  ASSUME NEW f \in BOOLEAN, NEW v \in Seq(Code), NEW w \in Seq(Code),
         DollarFault(f, v) = DollarFault(f, w)
  PROVE  v = w
<1>1. decodeStored(f, DollarFault(f, v)) = v /\ decodeStored(f, DollarFault(f, w)) = w
  BY FaultUndone
<1>. QED BY <1>1

(* The elements of the array that is there, if one is.                     *)
Arrays == {<<>>, Elements}
ElementOf(f, e) ==
  /\ StoredAs(f, e, [name |-> e.name, value |-> e.value])
  /\ e.of = ArrayName /\ Indexed(e.name) /\ isArrayElement(e.name, ArrayName)
  /\ DollarFault(f, e.name) = e.name

(* They are elements, and none of them twice.                              *)
LEMMA ElementsAre ==
  ASSUME NEW f \in BOOLEAN, NEW array \in Arrays
  PROVE  /\ array \in Seq(OptionEntry) /\ NamesDiffer(array)
         /\ \A e \in Range(array) : ElementOf(f, e)
         /\ DollarFault(f, ArrayName) = ArrayName /\ ArrayName \in Seq(Code)
         /\ checkOptionName(ArrayName)
<1>1. ASSUME NEW d \in {48, 49}
      PROVE  LET n == <<115, 91, d, 93>> IN
             /\ n \in NoDollars /\ checkOptionName(n) /\ Indexed(n)
             /\ isArrayElement(n, ArrayName)
  <2>. DEFINE n == <<115, 91, d, 93>>
  <2>1. n \in NoDollars
    <3>1. 115 \in Code \ {Dollar} /\ 91 \in Code \ {Dollar} /\ d \in Code \ {Dollar} /\ 93 \in Code \ {Dollar}
      BY DEF Code, Dollar
    <3>. QED BY <3>1 DEF NoDollars
  <2>2. Len(n) = 4 /\ n[1] = 115 /\ n[2] = 91 /\ n[3] = d /\ n[4] = 93 /\ n \in Seq(Nat) /\ n # <<>>
    OBVIOUS
  <2>. HIDE DEF n
  <2>3. checkOptionName(n)
    <3>1. \A i \in 1..4 : i = 1 \/ i = 2 \/ i = 3 \/ i = 4 OBVIOUS
    <3>2. \A i \in 1..4 : n[i] > Space BY <2>2, <3>1 DEF Space
    <3>. QED BY <2>2, <3>2 DEF checkOptionName
  <2>4. d \in Digits BY DEF Digits, Zero
  <2>5. Indexed(n)
    <3>1. 2 \in 2..(Len(n) - 2) /\ \A j \in (2 + 1)..(Len(n) - 1) : j = 3 BY <2>2
    <3>2. Last(n) = Close /\ n[2] = Open BY <2>2 DEF Last, Close, Open
    <3>. QED BY <2>2, <2>4, <3>1, <3>2 DEF Indexed
  <2>6. isArrayElement(n, ArrayName)
    <3>. DEFINE opens == {i \in 1..Len(n) : n[i] = Open}
                o == CHOOSE i \in opens : \A j \in opens : j <= i
                index == SubSeq(n, o + 1, Len(n) - 1)
    <3>1. opens = {2}
      <4>1. \A i \in 1..4 : i = 1 \/ i = 2 \/ i = 3 \/ i = 4 OBVIOUS
      <4>2. \A i \in 1..4 : n[i] = Open <=> i = 2 BY <2>2, <4>1 DEF Open
      <4>. QED BY <2>2, <4>2
    <3>2. o = 2
      <4>. HIDE DEF opens
      <4>1. \A j \in opens : j <= 2 BY <3>1
      <4>2. \E i \in opens : \A j \in opens : j <= i BY <3>1, <4>1
      <4>3. o \in opens BY <4>2, Zenon
      <4>. QED BY <3>1, <4>3
    <3>3. SubSeq(n, 3, 3) = <<d>>
      <4>. DEFINE t == SubSeq(n, 3, 3)
      <4>1. t \in Seq(Nat) /\ Len(t) = 1 /\ t[1] = n[3]
        <5>1. 3 \in 1..(Len(n) + 1) /\ 3 \in (3 - 1)..Len(n) /\ 3 - 3 + 1 = 1 /\ 3 + 1 - 1 = 3
          BY <2>2
        <5>2. /\ t \in Seq(Nat) /\ Len(t) = 3 - 3 + 1
              /\ \A i \in 1..(3 - 3 + 1) : t[i] = n[3 + i - 1]
          BY <2>2, <5>1, SubSeqProperties
        <5>. QED BY <5>1, <5>2
      <4>. HIDE DEF t
      <4>2. t = <<d>> BY <2>2, <4>1
      <4>. QED BY <4>2 DEF t
    <3>4. SubSeq(n, 1, 1) = <<115>>
      <4>. DEFINE t == SubSeq(n, 1, 1)
      <4>1. t \in Seq(Nat) /\ Len(t) = 1 /\ t[1] = n[1]
        <5>1. 1 \in 1..(Len(n) + 1) /\ 1 \in (1 - 1)..Len(n) /\ 1 - 1 + 1 = 1 BY <2>2
        <5>2. /\ t \in Seq(Nat) /\ Len(t) = 1 - 1 + 1
              /\ \A i \in 1..(1 - 1 + 1) : t[i] = n[1 + i - 1]
          BY <2>2, <5>1, SubSeqProperties
        <5>. QED BY <5>1, <5>2
      <4>. HIDE DEF t
      <4>2. t = <<115>> BY <2>2, <4>1
      <4>. QED BY <4>2 DEF t
    <3>5. index = <<d>> /\ SubSeq(n, 1, o - 1) = ArrayName
      <4>. HIDE DEF o
      <4>1. o + 1 = 3 /\ Len(n) - 1 = 3 /\ o - 1 = 1 BY <2>2, <3>2
      <4>. QED BY <3>3, <3>4, <4>1 DEF ArrayName
    <3>6. index # <<>> /\ \A j \in 1..Len(index) : index[j] \in Digits
      <4>. HIDE DEF index
      <4>. QED BY <2>4, <3>5
    <3>7. opens # {} /\ o > 1 /\ Last(n) = Close BY <2>2, <3>1, <3>2 DEF Last, Close
    <3>8. splitArrayElement(n) = [base |-> SubSeq(n, 1, o - 1), indexed |-> TRUE]
      BY <3>6, <3>7, Zenon DEF splitArrayElement
    <3>. HIDE DEF o
    <3>. QED BY <3>5, <3>8 DEF isArrayElement
  <2>. QED BY <2>1, <2>3, <2>5, <2>6 DEF n
<1>2. ArrayName \in NoDollars /\ checkOptionName(ArrayName)
  <2>1. 115 \in Code \ {Dollar} BY DEF Code, Dollar
  <2>2. ArrayName \in NoDollars BY <2>1 DEF ArrayName, NoDollars
  <2>3. Len(ArrayName) = 1 /\ ArrayName[1] = 115 /\ ArrayName # <<>> BY DEF ArrayName
  <2>4. \A i \in 1..1 : ArrayName[i] > Space BY <2>3 DEF Space
  <2>. QED BY <2>2, <2>3, <2>4 DEF checkOptionName
<1>3. ArrayName \in Seq(Code) /\ DollarFault(f, ArrayName) = ArrayName BY <1>2, NoDollarsKept
<1>4. ASSUME NEW i \in 1..2 PROVE ElementOf(f, Elements[i]) /\ Elements[i].name[3] = 47 + i
  <2>. DEFINE e == Elements[i]
              d == 47 + i
              n == <<115, 91, d, 93>>
              v == <<97, i>>
  <2>1. d \in {48, 49} OBVIOUS
  <2>2. ArrayName \o <<91, d, 93>> = n
    <3>. DEFINE m == 115
                x == 91
                y == 93
    <3>1. m \in Nat /\ x \in Nat /\ d \in Nat /\ y \in Nat OBVIOUS
    <3>. HIDE DEF d, m, x, y
    <3>2. <<m>> \o <<x, d, y>> = <<m, x, d, y>> BY <3>1, OneAndThree
    <3>. QED BY <3>2 DEF ArrayName, m, x, y
  <2>3. e = [of |-> ArrayName, name |-> n, value |-> v] BY <2>2 DEF Elements
  <2>4. n[3] = 47 + i OBVIOUS
  <2>5. n \in NoDollars /\ checkOptionName(n) /\ Indexed(n) /\ isArrayElement(n, ArrayName)
    BY <1>1, <2>1
  <2>6. v \in NoDollars
    <3>1. 97 \in Code \ {Dollar} /\ i \in Code \ {Dollar} BY DEF Code, Dollar
    <3>. QED BY <3>1 DEF NoDollars
  <2>. HIDE DEF n, v, e
  <2>7. n \in Seq(Code) /\ v \in Seq(Code) /\ DollarFault(f, n) = n /\ DollarFault(f, v) = v
    BY <2>5, <2>6, NoDollarsKept
  <2>8. e \in OptionEntry BY <1>3, <2>3, <2>7 DEF OptionEntry
  <2>9. StoredAs(f, e, [name |-> e.name, value |-> e.value])
    BY <2>3, <2>5, <2>7, <2>8 DEF StoredAs, OptionName
  <2>10. ElementOf(f, e) BY <2>3, <2>5, <2>7, <2>9 DEF ElementOf
  <2>. QED BY <2>3, <2>4, <2>10 DEF e
<1>5. DOMAIN Elements = 1..2 /\ Elements \in Seq(OptionEntry) /\ Len(Elements) = 2
  <2>1. \A i \in 1..2 : Elements[i] \in OptionEntry BY <1>4 DEF ElementOf, StoredAs
  <2>2. Elements = [i \in 1..2 |-> Elements[i]] BY DEF Elements
  <2>. QED BY <2>1, <2>2
<1>6. NamesDiffer(Elements)
  <2>. SUFFICES ASSUME NEW i \in 1..2, NEW j \in 1..2, Elements[i].name = Elements[j].name
                PROVE  i = j
    BY <1>5 DEF NamesDiffer
  <2>1. 47 + i = 47 + j BY <1>4
  <2>. QED BY <2>1
<1>7. CASE array = Elements
  <2>1. \A e \in Range(array) : ElementOf(f, e) BY <1>4, <1>5, <1>7 DEF Range
  <2>. QED BY <1>2, <1>3, <1>5, <1>6, <1>7, <2>1
<1>8. CASE array = <<>>
  <2>1. <<>> \in Seq(OptionEntry) /\ Len(<<>>) = 0 /\ Range(<<>>) = {} BY DEF Range
  <2>2. NamesDiffer(<<>>) BY <2>1 DEF NamesDiffer
  <2>. QED BY <1>2, <1>3, <1>8, <2>1, <2>2
<1>. QED BY <1>7, <1>8 DEF Arrays

-----------------------------------------------------------------------------
(* Calls that set and unset options *)

OptionCall == [op : {"set", "unset"}, name : Seq(Code), value : Seq(Code)]

(* The options that calls can set, and what is stored of one.              *)
Settable ==
  {w \in [name : OptionName, value : Seq(Code)] : ~Indexed(w.name) /\ w.name # ArrayName}
EntryFor(f, w) ==
  [of |-> DollarFault(f, w.name), name |-> DollarFault(f, w.name), value |-> DollarFault(f, w.value)]

(* The table holds the array's elements and the options W.                 *)
TableKeeps(f, t, array, W) ==
  /\ W \subseteq Settable /\ t \in Seq(OptionEntry) /\ NamesDiffer(t)
  /\ Range(t) = Range(array) \union {EntryFor(f, w) : w \in W}

(* An option's entry stores it, under no element's name.                   *)
LEMMA EntryIs ==
  ASSUME NEW f \in BOOLEAN, NEW w \in Settable
  PROVE  /\ StoredAs(f, EntryFor(f, w), w)
         /\ EntryFor(f, w).of = DollarFault(f, w.name) /\ EntryFor(f, w).name = DollarFault(f, w.name)
         /\ w.name \in Seq(Code) /\ checkOptionName(w.name) /\ ~Indexed(w.name)
         /\ \A array \in Arrays : \A e \in Range(array) :
              e.of # EntryFor(f, w).of /\ e.name # EntryFor(f, w).name
<1>. DEFINE n == DollarFault(f, w.name)
            v == DollarFault(f, w.value)
<1>1. /\ w \in [name : OptionName, value : Seq(Code)] /\ w.name \in OptionName
      /\ w.value \in Seq(Code) /\ ~Indexed(w.name) /\ w.name # ArrayName
  BY DEF Settable
<1>2. w.name \in Seq(Code) /\ checkOptionName(w.name) BY <1>1 DEF OptionName
<1>3. n \in Seq(Code) /\ v \in Seq(Code) BY <1>1, <1>2, FaultTyped
<1>. HIDE DEF n, v
<1>4. EntryFor(f, w) = [of |-> n, name |-> n, value |-> v] BY DEF EntryFor, n, v
<1>5. StoredAs(f, EntryFor(f, w), w) BY <1>1, <1>3, <1>4 DEF StoredAs, OptionEntry, n, v
<1>6. ASSUME NEW array \in Arrays, NEW e \in Range(array) PROVE e.of # n /\ e.name # n
  <2>1. /\ ElementOf(f, e) /\ DollarFault(f, ArrayName) = ArrayName
        /\ ArrayName \in Seq(Code)
    BY <1>6, ElementsAre
  <2>2. e.of = ArrayName /\ Indexed(e.name) /\ DollarFault(f, e.name) = e.name /\ e.name \in Seq(Code)
    BY <2>1 DEF ElementOf, StoredAs, OptionEntry
  <2>3. e.of # n BY <1>1, <1>2, <2>1, <2>2, FaultDiffers DEF n
  <2>4. e.name # n BY <1>1, <1>2, <2>2, FaultDiffers DEF n
  <2>. QED BY <2>3, <2>4
<1>. QED BY <1>1, <1>2, <1>4, <1>5, <1>6 DEF n

(* What a call does to a table, and to the options that are asked for.     *)
Applied(f, t, c) ==
  IF c.op = "set" THEN SetOptionScoped(f, t, c.name, c.value) ELSE UnsetOption(f, t, c.name)
AskedAfter(W, c) ==
  {w \in W : w.name # c.name} \union
    (IF c.op = "set" /\ Keeps(c) THEN {[name |-> c.name, value |-> c.value]} ELSE {})

(* The one is the other.                                                   *)
LEMMA CallStands ==
  ASSUME NEW f \in BOOLEAN, NEW array \in Arrays, NEW c \in OptionCall, c.name # ArrayName,
         NEW W, NEW t, TableKeeps(f, t, array, W)
  PROVE  TableKeeps(f, Applied(f, t, c), array, AskedAfter(W, c))
<1>. DEFINE n == c.name
            s == DollarFault(f, n)
            A == Range(array)
            E == {EntryFor(f, w) : w \in W}
            V == {w \in W : w.name # n}
            u == Without(t, s)
<1>1. n \in Seq(Code) /\ c.value \in Seq(Code) /\ n # ArrayName BY DEF OptionCall
<1>2. /\ W \subseteq Settable /\ t \in Seq(OptionEntry) /\ NamesDiffer(t) /\ Range(t) = A \union E
  BY DEF TableKeeps
<1>3. V \subseteq Settable BY <1>2
<1>4. ASSUME ~Keeps(c) PROVE V = W
  <2>1. \A w \in W : Keeps(w) BY <1>2, EntryIs DEF Keeps
  <2>2. \A w \in W : w.name = n => Keeps(c) BY <2>1 DEF Keeps
  <2>. QED BY <1>4, <2>2
<1>5. /\ u \in Seq(OptionEntry) /\ NamesDiffer(u) /\ Range(u) = A \union {EntryFor(f, w) : w \in V}
      /\ \A e \in Range(u) : e.of # s
  <2>1. Picks(t, u, {e \in OptionEntry : e.of # s}) BY <1>2, OptionPicked
  <2>. HIDE DEF u, A, s
  <2>2. u \in Seq(OptionEntry) /\ NamesDiffer(u) /\ Range(u) = (A \union E) \intersect {e \in OptionEntry : e.of # s}
    BY <1>2, <2>1 DEF Picks
  <2>3. \A e \in A : e \in OptionEntry /\ e.of # s
    <3>1. ASSUME NEW e \in A PROVE e \in OptionEntry /\ e.of # s
      <4>1. /\ ElementOf(f, e) /\ DollarFault(f, ArrayName) = ArrayName
            /\ ArrayName \in Seq(Code)
        BY <3>1, ElementsAre DEF A
      <4>2. e.of = ArrayName /\ e \in OptionEntry BY <4>1 DEF ElementOf, StoredAs
      <4>3. e.of # s BY <1>1, <4>1, <4>2, FaultDiffers DEF s
      <4>. QED BY <4>2, <4>3
    <3>. QED BY <3>1
  <2>4. ASSUME NEW w \in W
        PROVE  EntryFor(f, w) \in OptionEntry /\ (EntryFor(f, w).of # s <=> w.name # n)
    <3>1. StoredAs(f, EntryFor(f, w), w) /\ EntryFor(f, w).of = DollarFault(f, w.name)
          /\ w.name \in Seq(Code)
      BY <1>2, EntryIs
    <3>2. EntryFor(f, w).of = s => w.name = n BY <1>1, <3>1, FaultDiffers DEF s
    <3>. QED BY <3>1, <3>2 DEF StoredAs, s
  <2>5. \A e : e \in Range(u) <=> e \in A \/ \E w \in W : w.name # n /\ e = EntryFor(f, w)
    BY <2>2, <2>3, <2>4
  <2>6. Range(u) = A \union {EntryFor(f, w) : w \in V} BY <2>5
  <2>. QED BY <2>2, <2>6
<1>6. TableKeeps(f, u, array, V) BY <1>3, <1>5 DEF TableKeeps
<1>7. CASE c.op = "set" /\ Keeps(c)
  <2>. DEFINE w == [name |-> n, value |-> c.value]
              e == EntryFor(f, w)
              z == Append(u, e)
  <2>1. w \in Settable BY <1>1, <1>7 DEF Settable, Keeps, OptionName
  <2>2. StoredAs(f, e, w) /\ e.of = s /\ e.name = s
        /\ \A x \in A : x.of # e.of /\ x.name # e.name
    <3>1. w.name = n OBVIOUS
    <3>. HIDE DEF w
    <3>. QED BY <2>1, <3>1, EntryIs
  <2>3. Applied(f, t, c) = z
    <3>1. checkOptionName(n) /\ ~Indexed(n) BY <1>7 DEF Keeps
    <3>. QED BY <1>7, <3>1 DEF Applied, SetOptionScoped, EntryFor
  <2>4. AskedAfter(W, c) = V \union {w} BY <1>7 DEF AskedAfter
  <2>5. \A x \in Range(u) : x.name # e.name
    <3>1. ASSUME NEW x \in V PROVE EntryFor(f, x).name = EntryFor(f, x).of
      BY <1>3, EntryIs
    <3>2. ASSUME NEW x \in Range(u), x \notin A PROVE x.name # e.name
      <4>1. PICK y \in V : x = EntryFor(f, y) BY <1>5, <3>2
      <4>2. x.name = x.of /\ x.of # s BY <1>5, <3>1, <4>1
      <4>. QED BY <2>2, <4>2
    <3>. QED BY <2>2, <3>2
  <2>. HIDE DEF e, w, u, s
  <2>6. /\ z \in Seq(OptionEntry) /\ Range(z) = Range(u) \union {e} /\ NamesDiffer(z)
    <3>1. e \in OptionEntry BY <2>2 DEF StoredAs
    <3>. QED BY <1>5, <2>5, <3>1, EntryMore
  <2>7. Range(z) = A \union {EntryFor(f, x) : x \in V \union {w}} BY <1>5, <2>6 DEF e
  <2>8. V \union {w} \subseteq Settable BY <1>3, <2>1
  <2>. QED BY <2>3, <2>4, <2>6, <2>7, <2>8 DEF TableKeeps
<1>8. CASE c.op = "set" /\ ~Keeps(c)
  <2>1. Applied(f, t, c) = t BY <1>8 DEF Applied, SetOptionScoped, Keeps
  <2>2. AskedAfter(W, c) = W BY <1>4, <1>8 DEF AskedAfter
  <2>. QED BY <2>1, <2>2
<1>9. CASE c.op # "set" /\ checkOptionName(n)
  <2>1. Applied(f, t, c) = u BY <1>9 DEF Applied, UnsetOption
  <2>2. AskedAfter(W, c) = V BY <1>9 DEF AskedAfter
  <2>. QED BY <1>6, <2>1, <2>2
<1>10. CASE c.op # "set" /\ ~checkOptionName(n)
  <2>1. Applied(f, t, c) = t BY <1>10 DEF Applied, UnsetOption
  <2>2. AskedAfter(W, c) = W BY <1>4, <1>10 DEF AskedAfter, Keeps
  <2>. QED BY <2>1, <2>2
<1>. QED BY <1>7, <1>8, <1>9, <1>10

(* What the first n of the calls ask for.                                  *)
Lasts(calls, n) ==
  {j \in 1..Len(calls) :
     /\ j <= n /\ calls[j].op = "set" /\ Keeps(calls[j])
     /\ \A k \in (j + 1)..n : calls[k].name # calls[j].name}
Lasting(calls, n) ==
  {[name |-> calls[i].name, value |-> calls[i].value] : i \in Lasts(calls, n)}

(* A call more asks for something else under its name alone.               *)
LEMMA LastingGrows ==
  ASSUME NEW calls \in Seq(OptionCall), NEW n \in 1..Len(calls)
  PROVE  Lasting(calls, n) = AskedAfter(Lasting(calls, n - 1), calls[n])
<1>. DEFINE L == Len(calls)
            c == calls[n]
            Of(i) == [name |-> calls[i].name, value |-> calls[i].value]
            sets == c.op = "set" /\ Keeps(c)
<1>1. L \in Nat /\ n \in Nat OBVIOUS
<1>2. ASSUME NEW i \in 1..L
      PROVE  i \in Lasts(calls, n) <=>
               \/ i \in Lasts(calls, n - 1) /\ c.name # calls[i].name
               \/ i = n /\ sets
  <2>1. CASE i <= n - 1
    <3>1. i <= n /\ i # n /\ \A k : k \in (i + 1)..n <=> k \in (i + 1)..(n - 1) \/ k = n
      BY <1>1, <2>1
    <3>. QED BY <2>1, <3>1 DEF Lasts
  <2>2. CASE i = n
    <3>1. ~(n <= n - 1) /\ n <= n /\ (n + 1)..n = {} BY <1>1
    <3>2. i \notin Lasts(calls, n - 1) BY <2>2, <3>1 DEF Lasts
    <3>3. i \in Lasts(calls, n) <=> sets BY <2>2, <3>1 DEF Lasts
    <3>. QED BY <2>2, <3>2, <3>3
  <2>3. CASE i > n
    <3>1. ~(i <= n) /\ ~(i <= n - 1) /\ i # n BY <1>1, <2>3
    <3>. QED BY <3>1 DEF Lasts
  <2>. QED BY <1>1, <2>1, <2>2, <2>3
<1>3. Lasts(calls, n) \subseteq 1..L /\ Lasts(calls, n - 1) \subseteq 1..L BY DEF Lasts
<1>4. n \in 1..L OBVIOUS
<1>5. \A i : Of(i).name = calls[i].name OBVIOUS
<1>6. Lasting(calls, n) = {Of(i) : i \in Lasts(calls, n)}
      /\ Lasting(calls, n - 1) = {Of(i) : i \in Lasts(calls, n - 1)}
  BY DEF Lasting
<1>7. AskedAfter(Lasting(calls, n - 1), c) =
        {w \in Lasting(calls, n - 1) : w.name # c.name} \union (IF sets THEN {Of(n)} ELSE {})
  BY DEF AskedAfter
<1>. HIDE DEF Of, sets, L
<1>8. ASSUME NEW w
      PROVE  w \in Lasting(calls, n) <=>
               (w \in Lasting(calls, n - 1) /\ w.name # c.name) \/ (sets /\ w = Of(n))
  <2>1. ASSUME w \in Lasting(calls, n)
        PROVE  (w \in Lasting(calls, n - 1) /\ w.name # c.name) \/ (sets /\ w = Of(n))
    <3>1. PICK i \in Lasts(calls, n) : w = Of(i) BY <1>6, <2>1
    <3>2. (i \in Lasts(calls, n - 1) /\ c.name # calls[i].name) \/ (i = n /\ sets)
      BY <1>2, <1>3, <3>1
    <3>. QED BY <1>5, <1>6, <3>1, <3>2
  <2>2. ASSUME w \in Lasting(calls, n - 1), w.name # c.name PROVE w \in Lasting(calls, n)
    <3>1. PICK i \in Lasts(calls, n - 1) : w = Of(i) BY <1>6, <2>2
    <3>2. i \in Lasts(calls, n) BY <1>2, <1>3, <1>5, <2>2, <3>1
    <3>. QED BY <1>6, <3>1, <3>2
  <2>3. ASSUME sets PROVE Of(n) \in Lasting(calls, n)
    <3>1. n \in Lasts(calls, n) BY <1>2, <1>4, <2>3
    <3>. QED BY <1>6, <3>1
  <2>. QED BY <2>1, <2>2, <2>3
<1>. QED BY <1>7, <1>8

(* What a call makes of a table is a table.                                *)
LEMMA AppliedTyped ==
  ASSUME NEW f \in BOOLEAN, NEW t \in Seq(OptionEntry), NEW c \in OptionCall
  PROVE  Applied(f, t, c) \in Seq(OptionEntry)
<1>. DEFINE s == DollarFault(f, c.name)
            v == DollarFault(f, c.value)
            u == Without(t, s)
<1>1. s \in Seq(Code) /\ v \in Seq(Code) BY FaultTyped DEF OptionCall
<1>2. u \in Seq(OptionEntry) BY OptionPicked DEF Picks
<1>3. [of |-> s, name |-> s, value |-> v] \in OptionEntry BY <1>1 DEF OptionEntry
<1>4. Append(u, [of |-> s, name |-> s, value |-> v]) \in Seq(OptionEntry) BY <1>2, <1>3
<1>5. Applied(f, t, c) \in {t, u, Append(u, [of |-> s, name |-> s, value |-> v])}
  BY DEF Applied, SetOptionScoped, UnsetOption
<1>. QED BY <1>2, <1>4, <1>5

(* After any calls the table holds what they ask for, and the array.       *)
LEMMA TableStands ==
  ASSUME NEW f \in BOOLEAN, NEW array \in Arrays, NEW calls \in Seq(OptionCall),
         \A i \in 1..Len(calls) : calls[i].name # ArrayName
  PROVE  TableKeeps(f, Table(f, array, calls), array, Wanted(calls))
<1>. DEFINE L == Len(calls)
            S == Seq(OptionEntry)
            G == [n \in 1..L |-> [t \in S |-> Applied(f, t, calls[n])]]
            after == CHOOSE a : a = [n \in 0..L |->
                       IF n = 0 THEN array ELSE Applied(f, a[n - 1], calls[n])]
<1>1. L \in Nat /\ \A n \in 1..L : calls[n] \in OptionCall OBVIOUS
<1>2. Table(f, array, calls) = after[L]
  <2>1. after = CHOOSE a : a = [n \in 0..Len(calls) |->
                  IF n = 0 THEN array
                  ELSE IF calls[n].op = "set"
                       THEN SetOptionScoped(f, a[n - 1], calls[n].name, calls[n].value)
                  ELSE UnsetOption(f, a[n - 1], calls[n].name)]
    BY DEF Applied
  <2>. QED BY <2>1, Zenon DEF Table
<1>3. array \in S /\ NamesDiffer(array) BY ElementsAre
<1>. HIDE DEF L
<1>4. G \in [1..L -> [S -> S]] BY <1>1, AppliedTyped
<1>5. PICK u \in [0..L -> S] : u[0] = array /\ \A n \in 1..L : u[n] = G[n][u[n - 1]]
  <2>1. L \in Nat /\ array \in S BY <1>1, <1>3
  <2>. HIDE DEF G, S
  <2>2. Loops(S, array, L, G) BY <1>4, <2>1, LoopsAlways
  <2>. QED BY <2>2 DEF Loops
<1>6. after = [n \in 0..L |-> IF n = 0 THEN array ELSE Applied(f, after[n - 1], calls[n])]
  <2>1. \A n \in 0..L : u[n] = IF n = 0 THEN array ELSE Applied(f, u[n - 1], calls[n])
    <3>. SUFFICES ASSUME NEW n \in 0..L, n # 0 PROVE u[n] = Applied(f, u[n - 1], calls[n]) BY <1>5
    <3>1. n \in 1..L /\ n - 1 \in 0..L BY <1>1
    <3>. QED BY <1>5, <3>1
  <2>2. u = [n \in 0..L |-> u[n]] OBVIOUS
  <2>3. u = [n \in 0..L |-> IF n = 0 THEN array ELSE Applied(f, u[n - 1], calls[n])]
    BY <2>1, <2>2, Zenon
  <2>. QED BY <2>3, Zenon
<1>. HIDE DEF after, G
<1>7. after[0] = array /\ \A n \in 1..L : after[n] = Applied(f, after[n - 1], calls[n])
  <2>1. \A n \in 0..L : after[n] = IF n = 0 THEN array ELSE Applied(f, after[n - 1], calls[n])
    BY <1>6, Zenon
  <2>2. 0 \in 0..L /\ \A n \in 1..L : n \in 0..L /\ n # 0 BY <1>1
  <2>. QED BY <2>1, <2>2
<1>8. TableKeeps(f, after[0], array, Lasting(calls, 0))
  <2>1. \A i \in 1..L : ~(i <= 0) BY <1>1
  <2>2. Lasts(calls, 0) = {} BY <2>1 DEF Lasts, L
  <2>3. Lasting(calls, 0) = {} BY <2>2 DEF Lasting
  <2>. QED BY <1>3, <1>7, <2>3 DEF TableKeeps
<1>. DEFINE T == {n \in 0..L : TableKeeps(f, after[n], array, Lasting(calls, n))}
<1>9. 0 \in T
  <2>1. 0 \in 0..L BY <1>1
  <2>. QED BY <1>8, <2>1
<1>10. \A n \in 1..L : n - 1 \in T => n \in T
  <2>. SUFFICES ASSUME NEW n \in 1..L, n - 1 \in T PROVE n \in T OBVIOUS
  <2>1. n \in 0..L OBVIOUS
  <2>2. TableKeeps(f, after[n - 1], array, Lasting(calls, n - 1)) OBVIOUS
  <2>. DEFINE t == after[n - 1]
              W == Lasting(calls, n - 1)
              c == calls[n]
  <2>3. c \in OptionCall /\ c.name # ArrayName BY <1>1 DEF L
  <2>4. TableKeeps(f, t, array, W) BY <2>2
  <2>5. Lasting(calls, n) = AskedAfter(W, c) BY LastingGrows DEF L
  <2>6. after[n] = Applied(f, t, c) BY <1>7
  <2>. HIDE DEF t, W, c
  <2>7. TableKeeps(f, Applied(f, t, c), array, AskedAfter(W, c)) BY <2>3, <2>4, CallStands
  <2>. QED BY <2>1, <2>5, <2>6, <2>7
<1>11. L \in T
  <2>1. 0..L \subseteq T
    <3>. HIDE DEF T
    <3>. QED BY <1>1, <1>9, <1>10, UpTo
  <2>. QED BY <1>1, <2>1
<1>12. Wanted(calls) = Lasting(calls, L)
  <2>1. \A i \in 1..L : i <= L BY <1>1
  <2>2. {j \in 1..L : /\ calls[j].op = "set" /\ Keeps(calls[j])
                      /\ \A k \in (j + 1)..L : calls[k].name # calls[j].name}
          = Lasts(calls, L)
    BY <2>1 DEF Lasts, L
  <2>. QED BY <2>2 DEF Wanted, Lasting, L
<1>. QED BY <1>2, <1>11, <1>12

(* A sequence is empty if and only if nothing is in it.                    *)
LEMMA NothingIn ==
  ASSUME NEW A, NEW t \in Seq(A)
  PROVE  t = <<>> <=> Range(t) = {}
<1>1. t = <<>> => Range(t) = {} BY DEF Range
<1>2. ASSUME t # <<>> PROVE Range(t) # {}
  <2>1. 1 \in 1..Len(t) BY <1>2, EmptySeq
  <2>2. t[1] \in Range(t) BY <2>1 DEF Range
  <2>. QED BY <2>2
<1>. QED BY <1>1, <1>2

(* What ShowOptions is to find.                                            *)
InMap(W, array) == W \union {[name |-> o.name, value |-> o.value] : o \in Range(array)}

(* It is in the table.                                                     *)
LEMMA InTable ==
  ASSUME NEW f \in BOOLEAN, NEW array \in Arrays, NEW W, NEW t, TableKeeps(f, t, array, W)
  PROVE  TableOf(f, t, InMap(W, array))
<1>. DEFINE A == Range(array)
            pair(o) == [name |-> o.name, value |-> o.value]
<1>1. /\ W \subseteq Settable /\ t \in Seq(OptionEntry) /\ NamesDiffer(t)
      /\ Range(t) = A \union {EntryFor(f, w) : w \in W}
  BY DEF TableKeeps
<1>2. \A e \in A : StoredAs(f, e, pair(e)) BY ElementsAre DEF ElementOf
<1>3. \A w \in W : StoredAs(f, EntryFor(f, w), w) BY <1>1, EntryIs
<1>4. InMap(W, array) = W \union {pair(o) : o \in A} BY DEF InMap
<1>. HIDE DEF A, pair
<1>5. \A e \in Range(t) : \E w \in InMap(W, array) : StoredAs(f, e, w) BY <1>1, <1>2, <1>3, <1>4
<1>6. \A w \in InMap(W, array) : \E e \in Range(t) : StoredAs(f, e, w) BY <1>1, <1>2, <1>3, <1>4
<1>. QED BY <1>1, <1>5, <1>6 DEF TableOf

(* What ShowOption is to answer of an option.                              *)
Answer(W, name) ==
  IF name = ArrayName THEN IsArray
  ELSE IF \E w \in W : w.name = name THEN SetTo((CHOOSE w \in W : w.name = name).value)
  ELSE NotSet

(* It does.                                                                *)
LEMMA OptionAnswered ==
  ASSUME NEW f \in BOOLEAN, NEW array \in Arrays, NEW W, NEW t, TableKeeps(f, t, array, W),
         NEW name \in Seq(Code), checkOptionName(name), name = ArrayName => array # <<>>,
         NEW lines \in Listings(OnlyOf(t, DollarFault(f, name)))
  PROVE  ShowOption(f, splitLines(Lines(lines)), name) = Answer(W, name)
<1>. DEFINE s == DollarFault(f, name)
            A == Range(array)
            u == OnlyOf(t, s)
            V == {w \in InMap(W, array) : \E e \in Range(u) : StoredAs(f, e, w)}
            answer == ShowOption(f, splitLines(Lines(lines)), name)
<1>1. /\ W \subseteq Settable /\ t \in Seq(OptionEntry) /\ NamesDiffer(t)
      /\ Range(t) = A \union {EntryFor(f, w) : w \in W}
  BY DEF TableKeeps
<1>2. /\ u \in Seq(OptionEntry) /\ NamesDiffer(u)
      /\ \A e : e \in Range(u) <=> e \in Range(t) /\ e \in OptionEntry /\ e.of = s
  <2>1. Picks(t, u, {e \in OptionEntry : e.of = s}) BY <1>1, OptionPicked
  <2>. HIDE DEF u, s
  <2>. QED BY <1>1, <2>1 DEF Picks
<1>3. \A e \in A : ElementOf(f, e) /\ e.of = ArrayName /\ e \in OptionEntry
  BY ElementsAre DEF ElementOf, StoredAs
<1>4. ArrayName \in Seq(Code) /\ DollarFault(f, ArrayName) = ArrayName BY ElementsAre
<1>5. ASSUME NEW w \in W
      PROVE  /\ EntryFor(f, w) \in OptionEntry /\ StoredAs(f, EntryFor(f, w), w)
             /\ EntryFor(f, w).of = s <=> w.name = name
             /\ EntryFor(f, w).of # ArrayName /\ ~Indexed(w.name)
             /\ EntryFor(f, w).name = DollarFault(f, w.name) /\ w.name \in Seq(Code)
  <2>1. /\ StoredAs(f, EntryFor(f, w), w) /\ EntryFor(f, w).of = DollarFault(f, w.name)
        /\ w.name \in Seq(Code) /\ ~Indexed(w.name)
        /\ EntryFor(f, w).name = DollarFault(f, w.name)
    BY <1>1, EntryIs
  <2>2. w.name # ArrayName BY <1>1 DEF Settable
  <2>3. EntryFor(f, w).of = s => w.name = name BY <2>1, FaultDiffers
  <2>4. EntryFor(f, w).of # ArrayName BY <1>4, <2>1, <2>2, FaultDiffers
  <2>. QED BY <2>1, <2>3, <2>4 DEF StoredAs
<1>. HIDE DEF A, u, answer
<1>6. TableOf(f, u, V)
  <2>1. TableOf(f, t, InMap(W, array)) BY InTable
  <2>2. \A e \in Range(u) : \E w \in InMap(W, array) : StoredAs(f, e, w)
    BY <1>2, <2>1 DEF TableOf
  <2>3. \A e \in Range(u) : \E w \in V : StoredAs(f, e, w) BY <2>2
  <2>4. \A w \in V : \E e \in Range(u) : StoredAs(f, e, w) OBVIOUS
  <2>. HIDE DEF V
  <2>. QED BY <1>2, <2>3, <2>4 DEF TableOf
<1>7. ReadsOne(f, u, V, name, answer)
  <2>1. lines \in Listings(u) BY DEF u
  <2>. HIDE DEF V
  <2>. QED BY <1>6, <2>1, OneRead DEF answer
<1>. HIDE DEF V
<1>8. u = <<>> <=> Range(u) = {} BY <1>2, NothingIn
<1>9. CASE name = ArrayName
  <2>1. s = ArrayName BY <1>4, <1>9
  <2>2. \A e \in Range(u) : e \in A BY <1>1, <1>2, <1>5, <2>1
  <2>3. A # {}
    <3>1. array \in Seq(OptionEntry) BY ElementsAre
    <3>. QED BY <1>9, <3>1, NothingIn DEF A
  <2>4. Range(u) # {} BY <1>1, <1>2, <1>3, <2>1, <2>3
  <2>5. PICK e \in Range(u), w \in V :
          answer = IF isArrayElement(e.name, name) THEN IsArray ELSE SetTo(w.value)
    BY <1>7, <1>8, <2>4 DEF ReadsOne
  <2>6. isArrayElement(e.name, name)
    <3>1. ElementOf(f, e) BY <1>3, <2>2
    <3>. QED BY <1>9, <3>1 DEF ElementOf
  <2>. QED BY <1>9, <2>5, <2>6 DEF Answer, answer
<1>10. CASE name # ArrayName
  <2>1. s # ArrayName BY <1>4, <1>10, FaultDiffers
  <2>2. \A e \in Range(u) : \E w \in W : e = EntryFor(f, w) /\ w.name = name
    <3>. SUFFICES ASSUME NEW e \in Range(u) PROVE \E w \in W : e = EntryFor(f, w) /\ w.name = name
      OBVIOUS
    <3>1. e \in Range(t) /\ e.of = s BY <1>2
    <3>2. e \notin A BY <1>3, <2>1, <3>1
    <3>3. PICK w \in W : e = EntryFor(f, w) BY <1>1, <3>1, <3>2
    <3>. QED BY <1>5, <3>1, <3>3
  <2>3. CASE \E w \in W : w.name = name
    <3>. DEFINE x == CHOOSE w \in W : w.name = name
    <3>1. x \in W /\ x.name = name BY <2>3
    <3>. HIDE DEF x
    <3>2. EntryFor(f, x) \in Range(u) BY <1>1, <1>2, <1>5, <3>1
    <3>3. PICK e \in Range(u), w \in V :
            /\ StoredAs(f, e, w)
            /\ answer = IF isArrayElement(e.name, name) THEN IsArray ELSE SetTo(w.value)
      BY <1>7, <1>8, <3>2 DEF ReadsOne
    <3>4. PICK y \in W : e = EntryFor(f, y) /\ y.name = name BY <2>2
    <3>5. e = EntryFor(f, x)
      <4>1. PICK i \in 1..Len(u) : u[i] = e BY <1>2 DEF Range
      <4>2. PICK j \in 1..Len(u) : u[j] = EntryFor(f, x) BY <1>2, <3>2 DEF Range
      <4>3. e.name = EntryFor(f, x).name BY <1>5, <3>1, <3>4
      <4>4. i = j BY <1>2, <4>1, <4>2, <4>3 DEF NamesDiffer
      <4>. QED BY <4>1, <4>2, <4>4
    <3>6. w = x BY <1>5, <3>1, <3>3, <3>5, StoredOnce
    <3>7. ~isArrayElement(e.name, name)
      <4>1. e.name = DollarFault(f, name) /\ ~Indexed(name) BY <1>5, <3>1, <3>5
      <4>. QED BY <4>1, NotItsElement
    <3>8. answer = SetTo(x.value) BY <3>3, <3>6, <3>7
    <3>. QED BY <1>10, <2>3, <3>8 DEF Answer, answer, x
  <2>4. CASE ~\E w \in W : w.name = name
    <3>1. Range(u) = {} BY <2>2, <2>4
    <3>2. answer = NotSet BY <1>7, <1>8, <3>1 DEF ReadsOne
    <3>. QED BY <1>10, <2>4, <3>2 DEF Answer, answer
  <2>. QED BY <2>3, <2>4
<1>. QED BY <1>9, <1>10

(* Whatever options are set and unset, by calls of any number, names and   *)
(* values of any bytes, with the fault of 3.4 or without, beside an array  *)
(* or not: what tmux prints, in any of its forms, is read as the options   *)
(* that are set and as nothing else.                                       *)
THEOREM CallsCorrect ==
  ASSUME NEW f \in BOOLEAN, NEW array \in Arrays, NEW calls \in Seq(OptionCall),
         \A i \in 1..Len(calls) : calls[i].name # ArrayName
  PROVE  OptionsAsCalled(f, array, calls)
<1>. DEFINE t == Table(f, array, calls)
            W == Wanted(calls)
<1>1. TableKeeps(f, t, array, W) BY TableStands
<1>. HIDE DEF t, W
<1>2. \A lines \in Listings(t) : ShowOptions(f, splitLines(Lines(lines))) = InMap(W, array)
  BY <1>1, InTable, AllRead
<1>3. ASSUME NEW name \in {c.name : c \in Range(calls)} \union {o.of : o \in Range(array)},
             NEW lines \in Listings(OnlyOf(t, DollarFault(f, name)))
      PROVE  ShowOption(f, splitLines(Lines(lines)), name)
               = IF ~checkOptionName(name) THEN Refused ELSE Answer(W, name)
  <2>1. \A c \in Range(calls) : c.name \in Seq(Code) /\ c.name # ArrayName
    <3>1. \A i \in 1..Len(calls) : calls[i] \in OptionCall OBVIOUS
    <3>. QED BY <3>1 DEF Range, OptionCall
  <2>2. \A o \in Range(array) : o.of = ArrayName BY ElementsAre DEF ElementOf
  <2>3. ArrayName \in Seq(Code) BY ElementsAre
  <2>4. name \in Seq(Code) BY <2>1, <2>2, <2>3
  <2>5. name = ArrayName => array # <<>>
    <3>1. Range(<<>>) = {} BY DEF Range
    <3>. QED BY <2>1, <3>1
  <2>6. CASE checkOptionName(name) BY <1>1, <2>4, <2>5, <2>6, OptionAnswered
  <2>7. CASE ~checkOptionName(name) BY <2>7, Zenon DEF ShowOption
  <2>. QED BY <2>6, <2>7
<1>4. \A name \in {c.name : c \in Range(calls)} \union {o.of : o \in Range(array)} :
      \A lines \in Listings(OnlyOf(t, DollarFault(f, name))) :
        ShowOption(f, splitLines(Lines(lines)), name)
          = IF ~checkOptionName(name) THEN Refused ELSE Answer(W, name)
  BY <1>3
<1>. QED BY <1>2, <1>4, Zenon DEF OptionsAsCalled, InMap, Answer, t, W

-----------------------------------------------------------------------------
(* Notifications *)

(* What w is after its first field, when it is t after p.                  *)
RestIs(w, p, t) ==
  /\ w[1] = p[1] /\ Len(w) = Len(p) + Len(t) /\ Tail(w) = Tail(p) \o t
  /\ N!Rest(w) = Tail(p) \o t

(* It is t after the rest of p.                                            *)
LEMMA RestOfJoined ==
  ASSUME NEW A, NEW p \in Seq(A), p # <<>>, NEW t \in Seq(A), t # <<>>, NEW w, w = p \o t
  PROVE  w \in Seq(A) /\ RestIs(w, p, t)
<1>1. Len(p) \in Nat /\ Len(p) >= 1 /\ Len(t) \in Nat /\ Len(t) >= 1 BY EmptySeq
<1>2. /\ w \in Seq(A) /\ Len(w) = Len(p) + Len(t)
      /\ \A i \in 1..Len(p) : w[i] = p[i]
      /\ \A i \in 1..Len(t) : w[Len(p) + i] = t[i]
  BY Follow
<1>3. w # <<>> BY <1>1, <1>2
<1>. DEFINE q == Tail(p)
            u == Tail(w)
            v == q \o t
<1>4. /\ q \in Seq(A) /\ Len(q) = Len(p) - 1 /\ \A i \in 1..Len(q) : q[i] = p[i + 1]
      /\ u \in Seq(A) /\ Len(u) = Len(w) - 1 /\ \A i \in 1..Len(u) : u[i] = w[i + 1]
  BY <1>2, <1>3, HeadTailProperties
<1>. HIDE DEF q, u
<1>5. q \in Seq(A) /\ t \in Seq(A) BY <1>4
<1>6. /\ v \in Seq(A) /\ Len(v) = Len(q) + Len(t)
      /\ \A i \in 1..Len(q) : v[i] = q[i]
      /\ \A i \in 1..Len(t) : v[Len(q) + i] = t[i]
  BY ONLY <1>5, Follow
<1>. HIDE DEF v
<1>7. Len(u) = Len(v) BY <1>1, <1>2, <1>4, <1>6
<1>8. ASSUME NEW i \in 1..Len(u) PROVE u[i] = v[i]
  <2>1. CASE i \in 1..Len(q)
    <3>1. i + 1 \in 1..Len(p) BY <1>1, <1>4, <2>1
    <3>. QED BY <1>2, <1>4, <1>6, <2>1, <3>1
  <2>2. CASE i \notin 1..Len(q)
    <3>. DEFINE k == i - Len(q)
    <3>1. k \in 1..Len(t) /\ Len(q) + k = i /\ Len(p) + k = i + 1 BY <1>1, <1>2, <1>4, <2>2
    <3>. HIDE DEF k
    <3>2. u[i] = w[i + 1] BY ONLY <1>4, i \in 1..Len(u)
    <3>3. w[Len(p) + k] = t[k] BY ONLY <1>2, <3>1
    <3>4. v[Len(q) + k] = t[k] BY ONLY <1>6, <3>1
    <3>. QED BY ONLY <3>1, <3>2, <3>3, <3>4, Zenon
  <2>. QED BY <2>1, <2>2
<1>9. u = v BY <1>4, <1>6, <1>7, <1>8, SeqEqual
<1>10. w[1] = p[1]
  <2>1. 1 \in 1..Len(p) BY <1>1
  <2>. QED BY <1>2, <2>1
<1>11. N!Rest(w) = u
  <2>1. Len(w) # 1 BY <1>1, <1>2
  <2>. QED BY <2>1 DEF N!Rest, u
<1>. QED BY <1>2, <1>9, <1>10, <1>11 DEF RestIs, u, v, q

(* One field of its own before a text, or two.                             *)
After1(w, x, t) == w = <<x>> \o t
After2(w, x, y, t) == w = <<x, y>> \o t

(* What comes after one.                                                   *)
LEMMA RestAfterOne ==
  ASSUME NEW A, NEW x \in A, NEW t \in Seq(A), t # <<>>, NEW w, After1(w, x, t)
  PROVE  w \in Seq(A) /\ w[1] = x /\ Len(w) = 1 + Len(t) /\ Tail(w) = t /\ N!Rest(w) = t
<1>. DEFINE p == <<x>>
<1>1. p \in Seq(A) /\ p # <<>> /\ p[1] = x /\ Len(p) = 1 /\ Tail(p) = <<>> OBVIOUS
<1>2. w = p \o t BY DEF After1
<1>3. <<>> \o t = t BY ConcatEmptySeq
<1>. HIDE DEF p
<1>4. w \in Seq(A) /\ RestIs(w, p, t) BY <1>1, <1>2, RestOfJoined
<1>. QED BY <1>1, <1>3, <1>4 DEF RestIs

(* And after two.                                                          *)
LEMMA RestAfterTwo ==
  ASSUME NEW A, NEW x \in A, NEW y \in A, NEW t \in Seq(A), t # <<>>, NEW w, After2(w, x, y, t)
  PROVE  /\ w \in Seq(A) /\ w[1] = x /\ w[2] = y /\ Len(w) = 2 + Len(t)
         /\ N!Rest(w)[1] = y /\ N!Rest(w) = Tail(w) /\ N!Rest(Tail(w)) = t
<1>. DEFINE p == <<x, y>>
            q == <<y>>
<1>1. p \in Seq(A) /\ p # <<>> /\ p[1] = x /\ p[2] = y /\ Len(p) = 2 /\ Tail(p) = q
  OBVIOUS
<1>2. w = p \o t BY DEF After2
<1>. HIDE DEF p
<1>3. w \in Seq(A) /\ RestIs(w, p, t) BY <1>1, <1>2, RestOfJoined
<1>. DEFINE u == q \o t
<1>4. u \in Seq(A) /\ u[1] = y /\ N!Rest(u) = t
  <2>1. After1(u, y, t) BY DEF After1
  <2>. HIDE DEF u
  <2>. QED BY <2>1, RestAfterOne
<1>5. Tail(w) = u /\ N!Rest(w) = u BY <1>1, <1>3 DEF RestIs
<1>6. w[2] = y
  <2>1. 2 \in 1..Len(p) BY <1>1
  <2>2. \A i \in 1..Len(p) : (p \o t)[i] = p[i]
    <3>1. p \in Seq(A) /\ t \in Seq(A) BY <1>1
    <3>. QED BY ONLY <3>1, Follow
  <2>. QED BY <1>1, <1>2, <2>1, <2>2
<1>. HIDE DEF u
<1>. QED BY <1>1, <1>3, <1>4, <1>5, <1>6 DEF RestIs

(* The texts of some fields; a field that tmux escapes is not itself what  *)
(* another would be escaped to, and a name has an identifier escaped.      *)
Text(F) == Seq(F) \ {<<>>}
EscapedFields == {"\\$0", "\\\\t", "\\134t"}
Plainly(F) == F \cap (EscapedFields \union {"$1"}) = {}

VisTable == [f \in {"$0", "\\t"} |-> IF f = "$0" THEN "\\$0" ELSE "\\\\t"]
OctalTable == [f \in {"\\t"} |-> "\\134t"]
StoredField(f) == N!Do(VisTable, f)
DataField(f) == N!Do(OctalTable, f)

(* A field is read as it was before it was escaped.                        *)
LEMMA FieldUndone ==
  ASSUME NEW F, Plainly(F), NEW f \in F
  PROVE  /\ N!Undo(VisTable, StoredField(f)) = f /\ StoredField(f) \notin Sessions
         /\ StoredField(f) \in F \union EscapedFields /\ (StoredField(f) = "" <=> f = "")
         /\ N!Undo(OctalTable, DataField(f)) = f /\ DataField(f) \in F \union EscapedFields
<1>1. f \notin EscapedFields /\ f # "$1" BY DEF Plainly
<1>2. /\ DOMAIN VisTable = {"$0", "\\t"} /\ VisTable["$0"] = "\\$0" /\ VisTable["\\t"] = "\\\\t"
      /\ DOMAIN OctalTable = {"\\t"} /\ OctalTable["\\t"] = "\\134t"
  BY DEF VisTable, OctalTable
<1>3. ASSUME NEW T, NEW g \in DOMAIN T, \A k \in DOMAIN T : T[k] = T[g] => k = g
      PROVE  N!Undo(T, T[g]) = g
  BY <1>3 DEF N!Undo
<1>4. ASSUME NEW T, NEW g, \A k \in DOMAIN T : T[k] # g
      PROVE  N!Undo(T, g) = g
  BY <1>4 DEF N!Undo
<1>5. /\ N!Undo(VisTable, StoredField(f)) = f /\ StoredField(f) \notin Sessions
      /\ StoredField(f) \in F \union EscapedFields /\ (StoredField(f) = "" <=> f = "")
  <2>1. CASE f \in {"$0", "\\t"}
    <3>1. StoredField(f) = VisTable[f] BY <1>2, <2>1 DEF StoredField, N!Do
    <3>2. \A k \in DOMAIN VisTable : VisTable[k] = VisTable[f] => k = f BY <1>2, <2>1
    <3>3. N!Undo(VisTable, VisTable[f]) = f BY <1>2, <1>3, <2>1, <3>2
    <3>4. /\ VisTable[f] \in EscapedFields /\ VisTable[f] \notin Sessions
          /\ VisTable[f] # "" /\ f # ""
      BY <1>2, <2>1 DEF EscapedFields, Sessions
    <3>. QED BY <3>1, <3>3, <3>4
  <2>2. CASE f \notin {"$0", "\\t"}
    <3>1. StoredField(f) = f BY <1>2, <2>2 DEF StoredField, N!Do
    <3>2. \A k \in DOMAIN VisTable : VisTable[k] # f BY <1>1, <1>2 DEF EscapedFields
    <3>3. f \notin Sessions BY <1>1, <2>2 DEF Sessions
    <3>. QED BY <1>4, <3>1, <3>2, <3>3
  <2>. QED BY <2>1, <2>2
<1>6. N!Undo(OctalTable, DataField(f)) = f /\ DataField(f) \in F \union EscapedFields
  <2>1. CASE f = "\\t"
    <3>1. DataField(f) = OctalTable[f] BY <1>2, <2>1 DEF DataField, N!Do
    <3>2. N!Undo(OctalTable, OctalTable[f]) = f BY <1>2, <1>3, <2>1
    <3>3. OctalTable[f] \in EscapedFields BY <1>2, <2>1 DEF EscapedFields
    <3>. QED BY <3>1, <3>2, <3>3
  <2>2. CASE f # "\\t"
    <3>1. DataField(f) = f BY <1>2, <2>2 DEF DataField, N!Do
    <3>2. \A k \in DOMAIN OctalTable : OctalTable[k] # f BY <1>1, <1>2 DEF EscapedFields
    <3>. QED BY <1>4, <3>1, <3>2
  <2>. QED BY <2>1, <2>2
<1>. QED BY <1>5, <1>6

DataText(t) == [i \in 1..Len(t) |-> DataField(t[i])]

(* A text is, and no name that is stored begins with a session.            *)
LEMMA TextUndone ==
  ASSUME NEW F, Plainly(F), NEW t \in Text(F)
  PROVE  /\ N!stored(t) \in Text(F \union EscapedFields) /\ Len(N!stored(t)) = Len(t)
         /\ N!visDecode(N!stored(t)) = t /\ N!stored(t)[1] \notin Sessions
         /\ \A i \in 1..Len(t) : N!stored(t)[i] = "" <=> t[i] = ""
         /\ DataText(t) \in Text(F \union EscapedFields) /\ N!UnescapeString(DataText(t)) = t
<1>. DEFINE L == Len(t)
            A == F \union EscapedFields
            s == N!stored(t)
            d == DataText(t)
<1>1. t \in Seq(F) /\ L \in Nat /\ L >= 1 /\ t = [i \in 1..L |-> t[i]]
      /\ \A i \in 1..L : t[i] \in F
  <2>1. t \in Seq(F) /\ t # <<>> BY DEF Text
  <2>. QED BY <2>1, EmptySeq
<1>2. s = [i \in 1..L |-> StoredField(t[i])]
  BY DEF N!stored, N!Each, N!Do, StoredField, VisTable
<1>3. ASSUME NEW w, w = [i \in 1..L |-> w[i]], \A i \in 1..L : w[i] \in A
      PROVE  w \in Text(A) /\ Len(w) = L
  <2>. HIDE DEF L, A
  <2>1. SeqWith(A, L, w) BY <1>1, <1>3, MadeSeq
  <2>2. w \in Seq(A) /\ Len(w) = L BY <2>1 DEF SeqWith
  <2>3. w # <<>> BY <1>1, <2>2
  <2>. QED BY <2>2, <2>3 DEF Text
<1>4. \A i \in 1..L : s[i] = StoredField(t[i]) /\ d[i] = DataField(t[i]) BY <1>2 DEF DataText
<1>5. s = [i \in 1..L |-> s[i]] /\ d = [i \in 1..L |-> d[i]] BY <1>2 DEF DataText
<1>6. \A i \in 1..L : /\ N!Undo(VisTable, StoredField(t[i])) = t[i]
                      /\ N!Undo(OctalTable, DataField(t[i])) = t[i]
                      /\ StoredField(t[i]) \in A /\ DataField(t[i]) \in A
                      /\ (StoredField(t[i]) = "" <=> t[i] = "") /\ StoredField(t[i]) \notin Sessions
  BY <1>1, FieldUndone
<1>. HIDE DEF s, d, L, A
<1>7. s \in Text(A) /\ Len(s) = L /\ d \in Text(A) /\ Len(d) = L BY <1>3, <1>4, <1>5, <1>6
<1>8. N!visDecode(s) = t
  <2>1. N!visDecode(s) = [i \in 1..L |-> N!Undo(VisTable, s[i])]
    BY <1>7 DEF N!visDecode, N!Each, N!Undo, VisTable
  <2>2. \A i \in 1..L : N!Undo(VisTable, s[i]) = t[i] BY <1>4, <1>6
  <2>. QED BY <1>1, <2>1, <2>2
<1>9. N!UnescapeString(d) = t
  <2>1. N!UnescapeString(d) = [i \in 1..L |-> N!Undo(OctalTable, d[i])]
    BY <1>7 DEF N!UnescapeString, N!Each, N!Undo, OctalTable
  <2>2. \A i \in 1..L : N!Undo(OctalTable, d[i]) = t[i] BY <1>4, <1>6
  <2>. QED BY <1>1, <2>1, <2>2
<1>10. s[1] \notin Sessions
  <2>1. 1 \in 1..L BY <1>1
  <2>. QED BY <1>4, <1>6, <2>1
<1>. QED BY <1>4, <1>6, <1>7, <1>8, <1>9, <1>10 DEF s, d, L, A

(* A sequence is another and one more.                                     *)
LEMMA IsAppended ==
  ASSUME NEW A, NEW s \in Seq(A), NEW x \in A, NEW w \in Seq(A), Len(w) = Len(s) + 1,
         \A i \in 1..Len(s) : w[i] = s[i], w[Len(s) + 1] = x
  PROVE  w = Append(s, x)
<1>. DEFINE v == Append(s, x)
<1>1. /\ v \in Seq(A) /\ Len(v) = Len(s) + 1 /\ v[Len(s) + 1] = x
      /\ \A i \in 1..Len(s) : v[i] = s[i]
  BY AppendProperties
<1>2. Len(s) \in Nat /\ \A i \in 1..(Len(s) + 1) : i \in 1..Len(s) \/ i = Len(s) + 1 OBVIOUS
<1>. HIDE DEF v
<1>3. \A i \in 1..Len(w) : w[i] = v[i] BY <1>1, <1>2
<1>4. w = v BY <1>1, <1>3, SeqEqual
<1>. QED BY <1>4 DEF v

(* So are those written out.                                               *)
LEMMA FourAppended ==
  ASSUME NEW A, NEW a \in A, NEW b \in A, NEW c \in A, NEW d \in A
  PROVE  /\ <<a>> \in Seq(A) /\ <<a, b>> \in Seq(A) /\ <<a, b, c>> \in Seq(A)
         /\ <<a, b, c, d>> \in Seq(A)
         /\ <<a>> = Append(<<>>, a) /\ <<a, b>> = Append(<<a>>, b)
         /\ <<a, b, c>> = Append(<<a, b>>, c) /\ <<a, b, c, d>> = Append(<<a, b, c>>, d)
<1>. DEFINE t1 == <<a>>
            t2 == <<a, b>>
            t3 == <<a, b, c>>
            t4 == <<a, b, c, d>>
<1>1. t1 \in Seq(A) /\ Len(t1) = 1 /\ t1[1] = a OBVIOUS
<1>2. t2 \in Seq(A) /\ Len(t2) = 1 + 1 /\ t2[1] = a /\ t2[1 + 1] = b OBVIOUS
<1>3. t3 \in Seq(A) /\ Len(t3) = 2 + 1 /\ t3[1] = a /\ t3[2] = b /\ t3[2 + 1] = c OBVIOUS
<1>4. t4 \in Seq(A) /\ Len(t4) = 3 + 1 /\ t4[1] = a /\ t4[2] = b /\ t4[3] = c /\ t4[3 + 1] = d
  OBVIOUS
<1>5. t1 = Append(<<>>, a) OBVIOUS
<1>. HIDE DEF t1, t2, t3, t4
<1>6. t2 = Append(t1, b)
  <2>1. \A i \in 1..Len(t1) : t2[i] = t1[i] BY <1>1, <1>2
  <2>. QED BY <1>1, <1>2, <2>1, IsAppended
<1>7. t3 = Append(t2, c)
  <2>1. \A i \in 1..2 : i = 1 \/ i = 2 OBVIOUS
  <2>2. \A i \in 1..Len(t2) : t3[i] = t2[i] BY <1>2, <1>3, <2>1
  <2>3. t2 \in Seq(A) /\ t3 \in Seq(A) /\ Len(t3) = Len(t2) + 1 /\ t3[Len(t2) + 1] = c
    BY <1>2, <1>3
  <2>. QED BY ONLY c \in A, <2>2, <2>3, IsAppended
<1>8. t4 = Append(t3, d)
  <2>1. \A i \in 1..3 : i = 1 \/ i = 2 \/ i = 3 OBVIOUS
  <2>2. \A i \in 1..Len(t3) : t4[i] = t3[i] BY <1>3, <1>4, <2>1
  <2>3. t3 \in Seq(A) /\ t4 \in Seq(A) /\ Len(t4) = Len(t3) + 1 /\ t4[Len(t3) + 1] = d
    BY <1>3, <1>4
  <2>. QED BY ONLY d \in A, <2>2, <2>3, IsAppended
<1>. QED BY <1>1, <1>2, <1>3, <1>4, <1>5, <1>6, <1>7, <1>8 DEF t1, t2, t3, t4

(* The instance has the community modules' operators as MCValues has them. *)
LEMMA SameOperators ==
  ASSUME NEW s
  PROVE  N!FlattenSeq(s) = FlattenSeq(s) /\ N!Range(s) = Range(s)
BY DEF N!FlattenSeq, FlattenSeq, N!Range, Range

(* What Among leaves of a field of A.                                      *)
LeftOf(A, these) == [x \in A |-> IF x \in these THEN <<x>> ELSE <<>>]

(* Among is a map.                                                         *)
LEMMA AmongMaps ==
  ASSUME NEW A, NEW these
  PROVE  /\ LeftOf(A, these) \in [A -> Seq(A)] /\ LeftOf(A, these) \in [A -> Seq(A \cap these)]
         /\ \A t \in Seq(A) : N!Among(these, t) = Mapped(LeftOf(A, these), t)
<1>. DEFINE h == LeftOf(A, these)
<1>1. \A x \in A : h[x] = IF x \in these THEN <<x>> ELSE <<>> BY DEF LeftOf
<1>2. ASSUME NEW x \in A PROVE h[x] \in Seq(A) /\ h[x] \in Seq(A \cap these)
  <2>1. <<x>> \in Seq(A) /\ <<>> \in Seq(A) /\ <<>> \in Seq(A \cap these) OBVIOUS
  <2>2. x \in these => <<x>> \in Seq(A \cap these) OBVIOUS
  <2>. QED BY <1>1, <2>1, <2>2
<1>3. h = [x \in A |-> h[x]] BY DEF LeftOf
<1>4. ASSUME NEW t \in Seq(A) PROVE N!Among(these, t) = Mapped(h, t)
  <2>1. \A i \in 1..Len(t) : t[i] \in A OBVIOUS
  <2>. HIDE DEF h
  <2>2. [i \in 1..Len(t) |-> IF t[i] \in these THEN <<t[i]>> ELSE <<>>]
          = [i \in 1..Len(t) |-> h[t[i]]]
    BY <1>1, <2>1
  <2>3. N!Among(these, t) = FlattenSeq([i \in 1..Len(t) |-> IF t[i] \in these THEN <<t[i]>> ELSE <<>>])
    BY SameOperators, Zenon DEF N!Among
  <2>. QED BY <2>2, <2>3, Zenon DEF Mapped
<1>. HIDE DEF h
<1>5. h \in [A -> Seq(A)] /\ h \in [A -> Seq(A \cap these)] BY <1>2, <1>3
<1>. QED BY <1>4, <1>5 DEF h

(* What it leaves is of these, all of them if there is nothing else.       *)
LEMMA AmongIs ==
  ASSUME NEW A, NEW these, NEW t \in Seq(A)
  PROVE  /\ N!Among(these, t) \in Seq(A \cap these)
         /\ (\A i \in 1..Len(t) : t[i] \in these) => N!Among(these, t) = t
<1>. DEFINE h == LeftOf(A, these)
<1>1. h \in [A -> Seq(A \cap these)] /\ N!Among(these, t) = Mapped(h, t) BY AmongMaps
<1>2. N!Among(these, t) \in Seq(A \cap these)
  <2>. HIDE DEF h
  <2>. QED BY <1>1, MappedAppend
<1>3. ASSUME \A i \in 1..Len(t) : t[i] \in these PROVE N!Among(these, t) = t
  <2>. DEFINE B == A \cap these
              g == LeftOf(B, these)
  <2>1. t \in Seq(B)
    <3>1. \A i \in 1..Len(t) : t[i] \in B BY <1>3
    <3>2. t \in [1..Len(t) -> B] /\ Len(t) \in Nat BY <3>1
    <3>. QED BY <3>2
  <2>2. \A x \in B : g[x] = <<x>> BY DEF LeftOf
  <2>. HIDE DEF B
  <2>3. g \in [B -> Seq(B)] /\ N!Among(these, t) = Mapped(g, t) BY <2>1, AmongMaps
  <2>. HIDE DEF g
  <2>4. Mapped(g, t) = t BY <2>1, <2>2, <2>3, MappedSelf
  <2>. QED BY <2>3, <2>4
<1>. QED BY <1>2, <1>3

(* Of four fields.                                                         *)
LEMMA AmongFour ==
  ASSUME NEW A, NEW these, NEW a \in A, NEW b \in A, NEW c \in A, NEW d \in A
  PROVE  /\ a \in these /\ b \notin these /\ c \notin these /\ d \notin these =>
              N!Among(these, <<a, b, c, d>>) = <<a>>
         /\ a \notin these /\ b \notin these /\ c \notin these /\ d \notin these =>
              N!Among(these, <<a, b, c, d>>) = <<>>
         /\ a \notin these /\ b \in these /\ c \notin these /\ d \notin these =>
              N!Among(these, <<a, b, c, d>>) = <<b>>
         /\ a \notin these /\ b \notin these /\ c \in these /\ d \notin these =>
              N!Among(these, <<a, b, c, d>>) = <<c>>
         /\ a \notin these /\ b \notin these /\ c \notin these /\ d \in these =>
              N!Among(these, <<a, b, c, d>>) = <<d>>
         /\ a \in these /\ b \in these /\ c \in these /\ d \notin these =>
              N!Among(these, <<a, b, c, d>>) = <<a, b, c>>
<1>. DEFINE h == LeftOf(A, these)
            t1 == <<a>>
            t2 == <<a, b>>
            t3 == <<a, b, c>>
            t4 == <<a, b, c, d>>
<1>1. h \in [A -> Seq(A)] /\ \A t \in Seq(A) : N!Among(these, t) = Mapped(h, t) BY AmongMaps
<1>2. \A x \in A : h[x] = IF x \in these THEN <<x>> ELSE <<>> BY DEF LeftOf
<1>3. /\ t1 \in Seq(A) /\ t2 \in Seq(A) /\ t3 \in Seq(A) /\ t4 \in Seq(A) /\ <<>> \in Seq(A)
      /\ t1 = Append(<<>>, a) /\ t2 = Append(t1, b) /\ t3 = Append(t2, c) /\ t4 = Append(t3, d)
  BY FourAppended
<1>4. /\ \A x \in A : Append(<<>>, x) = <<x>>
      /\ \A x, y, z \in A : Append(<<x>>, y) = <<x, y>> /\ Append(<<x, y>>, z) = <<x, y, z>>
  <2>1. ASSUME NEW x \in A, NEW y \in A, NEW z \in A
        PROVE  /\ Append(<<>>, x) = <<x>> /\ Append(<<x>>, y) = <<x, y>>
               /\ Append(<<x, y>>, z) = <<x, y, z>>
    <3>1. /\ <<x>> \in Seq(A) /\ <<x, y>> \in Seq(A) /\ <<x, y, z>> \in Seq(A)
          /\ <<x, y, z, z>> \in Seq(A)
          /\ <<x>> = Append(<<>>, x) /\ <<x, y>> = Append(<<x>>, y)
          /\ <<x, y, z>> = Append(<<x, y>>, z) /\ <<x, y, z, z>> = Append(<<x, y, z>>, z)
      BY ONLY <2>1, FourAppended
    <3>. QED BY ONLY <3>1
  <2>. QED BY ONLY <2>1
<1>. HIDE DEF h
<1>5. /\ Mapped(h, <<>>) = <<>>
      /\ \A s \in Seq(A), x \in A : Mapped(h, Append(s, x)) = Mapped(h, s) \o h[x]
  <2>1. h \in [A -> Seq(A)] BY <1>1
  <2>. QED BY ONLY <2>1, MappedAppend
<1>6. ASSUME NEW s \in Seq(A), NEW x \in A, Mapped(h, s) \in Seq(A)
      PROVE  Mapped(h, Append(s, x)) = IF x \in these THEN Append(Mapped(h, s), x) ELSE Mapped(h, s)
  <2>1. Mapped(h, s) \o <<>> = Mapped(h, s) /\ Mapped(h, s) \o <<x>> = Append(Mapped(h, s), x)
    BY <1>6, ConcatEmptySeq, AppendIsConcat
  <2>. QED BY <1>2, <1>5, <2>1
<1>. DEFINE m1 == Mapped(h, t1)
            m2 == Mapped(h, t2)
            m3 == Mapped(h, t3)
            m4 == Mapped(h, t4)
<1>7. N!Among(these, t4) = m4 BY <1>1, <1>3
<1>8. m1 \in Seq(A) /\ m2 \in Seq(A) /\ m3 \in Seq(A) /\ m4 \in Seq(A) BY <1>1, <1>3, MappedAppend
<1>. HIDE DEF t1, t2, t3, t4
<1>9. /\ m1 = IF a \in these THEN <<a>> ELSE <<>>
      /\ m2 = IF b \in these THEN Append(m1, b) ELSE m1
      /\ m3 = IF c \in these THEN Append(m2, c) ELSE m2
      /\ m4 = IF d \in these THEN Append(m3, d) ELSE m3
  <2>1. m2 = IF b \in these THEN Append(m1, b) ELSE m1 BY <1>3, <1>6, <1>8, Zenon
  <2>2. m3 = IF c \in these THEN Append(m2, c) ELSE m2 BY <1>3, <1>6, <1>8, Zenon
  <2>3. m4 = IF d \in these THEN Append(m3, d) ELSE m3 BY <1>3, <1>6, <1>8, Zenon
  <2>4. m1 = IF a \in these THEN <<a>> ELSE <<>>
    <3>1. m1 = IF a \in these THEN Append(<<>>, a) ELSE <<>> BY <1>3, <1>5, <1>6, Zenon
    <3>. QED BY <1>4, <3>1, Zenon
  <2>. QED BY <2>1, <2>2, <2>3, <2>4
<1>. HIDE DEF m1, m2, m3, m4
<1>10. /\ Append(<<>>, b) = <<b>> /\ Append(<<>>, c) = <<c>> /\ Append(<<>>, d) = <<d>>
       /\ Append(<<a>>, b) = <<a, b>> /\ Append(<<a, b>>, c) = <<a, b, c>>
  BY <1>4
<1>11. a \in these /\ b \notin these /\ c \notin these /\ d \notin these => m4 = <<a>>
  BY ONLY <1>9
<1>12. a \notin these /\ b \notin these /\ c \notin these /\ d \notin these => m4 = <<>>
  BY ONLY <1>9
<1>13. a \notin these /\ b \in these /\ c \notin these /\ d \notin these => m4 = <<b>>
  BY ONLY <1>9, <1>10
<1>14. a \notin these /\ b \notin these /\ c \in these /\ d \notin these => m4 = <<c>>
  BY ONLY <1>9, <1>10
<1>15. a \notin these /\ b \notin these /\ c \notin these /\ d \in these => m4 = <<d>>
  BY ONLY <1>9, <1>10
<1>16. a \in these /\ b \in these /\ c \in these /\ d \notin these => m4 = <<a, b, c>>
  BY ONLY <1>9, <1>10
<1>. QED BY <1>7, <1>11, <1>12, <1>13, <1>14, <1>15, <1>16 DEF t4

(* A set of places that is not empty has a first and a last.               *)
LEMMA HasEnds ==
  ASSUME NEW L \in Nat, NEW S, S \subseteq 1..L, S # {}
  PROVE  /\ \E i \in S : \A j \in S : i <= j
         /\ \E i \in S : \A j \in S : i >= j
<1>2. S \subseteq Nat /\ \A i \in S : i \in Nat /\ L - i \in Nat OBVIOUS
<1>. DEFINE T == {L - i : i \in S}
<1>3. T \subseteq Nat /\ T # {} BY <1>2
<1>. HIDE DEF T
<1>4. PICK n \in T : \A m \in T : n <= m BY <1>3, NatMin
<1>5. PICK i \in S : n = L - i BY DEF T
<1>6. ASSUME NEW j \in S PROVE i >= j
  <2>1. L - j \in T BY DEF T
  <2>2. n <= L - j BY <1>4, <2>1
  <2>3. i \in Nat /\ j \in Nat BY <1>2
  <2>. QED BY <1>5, <2>2, <2>3
<1>7. \E k \in S : \A j \in S : k <= j BY <1>2, NatMin
<1>. QED BY <1>6, <1>7

Full(text) == {i \in 1..Len(text) : text[i] # ""}
FirstFull(text) == CHOOSE i \in Full(text) : \A j \in Full(text) : i <= j
LastFull(text) == CHOOSE i \in Full(text) : \A j \in Full(text) : i >= j

(* What is trimmed lies between the fields that are not empty.             *)
LEMMA TrimSpaceIs ==
  ASSUME NEW t
  PROVE  N!TrimSpace(t) =
           IF Full(t) = {} THEN N!NoText ELSE SubSeq(t, FirstFull(t), LastFull(t))
BY Zenon DEF N!TrimSpace, Full, FirstFull, LastFull

(* Trimming a text leaves nothing, or a text of its own fields with none   *)
(* empty at its ends; and leaves the text alone if it is like that.        *)
LEMMA TrimmedText ==
  ASSUME NEW A, NEW t \in Seq(A), t # <<>>
  PROVE  /\ (\A i \in 1..Len(t) : t[i] = "") => N!TrimSpace(t) = N!NoText
         /\ t[1] # "" /\ t[Len(t)] # "" => N!TrimSpace(t) = t
         /\ N!TrimSpace(t) = t => t = N!NoText \/ (t[1] # "" /\ t[Len(t)] # "")
         /\ N!TrimSpace(t) = N!NoText \/ N!TrimSpace(t) \in Seq(A)
         /\ N!TrimSpace(t) # <<>>
<1>. DEFINE L == Len(t)
            i == FirstFull(t)
            j == LastFull(t)
            u == SubSeq(t, i, j)
<1>1. L \in Nat /\ L >= 1 /\ 1 \in 1..L /\ L \in 1..L BY EmptySeq
<1>2. Full(t) \subseteq 1..L BY DEF Full
<1>11. \A m, n \in 1..L : (m <= 1 /\ n >= L) \/ n - m + 1 = L => m = 1 /\ n = L BY <1>1
<1>3. Full(t) # {} => /\ i \in Full(t) /\ \A k \in Full(t) : i <= k
                      /\ j \in Full(t) /\ \A k \in Full(t) : j >= k
  <2>. SUFFICES ASSUME Full(t) # {} PROVE <1>3!2 OBVIOUS
  <2>1. /\ \E k \in Full(t) : \A m \in Full(t) : k <= m
        /\ \E k \in Full(t) : \A m \in Full(t) : k >= m
    BY <1>1, <1>2, HasEnds
  <2>2. i \in Full(t) /\ \A k \in Full(t) : i <= k BY <2>1, Zenon DEF FirstFull
  <2>3. j \in Full(t) /\ \A k \in Full(t) : j >= k BY <2>1, Zenon DEF LastFull
  <2>. QED BY <2>2, <2>3
<1>. HIDE DEF i, j, L
<1>4. Full(t) # {} => /\ i \in 1..L /\ j \in 1..L /\ i <= j /\ t[i] # "" /\ t[j] # ""
                      /\ u \in Seq(A) /\ Len(u) = j - i + 1
  <2>. SUFFICES ASSUME Full(t) # {} PROVE <1>4!2 OBVIOUS
  <2>1. i \in 1..L /\ j \in 1..L /\ i <= j BY <1>2, <1>3
  <2>2. t[i] # "" /\ t[j] # "" BY <1>3 DEF Full
  <2>3. i \in Int /\ j \in Int /\ \A k \in i..j : t[k] \in A
    <3>1. \A k \in 1..L : t[k] \in A BY DEF L
    <3>. QED BY <1>1, <2>1, <3>1
  <2>4. u \in Seq(A) /\ Len(u) = IF i <= j THEN j - i + 1 ELSE 0 BY ONLY <2>3, SubSeqProperties
  <2>. QED BY <2>1, <2>2, <2>4
<1>. HIDE DEF u
<1>5. N!TrimSpace(t) = IF Full(t) = {} THEN N!NoText ELSE u BY TrimSpaceIs DEF u, i, j
<1>6. (\A k \in 1..L : t[k] = "") => N!TrimSpace(t) = N!NoText
  <2>1. (\A k \in 1..L : t[k] = "") => Full(t) = {} BY DEF Full, L
  <2>. QED BY <1>5, <2>1
<1>7. t[1] # "" /\ t[L] # "" => N!TrimSpace(t) = t
  <2>. SUFFICES ASSUME t[1] # "", t[L] # "" PROVE N!TrimSpace(t) = t OBVIOUS
  <2>1. 1 \in Full(t) /\ L \in Full(t) BY <1>1 DEF Full, L
  <2>2. i <= 1 /\ j >= L /\ i \in 1..L /\ j \in 1..L BY <1>3, <1>4, <2>1
  <2>3. i = 1 /\ j = L BY ONLY <1>11, <2>2
  <2>4. SubSeq(t, 1, Len(t)) = t BY SubSeqFull
  <2>5. u = t BY <2>3, <2>4 DEF u, L
  <2>. QED BY <1>5, <2>1, <2>5
<1>8. ASSUME N!TrimSpace(t) = t PROVE t = N!NoText \/ (t[1] # "" /\ t[L] # "")
  <2>1. CASE Full(t) = {} BY <1>5, <1>8, <2>1
  <2>2. CASE Full(t) # {}
    <3>1. Len(u) = L BY <1>5, <1>8, <2>2 DEF L
    <3>2. i \in 1..L /\ j \in 1..L /\ j - i + 1 = L BY <1>4, <2>2, <3>1
    <3>3. i = 1 /\ j = L BY ONLY <1>11, <3>2
    <3>. QED BY <1>4, <2>2, <3>3
  <2>. QED BY <2>1, <2>2
<1>9. N!TrimSpace(t) = N!NoText \/ N!TrimSpace(t) \in Seq(A) BY <1>4, <1>5
<1>10. N!TrimSpace(t) # <<>>
  <2>1. N!NoText # <<>> BY DEF N!NoText
  <2>2. ASSUME Full(t) # {} PROVE u # <<>>
    <3>1. i \in 1..L /\ j \in 1..L /\ i <= j /\ Len(u) = j - i + 1 BY <1>4, <2>2
    <3>2. j - i + 1 # 0 BY <1>1, <3>1
    <3>. QED BY ONLY <3>1, <3>2, EmptySeq
  <2>. QED BY <1>5, <2>1, <2>2
<1>. QED BY <1>6, <1>7, <1>8, <1>9, <1>10 DEF L

(* A name without outer spaces is read from what tmux stores of it.        *)
LEMMA NameUndone ==
  ASSUME NEW F, Plainly(F), NEW t \in Trimmed(Text(F))
  PROVE  t \in Text(F) /\ N!TrimSpace(t) = t /\ N!visDecode(N!TrimSpace(N!stored(t))) = t
<1>. DEFINE s == N!stored(t)
            A == F \union EscapedFields
<1>1. t \in Text(F) /\ N!TrimSpace(t) = t BY DEF Trimmed
<1>2. t \in Seq(F) /\ t # <<>> BY <1>1 DEF Text
<1>3. /\ s \in Text(A) /\ Len(s) = Len(t) /\ N!visDecode(s) = t
      /\ \A i \in 1..Len(t) : s[i] = "" <=> t[i] = ""
  BY <1>1, TextUndone
<1>4. s \in Seq(A) /\ s # <<>> BY <1>3 DEF Text
<1>. HIDE DEF s, A
<1>5. Len(t) \in Nat /\ 1 \in 1..Len(t) /\ Len(t) \in 1..Len(t) BY <1>2, EmptySeq
<1>6. CASE t = N!NoText
  <2>4. Len(N!NoText) = 1 /\ N!NoText[1] = "" BY DEF N!NoText
  <2>5. \A i \in 1..1 : i = 1 OBVIOUS
  <2>1. Len(t) = 1 /\ \A i \in 1..Len(t) : t[i] = "" BY <1>6, <2>4, <2>5
  <2>2. N!TrimSpace(s) = N!NoText BY <1>3, <1>4, <2>1, TrimmedText
  <2>3. N!visDecode(N!NoText) = N!NoText
    <3>1. N!Undo(VisTable, "") = ""
      <4>1. \A g \in DOMAIN VisTable : VisTable[g] # "" BY DEF VisTable
      <4>. QED BY <4>1 DEF N!Undo
    <3>2. N!visDecode(N!NoText) = [i \in 1..Len(N!NoText) |-> N!Undo(VisTable, N!NoText[i])]
      BY DEF N!visDecode, N!Each, N!Undo, VisTable
    <3>3. Len(N!NoText) = 1 /\ \A i \in 1..1 : N!NoText[i] = "" BY <2>4, <2>5
    <3>4. N!visDecode(N!NoText) = [i \in 1..1 |-> ""] BY <3>1, <3>2, <3>3
    <3>5. [i \in 1..1 |-> ""] = N!NoText
      <4>. DEFINE w == [i \in 1..1 |-> ""]
      <4>1. w \in [1..1 -> {""}] /\ DOMAIN w = 1..1 /\ 1 \in Nat OBVIOUS
      <4>2. w \in Seq({""}) /\ Len(w) = 1 /\ \A i \in 1..1 : w[i] = "" BY <4>1
      <4>3. N!NoText \in Seq({""}) BY DEF N!NoText
      <4>. HIDE DEF w
      <4>4. Len(w) = Len(N!NoText) /\ \A i \in 1..Len(w) : w[i] = N!NoText[i] BY <3>3, <4>2
      <4>5. w = N!NoText BY ONLY <4>2, <4>3, <4>4, SeqEqual
      <4>. QED BY <4>5 DEF w
    <3>. QED BY <3>4, <3>5
  <2>. QED BY <1>1, <1>6, <2>2, <2>3 DEF s
<1>7. CASE t[1] # "" /\ t[Len(t)] # ""
  <2>1. s[1] # "" /\ s[Len(s)] # "" BY <1>3, <1>5, <1>7
  <2>2. N!TrimSpace(s) = s BY <1>4, <2>1, TrimmedText
  <2>. QED BY <1>1, <1>3, <2>2 DEF s
<1>8. t = N!NoText \/ (t[1] # "" /\ t[Len(t)] # "") BY <1>1, <1>2, TrimmedText
<1>. QED BY <1>6, <1>7, <1>8

(* The fields that are not empty, of a text that has no other.             *)
LEMMA AllFields ==
  ASSUME NEW A, NEW t \in Seq(A), \A i \in 1..Len(t) : t[i] # ""
  PROVE  N!FieldsOf(t) = t
<1>1. DOMAIN t = 1..Len(t) BY ONLY t \in Seq(A)
<1>2. \A i \in 1..Len(t) : t[i] \in N!Range(t) \ {""} BY <1>1 DEF N!Range
<1>. QED BY <1>2, AmongIs DEF N!FieldsOf

(* A field with something in it.                                           *)
Filled(f) == f # ""

(* Of two, three or four fields.                                           *)
LEMMA FewFields ==
  ASSUME NEW A, NEW a \in A, NEW b \in A, NEW c \in A, NEW d \in A,
         Filled(a), Filled(b), Filled(c)
  PROVE  /\ N!FieldsOf(<<a>>) = <<a>> /\ N!FieldsOf(<<a, b>>) = <<a, b>>
         /\ N!FieldsOf(<<a, b, c>>) = <<a, b, c>>
         /\ Filled(d) => N!FieldsOf(<<a, b, c, d>>) = <<a, b, c, d>>
         /\ ~Filled(d) => N!FieldsOf(<<a, b, c, d>>) = <<a, b, c>>
<1>. DEFINE t1 == <<a>>
            t2 == <<a, b>>
            t3 == <<a, b, c>>
            t4 == <<a, b, c, d>>
<1>1. t1 \in Seq(A) /\ Len(t1) = 1 /\ t1[1] = a BY ONLY a \in A
<1>2. t2 \in Seq(A) /\ Len(t2) = 2 /\ t2[1] = a /\ t2[2] = b BY ONLY a \in A, b \in A
<1>3. t3 \in Seq(A) /\ Len(t3) = 3 /\ t3[1] = a /\ t3[2] = b /\ t3[3] = c
  BY ONLY a \in A, b \in A, c \in A
<1>4. t4 \in Seq(A) /\ Len(t4) = 4 /\ t4[1] = a /\ t4[2] = b /\ t4[3] = c /\ t4[4] = d
  BY ONLY a \in A, b \in A, c \in A, d \in A
<1>5. /\ \A i \in 1..1 : i = 1
      /\ \A i \in 1..2 : i = 1 \/ i = 2
      /\ \A i \in 1..3 : i = 1 \/ i = 2 \/ i = 3
      /\ \A i \in 1..4 : i = 1 \/ i = 2 \/ i = 3 \/ i = 4
  BY ONLY TRUE
<1>. HIDE DEF t1, t2, t3, t4
<1>15. a # "" /\ b # "" /\ c # "" BY DEF Filled
<1>6. \A i \in 1..Len(t1) : t1[i] # "" BY <1>1, <1>5, <1>15
<1>7. \A i \in 1..Len(t2) : t2[i] # "" BY <1>2, <1>5, <1>15
<1>8. \A i \in 1..Len(t3) : t3[i] # "" BY <1>3, <1>5, <1>15
<1>9. d # "" => \A i \in 1..Len(t4) : t4[i] # "" BY <1>4, <1>5, <1>15
<1>10. N!FieldsOf(t1) = t1 BY <1>1, <1>6, AllFields
<1>11. N!FieldsOf(t2) = t2 BY <1>2, <1>7, AllFields
<1>12. N!FieldsOf(t3) = t3 BY <1>3, <1>8, AllFields
<1>13. d # "" => N!FieldsOf(t4) = t4 BY <1>4, <1>9, AllFields
<1>14. d = "" => N!FieldsOf(t4) = t3
  <2>. SUFFICES ASSUME d = "" PROVE N!FieldsOf(t4) = t3 OBVIOUS
  <2>. DEFINE these == N!Range(t4) \ {""}
  <2>1. DOMAIN t4 = 1..4 BY ONLY <1>4
  <2>2. a \in N!Range(t4) /\ b \in N!Range(t4) /\ c \in N!Range(t4)
    <3>1. 1 \in 1..4 /\ 2 \in 1..4 /\ 3 \in 1..4 BY ONLY TRUE
    <3>. QED BY <1>4, <2>1, <3>1 DEF N!Range
  <2>3. a \in these /\ b \in these /\ c \in these /\ d \notin these BY <1>15, <2>2
  <2>. HIDE DEF these
  <2>4. N!Among(these, t4) = t3
    BY ONLY <2>3, a \in A, b \in A, c \in A, d \in A, AmongFour DEF t4, t3
  <2>. QED BY <2>4 DEF N!FieldsOf, these
<1>. QED BY <1>10, <1>11, <1>12, <1>13, <1>14 DEF t1, t2, t3, t4, Filled

(* The separator, and what is on its two sides.                            *)
Separated(w, p, t) == w = (p \o <<":">>) \o t
SplitAs(w, p, t) ==
  /\ N!Separators(w) # {} /\ N!separator(w) = Len(p) + 1
  /\ SubSeq(w, 1, Len(p)) = p /\ N!Meta(w) = N!FieldsOf(p) /\ N!Value(w) = t

(* The first colon between spaces is it, whatever colons come after.       *)
LEMMA SeparatorFound ==
  ASSUME NEW A, ":" \in A, NEW p \in Seq(A), p # <<>>, \A i \in 2..Len(p) : p[i] # ":",
         NEW t \in Seq(A), t # <<>>, NEW w, Separated(w, p, t)
  PROVE  w \in Seq(A) /\ SplitAs(w, p, t)
<1>. DEFINE L == Len(p)
            T == Len(t)
            colon == <<":">>
            q == p \o colon
<1>1. L \in Nat /\ L >= 1 /\ T \in Nat /\ T >= 1 BY EmptySeq
<1>2. colon \in Seq(A) /\ Len(colon) = 1 /\ colon[1] = ":" OBVIOUS
<1>3. w = q \o t BY DEF Separated
<1>. HIDE DEF colon
<1>4. /\ q \in Seq(A) /\ Len(q) = L + 1
      /\ \A i \in 1..L : q[i] = p[i]
      /\ \A i \in 1..1 : q[L + i] = colon[i]
  <2>1. /\ p \o colon \in Seq(A) /\ Len(p \o colon) = Len(p) + Len(colon)
        /\ \A i \in 1..Len(p) : (p \o colon)[i] = p[i]
        /\ \A i \in 1..Len(colon) : (p \o colon)[Len(p) + i] = colon[i]
    <3>1. colon \in Seq(A) BY <1>2
    <3>. QED BY ONLY p \in Seq(A), <3>1, Follow
  <2>. QED BY <1>2, <2>1
<1>. HIDE DEF q
<1>5. /\ w \in Seq(A) /\ Len(w) = L + 1 + T
      /\ \A i \in 1..(L + 1) : w[i] = q[i]
      /\ \A i \in 1..T : w[L + 1 + i] = t[i]
  <2>1. /\ q \o t \in Seq(A) /\ Len(q \o t) = Len(q) + Len(t)
        /\ \A i \in 1..Len(q) : (q \o t)[i] = q[i]
        /\ \A i \in 1..Len(t) : (q \o t)[Len(q) + i] = t[i]
    <3>1. q \in Seq(A) BY <1>4
    <3>. QED BY ONLY t \in Seq(A), <3>1, Follow
  <2>. QED BY <1>3, <1>4, <2>1
<1>. HIDE DEF L, T
<1>6. (\A i \in 1..L : w[i] = p[i]) /\ w[L + 1] = ":"
  <2>1. \A i \in 1..L : i \in 1..(L + 1) BY <1>1
  <2>2. L + 1 \in 1..(L + 1) /\ 1 \in 1..1 BY <1>1
  <2>3. q[L + 1] = ":" BY <1>2, <1>4, <2>2
  <2>. QED BY <1>4, <1>5, <2>1, <2>2, <2>3
<1>7. L + 1 \in N!Separators(w)
  <2>1. L + 1 \in 2..(Len(w) - 1) BY <1>1, <1>5
  <2>. QED BY <1>6, <2>1 DEF N!Separators
<1>8. \A i \in N!Separators(w) : L + 1 <= i /\ i \in Nat
  <2>1. SUFFICES ASSUME NEW i \in 2..(Len(w) - 1), w[i] = ":" PROVE L + 1 <= i /\ i \in Nat
    BY DEF N!Separators
  <2>2. i \in Nat /\ i >= 2 BY <1>1, <1>5
  <2>3. i <= L => i \in 1..L /\ i \in 2..L BY <1>1, <2>2
  <2>4. ~(i <= L) BY <1>6, <2>1, <2>3 DEF L
  <2>. QED BY <1>1, <2>2, <2>4
<1>9. N!separator(w) = L + 1
  <2>1. \A i, j \in Nat : i <= j /\ j <= i => i = j OBVIOUS
  <2>2. N!separator(w) \in N!Separators(w) /\ \A j \in N!Separators(w) : N!separator(w) <= j
    BY <1>7, <1>8 DEF N!separator
  <2>3. N!separator(w) \in Nat /\ N!separator(w) <= L + 1 /\ L + 1 <= N!separator(w)
    BY <1>7, <1>8, <2>2
  <2>4. L + 1 \in Nat BY <1>1
  <2>. QED BY ONLY <2>1, <2>3, <2>4
<1>10. \A i \in 1..Len(w) : w[i] \in A BY <1>5
<1>11. SubSeq(w, 1, L) = p
  <2>. DEFINE u == SubSeq(w, 1, L)
  <2>1. 1 \in Int /\ L \in Int /\ \A i \in 1..L : w[i] \in A
    <3>1. \A i \in 1..L : i \in 1..Len(w) BY <1>1, <1>5
    <3>. QED BY <1>1, <1>10, <3>1
  <2>2. /\ u \in Seq(A) /\ Len(u) = IF 1 <= L THEN L - 1 + 1 ELSE 0
        /\ \A i \in 1..(L - 1 + 1) : u[i] = w[1 + i - 1]
    BY ONLY <2>1, SubSeqProperties
  <2>. HIDE DEF u
  <2>3. L - 1 + 1 = L /\ \A i \in 1..L : 1 + i - 1 = i BY <1>1
  <2>4. Len(u) = L /\ \A i \in 1..L : u[i] = p[i] BY <1>1, <1>6, <2>2, <2>3
  <2>5. Len(p) = L BY DEF L
  <2>6. u = p BY ONLY p \in Seq(A), <2>2, <2>4, <2>5, SeqEqual
  <2>. QED BY <2>6 DEF u
<1>12. SubSeq(w, L + 2, Len(w)) = t
  <2>. DEFINE u == SubSeq(w, L + 2, Len(w))
  <2>1. L + 2 \in Int /\ Len(w) \in Int /\ \A i \in (L + 2)..Len(w) : w[i] \in A
    <3>1. \A i \in (L + 2)..Len(w) : i \in 1..Len(w) BY <1>1, <1>5
    <3>. QED BY <1>1, <1>5, <1>10, <3>1
  <2>2. /\ u \in Seq(A) /\ Len(u) = IF L + 2 <= Len(w) THEN Len(w) - (L + 2) + 1 ELSE 0
        /\ \A i \in 1..(Len(w) - (L + 2) + 1) : u[i] = w[L + 2 + i - 1]
    BY ONLY <2>1, SubSeqProperties
  <2>. HIDE DEF u
  <2>3. Len(w) - (L + 2) + 1 = T /\ L + 2 <= Len(w) /\ \A i \in 1..T : L + 2 + i - 1 = L + 1 + i
    BY <1>1, <1>5
  <2>4. Len(u) = T /\ \A i \in 1..T : u[i] = t[i] BY <1>5, <2>2, <2>3
  <2>5. Len(t) = T BY DEF T
  <2>6. u = t BY ONLY t \in Seq(A), <2>2, <2>4, <2>5, SeqEqual
  <2>. QED BY <2>6 DEF u
<1>13. N!separator(w) - 1 = L /\ N!separator(w) + 1 = L + 2 BY <1>1, <1>9
<1>14. N!Meta(w) = N!FieldsOf(p) BY <1>11, <1>13 DEF N!Meta
<1>15. N!Value(w) = t BY <1>12, <1>13 DEF N!Value
<1>. QED BY <1>5, <1>7, <1>9, <1>11, <1>14, <1>15 DEF SplitAs, L

PaneNames == {"pause", "continue", "pane-mode-changed"}
WindowNames ==
  {"window-add", "unlinked-window-add", "window-close", "unlinked-window-close"}
NameNames == {"client-detached", "paste-buffer-changed", "paste-buffer-deleted"}
TextNames == {"message", "config-error"}
PaneKinds == {"PanePaused", "PaneContinued", "PaneModeChanged"}
WindowKinds == {"WindowAdded", "WindowClosed"}
NameKinds == {"ClientDetached", "PasteBufferChanged", "PasteBufferDeleted"}
TextKinds == {"Message", "ConfigError"}

(* The names of the notifications whose argument is whole, and what they   *)
(* tell.                                                                   *)
LEMMA KindsOfNames ==
  /\ DOMAIN N!OfPane = PaneNames /\ N!Range(N!OfPane) = PaneKinds
  /\ DOMAIN N!OfWindow = WindowNames /\ N!Range(N!OfWindow) = WindowKinds
  /\ DOMAIN N!OfName = NameNames /\ N!Range(N!OfName) = NameKinds
  /\ DOMAIN N!OfText = TextNames /\ N!Range(N!OfText) = TextKinds
<1>1. DOMAIN N!OfPane = PaneNames /\ N!Range(N!OfPane) = PaneKinds
  <2>1. DOMAIN N!OfPane = PaneNames BY DEF N!OfPane, PaneNames
  <2>2. /\ N!OfPane["pause"] = "PanePaused" /\ N!OfPane["continue"] = "PaneContinued"
        /\ N!OfPane["pane-mode-changed"] = "PaneModeChanged"
    BY DEF N!OfPane
  <2>3. /\ "pause" \in PaneNames /\ "continue" \in PaneNames /\ "pane-mode-changed" \in PaneNames
        /\ \A n \in PaneNames : n \in {"pause", "continue", "pane-mode-changed"}
    BY DEF PaneNames
  <2>4. N!Range(N!OfPane) = {N!OfPane[n] : n \in PaneNames} BY <2>1, Zenon DEF N!Range
  <2>. QED BY <2>1, <2>2, <2>3, <2>4 DEF PaneKinds
<1>2. DOMAIN N!OfWindow = WindowNames /\ N!Range(N!OfWindow) = WindowKinds
  <2>1. DOMAIN N!OfWindow = WindowNames BY DEF N!OfWindow, WindowNames
  <2>2. /\ N!OfWindow["window-add"] = "WindowAdded"
        /\ N!OfWindow["unlinked-window-add"] = "WindowAdded"
        /\ N!OfWindow["window-close"] = "WindowClosed"
        /\ N!OfWindow["unlinked-window-close"] = "WindowClosed"
    BY DEF N!OfWindow
  <2>3. /\ "window-add" \in WindowNames /\ "window-close" \in WindowNames
        /\ \A n \in WindowNames :
             n \in {"window-add", "unlinked-window-add", "window-close", "unlinked-window-close"}
    BY DEF WindowNames
  <2>4. N!Range(N!OfWindow) = {N!OfWindow[n] : n \in WindowNames} BY <2>1, Zenon DEF N!Range
  <2>. QED BY <2>1, <2>2, <2>3, <2>4 DEF WindowKinds
<1>3. DOMAIN N!OfName = NameNames /\ N!Range(N!OfName) = NameKinds
  <2>1. DOMAIN N!OfName = NameNames BY DEF N!OfName, NameNames
  <2>2. /\ N!OfName["client-detached"] = "ClientDetached"
        /\ N!OfName["paste-buffer-changed"] = "PasteBufferChanged"
        /\ N!OfName["paste-buffer-deleted"] = "PasteBufferDeleted"
    BY DEF N!OfName
  <2>3. /\ "client-detached" \in NameNames /\ "paste-buffer-changed" \in NameNames
        /\ "paste-buffer-deleted" \in NameNames
        /\ \A n \in NameNames :
             n \in {"client-detached", "paste-buffer-changed", "paste-buffer-deleted"}
    BY DEF NameNames
  <2>4. N!Range(N!OfName) = {N!OfName[n] : n \in NameNames} BY <2>1, Zenon DEF N!Range
  <2>. QED BY <2>1, <2>2, <2>3, <2>4 DEF NameKinds
<1>4. DOMAIN N!OfText = TextNames /\ N!Range(N!OfText) = TextKinds
  <2>1. DOMAIN N!OfText = TextNames BY DEF N!OfText, TextNames
  <2>2. N!OfText["message"] = "Message" /\ N!OfText["config-error"] = "ConfigError"
    BY DEF N!OfText
  <2>3. /\ "message" \in TextNames /\ "config-error" \in TextNames
        /\ \A n \in TextNames : n \in {"message", "config-error"}
    BY DEF TextNames
  <2>4. N!Range(N!OfText) = {N!OfText[n] : n \in TextNames} BY <2>1, Zenon DEF N!Range
  <2>. QED BY <2>1, <2>2, <2>3, <2>4 DEF TextKinds
<1>. QED BY <1>1, <1>2, <1>3, <1>4

(* What the event is, for each name.                                       *)
LEMMA EventFor ==
  ASSUME NEW s, NEW a
  PROVE  /\ N!EventOf(s, "output", a) = N!ParseOutput(a)
         /\ N!EventOf(s, "extended-output", a) = N!ParseExtendedOutput(a)
         /\ \A n \in PaneNames : N!EventOf(s, n, a) =
              IF N!TrimSpace(a)[1] \in {"%1"} /\ Len(N!TrimSpace(a)) = 1
              THEN [is |-> N!OfPane[n], of |-> N!TrimSpace(a)[1]] ELSE N!Failed
         /\ \A n \in WindowNames : N!EventOf(s, n, a) =
              IF N!TrimSpace(a)[1] \in {"@1"} /\ Len(N!TrimSpace(a)) = 1
              THEN [is |-> N!OfWindow[n], of |-> N!TrimSpace(a)[1]] ELSE N!Failed
         /\ N!EventOf(s, "sessions-changed", a) = [is |-> "SessionsChanged"]
         /\ N!EventOf(s, "session-changed", a) =
              IF a[1] \in Sessions THEN N!Named("SessionChanged", a[1], N!Rest(a)) ELSE N!Failed
         /\ N!EventOf(s, "session-renamed", a) =
              IF a[1] \in Sessions THEN N!Named("SessionRenamed", a[1], N!Rest(a))
              ELSE N!Named("SessionRenamed", s, N!TrimSpace(a))
         /\ \A n \in N!Renames : N!EventOf(s, n, a) =
              IF a[1] \in {"@1"} THEN N!Named("WindowRenamed", a[1], N!Rest(a)) ELSE N!Failed
<1>1. N!EventOf(s, "output", a) = N!ParseOutput(a)
  BY KindsOfNames DEF N!EventOf, PaneNames, WindowNames, NameNames, TextNames, N!Renames
<1>2. N!EventOf(s, "extended-output", a) = N!ParseExtendedOutput(a)
  BY KindsOfNames DEF N!EventOf, PaneNames, WindowNames, NameNames, TextNames, N!Renames
<1>3. ASSUME NEW n \in PaneNames
      PROVE  N!EventOf(s, n, a) =
               IF N!TrimSpace(a)[1] \in {"%1"} /\ Len(N!TrimSpace(a)) = 1
               THEN [is |-> N!OfPane[n], of |-> N!TrimSpace(a)[1]] ELSE N!Failed
  BY KindsOfNames DEF N!EventOf, PaneNames, WindowNames, NameNames, TextNames, N!Renames
<1>4. ASSUME NEW n \in WindowNames
      PROVE  N!EventOf(s, n, a) =
               IF N!TrimSpace(a)[1] \in {"@1"} /\ Len(N!TrimSpace(a)) = 1
               THEN [is |-> N!OfWindow[n], of |-> N!TrimSpace(a)[1]] ELSE N!Failed
  BY KindsOfNames DEF N!EventOf, PaneNames, WindowNames, NameNames, TextNames, N!Renames
<1>5. N!EventOf(s, "sessions-changed", a) = [is |-> "SessionsChanged"]
  BY KindsOfNames DEF N!EventOf, PaneNames, WindowNames, NameNames, TextNames, N!Renames
<1>6. N!EventOf(s, "session-changed", a) =
        IF a[1] \in Sessions THEN N!Named("SessionChanged", a[1], N!Rest(a)) ELSE N!Failed
  BY KindsOfNames DEF N!EventOf, PaneNames, WindowNames, NameNames, TextNames, N!Renames, Sessions
<1>7. N!EventOf(s, "session-renamed", a) =
        IF a[1] \in Sessions THEN N!Named("SessionRenamed", a[1], N!Rest(a))
        ELSE N!Named("SessionRenamed", s, N!TrimSpace(a))
  BY KindsOfNames DEF N!EventOf, PaneNames, WindowNames, NameNames, TextNames, N!Renames, Sessions
<1>8. ASSUME NEW n \in N!Renames
      PROVE  N!EventOf(s, n, a) =
               IF a[1] \in {"@1"} THEN N!Named("WindowRenamed", a[1], N!Rest(a)) ELSE N!Failed
  BY KindsOfNames DEF N!EventOf, PaneNames, WindowNames, NameNames, TextNames, N!Renames
<1>. QED BY <1>1, <1>2, <1>3, <1>4, <1>5, <1>6, <1>7, <1>8

(* And the others.                                                         *)
LEMMA EventForOther ==
  ASSUME NEW s, NEW a
  PROVE  /\ N!EventOf(s, "session-window-changed", a) =
              N!ParseTwo("SessionWindowChanged", a, Sessions, {"@1"})
         /\ N!EventOf(s, "window-pane-changed", a) =
              N!ParseTwo("WindowPaneChanged", a, {"@1"}, {"%1"})
         /\ N!EventOf(s, "layout-change", a) = N!ParseLayoutChange(a)
         /\ N!EventOf(s, "subscription-changed", a) = N!ParseSubscriptionChanged(a)
<1>1. N!EventOf(s, "session-window-changed", a) =
        N!ParseTwo("SessionWindowChanged", a, Sessions, {"@1"})
  BY KindsOfNames DEF N!EventOf, PaneNames, WindowNames, NameNames, TextNames, N!Renames, Sessions
<1>2. N!EventOf(s, "window-pane-changed", a) =
        N!ParseTwo("WindowPaneChanged", a, {"@1"}, {"%1"})
  BY KindsOfNames DEF N!EventOf, PaneNames, WindowNames, NameNames, TextNames, N!Renames
<1>3. N!EventOf(s, "layout-change", a) = N!ParseLayoutChange(a)
  BY KindsOfNames DEF N!EventOf, PaneNames, WindowNames, NameNames, TextNames, N!Renames
<1>4. N!EventOf(s, "subscription-changed", a) = N!ParseSubscriptionChanged(a)
  BY KindsOfNames DEF N!EventOf, PaneNames, WindowNames, NameNames, TextNames, N!Renames
<1>. QED BY <1>1, <1>2, <1>3, <1>4

(* A name that is the whole argument.                                      *)
LEMMA WholeNameRead ==
  ASSUME NEW s, NEW a
  PROVE  \A n \in NameNames : N!EventOf(s, n, a) = [is |-> N!OfName[n], text |-> N!TrimSpace(a)]
<1>1. ASSUME NEW n \in NameNames
      PROVE  N!EventOf(s, n, a) = [is |-> N!OfName[n], text |-> N!TrimSpace(a)]
  BY KindsOfNames DEF N!EventOf, PaneNames, WindowNames, NameNames, TextNames, N!Renames
<1>. QED BY <1>1

(* A text that is.                                                         *)
LEMMA TextRead ==
  ASSUME NEW s, NEW a
  PROVE  \A n \in TextNames : N!EventOf(s, n, a) = [is |-> N!OfText[n], text |-> a]
<1>1. ASSUME NEW n \in TextNames PROVE N!EventOf(s, n, a) = [is |-> N!OfText[n], text |-> a]
  BY KindsOfNames DEF N!EventOf, PaneNames, WindowNames, NameNames, TextNames, N!Renames
<1>. QED BY <1>1

(* What has no name of those.                                              *)
LEMMA UnknownRead ==
  ASSUME NEW s, NEW a
  PROVE  N!EventOf(s, "a", a) = [is |-> "UnknownNotification", name |-> "a", text |-> a]
BY KindsOfNames DEF N!EventOf, PaneNames, WindowNames, NameNames, TextNames, N!Renames

(* A client and its session.                                               *)
LEMMA ClientRead ==
  ASSUME NEW s, NEW a
  PROVE  N!EventOf(s, "client-session-changed", a) =
           IF a[1] # "" /\ N!Rest(a)[1] \in Sessions
           THEN [is |-> "ClientSessionChanged", client |-> a[1], of |-> a[2],
                 name |-> N!visDecode(N!Rest(Tail(a)))]
           ELSE N!Failed
BY KindsOfNames DEF N!EventOf, PaneNames, WindowNames, NameNames, TextNames, N!Renames, Sessions

(* The lines tmux may write to tell an event, for each kind.               *)
Wrote(line, names, a) == line.name \in names /\ line.args = a

(* A line has a name and arguments.                                        *)
LEMMA LineWrites ==
  ASSUME NEW names, NEW a, NEW line \in N!Line(names, a)
  PROVE  Wrote(line, names, a)
BY DEF N!Line, Wrote

(* By the kind of the event.                                              *)
LEMMA WrittenFor ==
  ASSUME NEW e, NEW older \in BOOLEAN, NEW line \in N!Written(e, older)
  PROVE  /\ e.is = "PaneOutput" /\ e.extended = FALSE =>
              Wrote(line, {"output"}, <<e.pane>> \o DataText(e.data))
         /\ e.is = "PaneOutput" /\ e.extended = TRUE =>
              Wrote(line, {"extended-output"}, <<e.pane, e.age, ":">> \o DataText(e.data))
         /\ e.is \in PaneKinds =>
              Wrote(line, N!NotesOf(N!OfPane, e.is), <<e.of>>)
         /\ e.is \in WindowKinds =>
              Wrote(line, N!NotesOf(N!OfWindow, e.is), <<e.of>>)
         /\ e.is = "SessionsChanged" =>
              Wrote(line, {"sessions-changed"}, N!NoText)
         /\ e.is = "SessionChanged" =>
              Wrote(line, {"session-changed"}, <<e.of>> \o N!stored(e.name))
         /\ e.is = "SessionRenamed" /\ ~older =>
              Wrote(line, {"session-renamed"}, <<e.of>> \o N!stored(e.name))
         /\ e.is = "SessionRenamed" /\ older =>
              Wrote(line, {"session-renamed"}, <<>> \o N!stored(e.name))
         /\ e.is = "WindowRenamed" =>
              Wrote(line, N!Renames, <<e.of>> \o N!stored(e.name))
<1>. DEFINE Tells(names, a) == line \in N!Line(names, a)
<1>0. \A names, a : Tells(names, a) => Wrote(line, names, a) BY LineWrites
<1>1. e.is = "PaneOutput" /\ e.extended = FALSE =>
        Tells({"output"}, <<e.pane>> \o DataText(e.data))
  BY KindsOfNames DEF N!Written, PaneKinds, WindowKinds, NameKinds, TextKinds,
     DataText, N!Each, DataField, OctalTable, N!Do
<1>2. e.is = "PaneOutput" /\ e.extended = TRUE =>
        Tells({"extended-output"}, <<e.pane, e.age, ":">> \o DataText(e.data))
  BY KindsOfNames DEF N!Written, PaneKinds, WindowKinds, NameKinds, TextKinds,
     DataText, N!Each, DataField, OctalTable, N!Do
<1>3. e.is \in PaneKinds =>
        Tells(N!NotesOf(N!OfPane, e.is), <<e.of>>)
  BY KindsOfNames DEF N!Written, PaneKinds, WindowKinds, NameKinds, TextKinds
<1>4. e.is \in WindowKinds =>
        Tells(N!NotesOf(N!OfWindow, e.is), <<e.of>>)
  BY KindsOfNames DEF N!Written, PaneKinds, WindowKinds, NameKinds, TextKinds
<1>5. e.is = "SessionsChanged" =>
        Tells({"sessions-changed"}, N!NoText)
  BY KindsOfNames DEF N!Written, PaneKinds, WindowKinds, NameKinds, TextKinds
<1>6. e.is = "SessionChanged" =>
        Tells({"session-changed"}, <<e.of>> \o N!stored(e.name))
  BY KindsOfNames DEF N!Written, PaneKinds, WindowKinds, NameKinds, TextKinds
<1>7. e.is = "SessionRenamed" /\ ~older =>
        Tells({"session-renamed"}, <<e.of>> \o N!stored(e.name))
  BY KindsOfNames DEF N!Written, PaneKinds, WindowKinds, NameKinds, TextKinds
<1>8. e.is = "SessionRenamed" /\ older =>
        Tells({"session-renamed"}, <<>> \o N!stored(e.name))
  BY KindsOfNames DEF N!Written, PaneKinds, WindowKinds, NameKinds, TextKinds
<1>9. e.is = "WindowRenamed" =>
        Tells(N!Renames, <<e.of>> \o N!stored(e.name))
  BY KindsOfNames DEF N!Written, PaneKinds, WindowKinds, NameKinds, TextKinds
<1>. HIDE DEF Tells
<1>. QED BY <1>0, <1>1, <1>2, <1>3, <1>4, <1>5, <1>6, <1>7, <1>8, <1>9

(* And the other kinds.                                                    *)
LEMMA WrittenForOther ==
  ASSUME NEW e, NEW older \in BOOLEAN, NEW line \in N!Written(e, older)
  PROVE  /\ e.is = "SessionWindowChanged" =>
              Wrote(line, {"session-window-changed"}, <<e.of, e.now>>)
         /\ e.is = "WindowPaneChanged" =>
              Wrote(line, {"window-pane-changed"}, <<e.of, e.now>>)
         /\ e.is = "LayoutChanged" =>
              Wrote(line, {"layout-change"}, N!FieldsOf(<<e.window, e.layout, e.visible, e.flags>>))
         /\ e.is = "SubscriptionChanged" =>
              Wrote(line, {"subscription-changed"},
                    <<e.name, e.session, N!Shown(e.window), N!Shown(e.index), N!Shown(e.pane), ":">>
                      \o e.value)
         /\ e.is = "ClientSessionChanged" =>
              Wrote(line, {"client-session-changed"}, <<e.client, e.of>> \o N!stored(e.name))
         /\ e.is \in NameKinds =>
              Wrote(line, N!NotesOf(N!OfName, e.is), e.text)
         /\ e.is \in TextKinds =>
              Wrote(line, N!NotesOf(N!OfText, e.is), e.text)
         /\ e.is = "UnknownNotification" =>
              Wrote(line, {e.name}, e.text)
<1>. DEFINE Tells(names, a) == line \in N!Line(names, a)
<1>0. \A names, a : Tells(names, a) => Wrote(line, names, a) BY LineWrites
<1>1. e.is = "SessionWindowChanged" =>
        Tells({"session-window-changed"}, <<e.of, e.now>>)
  BY KindsOfNames DEF N!Written, PaneKinds, WindowKinds, NameKinds, TextKinds
<1>2. e.is = "WindowPaneChanged" =>
        Tells({"window-pane-changed"}, <<e.of, e.now>>)
  BY KindsOfNames DEF N!Written, PaneKinds, WindowKinds, NameKinds, TextKinds
<1>3. e.is = "LayoutChanged" =>
        Tells({"layout-change"}, N!FieldsOf(<<e.window, e.layout, e.visible, e.flags>>))
  BY KindsOfNames DEF N!Written, PaneKinds, WindowKinds, NameKinds, TextKinds
<1>4. e.is = "SubscriptionChanged" =>
        Tells({"subscription-changed"},
             <<e.name, e.session, N!Shown(e.window), N!Shown(e.index), N!Shown(e.pane), ":">>
               \o e.value)
  BY KindsOfNames DEF N!Written, PaneKinds, WindowKinds, NameKinds, TextKinds
<1>5. e.is = "ClientSessionChanged" =>
        Tells({"client-session-changed"}, <<e.client, e.of>> \o N!stored(e.name))
  BY KindsOfNames DEF N!Written, PaneKinds, WindowKinds, NameKinds, TextKinds
<1>6. e.is \in NameKinds =>
        Tells(N!NotesOf(N!OfName, e.is), e.text)
  BY KindsOfNames DEF N!Written, PaneKinds, WindowKinds, NameKinds, TextKinds
<1>7. e.is \in TextKinds =>
        Tells(N!NotesOf(N!OfText, e.is), e.text)
  BY KindsOfNames DEF N!Written, PaneKinds, WindowKinds, NameKinds, TextKinds
<1>8. e.is = "UnknownNotification" =>
        Tells({e.name}, e.text)
  BY KindsOfNames DEF N!Written, PaneKinds, WindowKinds, NameKinds, TextKinds
<1>. HIDE DEF Tells
<1>. QED BY <1>0, <1>1, <1>2, <1>3, <1>4, <1>5, <1>6, <1>7, <1>8

(* What the reader makes of a line.                                        *)
Heard(s, line) == N!EventOf(s, line.name, line.args)

AnyField(F) ==
  F \union EscapedFields
    \union {"", "a", "7", ":", "-", "%1", "@1", "$0", "$1"}

(* The data of a pane are a text of any fields, and read as they were.     *)
LEMMA DataSent ==
  ASSUME NEW F, Plainly(F), NEW t \in Text(F)
  PROVE  /\ DataText(t) \in Seq(AnyField(F)) /\ DataText(t) # <<>>
         /\ N!UnescapeString(DataText(t)) = t
<1>. DEFINE d == DataText(t)
            A == F \union EscapedFields
<1>1. d \in Text(A) /\ N!UnescapeString(d) = t BY TextUndone
<1>. HIDE DEF d
<1>2. d \in Seq(A) /\ d # <<>> BY <1>1 DEF Text
<1>3. A \subseteq AnyField(F) BY DEF AnyField
<1>. HIDE DEF A
<1>4. d \in Seq(AnyField(F)) BY ONLY <1>2, <1>3
<1>. QED BY <1>1, <1>2, <1>4 DEF d

(* So are names, and none begins as an identifier of a session.            *)
LEMMA NameSent ==
  ASSUME NEW F, Plainly(F), NEW t \in Text(F)
  PROVE  /\ N!stored(t) \in Seq(AnyField(F)) /\ N!stored(t) # <<>>
         /\ N!visDecode(N!stored(t)) = t /\ N!stored(t)[1] \notin Sessions
<1>. DEFINE d == N!stored(t)
            A == F \union EscapedFields
<1>1. d \in Text(A) /\ N!visDecode(d) = t /\ d[1] \notin Sessions BY TextUndone
<1>. HIDE DEF d
<1>2. d \in Seq(A) /\ d # <<>> BY <1>1 DEF Text
<1>3. A \subseteq AnyField(F) BY DEF AnyField
<1>. HIDE DEF A
<1>4. d \in Seq(AnyField(F)) BY ONLY <1>2, <1>3
<1>. QED BY <1>1, <1>2, <1>4 DEF d

(* A field after one.                                                      *)
LEMMA OneAfterOne ==
  ASSUME NEW A, NEW a \in A, NEW x \in A
  PROVE  <<a>> \o <<x>> = <<a, x>>
<1>. DEFINE t1 == <<a>>
<1>1. t1 \in Seq(A) OBVIOUS
<1>2. t1 \o <<x>> = Append(t1, x) BY ONLY <1>1, x \in A, AppendIsConcat
<1>3. <<a, x, x, x>> \in Seq(A) /\ <<a, x>> = Append(<<a>>, x)
  BY ONLY a \in A, x \in A, FourAppended
<1>. QED BY <1>2, <1>3

(* And after four.                                                         *)
LEMMA OneAfterFour ==
  ASSUME NEW A, NEW a \in A, NEW b \in A, NEW c \in A, NEW d \in A, NEW x \in A
  PROVE  <<a, b, c, d>> \o <<x>> = <<a, b, c, d, x>>
<1>. DEFINE t4 == <<a, b, c, d>>
            t5 == <<a, b, c, d, x>>
<1>1. t4 \in Seq(A) /\ t5 \in Seq(A) OBVIOUS
<1>2. t4 \o <<x>> = Append(t4, x) BY ONLY <1>1, x \in A, AppendIsConcat
<1>3. t5 = Append(t4, x)
  <2>1. Len(t4) = 4 /\ t4[1] = a /\ t4[2] = b /\ t4[3] = c /\ t4[4] = d OBVIOUS
  <2>2. /\ Len(t5) = 4 + 1 /\ t5[4 + 1] = x
        /\ t5[1] = a /\ t5[2] = b /\ t5[3] = c /\ t5[4] = d
    OBVIOUS
  <2>3. \A i \in 1..4 : i = 1 \/ i = 2 \/ i = 3 \/ i = 4 OBVIOUS
  <2>. HIDE DEF t4, t5
  <2>4. \A i \in 1..Len(t4) : t5[i] = t4[i] BY <2>1, <2>2, <2>3
  <2>5. Len(t5) = Len(t4) + 1 /\ t5[Len(t4) + 1] = x BY <2>1, <2>2
  <2>. QED BY ONLY <1>1, x \in A, <2>4, <2>5, IsAppended
<1>. QED BY <1>2, <1>3

(* Output is heard as it was told.                                         *)
LEMMA OutputHeard ==
  ASSUME NEW F, Plainly(F), NEW s, NEW line,
         NEW e \in [is : {"PaneOutput"}, pane : {"%1"}, data : Text(F), extended : {FALSE}, age : {"0"}],
         line \in N!Written(e, FALSE)
  PROVE  Heard(s, line) = e
<1>. DEFINE d == DataText(e.data)
            w == <<"%1">> \o d
<1>1. e.data \in Text(F) /\ e.is = "PaneOutput" /\ e.pane = "%1" /\ e.extended = FALSE
  OBVIOUS
<1>2. d \in Seq(AnyField(F)) /\ d # <<>> /\ N!UnescapeString(d) = e.data BY <1>1, DataSent
<1>3. line.name = "output" /\ line.args = w
  <2>1. Wrote(line, {"output"}, <<e.pane>> \o DataText(e.data)) BY <1>1, WrittenFor
  <2>. QED BY <1>1, <2>1 DEF Wrote
<1>. HIDE DEF d
<1>4. w[1] = "%1" /\ N!Rest(w) = d
  <2>1. After1(w, "%1", d) BY DEF After1
  <2>2. "%1" \in AnyField(F) BY DEF AnyField
  <2>. HIDE DEF w
  <2>. QED BY ONLY <1>2, <2>1, <2>2, RestAfterOne
<1>. HIDE DEF w
<1>5. N!ParseOutput(w) = N!PaneOutput("%1", d, FALSE, "0") BY <1>4 DEF N!ParseOutput
<1>6. N!ParseOutput(w) =
        [is |-> "PaneOutput", pane |-> "%1", data |-> e.data, extended |-> FALSE, age |-> "0"]
  BY <1>2, <1>5 DEF N!PaneOutput
<1>7. e = [is |-> "PaneOutput", pane |-> "%1", data |-> e.data, extended |-> FALSE, age |-> "0"]
  OBVIOUS
<1>8. N!EventOf(s, "output", w) = N!ParseOutput(w) BY EventFor
<1>. QED BY <1>3, <1>6, <1>7, <1>8 DEF Heard

(* So is output with its age.                                              *)
LEMMA ExtendedHeard ==
  ASSUME NEW F, Plainly(F), NEW s, NEW line,
         NEW e \in [is : {"PaneOutput"}, pane : {"%1"}, data : Text(F), extended : {TRUE}, age : {"7"}],
         line \in N!Written(e, FALSE)
  PROVE  Heard(s, line) = e
<1>. DEFINE d == DataText(e.data)
            A == AnyField(F)
            p == <<"%1", "7", ":">>
            w == p \o d
            q == <<"7">>
            r == <<"7", ":">> \o d
<1>1. e.data \in Text(F) /\ e.is = "PaneOutput" /\ e.pane = "%1" /\ e.age = "7" /\ e.extended = TRUE
  OBVIOUS
<1>2. d \in Seq(A) /\ d # <<>> /\ N!UnescapeString(d) = e.data BY <1>1, DataSent
<1>3. line.name = "extended-output" /\ line.args = w
  <2>1. Wrote(line, {"extended-output"}, <<e.pane, e.age, ":">> \o DataText(e.data))
    BY <1>1, WrittenFor
  <2>. QED BY <1>1, <2>1 DEF Wrote
<1>. HIDE DEF d
<1>4. "%1" \in A /\ "7" \in A /\ ":" \in A BY DEF AnyField
<1>. HIDE DEF A
<1>5. w[1] = "%1" /\ Len(w) = 3 + Len(d) /\ N!Rest(w) = r
  <2>1. p \in Seq(A) /\ p # <<>> /\ p[1] = "%1" /\ Len(p) = 3 /\ Tail(p) = <<"7", ":">> BY <1>4
  <2>2. w = p \o d OBVIOUS
  <2>. HIDE DEF p, w
  <2>3. RestIs(w, p, d) BY <1>2, <2>1, <2>2, RestOfJoined
  <2>. QED BY <2>1, <2>3 DEF RestIs
<1>6. SplitAs(r, q, d)
  <2>1. q \in Seq(A) /\ q # <<>> /\ Len(q) = 1 BY <1>4
  <2>4. q \o <<":">> = <<"7", ":">> BY <1>4, OneAfterOne
  <2>2. Separated(r, q, d) BY <2>4, Zenon DEF Separated
  <2>. HIDE DEF q, r
  <2>3. \A i \in 2..Len(q) : q[i] # ":"
    <3>1. 2..Len(q) = {} BY <2>1
    <3>. QED BY <3>1
  <2>. QED BY ONLY <1>2, <1>4, <2>1, <2>2, <2>3, SeparatorFound
<1>7. N!FieldsOf(q) = q
  <2>1. Filled("7") BY DEF Filled
  <2>. QED BY <1>4, <2>1, FewFields
<1>8. Len(w) # 1 BY <1>2, <1>5, EmptySeq
<1>9. q # <<>> /\ q[1] = "7" OBVIOUS
<1>. HIDE DEF w, r, q, p
<1>10. N!ParseExtendedOutput(w) = N!PaneOutput("%1", d, TRUE, "7")
  <2>1. N!Separators(r) # {} /\ N!Meta(r) = q /\ N!Value(r) = d BY <1>6, <1>7 DEF SplitAs
  <2>. QED BY <1>5, <1>8, <1>9, <2>1 DEF N!ParseExtendedOutput
<1>11. N!ParseExtendedOutput(w) =
         [is |-> "PaneOutput", pane |-> "%1", data |-> e.data, extended |-> TRUE, age |-> "7"]
  BY <1>2, <1>10 DEF N!PaneOutput
<1>12. e = [is |-> "PaneOutput", pane |-> "%1", data |-> e.data, extended |-> TRUE, age |-> "7"]
  OBVIOUS
<1>13. N!EventOf(s, "extended-output", w) = N!ParseExtendedOutput(w) BY EventFor
<1>. QED BY <1>3, <1>11, <1>12, <1>13 DEF Heard

(* A text without outer spaces that is one field.                          *)
LEMMA OneFieldTrimmed ==
  ASSUME NEW x, x # ""
  PROVE  N!TrimSpace(<<x>>) = <<x>>
<1>. DEFINE w == <<x>>
<1>1. w \in Seq({x}) /\ w # <<>> /\ Len(w) = 1 /\ w[1] = x BY ONLY TRUE
<1>2. w[1] # "" /\ w[Len(w)] # "" BY <1>1
<1>. HIDE DEF w
<1>3. N!TrimSpace(w) = w BY <1>1, <1>2, TrimmedText
<1>. QED BY <1>3 DEF w

(* A notification whose argument is an identifier is heard as it was told. *)
LEMMA PaneHeard ==
  ASSUME NEW s, NEW line, NEW e \in [is : PaneKinds, of : {"%1"}], line \in N!Written(e, FALSE)
  PROVE  Heard(s, line) = e
<1>1. e.is \in PaneKinds /\ e.of = "%1" /\ e = [is |-> e.is, of |-> "%1"] OBVIOUS
<1>2. Wrote(line, N!NotesOf(N!OfPane, e.is), <<"%1">>) BY <1>1, WrittenFor
<1>3. line.name \in PaneNames /\ N!OfPane[line.name] = e.is /\ line.args = <<"%1">>
  BY <1>2, KindsOfNames DEF Wrote, N!NotesOf
<1>. DEFINE w == <<"%1">>
<1>4. N!TrimSpace(w) = w /\ w[1] = "%1" /\ Len(w) = 1 BY OneFieldTrimmed
<1>. HIDE DEF w
<1>6. N!EventOf(s, line.name, w) = [is |-> N!OfPane[line.name], of |-> "%1"]
  <2>1. \A n \in PaneNames : N!EventOf(s, n, w) =
          IF N!TrimSpace(w)[1] \in {"%1"} /\ Len(N!TrimSpace(w)) = 1
          THEN [is |-> N!OfPane[n], of |-> N!TrimSpace(w)[1]] ELSE N!Failed
    BY EventFor
  <2>. QED BY <1>3, <1>4, <2>1
<1>. QED BY <1>1, <1>3, <1>6 DEF Heard, w

(* What closes or opens a window is heard.                                 *)
LEMMA WindowHeard ==
  ASSUME NEW s, NEW line, NEW e \in [is : WindowKinds, of : {"@1"}], line \in N!Written(e, FALSE)
  PROVE  Heard(s, line) = e
<1>1. e.is \in WindowKinds /\ e.of = "@1" /\ e = [is |-> e.is, of |-> "@1"] OBVIOUS
<1>2. Wrote(line, N!NotesOf(N!OfWindow, e.is), <<"@1">>) BY <1>1, WrittenFor
<1>3. line.name \in WindowNames /\ N!OfWindow[line.name] = e.is /\ line.args = <<"@1">>
  BY <1>2, KindsOfNames DEF Wrote, N!NotesOf
<1>. DEFINE w == <<"@1">>
<1>4. N!TrimSpace(w) = w /\ w[1] = "@1" /\ Len(w) = 1 BY OneFieldTrimmed
<1>. HIDE DEF w
<1>6. N!EventOf(s, line.name, w) = [is |-> N!OfWindow[line.name], of |-> "@1"]
  <2>1. \A n \in WindowNames : N!EventOf(s, n, w) =
          IF N!TrimSpace(w)[1] \in {"@1"} /\ Len(N!TrimSpace(w)) = 1
          THEN [is |-> N!OfWindow[n], of |-> N!TrimSpace(w)[1]] ELSE N!Failed
    BY EventFor
  <2>. QED BY <1>3, <1>4, <2>1
<1>. QED BY <1>1, <1>3, <1>6 DEF Heard, w

(* A name after an identifier.                                             *)
LEMMA NamedHeard ==
  ASSUME NEW F, Plainly(F), NEW t \in Text(F), NEW x \in {"@1", "$0", "$1"},
         NEW w, After1(w, x, N!stored(t))
  PROVE  w[1] = x /\ N!visDecode(N!Rest(w)) = t
<1>. DEFINE d == N!stored(t)
            A == AnyField(F)
<1>1. d \in Seq(A) /\ d # <<>> /\ N!visDecode(d) = t BY NameSent
<1>2. x \in A BY DEF AnyField
<1>. HIDE DEF d, A
<1>3. After1(w, x, d) BY DEF d
<1>4. w[1] = x /\ N!Rest(w) = d BY ONLY <1>1, <1>2, <1>3, RestAfterOne
<1>. QED BY <1>1, <1>4

(* What becomes of a session is heard as it was told.                      *)
LEMMA SessionHeard ==
  ASSUME NEW F, Plainly(F), NEW s, NEW line, NEW e \in SessionEvents(Text(F)),
         line \in N!Written(e, FALSE)
  PROVE  Heard(s, line) = e
<1>. DEFINE w == <<e.of>> \o N!stored(e.name)
<1>1. /\ e.is \in {"SessionChanged", "SessionRenamed"} /\ e.of \in Sessions /\ e.name \in Text(F)
      /\ e = [is |-> e.is, of |-> e.of, name |-> e.name]
  BY DEF SessionEvents, Sessions
<1>2. w[1] = e.of /\ N!visDecode(N!Rest(w)) = e.name
  <2>1. e.of \in {"@1", "$0", "$1"} BY <1>1 DEF Sessions
  <2>. HIDE DEF w
  <2>2. After1(w, e.of, N!stored(e.name)) BY DEF w, After1
  <2>. QED BY ONLY Plainly(F), <1>1, <2>1, <2>2, NamedHeard
<1>3. CASE e.is = "SessionChanged"
  <2>1. Wrote(line, {"session-changed"}, w) BY <1>3, WrittenFor
  <2>. HIDE DEF w
  <2>2. N!EventOf(s, "session-changed", w) = N!Named("SessionChanged", w[1], N!Rest(w))
    BY <1>1, <1>2, EventFor
  <2>. QED BY <1>1, <1>2, <1>3, <2>1, <2>2 DEF Wrote, Heard, N!Named
<1>4. CASE e.is = "SessionRenamed"
  <2>1. Wrote(line, {"session-renamed"}, w) BY <1>4, WrittenFor
  <2>. HIDE DEF w
  <2>2. N!EventOf(s, "session-renamed", w) = N!Named("SessionRenamed", w[1], N!Rest(w))
    BY <1>1, <1>2, EventFor
  <2>. QED BY <1>1, <1>2, <1>4, <2>1, <2>2 DEF Wrote, Heard, N!Named
<1>. QED BY <1>1, <1>3, <1>4

RenameOf(e, s, t) == e = [is |-> "SessionRenamed", of |-> s, name |-> t]

(* Even when the older form leaves out whose name it is.                   *)
LEMMA RenameHeard ==
  ASSUME NEW F, Plainly(F), NEW s, NEW line, NEW t \in Trimmed(Text(F)),
         NEW e, RenameOf(e, s, t), line \in N!Written(e, TRUE)
  PROVE  Heard(s, line) = e
<1>. DEFINE d == N!stored(t)
<1>1. t \in Text(F) /\ N!visDecode(N!TrimSpace(d)) = t BY NameUndone
<1>2. d \in Seq(AnyField(F)) /\ d[1] \notin Sessions BY <1>1, NameSent
<1>3. Wrote(line, {"session-renamed"}, <<>> \o d)
  <2>1. e.is = "SessionRenamed" /\ e.name = t BY DEF RenameOf
  <2>. QED BY <2>1, WrittenFor
<1>. HIDE DEF d
<1>4. <<>> \o d = d BY <1>2, ConcatEmptySeq
<1>5. N!EventOf(s, "session-renamed", d) = N!Named("SessionRenamed", s, N!TrimSpace(d))
  BY <1>2, EventFor
<1>. QED BY <1>1, <1>3, <1>4, <1>5 DEF Wrote, Heard, N!Named, RenameOf

(* A window's new name is heard.                                           *)
LEMMA WindowNameHeard ==
  ASSUME NEW F, Plainly(F), NEW s, NEW line,
         NEW e \in [is : {"WindowRenamed"}, of : {"@1"}, name : Text(F)],
         line \in N!Written(e, FALSE)
  PROVE  Heard(s, line) = e
<1>. DEFINE w == <<"@1">> \o N!stored(e.name)
<1>1. /\ e.is = "WindowRenamed" /\ e.of = "@1" /\ e.name \in Text(F)
      /\ e = [is |-> "WindowRenamed", of |-> "@1", name |-> e.name]
  OBVIOUS
<1>2. w[1] = "@1" /\ N!visDecode(N!Rest(w)) = e.name
  <2>1. "@1" \in {"@1", "$0", "$1"} OBVIOUS
  <2>. HIDE DEF w
  <2>2. After1(w, "@1", N!stored(e.name)) BY DEF w, After1
  <2>. QED BY ONLY Plainly(F), <1>1, <2>1, <2>2, NamedHeard
<1>3. Wrote(line, N!Renames, w) BY <1>1, WrittenFor
<1>. HIDE DEF w
<1>4. N!EventOf(s, line.name, w) = N!Named("WindowRenamed", w[1], N!Rest(w))
  BY <1>2, <1>3, EventFor DEF Wrote
<1>. QED BY <1>1, <1>2, <1>3, <1>4 DEF Wrote, Heard, N!Named

(* Two identifiers.                                                        *)
LEMMA TwoHeard ==
  ASSUME NEW x, NEW y, Filled(x), Filled(y), NEW is, NEW as, NEW bs, x \in as, y \in bs
  PROVE  N!ParseTwo(is, <<x, y>>, as, bs) = [is |-> is, of |-> x, now |-> y]
<1>. DEFINE w == <<x, y>>
<1>1. N!FieldsOf(w) = w
  <2>1. x \in {x, y} /\ y \in {x, y} BY ONLY TRUE
  <2>. QED BY <2>1, FewFields
<1>2. Len(w) = 2 /\ w[1] = x /\ w[2] = y BY ONLY TRUE
<1>. HIDE DEF w
<1>3. N!ParseTwo(is, w, as, bs) = [is |-> is, of |-> x, now |-> y]
  BY ONLY x \in as, y \in bs, <1>1, <1>2 DEF N!ParseTwo
<1>. QED BY <1>3 DEF w

(* What changes in a session or in a window is heard.                      *)
LEMMA ChangeHeard ==
  ASSUME NEW s, NEW line,
         NEW e \in [is : {"SessionWindowChanged"}, of : {"$0"}, now : {"@1"}]
                     \union [is : {"WindowPaneChanged"}, of : {"@1"}, now : {"%1"}],
         line \in N!Written(e, FALSE)
  PROVE  Heard(s, line) = e
<1>1. CASE e \in [is : {"SessionWindowChanged"}, of : {"$0"}, now : {"@1"}]
  <2>1. /\ e.is = "SessionWindowChanged" /\ e.of = "$0" /\ e.now = "@1"
        /\ e = [is |-> "SessionWindowChanged", of |-> "$0", now |-> "@1"]
    BY <1>1
  <2>2. Wrote(line, {"session-window-changed"}, <<"$0", "@1">>) BY <2>1, WrittenForOther
  <2>3. N!ParseTwo("SessionWindowChanged", <<"$0", "@1">>, Sessions, {"@1"}) = e
    <3>. DEFINE x == "$0"
                y == "@1"
                B == {"@1"}
    <3>1. x \in Sessions /\ y \in B /\ Filled(x) /\ Filled(y) BY DEF Sessions, Filled
    <3>. HIDE DEF x, y, B
    <3>2. N!ParseTwo("SessionWindowChanged", <<x, y>>, Sessions, B) =
            [is |-> "SessionWindowChanged", of |-> x, now |-> y]
      BY ONLY <3>1, TwoHeard
    <3>. QED BY <2>1, <3>2 DEF x, y, B
  <2>. DEFINE w == <<"$0", "@1">>
  <2>. HIDE DEF w
  <2>4. N!EventOf(s, "session-window-changed", w) =
          N!ParseTwo("SessionWindowChanged", w, Sessions, {"@1"})
    BY EventForOther
  <2>. QED BY <2>2, <2>3, <2>4 DEF Wrote, Heard, w
<1>2. CASE e \in [is : {"WindowPaneChanged"}, of : {"@1"}, now : {"%1"}]
  <2>1. /\ e.is = "WindowPaneChanged" /\ e.of = "@1" /\ e.now = "%1"
        /\ e = [is |-> "WindowPaneChanged", of |-> "@1", now |-> "%1"]
    BY <1>2
  <2>2. Wrote(line, {"window-pane-changed"}, <<"@1", "%1">>) BY <2>1, WrittenForOther
  <2>3. N!ParseTwo("WindowPaneChanged", <<"@1", "%1">>, {"@1"}, {"%1"}) = e
    <3>. DEFINE x == "@1"
                y == "%1"
                B == {"@1"}
                D == {"%1"}
    <3>1. x \in B /\ y \in D /\ Filled(x) /\ Filled(y) BY DEF Filled
    <3>. HIDE DEF x, y, B, D
    <3>2. N!ParseTwo("WindowPaneChanged", <<x, y>>, B, D) =
            [is |-> "WindowPaneChanged", of |-> x, now |-> y]
      BY ONLY <3>1, TwoHeard
    <3>. QED BY <2>1, <3>2 DEF x, y, B, D
  <2>. DEFINE w == <<"@1", "%1">>
  <2>. HIDE DEF w
  <2>4. N!EventOf(s, "window-pane-changed", w) =
          N!ParseTwo("WindowPaneChanged", w, {"@1"}, {"%1"})
    BY EventForOther
  <2>. QED BY <2>2, <2>3, <2>4 DEF Wrote, Heard, w
<1>. QED BY <1>1, <1>2

(* The flags may be left out of a layout.                                  *)
Window(f) == f \in {"@1"}
LayoutRead(x, y, v, z) ==
  N!ParseLayoutChange(N!FieldsOf(<<x, y, v, z>>)) =
    [is |-> "LayoutChanged", window |-> x, layout |-> y, visible |-> v, flags |-> z]

(* It is read so.                                                          *)
LEMMA LayoutParsed ==
  ASSUME NEW A, NEW x \in A, NEW y \in A, NEW v \in A, NEW z \in A,
         Filled(x), Filled(y), Filled(v), Window(x), ~Filled(z) => z = N!NoId
  PROVE  LayoutRead(x, y, v, z)
<1>. DEFINE w3 == <<x, y, v>>
            w4 == <<x, y, v, z>>
            w == N!FieldsOf(w4)
<1>1. /\ N!FieldsOf(w3) = w3
      /\ Filled(z) => N!FieldsOf(w4) = w4
      /\ ~Filled(z) => N!FieldsOf(w4) = w3
  <2>1. /\ N!FieldsOf(<<x>>) = <<x>> /\ N!FieldsOf(<<x, y>>) = <<x, y>>
        /\ N!FieldsOf(<<x, y, v>>) = <<x, y, v>>
        /\ Filled(z) => N!FieldsOf(<<x, y, v, z>>) = <<x, y, v, z>>
        /\ ~Filled(z) => N!FieldsOf(<<x, y, v, z>>) = <<x, y, v>>
    BY ONLY x \in A, y \in A, v \in A, z \in A, Filled(x), Filled(y), Filled(v), FewFields
  <2>. QED BY ONLY <2>1
<1>2. Len(w3) = 3 /\ w3[1] = x /\ w3[2] = y /\ w3[3] = v BY ONLY TRUE
<1>3. Len(w4) = 4 /\ w4[1] = x /\ w4[2] = y /\ w4[3] = v /\ w4[4] = z BY ONLY TRUE
<1>. HIDE DEF w3, w4
<1>4. N!FieldsOf(w) = w BY <1>1
<1>5. (Filled(z) => w = w4) /\ (~Filled(z) => w = w3) BY <1>1
<1>. HIDE DEF w
<1>. DEFINE visible == IF Len(w) >= 3 THEN w[3] ELSE ""
            flags == IF Len(w) >= 4 THEN w[4] ELSE ""
<1>6. ~(Len(w) < 2) /\ w[1] = x /\ w[2] = y /\ visible = v /\ flags = z
  <2>1. CASE Filled(z)
    <3>1. Len(w) = 4 /\ w[1] = x /\ w[2] = y /\ w[3] = v /\ w[4] = z BY <1>3, <1>5, <2>1
    <3>2. ~(Len(w) < 2) /\ Len(w) >= 3 /\ Len(w) >= 4 BY ONLY <3>1
    <3>. QED BY ONLY <3>1, <3>2, Zenon
  <2>2. CASE ~Filled(z)
    <3>1. Len(w) = 3 /\ w[1] = x /\ w[2] = y /\ w[3] = v BY <1>2, <1>5, <2>2
    <3>2. ~(Len(w) < 2) /\ Len(w) >= 3 /\ ~(Len(w) >= 4) BY ONLY <3>1
    <3>3. z = "" BY <2>2 DEF N!NoId
    <3>. QED BY ONLY <3>1, <3>2, <3>3, Zenon
  <2>. QED BY <2>1, <2>2
<1>7. N!ParseLayoutChange(w) =
        IF Len(w) < 2 \/ w[1] \notin {"@1"} THEN N!Failed
        ELSE [is |-> "LayoutChanged", window |-> w[1], layout |-> w[2], visible |-> visible,
              flags |-> flags]
  BY <1>4, Zenon DEF N!ParseLayoutChange
<1>. HIDE DEF visible, flags
<1>8. ~(Len(w) < 2 \/ w[1] \notin {"@1"}) BY <1>6, Zenon DEF Window
<1>9. N!ParseLayoutChange(w) =
        [is |-> "LayoutChanged", window |-> w[1], layout |-> w[2], visible |-> visible,
         flags |-> flags]
  BY <1>7, <1>8, Zenon
<1>10. N!ParseLayoutChange(w) =
         [is |-> "LayoutChanged", window |-> x, layout |-> y, visible |-> v, flags |-> z]
  BY <1>6, <1>9, Zenon
<1>. QED BY <1>10 DEF LayoutRead, w, w4

(* A new layout is heard.                                                  *)
LEMMA LayoutHeard ==
  ASSUME NEW s, NEW line,
         NEW e \in [is : {"LayoutChanged"}, window : {"@1"}, layout : {"a"}, visible : {"a"},
                    flags : {"", "7"}],
         line \in N!Written(e, FALSE)
  PROVE  Heard(s, line) = e
<1>. DEFINE A == {"@1", "a", "", "7"}
            x == e.window
            y == e.layout
            v == e.visible
            z == e.flags
            w == N!FieldsOf(<<x, y, v, z>>)
<1>1. /\ e.is = "LayoutChanged" /\ x = "@1" /\ y = "a" /\ v = "a" /\ z \in {"", "7"}
      /\ e = [is |-> "LayoutChanged", window |-> x, layout |-> y, visible |-> v, flags |-> z]
  OBVIOUS
<1>2. Wrote(line, {"layout-change"}, w) BY <1>1, WrittenForOther
<1>3. /\ x \in A /\ y \in A /\ v \in A /\ z \in A
      /\ Filled(x) /\ Filled(y) /\ Filled(v) /\ Window(x) /\ (~Filled(z) => z = N!NoId)
  BY <1>1 DEF Filled, N!NoId, Window
<1>. HIDE DEF A, x, y, v, z
<1>4. N!ParseLayoutChange(w) =
        [is |-> "LayoutChanged", window |-> x, layout |-> y, visible |-> v, flags |-> z]
  <2>1. LayoutRead(x, y, v, z) BY ONLY <1>3, LayoutParsed
  <2>. QED BY <2>1, Zenon DEF LayoutRead
<1>. HIDE DEF w
<1>5. N!EventOf(s, "layout-change", w) = N!ParseLayoutChange(w) BY EventForOther
<1>. QED BY <1>1, <1>2, <1>4, <1>5, Zenon DEF Wrote, Heard

(* The last of some kind, or the first, among four fields.                 *)
LastIn(ids, m) == IF N!Among(ids, m) = <<>> THEN N!NoId ELSE N!Last(N!Among(ids, m))
FirstIn(ids, m) == IF N!Among(ids, m) = <<>> THEN "-1" ELSE Head(N!Among(ids, m))
FindsOnly(ids, m, f) == LastIn(ids, m) = f /\ FirstIn(ids, m) = f
FindsNone(ids, m) == LastIn(ids, m) = N!NoId /\ FirstIn(ids, m) = "-1"

(* The only one of a kind is the last and the first.                       *)
LEMMA Picked ==
  ASSUME NEW A, NEW ids, NEW a \in A, NEW b \in A, NEW c \in A, NEW d \in A
  PROVE  LET m == <<a, b, c, d>>
         IN /\ a \in ids /\ b \notin ids /\ c \notin ids /\ d \notin ids => FindsOnly(ids, m, a)
            /\ a \notin ids /\ b \in ids /\ c \notin ids /\ d \notin ids => FindsOnly(ids, m, b)
            /\ a \notin ids /\ b \notin ids /\ c \in ids /\ d \notin ids => FindsOnly(ids, m, c)
            /\ a \notin ids /\ b \notin ids /\ c \notin ids /\ d \in ids => FindsOnly(ids, m, d)
            /\ a \notin ids /\ b \notin ids /\ c \notin ids /\ d \notin ids => FindsNone(ids, m)
<1>. DEFINE m == <<a, b, c, d>>
<1>1. /\ a \in ids /\ b \notin ids /\ c \notin ids /\ d \notin ids => N!Among(ids, m) = <<a>>
      /\ a \notin ids /\ b \in ids /\ c \notin ids /\ d \notin ids => N!Among(ids, m) = <<b>>
      /\ a \notin ids /\ b \notin ids /\ c \in ids /\ d \notin ids => N!Among(ids, m) = <<c>>
      /\ a \notin ids /\ b \notin ids /\ c \notin ids /\ d \in ids => N!Among(ids, m) = <<d>>
      /\ a \notin ids /\ b \notin ids /\ c \notin ids /\ d \notin ids => N!Among(ids, m) = <<>>
  BY AmongFour
<1>. HIDE DEF m
<1>2. ASSUME NEW f \in A, N!Among(ids, m) = <<f>> PROVE FindsOnly(ids, m, f)
  <2>1. <<f>> # <<>> /\ Head(<<f>>) = f /\ Len(<<f>>) = 1 /\ <<f>>[1] = f BY ONLY f \in A
  <2>2. N!Last(<<f>>) = f BY <2>1 DEF N!Last
  <2>. QED BY <1>2, <2>1, <2>2 DEF FindsOnly, LastIn, FirstIn
<1>3. N!Among(ids, m) = <<>> => FindsNone(ids, m) BY DEF FindsNone, LastIn, FirstIn
<1>4. a \in ids /\ b \notin ids /\ c \notin ids /\ d \notin ids => FindsOnly(ids, m, a) BY <1>1, <1>2
<1>5. a \notin ids /\ b \in ids /\ c \notin ids /\ d \notin ids => FindsOnly(ids, m, b) BY <1>1, <1>2
<1>6. a \notin ids /\ b \notin ids /\ c \in ids /\ d \notin ids => FindsOnly(ids, m, c) BY <1>1, <1>2
<1>7. a \notin ids /\ b \notin ids /\ c \notin ids /\ d \in ids => FindsOnly(ids, m, d) BY <1>1, <1>2
<1>8. a \notin ids /\ b \notin ids /\ c \notin ids /\ d \notin ids => FindsNone(ids, m)
  BY <1>1, <1>3
<1>. QED BY <1>4, <1>5, <1>6, <1>7, <1>8 DEF m

(* The four fields that say what is subscribed to.                         *)
Solid(f) == f # "" /\ f # ":"
FieldsOfFour(m) ==
  /\ m # <<>> /\ N!FieldsOf(m) = m /\ Len(m) = 4 /\ \A i \in 2..4 : m[i] # ":"

(* They are all fields, and none is the separator.                         *)
LEMMA FourFields ==
  ASSUME NEW A, NEW a \in A, NEW b \in A, NEW c \in A, NEW d \in A,
         Solid(a), Solid(b), Solid(c), Solid(d)
  PROVE  <<a, b, c, d>> \in Seq(A) /\ FieldsOfFour(<<a, b, c, d>>)
<1>. DEFINE m == <<a, b, c, d>>
<1>1. /\ Filled(a) /\ Filled(b) /\ Filled(c) /\ Filled(d)
      /\ a # ":" /\ b # ":" /\ c # ":" /\ d # ":"
  BY DEF Solid, Filled
<1>2. m \in Seq(A) /\ Len(m) = 4 /\ m[2] = b /\ m[3] = c /\ m[4] = d /\ m # <<>>
  BY ONLY a \in A, b \in A, c \in A, d \in A
<1>3. \A i \in 2..4 : i = 2 \/ i = 3 \/ i = 4 BY ONLY TRUE
<1>4. /\ N!FieldsOf(<<a>>) = <<a>> /\ N!FieldsOf(<<a, b>>) = <<a, b>>
      /\ N!FieldsOf(<<a, b, c>>) = <<a, b, c>>
      /\ Filled(d) => N!FieldsOf(<<a, b, c, d>>) = <<a, b, c, d>>
      /\ ~Filled(d) => N!FieldsOf(<<a, b, c, d>>) = <<a, b, c>>
  BY ONLY <1>1, a \in A, b \in A, c \in A, d \in A, FewFields
<1>5. N!FieldsOf(m) = m BY <1>1, <1>4
<1>. HIDE DEF m
<1>6. \A i \in 2..4 : m[i] # ":" BY <1>1, <1>2, <1>3
<1>7. m \in Seq(A) /\ FieldsOfFour(m) BY <1>2, <1>5, <1>6 DEF FieldsOfFour
<1>. QED BY <1>7 DEF m

(* A notification of a subscription is read as it was written.             *)
Subscribes(w, x, a, b, c, d, t) == w = <<x, a, b, c, d, ":">> \o t
SubscriptionRead(w, x, a, b, c, d, t) ==
  N!ParseSubscriptionChanged(w) =
    LET m == <<a, b, c, d>>
    IN N!Subscription(x, LastIn(Sessions, m), LastIn({"@1"}, m), LastIn({"%1"}, m),
                      FirstIn({"7"}, m), t)

(* The separator is found whatever the value holds.                        *)
LEMMA SubscriptionParsed ==
  ASSUME NEW A, NEW colon \in A, colon = ":", NEW x \in A, Filled(x),
         NEW a \in A, NEW b \in A, NEW c \in A, NEW d \in A,
         Solid(a), Solid(b), Solid(c), Solid(d),
         NEW t \in Seq(A), t # <<>>, NEW w, Subscribes(w, x, a, b, c, d, t)
  PROVE  SubscriptionRead(w, x, a, b, c, d, t)
<1>. DEFINE m == <<a, b, c, d>>
            p == <<x, a, b, c, d, ":">>
            q == <<a, b, c, d, ":">>
            r == q \o t
<1>1. m \in Seq(A) /\ FieldsOfFour(m)
  BY ONLY a \in A, b \in A, c \in A, d \in A, Solid(a), Solid(b), Solid(c), Solid(d), FourFields
<1>2. /\ p \in Seq(A) /\ p # <<>> /\ p[1] = x /\ Tail(p) = q
  <2>1. p = <<x, a, b, c, d, colon>> /\ q = <<a, b, c, d, colon>> OBVIOUS
  <2>2. /\ <<x, a, b, c, d, colon>> \in Seq(A) /\ <<x, a, b, c, d, colon>> # <<>>
        /\ <<x, a, b, c, d, colon>>[1] = x
        /\ Tail(<<x, a, b, c, d, colon>>) = <<a, b, c, d, colon>>
    BY ONLY x \in A, a \in A, b \in A, c \in A, d \in A, colon \in A
  <2>. QED BY <2>1, <2>2, Zenon
<1>3. w = p \o t BY DEF Subscribes
<1>. HIDE DEF p
<1>4. RestIs(w, p, t) BY ONLY <1>2, <1>3, t \in Seq(A), t # <<>>, RestOfJoined
<1>5. w[1] = x /\ N!Rest(w) = r BY <1>2, <1>4, Zenon DEF RestIs
<1>6. Separated(r, m, t)
  <2>1. m \o <<colon>> = <<a, b, c, d, colon>>
    BY ONLY a \in A, b \in A, c \in A, d \in A, colon \in A, OneAfterFour
  <2>2. m \o <<":">> = q BY <2>1
  <2>. QED BY <2>2, Zenon DEF Separated
<1>. HIDE DEF m, r
<1>7. SplitAs(r, m, t)
  <2>1. m # <<>> /\ \A i \in 2..Len(m) : m[i] # ":" BY <1>1 DEF FieldsOfFour
  <2>2. ":" \in A OBVIOUS
  <2>. QED BY ONLY <1>1, <1>6, <2>1, <2>2, t \in Seq(A), t # <<>>, SeparatorFound
<1>8. N!Separators(r) # {} /\ N!Meta(r) = m /\ N!Value(r) = t
  BY <1>1, <1>7 DEF SplitAs, FieldsOfFour
<1>9. x # "" BY DEF Filled
<1>10. N!ParseSubscriptionChanged(w) =
         IF w[1] = "" THEN N!Failed
         ELSE IF N!Separators(r) = {} THEN N!Subscription(w[1], N!NoId, N!NoId, N!NoId, "-1", r)
         ELSE N!Subscription(w[1], LastIn(Sessions, N!Meta(r)), LastIn({"@1"}, N!Meta(r)),
                             LastIn({"%1"}, N!Meta(r)), FirstIn({"7"}, N!Meta(r)), N!Value(r))
  BY <1>5, Zenon DEF N!ParseSubscriptionChanged, LastIn, FirstIn, Sessions
<1>11. N!ParseSubscriptionChanged(w) =
         N!Subscription(x, LastIn(Sessions, m), LastIn({"@1"}, m), LastIn({"%1"}, m),
                        FirstIn({"7"}, m), t)
  BY <1>5, <1>8, <1>9, <1>10, Zenon
<1>. QED BY <1>11, Zenon DEF SubscriptionRead, m

(* The fields that are shown for what is subscribed to, and what is found  *)
(* among them.                                                             *)
ShownAs(a, b, c, d, window, index, pane) ==
  /\ window \in {"", "@1"} /\ index \in {"-1", "7"} /\ pane \in {"", "%1"}
  /\ a = "$0" /\ b = N!Shown(window) /\ c = N!Shown(index) /\ d = N!Shown(pane)
FoundIn(m, window, index, pane) ==
  /\ LastIn(Sessions, m) = "$0" /\ LastIn({"@1"}, m) = window
  /\ LastIn({"%1"}, m) = pane /\ FirstIn({"7"}, m) = index

(* It is the same.                                                         *)
LEMMA SubscribedTo ==
  ASSUME NEW A, NEW a \in A, NEW b \in A, NEW c \in A, NEW d \in A,
         NEW window, NEW index, NEW pane, ShownAs(a, b, c, d, window, index, pane)
  PROVE  FoundIn(<<a, b, c, d>>, window, index, pane)
<1>. DEFINE m == <<a, b, c, d>>
            W == {"@1"}
            I == {"7"}
            P1 == {"%1"}
<1>0. /\ window \in {"", "@1"} /\ index \in {"-1", "7"} /\ pane \in {"", "%1"}
      /\ a = "$0" /\ b = N!Shown(window) /\ c = N!Shown(index) /\ d = N!Shown(pane)
  BY DEF ShownAs
<1>1. /\ a \in Sessions /\ b \notin Sessions /\ c \notin Sessions /\ d \notin Sessions
      /\ a \notin W /\ c \notin W /\ d \notin W
      /\ a \notin P1 /\ b \notin P1 /\ c \notin P1
      /\ a \notin I /\ b \notin I /\ d \notin I
  BY <1>0 DEF N!Shown, N!NoId, Sessions
<1>2. /\ window = "" => b \notin W
      /\ window = "@1" => b \in W /\ b = window
      /\ pane = "" => d \notin P1
      /\ pane = "%1" => d \in P1 /\ d = pane
      /\ index = "-1" => c \notin I
      /\ index = "7" => c \in I /\ c = index
  BY <1>0 DEF N!Shown, N!NoId
<1>. HIDE DEF W, I, P1
<1>3. ASSUME NEW ids
      PROVE  /\ a \in ids /\ b \notin ids /\ c \notin ids /\ d \notin ids => FindsOnly(ids, m, a)
             /\ a \notin ids /\ b \in ids /\ c \notin ids /\ d \notin ids => FindsOnly(ids, m, b)
             /\ a \notin ids /\ b \notin ids /\ c \in ids /\ d \notin ids => FindsOnly(ids, m, c)
             /\ a \notin ids /\ b \notin ids /\ c \notin ids /\ d \in ids => FindsOnly(ids, m, d)
             /\ a \notin ids /\ b \notin ids /\ c \notin ids /\ d \notin ids => FindsNone(ids, m)
  BY ONLY a \in A, b \in A, c \in A, d \in A, Picked
<1>. HIDE DEF m
<1>4. FindsOnly(Sessions, m, a) BY ONLY <1>1, <1>3
<1>5. IF window = "" THEN FindsNone(W, m) ELSE FindsOnly(W, m, window)
  <2>1. CASE window = ""
    <3>1. FindsNone(W, m) BY <1>1, <1>2, <1>3, <2>1
    <3>. QED BY <2>1, <3>1
  <2>2. CASE window = "@1"
    <3>1. b \in W /\ b = window BY <1>2, <2>2
    <3>2. FindsOnly(W, m, b) BY <1>1, <1>3, <3>1
    <3>. QED BY <2>2, <3>1, <3>2
  <2>. QED BY <1>0, <2>1, <2>2
<1>6. IF pane = "" THEN FindsNone(P1, m) ELSE FindsOnly(P1, m, pane)
  <2>1. CASE pane = ""
    <3>1. FindsNone(P1, m) BY <1>1, <1>2, <1>3, <2>1
    <3>. QED BY <2>1, <3>1
  <2>2. CASE pane = "%1"
    <3>1. d \in P1 /\ d = pane BY <1>2, <2>2
    <3>2. FindsOnly(P1, m, d) BY <1>1, <1>3, <3>1
    <3>. QED BY <2>2, <3>1, <3>2
  <2>. QED BY <1>0, <2>1, <2>2
<1>7. IF index = "-1" THEN FindsNone(I, m) ELSE FindsOnly(I, m, index)
  <2>1. CASE index = "-1"
    <3>1. FindsNone(I, m) BY <1>1, <1>2, <1>3, <2>1
    <3>. QED BY <2>1, <3>1
  <2>2. CASE index = "7"
    <3>1. c \in I /\ c = index BY <1>2, <2>2
    <3>2. FindsOnly(I, m, c) BY <1>1, <1>3, <3>1
    <3>. QED BY <2>2, <3>1, <3>2
  <2>. QED BY <1>0, <2>1, <2>2
<1>8. /\ LastIn(Sessions, m) = "$0" /\ LastIn(W, m) = window
      /\ LastIn(P1, m) = pane /\ FirstIn(I, m) = index
  BY <1>0, <1>4, <1>5, <1>6, <1>7 DEF FindsOnly, FindsNone, N!NoId
<1>. QED BY <1>8 DEF FoundIn, m, W, I, P1

SubscriptionsTold(texts) ==
  [is : {"SubscriptionChanged"}, name : {"a"}, session : {"$0"}, window : {"", "@1"},
   pane : {"", "%1"}, index : {"-1", "7"}, value : texts]

(* A subscription's value is heard as it was told, with what it is of.     *)
LEMMA SubscriptionHeard ==
  ASSUME NEW F, NEW s, NEW line, NEW e \in SubscriptionsTold(Text(F)),
         line \in N!Written(e, FALSE)
  PROVE  Heard(s, line) = e
<1>. DEFINE A == AnyField(F)
            x == e.name
            a == e.session
            b == N!Shown(e.window)
            c == N!Shown(e.index)
            d == N!Shown(e.pane)
            t == e.value
            w == <<x, a, b, c, d, ":">> \o t
            colon == ":"
<1>1. /\ e.is = "SubscriptionChanged" /\ x = "a" /\ a = "$0" /\ e.window \in {"", "@1"}
      /\ e.pane \in {"", "%1"} /\ e.index \in {"-1", "7"} /\ t \in Text(F)
      /\ e = [is |-> "SubscriptionChanged", name |-> x, session |-> a, window |-> e.window,
              pane |-> e.pane, index |-> e.index, value |-> t]
  BY DEF SubscriptionsTold
<1>2. Wrote(line, {"subscription-changed"}, w) BY <1>1, WrittenForOther
<1>3. /\ x \in A /\ a \in A /\ b \in A /\ c \in A /\ d \in A /\ colon \in A
      /\ Filled(x) /\ Solid(a) /\ Solid(b) /\ Solid(c) /\ Solid(d)
  <2>1. b \in {"-", "@1"} /\ c \in {"-", "7"} /\ d \in {"-", "%1"} BY <1>1 DEF N!Shown, N!NoId
  <2>. QED BY <1>1, <2>1 DEF AnyField, Filled, Solid
<1>4. t \in Seq(A) /\ t # <<>>
  <2>1. t \in Seq(F) /\ t # <<>> BY <1>1 DEF Text
  <2>2. F \subseteq A BY DEF AnyField
  <2>. HIDE DEF A, t
  <2>. QED BY ONLY <2>1, <2>2
<1>5. ShownAs(a, b, c, d, e.window, e.index, e.pane) BY <1>1 DEF ShownAs
<1>6. colon = ":" OBVIOUS
<1>7. Subscribes(w, x, a, b, c, d, t) BY DEF Subscribes
<1>. HIDE DEF A, x, a, b, c, d, t, w, colon
<1>8. SubscriptionRead(w, x, a, b, c, d, t)
  BY ONLY <1>3, <1>4, <1>6, <1>7, SubscriptionParsed
<1>12. FoundIn(<<a, b, c, d>>, e.window, e.index, e.pane) BY ONLY <1>3, <1>5, SubscribedTo
<1>9. N!ParseSubscriptionChanged(w) = N!Subscription(x, a, e.window, e.pane, e.index, t)
  BY <1>1, <1>8, <1>12, Zenon DEF SubscriptionRead, FoundIn
<1>10. N!Subscription(x, a, e.window, e.pane, e.index, t) = e
  BY <1>1 DEF N!Subscription
<1>11. N!EventOf(s, "subscription-changed", w) = N!ParseSubscriptionChanged(w) BY EventForOther
<1>. QED BY <1>2, <1>9, <1>10, <1>11 DEF Wrote, Heard

(* A client's session is heard, with its name.                             *)
LEMMA ClientHeard ==
  ASSUME NEW F, Plainly(F), NEW s, NEW line,
         NEW e \in [is : {"ClientSessionChanged"}, client : {"a"}, of : {"$0"}, name : Text(F)],
         line \in N!Written(e, FALSE)
  PROVE  Heard(s, line) = e
<1>. DEFINE A == AnyField(F)
            x == "a"
            y == "$0"
            d == N!stored(e.name)
            w == <<x, y>> \o d
<1>1. /\ e.is = "ClientSessionChanged" /\ e.client = x /\ e.of = y /\ e.name \in Text(F)
      /\ e = [is |-> "ClientSessionChanged", client |-> x, of |-> y, name |-> e.name]
  OBVIOUS
<1>2. Wrote(line, {"client-session-changed"}, w) BY <1>1, WrittenForOther
<1>3. d \in Seq(A) /\ d # <<>> /\ N!visDecode(d) = e.name BY <1>1, NameSent
<1>4. x \in A /\ y \in A /\ x # "" /\ y \in Sessions BY DEF AnyField, Sessions
<1>5. After2(w, x, y, d) BY DEF After2
<1>. HIDE DEF A, x, y, d, w
<1>6. w[1] = x /\ w[2] = y /\ N!Rest(w)[1] = y /\ N!Rest(Tail(w)) = d
  <2>1. x \in A /\ y \in A /\ d \in Seq(A) /\ d # <<>> BY <1>3, <1>4
  <2>. QED BY ONLY <1>5, <2>1, RestAfterTwo
<1>7. N!EventOf(s, "client-session-changed", w) =
        IF w[1] # "" /\ N!Rest(w)[1] \in Sessions
        THEN [is |-> "ClientSessionChanged", client |-> w[1], of |-> w[2],
              name |-> N!visDecode(N!Rest(Tail(w)))]
        ELSE N!Failed
  BY ClientRead, Zenon
<1>8. N!EventOf(s, "client-session-changed", w) =
        [is |-> "ClientSessionChanged", client |-> x, of |-> y, name |-> e.name]
  BY <1>3, <1>4, <1>6, <1>7, Zenon
<1>. QED BY <1>1, <1>2, <1>8 DEF Wrote, Heard

(* A name that is the whole argument is heard without its outer spaces,    *)
(* and a text as it is.                                                    *)
LEMMA WholeHeard ==
  ASSUME NEW texts, NEW s, NEW line,
         NEW e \in [is : NameKinds, text : Trimmed(texts)] \union [is : TextKinds, text : texts]
                     \union [is : {"UnknownNotification"}, name : {"a"}, text : texts]
                     \union [is : {"SessionsChanged"}],
         line \in N!Written(e, FALSE)
  PROVE  Heard(s, line) = e
<1>1. CASE e \in [is : NameKinds, text : Trimmed(texts)]
  <2>1. e.is \in NameKinds /\ N!TrimSpace(e.text) = e.text /\ e = [is |-> e.is, text |-> e.text]
    BY <1>1 DEF Trimmed
  <2>2. Wrote(line, N!NotesOf(N!OfName, e.is), e.text) BY <2>1, WrittenForOther
  <2>3. line.name \in NameNames /\ N!OfName[line.name] = e.is /\ line.args = e.text
    BY <2>2, KindsOfNames DEF Wrote, N!NotesOf
  <2>4. \A n \in NameNames : N!EventOf(s, n, e.text) =
          [is |-> N!OfName[n], text |-> N!TrimSpace(e.text)]
    BY WholeNameRead, Zenon
  <2>. QED BY <2>1, <2>3, <2>4 DEF Heard
<1>2. CASE e \in [is : TextKinds, text : texts]
  <2>1. e.is \in TextKinds /\ e = [is |-> e.is, text |-> e.text] BY <1>2
  <2>2. Wrote(line, N!NotesOf(N!OfText, e.is), e.text) BY <2>1, WrittenForOther
  <2>3. line.name \in TextNames /\ N!OfText[line.name] = e.is /\ line.args = e.text
    BY <2>2, KindsOfNames DEF Wrote, N!NotesOf
  <2>4. \A n \in TextNames : N!EventOf(s, n, e.text) = [is |-> N!OfText[n], text |-> e.text]
    BY TextRead, Zenon
  <2>. QED BY <2>1, <2>3, <2>4 DEF Heard
<1>3. CASE e \in [is : {"UnknownNotification"}, name : {"a"}, text : texts]
  <2>1. /\ e.is = "UnknownNotification" /\ e.name = "a"
        /\ e = [is |-> "UnknownNotification", name |-> "a", text |-> e.text]
    BY <1>3
  <2>2. Wrote(line, {"a"}, e.text) BY <2>1, WrittenForOther
  <2>3. N!EventOf(s, "a", e.text) = [is |-> "UnknownNotification", name |-> "a", text |-> e.text]
    BY UnknownRead, Zenon
  <2>. QED BY <2>1, <2>2, <2>3 DEF Wrote, Heard
<1>4. CASE e \in [is : {"SessionsChanged"}]
  <2>1. e.is = "SessionsChanged" /\ e = [is |-> "SessionsChanged"] BY <1>4
  <2>2. Wrote(line, {"sessions-changed"}, N!NoText) BY <2>1, WrittenFor
  <2>3. N!EventOf(s, "sessions-changed", N!NoText) = [is |-> "SessionsChanged"] BY EventFor
  <2>. QED BY <2>1, <2>2, <2>3 DEF Wrote, Heard
<1>. QED BY <1>1, <1>2, <1>3, <1>4

(* Whatever tmux tells, with texts of any fields and of any length, is     *)
(* heard as it was told, by a reader attached to any session.              *)
LEMMA EventHeard ==
  ASSUME NEW F, Plainly(F), NEW s, NEW line, NEW e \in ToldWith(Text(F)),
         line \in N!Written(e, FALSE)
  PROVE  Heard(s, line) = e
<1>. DEFINE X == Text(F)
<1>1. /\ Range(N!OfPane) = PaneKinds /\ Range(N!OfWindow) = WindowKinds
      /\ Range(N!OfName) = NameKinds /\ Range(N!OfText) = TextKinds
  BY KindsOfNames, SameOperators
<1>2. \/ e \in SessionEvents(X)
      \/ e \in [is : {"PaneOutput"}, pane : {"%1"}, data : X, extended : {FALSE}, age : {"0"}]
      \/ e \in [is : {"PaneOutput"}, pane : {"%1"}, data : X, extended : {TRUE}, age : {"7"}]
      \/ e \in [is : PaneKinds, of : {"%1"}]
      \/ e \in [is : WindowKinds, of : {"@1"}]
      \/ e \in [is : {"WindowRenamed"}, of : {"@1"}, name : X]
      \/ e \in [is : {"SessionWindowChanged"}, of : {"$0"}, now : {"@1"}]
                 \union [is : {"WindowPaneChanged"}, of : {"@1"}, now : {"%1"}]
      \/ e \in [is : {"LayoutChanged"}, window : {"@1"}, layout : {"a"}, visible : {"a"},
                flags : {"", "7"}]
      \/ e \in SubscriptionsTold(X)
      \/ e \in [is : {"ClientSessionChanged"}, client : {"a"}, of : {"$0"}, name : X]
      \/ e \in [is : NameKinds, text : Trimmed(X)] \union [is : TextKinds, text : X]
                 \union [is : {"UnknownNotification"}, name : {"a"}, text : X]
                 \union [is : {"SessionsChanged"}]
  <2>. HIDE DEF X
  <2>. DEFINE A == SessionEvents(X)
              B == [is : {"PaneOutput"}, pane : {"%1"}, data : X, extended : {FALSE}, age : {"0"}]
              D == [is : {"PaneOutput"}, pane : {"%1"}, data : X, extended : {TRUE}, age : {"7"}]
              E(k) == [is : k, of : {"%1"}]
              G(k) == [is : k, of : {"@1"}]
              H == [is : {"SessionsChanged"}]
              I == [is : {"WindowRenamed"}, of : {"@1"}, name : X]
              J == [is : {"SessionWindowChanged"}, of : {"$0"}, now : {"@1"}]
              K == [is : {"WindowPaneChanged"}, of : {"@1"}, now : {"%1"}]
              L == [is : {"LayoutChanged"}, window : {"@1"}, layout : {"a"}, visible : {"a"},
                    flags : {"", "7"}]
              M == SubscriptionsTold(X)
              O == [is : {"ClientSessionChanged"}, client : {"a"}, of : {"$0"}, name : X]
              R(k) == [is : k, text : Trimmed(X)]
              S(k) == [is : k, text : X]
              T == [is : {"UnknownNotification"}, name : {"a"}, text : X]
  <2>1. ToldWith(X) =
          A \union B \union D \union E(Range(N!OfPane)) \union G(Range(N!OfWindow)) \union H
            \union I \union J \union K \union L \union M \union O \union R(Range(N!OfName))
            \union S(Range(N!OfText)) \union T
    BY Zenon DEF ToldWith, SubscriptionsTold
  <2>2. e \in ToldWith(X) BY DEF X
  <2>. HIDE DEF A, B, D, E, G, H, I, J, K, L, M, O, R, S, T
  <2>3. \/ e \in A \/ e \in B \/ e \in D \/ e \in E(PaneKinds) \/ e \in G(WindowKinds)
        \/ e \in I \/ e \in J \union K \/ e \in L \/ e \in M \/ e \in O
        \/ e \in R(NameKinds) \union S(TextKinds) \union T \union H
    BY <1>1, <2>1, <2>2
  <2>. QED BY <2>3, Zenon DEF A, B, D, E, G, H, I, J, K, L, M, O, R, S, T
<1>. QED BY <1>2, SessionHeard, OutputHeard, ExtendedHeard, PaneHeard, WindowHeard,
            WindowNameHeard, ChangeHeard, LayoutHeard, SubscriptionHeard, ClientHeard, WholeHeard

(* Of the first n, it is the i-th that told the attached session.          *)
LastChange(told, n, i) ==
  told[i].is = "SessionChanged" /\ \A j \in (i + 1)..n : told[j].is # "SessionChanged"
Changes(told, n) == {i \in 1..n : LastChange(told, n, i)}
OneOf(S) == CHOOSE i : i \in S
AttachedAt(told, n) ==
  IF Changes(told, n) = {} THEN N!NoId ELSE told[OneOf(Changes(told, n))].of

(* There is one such at most, a change is one, and what is not leaves it.  *)
LEMMA AttachedStep ==
  ASSUME NEW told
  PROVE  /\ AttachedAt(told, 0) = N!NoId
         /\ \A n \in Nat : \A i \in Changes(told, n) : AttachedAt(told, n) = told[i].of
         /\ \A n \in Nat : AttachedAt(told, n + 1) =
              IF told[n + 1].is = "SessionChanged" THEN told[n + 1].of ELSE AttachedAt(told, n)
<1>1. Changes(told, 0) = {} BY DEF Changes
<1>2. ASSUME NEW n \in Nat, NEW i \in Changes(told, n), NEW j \in Changes(told, n)
      PROVE  i = j
  <2>1. i \in 1..n /\ j \in 1..n /\ LastChange(told, n, i) /\ LastChange(told, n, j) BY DEF Changes
  <2>2. ~(i < j)
    <3>1. i < j => j \in (i + 1)..n BY <2>1
    <3>. QED BY <2>1, <3>1 DEF LastChange
  <2>3. ~(j < i)
    <3>1. j < i => i \in (j + 1)..n BY <2>1
    <3>. QED BY <2>1, <3>1 DEF LastChange
  <2>. QED BY <2>1, <2>2, <2>3
<1>3. ASSUME NEW n \in Nat, NEW i \in Changes(told, n) PROVE AttachedAt(told, n) = told[i].of
  <2>1. OneOf(Changes(told, n)) \in Changes(told, n) BY Zenon DEF OneOf
  <2>2. OneOf(Changes(told, n)) = i BY <1>2, <2>1, Zenon
  <2>3. Changes(told, n) # {} OBVIOUS
  <2>. QED BY <2>2, <2>3, Zenon DEF AttachedAt
<1>4. ASSUME NEW n \in Nat
      PROVE  AttachedAt(told, n + 1) =
               IF told[n + 1].is = "SessionChanged" THEN told[n + 1].of ELSE AttachedAt(told, n)
  <2>1. CASE told[n + 1].is = "SessionChanged"
    <3>1. (n + 1) + 1..n + 1 = {} /\ n + 1 \in 1..(n + 1) OBVIOUS
    <3>2. n + 1 \in Changes(told, n + 1) BY <2>1, <3>1 DEF Changes, LastChange
    <3>3. n + 1 \in Nat OBVIOUS
    <3>4. AttachedAt(told, n + 1) = told[n + 1].of BY <1>3, <3>2, <3>3
    <3>. QED BY <2>1, <3>4, Zenon
  <2>2. CASE told[n + 1].is # "SessionChanged"
    <3>1. ASSUME NEW i \in 1..(n + 1)
          PROVE  LastChange(told, n + 1, i) <=> i \in 1..n /\ LastChange(told, n, i)
      <4>1. i = n + 1 => ~LastChange(told, n + 1, i) BY <2>2 DEF LastChange
      <4>2. i # n + 1 => i \in 1..n OBVIOUS
      <4>3. ASSUME i \in 1..n PROVE LastChange(told, n + 1, i) <=> LastChange(told, n, i)
        <5>1. \A j \in (i + 1)..(n + 1) : j = n + 1 \/ j \in (i + 1)..n BY <4>3
        <5>2. \A j \in (i + 1)..n : j \in (i + 1)..(n + 1) BY <4>3
        <5>. QED BY <2>2, <5>1, <5>2 DEF LastChange
      <4>4. i \in 1..n => i # n + 1 OBVIOUS
      <4>. QED BY <4>1, <4>2, <4>3, <4>4
    <3>2. \A i \in 1..n : i \in 1..(n + 1) OBVIOUS
    <3>3. Changes(told, n + 1) = Changes(told, n) BY <3>1, <3>2 DEF Changes
    <3>4. AttachedAt(told, n + 1) = AttachedAt(told, n) BY <3>3, Zenon DEF AttachedAt
    <3>. QED BY <2>2, <3>4, Zenon
  <2>. QED BY <2>1, <2>2
<1>5. AttachedAt(told, 0) = N!NoId BY <1>1 DEF AttachedAt
<1>. QED BY <1>3, <1>4, <1>5

(* What tmux told, and the lines in which it did: each is written as it    *)
(* is, or a rename of the attached session in the older form.              *)
LinesOf(F) == UNION {N!Written(e, older) : e \in ToldWith(Text(F)), older \in BOOLEAN}
WrittenAs(F, told, lines, i) ==
  \/ lines[i] \in N!Written(told[i], FALSE)
  \/ /\ lines[i] \in N!Written(told[i], TRUE)
     /\ \E name \in Trimmed(Text(F)) : \E j \in Changes(told, i - 1) :
          told[i] = [is |-> "SessionRenamed", of |-> told[j].of, name |-> name]
ToldIn(F, told, lines) ==
  /\ told \in Seq(ToldWith(Text(F))) /\ lines \in Seq(LinesOf(F)) /\ Len(lines) = Len(told)
  /\ \A i \in 1..Len(told) : WrittenAs(F, told, lines, i)

(* Each is heard as it was told by a reader attached where tmux is.        *)
LEMMA EachHeard ==
  ASSUME NEW F, Plainly(F), NEW told, NEW lines, ToldIn(F, told, lines),
         NEW i \in 1..Len(told)
  PROVE  Heard(AttachedAt(told, i - 1), lines[i]) = told[i]
<1>. DEFINE e == told[i]
            s == AttachedAt(told, i - 1)
            line == lines[i]
<1>1. e \in ToldWith(Text(F)) /\ WrittenAs(F, told, lines, i) /\ i - 1 \in Nat
  <2>1. told \in Seq(ToldWith(Text(F))) BY DEF ToldIn
  <2>2. i - 1 \in Nat BY <2>1
  <2>. QED BY <2>1, <2>2 DEF ToldIn
<1>2. CASE line \in N!Written(e, FALSE)
  <2>. HIDE DEF e, s, line
  <2>1. e \in ToldWith(Text(F)) BY <1>1
  <2>2. Heard(s, line) = e BY ONLY Plainly(F), <1>2, <2>1, EventHeard
  <2>. QED BY <2>2 DEF e, s, line
<1>3. ASSUME line \in N!Written(e, TRUE), NEW name \in Trimmed(Text(F)), NEW j \in Changes(told, i - 1),
             e = [is |-> "SessionRenamed", of |-> told[j].of, name |-> name]
      PROVE  Heard(s, line) = e
  <2>1. s = told[j].of BY <1>1, AttachedStep
  <2>2. e = [is |-> "SessionRenamed", of |-> s, name |-> name] BY <1>3, <2>1
  <2>. HIDE DEF e, s, line
  <2>3. RenameOf(e, s, name) BY <2>2 DEF RenameOf
  <2>. QED BY ONLY Plainly(F), <1>3, <2>3, RenameHeard
<1>. QED BY <1>1, <1>2, <1>3, Zenon DEF WrittenAs

(* The reader after n lines.                                               *)
ReaderAt(told, n) == [attached |-> AttachedAt(told, n), events |-> SubSeq(told, 1, n)]

(* One line takes it from each to the next.                                *)
LEMMA ReaderStep ==
  ASSUME NEW F, Plainly(F), NEW told, NEW lines, ToldIn(F, told, lines)
  PROVE  /\ ReaderAt(told, 0) = [attached |-> N!NoId, events |-> <<>>]
         /\ \A n \in 1..Len(told) :
              N!handleNotification(ReaderAt(told, n - 1), lines[n]) = ReaderAt(told, n)
<1>. DEFINE A == ToldWith(Text(F))
            L == Len(told)
<1>1. told \in Seq(A) /\ L \in Nat BY DEF ToldIn
<1>2. SubSeq(told, 1, 0) = <<>> BY ONLY TRUE, SubSeqEmpty
<1>3. AttachedAt(told, 0) = N!NoId BY AttachedStep
<1>4. ASSUME NEW n \in 1..L
      PROVE  N!handleNotification(ReaderAt(told, n - 1), lines[n]) = ReaderAt(told, n)
  <2>. DEFINE r == ReaderAt(told, n - 1)
              e == told[n]
  <2>1. r.attached = AttachedAt(told, n - 1) /\ r.events = SubSeq(told, 1, n - 1) BY DEF ReaderAt
  <2>2. Heard(AttachedAt(told, n - 1), lines[n]) = e BY EachHeard
  <2>3. N!EventOf(r.attached, lines[n].name, lines[n].args) = e BY <2>1, <2>2, Zenon DEF Heard
  <2>4. Append(SubSeq(told, 1, n - 1), e) = SubSeq(told, 1, n)
    <3>. DEFINE s == SubSeq(told, 1, n - 1)
                t == SubSeq(told, 1, n)
    <3>1. told \in Seq(A) /\ n \in 1..Len(told) BY <1>1
    <3>. HIDE DEF A
    <3>2. /\ s \in Seq(A) /\ Len(s) = n - 1 /\ \A i \in 1..(n - 1) : s[i] = told[i]
          /\ t \in Seq(A) /\ Len(t) = n /\ \A i \in 1..n : t[i] = told[i]
      <4>1. /\ 1 \in Int /\ n \in Int /\ n - 1 \in Int /\ n >= 1
            /\ (\A i \in 1..n : told[i] \in A) /\ \A i \in 1..(n - 1) : told[i] \in A
        BY ONLY <3>1
      <4>2. /\ t \in Seq(A) /\ Len(t) = IF 1 <= n THEN n - 1 + 1 ELSE 0
            /\ \A i \in 1..(n - 1 + 1) : t[i] = told[1 + i - 1]
        BY ONLY <4>1, SubSeqProperties
      <4>3. /\ s \in Seq(A) /\ Len(s) = IF 1 <= n - 1 THEN n - 1 - 1 + 1 ELSE 0
            /\ \A i \in 1..(n - 1 - 1 + 1) : s[i] = told[1 + i - 1]
        BY ONLY <4>1, SubSeqProperties
      <4>. HIDE DEF s, t
      <4>. QED BY <4>1, <4>2, <4>3
    <3>. HIDE DEF s, t
    <3>3. told[n] \in A BY <3>1
    <3>4. Len(t) = Len(s) + 1 /\ t[Len(s) + 1] = e /\ \A i \in 1..Len(s) : t[i] = s[i]
      BY <3>1, <3>2
    <3>5. t = Append(s, e) BY ONLY <3>2, <3>3, <3>4, IsAppended
    <3>. QED BY <3>5 DEF s, t
  <2>5. (n - 1) + 1 = n /\ n - 1 \in Nat BY <1>1
  <2>6. AttachedAt(told, n) = IF e.is = "SessionChanged" THEN e.of ELSE AttachedAt(told, n - 1)
    <3>1. AttachedAt(told, (n - 1) + 1) =
            IF told[(n - 1) + 1].is = "SessionChanged" THEN told[(n - 1) + 1].of
            ELSE AttachedAt(told, n - 1)
      BY <2>5, AttachedStep
    <3>. QED BY <2>5, <3>1, Zenon
  <2>7. N!handleNotification(r, lines[n]) =
          [attached |-> IF e.is = "SessionChanged" THEN e.of ELSE r.attached,
           events |-> Append(r.events, e)]
    BY <2>3, Zenon DEF N!handleNotification
  <2>. HIDE DEF r, e
  <2>8. N!handleNotification(r, lines[n]) = ReaderAt(told, n)
    BY <2>1, <2>4, <2>6, <2>7, Zenon DEF ReaderAt
  <2>. QED BY <2>8 DEF r
<1>. QED BY <1>2, <1>3, <1>4 DEF ReaderAt

(* What is read is what was told, however many notifications it were.      *)
THEOREM ReadAsTold ==
  ASSUME NEW F, Plainly(F), NEW told, NEW lines, ToldIn(F, told, lines)
  PROVE  N!Read(lines).events = told
<1>. DEFINE L == Len(lines)
            a == [attached |-> N!NoId, events |-> <<>>]
            H(f) == [n \in 0..L |-> IF n = 0 THEN a ELSE N!handleNotification(f[n - 1], lines[n])]
            f == CHOOSE f : f = H(f)
            g == [n \in 0..L |-> ReaderAt(told, n)]
<1>1. told \in Seq(ToldWith(Text(F))) /\ L = Len(told) /\ L \in Nat BY DEF ToldIn
<1>2. N!Read(lines) = f[L] BY DEF N!Read
<1>3. /\ ReaderAt(told, 0) = a
      /\ \A n \in 1..L : N!handleNotification(ReaderAt(told, n - 1), lines[n]) = ReaderAt(told, n)
  BY <1>1, ReaderStep
<1>. HIDE DEF a, L
<1>4. g = H(g)
  <2>1. ASSUME NEW n \in 0..L
        PROVE  ReaderAt(told, n) = IF n = 0 THEN a ELSE N!handleNotification(g[n - 1], lines[n])
    <3>1. CASE n = 0 BY <1>3, <3>1
    <3>2. CASE n # 0
      <4>1. n \in 1..L /\ n - 1 \in 0..L BY <1>1, <3>2
      <4>. QED BY <1>3, <3>2, <4>1
    <3>. QED BY <3>1, <3>2
  <2>. QED BY <2>1
<1>5. f = H(f)
  <2>. HIDE DEF g
  <2>. QED BY <1>4, Zenon
<1>6. f[0] = a /\ \A n \in 1..L : f[n] = N!handleNotification(f[n - 1], lines[n])
  <2>. HIDE DEF f
  <2>. QED BY <1>1, <1>5
<1>. HIDE DEF f
<1>. DEFINE T == {n \in 0..L : f[n] = ReaderAt(told, n)}
<1>7. 0 \in T BY <1>1, <1>3, <1>6
<1>8. ASSUME NEW n \in 1..L, n - 1 \in T PROVE n \in T
  <2>1. n \in 0..L /\ f[n - 1] = ReaderAt(told, n - 1) BY <1>1, <1>8
  <2>. QED BY <1>3, <1>6, <2>1
<1>9. f[L] = ReaderAt(told, L)
  <2>. HIDE DEF T
  <2>1. 0..L \subseteq T BY <1>1, <1>7, <1>8, UpTo
  <2>2. L \in T BY <1>1, <2>1
  <2>. QED BY <2>2 DEF T
<1>10. SubSeq(told, 1, Len(told)) = told BY <1>1, SubSeqFull
<1>. QED BY <1>1, <1>2, <1>9, <1>10 DEF ReaderAt

(* Whatever a line says, the reader hears one event of it.                 *)
LEMMA OneLineRead ==
  ASSUME NEW line
  PROVE  LET e == Heard(N!NoId, line)
         IN /\ N!Read(<<line>>).events[1] = e
            /\ N!Read(<<line>>).attached = IF e.is = "SessionChanged" THEN e.of ELSE N!NoId
<1>. DEFINE lines == <<line>>
            a == [attached |-> N!NoId, events |-> <<>>]
            b == N!handleNotification(a, line)
            e == Heard(N!NoId, line)
            H(f) == [n \in 0..1 |-> IF n = 0 THEN a ELSE N!handleNotification(f[n - 1], lines[n])]
            f == CHOOSE f : f = H(f)
            g == [n \in 0..1 |-> IF n = 0 THEN a ELSE b]
<1>1. Len(lines) = 1 /\ lines[1] = line BY ONLY TRUE
<1>2. N!Read(lines) = f[1] BY <1>1 DEF N!Read
<1>3. \A n \in 0..1 : n = 0 \/ n = 1 BY ONLY TRUE
<1>. HIDE DEF lines, a, b
<1>4. g = H(g)
  <2>1. g[0] = a /\ 0 \in 0..1 /\ 1 \in 0..1 /\ 1 - 1 = 0 OBVIOUS
  <2>2. ASSUME NEW n \in 0..1
        PROVE  (IF n = 0 THEN a ELSE b) = IF n = 0 THEN a ELSE N!handleNotification(g[n - 1], lines[n])
    <3>1. CASE n = 0 BY <3>1
    <3>2. CASE n = 1
      <4>1. N!handleNotification(g[n - 1], lines[n]) = b BY <1>1, <2>1, <3>2 DEF b
      <4>. QED BY <3>2, <4>1
    <3>. QED BY <1>3, <3>1, <3>2
  <2>. QED BY <2>2
<1>5. f = H(f)
  <2>. HIDE DEF g
  <2>. QED BY <1>4, Zenon
<1>6. f[1] = b
  <2>. HIDE DEF f
  <2>1. f[0] = a BY <1>5
  <2>2. f[1] = N!handleNotification(f[1 - 1], lines[1]) BY <1>5
  <2>. QED BY <1>1, <2>1, <2>2 DEF b
<1>. HIDE DEF f
<1>7. b = [attached |-> IF e.is = "SessionChanged" THEN e.of ELSE N!NoId,
           events |-> Append(<<>>, e)]
  BY Zenon DEF b, a, N!handleNotification, Heard
<1>. HIDE DEF e
<1>8. Append(<<>>, e)[1] = e OBVIOUS
<1>9. b.events[1] = e /\ b.attached = IF e.is = "SessionChanged" THEN e.of ELSE N!NoId
  BY <1>7, <1>8
<1>. QED BY <1>2, <1>6, <1>9 DEF lines, e

(* The fields of a text are some of its fields, and so are those before    *)
(* the separator.                                                          *)
LEMMA MetaTyped ==
  ASSUME NEW A, N!NoId \in A, NEW t \in Seq(A), t # <<>>
  PROVE  /\ N!Rest(t) \in Seq(A) /\ N!Rest(t) # <<>>
         /\ N!FieldsOf(t) \in Seq(A)
         /\ N!Separators(t) # {} => N!Meta(t) \in Seq(A)
<1>1. Len(t) \in Nat /\ Len(t) >= 1 BY EmptySeq
<1>2. ASSUME NEW u \in Seq(A) PROVE N!FieldsOf(u) \in Seq(A)
  <2>. DEFINE these == N!Range(u) \ {""}
  <2>1. N!FieldsOf(u) = N!Among(these, u) BY Zenon DEF N!FieldsOf
  <2>. HIDE DEF these
  <2>2. N!Among(these, u) \in Seq(A \cap these) BY ONLY u \in Seq(A), AmongIs
  <2>3. Seq(A \cap these) \subseteq Seq(A) BY ONLY TRUE
  <2>. QED BY ONLY <2>1, <2>2, <2>3
<1>3. N!Rest(t) \in Seq(A) /\ N!Rest(t) # <<>>
  <2>1. CASE Len(t) = 1
    <3>1. N!NoText = <<N!NoId>> BY Zenon DEF N!NoText, N!NoId
    <3>2. <<N!NoId>> \in Seq(A) /\ <<N!NoId>> # <<>> BY ONLY N!NoId \in A
    <3>3. N!Rest(t) = N!NoText BY ONLY <2>1, Zenon DEF N!Rest
    <3>. QED BY ONLY <3>1, <3>2, <3>3
  <2>2. CASE Len(t) # 1
    <3>1. Tail(t) \in Seq(A) /\ Len(Tail(t)) = Len(t) - 1
      BY ONLY t \in Seq(A), t # <<>>, HeadTailProperties
    <3>2. Tail(t) # <<>>
      <4>1. Len(Tail(t)) # 0 BY ONLY <1>1, <2>2, <3>1
      <4>. QED BY ONLY <4>1, EmptySeq
    <3>3. N!Rest(t) = Tail(t) BY ONLY <2>2, Zenon DEF N!Rest
    <3>. QED BY ONLY <3>1, <3>2, <3>3
  <2>. QED BY <2>1, <2>2, Zenon
<1>4. ASSUME N!Separators(t) # {} PROVE N!Meta(t) \in Seq(A)
  <2>. DEFINE n == N!separator(t)
              u == SubSeq(t, 1, n - 1)
  <2>1. n \in N!Separators(t)
    <3>1. N!Separators(t) \subseteq Nat BY ONLY <1>1 DEF N!Separators
    <3>2. \E i \in N!Separators(t) : \A j \in N!Separators(t) : i <= j
      BY ONLY <1>4, <3>1, NatMin
    <3>. QED BY <3>2, Zenon DEF N!separator
  <2>2. n \in 2..(Len(t) - 1)
    <3>. HIDE DEF n
    <3>. QED BY ONLY <2>1, Zenon DEF N!Separators
  <2>3. N!Meta(t) = N!FieldsOf(u) BY Zenon DEF N!Meta
  <2>. HIDE DEF n
  <2>4. u \in Seq(A)
    <3>1. 1 \in Int /\ n - 1 \in Int /\ \A i \in 1..(n - 1) : t[i] \in A
      BY ONLY <1>1, <2>2, t \in Seq(A)
    <3>. QED BY ONLY <3>1, t \in Seq(A), SubSeqProperties
  <2>. HIDE DEF u
  <2>. QED BY <1>2, <2>3, <2>4, Zenon
<1>. QED BY <1>2, <1>3, <1>4, Zenon

(* The last field of some kind is of that kind.                            *)
LEMMA LastTyped ==
  ASSUME NEW A, NEW ids, NEW m \in Seq(A)
  PROVE  LastIn(ids, m) \in ids \union {N!NoId}
<1>. DEFINE w == N!Among(ids, m)
<1>1. w \in Seq(A \cap ids) BY AmongIs
<1>. HIDE DEF w
<1>2. CASE w = <<>> BY <1>2 DEF LastIn, w
<1>3. CASE w # <<>>
  <2>1. Len(w) \in 1..Len(w) BY <1>1, <1>3, EmptySeq
  <2>2. w[Len(w)] \in ids BY <1>1, <2>1
  <2>3. LastIn(ids, m) = w[Len(w)] BY <1>3, Zenon DEF LastIn, w, N!Last
  <2>. QED BY <2>2, <2>3
<1>. QED BY <1>2, <1>3

(* Only identifiers are in an event, and it is a session that is attached. *)
Honest(e) == OnlyIds(e) /\ (e.is = "SessionChanged" => e.of \in Sessions)

KindRanges ==
  /\ Range(N!OfPane) = PaneKinds /\ Range(N!OfWindow) = WindowKinds
  /\ Range(N!OfName) = NameKinds /\ Range(N!OfText) = TextKinds

(* Of an event with no identifier.                                         *)
LEMMA PlainHonest ==
  /\ Honest(N!Failed) /\ Honest([is |-> "SessionsChanged"])
  /\ \A t : \A k \in NameKinds \union TextKinds : Honest([is |-> k, text |-> t])
<1>1. KindRanges BY KindsOfNames, SameOperators DEF KindRanges
<1>2. Honest(N!Failed) BY DEF Honest, OnlyIds, N!Failed
<1>3. Honest([is |-> "SessionsChanged"]) BY DEF Honest, OnlyIds
<1>4. ASSUME NEW k \in NameKinds \union TextKinds, NEW t
      PROVE  Honest([is |-> k, text |-> t])
  BY DEF Honest, OnlyIds, NameKinds, TextKinds
<1>. QED BY <1>2, <1>3, <1>4

(* Of an event of a pane.                                                  *)
LEMMA PaneHonest ==
  /\ \A d, x, g : Honest([is |-> "PaneOutput", pane |-> "%1", data |-> d, extended |-> x, age |-> g])
  /\ \A k \in PaneKinds : Honest([is |-> k, of |-> "%1"])
<1>1. KindRanges BY KindsOfNames, SameOperators DEF KindRanges
<1>2. ASSUME NEW d, NEW x, NEW g
      PROVE  Honest([is |-> "PaneOutput", pane |-> "%1", data |-> d, extended |-> x, age |-> g])
  BY DEF Honest, OnlyIds
<1>3. ASSUME NEW k \in PaneKinds PROVE Honest([is |-> k, of |-> "%1"])
  BY <1>1 DEF Honest, OnlyIds, KindRanges, PaneKinds, WindowKinds
<1>. QED BY <1>2, <1>3

(* Of an event of a window.                                                *)
LEMMA WindowHonest ==
  /\ \A k \in WindowKinds : Honest([is |-> k, of |-> "@1"])
  /\ \A n : Honest([is |-> "WindowRenamed", of |-> "@1", name |-> n])
  /\ Honest([is |-> "WindowPaneChanged", of |-> "@1", now |-> "%1"])
  /\ \A y, v, g : Honest([is |-> "LayoutChanged", window |-> "@1", layout |-> y, visible |-> v, flags |-> g])
<1>1. KindRanges BY KindsOfNames, SameOperators DEF KindRanges
<1>2. ASSUME NEW k \in WindowKinds PROVE Honest([is |-> k, of |-> "@1"])
  BY <1>1 DEF Honest, OnlyIds, KindRanges, WindowKinds, PaneKinds
<1>3. ASSUME NEW n PROVE Honest([is |-> "WindowRenamed", of |-> "@1", name |-> n])
  BY <1>1 DEF Honest, OnlyIds, KindRanges, WindowKinds, PaneKinds
<1>4. Honest([is |-> "WindowPaneChanged", of |-> "@1", now |-> "%1"])
  BY <1>1 DEF Honest, OnlyIds, KindRanges, WindowKinds, PaneKinds
<1>5. ASSUME NEW y, NEW v, NEW g
      PROVE  Honest([is |-> "LayoutChanged", window |-> "@1", layout |-> y, visible |-> v, flags |-> g])
  BY DEF Honest, OnlyIds
<1>. QED BY <1>2, <1>3, <1>4, <1>5

(* Of an event of a session.                                               *)
LEMMA SessionHonest ==
  /\ \A n : \A s \in Sessions : Honest([is |-> "SessionChanged", of |-> s, name |-> n])
  /\ \A n : \A s \in Sessions \union {""} : Honest([is |-> "SessionRenamed", of |-> s, name |-> n])
  /\ \A s \in Sessions : Honest([is |-> "SessionWindowChanged", of |-> s, now |-> "@1"])
  /\ \A c, n : \A s \in Sessions :
       Honest([is |-> "ClientSessionChanged", client |-> c, of |-> s, name |-> n])
  /\ \A x, i, v : \A s \in Sessions \union {""}, w \in {"@1", ""}, p \in {"%1", ""} :
       Honest(N!Subscription(x, s, w, p, i, v))
<1>1. KindRanges BY KindsOfNames, SameOperators DEF KindRanges
<1>2. ASSUME NEW s \in Sessions, NEW n PROVE Honest([is |-> "SessionChanged", of |-> s, name |-> n])
  BY <1>1 DEF Honest, OnlyIds, KindRanges, WindowKinds, PaneKinds
<1>3. ASSUME NEW s \in Sessions \union {""}, NEW n
      PROVE  Honest([is |-> "SessionRenamed", of |-> s, name |-> n])
  BY <1>1 DEF Honest, OnlyIds, KindRanges, WindowKinds, PaneKinds
<1>4. ASSUME NEW s \in Sessions
      PROVE  Honest([is |-> "SessionWindowChanged", of |-> s, now |-> "@1"])
  BY <1>1 DEF Honest, OnlyIds, KindRanges, WindowKinds, PaneKinds
<1>5. ASSUME NEW c, NEW s \in Sessions, NEW n
      PROVE  Honest([is |-> "ClientSessionChanged", client |-> c, of |-> s, name |-> n])
  BY <1>1 DEF Honest, OnlyIds, KindRanges, WindowKinds, PaneKinds
<1>6. ASSUME NEW x, NEW s \in Sessions \union {""}, NEW w \in {"@1", ""}, NEW p \in {"%1", ""},
             NEW i, NEW v
      PROVE  Honest(N!Subscription(x, s, w, p, i, v))
  BY DEF Honest, OnlyIds, N!Subscription
<1>. QED BY <1>2, <1>3, <1>4, <1>5, <1>6

(* A pane's output is a known pane's, however it is told.                  *)
LEMMA OutputOnly ==
  ASSUME NEW w
  PROVE  Honest(N!ParseOutput(w)) /\ Honest(N!ParseExtendedOutput(w))
<1>1. \A d, x, g : Honest(N!PaneOutput("%1", d, x, g))
  BY PaneHonest, Zenon DEF N!PaneOutput
<1>2. Honest(N!Failed) BY PlainHonest
<1>3. Honest(N!ParseOutput(w))
  <2>1. CASE w[1] = "%1"
    <3>1. N!ParseOutput(w) = N!PaneOutput("%1", N!Rest(w), FALSE, "0")
      BY <2>1 DEF N!ParseOutput
    <3>. QED BY <1>1, <2>1, <3>1, Zenon
  <2>2. CASE w[1] # "%1"
    <3>1. N!ParseOutput(w) = N!Failed BY <2>2 DEF N!ParseOutput
    <3>. QED BY <1>2, <3>1, Zenon
  <2>. QED BY <2>1, <2>2
<1>4. Honest(N!ParseExtendedOutput(w))
  <2>. DEFINE e == N!ParseExtendedOutput(w)
              r == N!Rest(w)
  <2>1. \/ e = N!Failed
        \/ e = N!PaneOutput("%1", N!Value(r), TRUE, N!Meta(r)[1])
        \/ e = N!PaneOutput("%1", Tail(r), TRUE, r[1])
    BY DEF N!ParseExtendedOutput
  <2>. HIDE DEF e
  <2>2. Honest(e) BY <1>1, <1>2, <2>1, Zenon
  <2>. QED BY <2>2 DEF e
<1>. QED BY <1>3, <1>4

(* Two identifiers are of the kinds they must be.                          *)
LEMMA TwoOnly ==
  ASSUME NEW w
  PROVE  /\ Honest(N!ParseTwo("SessionWindowChanged", w, Sessions, {"@1"}))
         /\ Honest(N!ParseTwo("WindowPaneChanged", w, {"@1"}, {"%1"}))
         /\ Honest(N!ParseLayoutChange(w))
<1>. DEFINE f == N!FieldsOf(w)
<1>1. Honest(N!Failed) BY PlainHonest
<1>2. Honest(N!ParseTwo("SessionWindowChanged", w, Sessions, {"@1"}))
  <2>1. \/ N!ParseTwo("SessionWindowChanged", w, Sessions, {"@1"}) = N!Failed
        \/ /\ f[1] \in Sessions /\ f[2] = "@1"
           /\ N!ParseTwo("SessionWindowChanged", w, Sessions, {"@1"}) =
                [is |-> "SessionWindowChanged", of |-> f[1], now |-> f[2]]
    BY DEF N!ParseTwo
  <2>. HIDE DEF f
  <2>2. \A s \in Sessions : Honest([is |-> "SessionWindowChanged", of |-> s, now |-> "@1"])
    BY SessionHonest
  <2>. QED BY <1>1, <2>1, <2>2, Zenon
<1>3. Honest(N!ParseTwo("WindowPaneChanged", w, {"@1"}, {"%1"}))
  <2>1. \/ N!ParseTwo("WindowPaneChanged", w, {"@1"}, {"%1"}) = N!Failed
        \/ /\ f[1] = "@1" /\ f[2] = "%1"
           /\ N!ParseTwo("WindowPaneChanged", w, {"@1"}, {"%1"}) =
                [is |-> "WindowPaneChanged", of |-> f[1], now |-> f[2]]
    BY DEF N!ParseTwo
  <2>. HIDE DEF f
  <2>2. Honest([is |-> "WindowPaneChanged", of |-> "@1", now |-> "%1"]) BY WindowHonest
  <2>. QED BY <1>1, <2>1, <2>2, Zenon
<1>4. Honest(N!ParseLayoutChange(w))
  <2>. DEFINE Nth(i) == IF Len(f) >= i THEN f[i] ELSE ""
  <2>1. \/ N!ParseLayoutChange(w) = N!Failed
        \/ /\ f[1] = "@1"
           /\ N!ParseLayoutChange(w) =
                [is |-> "LayoutChanged", window |-> f[1], layout |-> f[2],
                 visible |-> Nth(3), flags |-> Nth(4)]
    BY DEF N!ParseLayoutChange
  <2>. HIDE DEF f, Nth
  <2>2. \A y, v, g :
          Honest([is |-> "LayoutChanged", window |-> "@1", layout |-> y, visible |-> v, flags |-> g])
    BY WindowHonest
  <2>. QED BY <1>1, <2>1, <2>2, Zenon
<1>. QED BY <1>2, <1>3, <1>4

(* A subscription is to what its sigils say.                               *)
LEMMA SubscriptionOnly ==
  ASSUME NEW A, N!NoId \in A, NEW w \in Seq(A), w # <<>>
  PROVE  Honest(N!ParseSubscriptionChanged(w))
<1>. DEFINE r == N!Rest(w)
            m == N!Meta(r)
            e == N!ParseSubscriptionChanged(w)
<1>1. e = IF w[1] = "" THEN N!Failed
          ELSE IF N!Separators(r) = {} THEN N!Subscription(w[1], N!NoId, N!NoId, N!NoId, "-1", r)
          ELSE N!Subscription(w[1], LastIn(Sessions, m), LastIn({"@1"}, m), LastIn({"%1"}, m),
                              FirstIn({"7"}, m), N!Value(r))
  BY Zenon DEF N!ParseSubscriptionChanged, LastIn, FirstIn, Sessions
<1>2. r \in Seq(A) /\ r # <<>> BY ONLY N!NoId \in A, w \in Seq(A), w # <<>>, MetaTyped
<1>. HIDE DEF r
<1>3. N!Separators(r) # {} => m \in Seq(A) BY ONLY <1>2, N!NoId \in A, MetaTyped
<1>. HIDE DEF m
<1>4. ASSUME N!Separators(r) # {}
      PROVE  /\ LastIn(Sessions, m) \in Sessions \union {N!NoId}
             /\ LastIn({"@1"}, m) \in {"@1"} \union {N!NoId}
             /\ LastIn({"%1"}, m) \in {"%1"} \union {N!NoId}
  BY <1>3, <1>4, LastTyped
<1>. HIDE DEF e
<1>5. \A x, i, v : \A s \in Sessions \union {N!NoId}, y \in {"@1"} \union {N!NoId},
                      p \in {"%1"} \union {N!NoId} : Honest(N!Subscription(x, s, y, p, i, v))
  BY SessionHonest DEF N!NoId
<1>6. CASE w[1] = "" BY <1>1, <1>6, PlainHonest, Zenon DEF e
<1>7. CASE w[1] # "" /\ N!Separators(r) = {}
  <2>1. e = N!Subscription(w[1], N!NoId, N!NoId, N!NoId, "-1", r) BY <1>1, <1>7, Zenon
  <2>. QED BY <1>5, <2>1 DEF e
<1>8. CASE w[1] # "" /\ N!Separators(r) # {}
  <2>1. e = N!Subscription(w[1], LastIn(Sessions, m), LastIn({"@1"}, m), LastIn({"%1"}, m),
                           FirstIn({"7"}, m), N!Value(r))
    BY <1>1, <1>8, Zenon
  <2>2. Honest(e) BY <1>4, <1>5, <1>8, <2>1, Zenon
  <2>. QED BY <2>2 DEF e
<1>. QED BY <1>6, <1>7, <1>8

(* Of a line with any name and any arguments.                              *)
LEMMA NoiseHonest ==
  ASSUME NEW A, N!NoId \in A, NEW n \in N!Names, NEW w \in Seq(A), w # <<>>
  PROVE  Honest(N!EventOf(N!NoId, n, w))
<1>. DEFINE e == N!EventOf(N!NoId, n, w)
            t == N!TrimSpace(w)
<1>a. Len(w) \in Nat /\ Len(w) >= 1
  <2>. HIDE DEF e, t
  <2>. QED BY ONLY w \in Seq(A), w # <<>>, EmptySeq
<1>0. Honest(N!Failed) BY PlainHonest
<1>1. CASE n = "output" BY <1>1, OutputOnly, EventFor, Zenon
<1>2. CASE n = "extended-output" BY <1>2, OutputOnly, EventFor, Zenon
<1>3. CASE n \in PaneNames
  <2>1. e = IF t[1] \in {"%1"} /\ Len(t) = 1 THEN [is |-> N!OfPane[n], of |-> t[1]] ELSE N!Failed
    BY <1>3, EventFor, Zenon
  <2>2. N!OfPane[n] \in PaneKinds
    <3>1. n \in DOMAIN N!OfPane BY <1>3, KindsOfNames
    <3>2. N!OfPane[n] \in N!Range(N!OfPane) BY <3>1 DEF N!Range
    <3>. QED BY <3>2, KindsOfNames
  <2>. HIDE DEF e, t
  <2>3. e = N!Failed \/ e = [is |-> N!OfPane[n], of |-> "%1"] BY <2>1
  <2>4. Honest([is |-> N!OfPane[n], of |-> "%1"]) BY <2>2, PaneHonest
  <2>5. Honest(e) BY <1>0, <2>3, <2>4, Zenon
  <2>. QED BY <2>5 DEF e
<1>4. CASE n \in WindowNames
  <2>1. e = IF t[1] \in {"@1"} /\ Len(t) = 1 THEN [is |-> N!OfWindow[n], of |-> t[1]] ELSE N!Failed
    BY <1>4, EventFor, Zenon
  <2>2. N!OfWindow[n] \in WindowKinds
    <3>1. n \in DOMAIN N!OfWindow BY <1>4, KindsOfNames
    <3>2. N!OfWindow[n] \in N!Range(N!OfWindow) BY <3>1 DEF N!Range
    <3>. QED BY <3>2, KindsOfNames
  <2>. HIDE DEF e, t
  <2>3. e = N!Failed \/ e = [is |-> N!OfWindow[n], of |-> "@1"] BY <2>1
  <2>4. Honest([is |-> N!OfWindow[n], of |-> "@1"]) BY <2>2, WindowHonest
  <2>5. Honest(e) BY <1>0, <2>3, <2>4, Zenon
  <2>. QED BY <2>5 DEF e
<1>5. CASE n = "sessions-changed" BY <1>5, PlainHonest, EventFor, Zenon
<1>6. CASE n = "session-changed"
  <2>1. e = IF w[1] \in Sessions THEN N!Named("SessionChanged", w[1], N!Rest(w)) ELSE N!Failed
    BY <1>6, EventFor, Zenon
  <2>2. \A x : \A s \in Sessions : Honest(N!Named("SessionChanged", s, x))
    BY SessionHonest, Zenon DEF N!Named
  <2>. HIDE DEF e
  <2>3. Honest(e) BY <1>0, <2>1, <2>2
  <2>. QED BY <2>3 DEF e
<1>7. CASE n = "session-renamed"
  <2>1. e = IF w[1] \in Sessions THEN N!Named("SessionRenamed", w[1], N!Rest(w))
            ELSE N!Named("SessionRenamed", N!NoId, t)
    BY <1>7, EventFor, Zenon
  <2>2. \A x : \A s \in Sessions \union {N!NoId} : Honest(N!Named("SessionRenamed", s, x))
    BY SessionHonest, Zenon DEF N!Named, N!NoId
  <2>. HIDE DEF e, t
  <2>3. Honest(e) BY <2>1, <2>2
  <2>. QED BY <2>3 DEF e
<1>8. CASE n \in N!Renames
  <2>1. e = IF w[1] \in {"@1"} THEN N!Named("WindowRenamed", w[1], N!Rest(w)) ELSE N!Failed
    BY <1>8, EventFor, Zenon
  <2>2. \A x : Honest(N!Named("WindowRenamed", "@1", x)) BY WindowHonest, Zenon DEF N!Named
  <2>. HIDE DEF e
  <2>3. e = N!Failed \/ e = N!Named("WindowRenamed", "@1", N!Rest(w)) BY <2>1
  <2>4. Honest(e) BY <1>0, <2>2, <2>3, Zenon
  <2>. QED BY <2>4 DEF e
<1>9. CASE n \in {"session-window-changed", "window-pane-changed", "layout-change"}
  <2>1. /\ N!EventOf(N!NoId, "session-window-changed", w) =
             N!ParseTwo("SessionWindowChanged", w, Sessions, {"@1"})
        /\ N!EventOf(N!NoId, "window-pane-changed", w) =
             N!ParseTwo("WindowPaneChanged", w, {"@1"}, {"%1"})
        /\ N!EventOf(N!NoId, "layout-change", w) = N!ParseLayoutChange(w)
    BY EventForOther
  <2>2. /\ Honest(N!EventOf(N!NoId, "session-window-changed", w))
        /\ Honest(N!EventOf(N!NoId, "window-pane-changed", w))
        /\ Honest(N!EventOf(N!NoId, "layout-change", w))
    BY <2>1, TwoOnly, Zenon
  <2>. QED BY <1>9, <2>2
<1>10. CASE n = "subscription-changed"
  <2>1. Honest(N!ParseSubscriptionChanged(w))
    BY ONLY N!NoId \in A, w \in Seq(A), w # <<>>, SubscriptionOnly
  <2>. QED BY <1>10, <2>1, EventForOther, Zenon
<1>11. CASE n = "client-session-changed"
  <2>. DEFINE x == N!visDecode(N!Rest(Tail(w)))
              r == N!Rest(w)
  <2>1. e = IF w[1] # "" /\ r[1] \in Sessions
            THEN [is |-> "ClientSessionChanged", client |-> w[1], of |-> w[2], name |-> x]
            ELSE N!Failed
    <3>1. N!EventOf(N!NoId, "client-session-changed", w) =
            IF w[1] # "" /\ N!Rest(w)[1] \in Sessions
            THEN [is |-> "ClientSessionChanged", client |-> w[1], of |-> w[2],
                  name |-> N!visDecode(N!Rest(Tail(w)))]
            ELSE N!Failed
      BY ClientRead, Zenon
    <3>. QED BY <1>11, <3>1, Zenon
  <2>2. r[1] \in Sessions => w[2] = r[1]
    <3>1. CASE Len(w) = 1
      <4>1. r = N!NoText BY <3>1, Zenon DEF N!Rest
      <4>2. N!NoText = <<N!NoId>> BY Zenon DEF N!NoText, N!NoId
      <4>3. <<N!NoId>>[1] = N!NoId BY ONLY TRUE
      <4>4. r[1] = N!NoId BY <4>1, <4>2, <4>3, Zenon
      <4>5. N!NoId \notin Sessions BY ONLY TRUE DEF Sessions, N!NoId
      <4>. QED BY <4>4, <4>5, Zenon
    <3>2. CASE Len(w) # 1
      <4>1. r = Tail(w) BY <3>2, Zenon DEF N!Rest
      <4>2. Len(w) \in Nat /\ Len(w) > 1 BY ONLY <3>2, <1>a
      <4>3. Tail(w)[1] = w[2] BY ONLY <4>2, w \in Seq(A)
      <4>. QED BY <4>1, <4>3, Zenon
    <3>. QED BY <3>1, <3>2
  <2>3. \A c, y : \A s \in Sessions :
          Honest([is |-> "ClientSessionChanged", client |-> c, of |-> s, name |-> y])
    BY SessionHonest
  <2>. HIDE DEF e, x, r
  <2>4. Honest(e)
    <3>1. CASE w[1] # "" /\ r[1] \in Sessions
      <4>1. e = [is |-> "ClientSessionChanged", client |-> w[1], of |-> r[1], name |-> x]
        BY <2>1, <2>2, <3>1, Zenon
      <4>. QED BY <2>3, <3>1, <4>1, Zenon
    <3>2. CASE ~(w[1] # "" /\ r[1] \in Sessions)
      <4>1. e = N!Failed BY <2>1, <3>2, Zenon
      <4>. QED BY <1>0, <4>1, Zenon
    <3>. QED BY <3>1, <3>2, Zenon
  <2>. QED BY <2>4 DEF e
<1>12. CASE n \in NameNames
  <2>1. e = [is |-> N!OfName[n], text |-> t]
    BY <1>12, WholeNameRead, Zenon
  <2>2. n \in DOMAIN N!OfName BY <1>12, KindsOfNames
  <2>3. N!OfName[n] \in N!Range(N!OfName) BY <2>2 DEF N!Range
  <2>4. N!OfName[n] \in NameKinds \union TextKinds BY <2>3, KindsOfNames
  <2>. HIDE DEF e, t
  <2>5. Honest(e) BY <2>1, <2>4, PlainHonest
  <2>. QED BY <2>5 DEF e
<1>13. CASE n \in TextNames
  <2>1. e = [is |-> N!OfText[n], text |-> w] BY <1>13, TextRead, Zenon
  <2>2. n \in DOMAIN N!OfText BY <1>13, KindsOfNames
  <2>3. N!OfText[n] \in N!Range(N!OfText) BY <2>2 DEF N!Range
  <2>4. N!OfText[n] \in NameKinds \union TextKinds BY <2>3, KindsOfNames
  <2>. HIDE DEF e
  <2>5. Honest(e) BY <2>1, <2>4, PlainHonest
  <2>. QED BY <2>5 DEF e
<1>14. \/ n \in {"output", "extended-output", "sessions-changed", "session-changed",
                 "session-renamed", "session-window-changed", "window-pane-changed",
                 "layout-change", "subscription-changed", "client-session-changed"}
       \/ n \in PaneNames \/ n \in WindowNames \/ n \in N!Renames
       \/ n \in NameNames \/ n \in TextNames
  BY KindsOfNames DEF N!Names
<1>. QED
  BY <1>1, <1>2, <1>3, <1>4, <1>5, <1>6, <1>7, <1>8, <1>9, <1>10, <1>11, <1>12, <1>13, <1>14

(* Whatever a line says, nothing but an identifier is taken for one.       *)
LEMMA NoiseHeard ==
  ASSUME NEW A, N!NoId \in A, NEW line, line.name \in N!Names, line.args \in Seq(A),
         line.args # <<>>
  PROVE  /\ N!Read(<<line>>).attached \in Sessions \union {""}
         /\ OnlyIds(N!Read(<<line>>).events[1])
<1>. DEFINE e == Heard(N!NoId, line)
<1>1. e = N!EventOf(N!NoId, line.name, line.args) BY Zenon DEF Heard
<1>2. Honest(e) BY <1>1, NoiseHonest
<1>. HIDE DEF e
<1>3. OnlyIds(e) /\ (e.is = "SessionChanged" => e.of \in Sessions) BY <1>2, Zenon DEF Honest
<1>4. /\ N!Read(<<line>>).events[1] = e
      /\ N!Read(<<line>>).attached = IF e.is = "SessionChanged" THEN e.of ELSE N!NoId
  BY OneLineRead DEF e
<1>5. OnlyIds(N!Read(<<line>>).events[1]) BY <1>3, <1>4, Zenon
<1>6. N!Read(<<line>>).attached \in Sessions \union {""}
  <2>1. CASE e.is = "SessionChanged"
    <3>1. N!Read(<<line>>).attached = e.of BY <1>4, <2>1, Zenon
    <3>. QED BY <1>3, <2>1, <3>1
  <2>2. CASE e.is # "SessionChanged"
    <3>1. N!Read(<<line>>).attached = N!NoId BY <1>4, <2>2, Zenon
    <3>. QED BY <3>1 DEF N!NoId
  <2>. QED BY <2>1, <2>2, Zenon
<1>. QED BY <1>5, <1>6

(* The texts that are told hold none of the escapes tmux writes.           *)
TextFields == {"", "a", ":", "7", "$0", "@1", "\\t"}

(* And the empty field is one.                                             *)
LEMMA FieldsPlain == Plainly(TextFields) /\ N!NoId \in TextFields
BY DEF TextFields, Plainly, EscapedFields, N!NoId

(* They are texts of such fields.                                          *)
LEMMA TextsAreTexts == Texts \subseteq Text(TextFields) /\ Trimmed(Texts) \subseteq Trimmed(Text(TextFields))
<1>1. ASSUME NEW t \in Texts PROVE t \in Text(TextFields)
  <2>1. PICK n \in 1..3 : t \in [1..n -> TextFields]
    <3>1. Texts = UNION {[1..n -> TextFields] : n \in 1..3} BY Zenon DEF Texts, TextFields
    <3>. QED BY <3>1, Zenon
  <2>2. t \in Seq(TextFields) /\ Len(t) = n BY <2>1
  <2>3. t # <<>> BY <2>2
  <2>. QED BY <2>2, <2>3 DEF Text
<1>2. Trimmed(Texts) \subseteq Trimmed(Text(TextFields)) BY <1>1 DEF Trimmed
<1>. QED BY <1>1, <1>2

(* One of them is short.                                                   *)
LEMMA ShortTexts == <<"a">> \in Texts
<1>. DEFINE A == {"", "a", ":", "7", "$0", "@1", "\\t"}
            x == "a"
<1>1. Texts = UNION {[1..n -> A] : n \in 1..3} BY Zenon DEF Texts
<1>2. x \in A OBVIOUS
<1>. HIDE DEF A, x
<1>3. <<x>> \in [1..1 -> A] /\ 1 \in 1..3 BY ONLY <1>2
<1>4. <<x>> \in Texts BY <1>1, <1>3
<1>. QED BY <1>4 DEF x

(* A change of session says to which.                                      *)
LEMMA ChangesSay ==
  ASSUME NEW texts, NEW e \in ToldWith(texts), e.is = "SessionChanged"
  PROVE  e.of \in {"$0", "$1"}
<1>1. KindRanges BY KindsOfNames, SameOperators DEF KindRanges
<1>. QED
  BY <1>1 DEF ToldWith, SessionEvents, KindRanges, PaneKinds, WindowKinds, NameKinds, TextKinds

(* What may be told with fewer texts may be told with more.                *)
LEMMA ToldGrows ==
  ASSUME NEW S, NEW T, S \subseteq T, Trimmed(S) \subseteq Trimmed(T)
  PROVE  ToldWith(S) \subseteq ToldWith(T)
<1>. DEFINE A(x) == [is : {"SessionChanged", "SessionRenamed"}, of : {"$0", "$1"}, name : x]
            B(x) == [is : {"PaneOutput"}, pane : {"%1"}, data : x, extended : {FALSE}, age : {"0"}]
            D(x) == [is : {"PaneOutput"}, pane : {"%1"}, data : x, extended : {TRUE}, age : {"7"}]
            E(x) == [is : {"WindowRenamed"}, of : {"@1"}, name : x]
            G(x) == [is : {"SubscriptionChanged"}, name : {"a"}, session : {"$0"}, window : {"", "@1"},
                     pane : {"", "%1"}, index : {"-1", "7"}, value : x]
            H(x) == [is : {"ClientSessionChanged"}, client : {"a"}, of : {"$0"}, name : x]
            I(x) == [is : Range(N!OfName), text : Trimmed(x)]
            J(x) == [is : Range(N!OfText), text : x]
            K(x) == [is : {"UnknownNotification"}, name : {"a"}, text : x]
            k1 == [is : Range(N!OfPane), of : {"%1"}]
            k2 == [is : Range(N!OfWindow), of : {"@1"}]
            k3 == [is : {"SessionsChanged"}]
            k4 == [is : {"SessionWindowChanged"}, of : {"$0"}, now : {"@1"}]
            k5 == [is : {"WindowPaneChanged"}, of : {"@1"}, now : {"%1"}]
            k6 == [is : {"LayoutChanged"}, window : {"@1"}, layout : {"a"}, visible : {"a"},
                   flags : {"", "7"}]
<1>1. ASSUME NEW x
      PROVE  ToldWith(x) =
               A(x) \union B(x) \union D(x) \union k1 \union k2 \union k3 \union E(x) \union k4
                 \union k5 \union k6 \union G(x) \union H(x) \union I(x) \union J(x) \union K(x)
  BY Zenon DEF ToldWith, SessionEvents
<1>2. /\ A(S) \subseteq A(T) /\ B(S) \subseteq B(T) /\ D(S) \subseteq D(T) /\ E(S) \subseteq E(T)
  OBVIOUS
<1>3. G(S) \subseteq G(T) OBVIOUS
<1>4. /\ H(S) \subseteq H(T) /\ I(S) \subseteq I(T) /\ J(S) \subseteq J(T) /\ K(S) \subseteq K(T)
  OBVIOUS
<1>. HIDE DEF A, B, D, E, G, H, I, J, K, k1, k2, k3, k4, k5, k6
<1>. QED BY <1>1, <1>2, <1>3, <1>4

(* One more notification, of what is told as it is or of the attached      *)
(* session in the older form.                                              *)
LEMMA TellsMore ==
  ASSUME NEW F, NEW told, NEW lines, ToldIn(F, told, lines),
         NEW e \in ToldWith(Text(F)), NEW older \in BOOLEAN, NEW line \in N!Written(e, older),
         older => \E name \in Trimmed(Text(F)) : \E i \in 1..Len(told) :
                    /\ Attaches(told, i)
                    /\ e = [is |-> "SessionRenamed", of |-> told[i].of, name |-> name]
  PROVE  ToldIn(F, Append(told, e), Append(lines, line))
<1>. DEFINE S == ToldWith(Text(F))
            M == LinesOf(F)
            L == Len(told)
            t == Append(told, e)
            l == Append(lines, line)
<1>1. told \in Seq(S) /\ lines \in Seq(M) /\ Len(lines) = L /\ L \in Nat BY DEF ToldIn
<1>2. \A i \in 1..L : WrittenAs(F, told, lines, i) BY DEF ToldIn
<1>3. line \in M BY DEF LinesOf
<1>4. e \in S OBVIOUS
<1>. HIDE DEF S, M
<1>5. /\ t \in Seq(S) /\ Len(t) = L + 1 /\ t[L + 1] = e /\ \A i \in 1..L : t[i] = told[i]
      /\ l \in Seq(M) /\ Len(l) = L + 1 /\ l[L + 1] = line /\ \A i \in 1..L : l[i] = lines[i]
  BY ONLY <1>1, <1>3, <1>4, AppendProperties
<1>. HIDE DEF t, l, L
<1>6. ASSUME NEW n \in 0..L PROVE Changes(t, n) = Changes(told, n)
  <2>1. \A j \in 1..n : t[j] = told[j] BY <1>1, <1>5
  <2>2. \A i \in 1..n : \A j \in (i + 1)..n : j \in 1..n BY <1>1
  <2>3. \A i \in 1..n : LastChange(t, n, i) <=> LastChange(told, n, i)
    BY <2>1, <2>2 DEF LastChange
  <2>. QED BY <2>3 DEF Changes
<1>7. ASSUME NEW i \in 1..L PROVE WrittenAs(F, t, l, i)
  <2>1. i - 1 \in 0..L /\ \A j \in 1..(i - 1) : j \in 1..L BY <1>1
  <2>2. Changes(t, i - 1) = Changes(told, i - 1) BY <1>6, <2>1
  <2>3. \A j \in Changes(told, i - 1) : t[j] = told[j] BY <1>5, <2>1 DEF Changes
  <2>4. t[i] = told[i] /\ l[i] = lines[i] /\ WrittenAs(F, told, lines, i) BY <1>2, <1>5
  <2>. QED BY <2>2, <2>3, <2>4, Zenon DEF WrittenAs
<1>8. WrittenAs(F, t, l, L + 1)
  <2>1. CASE ~older
    <3>1. older = FALSE BY <2>1
    <3>2. l[L + 1] \in N!Written(t[L + 1], FALSE) BY <1>5, <3>1, Zenon
    <3>. QED BY <3>2, Zenon DEF WrittenAs
  <2>2. CASE older
    <3>1. older = TRUE BY <2>2
    <3>2. l[L + 1] \in N!Written(t[L + 1], TRUE) BY <1>5, <3>1, Zenon
    <3>3. PICK name \in Trimmed(Text(F)), i \in 1..L :
            /\ Attaches(told, i)
            /\ e = [is |-> "SessionRenamed", of |-> told[i].of, name |-> name]
      BY <2>2, Zenon DEF L
    <3>4. LastChange(told, L, i) BY <3>3, Zenon DEF Attaches, LastChange, L
    <3>5. i \in Changes(told, L) BY <3>4 DEF Changes
    <3>6. L \in 0..L /\ (L + 1) - 1 = L BY <1>1
    <3>7. i \in Changes(t, (L + 1) - 1) BY <1>6, <3>5, <3>6
    <3>8. t[i] = told[i] BY <1>5
    <3>9. t[L + 1] = [is |-> "SessionRenamed", of |-> t[i].of, name |-> name]
      BY <1>5, <3>3, <3>8, Zenon
    <3>. QED BY <3>2, <3>7, <3>9, Zenon DEF WrittenAs
  <2>. QED BY <2>1, <2>2
<1>9. \A i \in 1..(L + 1) : WrittenAs(F, t, l, i)
  <2>1. \A i \in 1..(L + 1) : i \in 1..L \/ i = L + 1 BY <1>1
  <2>. QED BY <1>7, <1>8, <2>1
<1>10. ToldIn(F, t, l) BY <1>5, <1>9, Zenon DEF ToldIn, S, M
<1>. QED BY <1>10 DEF t, l

-----------------------------------------------------------------------------
(***************************************************************************)
(* Releases of any numbers below a hundred, with any letters: the text of  *)
(* one is taken apart where it was put together, and the versions read are *)
(* in the order of their parts.                                            *)
(***************************************************************************)

Digit == 48..57
Letter == 97..122

(* A number is read as it was written.                                     *)
LEMMA NumeralRead ==
  ASSUME NEW n \in 0..99
  PROVE  Numeral(n) \in Seq(Digit) /\ Numeral(n) # <<>> /\ Atoi(Numeral(n)) = n
<1>1. CASE n < 10
  <2>. DEFINE s == <<48 + n>>
              H(f) == [i \in 0..Len(s) |-> IF i = 0 THEN 0 ELSE 10 * f[i - 1] + (s[i] - 48)]
              f == CHOOSE f : f = H(f)
              g == [i \in 0..1 |-> IF i = 0 THEN 0 ELSE n]
  <2>1. Numeral(n) = s /\ s \in Seq(Digit) /\ s # <<>> /\ Len(s) = 1 BY <1>1 DEF Numeral, Digit
  <2>2. Atoi(s) = f[Len(s)] BY DEF Atoi
  <2>3. s[1] = 48 + n OBVIOUS
  <2>. HIDE DEF s
  <2>4. g = H(g) BY <2>1, <2>3
  <2>5. f = H(f)
    <3>. HIDE DEF g
    <3>. QED BY <2>4, Zenon
  <2>6. f[0] = 0 /\ f[1] = 10 * f[0] + (s[1] - 48)
    <3>. HIDE DEF f
    <3>. QED BY <2>1, <2>5
  <2>. HIDE DEF f
  <2>. QED BY <2>1, <2>2, <2>3, <2>6
<1>2. CASE ~(n < 10)
  <2>. DEFINE s == <<48 + (n \div 10), 48 + (n % 10)>>
              H(f) == [i \in 0..Len(s) |-> IF i = 0 THEN 0 ELSE 10 * f[i - 1] + (s[i] - 48)]
              f == CHOOSE f : f = H(f)
              g == [i \in 0..2 |-> IF i = 0 THEN 0 ELSE IF i = 1 THEN n \div 10 ELSE n]
  <2>1. n \div 10 \in 0..9 /\ n % 10 \in 0..9 /\ 10 * (n \div 10) + (n % 10) = n BY <1>2
  <2>2. Numeral(n) = s /\ s \in Seq(Digit) /\ s # <<>> /\ Len(s) = 2 BY <1>2, <2>1 DEF Numeral, Digit
  <2>3. Atoi(s) = f[Len(s)] BY DEF Atoi
  <2>4. s[1] = 48 + (n \div 10) /\ s[2] = 48 + (n % 10) OBVIOUS
  <2>. HIDE DEF s
  <2>5. g = H(g) BY <2>1, <2>2, <2>4
  <2>6. f = H(f)
    <3>. HIDE DEF g
    <3>. QED BY <2>5, Zenon
  <2>7. f[0] = 0 /\ f[1] = 10 * f[0] + (s[1] - 48) /\ f[2] = 10 * f[1] + (s[2] - 48)
    <3>. HIDE DEF f
    <3>. QED BY <2>2, <2>6
  <2>. HIDE DEF f
  <2>. QED BY <2>1, <2>2, <2>3, <2>4, <2>7
<1>. QED BY <1>1, <1>2

(* Two parts, and three.                                                   *)
LEMMA ThreeJoined ==
  ASSUME NEW A, NEW a \in A, NEW b \in A, NEW c \in A
  PROVE  <<a>> \o <<b>> = <<a, b>> /\ <<a, b>> \o <<c>> = <<a, b, c>>
<1>1. /\ <<a>> \in Seq(A) /\ <<a, b>> \in Seq(A) /\ <<a, b, c>> \in Seq(A)
      /\ <<a, b, c, c>> \in Seq(A)
      /\ <<a>> = Append(<<>>, a) /\ <<a, b>> = Append(<<a>>, b)
      /\ <<a, b, c>> = Append(<<a, b>>, c) /\ <<a, b, c, c>> = Append(<<a, b, c>>, c)
  BY ONLY a \in A, b \in A, c \in A, FourAppended
<1>2. \A p \in Seq(A), x \in A : Append(p, x) = p \o <<x>>
  <2>1. ASSUME NEW p \in Seq(A), NEW x \in A PROVE Append(p, x) = p \o <<x>> BY AppendIsConcat
  <2>. QED BY <2>1
<1>. QED BY <1>1, <1>2, Zenon

(* A text without a space is the last field, with a word before it and a   *)
(* space after it or not.                                                  *)
LEMMA LastFieldIs ==
  ASSUME NEW t \in Seq(Code \ {SpaceByte}), t # <<>>
  PROVE  LastField(t) = t /\ LastField((<<116, SpaceByte>> \o t) \o <<SpaceByte>>) = t
<1>. DEFINE w == <<116>>
            p == (w \o <<SpaceByte>>) \o t
<1>1. /\ t \in Seq(Code) /\ w \in Seq(Code) /\ <<SpaceByte>> \in Seq(Code) /\ SpaceByte \in Code
      /\ <<>> \in Seq(Code)
  BY DEF Code, SpaceByte
<1>2. Split(t, SpaceByte) = <<t>>
  <2>1. \A i \in 1..Len(t) : t[i] # SpaceByte OBVIOUS
  <2>. QED BY <1>1, <2>1, SplitWhole
<1>3. Split(w, SpaceByte) = <<w>>
  <2>1. \A i \in 1..Len(w) : w[i] # SpaceByte BY DEF SpaceByte
  <2>. HIDE DEF w
  <2>. QED BY <1>1, <2>1, SplitWhole
<1>4. Split(<<>>, SpaceByte) = << <<>> >>
  <2>1. \A i \in 1..Len(<<>>) : <<>>[i] # SpaceByte OBVIOUS
  <2>. QED BY <1>1, <2>1, SplitWhole
<1>5. <<116, SpaceByte>> = w \o <<SpaceByte>> OBVIOUS
<1>6. p \in Seq(Code)
  <2>1. w \o <<SpaceByte>> \in Seq(Code) BY <1>1
  <2>. HIDE DEF w
  <2>. QED BY <1>1, <2>1, ConcatProperties
<1>7. Split(p, SpaceByte) = <<w, t>>
  <2>1. SplitsApart(w, t, SpaceByte)
    <3>. HIDE DEF w
    <3>. QED BY <1>1, SplitConcat
  <2>. HIDE DEF w
  <2>2. <<w>> \o <<t>> = <<w, t>>
    <3>. DEFINE A == Seq(Code)
    <3>1. w \in A /\ t \in A BY <1>1
    <3>. HIDE DEF A
    <3>. QED BY ONLY <3>1, ThreeJoined
  <2>. QED BY <1>2, <1>3, <2>1, <2>2 DEF SplitsApart
<1>8. Split(p \o <<SpaceByte>>, SpaceByte) = <<w, t, <<>> >>
  <2>. HIDE DEF p
  <2>1. SplitsApart(p, <<>>, SpaceByte) BY <1>1, <1>6, SplitConcat
  <2>2. (p \o <<SpaceByte>>) \o <<>> = p \o <<SpaceByte>>
    <3>1. p \o <<SpaceByte>> \in Seq(Code) BY <1>1, <1>6, ConcatProperties
    <3>. QED BY <3>1, ConcatEmptySeq
  <2>3. <<w, t>> \o << <<>> >> = <<w, t, <<>> >>
    <3>. DEFINE A == Seq(Code)
                e == <<>>
    <3>1. w \in A /\ t \in A /\ e \in A BY <1>1
    <3>. HIDE DEF w, A, e
    <3>2. <<w, t>> \o <<e>> = <<w, t, e>> BY ONLY <3>1, ThreeJoined
    <3>. QED BY <3>2 DEF e
  <2>. QED BY <1>4, <1>7, <2>1, <2>2, <2>3 DEF SplitsApart
<1>9. LastField(t) = t
  <2>. DEFINE full == {i \in 1..Len(<<t>>) : <<t>>[i] # <<>>}
              last == CHOOSE i \in full : \A j \in full : i >= j
  <2>1. LastField(t) = <<t>>[last] BY <1>2 DEF LastField
  <2>2. full = {1} OBVIOUS
  <2>3. last = 1
    <3>. HIDE DEF full
    <3>. QED BY <2>2
  <2>. QED BY <2>1, <2>3
<1>10. LastField(p \o <<SpaceByte>>) = t
  <2>. DEFINE parts == <<w, t, <<>> >>
              full == {i \in 1..Len(parts) : parts[i] # <<>>}
              last == CHOOSE i \in full : \A j \in full : i >= j
  <2>. HIDE DEF p
  <2>1. LastField(p \o <<SpaceByte>>) = parts[last] BY <1>8 DEF LastField
  <2>2. full = {1, 2}
    <3>1. w # <<>> OBVIOUS
    <3>. HIDE DEF w
    <3>2. Len(parts) = 3 /\ parts[1] = w /\ parts[2] = t /\ parts[3] = <<>> OBVIOUS
    <3>. HIDE DEF parts
    <3>3. \A i : i \in full <=> i \in {1, 2} BY <3>1, <3>2
    <3>. QED BY <3>3, Zenon
  <2>3. last = 2
    <3>1. last \in full /\ \A j \in full : last >= j
      <4>1. 2 \in full /\ \A j \in full : 2 >= j
        <5>. HIDE DEF full
        <5>. QED BY <2>2
      <4>. HIDE DEF full
      <4>. QED BY <4>1, Zenon
    <3>. HIDE DEF full, last
    <3>. QED BY <2>2, <3>1
  <2>. HIDE DEF last
  <2>. QED BY <2>1, <2>3
<1>. QED BY <1>5, <1>9, <1>10

(* Two texts put together are cut apart again.                             *)
LEMMA HalvesOf ==
  ASSUME NEW A, NEW b \in Seq(A), NEW w \in Seq(A)
  PROVE  /\ SubSeq(b \o w, 1, Len(b)) = b
         /\ SubSeq(b \o w, Len(b) + 1, Len(b \o w)) = w
<1>. DEFINE r == b \o w
            L == Len(b)
            M == Len(w)
            p == SubSeq(r, 1, L)
            q == SubSeq(r, L + 1, Len(r))
<1>1. /\ r \in Seq(A) /\ Len(r) = L + M /\ \A i \in 1..L : r[i] = b[i]
      /\ \A i \in 1..M : r[L + i] = w[i]
  BY Follow
<1>2. L \in Nat /\ M \in Nat OBVIOUS
<1>. HIDE DEF r
<1>3. p = b
  <2>1. p \in Seq(A) /\ Len(p) = L /\ \A i \in 1..L : p[i] = r[i]
    <3>1. L \in 0..Len(r) BY <1>1, <1>2
    <3>. QED BY <1>1, <3>1, SubSeqProperties
  <2>. HIDE DEF p
  <2>. QED BY <1>1, <2>1, SeqEqual
<1>4. q = w
  <2>1. q \in Seq(A) /\ Len(q) = M /\ \A i \in 1..M : q[i] = r[L + i]
    <3>1. \A i \in 1..M : (L + 1) + i - 1 = L + i BY <1>2
    <3>2. L + 1 \in 1..(Len(r) + 1) /\ Len(r) - (L + 1) + 1 = M BY <1>1, <1>2
    <3>. QED BY <1>1, <1>2, <3>1, <3>2, SubSeqProperties
  <2>. HIDE DEF q
  <2>2. \A i \in 1..Len(q) : q[i] = w[i] BY <1>1, <2>1
  <2>. QED BY <2>1, <2>2, SeqEqual
<1>. QED BY <1>3, <1>4 DEF r

(* What a version's text is but for what comes before it.                  *)
BareText(a, b, w) == (a \o <<Dot>>) \o (b \o w)
AfterNumbers(w) == w \in Seq(Code) /\ (w = <<>> \/ w[1] \notin Digit)

(* Its numbers are read, and the rest is its suffix.                       *)
NumbersRead(a, b, w) ==
  LET field == BareText(a, b, w)
  IN /\ unprefixed(field) = field
     /\ \A next \in BOOLEAN : Numbered(field, next) = Version(Atoi(a), Atoi(b), w, next)

(* They are.                                                               *)
LEMMA NumberedIs ==
  ASSUME NEW a \in Seq(Digit), a # <<>>, NEW b \in Seq(Digit), b # <<>>, NEW w, AfterNumbers(w)
  PROVE  NumbersRead(a, b, w)
<1>. DEFINE r == b \o w
            field == BareText(a, b, w)
            parts == CutAt(field, Dot)
            ends == {i \in 0..Len(r) : /\ \A j \in 1..i : IsDigit(r[j])
                                       /\ i < Len(r) => ~IsDigit(r[i + 1])}
            end == CHOOSE i \in ends : TRUE
            L == Len(b)
<1>1. /\ a \in Seq(Code) /\ b \in Seq(Code) /\ w \in Seq(Code) /\ L \in Nat /\ L > 0
      /\ Dot \in Code
  <2>1. Seq(Digit) \subseteq Seq(Code)
    <3>1. Digit \subseteq Code BY DEF Digit, Code
    <3>. QED BY <3>1, SeqOfMore
  <2>2. L \in Nat /\ L # 0 OBVIOUS
  <2>. QED BY <2>1, <2>2 DEF AfterNumbers, Dot, Code
<1>2. /\ r \in Seq(Code) /\ Len(r) = L + Len(w) /\ \A i \in 1..L : r[i] = b[i]
      /\ \A i \in 1..Len(w) : r[L + i] = w[i]
  BY <1>1, Follow
<1>3. SubSeq(r, 1, L) = b /\ SubSeq(r, L + 1, Len(r)) = w BY <1>1, HalvesOf
<1>. HIDE DEF r
<1>4. parts = [before |-> a, after |-> r, found |-> TRUE]
  <2>1. \A i \in 1..Len(a) : a[i] # Dot BY DEF Digit, Dot
  <2>2. CutInTwo(a, r, Dot) BY <1>1, <1>2, <2>1, CutThere
  <2>. QED BY <2>2 DEF CutInTwo, BareText, r
<1>5. IsNumber(a) BY DEF IsNumber, IsDigit, Digit
<1>6. unprefixed(field) = field
  <2>. HIDE DEF field, r
  <2>. QED BY <1>4, <1>5 DEF unprefixed
<1>7. end = L
  <2>1. \A j \in 1..L : IsDigit(r[j]) BY <1>2 DEF IsDigit, Digit
  <2>2. L < Len(r) => ~IsDigit(r[L + 1])
    <3>1. Len(w) \in Nat BY <1>1
    <3>2. w # <<>> => 1 \in 1..Len(w) /\ w[1] \notin Digit BY <1>1 DEF AfterNumbers
    <3>3. w = <<>> => Len(w) = 0 OBVIOUS
    <3>. QED BY <1>1, <1>2, <3>1, <3>2, <3>3 DEF IsDigit, Digit
  <2>3. L \in ends
    <3>1. L \in 0..Len(r) BY <1>1, <1>2
    <3>. QED BY <2>1, <2>2, <3>1
  <2>4. ASSUME NEW i \in ends PROVE i = L
    <3>1. i \in 0..Len(r) /\ (\A j \in 1..i : IsDigit(r[j])) /\ (i < Len(r) => ~IsDigit(r[i + 1]))
      OBVIOUS
    <3>2. Len(r) \in Nat BY <1>2
    <3>. HIDE DEF ends
    <3>3. CASE i < L
      <4>1. i + 1 \in 1..L /\ i < Len(r) BY <1>1, <1>2, <3>1, <3>3
      <4>. QED BY <2>1, <3>1, <4>1
    <3>4. CASE i > L
      <4>1. L + 1 \in 1..i /\ L < Len(r) BY <1>1, <3>1, <3>2, <3>4
      <4>. QED BY <2>2, <3>1, <4>1
    <3>. QED BY <1>1, <3>1, <3>3, <3>4
  <2>. HIDE DEF ends
  <2>. QED BY <2>3, <2>4
<1>8. ASSUME NEW next \in BOOLEAN
      PROVE  Numbered(field, next) = Version(Atoi(a), Atoi(b), w, next)
  <2>1. Numbered(field, next) =
          IF parts.found /\ IsNumber(parts.before) /\ end > 0
          THEN Version(Atoi(parts.before), Atoi(SubSeq(r, 1, end)), SubSeq(r, end + 1, Len(r)), next)
          ELSE UnknownVersion(next)
    <3>1. parts.after = r BY <1>4
    <3>. HIDE DEF parts
    <3>. QED BY <3>1 DEF Numbered, parts
  <2>2. parts.found /\ parts.before = a BY <1>4
  <2>. HIDE DEF parts, end, field
  <2>. QED BY <1>1, <1>3, <1>5, <1>7, <2>1, <2>2
<1>. QED BY <1>6, <1>8 DEF NumbersRead

OsName == <<111, Hyphen>>

(* Four texts can be put together from either end.                         *)
FourWays(p, q, d, r) == p \o ((q \o d) \o r) = ((p \o q) \o d) \o r

LEMMA FourRegrouped ==
  ASSUME NEW A, NEW p \in Seq(A), NEW q \in Seq(A), NEW d \in Seq(A), NEW r \in Seq(A)
  PROVE  FourWays(p, q, d, r)
<1>. DEFINE e == q \o d
<1>1. e \in Seq(A) BY ConcatProperties
<1>2. Regroups(p, q, d) BY Regrouped
<1>. HIDE DEF e
<1>3. Regroups(p, e, r) BY <1>1, Regrouped
<1>. QED BY <1>2, <1>3, Zenon DEF FourWays, Regroups, e

(* An OS name in front comes off.                                          *)
LEMMA OsOff ==
  ASSUME NEW a \in Seq(Digit), NEW b \in Seq(Digit), NEW w \in Seq(Letter)
  PROVE  unprefixed(OsName \o BareText(a, b, w)) = BareText(a, b, w)
<1>. DEFINE r == b \o w
            t == BareText(a, b, w)
            s == OsName \o t
            x == OsName \o a
            D == Code \ {Hyphen}
            o == <<111>>
            h == <<Hyphen>>
            d == <<Dot>>
<1>1. Digit \subseteq D /\ Letter \subseteq D /\ Dot \in D /\ Hyphen \in Code /\ Dot \in Code
  BY DEF Digit, Letter, Dot, Hyphen, Code
<1>2. a \in Seq(D) /\ b \in Seq(D) /\ w \in Seq(D) /\ d \in Seq(D)
  <2>1. Seq(Digit) \subseteq Seq(D) /\ Seq(Letter) \subseteq Seq(D)
    <3>. HIDE DEF D
    <3>. QED BY <1>1, SeqOfMore
  <2>2. d \in Seq(D) BY <1>1
  <2>. QED BY <2>1, <2>2
<1>3. r \in Seq(D) /\ t \in Seq(D)
  <2>. HIDE DEF D, d
  <2>1. r \in Seq(D) BY <1>2, ConcatProperties
  <2>2. a \o d \in Seq(D) BY <1>2, ConcatProperties
  <2>. HIDE DEF r
  <2>3. (a \o d) \o r \in Seq(D) BY <2>1, <2>2, ConcatProperties
  <2>. QED BY <2>1, <2>3 DEF BareText, r, d
<1>4. Seq(D) \subseteq Seq(Code)
  <2>1. D \subseteq Code OBVIOUS
  <2>. QED BY <2>1, SeqOfMore
<1>5. /\ OsName \in Seq(Code) /\ Len(OsName) = 2 /\ OsName[1] = 111 /\ OsName[2] = Hyphen
      /\ o \in Seq(Code) /\ h \in Seq(Code) /\ OsName = o \o h
  BY <1>1 DEF OsName, Code
<1>6. a \in Seq(Code) /\ r \in Seq(Code) /\ t \in Seq(Code) /\ d \in Seq(Code)
  BY <1>2, <1>3, <1>4
<1>. HIDE DEF r, D, d
<1>7. x \in Seq(Code) /\ Len(x) = 2 + Len(a) /\ x[1] = 111 /\ x[2] = Hyphen
      /\ \A i \in 1..Len(a) : x[2 + i] = a[i]
  <2>1. /\ x \in Seq(Code) /\ Len(x) = Len(OsName) + Len(a)
        /\ \A i \in 1..Len(OsName) : x[i] = OsName[i]
        /\ \A i \in 1..Len(a) : x[Len(OsName) + i] = a[i]
    BY <1>5, <1>6, Follow
  <2>. HIDE DEF x
  <2>. QED BY <1>5, <2>1
<1>8. s = (x \o d) \o r
  <2>1. t = (a \o d) \o r BY DEF BareText, r, d
  <2>. DEFINE p == OsName
  <2>2. p \in Seq(Code) BY <1>5
  <2>. HIDE DEF p, t
  <2>3. FourWays(p, a, d, r) BY <1>6, <2>2, FourRegrouped
  <2>. QED BY <2>1, <2>3, Zenon DEF FourWays, p, s, x
<1>9. CutAt(s, Dot) = [before |-> x, after |-> r, found |-> TRUE]
  <2>1. \A i \in 1..Len(x) : x[i] # Dot
    <3>1. 111 # Dot /\ Hyphen # Dot /\ \A i \in 1..Len(a) : a[i] # Dot
      BY DEF Hyphen, Dot, Digit
    <3>2. ASSUME NEW i \in 1..Len(x) PROVE x[i] # Dot
      <4>1. i = 1 \/ i = 2 \/ \E k \in 1..Len(a) : i = 2 + k
        <5>1. Len(a) \in Nat OBVIOUS
        <5>. HIDE DEF x
        <5>2. i - 2 \in 1..Len(a) => i = 2 + (i - 2) OBVIOUS
        <5>3. i = 1 \/ i = 2 \/ i - 2 \in 1..Len(a) BY <1>7, <5>1
        <5>. QED BY <5>2, <5>3
      <4>. HIDE DEF x
      <4>2. ASSUME NEW k \in 1..Len(a), i = 2 + k PROVE x[i] # Dot BY <1>7, <3>1, <4>2
      <4>. QED BY <1>7, <3>1, <4>1, <4>2
    <3>. QED BY <3>2
  <2>. HIDE DEF x
  <2>2. CutInTwo(x, r, Dot) BY <1>1, <1>6, <1>7, <2>1, CutThere
  <2>. QED BY <1>8, <2>2 DEF CutInTwo, d
<1>10. ~IsNumber(x)
  <2>1. 1 \in 1..Len(x) /\ ~IsDigit(x[1])
    <3>1. Len(a) \in Nat OBVIOUS
    <3>. HIDE DEF x
    <3>. QED BY <1>7, <3>1 DEF IsDigit
  <2>. HIDE DEF x
  <2>. QED BY <2>1 DEF IsNumber
<1>11. AfterLastHyphen(s) = t
  <2>1. Split(o, Hyphen) = <<o>>
    <3>1. \A i \in 1..Len(o) : o[i] # Hyphen BY DEF Hyphen
    <3>. HIDE DEF o
    <3>. QED BY <1>5, <3>1, SplitWhole
  <2>2. Split(t, Hyphen) = <<t>>
    <3>1. \A i \in 1..Len(t) : t[i] # Hyphen
      <4>. HIDE DEF t
      <4>. QED BY <1>3 DEF D
    <3>. HIDE DEF t
    <3>. QED BY <1>6, <3>1, SplitWhole
  <2>. HIDE DEF o, t
  <2>3. Split((o \o h) \o t, Hyphen) = <<o>> \o <<t>>
    <3>1. SplitsApart(o, t, Hyphen) BY <1>1, <1>5, <1>6, SplitConcat
    <3>. QED BY <2>1, <2>2, <3>1 DEF SplitsApart
  <2>4. <<o>> \o <<t>> = <<o, t>>
    <3>. DEFINE A == Seq(Code)
    <3>1. o \in A /\ t \in A BY <1>5, <1>6
    <3>. HIDE DEF A
    <3>. QED BY ONLY <3>1, ThreeJoined
  <2>5. Last(<<o, t>>) = t BY DEF Last
  <2>. QED BY <1>5, <2>3, <2>4, <2>5 DEF AfterLastHyphen
<1>. HIDE DEF s, x, t
<1>. QED BY <1>9, <1>10, <1>11 DEF unprefixed, s, t

(* Whether a field begins with "next-" is told from its first byte.        *)
LEMMA NextSeen ==
  ASSUME NEW t \in Seq(Code)
  PROVE  /\ t # <<>> /\ t[1] # 110 => ~IsPrefix(NextPrefix, t)
         /\ IsPrefix(NextPrefix, NextPrefix \o t)
         /\ SubSeq(NextPrefix \o t, Len(NextPrefix) + 1, Len(NextPrefix \o t)) = t
<1>. DEFINE p == NextPrefix
            L == Len(p)
<1>1. p \in Seq(Code) /\ L = 5 /\ p[1] = 110 BY DEF NextPrefix, Code, Hyphen
<1>. HIDE DEF p
<1>2. SubSeq(p, 1, L) = p BY <1>1, SubSeqFull
<1>3. SubSeq(p \o t, 1, L) = p /\ SubSeq(p \o t, L + 1, Len(p \o t)) = t BY <1>1, HalvesOf
<1>4. Len(p \o t) = L + Len(t) /\ Len(t) \in Nat
  <2>1. p \in Seq(Code) BY <1>1
  <2>2. Len(p \o t) = Len(p) + Len(t) BY ONLY t \in Seq(Code), <2>1, Follow
  <2>3. Len(t) \in Nat OBVIOUS
  <2>. QED BY <2>2, <2>3
<1>5. IsPrefix(p, p \o t) BY <1>1, <1>2, <1>3, <1>4 DEF IsPrefix
<1>6. ASSUME t # <<>>, t[1] # 110, IsPrefix(p, t) PROVE FALSE
  <2>1. L <= Len(t) /\ SubSeq(t, 1, L) = p BY <1>2, <1>6 DEF IsPrefix
  <2>2. SubSeq(t, 1, L)[1] = t[1]
    <3>1. L \in 1..Len(t) BY <1>1, <2>1
    <3>. QED BY <1>1, <3>1, SubSeqProperties
  <2>. QED BY <1>1, <1>6, <2>1, <2>2
<1>. QED BY <1>3, <1>5, <1>6 DEF p

(* What comes before a version's numbers, and whether it is a tree.        *)
Fronts(lead, next, w) ==
  \/ lead = <<>> /\ next = FALSE
  \/ lead = NextPrefix /\ next = TRUE
  \/ lead = OsName /\ next = FALSE /\ w \in Seq(Letter)

(* The version of a text, with or without the word tmux.                   *)
TakenAs(t, v) ==
  ParseVersion(t) = v /\ ParseVersion((<<116, SpaceByte>> \o t) \o <<SpaceByte>>) = v

(* A text is read by its parts.                                            *)
LEMMA TextParsed ==
  ASSUME NEW a \in Seq(Digit), a # <<>>, NEW b \in Seq(Digit), b # <<>>,
         NEW w \in Seq(Code \ {SpaceByte}), AfterNumbers(w), NEW lead, NEW next, Fronts(lead, next, w)
  PROVE  TakenAs(lead \o BareText(a, b, w), Version(Atoi(a), Atoi(b), w, next))
<1>. DEFINE r == b \o w
            u == BareText(a, b, w)
            t == lead \o u
            v == Version(Atoi(a), Atoi(b), w, next)
            D == Code \ {SpaceByte}
            d == <<Dot>>
            Gathered(f) == LET n == IsPrefix(NextPrefix, f)
                            rest == IF n THEN SubSeq(f, Len(NextPrefix) + 1, Len(f)) ELSE f
                        IN Numbered(unprefixed(rest), n)
<1>1. /\ Digit \subseteq D /\ a \in Seq(D) /\ b \in Seq(D) /\ d \in Seq(D)
      /\ lead \in Seq(D) /\ Seq(D) \subseteq Seq(Code)
  <2>1. Digit \subseteq D /\ Dot \in D BY DEF Digit, Dot, Code, SpaceByte
  <2>2. d \in Seq(D) BY <2>1
  <2>3. D \subseteq Code OBVIOUS
  <2>4. <<>> \in Seq(D) /\ NextPrefix \in Seq(D) /\ OsName \in Seq(D)
    BY DEF NextPrefix, OsName, Hyphen, Code, SpaceByte
  <2>. HIDE DEF D, d
  <2>5. Seq(Digit) \subseteq Seq(D) /\ Seq(D) \subseteq Seq(Code) BY <2>1, <2>3, SeqOfMore
  <2>. QED BY <2>1, <2>2, <2>4, <2>5 DEF Fronts
<1>2. w \in Seq(D) OBVIOUS
<1>. HIDE DEF D, d
<1>3. u \in Seq(D) /\ u # <<>> /\ u[1] \in Digit
  <2>1. r \in Seq(D) BY <1>1, <1>2, ConcatProperties
  <2>2. /\ a \o d \in Seq(D) /\ Len(a \o d) = Len(a) + Len(d)
        /\ \A i \in 1..Len(a) : (a \o d)[i] = a[i]
    BY <1>1, Follow
  <2>. HIDE DEF r
  <2>. DEFINE p == a \o d
  <2>3. Len(a) \in Nat /\ Len(a) > 0 /\ Len(d) \in Nat /\ a[1] \in Digit BY <1>1
  <2>4. p \in Seq(D) /\ Len(p) \in Nat /\ 1 \in 1..Len(p) /\ p[1] = a[1]
    <3>1. 1 \in 1..Len(a) BY <2>3
    <3>. QED BY <2>2, <2>3, <3>1
  <2>. HIDE DEF p
  <2>5. p \o r \in Seq(D) /\ Len(p \o r) = Len(p) + Len(r) /\ \A i \in 1..Len(p) : (p \o r)[i] = p[i]
    BY <2>1, <2>4, Follow
  <2>6. u = p \o r BY DEF BareText, p, r, d
  <2>7. Len(r) \in Nat BY <2>1
  <2>8. u \in Seq(D) /\ Len(u) > 0 /\ u[1] \in Digit
    <3>. HIDE DEF u
    <3>. QED BY <2>3, <2>4, <2>5, <2>6, <2>7
  <2>. HIDE DEF u
  <2>. QED BY <2>8
<1>4. NumbersRead(a, b, w) BY NumberedIs
<1>5. unprefixed(u) = u /\ \A n \in BOOLEAN : Numbered(u, n) = Version(Atoi(a), Atoi(b), w, n)
  BY <1>4 DEF NumbersRead
<1>6. u \in Seq(Code) /\ lead \in Seq(Code) BY <1>1, <1>3
<1>7. t \in Seq(D) /\ t # <<>>
  <2>. HIDE DEF u
  <2>. QED BY <1>1, <1>3, ConcatProperties, ConcatEqualIffEmpty
<1>8. lead = OsName => unprefixed(t) = u
  <2>1. lead = OsName => w \in Seq(Letter) BY DEF Fronts, OsName, NextPrefix, Hyphen
  <2>. QED BY <2>1, OsOff
<1>9. lead = OsName => t \in Seq(Code) /\ t # <<>> /\ t[1] # 110
  <2>1. OsName \in Seq(Code) /\ 1 \in 1..Len(OsName) /\ OsName[1] = 111
    BY DEF OsName, Code, Hyphen
  <2>. HIDE DEF u
  <2>2. (OsName \o u)[1] = OsName[1] BY <1>6, <2>1, Follow
  <2>. QED BY <1>1, <1>7, <2>1, <2>2
<1>. HIDE DEF u
<1>10. Gathered(t) = v
  <2>1. CASE lead = <<>> /\ next = FALSE
    <3>1. t = u BY <1>6, <2>1, ConcatEmptySeq
    <3>2. ~IsPrefix(NextPrefix, u)
      <4>1. u[1] # 110 BY <1>3 DEF Digit
      <4>. QED BY <1>3, <1>6, <4>1, NextSeen
    <3>3. Gathered(u) = Numbered(unprefixed(u), FALSE)
      <4>1. IsPrefix(NextPrefix, u) = FALSE BY <3>2 DEF IsPrefix
      <4>. QED BY <4>1, Zenon
    <3>. QED BY <1>5, <2>1, <3>1, <3>3
  <2>2. CASE lead = NextPrefix /\ next = TRUE
    <3>1. IsPrefix(NextPrefix, t) /\ SubSeq(t, Len(NextPrefix) + 1, Len(t)) = u
      BY <1>6, <2>2, NextSeen
    <3>2. Gathered(t) = Numbered(unprefixed(u), TRUE)
      <4>1. IsPrefix(NextPrefix, t) = TRUE BY <3>1 DEF IsPrefix
      <4>. HIDE DEF t
      <4>. QED BY <3>1, <4>1, Zenon
    <3>. QED BY <1>5, <2>2, <3>2
  <2>3. CASE lead = OsName /\ next = FALSE
    <3>1. ~IsPrefix(NextPrefix, t)
      <4>. HIDE DEF t
      <4>. QED BY <1>9, <2>3, NextSeen
    <3>2. Gathered(t) = Numbered(unprefixed(t), FALSE)
      <4>1. IsPrefix(NextPrefix, t) = FALSE BY <3>1 DEF IsPrefix
      <4>. HIDE DEF t
      <4>. QED BY <4>1, Zenon
    <3>. QED BY <1>5, <1>8, <2>3, <3>2
  <2>. QED BY <2>1, <2>2, <2>3 DEF Fronts
<1>11. LastField(t) = t /\ LastField((<<116, SpaceByte>> \o t) \o <<SpaceByte>>) = t
  <2>. HIDE DEF t
  <2>. QED BY <1>7, LastFieldIs DEF D
<1>12. \A s : ParseVersion(s) = Gathered(LastField(s)) BY Zenon DEF ParseVersion
<1>. HIDE DEF Gathered, t, v
<1>13. TakenAs(t, v) BY <1>10, <1>11, <1>12, Zenon DEF TakenAs
<1>. QED BY <1>13 DEF t, v, u

(* One text precedes another by its first byte, or by those after it.      *)
PrecedesBy(a, s, b, t) ==
  Precedes(<<a>> \o s, <<b>> \o t) <=> a < b \/ (a = b /\ Precedes(s, t))

(* It does.                                                                *)
LEMMA PrecedesFrom ==
  ASSUME NEW a \in Nat, NEW b \in Nat, NEW s \in Seq(Nat), NEW t \in Seq(Nat)
  PROVE  PrecedesBy(a, s, b, t)
<1>. DEFINE x == <<a>>
            y == <<b>>
            u == x \o s
            v == y \o t
            L == Len(s)
            M == Len(t)
<1>1. x \in Seq(Nat) /\ Len(x) = 1 /\ x[1] = a /\ y \in Seq(Nat) /\ Len(y) = 1 /\ y[1] = b
  OBVIOUS
<1>2. L \in Nat /\ M \in Nat OBVIOUS
<1>. HIDE DEF x, y
<1>3. Len(u) = 1 + L /\ u[1] = a /\ \A i \in 1..L : u[1 + i] = s[i]
  <2>. DEFINE A == Nat
  <2>0. x \in Seq(A) /\ s \in Seq(A) BY <1>1
  <2>. HIDE DEF A
  <2>1. /\ Len(u) = Len(x) + Len(s) /\ \A i \in 1..Len(x) : u[i] = x[i]
        /\ \A i \in 1..Len(s) : u[Len(x) + i] = s[i]
    BY ONLY <2>0, Follow
  <2>. HIDE DEF u
  <2>. QED BY <1>1, <2>1
<1>4. Len(v) = 1 + M /\ v[1] = b /\ \A i \in 1..M : v[1 + i] = t[i]
  <2>. DEFINE A == Nat
  <2>0. y \in Seq(A) /\ t \in Seq(A) BY <1>1
  <2>. HIDE DEF A
  <2>1. /\ Len(v) = Len(y) + Len(t) /\ \A i \in 1..Len(y) : v[i] = y[i]
        /\ \A i \in 1..Len(t) : v[Len(y) + i] = t[i]
    BY ONLY <2>0, Follow
  <2>. HIDE DEF v
  <2>. QED BY <1>1, <2>1
<1>. HIDE DEF u, v
<1>. DEFINE DecidesAt(i, p, q) == /\ \A j \in 1..(i - 1) : j <= Len(p) /\ p[j] = q[j]
                                  /\ i > Len(p) \/ p[i] < q[i]
<1>5. /\ Precedes(u, v) <=> \E i \in 1..Len(v) : DecidesAt(i, u, v)
      /\ Precedes(s, t) <=> \E i \in 1..Len(t) : DecidesAt(i, s, t)
  BY DEF Precedes
<1>6. ASSUME NEW i \in 1..Len(v), DecidesAt(i, u, v) PROVE a < b \/ (a = b /\ Precedes(s, t))
  <2>1. CASE i = 1 BY <1>2, <1>3, <1>4, <1>6, <2>1
  <2>2. CASE i # 1
    <3>. DEFINE k == i - 1
    <3>1. k \in 1..M /\ i = 1 + k BY <1>2, <1>4, <2>2
    <3>. HIDE DEF k
    <3>2. a = b BY <1>3, <1>4, <1>6, <3>1
    <3>3. ASSUME NEW j \in 1..(k - 1) PROVE j <= L /\ s[j] = t[j]
      <4>1. 1 + j \in 1..(i - 1) /\ j \in 1..M BY <1>2, <3>1
      <4>2. 1 + j <= Len(u) /\ u[1 + j] = v[1 + j] BY <1>6, <4>1
      <4>3. j \in 1..L BY <1>2, <1>3, <4>2
      <4>. QED BY <1>3, <1>4, <4>1, <4>2, <4>3
    <3>4. k > L \/ s[k] < t[k]
      <4>1. CASE i > Len(u) BY <1>2, <1>3, <3>1, <4>1
      <4>2. CASE k \in 1..L /\ u[i] < v[i] BY <1>3, <1>4, <3>1, <4>2
      <4>. QED BY <1>2, <1>6, <3>1, <4>1, <4>2
    <3>5. DecidesAt(k, s, t) BY <3>3, <3>4
    <3>. QED BY <1>5, <3>1, <3>2, <3>5
  <2>. QED BY <2>1, <2>2
<1>7. ASSUME a < b PROVE Precedes(u, v)
  <2>1. DecidesAt(1, u, v) BY <1>3, <1>4, <1>7
  <2>2. 1 \in 1..Len(v) BY <1>2, <1>4
  <2>. QED BY <1>5, <2>1, <2>2
<1>8. ASSUME a = b, NEW k \in 1..M, DecidesAt(k, s, t) PROVE Precedes(u, v)
  <2>1. ASSUME NEW j \in 1..((1 + k) - 1) PROVE j <= Len(u) /\ u[j] = v[j]
    <3>1. CASE j = 1 BY <1>2, <1>3, <1>4, <1>8, <3>1
    <3>2. CASE j # 1
      <4>. DEFINE m == j - 1
      <4>1. m \in 1..(k - 1) /\ j = 1 + m /\ m \in 1..M BY <1>2, <3>2
      <4>. HIDE DEF m
      <4>2. m <= L /\ s[m] = t[m] BY <1>8, <4>1
      <4>3. m \in 1..L BY <1>2, <4>1, <4>2
      <4>. QED BY <1>2, <1>3, <1>4, <4>1, <4>2, <4>3
    <3>. QED BY <3>1, <3>2
  <2>2. 1 + k > Len(u) \/ u[1 + k] < v[1 + k]
    <3>1. CASE k > L BY <1>2, <1>3, <3>1
    <3>2. CASE k \in 1..L /\ s[k] < t[k] BY <1>3, <1>4, <3>2
    <3>. QED BY <1>2, <1>8, <3>1, <3>2
  <2>3. DecidesAt(1 + k, u, v) BY <2>1, <2>2
  <2>4. 1 + k \in 1..Len(v) BY <1>2, <1>4
  <2>. QED BY <1>5, <2>3, <2>4
<1>9. Precedes(u, v) <=> a < b \/ (a = b /\ Precedes(s, t))
  <2>. HIDE DEF DecidesAt
  <2>. QED BY <1>5, <1>6, <1>7, <1>8
<1>. QED BY <1>9 DEF PrecedesBy, u, v, x, y

(* Which of two comes first, if one does.                                  *)
Sooner(before, after) == IF before THEN -1 ELSE IF after THEN 1 ELSE 0

(* strings.Compare has texts in that order.                                *)
LEMMA ComparesBytes ==
  ASSUME NEW s \in Seq(Nat), NEW t \in Seq(Nat)
  PROVE  CompareBytes(s, t) = Sooner(Precedes(s, t), Precedes(t, s))
<1>. DEFINE L == Len(s)
            M == Len(t)
            differ == {i \in 1..L : i > M \/ s[i] # t[i]}
            first == CHOOSE i \in differ : \A j \in differ : i <= j
            DecidesAt(i, p, q) == /\ \A j \in 1..(i - 1) : j <= Len(p) /\ p[j] = q[j]
                                  /\ i > Len(p) \/ p[i] < q[i]
<1>1. L \in Nat /\ M \in Nat /\ (\A i \in 1..L : s[i] \in Nat) /\ \A i \in 1..M : t[i] \in Nat
  OBVIOUS
<1>2. CompareBytes(s, t) =
        IF differ = {} THEN sign(L - M)
        ELSE IF first > M THEN 1 ELSE sign(s[first] - t[first])
  BY DEF CompareBytes
<1>3. /\ Precedes(s, t) <=> \E i \in 1..M : DecidesAt(i, s, t)
      /\ Precedes(t, s) <=> \E i \in 1..L : DecidesAt(i, t, s)
  BY DEF Precedes
<1>4. CASE differ = {}
  <2>1. \A i \in 1..L : i <= M /\ s[i] = t[i] BY <1>1, <1>4
  <2>2. L <= M BY <1>1, <2>1
  <2>3. CASE L < M
    <3>1. L + 1 \in 1..M /\ DecidesAt(L + 1, s, t) BY <1>1, <2>1, <2>3
    <3>2. Precedes(s, t)
      <4>. HIDE DEF DecidesAt
      <4>. QED BY <1>3, <3>1
    <3>3. sign(L - M) = -1 BY <1>1, <2>3 DEF sign
    <3>. HIDE DEF differ, first
    <3>. QED BY <1>2, <1>4, <3>2, <3>3 DEF Sooner
  <2>4. CASE L = M
    <3>1. ASSUME NEW i \in 1..L PROVE ~DecidesAt(i, s, t) /\ ~DecidesAt(i, t, s) BY <1>1, <2>1, <2>4
    <3>2. ~Precedes(s, t) /\ ~Precedes(t, s)
      <4>. HIDE DEF DecidesAt
      <4>. QED BY <1>3, <2>4, <3>1
    <3>3. sign(L - M) = 0 BY <1>1, <2>4 DEF sign
    <3>. HIDE DEF differ, first
    <3>. QED BY <1>2, <1>4, <3>2, <3>3 DEF Sooner
  <2>. QED BY <1>1, <2>2, <2>3, <2>4
<1>5. CASE differ # {}
  <2>1. first \in differ /\ \A j \in differ : first <= j
    <3>1. differ \subseteq Nat OBVIOUS
    <3>. HIDE DEF differ
    <3>2. \E n \in differ : \A m \in differ : n <= m BY <1>5, <3>1, NatMin
    <3>. QED BY <3>2, Zenon
  <2>2. PICK k : k = first OBVIOUS
  <2>3. k \in 1..L /\ (k > M \/ s[k] # t[k]) BY <2>1, <2>2
  <2>4. \A j \in 1..(k - 1) : j <= M /\ j <= L /\ s[j] = t[j]
    <3>1. ASSUME NEW j \in 1..(k - 1) PROVE j <= M /\ j <= L /\ s[j] = t[j]
      <4>1. j \in 1..L /\ ~(k <= j) BY <1>1, <2>3
      <4>2. j \notin differ
        <5>. HIDE DEF differ
        <5>. QED BY <2>1, <2>2, <4>1
      <4>. QED BY <1>1, <4>1, <4>2
    <3>. QED BY <3>1
  <2>5. CompareBytes(s, t) = IF k > M THEN 1 ELSE sign(s[k] - t[k])
    <3>. HIDE DEF differ, first
    <3>. QED BY <1>2, <1>5, <2>2
  <2>. HIDE DEF differ, first
  <2>6. ASSUME NEW i \in 1..M, DecidesAt(i, s, t) PROVE k <= M /\ s[k] < t[k]
    <3>1. CASE i < k BY <1>1, <2>3, <2>4, <2>6, <3>1
    <3>2. CASE i = k BY <1>1, <2>3, <2>6, <3>2
    <3>3. CASE i > k
      <4>1. k \in 1..(i - 1) /\ k <= M BY <1>1, <2>3, <3>3
      <4>. QED BY <1>1, <2>3, <2>6, <4>1
    <3>. QED BY <1>1, <2>3, <3>1, <3>2, <3>3
  <2>7. CASE k > M
    <3>1. DecidesAt(k, t, s) BY <1>1, <2>3, <2>4, <2>7
    <3>2. Precedes(t, s) /\ ~Precedes(s, t)
      <4>. HIDE DEF DecidesAt
      <4>1. ~(k <= M) BY <1>1, <2>3, <2>7
      <4>. QED BY <1>3, <2>3, <2>6, <3>1, <4>1
    <3>. QED BY <2>5, <2>7, <3>2 DEF Sooner
  <2>8. CASE k \in 1..M /\ s[k] < t[k]
    <3>1. DecidesAt(k, s, t) BY <2>4, <2>8
    <3>2. Precedes(s, t)
      <4>. HIDE DEF DecidesAt
      <4>. QED BY <1>3, <2>8, <3>1
    <3>3. ~(k > M) /\ sign(s[k] - t[k]) = -1 BY <1>1, <2>3, <2>8 DEF sign
    <3>. QED BY <2>5, <3>2, <3>3 DEF Sooner
  <2>9. CASE k \in 1..M /\ t[k] < s[k]
    <3>1. DecidesAt(k, t, s) BY <2>4, <2>9
    <3>2. Precedes(t, s) /\ ~Precedes(s, t)
      <4>. HIDE DEF DecidesAt
      <4>1. ~(s[k] < t[k]) BY <1>1, <2>3, <2>9
      <4>. QED BY <1>3, <2>3, <2>6, <3>1, <4>1
    <3>3. ~(k > M) /\ sign(s[k] - t[k]) = 1 BY <1>1, <2>3, <2>9 DEF sign
    <3>. QED BY <2>5, <3>2, <3>3 DEF Sooner
  <2>10. k > M \/ (k \in 1..M /\ s[k] < t[k]) \/ (k \in 1..M /\ t[k] < s[k]) BY <1>1, <2>3
  <2>. QED BY <2>7, <2>8, <2>9, <2>10
<1>. QED BY <1>4, <1>5

(* The releases these are about, and the version of one.                   *)
Release ==
  {r \in [major : 1..99, minor : 0..99, stage : Stages, letter : Seq(Letter), os : BOOLEAN] :
     r.os => r.stage = "release"}
Aged == [major : Nat, minor : Nat, stage : Stages, letter : Seq(Letter)]
Hung(r) == IF r.stage = "candidate" THEN <<Hyphen, 114>> ELSE <<>>
SuffixOf(r) == Hung(r) \o r.letter
VersionOf(r) == Version(r.major, r.minor, SuffixOf(r), r.stage = "next")
(* An OS name apart.                                                       *)
AgeOnly(r) == [major |-> r.major, minor |-> r.minor, stage |-> r.stage, letter |-> r.letter]

(* What a release went through is seen in its version.                     *)
LEMMA StageIs ==
  ASSUME NEW r \in Aged
  PROVE  /\ r.letter \in Seq(Nat) /\ SuffixOf(r) \in Seq(Nat) /\ AfterNumbers(SuffixOf(r))
         /\ SuffixOf(r) \in Seq(Code \ {SpaceByte})
         /\ isPreRelease(SuffixOf(r)) <=> r.stage = "candidate"
         /\ r.stage # "candidate" => SuffixOf(r) = r.letter
<1>. DEFINE l == r.letter
            h == <<Hyphen, 114>>
            D == Code \ {SpaceByte}
<1>1. l \in Seq(Letter) /\ r.stage \in Stages BY DEF Aged
<1>2. /\ h \in Seq(D) /\ Len(h) = 2 /\ h[1] = Hyphen /\ Hyphen \notin Digit /\ <<>> \in Seq(D)
  BY DEF Hyphen, Code, SpaceByte, Digit
<1>3. Seq(Letter) \subseteq Seq(D) /\ Seq(D) \subseteq Seq(Code) /\ Seq(Code) \subseteq Seq(Nat)
  <2>1. Letter \subseteq D /\ D \subseteq Code /\ Code \subseteq Nat
    BY DEF Letter, Code, SpaceByte
  <2>. HIDE DEF D
  <2>. QED BY <2>1, SeqOfMore
<1>. HIDE DEF l, h, D
<1>4. l \in Seq(D) BY <1>1, <1>3
<1>5. CASE r.stage = "candidate"
  <2>1. SuffixOf(r) = h \o l BY <1>5, Zenon DEF SuffixOf, Hung, h, l
  <2>2. h \o l \in Seq(D) /\ Len(h \o l) = Len(h) + Len(l) /\ (h \o l)[1] = Hyphen
    <3>1. h \in Seq(D) /\ 1 \in 1..Len(h) /\ h[1] = Hyphen BY <1>2
    <3>2. /\ h \o l \in Seq(D) /\ Len(h \o l) = Len(h) + Len(l)
          /\ \A i \in 1..Len(h) : (h \o l)[i] = h[i]
      BY ONLY <1>4, <3>1, Follow
    <3>. QED BY <3>1, <3>2, Zenon
  <2>3. h \o l # <<>>
    <3>1. Len(l) \in Nat BY <1>1
    <3>2. Len(h \o l) # 0 BY <1>2, <2>2, <3>1
    <3>. QED BY <2>2, <3>2
  <2>. DEFINE w == h \o l
  <2>. HIDE DEF w
  <2>4. w \in Seq(D) /\ w # <<>> /\ w[1] = Hyphen BY <2>2, <2>3 DEF w
  <2>5. w \in Seq(Code) /\ w \in Seq(Nat) BY <1>3, <2>4
  <2>6. isPreRelease(w) BY <2>4 DEF isPreRelease
  <2>7. AfterNumbers(w) BY <1>2, <2>4, <2>5 DEF AfterNumbers
  <2>8. l \in Seq(Nat) BY <1>3, <1>4
  <2>9. SuffixOf(r) = w BY <2>1 DEF w
  <2>. QED BY <1>5, <2>4, <2>5, <2>6, <2>7, <2>8, <2>9, Zenon DEF l, D
<1>6. CASE r.stage # "candidate"
  <2>1. SuffixOf(r) = l
    <3>1. SuffixOf(r) = <<>> \o l BY <1>6, Zenon DEF SuffixOf, Hung, l
    <3>. QED BY <1>4, <3>1, ConcatEmptySeq
  <2>2. l = <<>> \/ l[1] \in Letter
    <3>1. l # <<>> => 1 \in 1..Len(l) BY <1>1
    <3>. QED BY <1>1, <3>1
  <2>3. \A x \in Letter : x # Hyphen /\ x \notin Digit BY DEF Letter, Hyphen, Digit
  <2>4. ~isPreRelease(l) BY <2>2, <2>3 DEF isPreRelease
  <2>5. l \in Seq(Code) /\ l \in Seq(Nat) BY <1>3, <1>4
  <2>6. AfterNumbers(l) BY <2>2, <2>3, <2>5 DEF AfterNumbers
  <2>. QED BY <1>4, <1>6, <2>1, <2>4, <2>5, <2>6, Zenon DEF l, D
<1>. QED BY <1>5, <1>6, Zenon

(* Of two releases the first to differ in is which comes first.            *)
LEMMA BeforeIs ==
  ASSUME NEW r \in Aged, NEW s \in Aged
  PROVE  Before(r, s) <=>
           \/ r.major < s.major
           \/ /\ r.major = s.major
              /\ \/ r.minor < s.minor
                 \/ /\ r.minor = s.minor
                    /\ \/ Stage(r) < Stage(s)
                       \/ Stage(r) = Stage(s) /\ Precedes(r.letter, s.letter)
<1>. DEFINE Last2(x) == <<Stage(x)>> \o x.letter
            Last3(x) == <<x.minor>> \o Last2(x)
<1>1. ASSUME NEW x \in Aged
      PROVE  /\ x.major \in Nat /\ x.minor \in Nat /\ Stage(x) \in Nat /\ x.letter \in Seq(Nat)
             /\ Last2(x) \in Seq(Nat) /\ Last3(x) \in Seq(Nat) /\ Age(x) = <<x.major>> \o Last3(x)
  <2>1. x.letter \in Seq(Nat) BY StageIs
  <2>2. x.major \in Nat /\ x.minor \in Nat BY DEF Aged
  <2>3. Stage(x) \in Nat BY DEF Stage
  <2>. DEFINE a == x.major
              b == x.minor
              c == Stage(x)
              l == x.letter
  <2>4. a \in Nat /\ b \in Nat /\ c \in Nat /\ l \in Seq(Nat) BY <2>1, <2>2, <2>3
  <2>5. Age(x) = <<a, b, c>> \o l BY DEF Age
  <2>. HIDE DEF a, b, c, l
  <2>6. <<a>> \in Seq(Nat) /\ <<b>> \in Seq(Nat) /\ <<c>> \in Seq(Nat) BY <2>4
  <2>7. <<c>> \o l \in Seq(Nat) /\ <<b>> \o (<<c>> \o l) \in Seq(Nat)
    <3>1. <<c>> \o l \in Seq(Nat) BY <2>4, <2>6, ConcatProperties
    <3>. QED BY <2>6, <3>1, ConcatProperties
  <2>8. <<a, b, c>> \o l = <<a>> \o (<<b>> \o (<<c>> \o l))
    <3>. DEFINE A == Nat
                p == <<a>>
                q == <<b>>
                d == <<c>>
    <3>0. a \in A /\ b \in A /\ c \in A BY <2>4
    <3>1. p \in Seq(A) /\ q \in Seq(A) /\ d \in Seq(A) /\ l \in Seq(A) BY <2>4, <2>6
    <3>. HIDE DEF A
    <3>2. <<a>> \o <<b>> = <<a, b>> /\ <<a, b>> \o <<c>> = <<a, b, c>> BY ONLY <3>0, ThreeJoined
    <3>. HIDE DEF p, q, d
    <3>3. ((p \o q) \o d) \o l = p \o ((q \o d) \o l)
      <4>1. FourWays(p, q, d, l) BY <3>1, FourRegrouped
      <4>. QED BY <4>1, Zenon DEF FourWays
    <3>4. (q \o d) \o l = q \o (d \o l) BY ONLY <3>1, ConcatAssociative
    <3>5. (p \o q) \o d = <<a, b, c>> BY <3>2, Zenon DEF p, q, d
    <3>. QED BY <3>3, <3>4, <3>5, Zenon DEF p, q, d
  <2>. QED BY <2>1, <2>2, <2>3, <2>5, <2>7, <2>8, Zenon DEF a, b, c, l
<1>2. PrecedesBy(r.major, Last3(r), s.major, Last3(s))
  <2>. HIDE DEF Last3
  <2>. QED BY <1>1, PrecedesFrom
<1>3. PrecedesBy(r.minor, Last2(r), s.minor, Last2(s))
  <2>. HIDE DEF Last2
  <2>. QED BY <1>1, PrecedesFrom
<1>4. PrecedesBy(Stage(r), r.letter, Stage(s), s.letter) BY <1>1, PrecedesFrom
<1>5. Age(r) = <<r.major>> \o Last3(r) /\ Age(s) = <<s.major>> \o Last3(s)
  <2>. HIDE DEF Last3, Last2
  <2>. QED BY <1>1
<1>. QED BY <1>2, <1>3, <1>4, <1>5, Zenon DEF Before, PrecedesBy

(* What both have in front does not tell which of two comes first.         *)
LEMMA PrecedesAfter ==
  ASSUME NEW s \in Seq(Nat), NEW t \in Seq(Nat)
  PROVE  Precedes(<<Hyphen, 114>> \o s, <<Hyphen, 114>> \o t) <=> Precedes(s, t)
<1>. DEFINE A == Nat
            p == <<Hyphen>>
            q == <<114>>
            c == <<Hyphen, 114>>
<1>1. Hyphen \in A /\ 114 \in A BY DEF Hyphen
<1>2. p \in Seq(A) /\ q \in Seq(A) /\ s \in Seq(A) /\ t \in Seq(A) BY <1>1
<1>3. p \o q = c
  <2>. HIDE DEF A
  <2>. QED BY ONLY <1>1, ThreeJoined
<1>4. ~(Hyphen < Hyphen) /\ ~(114 < 114) BY DEF Hyphen
<1>5. PrecedesBy(114, s, 114, t) BY PrecedesFrom
<1>6. q \o s \in Seq(A) /\ q \o t \in Seq(A)
  <2>. HIDE DEF A, q
  <2>. QED BY <1>2, ConcatProperties
<1>7. PrecedesBy(Hyphen, q \o s, Hyphen, q \o t)
  <2>. HIDE DEF q
  <2>. QED BY <1>1, <1>6, PrecedesFrom
<1>8. c \o s = p \o (q \o s) /\ c \o t = p \o (q \o t)
  <2>. HIDE DEF A, p, q, c
  <2>1. ASSUME NEW z \in Seq(A) PROVE (p \o q) \o z = p \o (q \o z)
    BY ONLY <1>2, <2>1, ConcatAssociative
  <2>2. c \o s = p \o (q \o s) BY <1>2, <1>3, <2>1, Zenon
  <2>3. c \o t = p \o (q \o t) BY <1>2, <1>3, <2>1, Zenon
  <2>. QED BY <2>2, <2>3, Zenon
<1>9. Precedes(c \o s, c \o t) <=> Precedes(s, t)
  <2>. HIDE DEF c
  <2>. QED BY <1>4, <1>5, <1>7, <1>8, Zenon DEF PrecedesBy, p, q
<1>. QED BY <1>9

(* Their versions are in the order that they came in.                      *)
LEMMA AgedCompare ==
  ASSUME NEW r \in Aged, NEW s \in Aged
  PROVE  Compare(VersionOf(r), VersionOf(s)) = Sooner(Before(r, s), Before(s, r))
<1>. DEFINE a == r.major
            b == s.major
            c == r.minor
            d == s.minor
            x == SuffixOf(r)
            y == SuffixOf(s)
            n == r.stage = "next"
            m == s.stage = "next"
            p == isPreRelease(x)
            q == isPreRelease(y)
            k == Stage(r)
            l == Stage(s)
            Fore == Precedes(r.letter, s.letter)
            Aft == Precedes(s.letter, r.letter)
<1>1. a \in Nat /\ b \in Nat /\ c \in Nat /\ d \in Nat BY DEF Aged
<1>2. ASSUME NEW z \in Aged
      PROVE  /\ z.stage = "next" => ~isPreRelease(SuffixOf(z))
             /\ Stage(z) = IF z.stage = "next" THEN 0 ELSE IF isPreRelease(SuffixOf(z)) THEN 1 ELSE 2
  <2>1. isPreRelease(SuffixOf(z)) <=> z.stage = "candidate" BY StageIs
  <2>. QED BY <2>1, Zenon DEF Stage
<1>3. /\ n => ~p
      /\ m => ~q
      /\ k = IF n THEN 0 ELSE IF p THEN 1 ELSE 2
      /\ l = IF m THEN 0 ELSE IF q THEN 1 ELSE 2
  BY <1>2, Zenon
<1>4. p = q => CompareBytes(x, y) = Sooner(Fore, Aft)
  <2>1. x \in Seq(Nat) /\ y \in Seq(Nat) /\ r.letter \in Seq(Nat) /\ s.letter \in Seq(Nat)
    BY StageIs
  <2>2. /\ p <=> r.stage = "candidate"
        /\ q <=> s.stage = "candidate"
        /\ r.stage # "candidate" => x = r.letter
        /\ s.stage # "candidate" => y = s.letter
    BY StageIs
  <2>3. CompareBytes(x, y) = Sooner(Precedes(x, y), Precedes(y, x))
    <3>. HIDE DEF x, y
    <3>. QED BY <2>1, ComparesBytes
  <2>4. CASE p /\ q
    <3>1. x = <<Hyphen, 114>> \o r.letter /\ y = <<Hyphen, 114>> \o s.letter
      BY <2>2, <2>4, Zenon DEF SuffixOf, Hung
    <3>2. (Precedes(x, y) <=> Fore) /\ (Precedes(y, x) <=> Aft)
      <4>. DEFINE h == <<Hyphen, 114>>
      <4>1. /\ Precedes(h \o r.letter, h \o s.letter) <=> Fore
            /\ Precedes(h \o s.letter, h \o r.letter) <=> Aft
        BY <2>1, PrecedesAfter, Zenon
      <4>2. x = h \o r.letter /\ y = h \o s.letter BY <3>1, Zenon
      <4>. HIDE DEF h, x, y, Fore, Aft
      <4>. QED BY <4>1, <4>2, Zenon
    <3>. HIDE DEF x, y, p, q, Fore, Aft
    <3>. QED BY <2>3, <3>2, Zenon DEF Sooner
  <2>5. CASE ~p /\ ~q
    <3>1. x = r.letter /\ y = s.letter BY <2>2, <2>5, Zenon
    <3>. QED BY <2>3, <3>1, Zenon
  <2>. HIDE DEF p, q, x, y
  <2>. QED BY <2>4, <2>5
<1>5. /\ Before(r, s) <=> \/ a < b
                          \/ a = b /\ (c < d \/ (c = d /\ (k < l \/ (k = l /\ Fore))))
      /\ Before(s, r) <=> \/ b < a
                          \/ b = a /\ (d < c \/ (d = c /\ (l < k \/ (l = k /\ Aft))))
  BY BeforeIs, Zenon
<1>6. Compare(VersionOf(r), VersionOf(s)) =
        IF a # b THEN sign(a - b)
        ELSE IF c # d THEN sign(c - d)
        ELSE IF n # m THEN First(n)
        ELSE IF p # q THEN First(p)
        ELSE CompareBytes(x, y)
  <2>1. /\ VersionOf(r) = [Major |-> a, Minor |-> c, Suffix |-> x, Next |-> n, Unknown |-> FALSE]
        /\ VersionOf(s) = [Major |-> b, Minor |-> d, Suffix |-> y, Next |-> m, Unknown |-> FALSE]
    BY DEF VersionOf, Version
  <2>. HIDE DEF a, b, c, d, x, y, n, m, p, q
  <2>. QED BY <2>1 DEF Compare, p, q
<1>7. p \in BOOLEAN /\ q \in BOOLEAN /\ n \in BOOLEAN /\ m \in BOOLEAN BY DEF isPreRelease
<1>. HIDE DEF a, b, c, d, x, y, n, m, p, q, k, l, Fore, Aft
<1>8. CASE a # b BY <1>1, <1>5, <1>6, <1>8 DEF sign, Sooner
<1>9. CASE a = b /\ c # d BY <1>1, <1>5, <1>6, <1>9 DEF sign, Sooner
<1>10. CASE a = b /\ c = d
  <2>1. ~(a < b) /\ ~(b < a) /\ ~(c < d) /\ ~(d < c) BY <1>1, <1>10
  <2>2. /\ Before(r, s) <=> k < l \/ (k = l /\ Fore)
        /\ Before(s, r) <=> l < k \/ (l = k /\ Aft)
    BY <1>5, <1>10, <2>1, Zenon
  <2>3. CASE n # m
    <3>1. CASE n /\ ~m
      <4>1. k = 0 /\ (l = 1 \/ l = 2) BY <1>3, <3>1, Zenon
      <4>2. k < l /\ ~(l < k) /\ k # l BY <4>1
      <4>3. Sooner(Before(r, s), Before(s, r)) = -1 BY <2>2, <4>2, Zenon DEF Sooner
      <4>4. Compare(VersionOf(r), VersionOf(s)) = First(n) BY <1>6, <1>10, <2>3, Zenon
      <4>. QED BY <3>1, <4>3, <4>4, Zenon DEF First
    <3>2. CASE ~n /\ m
      <4>1. l = 0 /\ (k = 1 \/ k = 2) BY <1>3, <3>2, Zenon
      <4>2. l < k /\ ~(k < l) /\ k # l BY <4>1
      <4>3. Sooner(Before(r, s), Before(s, r)) = 1 BY <2>2, <4>2, Zenon DEF Sooner
      <4>4. Compare(VersionOf(r), VersionOf(s)) = First(n) BY <1>6, <1>10, <2>3, Zenon
      <4>. QED BY <3>2, <4>3, <4>4, Zenon DEF First
    <3>3. (n /\ ~m) \/ (~n /\ m) BY ONLY <1>7, <2>3
    <3>. QED BY <3>1, <3>2, <3>3, Zenon
  <2>4. CASE n = m /\ p # q
    <3>0. Compare(VersionOf(r), VersionOf(s)) = First(p) BY <1>6, <1>10, <2>4, Zenon
    <3>1. CASE p /\ ~q
      <4>1. k = 1 /\ l = 2 BY ONLY <1>3, <1>7, <2>4, <3>1
      <4>2. k < l /\ ~(l < k) /\ k # l BY <4>1
      <4>3. Sooner(Before(r, s), Before(s, r)) = -1 BY <2>2, <4>2, Zenon DEF Sooner
      <4>. QED BY <3>0, <3>1, <4>3, Zenon DEF First
    <3>2. CASE ~p /\ q
      <4>1. k = 2 /\ l = 1 BY ONLY <1>3, <1>7, <2>4, <3>2
      <4>2. l < k /\ ~(k < l) /\ k # l BY <4>1
      <4>3. Sooner(Before(r, s), Before(s, r)) = 1 BY <2>2, <4>2, Zenon DEF Sooner
      <4>. QED BY <3>0, <3>2, <4>3, Zenon DEF First
    <3>3. (p /\ ~q) \/ (~p /\ q) BY ONLY <1>7, <2>4
    <3>. QED BY <3>1, <3>2, <3>3, Zenon
  <2>5. CASE n = m /\ p = q
    <3>1. k = l BY ONLY <1>3, <1>7, <2>5
    <3>2. k \in Nat BY <1>3
    <3>3. ~(k < l) /\ ~(l < k) BY ONLY <3>1, <3>2
    <3>4. (Before(r, s) <=> Fore) /\ (Before(s, r) <=> Aft) BY <2>2, <3>1, <3>3, Zenon
    <3>5. Compare(VersionOf(r), VersionOf(s)) = CompareBytes(x, y) BY <1>6, <1>10, <2>5, Zenon
    <3>. QED BY <1>4, <2>5, <3>4, <3>5, Zenon DEF Sooner
  <2>. QED BY <2>3, <2>4, <2>5, Zenon
<1>. QED BY <1>8, <1>9, <1>10, Zenon

(* Six texts put together from the left are one text and another after it. *)
SixWays(p, a, d, b, y, l) ==
  ((((p \o a) \o d) \o b) \o y) \o l = p \o ((a \o d) \o (b \o (y \o l)))

LEMMA SixRegrouped ==
  ASSUME NEW A, NEW p \in Seq(A), NEW a \in Seq(A), NEW d \in Seq(A), NEW b \in Seq(A),
         NEW y \in Seq(A), NEW l \in Seq(A)
  PROVE  SixWays(p, a, d, b, y, l)
<1>. DEFINE f == a \o d
            t == y \o l
            u == b \o t
            h == p \o f
<1>1. f \in Seq(A) /\ t \in Seq(A) BY ConcatProperties
<1>2. u \in Seq(A) BY <1>1, ConcatProperties
<1>3. h \in Seq(A) BY <1>1, ConcatProperties
<1>4. Regroups(p, a, d) BY Regrouped
<1>5. Regroups(b, y, l) BY Regrouped
<1>. HIDE DEF f, t, u
<1>6. Regroups(p, f, u) BY <1>1, <1>2, Regrouped
<1>. HIDE DEF h
<1>7. h \o b \in Seq(A) BY <1>3, ConcatProperties
<1>8. Regroups(h, b, t) BY <1>1, <1>3, Regrouped
<1>. DEFINE k == h \o b
<1>9. k \in Seq(A) BY <1>7
<1>. HIDE DEF k
<1>10. Regroups(k, y, l) BY <1>9, Regrouped
<1>11. (k \o y) \o l = h \o (b \o t) BY <1>8, <1>10, Zenon DEF Regroups, k, t
<1>12. h \o (b \o t) = p \o (f \o u) BY <1>6, Zenon DEF Regroups, h, u
<1>13. (p \o a) \o d = h BY <1>4, Zenon DEF Regroups, h, f
<1>. QED BY <1>11, <1>12, <1>13, Zenon DEF SixWays, f, t, u, k

(* The text of a release is read as its version, with the word or not.     *)
LEMMA ReleaseRead ==
  ASSUME NEW r \in Release
  PROVE  AgeOnly(r) \in Aged /\ TakenAs(TextOf(r), VersionOf(AgeOnly(r)))
<1>. DEFINE q == AgeOnly(r)
            D == Code \ {SpaceByte}
            p == IF r.os THEN OsName ELSE IF r.stage = "next" THEN NextPrefix ELSE <<>>
            a == Numeral(r.major)
            d == <<Dot>>
            b == Numeral(r.minor)
            y == Hung(q)
            l == r.letter
            w == SuffixOf(q)
<1>1. /\ r.major \in 1..99 /\ r.minor \in 0..99 /\ r.stage \in Stages /\ l \in Seq(Letter)
      /\ r.os => r.stage = "release"
      /\ r.os \in BOOLEAN
  BY DEF Release
<1>2. q \in Aged
  <2>1. r.major \in Nat /\ r.minor \in Nat
    <3>1. 1..99 \subseteq Nat /\ 0..99 \subseteq Nat OBVIOUS
    <3>. QED BY <1>1, <3>1, Zenon
  <2>. QED BY <1>1, <2>1 DEF Aged, AgeOnly
<1>3. q.major = r.major /\ q.minor = r.minor /\ q.stage = r.stage /\ q.letter = l BY DEF AgeOnly
<1>4. /\ a \in Seq(Digit) /\ a # <<>> /\ Atoi(a) = r.major
      /\ b \in Seq(Digit) /\ b # <<>> /\ Atoi(b) = r.minor
  <2>1. r.major \in 0..99 BY <1>1
  <2>. QED BY <1>1, <2>1, NumeralRead
<1>5. w \in Seq(D) /\ AfterNumbers(w) /\ (r.stage # "candidate" => w = l)
  <2>. HIDE DEF q
  <2>. QED BY <1>2, <1>3, StageIs
<1>6. Fronts(p, r.stage = "next", w)
  <2>1. CASE r.os
    <3>1. p = OsName /\ r.stage = "release" BY <1>1, <2>1, Zenon
    <3>2. (r.stage = "next") = FALSE /\ r.stage # "candidate" BY <3>1
    <3>3. w \in Seq(Letter) BY <1>1, <1>5, <3>2, Zenon
    <3>. HIDE DEF w, l
    <3>. QED BY <3>1, <3>2, <3>3, Zenon DEF Fronts
  <2>2. CASE ~r.os /\ r.stage = "next"
    <3>1. p = NextPrefix /\ (r.stage = "next") = TRUE BY <2>2
    <3>. QED BY <3>1, Zenon DEF Fronts
  <2>3. CASE ~r.os /\ r.stage # "next"
    <3>1. p = <<>> /\ (r.stage = "next") = FALSE BY <2>3
    <3>. QED BY <3>1, Zenon DEF Fronts
  <2>. QED BY <1>1, <2>1, <2>2, <2>3, Zenon
<1>7. TextOf(r) = ((((p \o a) \o d) \o b) \o y) \o l
  BY <1>3, Zenon DEF TextOf, OsName, Hung
<1>8. /\ p \in Seq(Code) /\ a \in Seq(Code) /\ d \in Seq(Code) /\ b \in Seq(Code)
      /\ y \in Seq(Code) /\ l \in Seq(Code)
  <2>1. Digit \subseteq Code /\ Letter \subseteq Code BY DEF Digit, Letter, Code
  <2>2. Seq(Digit) \subseteq Seq(Code) /\ Seq(Letter) \subseteq Seq(Code)
    BY <2>1, SeqOfMore
  <2>3. OsName \in Seq(Code) /\ NextPrefix \in Seq(Code) /\ <<>> \in Seq(Code) /\ d \in Seq(Code)
        /\ <<Hyphen, 114>> \in Seq(Code)
    BY DEF OsName, NextPrefix, Hyphen, Dot, Code
  <2>4. p \in Seq(Code) BY <2>3, Zenon
  <2>5. y \in Seq(Code) BY <2>3, Zenon DEF Hung
  <2>. QED BY <1>1, <1>4, <2>2, <2>3, <2>4, <2>5
<1>9. w = y \o l BY <1>3, Zenon DEF SuffixOf
<1>. HIDE DEF p, a, d, b, y, l, w
<1>10. TextOf(r) = p \o ((a \o d) \o (b \o w))
  <2>1. SixWays(p, a, d, b, y, l) BY <1>8, SixRegrouped
  <2>. QED BY <1>7, <1>9, <2>1, Zenon DEF SixWays
<1>11. TextOf(r) = p \o BareText(a, b, w) BY <1>10, Zenon DEF BareText, d
<1>12. TakenAs(p \o BareText(a, b, w), Version(Atoi(a), Atoi(b), w, r.stage = "next"))
  BY <1>4, <1>5, <1>6, TextParsed DEF D
<1>13. VersionOf(q) = Version(Atoi(a), Atoi(b), w, r.stage = "next")
  BY <1>3, <1>4, Zenon DEF VersionOf, w
<1>. QED BY <1>2, <1>11, <1>12, <1>13, Zenon

(* A tree of unknown age is later than any release.                        *)
LEMMA MasterIsLast ==
  ASSUME NEW r \in Aged
  PROVE  Compare(ParseVersion(Master), VersionOf(r)) = 1
<1>. DEFINE t == Master
<1>1. t \in Seq(Code) /\ t \in Seq(Code \ {SpaceByte}) /\ t # <<>> /\ t[1] # 110
      /\ (\A i \in 1..Len(t) : t[i] # Dot) /\ (\A i \in 1..Len(t) : t[i] # Hyphen)
  <2>1. /\ 109 \in Code /\ 109 \in Code \ {SpaceByte} /\ Len(t) = 1 /\ t = <<109>> /\ t[1] = 109
        /\ 109 # Dot /\ 109 # Hyphen
    BY DEF Master, Code, SpaceByte, Dot, Hyphen
  <2>. QED BY <2>1
<1>. HIDE DEF t
<1>2. LastField(t) = t BY <1>1, LastFieldIs
<1>3. ~IsPrefix(NextPrefix, t) BY <1>1, NextSeen
<1>4. CutAt(t, Dot) = [before |-> t, after |-> <<>>, found |-> FALSE] BY <1>1, CutNowhere
<1>5. Split(t, Hyphen) = <<t>> BY <1>1, SplitWhole
<1>6. unprefixed(t) = t
  <2>1. AfterLastHyphen(t) = t BY <1>5 DEF AfterLastHyphen, Last
  <2>. QED BY <1>4, <2>1 DEF unprefixed
<1>7. Numbered(t, FALSE) = UnknownVersion(FALSE) BY <1>4 DEF Numbered
<1>8. ParseVersion(t) = UnknownVersion(FALSE)
  <2>1. IsPrefix(NextPrefix, t) = FALSE BY <1>3 DEF IsPrefix
  <2>. QED BY <1>2, <1>6, <1>7, <2>1, Zenon DEF ParseVersion
<1>9. UnknownVersion(FALSE).Unknown = TRUE /\ VersionOf(r).Unknown = FALSE
  BY DEF UnknownVersion, VersionOf, Version
<1>. DEFINE v == UnknownVersion(FALSE)
            u == VersionOf(r)
<1>10. v.Unknown = TRUE /\ u.Unknown = FALSE BY <1>9
<1>. HIDE DEF v, u
<1>11. Compare(v, u) = -First(TRUE) BY <1>10, Zenon DEF Compare
<1>12. -First(TRUE) = 1
  <2>1. First(TRUE) = -1 BY Zenon DEF First
  <2>2. -(-1) = 1
    <3>1. \A n \in Int : -(-n) = n OBVIOUS
    <3>2. 1 \in Int OBVIOUS
    <3>. QED BY <3>1, <3>2, Zenon
  <2>. QED BY <2>1, <2>2, Zenon
<1>. QED BY <1>8, <1>11, <1>12, Zenon DEF t, u, v

(* ParseVersion and Compare: however many releases are compared, of any    *)
(* numbers that two digits write, in any stage, with any letters, their    *)
(* versions are in the order they came in, and what depends on the version *)
(* is as it is in tmux of that age.                                        *)
THEOREM ReleasesCorrect == \A r \in Seq(Release) : ReleasesInOrder(r)
<1>. SUFFICES ASSUME NEW r \in Seq(Release) PROVE ReleasesInOrder(r) OBVIOUS
<1>. DEFINE V(i) == VersionOf(AgeOnly(r[i]))
            ReadOf(i) == ParseVersion(TextOf(r[i]))
<1>1. ASSUME NEW i \in 1..Len(r)
      PROVE  /\ r[i] \in Release /\ AgeOnly(r[i]) \in Aged /\ ReadOf(i) = V(i)
             /\ ParseVersion(<<116, SpaceByte>> \o TextOf(r[i]) \o <<SpaceByte>>) = V(i)
  <2>1. r[i] \in Release OBVIOUS
  <2>. QED BY <2>1, ReleaseRead, Zenon DEF TakenAs
<1>2. ASSUME NEW s
      PROVE  \A t : (Before(AgeOnly(t), s) <=> Before(t, s)) /\ (Before(s, AgeOnly(t)) <=> Before(s, t))
  <2>1. \A t : Age(AgeOnly(t)) = Age(t) BY DEF Age, AgeOnly, Stage
  <2>. QED BY <2>1, Zenon DEF Before
<1>3. Floor \in Aged /\ VersionOf(Floor) = MinimumVersion
  <2>1. /\ Floor.major = 3 /\ Floor.minor = 2 /\ Floor.stage = "release" /\ Floor.letter = <<>>
        /\ Floor \in Aged
    BY DEF Floor, Aged, Stages
  <2>2. Hung(Floor) = <<>> BY <2>1 DEF Hung
  <2>3. SuffixOf(Floor) = <<>> BY <2>1, <2>2 DEF SuffixOf
  <2>. QED BY <2>1, <2>3 DEF VersionOf, MinimumVersion, Version
<1>4. ASSUME NEW i \in 1..Len(r)
      PROVE  AtLeast(V(i), MinimumVersion) <=> ~Before(r[i], Floor)
  <2>1. Compare(V(i), MinimumVersion)
          = Sooner(Before(AgeOnly(r[i]), Floor), Before(Floor, AgeOnly(r[i])))
    BY <1>1, <1>3, AgedCompare
  <2>2. Before(AgeOnly(r[i]), Floor) <=> Before(r[i], Floor) BY <1>2
  <2>3. \A x, y : Sooner(x, y) >= 0 <=> ~x BY DEF Sooner
  <2>4. Compare(V(i), MinimumVersion) >= 0 <=> ~Before(AgeOnly(r[i]), Floor) BY <2>1, <2>3
  <2>. QED BY <2>2, <2>4, Zenon DEF AtLeast
<1>5. ASSUME NEW i \in 1..Len(r)
      PROVE  SetSize(V(i), 80, 24) = {<<80, IF Before(r[i], Floor) THEN "," ELSE "x", 24>>}
  <2>1. ~V(i).Unknown /\ V(i).Major > 0
    <3>1. V(i).Unknown = FALSE /\ V(i).Major = AgeOnly(r[i]).major BY DEF VersionOf, Version
    <3>2. AgeOnly(r[i]).major = r[i].major BY DEF AgeOnly
    <3>3. r[i].major \in 1..99 BY <1>1 DEF Release
    <3>4. r[i].major > 0
      <4>1. \A n \in 1..99 : n > 0 OBVIOUS
      <4>. QED BY <3>3, <4>1, Zenon
    <3>. HIDE DEF V
    <3>. QED BY <3>1, <3>2, <3>4, Zenon
  <2>2. AtLeast(V(i), Version(3, 2, <<>>, FALSE)) <=> ~Before(r[i], Floor)
    BY <1>4, Zenon DEF MinimumVersion
  <2>. HIDE DEF V
  <2>3. SizeSeparator(V(i)) = IF Before(r[i], Floor) THEN "," ELSE "x"
    BY <2>1, <2>2, Zenon DEF SizeSeparator
  <2>4. ~(80 <= 0) /\ ~(24 <= 0) OBVIOUS
  <2>. QED BY <2>3, <2>4, Zenon DEF SetSize
<1>6. ASSUME NEW i \in 1..Len(r)
      PROVE  EscapesDollarOnWrite(V(i)) <=>
               r[i].major = 3 /\ r[i].minor = 4 /\ r[i].stage = "release"
  <2>. DEFINE q == AgeOnly(r[i])
  <2>1. q \in Aged BY <1>1
  <2>2. q.major = r[i].major /\ q.minor = r[i].minor /\ q.stage = r[i].stage BY DEF AgeOnly
  <2>. HIDE DEF q
  <2>3. isPreRelease(SuffixOf(q)) <=> q.stage = "candidate" BY <2>1, StageIs
  <2>4. q.stage \in Stages BY <2>1 DEF Aged
  <2>5. q.stage = "release" <=> q.stage # "next" /\ q.stage # "candidate" BY <2>4 DEF Stages
  <2>6. LET v == VersionOf(q)
        IN /\ v.Unknown = FALSE /\ v.Major = q.major /\ v.Minor = q.minor
           /\ v.Next = (q.stage = "next") /\ v.Suffix = SuffixOf(q)
    BY DEF VersionOf, Version
  <2>7. EscapesDollarOnWrite(VersionOf(q)) <=> q.major = 3 /\ q.minor = 4 /\ q.stage = "release"
    BY <2>3, <2>5, <2>6, Zenon DEF EscapesDollarOnWrite
  <2>. QED BY <2>2, <2>7, Zenon DEF q
<1>7. ASSUME NEW i \in 1..Len(r), NEW j \in 1..Len(r)
      PROVE  Compare(V(i), V(j)) =
               (IF Before(r[i], r[j]) THEN -1 ELSE IF Before(r[j], r[i]) THEN 1 ELSE 0)
  <2>. DEFINE q == AgeOnly(r[i])
              s == AgeOnly(r[j])
  <2>1. q \in Aged /\ s \in Aged BY <1>1
  <2>2. (Before(q, s) <=> Before(r[i], r[j])) /\ (Before(s, q) <=> Before(r[j], r[i]))
    BY <1>2, Zenon
  <2>. HIDE DEF q, s
  <2>3. Compare(VersionOf(q), VersionOf(s)) = Sooner(Before(q, s), Before(s, q))
    BY <2>1, AgedCompare
  <2>4. Sooner(Before(q, s), Before(s, q))
          = (IF Before(r[i], r[j]) THEN -1 ELSE IF Before(r[j], r[i]) THEN 1 ELSE 0)
    BY <2>2, Zenon DEF Sooner
  <2>. QED BY <2>3, <2>4, Zenon DEF q, s
<1>8. ASSUME NEW i \in 1..Len(r) PROVE Compare(ParseVersion(Master), V(i)) = 1
  BY <1>1, <1>8, MasterIsLast
<1>. HIDE DEF V, ReadOf
<1>9. ASSUME NEW i \in 1..Len(r), NEW j \in 1..Len(r)
      PROVE  Compare(ReadOf(i), ReadOf(j)) =
               (IF Before(r[i], r[j]) THEN -1 ELSE IF Before(r[j], r[i]) THEN 1 ELSE 0)
  <2>1. ReadOf(i) = V(i) /\ ReadOf(j) = V(j) BY <1>1, Zenon
  <2>. QED BY <1>7, <2>1, Zenon
<1>10. ASSUME NEW i \in 1..Len(r)
       PROVE  /\ ParseVersion(<<116, SpaceByte>> \o TextOf(r[i]) \o <<SpaceByte>>) = ReadOf(i)
              /\ AtLeast(ReadOf(i), MinimumVersion) <=> ~Before(r[i], Floor)
              /\ Compare(ParseVersion(Master), ReadOf(i)) = 1
              /\ SetSize(ReadOf(i), 80, 24) = {<<80, IF Before(r[i], Floor) THEN "," ELSE "x", 24>>}
              /\ EscapesDollarOnWrite(ReadOf(i)) <=>
                   r[i].major = 3 /\ r[i].minor = 4 /\ r[i].stage = "release"
  <2>1. ReadOf(i) = V(i) BY <1>1, Zenon
  <2>. QED BY <1>1, <1>4, <1>5, <1>6, <1>8, <2>1, Zenon
<1>. QED BY <1>9, <1>10, Zenon DEF ReleasesInOrder, ReadOf

-----------------------------------------------------------------------------
(* What TLC grows is what the theorems are about *)

(* What grows is one of these.                                             *)
InputTyped ==
  /\ "kind" \in DOMAIN input
  /\ input.kind = "none" => input = NoInput
  /\ input.kind = "options" => input.calls \in Seq(Calls)
  /\ input.kind = "subscriptions" => input.calls \in Seq(SubscriptionCall)
  /\ input.kind = "pause" => input.ticks \in Int
  /\ input.kind = "configuration" => input.opts \in Seq(Option)
  /\ input.kind = "rows" => input \in [kind : {"rows"}, spec : Specs, objects : Seq(Objects)]
  /\ input.kind = "versions" => input.releases \in Seq(Release)
  /\ input.kind = "notices" => ToldIn(TextFields, input.told, input.lines)
  /\ input.kind = "noise" => input.line.name \in N!Names /\ input.line.args \in Text(TextFields)

(* Every list that grows is one that the theorems above are about.         *)
LEMMA InputIsTyped == Spec => []InputTyped
<1>1. Init => InputTyped BY DEF Init, InputTyped, NoInput
<1>2. InputTyped /\ [Next]_<<args, value, faulty, input>> => InputTyped'
  <2>. SUFFICES ASSUME InputTyped, [Next]_<<args, value, faulty, input>> PROVE InputTyped' OBVIOUS
  <2>1. ASSUME NEW kind, Grows(kind)
        PROVE  input = NoInput \/ input.kind = kind
    BY <2>1 DEF Grows, InputTyped
  <2>2. CASE AddSubscription
    <3>. DEFINE calls == IF input = NoInput THEN <<>> ELSE input.calls
    <3>1. PICK c \in SubscriptionCalls :
            input' = [kind |-> "subscriptions", calls |-> Append(calls, c)]
      BY <2>2 DEF AddSubscription
    <3>2. calls \in Seq(SubscriptionCall)
      <4>1. input = NoInput \/ input.kind = "subscriptions" BY <2>1, <2>2 DEF AddSubscription
      <4>. QED BY <4>1 DEF InputTyped
    <3>3. c \in SubscriptionCall
      <4>1. SubscriptionNames \subseteq Seq(Code)
        BY DEF SubscriptionNames, Code, Colon, Delete
      <4>2. {<<>>, <<120>>, <<Colon, 120>>} \subseteq Seq(Code) BY DEF Code, Colon
      <4>3. {<<>>, <<37, 42>>, <<37, 48>>, <<37>>, <<120>>, <<64, 49, Colon>>} \subseteq Seq(Code)
        BY DEF Code, Colon
      <4>. DEFINE F == {<<>>, <<120>>, <<Colon, 120>>}
                  T == {<<>>, <<37, 42>>, <<37, 48>>, <<37>>, <<120>>, <<64, 49, Colon>>}
      <4>4. SubscriptionCalls =
              [op : {"subscribe"}, name : SubscriptionNames, format : F, target : T]
                \union [op : {"unsubscribe"}, name : SubscriptionNames]
        BY DEF SubscriptionCalls
      <4>. HIDE DEF F, T
      <4>5. F \subseteq Seq(Code) /\ T \subseteq Seq(Code) BY <4>2, <4>3 DEF F, T
      <4>. QED BY <4>1, <4>4, <4>5 DEF SubscriptionCall
    <3>. HIDE DEF calls
    <3>4. Append(calls, c) \in Seq(SubscriptionCall) BY <3>2, <3>3
    <3>. QED BY <3>1, <3>4 DEF InputTyped
  <2>3. CASE AddPause
    <3>1. PICK d \in -1..(Second * (MaxInt32 + 2)) : input' = [kind |-> "pause", ticks |-> d]
      BY <2>3 DEF AddPause
    <3>2. d \in Int OBVIOUS
    <3>. QED BY <3>1, <3>2 DEF InputTyped
  <2>4. CASE AddOption
    <3>. DEFINE opts == IF input = NoInput THEN <<>> ELSE input.opts
    <3>1. PICK o \in Option : input' = [kind |-> "configuration", opts |-> Append(opts, o)]
      <4>. DEFINE o(name, given) == [with |-> name, given |-> given]
                  Set(name, given) ==
                    input' = [kind |-> "configuration", opts |-> Append(opts, o(name, given))]
      <4>1. ASSUME NEW name, NEW given, Set(name, given), o(name, given) \in Option
            PROVE  \E x \in Option : input' = [kind |-> "configuration", opts |-> Append(opts, x)]
        BY <4>1
      <4>2. ASSUME NEW name \in {"WithBinary", "WithSocketPath", "WithSocketName"}, NEW text \in {"", "s"}
            PROVE  o(name, text) \in Option
        BY DEF Option, Strings
      <4>3. ASSUME NEW name \in {"WithoutParentEnv", "WithoutVersionCheck", "WithDoubleControlMode"}
            PROVE  o(name, "") \in Option
        BY DEF Option, Strings
      <4>4. ASSUME NEW name \in {"WithEventBuffer", "WithOutputBuffer", "WithCloseTimeout"},
                   NEW n \in {-1, 0, 1}
            PROVE  o(name, n) \in Option
        BY DEF Option
      <4>5. ASSUME NEW entries \in {<<>>, <<"E=1">>} PROVE o("WithEnv", entries) \in Option
        <5>1. "E=1" \in Strings BY DEF Strings
        <5>2. <<>> \in Seq(Strings) /\ <<"E=1">> \in Seq(Strings) BY <5>1
        <5>. QED BY <5>2 DEF Option
      <4>6. ASSUME NEW command \in {<<>>, <<"c">>} PROVE o("WithControlArgs", command) \in Option
        <5>1. "c" \in Strings BY DEF Strings
        <5>2. <<>> \in Seq(Strings) /\ <<"c">> \in Seq(Strings) BY <5>1
        <5>. QED BY <5>2 DEF Option
      <4>7. ASSUME NEW session \in {"", "$0", "work"} PROVE o("WithAttach", session) \in Option
        BY DEF Option, Strings
      <4>8. \/ \E name \in {"WithBinary", "WithSocketPath", "WithSocketName"}, text \in {"", "s"} :
                  Set(name, text)
            \/ \E name \in {"WithoutParentEnv", "WithoutVersionCheck", "WithDoubleControlMode"} :
                  Set(name, "")
            \/ \E name \in {"WithEventBuffer", "WithOutputBuffer", "WithCloseTimeout"}, n \in {-1, 0, 1} :
                  Set(name, n)
            \/ \E entries \in {<<>>, <<"E=1">>} : Set("WithEnv", entries)
            \/ \E command \in {<<>>, <<"c">>} : Set("WithControlArgs", command)
            \/ \E session \in {"", "$0", "work"} : Set("WithAttach", session)
        BY <2>4, Zenon DEF AddOption
      <4>. HIDE DEF Set, o
      <4>. QED BY <4>1, <4>2, <4>3, <4>4, <4>5, <4>6, <4>7, <4>8, Zenon
    <3>2. opts \in Seq(Option)
      <4>1. input = NoInput \/ input.kind = "configuration" BY <2>1, <2>4 DEF AddOption
      <4>. QED BY <4>1 DEF InputTyped
    <3>. HIDE DEF opts
    <3>3. Append(opts, o) \in Seq(Option) BY <3>2
    <3>. QED BY <3>1, <3>3 DEF InputTyped
  <2>5. CASE AddRow
    <3>1. CASE input = NoInput
      <4>1. PICK spec \in Specs : input' = [kind |-> "rows", spec |-> spec, objects |-> <<>>]
        BY <2>5, <3>1 DEF AddRow
      <4>2. <<>> \in Seq(Objects) OBVIOUS
      <4>3. input'.kind = "rows" /\ input' \in [kind : {"rows"}, spec : Specs, objects : Seq(Objects)]
        BY <4>1, <4>2
      <4>4. "kind" \in DOMAIN input' BY <4>1
      <4>. QED BY <4>3, <4>4 DEF InputTyped
    <3>2. CASE input # NoInput
      <4>1. PICK o \in Objects : input' = [input EXCEPT !.objects = Append(@, o)]
        BY <2>5, <3>2 DEF AddRow
      <4>2. input.kind = "rows" BY <2>1, <2>5, <3>2 DEF AddRow
      <4>3. input \in [kind : {"rows"}, spec : Specs, objects : Seq(Objects)] BY <4>2 DEF InputTyped
      <4>4. Append(input.objects, o) \in Seq(Objects) BY <4>3
      <4>5. input' \in [kind : {"rows"}, spec : Specs, objects : Seq(Objects)] BY <4>1, <4>3, <4>4
      <4>6. input'.kind = "rows" /\ "kind" \in DOMAIN input' BY <4>5
      <4>. QED BY <4>5, <4>6 DEF InputTyped
    <3>. QED BY <3>1, <3>2
  <2>6. CASE AddCall
    <3>. DEFINE calls == IF input = NoInput THEN <<>> ELSE input.calls
    <3>1. PICK c \in Calls : input' = [kind |-> "options", calls |-> Append(calls, c)]
      BY <2>6 DEF AddCall
    <3>2. calls \in Seq(Calls)
      <4>1. input = NoInput \/ input.kind = "options" BY <2>1, <2>6 DEF AddCall
      <4>. QED BY <4>1 DEF InputTyped
    <3>. HIDE DEF calls
    <3>3. Append(calls, c) \in Seq(Calls) BY <3>2
    <3>. QED BY <3>1, <3>3 DEF InputTyped
  <2>7. CASE AddRelease
    <3>. DEFINE releases == IF input = NoInput THEN <<>> ELSE input.releases
    <3>1. PICK r \in Releases :
            /\ r.os => r.stage = "release"
            /\ input' = [kind |-> "versions", releases |-> Append(releases, r)]
      BY <2>7 DEF AddRelease
    <3>2. releases \in Seq(Release)
      <4>1. input = NoInput \/ input.kind = "versions" BY <2>1, <2>7 DEF AddRelease
      <4>. QED BY <4>1 DEF InputTyped
    <3>3. r \in Release
      <4>1. {2, 3, 10} \subseteq 1..99 /\ {2, 4, 10} \subseteq 0..99 OBVIOUS
      <4>2. Letters \subseteq Seq(Letter) BY DEF Letters, Letter
      <4>3. /\ r.major \in {2, 3, 10} /\ r.minor \in {2, 4, 10} /\ r.stage \in Stages
            /\ r.letter \in Letters /\ r.os \in BOOLEAN
            /\ r = [major |-> r.major, minor |-> r.minor, stage |-> r.stage,
                    letter |-> r.letter, os |-> r.os]
        BY DEF Releases
      <4>4. r.major \in 1..99 /\ r.minor \in 0..99 /\ r.letter \in Seq(Letter)
        BY <4>1, <4>2, <4>3, Zenon
      <4>5. r \in [major : 1..99, minor : 0..99, stage : Stages, letter : Seq(Letter), os : BOOLEAN]
        BY <4>3, <4>4
      <4>. QED BY <3>1, <4>5, Zenon DEF Release
    <3>. HIDE DEF releases
    <3>4. Append(releases, r) \in Seq(Release) BY <3>2, <3>3
    <3>. QED BY <3>1, <3>4 DEF InputTyped
  <2>8. CASE AddNotice
    <3>. DEFINE told == IF input = NoInput THEN <<>> ELSE input.told
                lines == IF input = NoInput THEN <<>> ELSE input.lines
                few == {<<"a">>}
                Tell(e, older) == \E line \in N!Written(e, older) :
                  input' = [kind |-> "notices", told |-> Append(told, e), lines |-> Append(lines, line)]
    <3>1. ToldIn(TextFields, told, lines)
      <4>1. CASE input = NoInput
        <5>1. told = <<>> /\ lines = <<>> BY <4>1
        <5>. HIDE DEF told, lines
        <5>. QED BY <5>1 DEF ToldIn
      <4>2. CASE input.kind = "notices" /\ input # NoInput BY <4>2, Zenon DEF InputTyped
      <4>. QED BY <2>1, <2>8, <4>1, <4>2 DEF AddNotice
    <3>2. ASSUME NEW e, NEW older \in BOOLEAN, Tell(e, older), e \in ToldWith(Text(TextFields)),
                 older => \E name \in Trimmed(Text(TextFields)) : \E i \in 1..Len(told) :
                            /\ Attaches(told, i)
                            /\ e = [is |-> "SessionRenamed", of |-> told[i].of, name |-> name]
          PROVE  InputTyped'
      <4>1. PICK line \in N!Written(e, older) :
              input' = [kind |-> "notices", told |-> Append(told, e), lines |-> Append(lines, line)]
        BY <3>2
      <4>. HIDE DEF told, lines, Tell
      <4>2. ToldIn(TextFields, Append(told, e), Append(lines, line)) BY <3>1, <3>2, TellsMore
      <4>. QED BY <4>1, <4>2 DEF InputTyped
    <3>3. Told \subseteq ToldWith(Text(TextFields))
      BY TextsAreTexts, ToldGrows DEF Told
    <3>4. SessionEvents(few) \subseteq ToldWith(Text(TextFields))
      <4>1. <<"a">> \in Texts BY ShortTexts
      <4>2. SessionEvents(few) \subseteq Told BY <4>1 DEF Told, ToldWith, SessionEvents
      <4>. QED BY <3>3, <4>2
    <3>5. ASSUME NEW name \in Trimmed(Texts), NEW i \in 1..Len(told), Attaches(told, i)
          PROVE  [is |-> "SessionRenamed", of |-> told[i].of, name |-> name] \in ToldWith(Text(TextFields))
      <4>. HIDE DEF told, Tell
      <4>1. told \in Seq(ToldWith(Text(TextFields))) BY <3>1 DEF ToldIn
      <4>2. told[i] \in ToldWith(Text(TextFields)) /\ told[i].is = "SessionChanged"
        BY <3>5, <4>1 DEF Attaches
      <4>3. told[i].of \in {"$0", "$1"} BY <4>2, ChangesSay
      <4>4. name \in Text(TextFields) BY TextsAreTexts DEF Trimmed
      <4>. QED BY <4>3, <4>4 DEF ToldWith, SessionEvents
    <3>6. \/ \E e \in Told : Tell(e, FALSE)
          \/ \E e \in SessionEvents(few) : Tell(e, FALSE)
          \/ \E name \in Trimmed(Texts) : \E i \in 1..Len(told) :
               /\ Attaches(told, i)
               /\ Tell([is |-> "SessionRenamed", of |-> told[i].of, name |-> name], TRUE)
      BY <2>8, Zenon DEF AddNotice
    <3>7. Trimmed(Texts) \subseteq Trimmed(Text(TextFields)) BY TextsAreTexts
    <3>. HIDE DEF told, lines, few, Tell
    <3>8. ASSUME NEW name \in Trimmed(Texts), NEW i \in 1..Len(told), Attaches(told, i),
                 Tell([is |-> "SessionRenamed", of |-> told[i].of, name |-> name], TRUE)
          PROVE  InputTyped'
      <4>. DEFINE e == [is |-> "SessionRenamed", of |-> told[i].of, name |-> name]
      <4>1. e \in ToldWith(Text(TextFields)) BY <3>5, <3>8
      <4>2. \E n \in Trimmed(Text(TextFields)) : \E k \in 1..Len(told) :
              /\ Attaches(told, k)
              /\ e = [is |-> "SessionRenamed", of |-> told[k].of, name |-> n]
        BY <3>7, <3>8, Zenon
      <4>3. Tell(e, TRUE) BY <3>8
      <4>. HIDE DEF e
      <4>. QED BY <3>2, <4>1, <4>2, <4>3
    <3>9. ASSUME NEW e \in ToldWith(Text(TextFields)), Tell(e, FALSE) PROVE InputTyped'
      BY <3>2, <3>9
    <3>. QED BY <3>3, <3>4, <3>6, <3>8, <3>9
  <2>9. CASE AddNoise
    <3>1. PICK line \in [name : N!Names, args : Texts] : input' = [kind |-> "noise", line |-> line]
      BY <2>9, Zenon DEF AddNoise
    <3>2. line.name \in N!Names /\ line.args \in Text(TextFields) BY TextsAreTexts
    <3>. QED BY <3>1, <3>2 DEF InputTyped
  <2>10. CASE UNCHANGED input BY <2>10 DEF InputTyped
  <2>. QED BY <2>2, <2>3, <2>4, <2>5, <2>6, <2>7, <2>8, <2>9, <2>10
       DEF Next, TypeByte, NextArg, AddByte
<1>. QED BY <1>1, <1>2, PTL DEF Spec

(* Whatever calls are made, tmux has the subscriptions that were asked for *)
(* and tells each of its values under the name it is of, in one line       *)
(* unless the value breaks it, and a pause comes when it was asked to.     *)
THEOREM AskedCorrect == Spec => []AskedAsCalled
<1>1. InputTyped => AskedAsCalled BY SubscriptionsCorrect, PausesCorrect DEF InputTyped, AskedAsCalled
<1>. QED BY <1>1, InputIsTyped, PTL

(* Whatever releases are compared, their versions come in the order that   *)
(* they were released in, and decide what depends on it.                   *)
THEOREM VersionsCorrect == Spec => []VersionsInOrder
<1>1. InputTyped => VersionsInOrder BY ReleasesCorrect, Zenon DEF InputTyped, VersionsInOrder
<1>. QED BY <1>1, InputIsTyped, PTL

(* Whatever Options are given, the processes are the ones they ask for.    *)
THEOREM ConfiguredCorrect == Spec => []ConfiguredAsAsked
<1>1. InputTyped => ConfiguredAsAsked BY OptionsCorrect DEF InputTyped, ConfiguredAsAsked
<1>. QED BY <1>1, InputIsTyped, PTL

(* Whatever options are set and unset, what tmux prints of them is read as *)
(* they were set.                                                          *)
THEOREM StoredOptionsCorrect == Spec => []OptionReadsBack
<1>1. /\ ArrayName \in Seq(Code) /\ Len(ArrayName) = 1 /\ ArrayName[1] = 115
      /\ AtA \in Seq(Code) /\ Len(AtA) = 2
  BY DEF ArrayName, AtA, Code
<1>. HIDE DEF ArrayName, AtA
<1>0. ASSUME NEW a, NEW m, Len(a) = m, m # 1 PROVE a # ArrayName
  <2>. SUFFICES ASSUME a = ArrayName PROVE FALSE OBVIOUS
  <2>1. Len(a) = Len(ArrayName) BY Zenon
  <2>2. Len(ArrayName) = 1 BY <1>1
  <2>. QED BY ONLY <1>0, <2>1, <2>2, Zenon
<1>a. AtA # ArrayName
  <2>1. Len(AtA) = 2 /\ 2 # 1 BY <1>1
  <2>. QED BY ONLY <2>1, <1>0, Zenon
<1>2. ASSUME NEW n \in OptionNames PROVE n \in Seq(Code) /\ n # ArrayName
  <2>. DEFINE Tails == {<<32, 98>>, <<10, 98>>, <<91, 120, 93>>, <<91, 93>>, <<91, 48, 93>>,
                        <<36, 98>>, <<36>>}
  <2>1. n \in {<<>>, AtA, <<64, 98>>} \/ \E x \in Tails : n = AtA \o x
    <3>1. \/ n \in {<<>>, AtA, <<64, 98>>} \/ n = AtA \o <<32, 98>> \/ n = AtA \o <<10, 98>>
          \/ n = AtA \o <<91, 120, 93>> \/ n = AtA \o <<91, 93>> \/ n = AtA \o <<91, 48, 93>>
          \/ n = AtA \o <<36, 98>> \/ n = AtA \o <<36>>
      BY Zenon DEF OptionNames
    <3>2. /\ <<32, 98>> \in Tails /\ <<10, 98>> \in Tails /\ <<91, 120, 93>> \in Tails
          /\ <<91, 93>> \in Tails /\ <<91, 48, 93>> \in Tails /\ <<36, 98>> \in Tails
          /\ <<36>> \in Tails
      OBVIOUS
    <3>. HIDE DEF Tails
    <3>. QED BY <3>1, <3>2, Zenon
  <2>2. Tails \subseteq Seq(Code) BY DEF Code
  <2>. HIDE DEF Tails
  <2>3. CASE n \in {<<>>, AtA, <<64, 98>>}
    <3>1. <<>> \in Seq(Code) /\ <<64, 98>> \in Seq(Code) /\ Len(<<>>) = 0 /\ Len(<<64, 98>>) = 2
      BY DEF Code
    <3>2. CASE n = <<>>
      <4>1. <<>> # ArrayName BY ONLY <3>1, <1>0
      <4>. QED BY ONLY <4>1, <3>1, <3>2, Zenon
    <3>3. CASE n = AtA
      <4>1. AtA \in Seq(Code) BY <1>1
      <4>. QED BY ONLY <4>1, <1>a, <3>3, Zenon
    <3>4. CASE n = <<64, 98>>
      <4>. DEFINE d == <<64, 98>>
      <4>1. d \in Seq(Code) /\ Len(d) = 2 BY <3>1
      <4>. HIDE DEF d
      <4>2. n = d BY <3>4 DEF d
      <4>3. d # ArrayName BY ONLY <4>1, <1>0
      <4>. QED BY ONLY <4>1, <4>2, <4>3, Zenon
    <3>. QED BY <2>3, <3>2, <3>3, <3>4
  <2>4. ASSUME NEW x \in Tails, n = AtA \o x PROVE n \in Seq(Code) /\ n # ArrayName
    <3>1. x \in Seq(Code) /\ Len(x) \in Nat BY <2>2
    <3>2. AtA \o x \in Seq(Code) /\ Len(AtA \o x) = Len(AtA) + Len(x)
      <4>1. AtA \in Seq(Code) BY <1>1
      <4>. QED BY ONLY <3>1, <4>1, ConcatProperties
    <3>. QED BY <1>1, <2>4, <3>1, <3>2
  <2>. QED BY <2>1, <2>3, <2>4
<1>3. ASSUME NEW c \in Calls PROVE c \in OptionCall /\ c.name # ArrayName
  <2>1. OptionValues \subseteq Seq(Code) BY DEF OptionValues, Code
  <2>2. <<>> \in Seq(Code) OBVIOUS
  <2>3. c.name \in OptionNames BY DEF Calls
  <2>4. OptionNames \subseteq Seq(Code) BY <1>2
  <2>5. c \in OptionCall BY <2>1, <2>2, <2>4 DEF Calls, OptionCall
  <2>. QED BY <1>2, <2>3, <2>5
<1>4. ASSUME ValueTyped, InputTyped PROVE OptionReadsBack
  <2>. SUFFICES ASSUME input.kind \in {"none", "options"} PROVE OptionsAsCalled(faulty, Array, Called)
    BY DEF OptionReadsBack
  <2>1. faulty \in BOOLEAN /\ value \in Seq(Code) BY <1>4 DEF ValueTyped
  <2>2. Array \in Arrays BY DEF Array, Arrays
  <2>3. CASE input.kind = "none"
    <3>. DEFINE c == [op |-> "set", name |-> AtA, value |-> value]
    <3>1. Called = <<c>> BY <2>3 DEF Called
    <3>2. c \in OptionCall /\ c.name # ArrayName
      <4>1. AtA \in Seq(Code) BY <1>1
      <4>2. c \in OptionCall BY <2>1, <4>1 DEF OptionCall
      <4>3. c.name = AtA OBVIOUS
      <4>. HIDE DEF c
      <4>. QED BY ONLY <4>2, <4>3, <1>a, Zenon
    <3>. HIDE DEF c
    <3>3. Called \in Seq(OptionCall) /\ \A i \in 1..Len(Called) : Called[i].name # ArrayName
      BY <3>1, <3>2
    <3>. QED BY <2>1, <2>2, <3>3, CallsCorrect
  <2>4. CASE input.kind = "options"
    <3>1. Called \in Seq(Calls) BY <1>4, <2>4 DEF InputTyped, Called
    <3>2. Calls \subseteq OptionCall BY <1>3
    <3>3. Called \in Seq(OptionCall) BY <3>1, <3>2, SeqOfMore
    <3>4. \A i \in 1..Len(Called) : Called[i].name # ArrayName BY <1>3, <3>1
    <3>. QED BY <2>1, <2>2, <3>3, <3>4, CallsCorrect
  <2>. QED BY <2>3, <2>4
<1>5. ValueTyped /\ InputTyped => OptionReadsBack BY <1>4
<1>. QED BY <1>5, ValueIsBytes, InputIsTyped, PTL

(* The events are what tmux told, however much it told of whatever texts,  *)
(* nothing but an identifier is taken for one, and the escape of pane      *)
(* output is undone.                                                       *)
THEOREM EventsCorrect == Spec => []EventsArrive
<1>1. ASSUME ValueTyped, InputTyped PROVE EventsArrive
  <2>1. unescape(Escape(value)) = value
    <3>1. value \in Seq(Code) BY <1>1 DEF ValueTyped
    <3>. QED BY <3>1, OutputUndone
  <2>2. ASSUME input.kind = "notices" PROVE N!Read(input.lines).events = input.told
    <3>1. ToldIn(TextFields, input.told, input.lines) BY <1>1, <2>2, Zenon DEF InputTyped
    <3>. QED BY ONLY <3>1, FieldsPlain, ReadAsTold
  <2>3. ASSUME input.kind = "noise"
        PROVE  /\ N!Read(<<input.line>>).attached \in Sessions \union {""}
               /\ OnlyIds(N!Read(<<input.line>>).events[1])
    <3>. DEFINE line == input.line
    <3>1. line.name \in N!Names /\ line.args \in Text(TextFields)
      BY <1>1, <2>3, Zenon DEF InputTyped
    <3>. HIDE DEF line
    <3>2. line.args \in Seq(TextFields) /\ line.args # <<>> BY <3>1, Zenon DEF Text
    <3>3. /\ N!Read(<<line>>).attached \in Sessions \union {""}
          /\ OnlyIds(N!Read(<<line>>).events[1])
      BY ONLY <3>1, <3>2, FieldsPlain, NoiseHeard
    <3>. QED BY <3>3 DEF line
  <2>. QED BY <2>1, <2>2, <2>3, Zenon DEF EventsArrive
<1>2. ValueTyped /\ InputTyped => EventsArrive BY <1>1
<1>. QED BY <1>2, ValueIsBytes, InputIsTyped, PTL

(* Whatever objects are listed, each column of each row is read as it was  *)
(* asked for.                                                              *)
THEOREM RowsCorrect == Spec => []RowsReadBack
<1>1. ASSUME NEW spec \in Specs, NEW objects \in Seq(Objects) PROVE RowsAsListed(spec, objects)
  <2>. DEFINE E == {P, Q, ID}
  <2>1. spec \in Seq(E) /\ spec # <<>>
        /\ \A i, j \in 1..Len(spec) : spec[i] = spec[j] => i = j
    <3>1. P # Q /\ P # ID /\ Q # ID BY DEF P, Q, ID, Entry
    <3>. HIDE DEF E
    <3>2. P \in E /\ Q \in E /\ ID \in E BY DEF E
    <3>3. CASE spec = <<P>> BY <3>2, <3>3
    <3>4. ASSUME NEW a \in E, NEW c \in E, a # c, spec = <<a, c>>
          PROVE  spec \in Seq(E) /\ spec # <<>> /\ \A i, j \in 1..2 : spec[i] = spec[j] => i = j
      BY <3>4
    <3>5. CASE spec = <<ID, P, Q>> BY <3>1, <3>2, <3>5
    <3>. QED BY <3>1, <3>2, <3>3, <3>4, <3>5 DEF Specs
  <2>2. ASSUME NEW o \in Objects, NEW e \in E
        PROVE  o[e.var] \in Seq(Code) /\ (isBareVar(e) \/ o[e.var] \in Seq(Field))
    <3>1. {<<37, 48>>} \subseteq Seq(Field) BY DEF Field, RowText, Code, Tab, Newline
    <3>2. RowValues \subseteq Seq(Code) BY DEF RowValues, Code
    <3>3. Seq(Field) \subseteq Seq(Code)
      <4>1. Field \subseteq Code BY DEF Field, RowText
      <4>. QED BY <4>1, SeqOfMore
    <3>4. o.id \in Seq(Field) /\ o.p \in Seq(Code) /\ o.q \in Seq(Code)
      BY <3>1, <3>2 DEF Objects
    <3>5. CASE e = P BY <3>4, <3>5 DEF P, Entry, isBareVar
    <3>6. CASE e = Q BY <3>4, <3>6 DEF Q, Entry, isBareVar
    <3>7. CASE e = ID BY <3>3, <3>4, <3>7 DEF ID, Entry
    <3>. QED BY <3>5, <3>6, <3>7
  <2>3. Listable(spec, objects)
    <3>. HIDE DEF E
    <3>1. \A k \in 1..Len(objects) : objects[k] \in Objects OBVIOUS
    <3>2. \A i \in 1..Len(spec) : spec[i] \in E BY <2>1
    <3>. QED BY <2>1, <2>2, <3>1, <3>2 DEF Listable
  <2>. HIDE DEF E
  <2>. QED BY <2>1, <2>3, ListingsCorrect
<1>2. InputTyped => RowsReadBack
  <2>. SUFFICES ASSUME InputTyped, input.kind = "rows"
                PROVE  RowsAsListed(input.spec, input.objects)
    BY DEF RowsReadBack
  <2>1. input \in [kind : {"rows"}, spec : Specs, objects : Seq(Objects)] BY DEF InputTyped
  <2>2. input.spec \in Specs /\ input.objects \in Seq(Objects) BY <2>1
  <2>. QED BY <1>1, <2>2
<1>. QED BY <1>2, InputIsTyped, PTL
=============================================================================
