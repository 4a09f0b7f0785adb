----------------------------- MODULE KeysProofs -----------------------------
(***************************************************************************)
(* Proofs, for any callers and any length of call, that batchKeys takes a  *)
(* call's keys apart in order and losing none, and that the model of Keys  *)
(* keeps its safety properties.                                            *)
(*                                                                         *)
(* batchKeys is recursive, so that what it computes is shown by induction  *)
(* on the keys it has seen: NatMin is that induction, the least number at  *)
(* which a property fails.                                                 *)
(***************************************************************************)
EXTENDS Keys, FiniteSetTheorems, TLAPS

-----------------------------------------------------------------------------
(* Induction *)

(* A set of naturals that is not empty has a least element.                *)
LEMMA NatMin ==
  ASSUME NEW T, T \subseteq Nat, T # {}
  PROVE  \E n \in T : \A m \in T : n <= m
<1>. DEFINE R == OpToRel(<, Nat)
<1>1. IsWellFoundedOn(R, Nat) BY NatLessThanWellFounded
<1>. HIDE DEF R
<1>2. PICK n \in T : \A m \in T : <<m, n>> \notin R BY <1>1, WFMin
<1>3. ASSUME NEW m \in T PROVE n <= m
  <2>1. m < n => <<m, n>> \in R BY DEF R, OpToRel
  <2>2. ~(m < n) BY <1>2, <2>1
  <2>3. m \in Nat /\ n \in Nat OBVIOUS
  <2>. QED BY <2>2, <2>3
<1>. QED BY <1>3

(* The recursion of batchesUpTo has a solution, of each length by that of  *)
(* the length before.                                                      *)
LEMMA BatchesExist ==
  ASSUME NEW s, NEW N \in Nat
  PROVE  \E u : u = [n \in 0..N |-> IF n = 0 THEN <<>> ELSE Joined(u[n - 1], s[n], n)]
<1>. DEFINE P(m) == \E u : u = [n \in 0..m |-> IF n = 0 THEN <<>> ELSE Joined(u[n - 1], s[n], n)]
            T == {m \in Nat : ~P(m)}
<1>1. P(0)
  <2>. DEFINE v == [n \in 0..0 |-> <<>>]
  <2>1. v = [n \in 0..0 |-> IF n = 0 THEN <<>> ELSE Joined(v[n - 1], s[n], n)] OBVIOUS
  <2>. QED BY <2>1
<1>2. ASSUME NEW m \in Nat, P(m) PROVE P(m + 1)
  <2>1. PICK u : u = [n \in 0..m |-> IF n = 0 THEN <<>> ELSE Joined(u[n - 1], s[n], n)]
    BY <1>2
  <2>. DEFINE v == [n \in 0..(m + 1) |-> IF n <= m THEN u[n] ELSE Joined(u[m], s[m + 1], m + 1)]
  <2>2. ASSUME NEW n \in 0..(m + 1)
        PROVE  v[n] = IF n = 0 THEN <<>> ELSE Joined(v[n - 1], s[n], n)
    <3>1. CASE n = 0 BY <2>1, <3>1
    <3>2. CASE n # 0 /\ n <= m
      <4>1. n \in 0..m /\ n - 1 \in 0..m /\ n - 1 \in 0..(m + 1) /\ n - 1 <= m BY <3>2
      <4>2. v[n] = u[n] /\ v[n - 1] = u[n - 1] BY <3>2, <4>1
      <4>3. u[n] = Joined(u[n - 1], s[n], n) BY <2>1, <3>2, <4>1
      <4>. QED BY <3>2, <4>2, <4>3
    <3>3. CASE n = m + 1
      <4>1. v[n] = Joined(u[m], s[m + 1], m + 1) BY <3>3
      <4>2. v[n - 1] = u[m] BY <3>3
      <4>. QED BY <3>3, <4>1, <4>2
    <3>. QED BY <3>1, <3>2, <3>3
  <2>3. v = [n \in 0..(m + 1) |-> v[n]] OBVIOUS
  <2>. HIDE DEF v
  <2>4. v = [n \in 0..(m + 1) |-> IF n = 0 THEN <<>> ELSE Joined(v[n - 1], s[n], n)]
    BY <2>2, <2>3
  <2>. QED BY <2>4
<1>3. T = {}
  <2>. SUFFICES ASSUME T # {} PROVE FALSE OBVIOUS
  <2>. HIDE DEF P
  <2>1. PICK m \in T : \A k \in T : m <= k BY NatMin
  <2>2. m # 0 BY <1>1
  <2>3. m - 1 \in Nat /\ m - 1 \notin T BY <2>1, <2>2
  <2>4. P(m - 1) BY <2>3
  <2>5. P((m - 1) + 1) BY <1>2, <2>3, <2>4
  <2>. QED BY <2>5
<1>. QED BY <1>3

LEMMA BatchesAre ==
  ASSUME NEW s, Len(s) \in Nat
  PROVE  /\ batchesUpTo(s)[0] = <<>>
         /\ \A n \in 1..Len(s) :
              batchesUpTo(s)[n] = Joined(batchesUpTo(s)[n - 1], s[n], n)
<1>1. \E u : u = [n \in 0..Len(s) |-> IF n = 0 THEN <<>> ELSE Joined(u[n - 1], s[n], n)]
  BY BatchesExist
<1>2. batchesUpTo(s) =
        [n \in 0..Len(s) |-> IF n = 0 THEN <<>> ELSE Joined(batchesUpTo(s)[n - 1], s[n], n)]
  BY <1>1, Zenon DEF batchesUpTo
<1>. DEFINE u == batchesUpTo(s)
<1>. HIDE DEF u
<1>3. u = [n \in 0..Len(s) |-> IF n = 0 THEN <<>> ELSE Joined(u[n - 1], s[n], n)]
  BY <1>2 DEF u
<1>4. u[0] = <<>> /\ \A n \in 1..Len(s) : u[n] = Joined(u[n - 1], s[n], n) BY <1>3
<1>. QED BY <1>4 DEF u

-----------------------------------------------------------------------------
(* batchKeys *)

KeyRun == [kind : Kind, keys : Seq(Nat)]

(* How many keys the first r runs hold.                                    *)
Reached(runs, r) == IF r = 0 THEN 0 ELSE Last(runs[r].keys)

(* The runs of the first n keys: each of one kind and not empty, each      *)
(* going on where the one before it ended, and all of them together n.     *)
Batched(s, n, runs) ==
  /\ runs \in Seq(KeyRun)
  /\ \A r \in 1..Len(runs) : runs[r].keys # <<>>
  /\ \A r \in 1..Len(runs) : \A j \in 1..Len(runs[r].keys) :
       LET k == runs[r].keys[j]
       IN k = Reached(runs, r - 1) + j /\ k \in 1..n /\ s[k] = runs[r].kind
  /\ Reached(runs, Len(runs)) = n

LEMMA JoinedIs ==
  ASSUME NEW s \in Seq(Kind), NEW n \in 1..Len(s), NEW runs, Batched(s, n - 1, runs)
  PROVE  Batched(s, n, Joined(runs, s[n], n))
<1>. DEFINE new == Joined(runs, s[n], n)
<1>0. runs \in Seq(KeyRun) /\ s[n] \in Kind /\ n \in Nat BY DEF Batched
<1>1. CASE runs # <<>> /\ Last(runs).kind = s[n]
  <2>. DEFINE L == Len(runs)
  <2>1. L \in Nat \ {0} /\ L \in 1..L BY <1>0, <1>1
  <2>2. runs[L] \in KeyRun BY <1>0, <2>1
  <2>3. runs[L].kind = s[n] BY <1>1 DEF Last
  <2>4. runs[L].keys \in Seq(Nat) BY <2>2 DEF KeyRun
  <2>5. runs[L].keys # <<>> BY <2>1 DEF Batched
  <2>. DEFINE old == runs[L].keys
              M == Len(old)
              last == Run(s[n], Append(old, n))
  <2>6. last \in KeyRun BY <1>0, <2>4 DEF Run, KeyRun
  <2>7. new = Append(SubSeq(runs, 1, L - 1), last) BY <1>1 DEF Joined, Front, Last
  <2>8. /\ M \in Nat \ {0} /\ last.kind = s[n] /\ last.keys \in Seq(Nat)
        /\ Len(last.keys) = M + 1 /\ last.keys[M + 1] = n
        /\ \A j \in 1..M : last.keys[j] = old[j]
    BY SMTT(30), <1>0, <2>4, <2>5 DEF Run
  <2>9. Reached(runs, L) = n - 1 BY DEF Batched
  <2>10. Reached(runs, L) = old[M] BY <2>1 DEF Reached, Last
  <2>12. \A r \in 1..L : \A j \in 1..Len(runs[r].keys) :
           LET k == runs[r].keys[j]
           IN k = Reached(runs, r - 1) + j /\ k \in 1..(n - 1) /\ s[k] = runs[r].kind
    BY DEF Batched
  <2>11. \A j \in 1..M : old[j] = Reached(runs, L - 1) + j /\ old[j] \in 1..(n - 1)
                         /\ s[old[j]] = s[n]
    <3>. HIDE DEF L
    <3>. QED BY <2>1, <2>3, <2>12
  <2>13. \A r \in 1..L : runs[r].keys # <<>> BY DEF Batched
  <2>. HIDE DEF new, last, M, L, old
  <2>14. SubSeq(runs, 1, L - 1) \in Seq(KeyRun) /\ Len(SubSeq(runs, 1, L - 1)) = L - 1
         /\ \A r \in 1..(L - 1) : SubSeq(runs, 1, L - 1)[r] = runs[r]
    <3>1. Len(runs) = L BY DEF L
    <3>2. SubSeq(runs, 1, L - 1) \in Seq(KeyRun) BY <1>0, <2>1, <3>1
    <3>3. Len(SubSeq(runs, 1, L - 1)) = L - 1 BY <1>0, <2>1, <3>1
    <3>4. ASSUME NEW r \in 1..(L - 1) PROVE SubSeq(runs, 1, L - 1)[r] = runs[r]
      BY <1>0, <2>1, <3>1
    <3>. QED BY <3>2, <3>3, <3>4
  <2>15. /\ new \in Seq(KeyRun) /\ Len(new) = L /\ new[L] = last
         /\ \A r \in 1..(L - 1) : new[r] = runs[r]
    BY <2>1, <2>6, <2>7, <2>14
  <2>16. \A r \in 0..(L - 1) : Reached(new, r) = Reached(runs, r) BY <2>1, <2>15 DEF Reached
  <2>17. ASSUME NEW r \in 1..L PROVE new[r].keys # <<>>
    <3>1. CASE r = L BY <2>8, <2>15, <3>1
    <3>2. CASE r # L BY <2>1, <2>13, <2>15, <3>2
    <3>. QED BY <3>1, <3>2
  <2>18. ASSUME NEW r \in 1..L, NEW j \in 1..Len(new[r].keys)
         PROVE  /\ new[r].keys[j] = Reached(new, r - 1) + j /\ new[r].keys[j] \in 1..n
                /\ s[new[r].keys[j]] = new[r].kind
    <3>1. CASE r # L
      <4>1. r \in 1..(L - 1) /\ new[r] = runs[r] /\ j \in 1..Len(runs[r].keys)
        BY <2>1, <2>15, <3>1
      <4>2. Reached(new, r - 1) = Reached(runs, r - 1) BY <2>1, <2>16, <4>1
      <4>. QED BY <1>0, <2>12, <4>1, <4>2
    <3>2. CASE r = L /\ j # M + 1
      <4>1. j \in 1..M /\ new[r].keys[j] = old[j] /\ new[r].kind = s[n] BY SMTT(30), <2>8, <2>15, <3>2
      <4>2. Reached(new, r - 1) = Reached(runs, L - 1) BY <2>1, <2>16, <3>2
      <4>3. old[j] = Reached(runs, L - 1) + j /\ old[j] \in 1..(n - 1) /\ s[old[j]] = s[n]
        BY <2>11, <4>1
      <4>. QED BY <1>0, <4>1, <4>2, <4>3
    <3>3. CASE r = L /\ j = M + 1
      <4>1. new[r].keys[j] = n /\ new[r].kind = s[n] BY <2>8, <2>15, <3>3
      <4>2. Reached(new, r - 1) = Reached(runs, L - 1) BY <2>1, <2>16, <3>3
      <4>3. M \in Nat /\ M \in 1..M BY <2>8
      <4>4. n - 1 = Reached(runs, L - 1) + M /\ Reached(runs, L - 1) \in Nat
        <5>0. n - 1 = Reached(runs, L - 1) + M BY <2>9, <2>10, <2>11, <4>3
        <5>1. CASE L = 1 BY <5>0, <5>1 DEF Reached
        <5>2. CASE L # 1
          <6>1. L - 1 \in 1..L /\ runs[L - 1] \in KeyRun /\ runs[L - 1].keys # <<>>
            <7>1. L - 1 \in 1..L BY <2>1, <5>2
            <7>2. Len(runs) = L BY DEF L
            <7>. QED BY <1>0, <2>13, <7>1, <7>2
          <6>2. runs[L - 1].keys \in Seq(Nat) BY <6>1 DEF KeyRun
          <6>3. Last(runs[L - 1].keys) \in Nat BY SMTT(30), <6>1, <6>2 DEF Last
          <6>. QED BY <2>1, <5>0, <5>2, <6>3 DEF Reached
        <5>. QED BY <5>1, <5>2
      <4>. DEFINE R == Reached(runs, L - 1)
      <4>. HIDE DEF R
      <4>5. R \in Nat /\ n - 1 = R + M BY <4>4 DEF R
      <4>6. n \in 1..n /\ n = R + (M + 1) BY <1>0, <4>3, <4>5
      <4>. QED BY <3>3, <4>1, <4>2, <4>6 DEF R
    <3>. QED BY <2>8, <2>15, <3>1, <3>2, <3>3
  <2>19. Reached(new, L) = n BY <2>1, <2>8, <2>15 DEF Reached, Last
  <2>20. Batched(s, n, new) BY <2>15, <2>17, <2>18, <2>19 DEF Batched
  <2>. QED BY <2>20 DEF new
<1>2. CASE ~(runs # <<>> /\ Last(runs).kind = s[n])
  <2>. DEFINE L == Len(runs)
              last == Run(s[n], <<n>>)
  <2>1. L \in Nat BY <1>0
  <2>2. /\ last \in KeyRun /\ last.kind = s[n] /\ Len(last.keys) = 1 /\ last.keys[1] = n
        /\ last.keys # <<>>
    BY <1>0 DEF Run, KeyRun
  <2>3. new = Append(runs, last) BY <1>2 DEF Joined
  <2>4. Reached(runs, L) = n - 1 BY DEF Batched
  <2>5. \A r \in 1..L : \A j \in 1..Len(runs[r].keys) :
           LET k == runs[r].keys[j]
           IN k = Reached(runs, r - 1) + j /\ k \in 1..(n - 1) /\ s[k] = runs[r].kind
    BY DEF Batched
  <2>6. \A r \in 1..L : runs[r].keys # <<>> BY DEF Batched
  <2>. HIDE DEF last, new
  <2>7. /\ new \in Seq(KeyRun) /\ Len(new) = L + 1 /\ new[L + 1] = last
        /\ \A r \in 1..L : new[r] = runs[r]
    BY <1>0, <2>2, <2>3
  <2>. HIDE DEF L
  <2>8. \A r \in 0..L : Reached(new, r) = Reached(runs, r) BY <2>1, <2>7 DEF Reached
  <2>9. ASSUME NEW r \in 1..(L + 1) PROVE new[r].keys # <<>>
    BY <2>1, <2>2, <2>6, <2>7
  <2>10. ASSUME NEW r \in 1..(L + 1), NEW j \in 1..Len(new[r].keys)
         PROVE  /\ new[r].keys[j] = Reached(new, r - 1) + j /\ new[r].keys[j] \in 1..n
                /\ s[new[r].keys[j]] = new[r].kind
    <3>1. CASE r # L + 1
      <4>1. r \in 1..L /\ new[r] = runs[r] /\ j \in 1..Len(runs[r].keys)
        BY <2>1, <2>7, <3>1
      <4>2. Reached(new, r - 1) = Reached(runs, r - 1) BY <2>1, <2>8, <4>1
      <4>. QED BY <1>0, <2>5, <4>1, <4>2
    <3>2. CASE r = L + 1
      <4>0. new[r] = last /\ j \in 1..1 BY <2>2, <2>7, <3>2
      <4>1. new[r].keys[j] = n /\ new[r].kind = s[n] /\ j = 1 BY <2>2, <4>0
      <4>2. Reached(new, r - 1) = n - 1 BY <2>1, <2>4, <2>8, <3>2
      <4>. QED BY <1>0, <4>1, <4>2
    <3>. QED BY <3>1, <3>2
  <2>11. Reached(new, L + 1) = n BY <2>1, <2>2, <2>7 DEF Reached, Last
  <2>12. Batched(s, n, new) BY <2>7, <2>9, <2>10, <2>11 DEF Batched
  <2>. QED BY <2>12 DEF new
<1>. QED BY <1>1, <1>2

(* batchKeys takes a call's keys apart in order, losing and adding none.   *)
THEOREM BatchKeysCorrect ==
  ASSUME NEW s \in Seq(Kind)
  PROVE  Batched(s, Len(s), batchKeys(s))
<1>. DEFINE u == batchesUpTo(s)
            T == {n \in 0..Len(s) : ~Batched(s, n, u[n])}
<1>1. Len(s) \in Nat OBVIOUS
<1>2. u[0] = <<>> /\ \A n \in 1..Len(s) : u[n] = Joined(u[n - 1], s[n], n)
  BY <1>1, BatchesAre
<1>. HIDE DEF u
<1>3. Batched(s, 0, u[0]) BY <1>2 DEF Batched, Reached
<1>4. ASSUME NEW n \in 1..Len(s), Batched(s, n - 1, u[n - 1]) PROVE Batched(s, n, u[n])
  BY <1>2, <1>4, JoinedIs
<1>5. T = {}
  <2>. SUFFICES ASSUME T # {} PROVE FALSE OBVIOUS
  <2>1. T \subseteq Nat BY <1>1
  <2>2. PICK n \in T : \A m \in T : n <= m BY <2>1, NatMin
  <2>3. n # 0 BY <1>3
  <2>4. n \in 1..Len(s) /\ n - 1 \in 0..Len(s) /\ n - 1 \notin T BY <1>1, <2>1, <2>2, <2>3
  <2>5. Batched(s, n - 1, u[n - 1]) BY <2>4
  <2>6. Batched(s, n, u[n]) BY <1>4, <2>4, <2>5
  <2>. QED BY <2>6
<1>6. Batched(s, Len(s), u[Len(s)]) BY <1>1, <1>5
<1>. QED BY <1>6 DEF u, batchKeys

-----------------------------------------------------------------------------
(* The invariant *)

(* Where a call is: nothing of it has reached the pane before it sends, as *)
(* many keys as the runs it has sent hold while it does, and what it says  *)
(* of them is true when it has returned.                                   *)
CallInv(c) ==
  LET runs == batchKeys(keys[c]) IN
  /\ pc[c] = "idle" => at[c] = 0 /\ From(c) = {} /\ result[c] = "none"
  /\ pc[c] = "sending" =>
       /\ keys[c] \in Seq(Kind) /\ at[c] < Len(runs) /\ result[c] = "none"
       /\ Cardinality(From(c)) = Reached(runs, at[c])
  /\ \A i \in From(c) : InOrder(c, i)
  /\ SaidTruly(c)

IInv == \A c \in Caller : CallInv(c)

LEMMA FromIs ==
  ASSUME TypeOK, NEW c \in Caller
  PROVE  /\ Len(pane) \in Nat /\ From(c) \subseteq 1..Len(pane)
         /\ IsFiniteSet(From(c)) /\ Cardinality(From(c)) \in Nat
<1>0. pane \in Seq(Delivered) BY DEF TypeOK
<1>1. Len(pane) \in Nat /\ From(c) \subseteq 1..Len(pane) BY <1>0 DEF From
<1>2. IsFiniteSet(1..Len(pane)) BY <1>1, FS_Interval
<1>3. IsFiniteSet(From(c)) BY <1>1, <1>2, FS_Subset
<1>. QED BY <1>1, <1>3, FS_CardinalityType

(* What reaches the pane comes after what is there.                        *)
LEMMA PaneGrows ==
  ASSUME TypeOK, NEW t \in Seq(Delivered), pane' = pane \o t
  PROVE  /\ pane' \in Seq(Delivered) /\ Len(pane') = Len(pane) + Len(t)
         /\ \A i \in 1..Len(pane) : pane'[i] = pane[i]
         /\ \A q \in 1..Len(t) : pane'[Len(pane) + q] = t[q]
<1>1. pane \in Seq(Delivered) BY DEF TypeOK
<1>. QED BY <1>1

(* Another's keys change neither a caller's nor their ranks.               *)
LEMMA OthersArrive ==
  ASSUME TypeOK, NEW t \in Seq(Delivered), pane' = pane \o t, NEW d \in Caller,
         \A q \in 1..Len(t) : t[q].from # d
  PROVE  /\ From(d)' = From(d)
         /\ \A i \in From(d) : pane'[i] = pane[i] /\ Rank(d, i)' = Rank(d, i)
<1>1. Len(pane) \in Nat /\ Len(t) \in Nat BY FromIs
<1>2. ASSUME NEW i \in 1..Len(pane') PROVE i \in From(d)' <=> i \in From(d)
  <2>1. CASE i \in 1..Len(pane) BY <1>1, <2>1, PaneGrows DEF From
  <2>2. CASE i \notin 1..Len(pane)
    <3>. DEFINE q == i - Len(pane)
    <3>1. q \in 1..Len(t) /\ i = Len(pane) + q BY <1>1, <2>2, PaneGrows
    <3>. HIDE DEF q
    <3>2. pane'[i] = t[q] BY <3>1, PaneGrows
    <3>. QED BY <2>2, <3>1, <3>2 DEF From
  <2>. QED BY <2>1, <2>2
<1>3. 1..Len(pane) \subseteq 1..Len(pane') BY <1>1, PaneGrows
<1>4. From(d)' = From(d) BY <1>2, <1>3 DEF From
<1>5. \A i \in From(d) : pane'[i] = pane[i] BY PaneGrows DEF From
<1>. QED BY <1>4, <1>5 DEF Rank

(* A caller's own keys take the ranks that follow.                         *)
LEMMA OwnArrive ==
  ASSUME TypeOK, NEW t \in Seq(Delivered), pane' = pane \o t, NEW c \in Caller,
         \A q \in 1..Len(t) : t[q].from = c
  PROVE  /\ Cardinality(From(c)') = Cardinality(From(c)) + Len(t)
         /\ \A i \in From(c) : pane'[i] = pane[i] /\ Rank(c, i)' = Rank(c, i)
         /\ \A i \in From(c)' \ From(c) :
              \E q \in 1..Len(t) : pane'[i] = t[q] /\ Rank(c, i)' = Cardinality(From(c)) + q
<1>. DEFINE L == Len(pane)
            Upto(q) == (L + 1)..(L + q)
<1>1. L \in Nat /\ Len(t) \in Nat /\ From(c) \subseteq 1..L /\ IsFiniteSet(From(c))
      /\ Cardinality(From(c)) \in Nat
  BY FromIs
<1>2. ASSUME NEW q \in 0..Len(t)
      PROVE  IsFiniteSet(Upto(q)) /\ Cardinality(From(c) \union Upto(q)) = Cardinality(From(c)) + q
  <2>. HIDE DEF L
  <2>1. IsFiniteSet(Upto(q)) /\ Cardinality(Upto(q)) = q
    <3>1. L + 1 \in Int /\ L + q \in Int /\ q \in Nat BY <1>1
    <3>2. Cardinality(Upto(q)) = IF L + 1 > L + q THEN 0 ELSE (L + q) - (L + 1) + 1
      BY <3>1, FS_Interval
    <3>3. q = 0 \/ ~(L + 1 > L + q) BY <1>1, <3>1
    <3>4. Cardinality(Upto(q)) = q BY <1>1, <3>1, <3>2, <3>3
    <3>. QED BY <3>1, <3>4, FS_Interval
  <2>2. From(c) \intersect Upto(q) = {} BY <1>1
  <2>3. Cardinality(From(c) \intersect Upto(q)) = 0 BY <2>2, FS_EmptySet
  <2>. HIDE DEF Upto
  <2>4. Cardinality(From(c) \union Upto(q)) = Cardinality(From(c)) + q - 0
    BY <1>1, <2>1, <2>3, FS_Union
  <2>. QED BY <1>1, <2>1, <2>4
<1>3. ASSUME NEW i \in 1..Len(pane') PROVE i \in From(c)' <=> i \in From(c) \/ i \in Upto(Len(t))
  <2>1. CASE i \in 1..L BY <1>1, <2>1, PaneGrows DEF From
  <2>2. CASE i \notin 1..L
    <3>. DEFINE q == i - L
    <3>1. q \in 1..Len(t) /\ i = L + q BY <1>1, <2>2, PaneGrows
    <3>. HIDE DEF q
    <3>2. pane'[i] = t[q] BY <3>1, PaneGrows
    <3>. QED BY <1>1, <2>2, <3>1, <3>2 DEF From
  <2>. QED BY <2>1, <2>2
<1>4. From(c)' = From(c) \union Upto(Len(t))
  <2>1. 1..L \subseteq 1..Len(pane') /\ Upto(Len(t)) \subseteq 1..Len(pane')
    BY <1>1, PaneGrows
  <2>2. From(c)' \subseteq 1..Len(pane') BY DEF From
  <2>. HIDE DEF Upto, L
  <2>. QED BY <1>1, <1>3, <2>1, <2>2
<1>5. Cardinality(From(c)') = Cardinality(From(c)) + Len(t)
  <2>1. Len(t) \in 0..Len(t) BY <1>1
  <2>. QED BY <1>2, <1>4, <2>1
<1>6. ASSUME NEW i \in From(c) PROVE pane'[i] = pane[i] /\ Rank(c, i)' = Rank(c, i)
  <2>1. i \in 1..L /\ pane'[i] = pane[i] BY <1>1, PaneGrows
  <2>2. {j \in From(c)' : j <= i} = {j \in From(c) : j <= i} BY <1>1, <1>4, <2>1
  <2>. QED BY <2>1, <2>2 DEF Rank
<1>7. ASSUME NEW i \in From(c)' \ From(c)
      PROVE  \E q \in 1..Len(t) : pane'[i] = t[q] /\ Rank(c, i)' = Cardinality(From(c)) + q
  <2>. DEFINE q == i - L
  <2>1. q \in 1..Len(t) /\ i = L + q BY <1>1, <1>4
  <2>. HIDE DEF q
  <2>2. pane'[i] = t[q] BY <2>1, PaneGrows
  <2>3. {j \in From(c)' : j <= i} = From(c) \union Upto(q)
    BY <1>1, <1>4, <2>1
  <2>4. Rank(c, i)' = Cardinality(From(c)) + q BY <1>1, <1>2, <2>1, <2>3 DEF Rank
  <2>. QED BY <2>1, <2>2, <2>4
<1>. QED BY <1>5, <1>6, <1>7

(* A step that neither is a caller's nor touches their keys in the pane.   *)
LEMMA Untouched ==
  ASSUME NEW d \in Caller, CallInv(d),
         pc'[d] = pc[d], at'[d] = at[d], keys'[d] = keys[d], ctxEnded'[d] = ctxEnded[d],
         result'[d] = result[d], From(d)' = From(d),
         \A i \in From(d) : pane'[i] = pane[i] /\ Rank(d, i)' = Rank(d, i)
  PROVE  CallInv(d)'
<1>1. \A i \in From(d)' : InOrder(d, i)' BY DEF CallInv, InOrder
<1>2. SaidTruly(d)' BY DEF CallInv, SaidTruly
<1>. QED BY <1>1, <1>2 DEF CallInv

(* The next run of a call under way: its keys go on from those that have   *)
(* been sent, and there are such keys.                                     *)
LEMMA NextRun ==
  ASSUME TypeOK, NEW c \in Caller, CallInv(c), pc[c] = "sending"
  PROVE  LET runs == batchKeys(keys[c])
             next == runs[at[c] + 1]
             R == Reached(runs, at[c])
         IN /\ Len(runs) \in Nat /\ at[c] + 1 \in 1..Len(runs) /\ R \in Nat
            /\ next \in KeyRun /\ Len(next.keys) \in Nat \ {0}
            /\ \A j \in 1..Len(next.keys) :
                 /\ next.keys[j] = R + j /\ R + j \in 1..Len(keys[c])
                 /\ keys[c][R + j] = next.kind
            /\ Reached(runs, at[c] + 1) = R + Len(next.keys)
            /\ Reached(runs, Len(runs)) = Len(keys[c])
            /\ R = Cardinality(From(c)) /\ Len(keys[c]) \in Nat
<1>. DEFINE s == keys[c]
            runs == batchKeys(s)
            a == at[c]
            next == runs[a + 1]
            R == Reached(runs, a)
<1>1. s \in Seq(Kind) /\ a < Len(runs) /\ R = Cardinality(From(c)) BY DEF CallInv
<1>2. Batched(s, Len(s), runs) BY <1>1, BatchKeysCorrect
<1>3. R \in Nat BY <1>1, FromIs
<1>4. a \in Nat BY DEF TypeOK
<1>. HIDE DEF s, runs, a, R
<1>5. runs \in Seq(KeyRun) /\ Len(runs) \in Nat BY <1>2 DEF Batched
<1>6. a + 1 \in 1..Len(runs) /\ (a + 1) - 1 = a BY <1>1, <1>4, <1>5
<1>7. next \in KeyRun /\ next.keys # <<>> BY <1>2, <1>5, <1>6 DEF Batched
<1>8. next.keys \in Seq(Nat) BY <1>7 DEF KeyRun
<1>9. Len(next.keys) \in Nat \ {0} BY <1>7, <1>8
<1>10. \A j \in 1..Len(next.keys) :
         /\ next.keys[j] = Reached(runs, (a + 1) - 1) + j /\ next.keys[j] \in 1..Len(s)
         /\ s[next.keys[j]] = next.kind
  BY <1>2, <1>6 DEF Batched
<1>11. \A j \in 1..Len(next.keys) :
         next.keys[j] = R + j /\ R + j \in 1..Len(s) /\ s[R + j] = next.kind
  BY <1>6, <1>10 DEF R
<1>12. Reached(runs, a + 1) = next.keys[Len(next.keys)] BY <1>4 DEF Reached, Last
<1>13. Reached(runs, a + 1) = R + Len(next.keys)
  <2>1. Len(next.keys) \in 1..Len(next.keys) BY <1>9
  <2>. QED BY <1>11, <1>12, <2>1
<1>14. Reached(runs, Len(runs)) = Len(s) BY <1>2 DEF Batched
<1>15. Len(s) \in Nat BY <1>1
<1>. QED BY <1>1, <1>3, <1>5, <1>6, <1>7, <1>9, <1>11, <1>13, <1>14, <1>15 DEF s, runs, a, R

LEMMA ReturnIs ==
  ASSUME TypeOK, NEW c \in Caller,
         NEW err \in {"none", "nil", "failed", "empty key"}, Return(c, err)
  PROVE  /\ pc' \in [Caller -> {"idle", "sending", "returned"}]
         /\ result' \in [Caller -> {"none", "nil", "failed", "empty key"}]
         /\ pc'[c] = "returned" /\ result'[c] = err
         /\ \A d \in Caller \ {c} : pc'[d] = pc[d] /\ result'[d] = result[d]
<1>1. /\ pc \in [Caller -> {"idle", "sending", "returned"}]
      /\ result \in [Caller -> {"none", "nil", "failed", "empty key"}]
  BY DEF TypeOK
<1>. QED BY <1>1 DEF Return

LEMMA Init1 == Init => TypeOK /\ IInv
<1>. SUFFICES ASSUME Init PROVE TypeOK /\ IInv OBVIOUS
<1>1. TypeOK
  <2>1. <<>> \in Seq(Delivered) OBVIOUS
  <2>. QED BY <2>1 DEF Init, TypeOK
<1>2. ASSUME NEW c \in Caller PROVE CallInv(c)
  <2>1. pc[c] = "idle" /\ at[c] = 0 /\ result[c] = "none" BY DEF Init
  <2>2. From(c) = {} BY DEF Init, From
  <2>. QED BY <2>1, <2>2 DEF CallInv, SaidTruly
<1>. QED BY <1>1, <1>2 DEF IInv

(* SendKeys sends nothing yet: it returns, or the call has a first run.    *)
LEMMA SendKeysKeeps ==
  ASSUME TypeOK, IInv, NEW c \in Caller, SendKeys(c)
  PROVE  TypeOK' /\ IInv'
<1>1. pc[c] = "idle" /\ UNCHANGED <<keys, at, ctxEnded, pane, alive>> BY DEF SendKeys
<1>2. \/ keys[c] = <<>> /\ Return(c, "nil")
      \/ Return(c, "empty key")
      \/ /\ keys[c] # <<>> /\ \A i \in 1..Len(keys[c]) : valid(keys[c][i])
         /\ pc' = [pc EXCEPT ![c] = "sending"] /\ UNCHANGED result
  BY DEF SendKeys
<1>3. /\ pc \in [Caller -> {"idle", "sending", "returned"}]
      /\ result \in [Caller -> {"none", "nil", "failed", "empty key"}]
  BY DEF TypeOK
<1>4. /\ pc' \in [Caller -> {"idle", "sending", "returned"}]
      /\ result' \in [Caller -> {"none", "nil", "failed", "empty key"}]
      /\ \A d \in Caller \ {c} : pc'[d] = pc[d] /\ result'[d] = result[d]
  <2>1. CASE \E err \in {"nil", "empty key"} : Return(c, err) BY <2>1, ReturnIs
  <2>2. CASE pc' = [pc EXCEPT ![c] = "sending"] /\ UNCHANGED result BY <1>3, <2>2
  <2>. QED BY <1>2, <2>1, <2>2
<1>5. TypeOK' BY <1>1, <1>4 DEF TypeOK
<1>6. ASSUME NEW d \in Caller PROVE From(d)' = From(d) /\ \A i \in From(d) : Rank(d, i)' = Rank(d, i)
  BY <1>1 DEF From, Rank
<1>7. ASSUME NEW d \in Caller \ {c} PROVE CallInv(d)'
  BY <1>1, <1>4, <1>6, Untouched DEF IInv
<1>8. CallInv(c)'
  <2>1. at[c] = 0 /\ From(c)' = {} BY <1>1, <1>6 DEF IInv, CallInv
  <2>2. \A i \in From(c)' : InOrder(c, i)' BY <2>1
  <2>3. CASE \E err \in {"nil", "empty key"} : Return(c, err) /\ (err = "nil" => keys[c] = <<>>)
    <3>1. PICK err \in {"nil", "empty key"} : Return(c, err) /\ (err = "nil" => keys[c] = <<>>)
      BY <2>3
    <3>2. pc'[c] = "returned" /\ result'[c] = err BY <3>1, ReturnIs
    <3>3. err = "nil" => Cardinality(From(c)') = Len(keys'[c])
      <4>1. Cardinality({}) = 0 BY FS_EmptySet
      <4>2. Len(<<>>) = 0 OBVIOUS
      <4>. QED BY <1>1, <2>1, <3>1, <4>1, <4>2
    <3>4. SaidTruly(c)' BY <2>1, <3>2, <3>3 DEF SaidTruly
    <3>. QED BY <2>2, <3>2, <3>4 DEF CallInv
  <2>4. CASE /\ keys[c] # <<>> /\ \A i \in 1..Len(keys[c]) : valid(keys[c][i])
             /\ pc' = [pc EXCEPT ![c] = "sending"] /\ UNCHANGED result
    <3>1. pc'[c] = "sending" /\ result'[c] = "none" BY <1>1, <1>3, <2>4 DEF IInv, CallInv
    <3>2. keys[c] \in Seq(Key)
      <4>1. keys[c] \in SeqOf(Key, MaxKeys) BY DEF TypeOK
      <4>2. PICK m \in 0..MaxKeys : keys[c] \in [1..m -> Key] BY <4>1 DEF SeqOf
      <4>. QED BY <4>2
    <3>3. keys[c] \in Seq(Kind)
      <4>1. \A i \in 1..Len(keys[c]) : keys[c][i] \in Kind BY <2>4, <3>2 DEF Key, valid
      <4>. QED BY <3>2, <4>1
    <3>. DEFINE runs == batchKeys(keys[c])
    <3>4. Batched(keys[c], Len(keys[c]), runs) BY <3>3, BatchKeysCorrect
    <3>. HIDE DEF runs
    <3>5. runs \in Seq(KeyRun) /\ Reached(runs, Len(runs)) = Len(keys[c]) BY <3>4 DEF Batched
    <3>6. Len(keys[c]) # 0 BY <2>4, <3>3
    <3>7. 0 < Len(runs) BY <3>5, <3>6 DEF Reached
    <3>8. Cardinality(From(c)') = Reached(runs, 0) BY <2>1, FS_EmptySet DEF Reached
    <3>9. SaidTruly(c)' BY <3>1 DEF SaidTruly
    <3>. QED BY <1>1, <2>1, <2>2, <3>1, <3>3, <3>7, <3>8, <3>9 DEF CallInv, runs
  <2>. QED BY <1>2, <2>3, <2>4
<1>. QED BY <1>5, <1>7, <1>8 DEF IInv

(* SendRun ends the call or leaves it one run further on.                  *)
LEMMA AfterRunIs ==
  ASSUME TypeOK, NEW c \in Caller, NEW runs \in Seq(KeyRun), NEW ok \in BOOLEAN,
         AfterRun(c, runs, ok), result[c] = "none", pc[c] = "sending"
  PROVE  /\ pc' \in [Caller -> {"idle", "sending", "returned"}]
         /\ result' \in [Caller -> {"none", "nil", "failed", "empty key"}]
         /\ at' \in [Caller -> Nat]
         /\ \A d \in Caller \ {c} : pc'[d] = pc[d] /\ result'[d] = result[d] /\ at'[d] = at[d]
         /\ ok => at'[c] = at[c] + 1
         /\ \/ ~ok /\ pc'[c] = "returned" /\ result'[c] = "failed"
            \/ ok /\ at'[c] = Len(runs) /\ pc'[c] = "returned" /\ result'[c] = "nil"
            \/ ok /\ at'[c] # Len(runs) /\ pc'[c] = "sending" /\ result'[c] = "none"
<1>1. /\ pc \in [Caller -> {"idle", "sending", "returned"}]
      /\ result \in [Caller -> {"none", "nil", "failed", "empty key"}]
      /\ at \in [Caller -> Nat]
  BY DEF TypeOK
<1>2. at' = [at EXCEPT ![c] = IF ok THEN @ + 1 ELSE @] BY DEF AfterRun
<1>3. /\ at' \in [Caller -> Nat] /\ \A d \in Caller \ {c} : at'[d] = at[d]
      /\ ok => at'[c] = at[c] + 1
  <2>1. CASE ok
    <3>1. at' = [at EXCEPT ![c] = at[c] + 1] BY <1>2, <2>1, Zenon
    <3>2. at[c] + 1 \in Nat
      <4>1. at[c] \in Nat BY <1>1
      <4>. QED BY <4>1
    <3>. QED BY <1>1, <3>1, <3>2
  <2>2. CASE ~ok
    <3>1. at' = at BY <1>1, <1>2, <2>2
    <3>. QED BY <1>1, <2>2, <3>1
  <2>. QED BY <2>1, <2>2
<1>4. CASE ~ok BY <1>3, <1>4, ReturnIs DEF AfterRun
<1>5. CASE ok /\ at'[c] = Len(runs) BY <1>3, <1>5, ReturnIs DEF AfterRun
<1>6. CASE ok /\ at'[c] # Len(runs)
  <2>1. pc' = pc /\ result' = result BY <1>6 DEF AfterRun
  <2>. QED BY <1>1, <1>3, <1>6, <2>1
<1>. QED BY <1>4, <1>5, <1>6

(* A run takes the ranks that follow and its keys are those of these       *)
(* ranks; if it fails, what is missing is at least the run, unless it was  *)
(* killed.                                                                 *)
LEMMA SendRunKeeps ==
  ASSUME TypeOK, IInv, NEW c \in Caller, SendRun(c)
  PROVE  TypeOK' /\ IInv'
<1>. DEFINE runs == batchKeys(keys[c])
            next == runs[at[c] + 1]
            R == Reached(runs, at[c])
            arrives == [i \in 1..Len(next.keys) |->
                          [from |-> c, kind |-> next.kind, key |-> next.keys[i]]]
            K == Len(next.keys)
<1>1. pc[c] = "sending" /\ UNCHANGED <<keys, alive>> BY DEF SendRun
<1>2. PICK exit \in {"ok", "failed", "killed"}, sent \in BOOLEAN :
        /\ exit # "killed" => sent = (exit = "ok")
        /\ pane' = IF sent THEN pane \o arrives ELSE pane
        /\ ctxEnded' = [ctxEnded EXCEPT ![c] = @ \/ exit = "killed"]
        /\ AfterRun(c, runs, exit = "ok")
  BY DEF SendRun
<1>3. CallInv(c) BY DEF IInv
<1>4. /\ Len(runs) \in Nat /\ at[c] + 1 \in 1..Len(runs) /\ R \in Nat
      /\ next \in KeyRun /\ K \in Nat \ {0}
      /\ \A j \in 1..K : /\ next.keys[j] = R + j /\ R + j \in 1..Len(keys[c])
                         /\ keys[c][R + j] = next.kind
      /\ Reached(runs, at[c] + 1) = R + K
      /\ Reached(runs, Len(runs)) = Len(keys[c])
      /\ R = Cardinality(From(c)) /\ Len(keys[c]) \in Nat
  BY <1>1, <1>3, NextRun
<1>5. keys[c] \in Seq(Kind) /\ result[c] = "none" /\ runs \in Seq(KeyRun)
  BY <1>1, <1>3, BatchKeysCorrect DEF CallInv, Batched
<1>6. at[c] \in Nat /\ ctxEnded \in [Caller -> BOOLEAN] /\ pane \in Seq(Delivered) BY DEF TypeOK
<1>7. /\ arrives \in Seq(Delivered) /\ Len(arrives) = K
      /\ \A q \in 1..K : arrives[q] = [from |-> c, kind |-> next.kind, key |-> R + q]
  <2>1. next.kind \in Kind BY <1>4 DEF KeyRun
  <2>2. \A q \in 1..K : arrives[q] = [from |-> c, kind |-> next.kind, key |-> R + q] BY <1>4
  <2>3. \A q \in 1..K : arrives[q] \in Delivered BY SMTT(30), <1>4, <2>1, <2>2 DEF Delivered
  <2>4. arrives \in [1..K -> Delivered] BY <2>3
  <2>. HIDE DEF arrives, K
  <2>5. K \in Nat BY <1>4
  <2>6. arrives \in Seq(Delivered) BY <2>4, <2>5
  <2>7. Len(arrives) = K BY <2>4, <2>5
  <2>. QED BY <2>2, <2>6, <2>7
<1>. HIDE DEF runs, next, R, arrives, K
<1>8. /\ pc' \in [Caller -> {"idle", "sending", "returned"}]
      /\ result' \in [Caller -> {"none", "nil", "failed", "empty key"}]
      /\ at' \in [Caller -> Nat]
      /\ \A d \in Caller \ {c} : pc'[d] = pc[d] /\ result'[d] = result[d] /\ at'[d] = at[d]
      /\ exit = "ok" => at'[c] = at[c] + 1
      /\ \/ exit # "ok" /\ pc'[c] = "returned" /\ result'[c] = "failed"
         \/ exit = "ok" /\ at'[c] = Len(runs) /\ pc'[c] = "returned" /\ result'[c] = "nil"
         \/ exit = "ok" /\ at'[c] # Len(runs) /\ pc'[c] = "sending" /\ result'[c] = "none"
  <2>1. (exit = "ok") \in BOOLEAN OBVIOUS
  <2>. QED BY <1>1, <1>2, <1>5, <2>1, AfterRunIs
<1>9. /\ ctxEnded' \in [Caller -> BOOLEAN]
      /\ exit = "killed" => ctxEnded'[c]
      /\ \A d \in Caller \ {c} : ctxEnded'[d] = ctxEnded[d]
  BY <1>2, <1>6
<1>10. pane' \in Seq(Delivered)
  <2>1. CASE sent BY <1>2, <1>6, <1>7, <2>1
  <2>2. CASE ~sent BY <1>2, <1>6, <2>2
  <2>. QED BY <2>1, <2>2
<1>11. TypeOK'
  <2>1. keys' \in [Caller -> SeqOf(Key, MaxKeys)] /\ alive' \in BOOLEAN BY <1>1 DEF TypeOK
  <2>2. /\ pc' \in [Caller -> {"idle", "sending", "returned"}] /\ at' \in [Caller -> Nat]
        /\ result' \in [Caller -> {"none", "nil", "failed", "empty key"}]
    BY <1>8
  <2>3. ctxEnded' \in [Caller -> BOOLEAN] BY <1>9
  <2>. QED BY <1>10, <2>1, <2>2, <2>3 DEF TypeOK
<1>12. ASSUME NEW d \in Caller \ {c} PROVE CallInv(d)'
  <2>1. From(d)' = From(d) /\ \A i \in From(d) : pane'[i] = pane[i] /\ Rank(d, i)' = Rank(d, i)
    <3>1. CASE sent
      <4>1. pane' = pane \o arrives /\ \A q \in 1..Len(arrives) : arrives[q].from # d
        BY SMTT(30), <1>2, <1>7, <3>1
      <4>. QED BY <1>7, <4>1, OthersArrive
    <3>2. CASE ~sent BY <1>2, <3>2 DEF From, Rank
    <3>. QED BY <3>1, <3>2
  <2>. QED BY <1>1, <1>8, <1>9, <2>1, Untouched DEF IInv
<1>13. \A i \in From(c)' : InOrder(c, i)'
  <2>1. CASE sent
    <3>1. pane' = pane \o arrives /\ \A q \in 1..Len(arrives) : arrives[q].from = c
      BY <1>2, <1>7, <2>1
    <3>2. ASSUME NEW i \in From(c) PROVE InOrder(c, i)'
      <4>1. pane'[i] = pane[i] /\ Rank(c, i)' = Rank(c, i) BY <1>7, <3>1, OwnArrive
      <4>. QED BY <1>1, <1>3, <4>1 DEF CallInv, InOrder
    <3>3. ASSUME NEW i \in From(c)' \ From(c) PROVE InOrder(c, i)'
      <4>0. \A j \in From(c)' \ From(c) : \E q \in 1..Len(arrives) :
              pane'[j] = arrives[q] /\ Rank(c, j)' = Cardinality(From(c)) + q
        BY <1>7, <3>1, OwnArrive
      <4>1. PICK q \in 1..K : pane'[i] = arrives[q] /\ Rank(c, i)' = R + q
        BY <1>4, <1>7, <4>0, <3>3
      <4>2. /\ Rank(c, i)' \in 1..Len(keys[c]) /\ pane'[i].key = Rank(c, i)'
            /\ pane'[i].kind = keys[c][Rank(c, i)']
        <5>1. arrives[q] = [from |-> c, kind |-> next.kind, key |-> R + q] BY <1>7
        <5>2. R + q \in 1..Len(keys[c]) /\ keys[c][R + q] = next.kind BY <1>4
        <5>. QED BY <4>1, <5>1, <5>2
      <4>. QED BY <1>1, <4>2 DEF InOrder
    <3>. QED BY <3>2, <3>3
  <2>2. CASE ~sent
    <3>1. pane' = pane BY <1>2, <2>2
    <3>. QED BY <1>1, <1>3, <3>1 DEF CallInv, InOrder, From, Rank
  <2>. QED BY <2>1, <2>2
<1>14. Cardinality(From(c)') = IF sent THEN R + K ELSE R
  <2>1. CASE sent
    <3>1. pane' = pane \o arrives /\ \A q \in 1..Len(arrives) : arrives[q].from = c
      BY <1>2, <1>7, <2>1
    <3>. QED BY <1>4, <1>7, <2>1, <3>1, OwnArrive
  <2>2. CASE ~sent BY <1>2, <1>4, <2>2 DEF From
  <2>. QED BY <2>1, <2>2
<1>15. CallInv(c)'
  <2>1. CASE exit = "ok"
    <3>1. sent /\ at'[c] = at[c] + 1 /\ Cardinality(From(c)') = R + K
      BY <1>2, <1>8, <1>14, <2>1
    <3>2. Cardinality(From(c)') = Reached(runs, at'[c]) BY <1>4, <3>1
    <3>3. CASE at'[c] = Len(runs)
      <4>1. pc'[c] = "returned" /\ result'[c] = "nil" BY <1>8, <2>1, <3>3
      <4>2. SaidTruly(c)' BY <1>1, <1>4, <3>2, <3>3, <4>1 DEF SaidTruly
      <4>. QED BY <1>13, <4>1, <4>2 DEF CallInv
    <3>4. CASE at'[c] # Len(runs)
      <4>1. pc'[c] = "sending" /\ result'[c] = "none" BY <1>8, <2>1, <3>4
      <4>2. SaidTruly(c)' BY <4>1 DEF SaidTruly
      <4>3. at'[c] < Len(runs) BY <1>4, <1>6, <3>1, <3>4
      <4>4. keys'[c] = keys[c] /\ batchKeys(keys[c])' = runs BY <1>1 DEF runs
      <4>. QED BY <1>5, <1>13, <3>2, <4>1, <4>2, <4>3, <4>4 DEF CallInv
    <3>. QED BY <3>3, <3>4
  <2>2. CASE exit # "ok"
    <3>1. pc'[c] = "returned" /\ result'[c] = "failed" BY <1>8, <2>2
    <3>2. Cardinality(From(c)') < Len(keys[c]) \/ ctxEnded'[c]
      <4>1. CASE sent
        <5>1. exit = "killed" BY <1>2, <2>2, <4>1
        <5>. QED BY <1>9, <5>1
      <4>2. CASE ~sent
        <5>1. 1 \in 1..K BY <1>4
        <5>2. R + 1 \in 1..Len(keys[c]) BY <1>4, <5>1
        <5>. QED BY <1>4, <1>14, <4>2, <5>2
      <4>. QED BY <4>1, <4>2
    <3>3. SaidTruly(c)' BY <1>1, <3>1, <3>2 DEF SaidTruly
    <3>. QED BY <1>13, <3>1, <3>3 DEF CallInv
  <2>. QED BY <2>1, <2>2
<1>. QED BY <1>11, <1>12, <1>15 DEF IInv

(* What no call does itself: a context ends, the pane ends.                *)
LEMMA EndsKeep ==
  ASSUME TypeOK, IInv, (\E c \in Caller : CtxEnds(c)) \/ PaneEnds \/ UNCHANGED vars
  PROVE  TypeOK' /\ IInv'
<1>1. UNCHANGED <<keys, pc, at, result, pane>> BY DEF CtxEnds, PaneEnds, vars
<1>2. /\ ctxEnded' \in [Caller -> BOOLEAN] /\ alive' \in BOOLEAN
      /\ \A d \in Caller : ctxEnded[d] => ctxEnded'[d]
  <2>1. ctxEnded \in [Caller -> BOOLEAN] /\ alive \in BOOLEAN BY DEF TypeOK
  <2>2. CASE \E c \in Caller : CtxEnds(c) BY <2>1, <2>2 DEF CtxEnds
  <2>3. CASE PaneEnds \/ UNCHANGED vars BY <2>1, <2>3 DEF PaneEnds, vars
  <2>. QED BY <2>2, <2>3
<1>3. TypeOK' BY <1>1, <1>2 DEF TypeOK
<1>4. ASSUME NEW d \in Caller PROVE CallInv(d)'
  <2>1. CallInv(d) /\ From(d)' = From(d) BY <1>1 DEF IInv, From
  <2>2. \A i \in From(d)' : InOrder(d, i)' BY <1>1, <2>1 DEF CallInv, InOrder, From, Rank
  <2>3. SaidTruly(d)' BY <1>1, <1>2, <2>1 DEF CallInv, SaidTruly
  <2>. QED BY <1>1, <2>1, <2>2, <2>3 DEF CallInv
<1>. QED BY <1>3, <1>4 DEF IInv

-----------------------------------------------------------------------------
(* The theorems *)

(* The types and the invariant hold in every state of every run.           *)
THEOREM InvCorrect == Spec => [](TypeOK /\ IInv)
<1>1. TypeOK /\ IInv /\ [Next]_vars => (TypeOK /\ IInv)'
  <2>. SUFFICES ASSUME TypeOK, IInv, [Next]_vars PROVE TypeOK' /\ IInv' OBVIOUS
  <2>1. ASSUME NEW c \in Caller, SendKeys(c) PROVE TypeOK' /\ IInv' BY <2>1, SendKeysKeeps
  <2>2. ASSUME NEW c \in Caller, SendRun(c) PROVE TypeOK' /\ IInv' BY <2>2, SendRunKeeps
  <2>3. ASSUME (\E c \in Caller : CtxEnds(c)) \/ PaneEnds \/ UNCHANGED vars
        PROVE  TypeOK' /\ IInv'
    BY <2>3, EndsKeep
  <2>. QED BY <2>1, <2>2, <2>3 DEF Next
<1>. QED BY Init1, <1>1, PTL DEF Spec

(* The keys of a caller in the pane are the beginning of what it asked,    *)
(* each once, in order and as its own kind, whoever else sends.            *)
THEOREM DeliveredCorrect == Spec => []DeliveredIsPrefix
<1>1. TypeOK /\ IInv => DeliveredIsPrefix BY DEF IInv, CallInv, DeliveredIsPrefix
<1>. QED BY <1>1, InvCorrect, PTL

(* nil means that all of the keys have reached the pane, an error that the *)
(* call has stopped short of them or its context has ended, and an error   *)
(* about an empty key that none was sent.                                  *)
THEOREM ResultCorrect == Spec => []ResultTellsTruth
<1>1. TypeOK /\ IInv => ResultTellsTruth BY DEF IInv, CallInv, ResultTellsTruth
<1>. QED BY <1>1, InvCorrect, PTL
=============================================================================
