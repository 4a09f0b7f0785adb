------------------------------ MODULE Versions ------------------------------
(***************************************************************************)
(* What is read from "tmux -V", the order of versions, and the one         *)
(* release whose stored values need decodeStored.                          *)
(*                                                                         *)
(* Text is a sequence of byte codes.  Atoi's sign is left out: no release  *)
(* has one.                                                                *)
(***************************************************************************)
EXTENDS Integers, Rows

Dot == 46
Hyphen == 45
NextPrefix == <<110, 101, 120, 116, Hyphen>>

IsDigit(b) == b \in 48..57
IsNumber(s) == s # <<>> /\ \A i \in 1..Len(s) : IsDigit(s[i])
Atoi(s) ==
  LET n[i \in 0..Len(s)] == IF i = 0 THEN 0 ELSE 10 * n[i - 1] + (s[i] - 48)
  IN n[Len(s)]

Version(major, minor, suffix, next) ==
  [Major |-> major, Minor |-> minor, Suffix |-> suffix, Next |-> next, Unknown |-> FALSE]
UnknownVersion(next) ==
  [Major |-> 0, Minor |-> 0, Suffix |-> <<>>, Next |-> next, Unknown |-> TRUE]

AfterLastHyphen(s) == Last(Split(s, Hyphen))

(* "3.4", once the prefixes are gone: the minor number runs until the      *)
(* first byte that is no digit.                                            *)
Numbered(field, next) ==
  LET parts == CutAt(field, Dot)
      ends == {i \in 0..Len(parts.after) :
                 /\ \A j \in 1..i : IsDigit(parts.after[j])
                 /\ i < Len(parts.after) => ~IsDigit(parts.after[i + 1])}
      end == CHOOSE i \in ends : TRUE
  IN IF parts.found /\ IsNumber(parts.before) /\ end > 0
     THEN Version(Atoi(parts.before), Atoi(SubSeq(parts.after, 1, end)),
                  SubSeq(parts.after, end + 1, Len(parts.after)), next)
     ELSE UnknownVersion(next)

(* Mutant: what precedes a hyphen comes off first.                         *)
unprefixedAtOnce(field) == AfterLastHyphen(field)

(* An OS name comes off only if there is no major number before a dot.     *)
unprefixed(field) ==
  LET parts == CutAt(field, Dot)
  IN IF parts.found /\ IsNumber(parts.before) THEN field ELSE AfterLastHyphen(field)

(* The last field counts: the first may be the word "tmux".                *)
LastField(s) ==
  LET parts == Split(s, SpaceByte)
      full == {i \in 1..Len(parts) : parts[i] # <<>>}
  IN parts[CHOOSE i \in full : \A j \in full : i >= j]

ParseVersion(s) ==
  LET field == LastField(s)
      next == IsPrefix(NextPrefix, field)
      rest == IF next THEN SubSeq(field, Len(NextPrefix) + 1, Len(field)) ELSE field
  IN Numbered(unprefixed(rest), next)

-----------------------------------------------------------------------------

sign(n) == IF n < 0 THEN -1 ELSE IF n > 0 THEN 1 ELSE 0

(* strings.Compare.                                                        *)
CompareBytes(s, t) ==
  LET differ == {i \in 1..Len(s) : i > Len(t) \/ s[i] # t[i]}
      first == CHOOSE i \in differ : \A j \in differ : i <= j
  IN IF differ = {} THEN sign(Len(s) - Len(t))
     ELSE IF first > Len(t) THEN 1 ELSE sign(s[first] - t[first])

isPreRelease(suffix) == suffix # <<>> /\ suffix[1] = Hyphen

(* When it is true of one of the two: that one comes first.                *)
First(ofThis) == IF ofThis THEN -1 ELSE 1

Compare(v, w) ==
  IF v.Unknown \/ w.Unknown
  THEN IF v.Unknown = w.Unknown THEN 0 ELSE -First(v.Unknown)
  ELSE IF v.Major # w.Major THEN sign(v.Major - w.Major)
  ELSE IF v.Minor # w.Minor THEN sign(v.Minor - w.Minor)
  ELSE IF v.Next # w.Next THEN First(v.Next)
  ELSE IF isPreRelease(v.Suffix) # isPreRelease(w.Suffix)
  THEN First(isPreRelease(v.Suffix))
  ELSE CompareBytes(v.Suffix, w.Suffix)

AtLeast(v, w) == Compare(v, w) >= 0
MinimumVersion == Version(3, 2, <<>>, FALSE)

EscapesDollarOnWrite(v) ==
  ~v.Unknown /\ ~v.Next /\ v.Major = 3 /\ v.Minor = 4 /\ ~isPreRelease(v.Suffix)
=============================================================================
