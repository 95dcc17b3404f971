------------------------ MODULE DatasetCorpusProofs ------------------------
(***************************************************************************)
(* What DatasetCorpus promises holds for every mirror, timeline, length of *)
(* windows and number of runs, cuts and trainings: a window held out stays *)
(* held out, training fails only after a cut, and what is on file of a     *)
(* window is true of it.  And what SikLink promises, for every stream of   *)
(* messages and split into frames, which rests on the same lemmas about    *)
(* joined sequences: a message is reported once, and if nothing in it can  *)
(* be mistaken for another, it is; a link is confirmed for cause.          *)
(***************************************************************************)
EXTENDS DatasetCorpus, SikLink, TLAPS, WellFoundedInduction, FiniteSetTheorems,
        SequenceTheorems

LEMMA LeastNumber ==
  ASSUME NEW T, T \subseteq Nat, T # {}
  PROVE  \E m \in T : \A k \in T : m <= k
<1>1. PICK m \in T : \A k \in T : ~(<<k, m>> \in OpToRel(<, Nat))
  BY WFMin, NatLessThanWellFounded
<1>2. SUFFICES ASSUME NEW k \in T, k < m PROVE FALSE
  OBVIOUS
<1>3. <<k, m>> \in Nat \X Nat /\ <<k, m>>[1] < <<k, m>>[2]
  BY <1>2
<1>4. <<k, m>> \in OpToRel(<, Nat)
  BY <1>3 DEF OpToRel
<1> QED
  BY <1>1, <1>4

LEMMA MaxIsMember ==
  ASSUME NEW S, S \subseteq Nat, S # {}, NEW n \in Nat, \A x \in S : x <= n
  PROVE  Max(S) \in S /\ \A x \in S : x <= Max(S)
<1> DEFINE T == {n - x : x \in S}
<1>1. T \subseteq Nat /\ T # {}
  <2>1. \A x \in S : n - x \in Nat
    OBVIOUS
  <2> QED
    BY <2>1
<1>2. PICK m \in T : \A k \in T : m <= k
  <2> HIDE DEF T
  <2> QED
    BY <1>1, LeastNumber
<1>3. PICK x \in S : m = n - x
  BY <1>2
<1>4. \A y \in S : x >= y
  <2>1. \A y \in S : m <= n - y
    BY <1>2
  <2> QED
    BY <2>1, <1>3
<1>5. \A y \in S : Max(S) >= y /\ Max(S) \in S
  BY <1>4 DEF Max
<1> QED
  BY <1>5

-----------------------------------------------------------------------------
(* The index and its lines.                                                *)

IsList(s) == s \in Seq({s[i] : i \in DOMAIN s})
RowAt(s, i) == i \in DOMAIN s /\ s[i].kind = "row"
Spoilt(s) == \E i \in DOMAIN s : s[i].kind # "row"

LEMMA ListFacts ==
  ASSUME NEW s, IsList(s)
  PROVE  Len(s) \in Nat /\ DOMAIN s = 1..Len(s)
BY DEF IsList

LEMMA AppendIsList ==
  ASSUME NEW s, IsList(s), NEW x
  PROVE  /\ IsList(Append(s, x)) /\ Len(Append(s, x)) = Len(s) + 1
         /\ \A i \in 1..Len(s) : Append(s, x)[i] = s[i]
         /\ Append(s, x)[Len(s) + 1] = x
<1> DEFINE S == {s[i] : i \in DOMAIN s} \cup {x}
           t == Append(s, x)
<1>1. s \in Seq(S) /\ Len(s) \in Nat /\ DOMAIN s = 1..Len(s)
  BY DEF IsList
<1>2. /\ t \in Seq(S) /\ Len(t) = Len(s) + 1 /\ DOMAIN t = 1..Len(s) + 1
      /\ \A i \in 1..Len(s) : t[i] = s[i]
      /\ t[Len(s) + 1] = x
  <2> HIDE DEF S
  <2>1. x \in S
    BY DEF S
  <2> QED
    BY <1>1, <2>1
<1>3. t \in Seq({t[i] : i \in DOMAIN t})
  <2> HIDE DEF t
  <2>1. t \in [1..Len(t) -> {t[i] : i \in DOMAIN t}]
    BY <1>2, <1>1
  <2>2. Len(t) \in Nat
    BY <1>1, <1>2
  <2> QED
    BY <2>1, <2>2
<1> QED
  BY <1>2, <1>3 DEF IsList

LEMMA FrontIsList ==
  ASSUME NEW s, IsList(s), s # <<>>
  PROVE  /\ IsList(Front(s)) /\ Len(Front(s)) = Len(s) - 1 /\ Len(s) \in Nat \ {0}
         /\ \A i \in 1..Len(s) - 1 : Front(s)[i] = s[i]
<1> DEFINE S == {s[i] : i \in DOMAIN s}
           t == Front(s)
<1>1. s \in Seq(S)
  BY DEF IsList
<1>2. Len(s) \in Nat \ {0}
  BY <1>1
<1>3. t \in Seq(S) /\ Len(t) = Len(s) - 1 /\ \A i \in 1..Len(s) - 1 : t[i] = s[i]
  <2>1. t = SubSeq(s, 1, Len(s) - 1)
    BY DEF Front
  <2> DEFINE n == Len(s) - 1
  <2>2. n \in Nat /\ n <= Len(s)
    BY <1>2
  <2>3. \A i \in 1..n : i \in 1..Len(s)
    BY <1>2
  <2> HIDE DEF S, t, n
  <2>4. SubSeq(s, 1, n) \in Seq(S) /\ Len(SubSeq(s, 1, n)) = n
    BY <1>1, <2>2, <2>3
  <2>5. \A i \in 1..n : SubSeq(s, 1, n)[i] = s[i]
    BY <1>1, <2>2, <2>3
  <2> QED
    BY <2>1, <2>4, <2>5 DEF n
<1>4. t \in Seq({t[i] : i \in DOMAIN t})
  <2>1. Len(t) \in Nat /\ t \in [1..Len(t) -> S]
    BY <1>3
  <2> HIDE DEF t, S
  <2>2. t \in [1..Len(t) -> {t[i] : i \in DOMAIN t}]
    BY <2>1
  <2> QED
    BY <2>1, <2>2
<1> QED
  BY <1>2, <1>3, <1>4 DEF IsList

(* What appending a row to the index does: no row is lost, and a new one   *)
(* is the last line; nothing is spoilt that was not.                       *)
Appends(old, new, row) ==
  /\ IsList(new) /\ Len(new) > 0
  /\ \A i : RowAt(old, i) => RowAt(new, i) /\ new[i] = old[i] /\ i < Len(new)
  /\ \A i : RowAt(new, i) => RowAt(old, i) \/ (i = Len(new) /\ new[i] = row)
  /\ Spoilt(new) => Spoilt(old)

LEMMA AppendToAppends ==
  ASSUME NEW lines, IsList(lines), NEW row, row.kind = "row"
  PROVE  Appends(lines, AppendTo(lines, row), row)
<1> DEFINE new == AppendTo(lines, row)
<1>1. Len(lines) \in Nat /\ DOMAIN lines = 1..Len(lines)
  BY ListFacts
<1>2. CASE lines # <<>> /\ lines[Len(lines)].kind = "cut"
  <2> DEFINE bad == [kind |-> "bad"]
             f == Front(lines)
             n == Len(lines)
  <2>1. new = Front(lines) \o <<bad>>
    BY <1>2 DEF AppendTo, Last
  <2>2. IsList(f) /\ Len(f) = n - 1 /\ n \in Nat \ {0} /\ \A i \in 1..n - 1 : f[i] = lines[i]
    BY <1>2, FrontIsList
  <2>3. new = Append(f, bad)
    <3>1. f \in Seq({f[i] : i \in DOMAIN f})
      BY <2>2 DEF IsList
    <3> QED
      BY <3>1, <2>1
  <2> HIDE DEF f
  <2>4. IsList(new) /\ Len(new) = n /\ (\A i \in 1..n - 1 : new[i] = lines[i]) /\ new[n] = bad
    BY <2>2, <2>3, AppendIsList
  <2>5. DOMAIN new = 1..n
    BY <2>4, ListFacts
  <2>6. ~RowAt(lines, n) /\ ~RowAt(new, n) /\ Spoilt(lines)
    BY <1>1, <1>2, <2>2, <2>4 DEF RowAt, Spoilt
  <2>7. ASSUME NEW i, RowAt(lines, i) \/ RowAt(new, i) PROVE i \in 1..n - 1
    <3>1. i \in 1..n /\ i # n
      BY <2>5, <2>6, <2>7, <1>1 DEF RowAt
    <3> QED
      BY <3>1, <2>2
  <2>8. ASSUME NEW i \in 1..n - 1 PROVE (RowAt(lines, i) <=> RowAt(new, i)) /\ new[i] = lines[i] /\ i < n
    BY <2>2, <2>4, <2>5, <1>1 DEF RowAt
  <2>9. n > 0
    BY <2>2
  <2>10. \A i : RowAt(lines, i) \/ RowAt(new, i) => i \in 1..n - 1
    BY <2>7
  <2> HIDE DEF new, n
  <2>11. \A i : RowAt(lines, i) => RowAt(new, i) /\ new[i] = lines[i] /\ i < Len(new)
    BY <2>4, <2>8, <2>10
  <2>12. \A i : RowAt(new, i) => RowAt(lines, i)
    BY <2>8, <2>10
  <2>13. IsList(new) /\ Len(new) > 0
    BY <2>4, <2>9
  <2> QED
    BY <2>6, <2>11, <2>12, <2>13, Zenon DEF Appends, new
<1>3. CASE ~(lines # <<>> /\ lines[Len(lines)].kind = "cut")
  <2> DEFINE n == Len(lines)
  <2>1. new = Append(lines, row)
    BY <1>3 DEF AppendTo, Last
  <2>2. IsList(new) /\ Len(new) = n + 1 /\ (\A i \in 1..n : new[i] = lines[i]) /\ new[n + 1] = row
    BY <2>1, AppendIsList
  <2>3. DOMAIN new = 1..n + 1 /\ n \in Nat
    BY <2>2, <1>1, ListFacts
  <2>4. ASSUME NEW i, i \in DOMAIN new PROVE i \in 1..n \/ (i = n + 1 /\ new[i] = row)
    BY <2>2, <2>3, <2>4
  <2>5. ASSUME NEW i \in 1..n PROVE (RowAt(lines, i) <=> RowAt(new, i)) /\ new[i] = lines[i] /\ i < n + 1
    BY <2>2, <2>3, <1>1 DEF RowAt
  <2>6. Spoilt(new) => Spoilt(lines)
    BY <2>2, <2>4, <1>1 DEF Spoilt
  <2>7. \A i : RowAt(lines, i) => i \in 1..n
    BY <1>1 DEF RowAt
  <2>8. \A i : RowAt(new, i) => i \in DOMAIN new
    BY DEF RowAt
  <2>9. n + 1 > 0
    BY <2>3
  <2> HIDE DEF new, n
  <2>11. \A i : RowAt(lines, i) => RowAt(new, i) /\ new[i] = lines[i] /\ i < Len(new)
    BY <2>2, <2>5, <2>7
  <2>12. \A i : RowAt(new, i) => RowAt(lines, i) \/ (i = Len(new) /\ new[i] = row)
    BY <2>2, <2>4, <2>5, <2>8
  <2>13. IsList(new) /\ Len(new) > 0
    BY <2>2, <2>9
  <2> QED
    BY <2>6, <2>11, <2>12, <2>13, Zenon DEF Appends, new
<1> QED
  BY <1>2, <1>3

SameRows(old, new) ==
  /\ IsList(new)
  /\ \A i : RowAt(new, i) <=> RowAt(old, i)
  /\ \A i : RowAt(old, i) => new[i] = old[i]

(* A run cut while it appends leaves half a line behind, or nothing.       *)
LEMMA CutLine ==
  ASSUME NEW lines, IsList(lines)
  PROVE  SameRows(lines, Append(lines, [kind |-> "cut"]))
<1> DEFINE n == Len(lines)
           new == Append(lines, [kind |-> "cut"])
<1>1. IsList(new) /\ Len(new) = n + 1 /\ (\A i \in 1..n : new[i] = lines[i])
      /\ new[n + 1] = [kind |-> "cut"]
  BY AppendIsList
<1>2. DOMAIN new = 1..n + 1 /\ DOMAIN lines = 1..n /\ n \in Nat
  BY <1>1, ListFacts
<1>3. ~RowAt(new, n + 1)
  BY <1>1 DEF RowAt
<1>4. \A i : i \in 1..n + 1 /\ i # n + 1 => i \in 1..n
  BY <1>2
<1>5. \A i \in 1..n : i \in 1..n + 1
  BY <1>2
<1> QED
  BY <1>1, <1>2, <1>3, <1>4, <1>5 DEF RowAt, SameRows

(* The last row of a uid.                                                  *)
LastIn(s, u) == s[Max({i \in {j \in DOMAIN s : s[j].kind = "row"} : s[i].w.uid = u})]
IsLast(s, u, i) ==
  /\ RowAt(s, i) /\ s[i].w.uid = u
  /\ \A j : RowAt(s, j) /\ s[j].w.uid = u => j <= i

LEMMA LastInExists ==
  ASSUME NEW s, IsList(s), NEW u, \E i : RowAt(s, i) /\ s[i].w.uid = u
  PROVE  \E i : IsLast(s, u, i) /\ LastIn(s, u) = s[i]
<1> DEFINE S == {i \in {j \in DOMAIN s : s[j].kind = "row"} : s[i].w.uid = u}
<1>1. Len(s) \in Nat /\ DOMAIN s = 1..Len(s)
  BY ListFacts
<1>2. S \subseteq Nat /\ S # {} /\ \A x \in S : x <= Len(s)
  BY <1>1 DEF RowAt
<1>3. \A i : i \in S <=> RowAt(s, i) /\ s[i].w.uid = u
  BY DEF RowAt
<1>4. LastIn(s, u) = s[Max(S)]
  BY DEF LastIn
<1> HIDE DEF S
<1>5. Max(S) \in S /\ \A x \in S : x <= Max(S)
  BY <1>1, <1>2, MaxIsMember
<1> QED
  BY <1>3, <1>4, <1>5 DEF IsLast

LEMMA LastInIs ==
  ASSUME NEW s, IsList(s), NEW u, NEW i, IsLast(s, u, i)
  PROVE  LastIn(s, u) = s[i]
<1>1. PICK j : IsLast(s, u, j) /\ LastIn(s, u) = s[j]
  BY LastInExists DEF IsLast
<1>2. i <= j /\ j <= i
  BY <1>1 DEF IsLast
<1>3. i \in Nat /\ j \in Nat
  BY <1>1, ListFacts DEF IsLast, RowAt
<1> QED
  BY <1>1, <1>2, <1>3

-----------------------------------------------------------------------------
(* HeldOutStaysHeldOut.                                                    *)

(* Only AppendRow appends a row, and no row is ever lost.                  *)
LEMMA IndexStep ==
  ASSUME IsList(index), [Next]_vars
  PROVE  \/ AppendRow /\ Appends(index, index', RowOf(Now))
         \/ SameRows(index, index') /\ UNCHANGED regrouped
<1>1. CASE AppendRow
  <2>1. RowOf(Now).kind = "row"
    BY DEF RowOf
  <2>2. index' = AppendTo(index, RowOf(Now))
    BY <1>1 DEF AppendRow
  <2> QED
    BY <1>1, <2>1, <2>2, AppendToAppends
<1>2. CASE Cut
  <2>1. UNCHANGED regrouped
    BY <1>2 DEF Cut
  <2>2. CASE index' = index
    BY <2>1, <2>2 DEF SameRows
  <2>3. CASE index' = Append(index, [kind |-> "cut"])
    BY <2>1, <2>3, CutLine
  <2>4. index' = index \/ index' = Append(index, [kind |-> "cut"])
    BY <1>2 DEF Cut
  <2> QED
    BY <2>2, <2>3, <2>4
<1>3. CASE UNCHANGED <<index, regrouped>>
  BY <1>3 DEF SameRows
<1> QED
  BY <1>1, <1>2, <1>3
     DEF Next, vars, prep, Arrive, Annotate, UpdateCode, StartRun, WriteTensor, WriteSidecar, Train

(* Rows of one uid are of one group unless the uid is known to have been   *)
(* regrouped; what was used was a row, with the split of its group.        *)
GroupsKnown ==
  \A i, j : RowAt(index, i) /\ RowAt(index, j) /\ index[i].w.uid = index[j].w.uid
              /\ index[i].w.group # index[j].w.group
            => index[i].w.uid \in regrouped
UsedWereRows ==
  \A r \in used : \E i : /\ RowAt(index, i) /\ index[i].w.uid = r.uid
                         /\ r.split = SplitAt(Hash(index[i].w.group))
HeldInv == IsList(index) /\ GroupsKnown /\ UsedWereRows

LEMMA EmptyList == IsList(<<>>)
BY DEF IsList

LEMMA HeldInit == Init => HeldInv
<1> SUFFICES ASSUME Init PROVE HeldInv
  OBVIOUS
<1>1. index = <<>> /\ used = {}
  BY DEF Init
<1>2. \A i : ~RowAt(index, i)
  BY <1>1 DEF RowAt
<1> QED
  BY <1>1, <1>2, EmptyList DEF HeldInv, GroupsKnown, UsedWereRows

LEMMA LastRowIs == \A u : LastRow(u) = LastIn(index, u)
BY DEF LastRow, LastIn, Rows

LEMMA RowsAre == \A i : i \in Rows <=> RowAt(index, i)
BY DEF Rows, RowAt

LEMMA HasRowIs == \A u : HasRow(u) <=> \E i : RowAt(index, i) /\ index[i].w.uid = u
BY DEF HasRow, Rows, RowAt

LEMMA AppendKeepsGroups ==
  ASSUME HeldInv, AppendRow, Appends(index, index', RowOf(Now))
  PROVE  GroupsKnown'
<1> DEFINE u == Now.uid
           n == Len(index')
<1>1. SUFFICES ASSUME NEW i, NEW j, RowAt(index', i), RowAt(index', j),
                      index'[i].w.uid = index'[j].w.uid, index'[i].w.group # index'[j].w.group
               PROVE  index'[i].w.uid \in regrouped'
  BY DEF GroupsKnown
<1>2. /\ IsList(index) /\ GroupsKnown
      /\ \A k : RowAt(index', k) => (RowAt(index, k) /\ index'[k] = index[k])
                                    \/ (k = n /\ index'[k] = RowOf(Now))
  BY DEF HeldInv, Appends
<1>3. regrouped' = IF HasRow(u) /\ LastRow(u).w.group # Now.group THEN regrouped \cup {u}
                   ELSE regrouped
  BY DEF AppendRow
<1>4. RowOf(Now).w = Now
  BY DEF RowOf
(* An old row of the same uid whose group is not that of the new one.      *)
<1>5. ASSUME NEW k, RowAt(index, k), index[k].w.uid = u, index[k].w.group # Now.group
      PROVE  u \in regrouped'
  <2>1. HasRow(u)
    BY <1>5, HasRowIs
  <2>2. PICK l : IsLast(index, u, l) /\ LastRow(u) = index[l]
    BY <1>2, <1>5, LastInExists, LastRowIs
  <2>3. CASE index[l].w.group # Now.group
    BY <2>1, <2>2, <2>3, <1>3
  <2>4. CASE index[l].w.group = Now.group
    <3>1. RowAt(index, l) /\ index[l].w.uid = u /\ index[k].w.group # index[l].w.group
      BY <2>2, <2>4, <1>5 DEF IsLast
    <3>2. u \in regrouped
      BY <3>1, <1>5, <1>2 DEF GroupsKnown
    <3> QED
      BY <3>2, <1>3
  <2> QED
    BY <2>3, <2>4
<1>6. regrouped \subseteq regrouped'
  BY <1>3
<1> HIDE DEF u, n
<1>7. CASE i = n /\ index'[i] = RowOf(Now)
  <2>1. index'[i].w = Now /\ index'[i].w.uid = u
    BY <1>7, <1>4 DEF u
  <2>2. RowAt(index, j) /\ index'[j] = index[j]
    BY <1>1, <1>2, <1>7
  <2>3. index[j].w.uid = u /\ index[j].w.group # Now.group
    BY <1>1, <2>1, <2>2
  <2> QED
    BY <2>1, <2>2, <2>3, <1>5
<1>8. CASE RowAt(index, i) /\ index'[i] = index[i]
  <2>1. CASE RowAt(index, j) /\ index'[j] = index[j]
    <3>1. index[i].w.uid \in regrouped
      BY <1>1, <1>8, <2>1, <1>2 DEF GroupsKnown
    <3> QED
      BY <3>1, <1>6, <1>8
  <2>2. CASE j = n /\ index'[j] = RowOf(Now)
    <3>1. index'[j].w = Now /\ index'[j].w.uid = u
      BY <2>2, <1>4 DEF u
    <3>2. index[i].w.uid = u /\ index[i].w.group # Now.group
      BY <1>1, <1>8, <3>1
    <3> QED
      BY <1>8, <3>2, <1>5
  <2> QED
    BY <2>1, <2>2, <1>1, <1>2
<1> QED
  BY <1>7, <1>8, <1>1, <1>2

LEMMA RowsStay ==
  ASSUME IsList(index), [Next]_vars, NEW i, RowAt(index, i)
  PROVE  RowAt(index', i) /\ index'[i] = index[i]
BY IndexStep DEF Appends, SameRows

LEMMA TrainUsesRows ==
  ASSUME Train, NEW r \in used'
  PROVE  \/ r \in used
         \/ \E i : /\ RowAt(index, i) /\ index[i].w.uid = r.uid
                   /\ r.split = SplitAt(Hash(index[i].w.group))
<1>1. CASE r \in used
  BY <1>1
<1>2. CASE r \notin used
  <2> DEFINE rows == {index[i].w : i \in {j \in Rows : Kept(j)}}
             groups == {w.group : w \in rows}
             split == AssignSplits(groups)
  <2>1. r \in {[uid |-> w.uid, split |-> split[w.group], label |-> w.label,
                transition |-> w.transition] : w \in rows}
    BY <1>2 DEF Train
  <2> HIDE DEF rows, split
  <2>6. PICK w \in rows : r = [uid |-> w.uid, split |-> split[w.group], label |-> w.label,
                              transition |-> w.transition]
    BY <2>1
  <2>2. w \in rows /\ r.uid = w.uid /\ r.split = split[w.group]
    BY <2>6
  <2>3. PICK i \in Rows : w = index[i].w
    BY <2>2 DEF rows
  <2>4. w.group \in groups
    BY <2>2
  <2>5. split[w.group] = SplitAt(Hash(w.group))
    BY <2>4 DEF AssignSplits, split
  <2> QED
    BY <2>2, <2>3, <2>5, RowsAre
<1> QED
  BY <1>1, <1>2

LEMMA HeldStep == HeldInv /\ [Next]_vars => HeldInv'
<1> SUFFICES ASSUME HeldInv, [Next]_vars PROVE HeldInv'
  OBVIOUS
<1>1. IsList(index) /\ GroupsKnown /\ UsedWereRows
  BY DEF HeldInv
<1>2. IsList(index)'
  BY <1>1, IndexStep DEF Appends, SameRows
<1>3. GroupsKnown'
  <2>1. CASE AppendRow /\ Appends(index, index', RowOf(Now))
    BY <2>1, AppendKeepsGroups
  <2>2. CASE SameRows(index, index') /\ UNCHANGED regrouped
    BY <2>2, <1>1 DEF SameRows, GroupsKnown
  <2> QED
    BY <2>1, <2>2, <1>1, IndexStep
<1>4. UsedWereRows'
  <2>1. SUFFICES ASSUME NEW r \in used'
                 PROVE  \E i : /\ RowAt(index', i) /\ index'[i].w.uid = r.uid
                               /\ r.split = SplitAt(Hash(index'[i].w.group))
    BY DEF UsedWereRows, SplitAt, Hash
  <2>2. r \in used \/ \E i : /\ RowAt(index, i) /\ index[i].w.uid = r.uid
                             /\ r.split = SplitAt(Hash(index[i].w.group))
    <3>1. CASE Train
      BY <3>1, TrainUsesRows
    <3>2. CASE UNCHANGED used
      BY <3>2
    <3> QED
      BY <3>1, <3>2 DEF Next, vars, Arrive, Annotate, UpdateCode, StartRun, WriteTensor,
                        AppendRow, WriteSidecar, Cut
  <2>3. PICK i : /\ RowAt(index, i) /\ index[i].w.uid = r.uid
                 /\ r.split = SplitAt(Hash(index[i].w.group))
    BY <2>2, <1>1 DEF UsedWereRows
  <2>4. RowAt(index', i) /\ index'[i] = index[i]
    BY <2>3, <1>1, RowsStay
  <2> QED
    BY <2>3, <2>4
<1> QED
  BY <1>2, <1>3, <1>4 DEF HeldInv

(* A window that was held out stays held out, in any number of trainings   *)
(* between which the dataset grows, unless it was prepared again under     *)
(* another group (index.py: assign_splits, group_key).                     *)
THEOREM HeldOut == Spec => []HeldOutStaysHeldOut
<1>1. HeldInv => HeldOutStaysHeldOut
  <2>1. SUFFICES ASSUME HeldInv, NEW a \in used, NEW b \in used, a.uid = b.uid, a.split # b.split
                 PROVE  a.uid \in regrouped
    BY DEF HeldOutStaysHeldOut
  <2>2. PICK i : /\ RowAt(index, i) /\ index[i].w.uid = a.uid
                 /\ a.split = SplitAt(Hash(index[i].w.group))
    BY <2>1 DEF HeldInv, UsedWereRows
  <2>3. PICK j : /\ RowAt(index, j) /\ index[j].w.uid = b.uid
                 /\ b.split = SplitAt(Hash(index[j].w.group))
    BY <2>1 DEF HeldInv, UsedWereRows
  <2>4. index[i].w.group # index[j].w.group
    BY <2>1, <2>2, <2>3
  <2> QED
    BY <2>1, <2>2, <2>3, <2>4 DEF HeldInv, GroupsKnown
<1> QED
  BY <1>1, HeldInit, HeldStep, PTL DEF Spec

-----------------------------------------------------------------------------
(* TrainFailsOnlyAfterCut, and the files of a window.                      *)

(* From the tensor to the sidecar the files of the current window count as *)
(* hurt, and what was written of them is of it.                            *)
Begun ==
  /\ pc \in {"row", "sidecar"} => Now.uid \in hurt
  /\ pc \in {"row", "sidecar"} /\ tensors => Now.uid \in DOMAIN npy
                                             /\ npy[Now.uid] = <<Now.what, code>>
  /\ pc = "sidecar" => Len(index) > 0 /\ (Last(index).kind = "row" => Last(index) = RowOf(Now))

(* A half-written tensor or line is the work of a cut.                     *)
CutTensors == \A u \in DOMAIN npy : npy[u] = <<"cut">> => cuts > 0 /\ u \in hurt
CutLines == Spoilt(index) \/ failed => cuts > 0

(* The files of a uid that is not hurt are those of its last row.          *)
FilesOf(tensor, sidecar, u, row) ==
  /\ u \in DOMAIN sidecar /\ sidecar[u] = row
  /\ row.artifact # <<>> => u \in DOMAIN tensor /\ tensor[u] = row.artifact
Written == \A u, i : IsLast(index, u, i) /\ u \notin hurt => FilesOf(npy, json, u, index[i])

FilesInv == cuts \in Nat /\ IsList(index) /\ Begun /\ CutTensors /\ CutLines /\ Written

LEMMA FilesInit == Init => FilesInv
<1> SUFFICES ASSUME Init PROVE FilesInv
  OBVIOUS
<1>1. index = <<>> /\ npy = <<>> /\ pc = "idle" /\ cuts = 0 /\ failed = FALSE
  BY DEF Init
<1>2. ~Spoilt(index) /\ \A i : ~RowAt(index, i)
  BY <1>1 DEF Spoilt, RowAt
<1>3. DOMAIN npy = {}
  BY <1>1
<1> QED
  BY <1>1, <1>2, <1>3, EmptyList
     DEF FilesInv, Begun, CutTensors, CutLines, Written, IsLast

LEMMA BegunStep == FilesInv /\ [Next]_vars => Begun'
<1> SUFFICES ASSUME FilesInv, [Next]_vars PROVE Begun'
  OBVIOUS
<1>0. Begun /\ IsList(index)
  BY DEF FilesInv
<1>1. CASE WriteTensor
  <2>1. /\ pc' = "row" /\ Now' = Now /\ Now.uid \in hurt' /\ tensors' = tensors /\ code' = code
        /\ npy' = IF tensors THEN Put(npy, Now.uid, <<Now.what, code>>) ELSE npy
    BY <1>1 DEF WriteTensor, Now
  <2>2. tensors => Now.uid \in DOMAIN npy' /\ npy'[Now.uid] = <<Now.what, code>>
    BY <2>1 DEF Put
  <2> QED
    BY <2>1, <2>2 DEF Begun
<1>2. CASE AppendRow
  <2>1. /\ pc = "row" /\ Now' = Now /\ hurt' = hurt /\ tensors' = tensors /\ code' = code
        /\ npy' = npy /\ RowOf(Now)' = RowOf(Now)
    BY <1>2 DEF AppendRow, Now, RowOf
  <2>2. Appends(index, index', RowOf(Now))
    <3>1. RowOf(Now).kind = "row"
      BY DEF RowOf
    <3> QED
      BY <3>1, <1>0, <1>2, AppendToAppends DEF AppendRow
  <2>3. Len(index') > 0
    BY <2>2 DEF Appends
  <2>4. ASSUME index'[Len(index')].kind = "row" PROVE index'[Len(index')] = RowOf(Now)
    <3> DEFINE n == Len(index')
    <3>1. IsList(index')
      BY <2>2 DEF Appends
    <3>2. n \in Nat /\ DOMAIN index' = 1..n
      BY <3>1, ListFacts
    <3>3. RowAt(index', n)
      BY <3>2, <2>3, <2>4 DEF RowAt
    <3>4. RowAt(index, n) => n < n
      BY <2>2 DEF Appends
    <3> HIDE DEF n
    <3>5. ~RowAt(index, n)
      BY <3>2, <3>4
    <3> QED
      BY <3>3, <3>5, <2>2 DEF Appends, n
  <2> QED
    BY <1>0, <2>1, <2>3, <2>4 DEF Begun, Last
<1>3. CASE UpdateCode \/ WriteSidecar \/ Cut
  <2>1. pc' \in {"idle", "tensor"}
    BY <1>3 DEF UpdateCode, StartRun, WriteSidecar, Cut, prep
  <2> QED
    BY <2>1 DEF Begun
<1>4. ASSUME NEW limit, NEW withTensors, StartRun(limit, withTensors) PROVE Begun'
  <2>1. pc' \in {"idle", "tensor"}
    BY <1>4 DEF StartRun
  <2> QED
    BY <2>1 DEF Begun
<1>5. CASE UNCHANGED <<prep, code>>
  BY <1>0, <1>5 DEF Begun, prep, Now, RowOf
<1> QED
  BY <1>1, <1>2, <1>3, <1>4, <1>5
     DEF Next, vars, Arrive, Annotate, Train

LEMMA CutTensorsStep == FilesInv /\ [Next]_vars => CutTensors' /\ cuts' \in Nat
<1> SUFFICES ASSUME FilesInv, [Next]_vars PROVE CutTensors' /\ cuts' \in Nat
  OBVIOUS
<1>0. CutTensors /\ Begun /\ cuts \in Nat
  BY DEF FilesInv
<1>a. \A a, b : <<a, b>> # <<"cut">>
  OBVIOUS
<1>1. CASE WriteTensor
  <2>1. cuts' = cuts /\ hurt \subseteq hurt'
    BY <1>1 DEF WriteTensor
  <2>2. CASE npy' = npy
    BY <2>1, <2>2, <1>0 DEF CutTensors
  <2>3. CASE npy' = Put(npy, Now.uid, <<Now.what, code>>)
    <3>1. \A u \in DOMAIN npy' : npy'[u] = <<"cut">> => u \in DOMAIN npy /\ npy[u] = <<"cut">>
      BY <2>3, <1>a DEF Put
    <3> QED
      BY <3>1, <2>1, <1>0 DEF CutTensors
  <2> QED
    BY <2>2, <2>3, <1>1, <1>0, <2>1 DEF WriteTensor
<1>2. CASE WriteSidecar
  <2>1. npy' = npy /\ cuts' = cuts /\ pc = "sidecar"
    BY <1>2 DEF WriteSidecar
  <2>2. \A u \in hurt : u \notin hurt' => u = Now.uid /\ (tensors \/ Now.uid \notin DOMAIN npy)
    BY <1>2 DEF WriteSidecar
  <2>3. tensors => npy[Now.uid] = <<Now.what, code>>
    BY <2>1, <1>0 DEF Begun
  <2> QED
    BY <2>1, <2>2, <2>3, <1>0, <1>a DEF CutTensors
<1>3. CASE Cut
  <2>1. cuts' \in Nat /\ cuts' > 0
    BY <1>3, <1>0 DEF Cut
  <2>2. CASE npy' = npy /\ hurt \subseteq hurt'
    BY <2>1, <2>2, <1>0 DEF CutTensors
  <2>3. CASE npy' = Put(npy, Now.uid, <<"cut">>) /\ hurt' = hurt \cup {Now.uid}
    <3>1. \A u \in DOMAIN npy' : u = Now.uid \/ (u \in DOMAIN npy /\ npy'[u] = npy[u])
      BY <2>3 DEF Put
    <3> QED
      BY <3>1, <2>1, <2>3, <1>0 DEF CutTensors
  <2> QED
    BY <2>1, <2>2, <2>3, <1>3 DEF Cut
<1>4. CASE UNCHANGED <<npy, hurt, cuts>>
  BY <1>0, <1>4 DEF CutTensors
<1> QED
  BY <1>1, <1>2, <1>3, <1>4
     DEF Next, vars, prep, Arrive, Annotate, UpdateCode, StartRun, AppendRow, Train

(* Training raises on a line or a tensor that a cut left behind.           *)
LEMMA LoadRaisesAfterCut ==
  ASSUME FilesInv, LoadRaises
  PROVE  cuts > 0 /\ (Spoilt(index) \/ \E i \in Rows : index[i].w.uid \in hurt)
<1>1. CASE Raises
  BY <1>1 DEF Raises, Spoilt, FilesInv, CutLines
<1>2. CASE ~Raises
  <2>1. PICK i \in Rows : Kept(i) /\ ~LoadsTensor(index[i].w.uid)
    BY <1>2 DEF LoadRaises
  <2>2. index[i].w.uid \in DOMAIN npy /\ npy[index[i].w.uid] = <<"cut">>
    BY <2>1 DEF Kept, LoadsTensor
  <2> QED
    BY <2>1, <2>2 DEF FilesInv, CutTensors
<1> QED
  BY <1>1, <1>2

LEMMA CutLinesStep == FilesInv /\ [Next]_vars => CutLines'
<1> SUFFICES ASSUME FilesInv, [Next]_vars PROVE CutLines'
  OBVIOUS
<1>0. CutLines /\ IsList(index) /\ cuts \in Nat
  BY DEF FilesInv
<1>1. CASE AppendRow
  <2>1. RowOf(Now).kind = "row"
    BY DEF RowOf
  <2>2. Spoilt(index') => Spoilt(index)
    BY <2>1, <1>0, <1>1, AppendToAppends DEF AppendRow, Appends
  <2>3. failed' = failed /\ cuts' = cuts
    BY <1>1 DEF AppendRow
  <2> QED
    BY <1>0, <2>2, <2>3 DEF CutLines
<1>2. CASE Cut
  <2>1. cuts' > 0
    BY <1>2, <1>0 DEF Cut
  <2> QED
    BY <2>1 DEF CutLines
<1>3. CASE Train
  BY <1>0, <1>3, LoadRaisesAfterCut DEF CutLines, Train, prep
<1>4. CASE UNCHANGED <<index, failed, cuts>>
  BY <1>0, <1>4 DEF CutLines
<1> QED
  BY <1>1, <1>2, <1>3, <1>4
     DEF Next, vars, prep, Arrive, Annotate, UpdateCode, StartRun, WriteTensor, WriteSidecar

LEMMA SameLast ==
  ASSUME NEW s, NEW t, SameRows(s, t), NEW u, NEW i, IsLast(t, u, i)
  PROVE  IsLast(s, u, i) /\ t[i] = s[i]
BY DEF SameRows, IsLast

LEMMA WrittenStep == FilesInv /\ [Next]_vars => Written'
<1> SUFFICES ASSUME FilesInv, [Next]_vars, NEW u, NEW i, IsLast(index', u, i), u \notin hurt'
             PROVE  FilesOf(npy', json', u, index'[i])
  BY DEF Written
<1>0. Written /\ Begun /\ IsList(index)
  BY DEF FilesInv
<1>1. CASE WriteTensor
  <2>1. index' = index /\ json' = json /\ u # Now.uid /\ u \notin hurt
        /\ npy' = IF tensors THEN Put(npy, Now.uid, <<Now.what, code>>) ELSE npy
    BY <1>1 DEF WriteTensor
  <2>2. FilesOf(npy, json, u, index[i])
    BY <2>1, <1>0 DEF Written
  <2>3. u \in DOMAIN npy => u \in DOMAIN npy' /\ npy'[u] = npy[u]
    BY <2>1 DEF Put
  <2> QED
    BY <2>1, <2>2, <2>3 DEF FilesOf
<1>2. CASE AppendRow
  <2>1. /\ pc = "row" /\ hurt' = hurt /\ npy' = npy /\ json' = json
        /\ Appends(index, index', RowOf(Now))
    <3>1. RowOf(Now).kind = "row"
      BY DEF RowOf
    <3> QED
      BY <3>1, <1>0, <1>2, AppendToAppends DEF AppendRow
  <2>2. u # Now.uid
    BY <2>1, <1>0 DEF Begun
  <2>3. RowOf(Now).w.uid = Now.uid
    BY DEF RowOf
  <2>4. RowAt(index, i) /\ index'[i] = index[i]
    BY <2>1, <2>2, <2>3 DEF Appends, IsLast
  <2>5. IsLast(index, u, i)
    BY <2>1, <2>4 DEF Appends, IsLast
  <2>6. FilesOf(npy, json, u, index[i])
    BY <2>1, <2>5, <1>0 DEF Written
  <2> QED
    BY <2>1, <2>4, <2>6 DEF FilesOf
<1>3. CASE WriteSidecar
  <2>1. index' = index /\ npy' = npy /\ pc = "sidecar" /\ json' = Put(json, Now.uid, RowOf(Now))
    BY <1>3 DEF WriteSidecar
  <2>2. CASE u = Now.uid
    <3>1. Last(index).kind = "row" /\ (tensors \/ u \notin DOMAIN npy)
      BY <1>3, <2>1, <2>2, <1>0 DEF WriteSidecar, Begun
    <3>2. Last(index) = RowOf(Now) /\ Len(index) > 0
      BY <3>1, <2>1, <1>0 DEF Begun
    <3>3. i = Len(index)
      <4> DEFINE n == Len(index)
      <4>1. n \in Nat /\ DOMAIN index = 1..n
        BY <1>0, ListFacts
      <4>2. index[n] = RowOf(Now) /\ n > 0
        BY <3>2 DEF Last
      <4> HIDE DEF n
      <4>3. RowAt(index, n) /\ index[n].w.uid = u
        BY <4>1, <4>2, <2>2 DEF RowAt, RowOf
      <4>4. n <= i /\ i \in 1..n
        BY <4>1, <4>3, <2>1 DEF IsLast, RowAt
      <4>5. i = n
        BY <4>1, <4>4
      <4> QED
        BY <4>5 DEF n
    <3>4. index[i] = RowOf(Now)
      BY <3>2, <3>3 DEF Last
    <3>5. u \in DOMAIN json' /\ json'[u] = RowOf(Now)
      BY <2>1, <2>2 DEF Put
    <3>6. RowOf(Now).artifact # <<>> => u \in DOMAIN npy /\ npy[u] = RowOf(Now).artifact
      BY <2>1, <2>2, <1>0 DEF RowOf, Begun
    <3> QED
      BY <2>1, <3>4, <3>5, <3>6 DEF FilesOf
  <2>3. CASE u # Now.uid
    <3>1. u \notin hurt
      BY <1>3, <2>3 DEF WriteSidecar
    <3>2. FilesOf(npy, json, u, index[i])
      BY <3>1, <2>1, <1>0 DEF Written
    <3>3. u \in DOMAIN json => u \in DOMAIN json' /\ json'[u] = json[u]
      BY <2>1, <2>3 DEF Put
    <3> QED
      BY <2>1, <3>2, <3>3 DEF FilesOf
  <2> QED
    BY <2>2, <2>3
<1>4. CASE Cut
  <2>1. SameRows(index, index')
    <3>1. index' = index \/ index' = Append(index, [kind |-> "cut"])
      BY <1>4 DEF Cut
    <3>2. SameRows(index, index)
      BY <1>0 DEF SameRows
    <3> QED
      BY <3>1, <3>2, <1>0, CutLine
  <2>2. IsLast(index, u, i) /\ index'[i] = index[i] /\ u \notin hurt
    <3>1. u \notin hurt
      BY <1>4 DEF Cut
    <3> QED
      BY <2>1, <3>1, SameLast
  <2>3. FilesOf(npy, json, u, index[i])
    BY <2>2, <1>0 DEF Written
  <2>4. u \in DOMAIN npy => u \in DOMAIN npy' /\ npy'[u] = npy[u]
    <3>1. npy' = npy \/ (u # Now.uid /\ npy' = Put(npy, Now.uid, <<"cut">>))
      BY <1>4 DEF Cut
    <3> QED
      BY <3>1 DEF Put
  <2>5. u \in DOMAIN json => u \in DOMAIN json' /\ json'[u] = json[u]
    <3>1. json' = json \/ (u # Now.uid /\ json' = Put(json, Now.uid, <<"cut">>))
      BY <1>4, <2>2, <1>0 DEF Cut, Begun
    <3> QED
      BY <3>1 DEF Put
  <2> QED
    BY <2>2, <2>3, <2>4, <2>5 DEF FilesOf
<1>5. CASE UNCHANGED <<index, npy, json, hurt>>
  BY <1>0, <1>5 DEF Written, FilesOf
<1> QED
  BY <1>1, <1>2, <1>3, <1>4, <1>5
     DEF Next, vars, prep, Arrive, Annotate, UpdateCode, StartRun, Train

LEMMA FilesStep == FilesInv /\ [Next]_vars => FilesInv'
<1> SUFFICES ASSUME FilesInv, [Next]_vars PROVE FilesInv'
  OBVIOUS
<1>1. IsList(index')
  BY IndexStep DEF FilesInv, Appends, SameRows
<1> QED
  BY <1>1, BegunStep, CutTensorsStep, CutLinesStep, WrittenStep DEF FilesInv

(* Training raises only where a run of prepare was cut while it appended   *)
(* to the index or replaced a tensor that a row names (index.py:           *)
(* iter_dataset; benchmark_features_v2.py: load_rows).                     *)
THEOREM TrainFails == Spec => []TrainFailsOnlyAfterCut
<1>1. FilesInv => TrainFailsOnlyAfterCut
  <2> SUFFICES ASSUME FilesInv PROVE TrainFailsOnlyAfterCut
    OBVIOUS
  <2>1. failed => cuts > 0
    BY DEF FilesInv, CutLines
  <2>2. LoadRaises => Spoilt(index) \/ \E i \in Rows : index[i].w.uid \in hurt
    BY LoadRaisesAfterCut
  <2> QED
    BY <2>1, <2>2 DEF TrainFailsOnlyAfterCut, Spoilt
<1> QED
  BY <1>1, FilesInit, FilesStep, PTL DEF Spec

-----------------------------------------------------------------------------
(* Lists the model computes: sorted, summed, flattened.                    *)

LEMMA InOrderLists ==
  ASSUME NEW S, IsFiniteSet(S), NEW pos \in [S -> Nat],
         \A x, y \in S : pos[x] = pos[y] => x = y
  PROVE  InOrder(S, pos) \in [1..Cardinality(S) -> S] /\ Cardinality(S) \in Nat
<1> DEFINE n == Cardinality(S)
           before(x) == {y \in S : pos[y] < pos[x]}
           rank == [x \in S |-> Cardinality(before(x)) + 1]
<1>1. n \in Nat
  BY FS_CardinalityType
<1>2. ASSUME NEW x \in S
      PROVE  IsFiniteSet(before(x)) /\ rank[x] \in 1..n /\ rank[x] = Cardinality(before(x)) + 1
  <2>1. IsFiniteSet(S \ {x}) /\ Cardinality(S \ {x}) = n - 1
    BY FS_RemoveElement
  <2>2. before(x) \subseteq S \ {x}
    OBVIOUS
  <2> HIDE DEF before
  <2>3. IsFiniteSet(before(x)) /\ Cardinality(before(x)) <= n - 1
    BY <2>1, <2>2, FS_Subset
  <2>4. Cardinality(before(x)) \in Nat
    BY <2>3, FS_CardinalityType
  <2> HIDE DEF n
  <2> QED
    BY <1>1, <2>3, <2>4
<1>3. ASSUME NEW x \in S, NEW y \in S, pos[x] < pos[y] PROVE rank[x] < rank[y]
  <2>1. x \notin before(x) /\ before(x) \cup {x} \subseteq before(y)
    BY <1>3
  <2>2. IsFiniteSet(before(x)) /\ IsFiniteSet(before(y))
    BY <1>2
  <2>3. rank[x] = Cardinality(before(x)) + 1 /\ rank[y] = Cardinality(before(y)) + 1
    BY <1>2
  <2> HIDE DEF before, rank
  <2>4. Cardinality(before(x) \cup {x}) = Cardinality(before(x)) + 1
    BY <2>1, <2>2, FS_AddElement
  <2>5. Cardinality(before(x) \cup {x}) <= Cardinality(before(y))
    BY <2>1, <2>2, FS_Subset
  <2>6. Cardinality(before(x)) \in Nat /\ Cardinality(before(y)) \in Nat
    BY <2>2, FS_CardinalityType
  <2> QED
    BY <2>3, <2>4, <2>5, <2>6
<1>4. rank \in Surjection(S, 1..n)
  <2>1. rank \in [S -> 1..n]
    BY <1>2
  <2>2. ASSUME NEW x \in S, NEW y \in S, rank[x] = rank[y] PROVE x = y
    <3>1. ~(pos[x] < pos[y]) /\ ~(pos[y] < pos[x])
      <4> HIDE DEF rank
      <4>1. rank[x] \in 1..n /\ rank[y] \in 1..n
        BY <1>2
      <4>2. ~(rank[x] < rank[y]) /\ ~(rank[y] < rank[x])
        BY <4>1, <2>2, <1>1
      <4> QED
        BY <4>2, <1>3
    <3>2. pos[x] \in Nat /\ pos[y] \in Nat
      OBVIOUS
    <3>3. pos[x] = pos[y]
      BY <3>1, <3>2
    <3> QED
      BY <3>3
  <2> HIDE DEF rank
  <2>3. rank \in Injection(S, 1..n)
    BY <2>1, <2>2 DEF Injection, IsInjective
  <2>4. IsFiniteSet(1..n) /\ Cardinality(1..n) = n
    BY <1>1, FS_Interval
  <2> QED
    BY <2>3, <2>4, FS_Injection
<1> DEFINE at == [i \in 1..n |-> CHOOSE x \in S : rank[x] = i]
           Sorted(s) == \A i, j \in DOMAIN s : i < j => pos[s[i]] < pos[s[j]]
<1>5. \A i \in 1..n : at[i] \in S /\ rank[at[i]] = i
  <2>1. \A i \in 1..n : \E x \in S : rank[x] = i
    BY <1>4 DEF Surjection
  <2> HIDE DEF rank
  <2> QED
    BY <2>1
<1>6. at \in [1..n -> S]
  BY <1>5
<1>7. Sorted(at)
  <2>1. SUFFICES ASSUME NEW i \in 1..n, NEW j \in 1..n, i < j PROVE pos[at[i]] < pos[at[j]]
    BY <1>6
  <2>2. at[i] \in S /\ at[j] \in S /\ rank[at[i]] < rank[at[j]]
    BY <2>1, <1>5
  <2> HIDE DEF at, rank
  <2>3. rank[at[i]] \in Nat /\ rank[at[j]] \in Nat /\ pos[at[i]] \in Nat /\ pos[at[j]] \in Nat
    <3>1. rank[at[i]] \in 1..n /\ rank[at[j]] \in 1..n
      BY <2>2, <1>2
    <3> QED
      BY <3>1, <2>2, <1>1
  <2>4. pos[at[i]] # pos[at[j]] /\ ~(pos[at[j]] < pos[at[i]])
    <3>1. ~(rank[at[j]] < rank[at[i]]) /\ at[i] # at[j]
      BY <2>2, <2>3
    <3> QED
      BY <3>1, <2>2, <1>3
  <2> QED
    BY <2>3, <2>4
<1>8. InOrder(S, pos) = CHOOSE s \in [1..n -> S] : Sorted(s)
  BY DEF InOrder
<1> HIDE DEF at, Sorted
<1> QED
  BY <1>1, <1>6, <1>7, <1>8

LEMMA ListedType ==
  ASSUME NEW files, files \subseteq Mirror, \A f, g \in files : f.ds = g.ds, NEW of
  PROVE  Listed(files, of) \in Seq({of[f] : f \in files})
<1> DEFINE pos == [f \in files |-> f.n]
           s == InOrder(files, pos)
<1>1. IsFiniteSet(files)
  BY MirrorAssumption, FS_Subset
<1>2. \A f \in files : f.n \in Nat
  BY MirrorAssumption
<1>3. \A f, g \in files : f.n = g.n => f = g
  BY MirrorAssumption
<1>4. pos \in [files -> Nat] /\ \A f, g \in files : pos[f] = pos[g] => f = g
  BY <1>2, <1>3
<1>5. s \in [1..Cardinality(files) -> files] /\ Cardinality(files) \in Nat
  <2> HIDE DEF pos
  <2> QED
    BY <1>1, <1>4, InOrderLists
<1>6. Listed(files, of) = [i \in DOMAIN s |-> of[s[i]]]
  BY DEF Listed
<1> HIDE DEF s
<1> QED
  BY <1>5, <1>6

(* g lists the sums of the first n numbers of w.                           *)
PartialSums(w, g, n) ==
  /\ g \in [0..n -> Nat]
  /\ g[0] = 0
  /\ \A i \in 1..n : g[i] = g[i - 1] + w[i]

LEMMA PartialSumsExist ==
  ASSUME NEW w \in Seq(Nat), NEW n \in 0..Len(w)
  PROVE  \E g : PartialSums(w, g, n)
<1> DEFINE T == {m \in 0..Len(w) : ~ \E g : PartialSums(w, g, m)}
<1>1. SUFFICES ASSUME T # {} PROVE FALSE
  OBVIOUS
<1>2. PICK m \in T : \A k \in T : m <= k
  <2>1. T \subseteq Nat
    OBVIOUS
  <2> HIDE DEF T
  <2> QED
    BY <2>1, <1>1, LeastNumber
<1>3. m # 0
  <2>1. PartialSums(w, [i \in 0..0 |-> 0], 0)
    BY DEF PartialSums
  <2> QED
    BY <2>1
<1>4. m \in 1..Len(w) /\ m - 1 \in 0..Len(w) /\ w[m] \in Nat
  <2>1. m \in 0..Len(w) /\ Len(w) \in Nat
    OBVIOUS
  <2> QED
    BY <2>1, <1>3
<1>5. PICK g : PartialSums(w, g, m - 1)
  <2>1. m - 1 \notin T
    <3> HIDE DEF T
    <3>1. m \in Nat /\ ~(m <= m - 1)
      BY <1>4
    <3> QED
      BY <1>2, <3>1
  <2> QED
    BY <2>1, <1>4
<1> DEFINE h == [i \in 0..m |-> IF i = m THEN g[m - 1] + w[m] ELSE g[i]]
<1>6. PartialSums(w, h, m)
  <2>1. /\ g \in [0..m - 1 -> Nat] /\ g[0] = 0
        /\ \A i \in 1..m - 1 : g[i] = g[i - 1] + w[i]
    BY <1>5 DEF PartialSums
  <2>2. g[m - 1] \in Nat /\ m \in Nat
    BY <1>4, <2>1
  <2>3. h \in [0..m -> Nat] /\ h[0] = 0
    BY <1>3, <1>4, <2>1, <2>2
  <2>4. ASSUME NEW i \in 1..m PROVE h[i] = h[i - 1] + w[i]
    <3>1. CASE i = m
      BY <3>1, <1>4, <2>1
    <3>2. CASE i # m
      BY <3>2, <1>4, <2>1
    <3> QED
      BY <3>1, <3>2
  <2> HIDE DEF h
  <2> QED
    BY <2>3, <2>4 DEF PartialSums
<1> QED
  BY <1>2, <1>6

LEMMA TotalStepsType ==
  ASSUME NEW files, files \subseteq Mirror, \A f, g \in files : f.ds = g.ds,
         \A f \in files : f.steps \in Nat
  PROVE  TotalSteps(files) \in Nat
<1> DEFINE w == Listed(files, [f \in files |-> f.steps])
           n == Len(w)
           Upto(h) == h = [i \in 0..n |-> IF i = 0 THEN 0 ELSE h[i - 1] + w[i]]
           sum == CHOOSE h : Upto(h)
<1>1. w \in Seq(Nat) /\ n \in Nat
  <2> DEFINE of == [f \in files |-> f.steps]
  <2>1. {of[f] : f \in files} \subseteq Nat
    OBVIOUS
  <2> HIDE DEF of
  <2>2. Listed(files, of) \in Seq({of[f] : f \in files})
    BY ListedType
  <2>3. Listed(files, of) \in Seq(Nat)
    <3> DEFINE s == Listed(files, of)
               S == {of[f] : f \in files}
    <3>1. s \in Seq(S) /\ S \subseteq Nat
      BY <2>1, <2>2
    <3> HIDE DEF s, S
    <3>2. Len(s) \in Nat /\ s \in [1..Len(s) -> S]
      BY <3>1
    <3>3. s \in [1..Len(s) -> Nat]
      BY <3>1, <3>2
    <3>4. s \in Seq(Nat)
      BY <3>2, <3>3
    <3> QED
      BY <3>4 DEF s
  <2> QED
    BY <2>3 DEF of
<1>2. TotalSteps(files) = sum[n]
  BY DEF TotalSteps
<1> HIDE DEF w, n
<1>3. PICK g : PartialSums(w, g, n)
  BY <1>1, PartialSumsExist DEF n
<1>4. /\ g \in [0..n -> Nat] /\ g[0] = 0
      /\ \A i \in 1..n : g[i] = g[i - 1] + w[i]
  BY <1>3 DEF PartialSums
<1>5. Upto(g)
  <2>1. \A i \in 0..n : i # 0 => i \in 1..n
    BY <1>1
  <2> QED
    BY <1>4, <2>1
<1>6. Upto(sum)
  BY <1>5
<1> HIDE DEF sum
<1>7. sum[0] = 0 /\ \A i \in 1..n : sum[i] = sum[i - 1] + w[i]
  BY <1>6, <1>1
<1> DEFINE T == {m \in 0..n : sum[m] # g[m]}
<1>8. T = {}
  <2>1. SUFFICES ASSUME T # {} PROVE FALSE
    OBVIOUS
  <2>2. PICK m \in T : \A k \in T : m <= k
    <3>1. T \subseteq Nat
      BY <1>1
    <3> HIDE DEF T
    <3> QED
      BY <3>1, <2>1, LeastNumber
  <2>3. m \in 1..n /\ m - 1 \in 0..n
    BY <1>1, <1>4, <1>7
  <2>4. m - 1 \notin T
    BY <2>2, <2>3, <1>1
  <2> QED
    BY <1>4, <1>7, <2>3, <2>4
<1>9. n \in 0..n
  BY <1>1
<1>10. sum[n] = g[n]
  BY <1>8, <1>9
<1> QED
  BY <1>2, <1>4, <1>9, <1>10

(* Joined(ss, g, n): g lists the first 1 .. n of ss joined.                *)
Joined(S, ss, g, n) ==
  /\ g \in [1..n -> Seq(S)]
  /\ \A i \in 1..n : g[i] = IF i = 1 THEN ss[i] ELSE g[i - 1] \o ss[i]

LEMMA JoinedExists ==
  ASSUME NEW S, NEW ss \in Seq(Seq(S)), NEW n \in 0..Len(ss)
  PROVE  \E g : Joined(S, ss, g, n)
<1> DEFINE T == {m \in 0..Len(ss) : ~ \E g : Joined(S, ss, g, m)}
<1>1. SUFFICES ASSUME T # {} PROVE FALSE
  OBVIOUS
<1>2. PICK m \in T : \A k \in T : m <= k
  <2>1. T \subseteq Nat
    OBVIOUS
  <2> HIDE DEF T
  <2> QED
    BY <2>1, <1>1, LeastNumber
<1>3. m # 0
  <2>1. Joined(S, ss, [i \in 1..0 |-> <<>>], 0)
    BY DEF Joined
  <2> QED
    BY <2>1
<1>4. m \in 1..Len(ss) /\ m - 1 \in 0..Len(ss) /\ ss[m] \in Seq(S)
  <2>1. m \in 0..Len(ss) /\ Len(ss) \in Nat
    OBVIOUS
  <2> QED
    BY <2>1, <1>3
<1>5. PICK g : Joined(S, ss, g, m - 1)
  <2>1. m - 1 \notin T
    <3> HIDE DEF T
    <3>1. m \in Nat /\ ~(m <= m - 1)
      BY <1>4
    <3> QED
      BY <1>2, <3>1
  <2> QED
    BY <2>1, <1>4
<1> DEFINE last == IF m = 1 THEN ss[m] ELSE g[m - 1] \o ss[m]
           h == [i \in 1..m |-> IF i = m THEN last ELSE g[i]]
<1>6. Joined(S, ss, h, m)
  <2>1. /\ g \in [1..m - 1 -> Seq(S)]
        /\ \A i \in 1..m - 1 : g[i] = IF i = 1 THEN ss[i] ELSE g[i - 1] \o ss[i]
    BY <1>5 DEF Joined
  <2>2. m \in Nat \ {0} /\ \A i \in 1..m : i # m => i \in 1..m - 1
    BY <1>4
  <2>3. last \in Seq(S)
    <3>1. CASE m = 1
      BY <3>1, <1>4
    <3>2. CASE m # 1
      <4>1. m - 1 \in 1..m - 1
        BY <3>2, <2>2
      <4>2. g[m - 1] \in Seq(S)
        BY <4>1, <2>1
      <4> QED
        BY <4>2, <3>2, <1>4
    <3> QED
      BY <3>1, <3>2
  <2>4. h \in [1..m -> Seq(S)]
    <3> HIDE DEF last
    <3> QED
      BY <2>1, <2>2, <2>3
  <2>5. ASSUME NEW i \in 1..m PROVE h[i] = IF i = 1 THEN ss[i] ELSE h[i - 1] \o ss[i]
    <3>1. i # 1 => h[i - 1] = g[i - 1]
      BY <2>2
    <3>2. CASE i = m
      BY <3>1, <3>2
    <3>3. CASE i # m
      <4>1. i \in 1..m - 1 /\ h[i] = g[i]
        BY <2>2, <3>3
      <4> QED
        BY <4>1, <3>1, <2>1
    <3> QED
      BY <3>2, <3>3
  <2> HIDE DEF h
  <2> QED
    BY <2>4, <2>5 DEF Joined
<1> QED
  BY <1>2, <1>6

LEMMA FlattenSeqType ==
  ASSUME NEW S, NEW ss \in Seq(Seq(S))
  PROVE  FlattenSeq(ss) \in Seq(S)
<1> DEFINE n == Len(ss)
           Upto(h) == h = [i \in 1..n |-> IF i = 1 THEN ss[i] ELSE h[i - 1] \o ss[i]]
           flat == CHOOSE h : Upto(h)
<1>1. n \in Nat
  OBVIOUS
<1>2. CASE n = 0
  <2>1. ss = <<>>
    BY <1>2
  <2> QED
    BY <2>1, <1>2 DEF FlattenSeq
<1>3. CASE n # 0
  <2>1. FlattenSeq(ss) = flat[n]
    BY <1>3 DEF FlattenSeq
  <2>2. PICK g : Joined(S, ss, g, n)
    BY <1>1, JoinedExists
  <2> HIDE DEF n
  <2>3. /\ g \in [1..n -> Seq(S)]
        /\ \A i \in 1..n : g[i] = IF i = 1 THEN ss[i] ELSE g[i - 1] \o ss[i]
    BY <2>2 DEF Joined
  <2>4. Upto(g)
    BY <2>3
  <2>5. Upto(flat)
    BY <2>4
  <2> HIDE DEF flat
  <2>6. \A i \in 1..n : flat[i] = IF i = 1 THEN ss[i] ELSE flat[i - 1] \o ss[i]
    BY <2>5
  <2> DEFINE T == {m \in 1..n : flat[m] # g[m]}
  <2>7. T = {}
    <3>1. SUFFICES ASSUME T # {} PROVE FALSE
      OBVIOUS
    <3>2. PICK m \in T : \A k \in T : m <= k
      <4>1. T \subseteq Nat
        BY <1>1
      <4> HIDE DEF T
      <4> QED
        BY <4>1, <3>1, LeastNumber
    <3>5. m \in 1..n /\ flat[m] # g[m]
      BY <3>2
    <3>6. m # 1
      BY <3>5, <2>3, <2>6
    <3>3. m # 1 /\ m - 1 \in 1..n
      BY <1>1, <3>5, <3>6
    <3>4. m - 1 \notin T
      <4> HIDE DEF T
      <4>1. m \in Nat /\ ~(m <= m - 1)
        BY <3>5, <1>1
      <4> QED
        BY <3>2, <4>1
    <3>7. flat[m - 1] = g[m - 1]
      BY <3>3, <3>4
    <3>8. flat[m] = flat[m - 1] \o ss[m] /\ g[m] = g[m - 1] \o ss[m]
      BY <2>3, <2>6, <3>3, <3>5
    <3> QED
      BY <3>5, <3>7, <3>8
  <2>8. n \in 1..n
    BY <1>1, <1>3
  <2> QED
    BY <2>1, <2>3, <2>7, <2>8
<1> QED
  BY <1>2, <1>3

-----------------------------------------------------------------------------
(* Two rows of a uid are of the same samples: every window comes from a    *)
(* recording of originals on disk.                                         *)

OfZenodo(r, files) ==
  \E P \in SUBSET files : /\ r.src = {<<g.key, g.part>> : g \in P}
                          /\ r.off = 0 /\ r.steps = TotalSteps(P)
OfRub(r, files) == \E f \in files : r.src = f.key /\ r.off = 0 /\ r.steps = f.steps
OfRfuav(r, files) == \E f \in files : r.src = f.data /\ r.off = 0 /\ r.steps = f.steps
OfAnalog(r, files) ==
  \E f \in files : \E d \in Dwells(f.blocks) :
    /\ r.src = f.sweep /\ r.rec = <<f.sweep, f.blocks[d[1]]>>
    /\ r.off = d[1] /\ r.steps = d[2] - d[1] + 1
OfAerix(r, files) == \E f \in files : r.src = f.n /\ r.off = 0 /\ r.steps = f.steps

RecordingOf(r, dataset, files) ==
  /\ r.steps \in Nat
  /\ dataset = "zenodo" => OfZenodo(r, files)
  /\ dataset = "rub" => OfRub(r, files)
  /\ dataset = "rfuav" => OfRfuav(r, files)
  /\ dataset = "analog" => OfAnalog(r, files)
  /\ dataset = "aerix" => OfAerix(r, files)

WindowOf(w, dataset, files) ==
  \E r, k : /\ RecordingOf(r, dataset, files)
            /\ w.uid = <<r.src, r.rec, r.chan, k>>
            /\ w.what = <<r.src, r.off, IterWindows(r.steps)[k]>>

LEMMA OnDiskFacts ==
  /\ OnDisk \subseteq Mirror
  /\ \A f \in OnDisk : f.ds = ds
BY DEF OnDisk

LEMMA ConcatType ==
  ASSUME NEW A, NEW B, NEW s \in Seq(A), NEW t \in Seq(B)
  PROVE  s \o t \in Seq(A \cup B)
<1> DEFINE C == A \cup B
<1>1. A \subseteq C /\ B \subseteq C
  OBVIOUS
<1> HIDE DEF C
<1>2. s \in Seq(C) /\ t \in Seq(C)
  <2>1. Len(s) \in Nat /\ s \in [1..Len(s) -> A] /\ Len(t) \in Nat /\ t \in [1..Len(t) -> B]
    OBVIOUS
  <2>2. s \in [1..Len(s) -> C] /\ t \in [1..Len(t) -> C]
    BY <2>1, <1>1
  <2> QED
    BY <2>1, <2>2
<1>3. s \o t \in Seq(C)
  BY <1>2
<1> QED
  BY <1>3 DEF C

LEMMA ZenodoGenuine ==
  ASSUME ds = "zenodo"
  PROVE  \E R : ZenodoRecordings \in Seq(R) /\ \A r \in R : RecordingOf(r, ds, OnDisk)
<1> DEFINE Parts(f) == {g \in OnDisk : g.key = f.key}
           of == [f \in OnDisk |->
                    Recording(f.key, {<<g.key, g.part>> : g \in Parts(f)}, f.band, 0,
                              <<f.key, "">>, f.key, "drone_link", TotalSteps(Parts(f)))]
           first == {f \in OnDisk : \A g \in Parts(f) : f.part <= g.part}
           A == {f \in first : Cardinality(Parts(f)) = 1}
           B == {f \in first : Cardinality(Parts(f)) > 1}
           RA == {of[f] : f \in A}
           RB == {of[f] : f \in B}
<1>1. ASSUME NEW f \in OnDisk PROVE RecordingOf(of[f], ds, OnDisk)
  <2>1. Parts(f) \in SUBSET OnDisk
    OBVIOUS
  <2>2. /\ Parts(f) \subseteq Mirror /\ (\A g, h \in Parts(f) : g.ds = h.ds)
        /\ \A g \in Parts(f) : g.steps \in Nat
    BY OnDiskFacts, MirrorAssumption
  <2> DEFINE P == Parts(f)
  <2>3. /\ of[f].src = {<<g.key, g.part>> : g \in P} /\ of[f].off = 0
        /\ of[f].steps = TotalSteps(P)
    BY DEF Recording
  <2> HIDE DEF Parts, of, P
  <2>4. TotalSteps(P) \in Nat
    BY <2>2, TotalStepsType DEF P
  <2> QED
    BY <2>1, <2>3, <2>4 DEF RecordingOf, OfZenodo, P
<1>2. A \subseteq OnDisk /\ B \subseteq OnDisk
  OBVIOUS
<1>3. ZenodoRecordings = Listed(A, of) \o Listed(B, of)
  BY DEF ZenodoRecordings
<1> HIDE DEF A, B, of
<1>4. Listed(A, of) \in Seq(RA) /\ Listed(B, of) \in Seq(RB)
  BY <1>2, OnDiskFacts, ListedType
<1>5. ZenodoRecordings \in Seq(RA \cup RB)
  <2> HIDE DEF RA, RB
  <2> QED
    BY <1>3, <1>4, ConcatType
<1>6. \A r \in RA \cup RB : RecordingOf(r, ds, OnDisk)
  BY <1>1, <1>2
<1> QED
  BY <1>5, <1>6

LEMMA RubGenuine ==
  ASSUME ds = "rub"
  PROVE  \E R : RubRecordings \in Seq(R) /\ \A r \in R : RecordingOf(r, ds, OnDisk)
<1> DEFINE of == [f \in OnDisk |->
                    Recording(f.key, f.key, "", 0, <<f.key, "">>, f.key, "drone_link", f.steps)]
           R == {of[f] : f \in OnDisk}
<1>1. ASSUME NEW f \in OnDisk PROVE RecordingOf(of[f], ds, OnDisk)
  <2>1. of[f].src = f.key /\ of[f].off = 0 /\ of[f].steps = f.steps
    BY DEF Recording
  <2>2. f.steps \in Nat
    BY OnDiskFacts, MirrorAssumption
  <2> HIDE DEF of
  <2> QED
    BY <2>1, <2>2 DEF RecordingOf, OfRub
<1>2. RubRecordings = Listed(OnDisk, of)
  BY DEF RubRecordings
<1> HIDE DEF of
<1>3. Listed(OnDisk, of) \in Seq(R)
  BY OnDiskFacts, ListedType
<1> QED
  BY <1>1, <1>2, <1>3

LEMMA RfuavGenuine ==
  ASSUME ds = "rfuav"
  PROVE  \E R : RfuavRecordings \in Seq(R) /\ \A r \in R : RecordingOf(r, ds, OnDisk)
<1> DEFINE of == [f \in OnDisk |->
                    [Recording(<<f.device, f.pack, f.slice>>, f.data, "", 0, <<f.device, f.pack>>,
                               f.device, IF f.known THEN "drone_link" ELSE "unknown", f.steps)
                       EXCEPT !.loads = f.steps <= f.declared]]
           files == {f \in OnDisk : Rars = {} \/ f.archive \in Rars}
           R == {of[f] : f \in files}
<1>1. ASSUME NEW f \in OnDisk PROVE RecordingOf(of[f], ds, OnDisk)
  <2>1. of[f].src = f.data /\ of[f].off = 0 /\ of[f].steps = f.steps
    BY DEF Recording
  <2>2. f.steps \in Nat
    BY OnDiskFacts, MirrorAssumption
  <2> HIDE DEF of
  <2> QED
    BY <2>1, <2>2 DEF RecordingOf, OfRfuav
<1>2. RfuavRecordings = Listed(files, of)
  BY DEF RfuavRecordings
<1>3. files \subseteq OnDisk
  OBVIOUS
<1> HIDE DEF of, files
<1>4. Listed(files, of) \in Seq(R)
  BY <1>3, OnDiskFacts, ListedType
<1> QED
  BY <1>1, <1>2, <1>3, <1>4

LEMMA AerixGenuine ==
  ASSUME ds = "aerix"
  PROVE  \E R : AerixRecordings \in Seq(R) /\ \A r \in R : RecordingOf(r, ds, OnDisk)
<1> DEFINE upto(f) == {g \in OnDisk : g.n <= f.n}
           lost(f) == FoldSet(LAMBDA g, a : a + g.lost, 0, upto(f))
           annotated(f) == f.n \in DOMAIN ann
           of == [f \in OnDisk |->
             [Recording(<<"session", f.n>>, f.n, "", 0,
                        IF annotated(f) THEN <<"session", ann[f.n].id>> ELSE <<"session", "all">>,
                        "antsdr", IF annotated(f) THEN ann[f.n].label ELSE test, f.steps)
                EXCEPT !.drop = f.lost > 1 \/ lost(f) > 10 * Cardinality(upto(f)),
                       !.transition = annotated(f) /\ ann[f.n].transition]]
           R == {of[f] : f \in OnDisk}
<1>2. AerixRecordings = Listed(OnDisk, of)
  BY DEF AerixRecordings
<1>1. ASSUME NEW f \in OnDisk PROVE RecordingOf(of[f], ds, OnDisk)
  <2> HIDE DEF lost, annotated, upto
  <2>1. of[f].src = f.n /\ of[f].off = 0 /\ of[f].steps = f.steps
    BY DEF Recording
  <2>2. f.steps \in Nat
    BY OnDiskFacts, MirrorAssumption
  <2> HIDE DEF of
  <2> QED
    BY <2>1, <2>2 DEF RecordingOf, OfAerix
<1> HIDE DEF of
<1>3. Listed(OnDisk, of) \in Seq(R)
  BY OnDiskFacts, ListedType
<1> QED
  BY <1>1, <1>2, <1>3

LEMMA DwellFacts ==
  ASSUME NEW blocks \in Seq(Nat)
  PROVE  /\ IsFiniteSet(Dwells(blocks))
         /\ \A d \in Dwells(blocks) : d[1] \in 1..Len(blocks) /\ d[2] \in 1..Len(blocks) /\ d[1] <= d[2]
         /\ \A d, e \in Dwells(blocks) : d[1] = e[1] => d = e
<1> DEFINE n == Len(blocks)
<1>1. n \in Nat /\ DOMAIN blocks = 1..n
  OBVIOUS
<1>2. IsFiniteSet((1..n) \X (1..n))
  <2>1. IsFiniteSet(1..n)
    BY <1>1, FS_Interval
  <2> QED
    BY <2>1, FS_Product
<1>3. Dwells(blocks) \subseteq (1..n) \X (1..n)
  BY <1>1 DEF Dwells
<1>4. IsFiniteSet(Dwells(blocks))
  <2> HIDE DEF n
  <2> QED
    BY <1>2, <1>3, FS_Subset
<1>5. \A d \in Dwells(blocks) : d \in (1..n) \X (1..n) /\ d[1] <= d[2]
  BY <1>1 DEF Dwells
<1>6. ASSUME NEW d \in Dwells(blocks), NEW e \in Dwells(blocks), d[1] = e[1], d[2] < e[2]
      PROVE  FALSE
  <2>1. /\ \A i \in e[1]..e[2] : blocks[i] = blocks[e[1]]
        /\ d[2] < n => blocks[d[2] + 1] # blocks[d[2]]
    BY DEF Dwells
  <2>2. d[1] \in 1..n /\ d[2] \in 1..n /\ e[2] \in 1..n /\ d[1] <= d[2]
    BY <1>5
  <2>3. d[2] \in e[1]..e[2] /\ d[2] + 1 \in e[1]..e[2] /\ d[2] < n
    BY <2>2, <1>6, <1>1
  <2> QED
    BY <2>1, <2>3
<1>7. ASSUME NEW d \in Dwells(blocks), NEW e \in Dwells(blocks), d[1] = e[1] PROVE d = e
  <2>1. d \in (1..n) \X (1..n) /\ e \in (1..n) \X (1..n)
    BY <1>5
  <2>2. d[2] = e[2]
    <3>1. ~(d[2] < e[2]) /\ ~(e[2] < d[2])
      BY <1>6, <1>7
    <3>2. d[2] \in 1..n /\ e[2] \in 1..n
      BY <2>1
    <3> QED
      BY <3>1, <3>2, <1>1
  <2> QED
    BY <2>1, <2>2, <1>7
<1> QED
  BY <1>4, <1>5, <1>7

LEMMA AnalogGenuine ==
  ASSUME ds = "analog"
  PROVE  \E R : AnalogRecordings \in Seq(R) /\ \A r \in R : RecordingOf(r, ds, OnDisk)
<1> DEFINE list(f) == InOrder(Dwells(f.blocks), [d \in Dwells(f.blocks) |-> d[1]])
           dwell(f, d) ==
             LET centre == f.blocks[d[1]]
             IN  Recording(<<f.sweep, centre>>, f.sweep, centre, d[1], <<f.sweep, "">>,
                           IF f.drone = 0 THEN "no_tx" ELSE "vtx",
                           DwellLabel(f, centre), d[2] - d[1] + 1)
           of == [f \in OnDisk |-> [i \in DOMAIN list(f) |-> dwell(f, list(f)[i])]]
           files == {f \in OnDisk : f.incsv}
           R == UNION {{dwell(f, d) : d \in Dwells(f.blocks)} : f \in OnDisk}
           Rs == {of[f] : f \in files}
<1>1. AnalogRecordings = FlattenSeq(Listed(files, of))
  BY DEF AnalogRecordings
<1>2. ASSUME NEW f \in OnDisk
      PROVE  /\ \A d \in Dwells(f.blocks) : RecordingOf(dwell(f, d), ds, OnDisk)
             /\ of[f] \in Seq(R)
  <2>1. f.blocks \in Seq(Nat)
    BY OnDiskFacts, MirrorAssumption
  <2> DEFINE D == Dwells(f.blocks)
             pos == [d \in D |-> d[1]]
  <2>2. /\ IsFiniteSet(D)
        /\ \A d \in D : d[1] \in 1..Len(f.blocks) /\ d[2] \in 1..Len(f.blocks) /\ d[1] <= d[2]
        /\ \A d, e \in D : d[1] = e[1] => d = e
    BY <2>1, DwellFacts
  <2>3. pos \in [D -> Nat] /\ \A d, e \in D : pos[d] = pos[e] => d = e
    <3> HIDE DEF D
    <3>1. \A d \in D : d[1] \in Nat
      BY <2>2, <2>1
    <3> QED
      BY <3>1, <2>2
  <2>4. list(f) = InOrder(D, pos)
    OBVIOUS
  <2>5. list(f) \in [1..Cardinality(D) -> D] /\ Cardinality(D) \in Nat
    <3> HIDE DEF list, D, pos
    <3> QED
      BY <2>2, <2>3, <2>4, InOrderLists
  <2>6. ASSUME NEW d \in D PROVE RecordingOf(dwell(f, d), ds, OnDisk)
    <3>1. /\ dwell(f, d).src = f.sweep /\ dwell(f, d).rec = <<f.sweep, f.blocks[d[1]]>>
          /\ dwell(f, d).off = d[1] /\ dwell(f, d).steps = d[2] - d[1] + 1
      BY DEF Recording
    <3>2. d[2] - d[1] + 1 \in Nat
      <4> HIDE DEF D
      <4> QED
        BY <2>1, <2>2
    <3> HIDE DEF dwell
    <3> QED
      BY <3>1, <3>2 DEF RecordingOf, OfAnalog
  <2>7. \A d \in D : dwell(f, d) \in R
    <3> HIDE DEF dwell
    <3>1. {dwell(f, d) : d \in D} \subseteq R
      OBVIOUS
    <3> QED
      BY <3>1
  <2>8. of[f] = [i \in DOMAIN list(f) |-> dwell(f, list(f)[i])]
    OBVIOUS
  <2> HIDE DEF list, dwell, of, R
  <2>9. of[f] \in Seq(R)
    <3>1. DOMAIN list(f) = 1..Cardinality(D) /\ \A i \in 1..Cardinality(D) : list(f)[i] \in D
      BY <2>5
    <3> HIDE DEF D
    <3>2. of[f] \in [1..Cardinality(D) -> R]
      BY <3>1, <2>7, <2>8
    <3> QED
      BY <3>2, <2>5
  <2> QED
    BY <2>6, <2>9
<1>3. files \subseteq OnDisk
  OBVIOUS
<1>4. \A r \in R : RecordingOf(r, ds, OnDisk)
  <2> HIDE DEF dwell
  <2> QED
    BY <1>2
<1> HIDE DEF of, files, R
<1>5. Listed(files, of) \in Seq(Rs)
  BY <1>3, OnDiskFacts, ListedType
<1>6. Listed(files, of) \in Seq(Seq(R))
  <2>1. Rs \subseteq Seq(R)
    BY <1>2, <1>3
  <2> DEFINE s == Listed(files, of)
             Q == Seq(R)
  <2> HIDE DEF s, Rs, Q
  <2>2. s \in Seq(Rs) /\ Rs \subseteq Q
    BY <1>5, <2>1 DEF s, Q
  <2>3. Len(s) \in Nat /\ s \in [1..Len(s) -> Rs]
    BY <2>2
  <2>4. s \in [1..Len(s) -> Q]
    BY <2>2, <2>3
  <2>5. s \in Seq(Q)
    BY <2>3, <2>4
  <2> QED
    BY <2>5 DEF s, Q
<1>7. AnalogRecordings \in Seq(R)
  BY <1>1, <1>6, FlattenSeqType
<1> QED
  BY <1>4, <1>7

LEMMA RecordingsGenuine ==
  ASSUME ds \in Datasets
  PROVE  \E R : Recordings \in Seq(R) /\ \A r \in R : RecordingOf(r, ds, OnDisk)
<1>1. CASE ds = "zenodo"
  BY <1>1, ZenodoGenuine DEF Recordings
<1>2. CASE ds = "rub"
  BY <1>2, RubGenuine DEF Recordings
<1>3. CASE ds = "rfuav"
  BY <1>3, RfuavGenuine DEF Recordings
<1>4. CASE ds = "analog"
  BY <1>4, AnalogGenuine DEF Recordings
<1>5. CASE ds = "aerix"
  BY <1>5, AerixGenuine DEF Recordings
<1> QED
  BY <1>1, <1>2, <1>3, <1>4, <1>5 DEF Datasets

LEMMA MinIsMember ==
  ASSUME NEW S, S \subseteq Nat, S # {}
  PROVE  Min(S) \in S /\ \A x \in S : Min(S) <= x
<1>1. PICK m \in S : \A k \in S : m <= k
  BY LeastNumber
<1> QED
  BY <1>1 DEF Min

LEMMA PrefixType ==
  ASSUME NEW R, NEW s \in Seq(R), NEW n \in 0..Len(s)
  PROVE  SubSeq(s, 1, n) \in Seq(R)
<1>1. n \in Nat /\ n <= Len(s) /\ \A i \in 1..n : i \in 1..Len(s)
  OBVIOUS
<1> QED
  BY <1>1

LEMMA WindowCount ==
  ASSUME NEW steps \in Nat
  PROVE  \E n \in Nat : DOMAIN IterWindows(steps) = 1..n
<1> DEFINE a == steps + WindowSteps - 1
           n == a \div WindowSteps
<1>1. WindowSteps \in Nat /\ WindowSteps > 0 /\ a \in Nat
  BY CorpusAssumption
<1>2. n \in Nat
  <2> HIDE DEF a
  <2>1. n \in Int /\ a % WindowSteps < WindowSteps /\ a = WindowSteps * n + (a % WindowSteps)
        /\ a % WindowSteps \in Nat
    BY <1>1
  <2>2. ~(n <= -1)
    <3>1. SUFFICES ASSUME n <= -1 PROVE FALSE
      OBVIOUS
    <3> HIDE DEF n
    <3> DEFINE m == -1 - n
    <3>2. m \in Nat /\ WindowSteps * m \in Nat
      BY <1>1, <2>1, <3>1
    <3>3. WindowSteps * n = -(WindowSteps * m) - WindowSteps
      BY <1>1, <2>1
    <3> DEFINE c == WindowSteps * m
               b == WindowSteps * n
               l == a % WindowSteps
    <3>4. b = -c - WindowSteps /\ c \in Nat /\ a = b + l /\ l < WindowSteps /\ l \in Nat
          /\ a \in Nat /\ WindowSteps \in Nat
      BY <1>1, <2>1, <3>2, <3>3
    <3> HIDE DEF b, c, l
    <3> QED
      BY <3>4
  <2> QED
    BY <2>1, <2>2
<1>3. DOMAIN IterWindows(steps) = 1..n
  BY DEF IterWindows
<1> QED
  BY <1>2, <1>3

LEMMA PlanGenuine ==
  ASSUME NEW R, NEW recs \in Seq(R), \A r \in R : RecordingOf(r, ds, OnDisk)
  PROVE  \E W : Plan(recs) \in Seq(W) /\ \A w \in W : WindowOf(w, ds, OnDisk)
<1> DEFINE bad == {i \in DOMAIN recs : ~recs[i].loads}
           good == IF bad = {} THEN recs ELSE SubSeq(recs, 1, Min(bad) - 1)
           W == UNION {{WindowsOf(r)[k] : k \in DOMAIN WindowsOf(r)} : r \in R}
           ws == [i \in DOMAIN good |-> WindowsOf(good[i])]
<1>1. good \in Seq(R)
  <2>1. CASE bad = {}
    BY <2>1
  <2>2. CASE bad # {}
    <3>1. bad \subseteq 1..Len(recs) /\ Len(recs) \in Nat
      OBVIOUS
    <3> HIDE DEF bad
    <3>2. Min(bad) \in bad
      <4>1. bad \subseteq Nat
        BY <3>1
      <4> QED
        BY <4>1, <2>2, MinIsMember
    <3>3. Min(bad) - 1 \in 0..Len(recs)
      <4>1. Min(bad) \in 1..Len(recs)
        BY <3>1, <3>2
      <4> QED
        BY <4>1, <3>1
    <3> QED
      BY <2>2, <3>3, PrefixType
  <2> QED
    BY <2>1, <2>2
<1>2. ASSUME NEW r \in R
      PROVE  WindowsOf(r) \in Seq(W) /\ \A k \in DOMAIN WindowsOf(r) : WindowOf(WindowsOf(r)[k], ds, OnDisk)
  <2> DEFINE v == WindowsOf(r)
             w == IterWindows(r.steps)
  <2>1. r.steps \in Nat
    BY DEF RecordingOf
  <2>2. PICK n \in Nat : DOMAIN w = 1..n
    BY <2>1, WindowCount
  <2>3. v = [k \in DOMAIN w |->
               [uid |-> Uid(r, k), what |-> <<r.src, r.off, w[k]>>, group |-> <<r.device, r.run>>,
                label |-> r.label, drop |-> r.drop, transition |-> r.transition]]
    BY DEF WindowsOf
  <2> HIDE DEF v, w
  <2>4. DOMAIN v = 1..n /\ v = [k \in 1..n |-> v[k]]
    BY <2>2, <2>3
  <2>5. {v[k] : k \in DOMAIN v} \subseteq W
    BY DEF v
  <2>6. v \in Seq(W)
    <3>1. v \in [1..n -> W]
      <4> HIDE DEF W
      <4> QED
        BY <2>4, <2>5
    <3> HIDE DEF W
    <3> QED
      BY <3>1, <2>2
  <2>7. ASSUME NEW k \in DOMAIN v PROVE WindowOf(v[k], ds, OnDisk)
    <3>1. v[k].uid = <<r.src, r.rec, r.chan, k>> /\ v[k].what = <<r.src, r.off, w[k]>>
      BY <2>2, <2>3, <2>4 DEF Uid
    <3> QED
      BY <3>1 DEF WindowOf, w
  <2> QED
    BY <2>6, <2>7 DEF v
<1>3. ws \in Seq(Seq(W))
  <2> HIDE DEF good, W
  <2>1. Len(good) \in Nat /\ DOMAIN good = 1..Len(good) /\ \A i \in 1..Len(good) : good[i] \in R
    BY <1>1
  <2>2. ws \in [1..Len(good) -> Seq(W)]
    BY <2>1, <1>2
  <2> QED
    BY <2>1, <2>2
<1>4. Plan(recs) = FlattenSeq(ws)
  BY DEF Plan
<1>5. \A w \in W : WindowOf(w, ds, OnDisk)
  BY <1>2
<1> HIDE DEF ws, W
<1>6. Plan(recs) \in Seq(W)
  BY <1>3, <1>4, FlattenSeqType
<1> QED
  BY <1>5, <1>6

(* What is still to be written, and every row, is a window of a recording  *)
(* of originals on disk.                                                   *)
SourceInv ==
  /\ ds \in Datasets /\ IsList(index)
  /\ (pc = "idle") = (todo = <<>>)
  /\ \E W : todo \in Seq(W) /\ \A w \in W : WindowOf(w, ds, OnDisk)
  /\ \A i : RowAt(index, i) => WindowOf(index[i].w, ds, OnDisk)

LEMMA RecordingStays ==
  ASSUME NEW r, NEW d, NEW A, NEW B, A \subseteq B, RecordingOf(r, d, A)
  PROVE  RecordingOf(r, d, B)
BY DEF RecordingOf, OfZenodo, OfRub, OfRfuav, OfAnalog, OfAerix

LEMMA WindowStays ==
  ASSUME NEW w, NEW d, NEW A, NEW B, A \subseteq B, WindowOf(w, d, A)
  PROVE  WindowOf(w, d, B)
BY RecordingStays DEF WindowOf

LEMMA DiskGrows ==
  ASSUME [Next]_vars PROVE ds' = ds /\ OnDisk \subseteq OnDisk'
<1>1. ds' = ds /\ there \subseteq there'
  BY DEF Next, vars, disk, Arrive, Annotate, UpdateCode, StartRun, WriteTensor, AppendRow,
         WriteSidecar, Cut, Train
<1> QED
  BY <1>1 DEF OnDisk

LEMMA SourceInit == Init => SourceInv
<1> SUFFICES ASSUME Init PROVE SourceInv
  OBVIOUS
<1>1. index = <<>> /\ todo = <<>> /\ pc = "idle" /\ ds \in Datasets
  BY DEF Init
<1>2. \A i : ~RowAt(index, i)
  BY <1>1 DEF RowAt
<1>3. todo \in Seq({}) /\ \A w \in {} : WindowOf(w, ds, OnDisk)
  BY <1>1
<1> QED
  BY <1>1, <1>2, <1>3, EmptyList DEF SourceInv

LEMMA TodoStep ==
  ASSUME SourceInv, [Next]_vars
  PROVE  \E W : todo' \in Seq(W) /\ \A w \in W : WindowOf(w, ds, OnDisk)
<1>1. PICK W : todo \in Seq(W) /\ \A w \in W : WindowOf(w, ds, OnDisk)
  BY DEF SourceInv
<1>2. ASSUME NEW limit \in Limits, NEW withTensors \in BOOLEAN, StartRun(limit, withTensors)
      PROVE  \E V : todo' \in Seq(V) /\ \A w \in V : WindowOf(w, ds, OnDisk)
  <2>1. PICK R : Recordings \in Seq(R) /\ \A r \in R : RecordingOf(r, ds, OnDisk)
    BY RecordingsGenuine DEF SourceInv
  <2> DEFINE n == Len(Recordings)
             m == Min({limit, n})
             first == SubSeq(Recordings, 1, m)
  <2>2. limit \in Nat /\ n \in Nat
    BY <2>1, CorpusAssumption
  <2>3. m \in 0..n
    <3> HIDE DEF n
    <3>1. {limit, n} \subseteq Nat /\ {limit, n} # {}
      BY <2>2
    <3>2. m \in {limit, n} /\ m <= n
      BY <3>1, MinIsMember
    <3> QED
      BY <2>2, <3>2
  <2>4. first \in Seq(R)
    BY <2>1, <2>3, PrefixType
  <2>5. todo' = Plan(first)
    BY <1>2 DEF StartRun
  <2> HIDE DEF first
  <2> QED
    BY <2>1, <2>4, <2>5, PlanGenuine
<1>3. CASE WriteSidecar
  <2>1. todo # <<>> /\ todo' = Tail(todo)
    BY <1>3 DEF WriteSidecar, SourceInv
  <2>2. todo' \in Seq(W)
    BY <1>1, <2>1
  <2> QED
    BY <1>1, <2>2
<1>4. CASE Cut
  <2>1. todo' = <<>>
    BY <1>4 DEF Cut
  <2>2. todo' \in Seq(W)
    BY <2>1
  <2> QED
    BY <1>1, <2>2
<1>5. CASE UNCHANGED todo
  BY <1>1, <1>5
<1> QED
  BY <1>2, <1>3, <1>4, <1>5
     DEF Next, vars, prep, Arrive, Annotate, UpdateCode, WriteTensor, AppendRow, Train

LEMMA SourceStep == SourceInv /\ [Next]_vars => SourceInv'
<1> SUFFICES ASSUME SourceInv, [Next]_vars PROVE SourceInv'
  OBVIOUS
<1>1. IsList(index')
  BY IndexStep DEF SourceInv, Appends, SameRows
<1>2. (pc = "idle")' = (todo = <<>>)'
  BY DEF SourceInv, Next, vars, prep, Arrive, Annotate, UpdateCode, StartRun, WriteTensor,
         AppendRow, WriteSidecar, Cut, Train
<1>3. \E W : todo' \in Seq(W) /\ \A w \in W : WindowOf(w, ds', OnDisk')
  <2>1. PICK W : todo' \in Seq(W) /\ \A w \in W : WindowOf(w, ds, OnDisk)
    BY TodoStep
  <2>2. \A w \in W : WindowOf(w, ds', OnDisk')
    BY <2>1, DiskGrows, WindowStays
  <2> QED
    BY <2>1, <2>2
<1>4. ASSUME NEW i, RowAt(index', i) PROVE WindowOf(index'[i].w, ds', OnDisk')
  <2>1. WindowOf(index'[i].w, ds, OnDisk)
    <3>1. CASE AppendRow /\ Appends(index, index', RowOf(Now))
      <4>1. PICK W : todo \in Seq(W) /\ \A w \in W : WindowOf(w, ds, OnDisk)
        BY DEF SourceInv
      <4>2. todo # <<>>
        BY <3>1 DEF SourceInv, AppendRow
      <4>3. Now \in W
        BY <4>1, <4>2 DEF Now
      <4>4. RowOf(Now).w = Now
        BY DEF RowOf
      <4> QED
        BY <3>1, <1>4, <4>1, <4>3, <4>4 DEF Appends, SourceInv
    <3>2. CASE SameRows(index, index')
      BY <3>2, <1>4 DEF SameRows, SourceInv
    <3> QED
      BY <3>1, <3>2, IndexStep DEF SourceInv
  <2> QED
    BY <2>1, DiskGrows, WindowStays
<1>5. ds' \in Datasets
  BY DiskGrows DEF SourceInv
<1> QED
  BY <1>1, <1>2, <1>3, <1>4, <1>5 DEF SourceInv

LEMMA SameSamples ==
  ASSUME ds \in Datasets, NEW v, NEW w, WindowOf(v, ds, OnDisk), WindowOf(w, ds, OnDisk),
         v.uid = w.uid, v.what # w.what
  PROVE  \E f \in OnDisk : ComesBack(f) /\ f.sweep = v.uid[1]
<1>1. PICK r, k : /\ RecordingOf(r, ds, OnDisk)
                  /\ v.uid = <<r.src, r.rec, r.chan, k>>
                  /\ v.what = <<r.src, r.off, IterWindows(r.steps)[k]>>
  BY DEF WindowOf
<1>2. PICK q, l : /\ RecordingOf(q, ds, OnDisk)
                  /\ w.uid = <<q.src, q.rec, q.chan, l>>
                  /\ w.what = <<q.src, q.off, IterWindows(q.steps)[l]>>
  BY DEF WindowOf
<1>3. r.src = q.src /\ r.rec = q.rec /\ r.chan = q.chan /\ k = l /\ v.uid[1] = r.src
  <2>1. <<r.src, r.rec, r.chan, k>> = <<q.src, q.rec, q.chan, l>>
    BY <1>1, <1>2
  <2>2. v.uid[1] = r.src
    BY <1>1
  <2> QED
    BY <2>1, <2>2
<1>4. r.steps # q.steps \/ r.off # q.off
  BY <1>1, <1>2, <1>3
<1>5. CASE ds = "zenodo"
  <2>1. PICK P \in SUBSET OnDisk : /\ r.src = {<<g.key, g.part>> : g \in P}
                                   /\ r.off = 0 /\ r.steps = TotalSteps(P)
    BY <1>1, <1>5 DEF RecordingOf, OfZenodo
  <2>2. PICK Q \in SUBSET OnDisk : /\ q.src = {<<g.key, g.part>> : g \in Q}
                                   /\ q.off = 0 /\ q.steps = TotalSteps(Q)
    BY <1>2, <1>5 DEF RecordingOf, OfZenodo
  <2>3. \A g, h \in OnDisk : <<g.key, g.part>> = <<h.key, h.part>> => g = h
    BY <1>5, OnDiskFacts, MirrorAssumption DEF NameOf
  <2>4. {<<g.key, g.part>> : g \in P} = {<<g.key, g.part>> : g \in Q}
    BY <1>3, <2>1, <2>2
  <2>5. ASSUME NEW g \in P PROVE g \in Q
    <3>1. <<g.key, g.part>> \in {<<h.key, h.part>> : h \in Q}
      BY <2>4
    <3>2. PICK h \in Q : <<g.key, g.part>> = <<h.key, h.part>>
      BY <3>1
    <3> QED
      BY <3>2, <2>3
  <2>6. ASSUME NEW g \in Q PROVE g \in P
    <3>1. <<g.key, g.part>> \in {<<h.key, h.part>> : h \in P}
      BY <2>4
    <3>2. PICK h \in P : <<g.key, g.part>> = <<h.key, h.part>>
      BY <3>1
    <3> QED
      BY <3>2, <2>3
  <2>7. P = Q
    BY <2>5, <2>6
  <2> QED
    BY <1>4, <2>1, <2>2, <2>7
<1>6. CASE ds = "rub"
  <2>1. PICK f \in OnDisk : r.src = f.key /\ r.off = 0 /\ r.steps = f.steps
    BY <1>1, <1>6 DEF RecordingOf, OfRub
  <2>2. PICK g \in OnDisk : q.src = g.key /\ q.off = 0 /\ q.steps = g.steps
    BY <1>2, <1>6 DEF RecordingOf, OfRub
  <2>3. f = g
    BY <1>3, <1>6, <2>1, <2>2, OnDiskFacts, MirrorAssumption DEF NameOf
  <2> QED
    BY <1>4, <2>1, <2>2, <2>3
<1>7. CASE ds = "rfuav"
  <2>1. PICK f \in OnDisk : r.src = f.data /\ r.off = 0 /\ r.steps = f.steps
    BY <1>1, <1>7 DEF RecordingOf, OfRfuav
  <2>2. PICK g \in OnDisk : q.src = g.data /\ q.off = 0 /\ q.steps = g.steps
    BY <1>2, <1>7 DEF RecordingOf, OfRfuav
  <2>3. f.steps = g.steps
    <3>1. /\ f \in Mirror /\ g \in Mirror /\ f.ds = "rfuav" /\ g.ds = "rfuav"
          /\ f.data = g.data
      BY <1>3, <1>7, <2>1, <2>2, OnDiskFacts
    <3> QED
      BY <3>1, MirrorAssumption
  <2> QED
    BY <1>4, <2>1, <2>2, <2>3
<1>8. CASE ds = "aerix"
  <2>1. PICK f \in OnDisk : r.src = f.n /\ r.off = 0 /\ r.steps = f.steps
    BY <1>1, <1>8 DEF RecordingOf, OfAerix
  <2>2. PICK g \in OnDisk : q.src = g.n /\ q.off = 0 /\ q.steps = g.steps
    BY <1>2, <1>8 DEF RecordingOf, OfAerix
  <2>3. f = g
    BY <1>3, <1>8, <2>1, <2>2, OnDiskFacts, MirrorAssumption
  <2> QED
    BY <1>4, <2>1, <2>2, <2>3
<1>9. CASE ds = "analog"
  <2>8. PICK f \in OnDisk : \E d \in Dwells(f.blocks) :
          /\ r.src = f.sweep /\ r.rec = <<f.sweep, f.blocks[d[1]]>>
          /\ r.off = d[1] /\ r.steps = d[2] - d[1] + 1
    BY <1>1, <1>9 DEF RecordingOf, OfAnalog
  <2>1. PICK d \in Dwells(f.blocks) :
          /\ r.src = f.sweep /\ r.rec = <<f.sweep, f.blocks[d[1]]>>
          /\ r.off = d[1] /\ r.steps = d[2] - d[1] + 1
    BY <2>8
  <2>9. PICK g \in OnDisk : \E e \in Dwells(g.blocks) :
          /\ q.src = g.sweep /\ q.rec = <<g.sweep, g.blocks[e[1]]>>
          /\ q.off = e[1] /\ q.steps = e[2] - e[1] + 1
    BY <1>2, <1>9 DEF RecordingOf, OfAnalog
  <2>2. PICK e \in Dwells(g.blocks) :
          /\ q.src = g.sweep /\ q.rec = <<g.sweep, g.blocks[e[1]]>>
          /\ q.off = e[1] /\ q.steps = e[2] - e[1] + 1
    BY <2>9
  <2>3. f = g
    <3>1. /\ f \in Mirror /\ g \in Mirror /\ f.ds = "analog" /\ g.ds = "analog"
          /\ f.sweep = g.sweep
      BY <1>3, <1>9, <2>1, <2>2, OnDiskFacts
    <3>2. NameOf(f) = NameOf(g)
      BY <3>1 DEF NameOf
    <3> QED
      BY <3>1, <3>2, MirrorAssumption
  <2>4. d # e
    BY <1>4, <2>1, <2>2
  <2>5. f.blocks[d[1]] = f.blocks[e[1]]
    <3>1. r.rec = <<f.sweep, f.blocks[d[1]]>> /\ q.rec = <<g.sweep, g.blocks[e[1]]>>
      BY <2>1, <2>2
    <3>2. <<f.sweep, f.blocks[d[1]]>> = <<f.sweep, f.blocks[e[1]]>>
      BY <3>1, <1>3, <2>3
    <3> QED
      BY <3>2
  <2>6. f.ds = "analog" /\ e \in Dwells(f.blocks)
    BY <1>9, <2>2, <2>3, OnDiskFacts
  <2>7. ComesBack(f)
    BY <2>4, <2>5, <2>6 DEF ComesBack
  <2> QED
    BY <1>3, <2>1, <2>7
<1> QED
  BY <1>5, <1>6, <1>7, <1>8, <1>9 DEF Datasets

-----------------------------------------------------------------------------
(* An annotation says what the operator logged.                            *)

LEMMA Multiples ==
  ASSUME NEW k \in Int, NEW D \in Nat \ {0}
  PROVE  /\ k * D \in Int
         /\ k <= -1 => k * D <= -D
         /\ k >= 1 => k * D >= D
         /\ k >= 2 => k * D >= 2 * D
<1> DEFINE c == k * D
<1>1. c \in Int
  OBVIOUS
<1>2. ASSUME k <= -1 PROVE c <= -D
  <2> DEFINE m == (-1 - k) * D
  <2>1. -1 - k \in Nat
    BY <1>2
  <2>2. m \in Nat
    BY <2>1
  <2>3. m = -D - c
    OBVIOUS
  <2> HIDE DEF m, c
  <2> QED
    BY <1>1, <2>2, <2>3
<1>3. ASSUME k >= 1 PROVE c >= D
  <2> DEFINE m == (k - 1) * D
  <2>1. k - 1 \in Nat
    BY <1>3
  <2>2. m \in Nat
    BY <2>1
  <2>3. m = c - D
    OBVIOUS
  <2> HIDE DEF m, c
  <2> QED
    BY <1>1, <2>2, <2>3
<1>4. ASSUME k >= 2 PROVE c >= 2 * D
  <2> DEFINE m == (k - 2) * D
  <2>1. k - 2 \in Nat
    BY <1>4
  <2>2. m \in Nat
    BY <2>1
  <2>3. m = c - 2 * D
    OBVIOUS
  <2> HIDE DEF m, c
  <2> QED
    BY <1>1, <2>2, <2>3
<1> QED
  BY <1>1, <1>2, <1>3, <1>4

LEMMA TimeOfDay ==
  ASSUME NEW t \in Nat
  PROVE  /\ t \div Day \in Int /\ t % Day \in 0..Day - 1 /\ Midnight(t) \in Int
         /\ Midnight(t) = (t \div Day) * Day
         /\ t = Midnight(t) + (t % Day)
<1>1. Day \in Nat /\ Day > 0
  BY CorpusAssumption
<1>2. t \div Day \in Int /\ t % Day \in 0..Day - 1 /\ t = Day * (t \div Day) + (t % Day)
  BY <1>1
<1>3. Midnight(t) = (t \div Day) * Day
  BY DEF Midnight
<1>4. Day * (t \div Day) = (t \div Day) * Day /\ (t \div Day) * Day \in Int
  BY <1>1, <1>2
<1> QED
  BY <1>2, <1>3, <1>4

LEMMA MidnightOfDay ==
  ASSUME NEW t \in Nat
  PROVE  Midnight(t) \in Nat /\ Midnight(t) % Day = 0 /\ Midnight(Midnight(t)) = Midnight(t)
<1> DEFINE q == t \div Day
           m == Midnight(t)
<1>1. Day \in Nat /\ Day > 0 /\ Day \in Nat \ {0}
  BY CorpusAssumption
<1>2. q \in Int /\ t % Day \in 0..Day - 1 /\ m = q * Day /\ m \in Int /\ t = m + (t % Day)
  BY TimeOfDay
<1>3. m \in Nat
  <2>1. q \in Nat
    <3>1. q <= -1 => m <= -Day
      BY <1>1, <1>2, Multiples
    <3> DEFINE r == t % Day
    <3> HIDE DEF q, m, r
    <3>2. ~(q <= -1)
      BY <1>1, <1>2, <3>1 DEF r
    <3> QED
      BY <1>2, <3>2
  <2> HIDE DEF q, m
  <2> QED
    BY <1>1, <1>2, <2>1
<1> DEFINE p == m \div Day
           r == m % Day
<1>4. p \in Int /\ r \in 0..Day - 1 /\ Midnight(m) = p * Day /\ m = Midnight(m) + r
      /\ Midnight(m) \in Int
  <2> HIDE DEF m
  <2> QED
    BY <1>3, TimeOfDay
<1>5. (q - p) * Day = r
  <2> HIDE DEF p, q, r
  <2>1. (q - p) * Day = q * Day - p * Day
    BY <1>1, <1>2, <1>4
  <2> HIDE DEF m
  <2> QED
    BY <1>1, <1>2, <1>4, <2>1
<1>6. q = p
  <2> DEFINE k == q - p
             c == k * Day
  <2>1. k \in Int
    BY <1>2, <1>4
  <2> HIDE DEF p, q, r, k
  <2>2. (k <= -1 => c <= -Day) /\ (k >= 1 => c >= Day)
    BY <1>1, <2>1, Multiples
  <2>3. c = r
    BY <1>5 DEF k
  <2> HIDE DEF c
  <2>4. k = 0
    BY <1>1, <1>4, <2>1, <2>2, <2>3
  <2> QED
    BY <2>4, <1>2, <1>4 DEF k
<1>7. Midnight(m) = m
  BY <1>2, <1>4, <1>6
<1>8. r = 0
  <2> HIDE DEF m, r
  <2> QED
    BY <1>1, <1>4, <1>7
<1> QED
  BY <1>3, <1>7, <1>8

(* A line at most a day after another is put on its day or the next.       *)
LEMMA NextDay ==
  ASSUME NEW a \in Nat, NEW b \in Nat, a <= b, b - a < Day
  PROVE  b = Midnight(a) + (b % Day) + IF b % Day < a % Day THEN Day ELSE 0
<1> DEFINE p == a \div Day
           q == b \div Day
           r == a % Day
           s == b % Day
           ma == Midnight(a)
           mb == Midnight(b)
           k == q - p
           c == k * Day
<1>1. Day \in Nat /\ Day > 0 /\ Day \in Nat \ {0}
  BY CorpusAssumption
<1>2. p \in Int /\ r \in 0..Day - 1 /\ ma \in Int /\ ma = p * Day /\ a = ma + r
  BY TimeOfDay
<1>3. q \in Int /\ s \in 0..Day - 1 /\ mb \in Int /\ mb = q * Day /\ b = mb + s
  BY TimeOfDay
<1> HIDE DEF p, q, r, s, ma, mb
<1>4. c = mb - ma /\ k \in Int
  BY <1>1, <1>2, <1>3
<1> HIDE DEF k
<1>5. (k <= -1 => c <= -Day) /\ (k >= 2 => c >= 2 * Day) /\ c \in Int
  BY <1>1, <1>4, Multiples
<1>6. k \in {0, 1}
  <2> HIDE DEF c
  <2>1. ~(k <= -1) /\ ~(k >= 2)
    BY <1>1, <1>2, <1>3, <1>4, <1>5
  <2> QED
    BY <1>4, <2>1
<1>7. CASE k = 0
  <2>1. c = 0
    BY <1>1, <1>7
  <2> HIDE DEF c
  <2>2. b = ma + s /\ ~(s < r)
    BY <1>1, <1>2, <1>3, <1>4, <2>1
  <2>3. b = ma + s + IF s < r THEN Day ELSE 0
    BY <2>2, <1>2, <1>3
  <2> QED
    BY <2>3 DEF ma, s, r
<1>8. CASE k = 1
  <2>1. c = Day
    BY <1>1, <1>8
  <2> HIDE DEF c
  <2>2. b = ma + s + Day /\ s < r
    BY <1>1, <1>2, <1>3, <1>4, <2>1
  <2>3. b = ma + s + IF s < r THEN Day ELSE 0
    BY <2>2
  <2> QED
    BY <2>3 DEF ma, s, r
<1> QED
  BY <1>6, <1>7, <1>8

(* The log begins on the day of the session and leaves out no whole day.   *)
Plain(lines) ==
  /\ Midnight(lines[1].at) = Midnight(SessionStart)
  /\ \A i \in 2..Len(lines) : lines[i].at - lines[i - 1].at < Day

LEMMA AnchorsTruly ==
  ASSUME NEW lines \in Timelines, Plain(lines)
  PROVE  Anchor(lines) = [i \in DOMAIN lines |-> lines[i].at]
<1> DEFINE n == Len(lines)
           base == Midnight(SessionStart)
           Anchored(h) == h = [i \in 0..n |->
             IF i = 0 THEN base
             ELSE LET tod == lines[i].at % Day
                      prev == h[i - 1]
                  IN  Midnight(prev) + tod + IF tod < prev % Day THEN Day ELSE 0]
           At == CHOOSE h : Anchored(h)
           g == [i \in 0..n |-> IF i = 0 THEN base ELSE lines[i].at]
           next(prev, t) == Midnight(prev) + (t % Day) + IF t % Day < prev % Day THEN Day ELSE 0
<1>1. /\ n \in Nat /\ DOMAIN lines = 1..n
      /\ \A i \in 1..n : lines[i].at \in Nat
      /\ \A i, j \in 1..n : i < j => lines[i].at <= lines[j].at
  <2>1. /\ lines \in Seq([at : Nat, id : STRING])
        /\ \A i, j \in DOMAIN lines : i < j => lines[i].at <= lines[j].at
    BY TimelineAssumption
  <2> DEFINE L == [at : Nat, id : STRING]
  <2>2. n \in Nat /\ DOMAIN lines = 1..n /\ \A i \in 1..n : lines[i] \in L
    <3>1. lines \in Seq(L)
      BY <2>1
    <3> HIDE DEF L
    <3> QED
      BY <3>1
  <2> HIDE DEF n
  <2>3. \A i \in 1..n : lines[i].at \in Nat
    BY <2>2
  <2> QED
    BY <2>1, <2>2, <2>3
<1>2. Anchor(lines) = [i \in DOMAIN lines |-> At[i]]
  BY DEF Anchor
<1> HIDE DEF n
<1>3. ASSUME NEW i \in 1..n PROVE g[i] = next(g[i - 1], lines[i].at)
  <2>1. g[i] = lines[i].at /\ lines[i].at \in Nat
    BY <1>1
  <2>2. CASE i = 1
    <3>1. g[i - 1] = base
      BY <1>1, <2>2
    <3>2. base \in Nat /\ base % Day = 0 /\ Midnight(base) = base
      BY MidnightOfDay, CorpusAssumption
    <3>3. Midnight(lines[i].at) = base
      BY <2>2 DEF Plain
    <3> DEFINE t == lines[i].at
               tod == t % Day
    <3>4. t = base + tod /\ tod \in 0..Day - 1
      BY <2>1, <3>3, TimeOfDay
    <3>5. Day \in Nat
      BY CorpusAssumption
    <3> HIDE DEF base, t, g
    <3>6. next(base, t) = base + tod
      <4>1. next(base, t) = Midnight(base) + tod + IF tod < base % Day THEN Day ELSE 0
        OBVIOUS
      <4>2. ~(tod < base % Day)
        BY <3>2, <3>4, <3>5
      <4> HIDE DEF next, tod
      <4> QED
        BY <3>2, <3>4, <3>5, <4>1, <4>2
    <3> QED
      BY <2>1, <3>1, <3>4, <3>6 DEF t
  <2>3. CASE i # 1
    <3> DEFINE a == lines[i - 1].at
               b == lines[i].at
    <3>1. i \in 2..n /\ i - 1 \in 1..n /\ i - 1 < i /\ i - 1 # 0
      BY <2>3, <1>1
    <3>2. a \in Nat /\ b \in Nat /\ a <= b /\ b - a < Day
      BY <1>1, <3>1 DEF Plain, n
    <3>3. g[i - 1] = a
      BY <3>1, <1>1
    <3> HIDE DEF a, b, g
    <3>4. b = next(a, b)
      BY <3>2, NextDay
    <3> QED
      BY <2>1, <3>3, <3>4 DEF b
  <2> QED
    BY <2>2, <2>3
<1>4. g[0] = base
  BY <1>1
<1>5. Anchored(g)
  <2>1. \A i \in 0..n : i # 0 => i \in 1..n
    BY <1>1
  <2>2. DOMAIN g = 0..n /\ g = [i \in 0..n |-> g[i]]
    OBVIOUS
  <2> HIDE DEF g, base
  <2> QED
    BY <1>3, <1>4, <2>1, <2>2
<1>6. Anchored(At)
  BY <1>5
<1> HIDE DEF At, g, base
<1>7. At[0] = base /\ \A i \in 1..n : At[i] = next(At[i - 1], lines[i].at)
  BY <1>6, <1>1
<1> DEFINE T == {m \in 0..n : At[m] # g[m]}
<1>8. T = {}
  <2>1. SUFFICES ASSUME T # {} PROVE FALSE
    OBVIOUS
  <2>2. PICK m \in T : \A k \in T : m <= k
    <3>1. T \subseteq Nat
      BY <1>1
    <3> HIDE DEF T
    <3> QED
      BY <3>1, <2>1, LeastNumber
  <2>3. m \in 1..n /\ m - 1 \in 0..n
    BY <1>1, <1>4, <1>7
  <2>4. m - 1 \notin T
    <3> HIDE DEF T
    <3>1. m \in Nat /\ ~(m <= m - 1)
      BY <2>3
    <3> QED
      BY <2>2, <3>1
  <2> HIDE DEF next
  <2>5. At[m - 1] = g[m - 1]
    BY <2>3, <2>4
  <2> QED
    BY <1>3, <1>7, <2>2, <2>3, <2>5
<1>9. \A i \in 1..n : At[i] = lines[i].at
  <2>1. \A i \in 1..n : i \in 0..n /\ i # 0
    BY <1>1
  <2> QED
    BY <1>8, <2>1 DEF g
<1> QED
  BY <1>1, <1>2, <1>9

LEMMA AnnotatesTruly ==
  ASSUME ds = "aerix", NEW lines \in Timelines, Annotation(lines, OnDisk) # <<>>,
         Plain(lines), NEW n \in DOMAIN Annotation(lines, OnDisk)
  PROVE  LET in == Max({0} \cup {i \in DOMAIN lines : lines[i].at <= CapturedAt(n)})
         IN  in > 0 /\ Annotation(lines, OnDisk)[n].id = lines[in].id
<1> DEFINE starts == Anchor(lines)
           S(t) == {0} \cup {i \in DOMAIN lines : lines[i].at <= t}
           Window(t) ==
             LET id == lines[InForce(starts, t)].id
             IN  [id |-> id, label |-> LabelForInterval(id),
                  transition |-> \E i \in DOMAIN starts : t - starts[i] \in -Guard..Guard]
<1>1. ~ \E f \in OnDisk : InForce(starts, f.at) = 0
  BY DEF Annotation
<1>2. Annotation(lines, OnDisk) = [m \in {f.n : f \in OnDisk} |-> Window(CapturedAt(m))]
  BY <1>1 DEF Annotation
<1>3. PICK f \in OnDisk : n = f.n
  <2>1. n \in {f.n : f \in OnDisk}
    BY <1>2
  <2> QED
    BY <2>1
<1>4. Annotation(lines, OnDisk)[n].id = lines[InForce(starts, CapturedAt(n))].id
  <2>1. Annotation(lines, OnDisk)[n] = Window(CapturedAt(n))
    BY <1>2
  <2> QED
    BY <2>1
<1>5. starts = [i \in DOMAIN lines |-> lines[i].at]
  BY AnchorsTruly
<1> HIDE DEF starts
<1>6. ASSUME NEW t PROVE InForce(starts, t) = Max(S(t))
  <2>1. S(t) = {0} \cup {i \in DOMAIN starts : starts[i] <= t}
    BY <1>5
  <2> HIDE DEF S
  <2> QED
    BY <2>1 DEF InForce
<1>7. CapturedAt(n) = f.at
  <2> DEFINE g == CHOOSE g \in SessionFiles : g.n = n
  <2>1. f \in SessionFiles
    BY <1>3, OnDiskFacts DEF SessionFiles
  <2>2. g \in SessionFiles /\ g.n = n
    BY <2>1, <1>3
  <2>3. CapturedAt(n) = g.at
    BY DEF CapturedAt
  <2> HIDE DEF g
  <2>4. g = f
    BY <2>1, <2>2, <1>3, MirrorAssumption DEF SessionFiles
  <2> QED
    BY <2>3, <2>4
<1> DEFINE in == Max(S(f.at))
<1>8. in # 0
  <2> HIDE DEF S
  <2> QED
    BY <1>1, <1>3, <1>6
<1>9. in \in Nat
  <2>1. DOMAIN lines = 1..Len(lines) /\ Len(lines) \in Nat
    BY TimelineAssumption
  <2>2. S(f.at) \subseteq Nat /\ S(f.at) # {} /\ \A x \in S(f.at) : x <= Len(lines)
    BY <2>1
  <2> HIDE DEF S
  <2> QED
    BY <2>1, <2>2, MaxIsMember
<1>10. S(f.at) = {0} \cup {i \in DOMAIN lines : lines[i].at <= CapturedAt(n)}
  BY <1>7
<1>11. Annotation(lines, OnDisk)[n].id = lines[in].id
  <2> HIDE DEF S
  <2> QED
    BY <1>4, <1>6, <1>7
<1>12. in > 0
  <2> HIDE DEF in
  <2> QED
    BY <1>8, <1>9
<1> HIDE DEF S
<1> QED
  BY <1>10, <1>11, <1>12


LEMMA AnnotationStep == AnnotationTrue /\ [Next]_vars => AnnotationTrue'
<1> SUFFICES ASSUME AnnotationTrue, [Next]_vars PROVE AnnotationTrue'
  OBVIOUS
<1>1. ASSUME NEW lines \in Timelines, Annotate(lines) PROVE AnnotationTrue'
  <2>1. ds = "aerix" /\ ann' = Annotation(lines, OnDisk) /\ ann' # <<>> /\ log' = lines
    BY <1>1 DEF Annotate
  <2>2. ASSUME Plain(lines), NEW n \in DOMAIN Annotation(lines, OnDisk)
        PROVE  LET in == Max({0} \cup {i \in DOMAIN lines : lines[i].at <= CapturedAt(n)})
               IN  in > 0 /\ Annotation(lines, OnDisk)[n].id = lines[in].id
    BY <2>1, <2>2, AnnotatesTruly
  <2> DEFINE a == Annotation(lines, OnDisk)
  <2> HIDE DEF a
  <2>3. ann' = a /\ log' = lines
    BY <2>1 DEF a
  <2>4. Plain(lines) =>
          \A n \in DOMAIN a :
            LET in == Max({0} \cup {i \in DOMAIN lines : lines[i].at <= CapturedAt(n)})
            IN  in > 0 /\ a[n].id = lines[in].id
    BY <2>2 DEF a
  <2>5. Plain(log') =>
          \A n \in DOMAIN ann' :
            LET in == Max({0} \cup {i \in DOMAIN log' : log'[i].at <= CapturedAt(n)})
            IN  in > 0 /\ ann'[n].id = log'[in].id
    BY <2>3, <2>4
  <2> QED
    BY <2>5, Zenon DEF AnnotationTrue, Plain
<1>2. CASE UNCHANGED <<ann, log>>
  BY <1>2 DEF AnnotationTrue
<1> QED
  BY <1>1, <1>2
     DEF Next, vars, disk, Arrive, UpdateCode, StartRun, WriteTensor, AppendRow,
         WriteSidecar, Cut, Train

-----------------------------------------------------------------------------
(* RowsTrue.                                                               *)

LEMMA TypeInit == Init => TypeOK
BY DEF Init, TypeOK

LEMMA TypeStep == TypeOK /\ [Next]_vars => TypeOK'
<1> SUFFICES ASSUME TypeOK, [Next]_vars PROVE TypeOK'
  OBVIOUS
<1>1. /\ ds' = ds /\ Positions' = Positions
  BY DiskGrows DEF Positions
<1>2. there' \subseteq Positions /\ there \subseteq there'
  BY DEF Next, vars, disk, Arrive, Annotate, UpdateCode, StartRun, WriteTensor, AppendRow,
         WriteSidecar, Cut, Train, TypeOK
<1>3. /\ pc' \in {"idle", "tensor", "row", "sidecar"} /\ tensors' \in BOOLEAN
      /\ (pc = "idle")' = (todo = <<>>)'
  BY DEF Next, vars, prep, Arrive, Annotate, UpdateCode, StartRun, WriteTensor, AppendRow,
         WriteSidecar, Cut, Train, TypeOK
<1>4. DOMAIN ann' \subseteq there'
  <2>1. CASE ann' = ann
    BY <2>1, <1>2 DEF TypeOK
  <2>2. ASSUME NEW lines \in Timelines, Annotate(lines) PROVE DOMAIN ann' \subseteq there'
    <3>1. ann' = Annotation(lines, OnDisk)
      BY <2>2 DEF Annotate
    <3>2. \A f \in OnDisk : f.n \in there
      BY DEF OnDisk
    <3>3. DOMAIN <<>> = {}
      OBVIOUS
    <3>4. DOMAIN ann' \subseteq {f.n : f \in OnDisk}
      BY <3>1, <3>3 DEF Annotation
    <3> QED
      BY <1>2, <3>2, <3>4
  <2> QED
    BY <2>1, <2>2 DEF Next, vars, disk, Arrive, UpdateCode, StartRun, WriteTensor, AppendRow,
                      WriteSidecar, Cut, Train
<1>5. \A r \in used' : r.split \in Splits
  <2>1. \A p : SplitAt(p) \in Splits
    BY DEF SplitAt, Splits
  <2>2. CASE Train
    BY <2>1, <2>2, TrainUsesRows DEF TypeOK
  <2>3. CASE UNCHANGED used
    BY <2>3 DEF TypeOK
  <2> QED
    BY <2>2, <2>3 DEF Next, vars, Arrive, Annotate, UpdateCode, StartRun, WriteTensor,
                      AppendRow, WriteSidecar, Cut
<1> QED
  BY <1>1, <1>2, <1>3, <1>4, <1>5 DEF TypeOK

RowsInv == TypeOK /\ FilesInv /\ SourceInv /\ AnnotationTrue

LEMMA RowsInvInit == Init => RowsInv
BY TypeInit, FilesInit, SourceInit DEF RowsInv, AnnotationTrue, Init

LEMMA RowsInvStep == RowsInv /\ [Next]_vars => RowsInv'
BY TypeStep, FilesStep, SourceStep, AnnotationStep DEF RowsInv

(* What is on file of a window is true of it: a row's sidecar and tensor   *)
(* are its own, two rows of a uid are of the same samples but for a sweep  *)
(* that comes back, and an annotation says what was logged (prepare.py:    *)
(* _uid; adapters.py: recording_id; annotate.py: annotate_session).         *)
THEOREM RowsAreTrue == Spec => []RowsTrue
<1>1. RowsInv => RowsTrue
  <2> SUFFICES ASSUME RowsInv PROVE RowsTrue
    OBVIOUS
  <2>1. ASSUME NEW u \in {index[i].w.uid : i \in Rows} \ hurt
        PROVE  json[u] = LastRow(u) /\ (LastRow(u).artifact # <<>> => npy[u] = LastRow(u).artifact)
    <3>1. \E i : RowAt(index, i) /\ index[i].w.uid = u
      BY RowsAre
    <3>2. PICK i : IsLast(index, u, i) /\ LastRow(u) = index[i]
      BY <3>1, LastInExists, LastRowIs DEF RowsInv, SourceInv
    <3> QED
      BY <3>2 DEF RowsInv, FilesInv, Written, FilesOf
  <2>2. ASSUME NEW i \in Rows, NEW j \in Rows, index[i].w.uid = index[j].w.uid,
               index[i].w.what # index[j].w.what
        PROVE  \E f \in OnDisk : ComesBack(f) /\ f.sweep = index[i].w.uid[1]
    <3>1. WindowOf(index[i].w, ds, OnDisk) /\ WindowOf(index[j].w, ds, OnDisk) /\ ds \in Datasets
      BY RowsAre DEF RowsInv, SourceInv
    <3> QED
      BY <2>2, <3>1, SameSamples
  <2> QED
    BY <2>1, <2>2 DEF RowsTrue, ArtefactsAgree, RowsInv
<1> QED
  BY <1>1, RowsInvInit, RowsInvStep, PTL DEF Spec

-----------------------------------------------------------------------------
(* SikLink: lemmas on sequences.                                           *)

LEMMA Concatenates ==
  ASSUME NEW S, NEW s \in Seq(S), NEW t \in Seq(S)
  PROVE  /\ s \o t \in Seq(S) /\ Len(s \o t) = Len(s) + Len(t)
         /\ Len(s) \in Nat /\ Len(t) \in Nat
         /\ \A i \in 1..Len(s) : (s \o t)[i] = s[i]
         /\ \A i \in 1..Len(t) : (s \o t)[Len(s) + i] = t[i]
<1>1. Len(s) \in Nat /\ Len(t) \in Nat
  OBVIOUS
<1>2. s \o t \in Seq(S) /\ Len(s \o t) = Len(s) + Len(t)
  OBVIOUS
<1>3. \A i \in 1..Len(s) : (s \o t)[i] = s[i]
  BY <1>1
<1>4. ASSUME NEW i \in 1..Len(t) PROVE (s \o t)[Len(s) + i] = t[i]
  <2>1. Len(s) + i \in 1..Len(s) + Len(t) /\ ~(Len(s) + i <= Len(s)) /\ (Len(s) + i) - Len(s) = i
    BY <1>1
  <2> QED
    BY <2>1, <1>1
<1> QED
  BY <1>1, <1>2, <1>3, <1>4

LEMMA SeqOfMore ==
  ASSUME NEW S, NEW T, S \subseteq T, NEW s \in Seq(S)
  PROVE  s \in Seq(T)
<1>1. Len(s) \in Nat /\ s \in [1..Len(s) -> S]
  OBVIOUS
<1>2. s \in [1..Len(s) -> T]
  BY <1>1
<1> QED
  BY <1>1, <1>2

-----------------------------------------------------------------------------
(* The bytes of a message.                                                 *)

SignedBytes(msg) == IF msg.ver = "v2" /\ msg.signed THEN 1 ELSE 0

(* What the parser looks at: the start byte, the length, the flags.        *)
LEMMA ValuesShape ==
  ASSUME NEW msg \in Messages, Len(msg.body) <= 255
  PROVE  /\ Values(msg) \in Seq(Nat)
         /\ Len(Values(msg)) = HeadLen[msg.ver] + Len(msg.body) + CrcLen + SignedBytes(msg)
         /\ Values(msg)[1] = Stx[msg.ver] /\ Values(msg)[2] = Len(msg.body)
         /\ msg.ver = "v2" => Values(msg)[3] = SignedBytes(msg)
<1> DEFINE head == <<Stx[msg.ver], Len(msg.body)>>
           flags == IF msg.ver = "v2" THEN <<IF msg.signed THEN 1 ELSE 0>> ELSE <<>>
           sig == IF msg.ver = "v2" /\ msg.signed THEN <<0>> ELSE <<>>
           s1 == head \o flags
           s2 == s1 \o msg.body
           s3 == s2 \o <<0>>
<1>1. msg.ver \in {"v1", "v2"} /\ msg.signed \in BOOLEAN /\ msg.body \in Seq(Nat)
  <2>1. msg.body \in Seq(0..255)
    BY DEF Messages
  <2>2. msg.body \in Seq(Nat)
    <3> DEFINE byte == 0..255
    <3>1. byte \subseteq Nat /\ msg.body \in Seq(byte)
      BY <2>1
    <3> HIDE DEF byte
    <3> QED
      BY <3>1, SeqOfMore
  <2> QED
    BY <2>2 DEF Messages
<1> DEFINE n == Len(msg.body)
<1>2. n \in Nat
  BY <1>1
<1>3. head \in Seq(Nat) /\ Len(head) = 2 /\ head[1] = Stx[msg.ver] /\ head[2] = n
  BY <1>1 DEF Stx
<1>4. /\ flags \in Seq(Nat) /\ Len(flags) = HeadLen[msg.ver] - 2
      /\ msg.ver = "v2" => Len(flags) = 1 /\ flags[1] = SignedBytes(msg)
  <2>1. CASE msg.ver = "v1"
    BY <2>1 DEF HeadLen
  <2>2. CASE msg.ver = "v2"
    BY <1>1, <2>2 DEF HeadLen, SignedBytes
  <2> QED
    BY <1>1, <2>1, <2>2
<1>5. sig \in Seq(Nat) /\ Len(sig) = SignedBytes(msg)
  BY DEF SignedBytes
<1> HIDE DEF head, flags, sig, n
<1>6. /\ s1 \in Seq(Nat) /\ Len(s1) = HeadLen[msg.ver]
      /\ s1[1] = Stx[msg.ver] /\ s1[2] = n
      /\ msg.ver = "v2" => s1[3] = SignedBytes(msg)
  <2>1. HeadLen[msg.ver] \in 2..3
    BY <1>1 DEF HeadLen
  <2>5. /\ s1 \in Seq(Nat) /\ Len(s1) = 2 + Len(flags) /\ Len(flags) \in Nat
        /\ \A i \in 1..2 : s1[i] = head[i]
        /\ \A i \in 1..Len(flags) : s1[2 + i] = flags[i]
    <3>1. /\ s1 \in Seq(Nat) /\ Len(s1) = Len(head) + Len(flags) /\ Len(flags) \in Nat
          /\ \A i \in 1..Len(head) : s1[i] = head[i]
          /\ \A i \in 1..Len(flags) : s1[Len(head) + i] = flags[i]
      <4>1. head \in Seq(Nat) /\ flags \in Seq(Nat)
        BY <1>3, <1>4
      <4> HIDE DEF head, flags
      <4> QED
        BY <4>1, Concatenates
    <3> HIDE DEF s1
    <3> QED
      BY <1>3, <3>1
  <2> HIDE DEF s1
  <2>2. s1 \in Seq(Nat) /\ Len(s1) = 2 + Len(flags) /\ Len(flags) \in Nat
    BY <2>5
  <2>3. s1[1] = head[1] /\ s1[2] = head[2]
    BY <2>5
  <2>4. Len(flags) = 1 => s1[3] = flags[1]
    <3>1. Len(flags) = 1 => 1 \in 1..Len(flags) /\ 2 + 1 = 3
      OBVIOUS
    <3> QED
      BY <2>5, <3>1
  <2>6. Len(s1) = HeadLen[msg.ver]
    <3> DEFINE hl == HeadLen[msg.ver]
    <3>1. hl \in 2..3 /\ Len(s1) = 2 + Len(flags) /\ Len(flags) = hl - 2
      BY <1>4, <2>1, <2>2
    <3> HIDE DEF hl
    <3>2. Len(s1) = hl
      BY <3>1
    <3> QED
      BY <3>2 DEF hl
  <2>7. s1[1] = Stx[msg.ver] /\ s1[2] = n
    BY <1>3, <2>3
  <2>8. msg.ver = "v2" => s1[3] = SignedBytes(msg)
    BY <1>4, <2>4
  <2> QED
    BY <2>2, <2>6, <2>7, <2>8
<1>7. HeadLen[msg.ver] \in 2..3 /\ (msg.ver = "v2" => HeadLen[msg.ver] = 3)
  BY <1>1 DEF HeadLen
<1> HIDE DEF s1
<1>8. /\ s2 \in Seq(Nat) /\ Len(s2) = HeadLen[msg.ver] + n
      /\ \A i \in 1..HeadLen[msg.ver] : s2[i] = s1[i]
  BY <1>1, <1>2, <1>6, <1>7 DEF n
<1> HIDE DEF s2
<1>9. /\ s3 \in Seq(Nat) /\ Len(s3) = HeadLen[msg.ver] + n + 1
      /\ \A i \in 1..HeadLen[msg.ver] : s3[i] = s2[i]
  <2>1. s3 \in Seq(Nat) /\ Len(s3) = Len(s2) + 1 /\ Len(s2) \in Nat
    BY <1>8
  <2>2. \A i \in 1..Len(s2) : s3[i] = s2[i]
    BY <1>8
  <2> HIDE DEF s3
  <2> DEFINE hl == HeadLen[msg.ver]
  <2>3. hl \in 2..3 /\ Len(s2) = hl + n /\ n \in Nat
    BY <1>2, <1>7, <1>8
  <2> HIDE DEF hl
  <2>4. Len(s3) = hl + n + 1 /\ \A i \in 1..hl : i \in 1..Len(s2)
    BY <2>1, <2>3
  <2> QED
    BY <2>1, <2>2, <2>4 DEF hl
<1> HIDE DEF s3
<1>10. /\ s3 \o sig \in Seq(Nat) /\ Len(s3 \o sig) = HeadLen[msg.ver] + n + 1 + SignedBytes(msg)
       /\ \A i \in 1..HeadLen[msg.ver] : (s3 \o sig)[i] = s3[i]
  <2> DEFINE s4 == s3 \o sig
  <2>1. s4 \in Seq(Nat) /\ Len(s4) = Len(s3) + Len(sig) /\ Len(s3) \in Nat
    BY <1>5, <1>9, Concatenates
  <2>2. \A i \in 1..Len(s3) : s4[i] = s3[i]
    BY <1>5, <1>9, Concatenates
  <2> HIDE DEF s4
  <2>3. /\ s4 \in Seq(Nat) /\ Len(s4) = HeadLen[msg.ver] + n + 1 + SignedBytes(msg)
        /\ \A i \in 1..HeadLen[msg.ver] : s4[i] = s3[i]
    <3> DEFINE hl == HeadLen[msg.ver]
               sb == SignedBytes(msg)
    <3>1. /\ hl \in 2..3 /\ Len(sig) = sb /\ Len(s3) = hl + n + 1 /\ n \in Nat
          /\ Len(s4) = Len(s3) + Len(sig)
      BY <1>2, <1>5, <1>7, <1>9, <2>1
    <3> HIDE DEF hl, sb
    <3>2. Len(s4) = hl + n + 1 + sb /\ \A i \in 1..hl : i \in 1..Len(s3)
      BY <3>1
    <3> QED
      BY <2>1, <2>2, <3>2 DEF hl, sb
  <2> QED
    BY <2>3 DEF s4
<1>11. Values(msg) = s3 \o sig
  BY DEF Values, s3, s2, s1, head, flags, sig
<1>14. ASSUME NEW i \in 1..HeadLen[msg.ver] PROVE Values(msg)[i] = s1[i]
  BY <1>8, <1>9, <1>10, <1>11
<1>12. Values(msg)[1] = s1[1] /\ Values(msg)[2] = s1[2]
  <2>1. 1 \in 1..HeadLen[msg.ver] /\ 2 \in 1..HeadLen[msg.ver]
    BY <1>7
  <2> QED
    BY <2>1, <1>14
<1>13. msg.ver = "v2" => Values(msg)[3] = s1[3]
  BY <1>7, <1>14
<1> QED
  BY <1>6, <1>10, <1>11, <1>12, <1>13 DEF n, CrcLen

Bytes(stream) ==
  {b \in [v : Nat, m : Nat, k : Nat, n : Nat, known : BOOLEAN] :
     /\ b.m \in DOMAIN stream /\ b.k \in 1..Len(Values(stream[b.m]))
     /\ b.v = Values(stream[b.m])[b.k] /\ b.n = Len(Values(stream[b.m]))
     /\ b.known = stream[b.m].known}

LEMMA MessageOfByte ==
  ASSUME NEW stream \in Streams, NEW b \in Bytes(stream)
  PROVE  stream[b.m] \in Messages /\ Len(stream[b.m].body) <= 255
<1>1. b.m \in DOMAIN stream /\ stream \in Seq(Messages)
  BY SikAssumption DEF Bytes
<1> QED
  BY <1>1, SikAssumption

LEMMA ByteFacts ==
  ASSUME NEW stream \in Streams, NEW b \in Bytes(stream)
  PROVE  /\ b.v \in Nat /\ b.k \in 1..b.n /\ b.n \in Nat /\ b.n >= 3 /\ b.known \in BOOLEAN
         /\ b.k = 1 => IsStx(b)
<1> DEFINE msg == stream[b.m]
<1>1. msg \in Messages /\ Len(msg.body) <= 255
  BY MessageOfByte
<1>2. msg.ver \in {"v1", "v2"} /\ Len(msg.body) \in Nat /\ SignedBytes(msg) \in 0..1
  BY <1>1 DEF Messages, SignedBytes
<1> HIDE DEF msg
<1>3. /\ Len(Values(msg)) = HeadLen[msg.ver] + Len(msg.body) + CrcLen + SignedBytes(msg)
      /\ Values(msg)[1] = Stx[msg.ver]
  BY <1>1, ValuesShape
<1>4. HeadLen[msg.ver] \in 2..3 /\ CrcLen = 1
  BY <1>2 DEF HeadLen, CrcLen
<1>5. /\ b.v \in Nat /\ b.k \in 1..b.n /\ b.n \in Nat /\ b.known \in BOOLEAN
      /\ b.n = Len(Values(msg)) /\ b.v = Values(msg)[b.k]
  BY DEF Bytes, msg
<1>6. b.n >= 3
  <2> DEFINE hl == HeadLen[msg.ver]
             bl == Len(msg.body)
             sb == SignedBytes(msg)
  <2>1. hl \in 2..3 /\ bl \in Nat /\ sb \in 0..1 /\ CrcLen = 1 /\ b.n = hl + bl + CrcLen + sb
    BY <1>2, <1>3, <1>4, <1>5
  <2> HIDE DEF hl, bl, sb
  <2> QED
    BY <2>1
<1>7. b.k = 1 => IsStx(b)
  BY <1>2, <1>3, <1>5 DEF IsStx, Stx
<1> QED
  BY <1>5, <1>6, <1>7

LEMMA FrameEndRange ==
  ASSUME NEW stream \in Streams, NEW data \in Seq(Bytes(stream)), NEW i \in 1..Len(data)
  PROVE  /\ FrameEnd(data, i) \in 0..Len(data)
         /\ FrameEnd(data, i) # 0 => i < FrameEnd(data, i) /\ IsStx(data[i])
<1> DEFINE ver == IF data[i].v = Stx.v1 THEN "v1" ELSE "v2"
           here == IsStx(data[i]) /\ i + HeadLen[ver] - 1 <= Len(data)
           sig == IF ver = "v2" /\ data[i + 2].v % 2 = 1 THEN SigLen ELSE 0
           end == i + HeadLen[ver] - 1 + data[i + 1].v + CrcLen + sig
<1>1. FrameEnd(data, i) = IF here /\ end <= Len(data) THEN end ELSE 0
  BY DEF FrameEnd
<1>2. Len(data) \in Nat /\ HeadLen[ver] \in 2..3 /\ sig \in 0..1 /\ CrcLen = 1
  BY DEF HeadLen, SigLen, CrcLen
<1>3. here => data[i + 1] \in Bytes(stream)
  BY <1>2
<1>4. here => data[i + 1].v \in Nat
  BY <1>3, ByteFacts
<1>5. here => end \in Nat /\ end > i /\ IsStx(data[i])
  <2> DEFINE h == HeadLen[ver]
             v == data[i + 1].v
  <2>1. h \in 2..3 /\ sig \in 0..1 /\ (here => v \in Nat /\ IsStx(data[i]))
    BY <1>2, <1>4
  <2>2. end = i + h - 1 + v + CrcLen + sig
    OBVIOUS
  <2>3. i \in Nat
    BY <1>2
  <2> HIDE DEF end, h, v, sig, here
  <2>4. ASSUME here PROVE end \in Nat /\ end > i
    BY <2>4, <1>2, <2>1, <2>2, <2>3
  <2> QED
    BY <2>1, <2>4
<1> HIDE DEF here, end
<1> QED
  BY <1>1, <1>2, <1>5

(* A frame found in a part of h is the frame that h has there.             *)
LEMMA FrameOfPart ==
  ASSUME NEW stream \in Streams, NEW h \in Seq(Bytes(stream)), NEW d \in Seq(Bytes(stream)),
         NEW c \in Nat, c + Len(d) <= Len(h), \A i \in 1..Len(d) : d[i] = h[c + i],
         NEW q \in 1..Len(d), FrameEnd(d, q) # 0
  PROVE  FrameEnd(h, c + q) = c + FrameEnd(d, q)
<1> DEFINE ver == IF d[q].v = Stx.v1 THEN "v1" ELSE "v2"
           here == IsStx(d[q]) /\ q + HeadLen[ver] - 1 <= Len(d)
           sig == IF ver = "v2" /\ d[q + 2].v % 2 = 1 THEN SigLen ELSE 0
           end == q + HeadLen[ver] - 1 + d[q + 1].v + CrcLen + sig
           i == c + q
           ver2 == IF h[i].v = Stx.v1 THEN "v1" ELSE "v2"
           here2 == IsStx(h[i]) /\ i + HeadLen[ver2] - 1 <= Len(h)
           sig2 == IF ver2 = "v2" /\ h[i + 2].v % 2 = 1 THEN SigLen ELSE 0
           end2 == i + HeadLen[ver2] - 1 + h[i + 1].v + CrcLen + sig2
<1>1. /\ FrameEnd(d, q) = IF here /\ end <= Len(d) THEN end ELSE 0
      /\ FrameEnd(h, i) = IF here2 /\ end2 <= Len(h) THEN end2 ELSE 0
  BY DEF FrameEnd
<1>2. here /\ end <= Len(d) /\ FrameEnd(d, q) = end
  BY <1>1
<1>3. h[i] = d[q] /\ ver2 = ver
  OBVIOUS
<1>4. HeadLen[ver] \in 2..3 /\ (ver = "v2" => HeadLen[ver] = 3) /\ sig \in 0..1 /\ CrcLen = 1
  BY DEF HeadLen, SigLen, CrcLen
<1>5. Len(d) \in Nat /\ Len(h) \in Nat /\ q \in Nat
  OBVIOUS
<1> HIDE DEF ver, ver2
<1>6. q + 1 \in 1..Len(d) /\ (ver = "v2" => q + 2 \in 1..Len(d))
  BY <1>2, <1>4, <1>5
<1>7. h[i + 1] = d[q + 1] /\ (ver = "v2" => h[i + 2] = d[q + 2])
  <2>1. c + (q + 1) = i + 1 /\ c + (q + 2) = i + 2
    BY <1>5
  <2> QED
    BY <2>1, <1>6
<1>8. sig2 = sig
  BY <1>3, <1>7
<1>9. d[q + 1].v \in Nat
  <2>1. d[q + 1] \in Bytes(stream)
    BY <1>6
  <2> QED
    BY <2>1, ByteFacts
<1>10. end2 = c + end
  <2> DEFINE v == d[q + 1].v
             l == HeadLen[ver]
  <2>1. end = q + l - 1 + v + CrcLen + sig
    OBVIOUS
  <2>2. end2 = (c + q) + l - 1 + v + CrcLen + sig
    <3> HIDE DEF sig, sig2
    <3> QED
      BY <1>3, <1>7, <1>8
  <2>3. l \in Nat /\ v \in Nat /\ sig \in Nat /\ CrcLen \in Nat
    <3> HIDE DEF sig, l
    <3>1. l \in 2..3 /\ sig \in 0..1 /\ CrcLen = 1
      BY <1>4 DEF l
    <3> QED
      BY <3>1, <1>9
  <2> HIDE DEF end, end2, l, v, sig
  <2> QED
    BY <2>1, <2>2, <2>3, <1>5
<1>11. end \in Nat
  <2> DEFINE v == d[q + 1].v
             l == HeadLen[ver]
  <2>1. end = q + l - 1 + v + CrcLen + sig /\ l \in 2..3 /\ v \in Nat /\ sig \in Nat /\ CrcLen = 1
    BY <1>4, <1>9
  <2> HIDE DEF end, l, v, sig
  <2> QED
    BY <2>1, <1>5
<1>12. here2
  BY <1>2, <1>3, <1>4, <1>5
<1> HIDE DEF here, here2, end, end2
<1>13. end2 <= Len(h)
  BY <1>2, <1>5, <1>10, <1>11
<1> QED
  BY <1>1, <1>2, <1>10, <1>12, <1>13

(* So frames that end before j in h do in a part of it.                    *)
LEMMA FramesOfPart ==
  ASSUME NEW stream \in Streams, NEW h \in Seq(Bytes(stream)), NEW d \in Seq(Bytes(stream)),
         NEW c \in Nat, c + Len(d) <= Len(h), \A i \in 1..Len(d) : d[i] = h[c + i],
         NEW q \in 1..Len(d), NEW j \in Nat, c + q = j,
         \A i \in 1..j - 1 : FrameEnd(h, i) < j
  PROVE  \A i \in 1..q - 1 : FrameEnd(d, i) < q
<1> SUFFICES ASSUME NEW i \in 1..q - 1, ~(FrameEnd(d, i) < q) PROVE FALSE
  OBVIOUS
<1>1. i \in 1..Len(d) /\ c + i \in 1..j - 1 /\ q \in Nat /\ q > 0
  OBVIOUS
<1>2. FrameEnd(d, i) \in Nat
  BY <1>1, FrameEndRange
<1>3. FrameEnd(d, i) # 0
  BY <1>1, <1>2
<1>4. FrameEnd(h, c + i) = c + FrameEnd(d, i)
  BY <1>1, <1>3, FrameOfPart
<1>5. FrameEnd(h, c + i) < j
  BY <1>1
<1> QED
  BY <1>1, <1>2, <1>4, <1>5

(* The bytes from i on are those of one message, from its first byte, as   *)
(* far as they are there.                                                  *)
Runs(data, i) ==
  /\ data[i].k = 1
  /\ \A j \in i..Len(data) : j <= i + data[i].n - 1 =>
       data[j].m = data[i].m /\ data[j].k = j - i + 1

LEMMA EndOfMessage ==
  ASSUME NEW stream \in Streams, NEW data \in Seq(Bytes(stream)), NEW i \in 1..Len(data),
         Runs(data, i)
  PROVE  FrameEnd(data, i) = IF i + data[i].n - 1 <= Len(data) THEN i + data[i].n - 1 ELSE 0
<1> DEFINE msg == stream[data[i].m]
           n == data[i].n
           L == Len(data)
           h == HeadLen[msg.ver]
           ver == IF data[i].v = Stx.v1 THEN "v1" ELSE "v2"
           here == IsStx(data[i]) /\ i + HeadLen[ver] - 1 <= Len(data)
           sig == IF ver = "v2" /\ data[i + 2].v % 2 = 1 THEN SigLen ELSE 0
           end == i + HeadLen[ver] - 1 + data[i + 1].v + CrcLen + sig
<1>1. FrameEnd(data, i) = IF here /\ end <= Len(data) THEN end ELSE 0
  BY DEF FrameEnd
<1>2. L \in Nat /\ \A j \in 1..L : data[j] \in Bytes(stream)
  OBVIOUS
<1>3. msg \in Messages /\ Len(msg.body) <= 255
  BY <1>2, MessageOfByte
<1>4. msg.ver \in {"v1", "v2"} /\ Len(msg.body) \in Nat /\ SignedBytes(msg) \in 0..1
  BY <1>3 DEF Messages, SignedBytes
<1>5. /\ n = h + Len(msg.body) + 1 + SignedBytes(msg)
      /\ data[i].v = Stx[msg.ver]
  <2>1. n = Len(Values(msg)) /\ data[i].v = Values(msg)[1]
    BY <1>2 DEF Bytes, Runs
  <2> HIDE DEF msg, n
  <2> QED
    BY <2>1, <1>3, ValuesShape DEF CrcLen
<1>6. ver = msg.ver /\ IsStx(data[i])
  BY <1>4, <1>5 DEF Stx, IsStx
<1>7. h \in 2..3 /\ (msg.ver = "v2" <=> h = 3)
  BY <1>4 DEF HeadLen
<1>8. ASSUME NEW j \in i..L, j <= i + n - 1
      PROVE  data[j].v = Values(msg)[j - i + 1]
  <2>1. j \in 1..L /\ data[j].m = data[i].m /\ data[j].k = j - i + 1
    BY <1>8 DEF Runs
  <2> QED
    BY <2>1, <1>2 DEF Bytes
<1>16. i \in Nat /\ n \in Nat /\ n >= h + 1
  <2>1. SignedBytes(msg) \in Nat /\ h \in Nat
    BY <1>4, <1>7
  <2> HIDE DEF msg, h
  <2> QED
    BY <2>1, <1>2, <1>4, <1>5
<1> HIDE DEF msg, n, L, h
<1>9. ASSUME i + h - 1 <= L
      PROVE  /\ data[i + 1].v = Len(msg.body)
             /\ msg.ver = "v2" => data[i + 2].v = SignedBytes(msg)
  <2>1. i + 1 \in i..L /\ i + 1 <= i + n - 1
    BY <1>9, <1>7, <1>16, <1>2
  <2>2. data[i + 1].v = Values(msg)[(i + 1) - i + 1]
    BY <2>1, <1>8
  <2>3. ASSUME msg.ver = "v2" PROVE data[i + 2].v = SignedBytes(msg)
    <3>1. i + 2 \in i..L /\ i + 2 <= i + n - 1
      BY <2>3, <1>9, <1>7, <1>16, <1>2
    <3>2. data[i + 2].v = Values(msg)[(i + 2) - i + 1] /\ (i + 2) - i + 1 = 3
      BY <3>1, <1>8
    <3> QED
      BY <3>2, <2>3, <1>3, ValuesShape
  <2>4. (i + 1) - i + 1 = 2
    OBVIOUS
  <2> QED
    BY <2>2, <2>3, <2>4, <1>3, ValuesShape
<1>10. ASSUME i + h - 1 <= L PROVE end = i + n - 1
  <2>1. sig = SignedBytes(msg)
    <3>1. CASE msg.ver = "v1"
      BY <3>1, <1>6 DEF SignedBytes
    <3>2. CASE msg.ver = "v2"
      <4>1. data[i + 2].v \in 0..1 /\ data[i + 2].v = SignedBytes(msg)
        BY <3>2, <1>9, <1>10, <1>4
      <4>2. (0 % 2) = 0 /\ (1 % 2) = 1
        OBVIOUS
      <4> QED
        BY <3>2, <4>1, <4>2, <1>6 DEF SigLen
    <3> QED
      BY <3>1, <3>2, <1>4
  <2>2. HeadLen[ver] = h
    BY <1>6 DEF h
  <2> DEFINE v == data[i + 1].v
  <2>3. end = i + HeadLen[ver] - 1 + v + CrcLen + sig /\ v = Len(msg.body)
    BY <1>9, <1>10
  <2>4. /\ i \in Nat /\ n = h + Len(msg.body) + 1 + SignedBytes(msg) /\ h \in 2..3
        /\ Len(msg.body) \in Nat /\ SignedBytes(msg) \in 0..1 /\ CrcLen = 1
    BY <1>5, <1>4, <1>7, <1>2 DEF CrcLen, L
  <2> DEFINE w == HeadLen[ver]
             b == Len(msg.body)
             g == SignedBytes(msg)
  <2>5. end = i + w - 1 + v + CrcLen + sig /\ w = h /\ v = b /\ sig = g
    BY <2>1, <2>2, <2>3
  <2>6. n = h + b + 1 + g /\ b \in Nat /\ g \in 0..1 /\ i \in Nat /\ h \in 2..3 /\ CrcLen = 1
    BY <2>4
  <2> HIDE DEF sig, v, end, w, b, g
  <2> QED
    BY <2>5, <2>6
<1>11. here <=> i + h - 1 <= L
  BY <1>6 DEF h, L
<1> HIDE DEF here, end
<1>12. ~(i + h - 1 <= L) => ~(i + n - 1 <= L)
  BY <1>5, <1>4, <1>7, <1>2
<1> QED
  BY <1>1, <1>10, <1>11, <1>12 DEF n, L

-----------------------------------------------------------------------------
(* parse_mavlink_stream.                                                   *)

FrameAt(data, i) ==
  [first |-> i, last |-> FrameEnd(data, i), ok |-> CrcOk(data, i, FrameEnd(data, i))]
FramesIn(data) == {FrameAt(data, i) : i \in {x \in 1..Len(data) : FrameEnd(data, x) # 0}}

(* g is the walk of the parser from the places a .. Len(data) + 1.         *)
Walks(data, g, a) ==
  g = [i \in a..Len(data) + 1 |->
         IF i > Len(data) THEN <<>>
         ELSE IF FrameEnd(data, i) = 0 THEN g[i + 1]
              ELSE <<FrameAt(data, i)>> \o g[FrameEnd(data, i) + 1]]

LEMMA WalkExists ==
  ASSUME NEW stream \in Streams, NEW data \in Seq(Bytes(stream))
  PROVE  \E g : Walks(data, g, 1)
<1> DEFINE L == Len(data)
           T == {m \in 0..L : ~ \E g : Walks(data, g, L + 1 - m)}
<1>1. L \in Nat
  OBVIOUS
<1>2. T = {}
  <2>1. SUFFICES ASSUME T # {} PROVE FALSE
    OBVIOUS
  <2>2. PICK m \in T : \A k \in T : m <= k
    <3>1. T \subseteq Nat
      BY <1>1
    <3> HIDE DEF T
    <3> QED
      BY <2>1, <3>1, LeastNumber
  <2>3. m \in 0..L /\ ~ \E g : Walks(data, g, L + 1 - m)
    BY <2>2
  <2>4. m # 0
    <3> DEFINE g == [i \in L + 1..L + 1 |-> <<>>]
    <3>1. Walks(data, g, L + 1 - 0)
      BY <1>1 DEF Walks
    <3> QED
      BY <2>3, <3>1
  <2> DEFINE a == L + 1 - m
  <2>5. a \in 1..L /\ m - 1 \in 0..L /\ L + 1 - (m - 1) = a + 1
    BY <1>1, <2>3, <2>4
  <2>6. PICK g : Walks(data, g, a + 1)
    <3>1. m - 1 \notin T
      <4> HIDE DEF T
      <4>1. m \in Nat /\ ~(m <= m - 1)
        BY <2>3, <1>1
      <4> QED
        BY <2>2, <4>1
    <3> QED
      BY <2>5, <3>1
  <2> HIDE DEF T, L, a
  <2> DEFINE new == IF FrameEnd(data, a) = 0 THEN g[a + 1]
                    ELSE <<FrameAt(data, a)>> \o g[FrameEnd(data, a) + 1]
             h == [i \in a..L + 1 |-> IF i = a THEN new ELSE g[i]]
  <2>7. \A i \in a..L : FrameEnd(data, i) \in 0..L /\ (FrameEnd(data, i) # 0 => i < FrameEnd(data, i))
    BY <1>1, <2>5, FrameEndRange DEF L
  <2>8. \A i \in a + 1..L + 1 : h[i] = g[i]
    BY <1>1, <2>5
  <2>9. \A i \in a + 1..L + 1 :
          g[i] = IF i > L THEN <<>>
                 ELSE IF FrameEnd(data, i) = 0 THEN g[i + 1]
                      ELSE <<FrameAt(data, i)>> \o g[FrameEnd(data, i) + 1]
    BY <2>6 DEF Walks, L
  <2>10. ASSUME NEW i \in a..L + 1
         PROVE  h[i] = IF i > L THEN <<>>
                       ELSE IF FrameEnd(data, i) = 0 THEN h[i + 1]
                            ELSE <<FrameAt(data, i)>> \o h[FrameEnd(data, i) + 1]
    <3>1. CASE i > L
      <4>1. i \in a + 1..L + 1
        BY <3>1, <1>1, <2>5
      <4> QED
        BY <3>1, <4>1, <2>8, <2>9
    <3>2. CASE i <= L
      <4>1. i + 1 \in a + 1..L + 1
        BY <3>2, <1>1, <2>5
      <4>2. FrameEnd(data, i) # 0 => FrameEnd(data, i) + 1 \in a + 1..L + 1
        BY <3>2, <1>1, <2>5, <2>7
      <4>3. ~(i > L) /\ (i # a => i \in a + 1..L + 1)
        BY <3>2, <1>1, <2>5
      <4>4. h[i + 1] = g[i + 1] /\ (FrameEnd(data, i) # 0 => h[FrameEnd(data, i) + 1] = g[FrameEnd(data, i) + 1])
        BY <4>1, <4>2, <2>8
      <4>5. h[i] = IF i = a THEN new ELSE g[i]
        OBVIOUS
      <4> HIDE DEF h
      <4>6. CASE i = a
        BY <4>6, <4>3, <4>4, <4>5
      <4>7. CASE i # a
        BY <4>7, <4>3, <4>4, <4>5, <2>9
      <4> QED
        BY <4>6, <4>7
    <3> QED
      BY <3>1, <3>2, <1>1, <2>5
  <2>11. Walks(data, h, a)
    <3>1. h = [i \in a..L + 1 |-> h[i]]
      OBVIOUS
    <3> HIDE DEF h
    <3>2. h = [i \in a..L + 1 |->
                 IF i > L THEN <<>>
                 ELSE IF FrameEnd(data, i) = 0 THEN h[i + 1]
                      ELSE <<FrameAt(data, i)>> \o h[FrameEnd(data, i) + 1]]
      BY <3>1, <2>10
    <3> QED
      BY <3>2 DEF Walks, L
  <2> QED
    BY <2>3, <2>11 DEF a
<1>3. L \in 0..L /\ L + 1 - L = 1
  BY <1>1
<1> QED
  BY <1>2, <1>3

(* What the walk from place i finds: frames at i or behind, one behind the *)
(* other, and each byte that starts a complete frame is in one of them.    *)
Finds(data, ms, i) ==
  /\ ms \in Seq(FramesIn(data))
  /\ \A x \in DOMAIN ms : i <= ms[x].first
  /\ \A x \in 2..Len(ms) : ms[x - 1].last < ms[x].first
  /\ \A j \in i..Len(data) : FrameEnd(data, j) # 0 =>
       \E x \in DOMAIN ms : ms[x].first <= j /\ j <= ms[x].last

LEMMA FrameInIs ==
  ASSUME NEW stream \in Streams, NEW data \in Seq(Bytes(stream)), NEW r \in FramesIn(data)
  PROVE  /\ r.first \in 1..Len(data) /\ r.last \in 1..Len(data) /\ r.first < r.last
         /\ r.last = FrameEnd(data, r.first)
         /\ r = FrameAt(data, r.first)
         /\ IsStx(data[r.first])
<1>1. PICK i \in 1..Len(data) : FrameEnd(data, i) # 0 /\ r = FrameAt(data, i)
  BY DEF FramesIn
<1>2. r.first = i /\ r.last = FrameEnd(data, i)
  BY <1>1 DEF FrameAt
<1>3. FrameEnd(data, i) \in 0..Len(data) /\ i < FrameEnd(data, i) /\ IsStx(data[i])
  BY <1>1, FrameEndRange
<1> QED
  BY <1>1, <1>2, <1>3

LEMMA FindsMore ==
  ASSUME NEW stream \in Streams, NEW data \in Seq(Bytes(stream)), NEW i \in 1..Len(data),
         FrameEnd(data, i) # 0, NEW ms, Finds(data, ms, FrameEnd(data, i) + 1)
  PROVE  Finds(data, <<FrameAt(data, i)>> \o ms, i)
<1> DEFINE r == FrameAt(data, i)
           S == FramesIn(data)
           new == <<r>> \o ms
           e == FrameEnd(data, i)
<1>1. e \in 1..Len(data) /\ i < e /\ Len(data) \in Nat
  BY FrameEndRange
<1>2. r.first = i /\ r.last = e /\ r \in S
  BY DEF FrameAt, FramesIn
<1>3. ms \in Seq(S) /\ Len(ms) \in Nat /\ DOMAIN ms = 1..Len(ms)
  BY DEF Finds
<1>4. \A s \in S : s.first \in Nat /\ s.last \in Nat
  BY FrameInIs
<1>5. /\ new \in Seq(S) /\ Len(new) = Len(ms) + 1 /\ DOMAIN new = 1..Len(ms) + 1
      /\ new[1] = r /\ \A x \in 1..Len(ms) : new[x + 1] = ms[x]
  <2> HIDE DEF S, r
  <2>1. <<r>> \in Seq(S) /\ Len(<<r>>) = 1 /\ <<r>>[1] = r
    BY <1>2
  <2> DEFINE one == <<r>>
  <2>2. one \in Seq(S) /\ Len(one) = 1 /\ one[1] = r /\ new = one \o ms
    BY <2>1
  <2> HIDE DEF one, new
  <2>3. /\ new \in Seq(S) /\ Len(new) = 1 + Len(ms) /\ new[1] = one[1]
        /\ \A x \in 1..Len(ms) : new[1 + x] = ms[x]
    <3>1. /\ new \in Seq(S) /\ Len(new) = Len(one) + Len(ms)
          /\ \A x \in 1..Len(one) : new[x] = one[x]
          /\ \A x \in 1..Len(ms) : new[Len(one) + x] = ms[x]
      <4>1. one \in Seq(S) /\ ms \in Seq(S)
        BY <2>2, <1>3
      <4>2. /\ one \o ms \in Seq(S) /\ Len(one \o ms) = Len(one) + Len(ms)
            /\ \A x \in 1..Len(one) : (one \o ms)[x] = one[x]
            /\ \A x \in 1..Len(ms) : (one \o ms)[Len(one) + x] = ms[x]
        BY <4>1, Concatenates
      <4> QED
        BY <4>2, <2>2
    <3> QED
      BY <3>1, <2>2
  <2> QED
    BY <2>2, <2>3, <1>3
<1> HIDE DEF S, r, e, new
<1>6. \A x \in 1..Len(ms) + 1 : x = 1 \/ (x - 1 \in 1..Len(ms) /\ new[x] = ms[x - 1])
  <2> SUFFICES ASSUME NEW x \in 1..Len(ms) + 1, x # 1
               PROVE  x - 1 \in 1..Len(ms) /\ new[x] = ms[x - 1]
    OBVIOUS
  <2>1. x - 1 \in 1..Len(ms) /\ (x - 1) + 1 = x
    BY <1>3
  <2> QED
    BY <2>1, <1>5
<1>7. \A x \in 1..Len(ms) : e + 1 <= ms[x].first /\ ms[x] \in S
  BY <1>3 DEF Finds, e
<1>8. \A x \in DOMAIN new : i <= new[x].first
  <2> SUFFICES ASSUME NEW x \in 1..Len(ms) + 1 PROVE i <= new[x].first
    BY <1>5
  <2>1. CASE x = 1
    BY <2>1, <1>5, <1>2
  <2>2. CASE x # 1
    <3>1. e + 1 <= new[x].first /\ new[x].first \in Nat
      BY <2>2, <1>6, <1>7, <1>4
    <3> QED
      BY <3>1, <1>1
  <2> QED
    BY <2>1, <2>2
<1>9. \A x \in 2..Len(new) : new[x - 1].last < new[x].first
  <2> SUFFICES ASSUME NEW x \in 2..Len(ms) + 1 PROVE new[x - 1].last < new[x].first
    BY <1>5
  <2>1. x \in 1..Len(ms) + 1 /\ x # 1 /\ x - 1 \in 1..Len(ms) + 1
    BY <1>3
  <2>2. x - 1 \in 1..Len(ms) /\ new[x] = ms[x - 1]
    BY <2>1, <1>6
  <2>3. CASE x = 2
    <3>1. new[x - 1] = r /\ new[x] = ms[1] /\ 1 \in 1..Len(ms)
      BY <2>2, <2>3, <1>5
    <3>2. e + 1 <= ms[1].first /\ ms[1].first \in Nat
      BY <3>1, <1>7, <1>4
    <3> QED
      BY <3>1, <3>2, <1>1, <1>2
  <2>4. CASE x # 2
    <3>1. x - 1 # 1 /\ (x - 1) - 1 = x - 2 /\ x - 1 \in 2..Len(ms)
      BY <2>2, <2>4, <1>3
    <3>2. new[x - 1] = ms[(x - 1) - 1]
      BY <3>1, <2>1, <1>6
    <3>3. ms[(x - 1) - 1].last < ms[x - 1].first
      BY <3>1 DEF Finds
    <3> QED
      BY <2>2, <3>2, <3>3
  <2> QED
    BY <2>3, <2>4
<1>10. ASSUME NEW j \in i..Len(data), FrameEnd(data, j) # 0
       PROVE  \E x \in DOMAIN new : new[x].first <= j /\ j <= new[x].last
  <2>1. CASE j <= e
    BY <2>1, <1>1, <1>2, <1>3, <1>5
  <2>2. CASE j > e
    <3>1. j \in e + 1..Len(data)
      BY <2>2, <1>1
    <3>2. PICK x \in DOMAIN ms : ms[x].first <= j /\ j <= ms[x].last
      BY <3>1, <1>10 DEF Finds, e
    <3>3. x + 1 \in DOMAIN new /\ new[x + 1] = ms[x]
      BY <1>3, <1>5
    <3> QED
      BY <3>2, <3>3
  <2> QED
    BY <2>1, <2>2, <1>1
<1>11. Finds(data, new, i)
  BY <1>5, <1>8, <1>9, <1>10 DEF Finds, S
<1> QED
  BY <1>11 DEF new, r

LEMMA ParseFinds ==
  ASSUME NEW stream \in Streams, NEW data \in Seq(Bytes(stream))
  PROVE  Finds(data, ParseStream(data), 1)
<1> DEFINE L == Len(data)
           From == CHOOSE g : Walks(data, g, 1)
<1>1. L \in Nat
  OBVIOUS
<1>2. ParseStream(data) = From[1]
  BY DEF ParseStream, Walks, FrameAt
<1>3. \A i \in 1..L + 1 :
        From[i] = IF i > L THEN <<>>
                  ELSE IF FrameEnd(data, i) = 0 THEN From[i + 1]
                       ELSE <<FrameAt(data, i)>> \o From[FrameEnd(data, i) + 1]
  <2>1. Walks(data, From, 1)
    BY WalkExists
  <2> HIDE DEF From
  <2> QED
    BY <2>1 DEF Walks
<1> HIDE DEF From, L
<1> DEFINE T == {m \in 0..L : ~ Finds(data, From[L + 1 - m], L + 1 - m)}
<1>4. T = {}
  <2>1. SUFFICES ASSUME T # {} PROVE FALSE
    OBVIOUS
  <2>2. PICK m \in T : \A k \in T : m <= k
    <3>1. T \subseteq Nat
      BY <1>1
    <3> HIDE DEF T
    <3> QED
      BY <2>1, <3>1, LeastNumber
  <2> DEFINE a == L + 1 - m
  <2>3. m \in 0..L /\ ~ Finds(data, From[a], a)
    BY <2>2
  <2>4. a \in 1..L + 1
    BY <2>3, <1>1
  <2>5. ASSUME NEW b \in a + 1..L + 1 PROVE Finds(data, From[b], b)
    <3> DEFINE k == L + 1 - b
    <3>1. k \in 0..L /\ m \in Nat /\ ~(m <= k) /\ L + 1 - k = b
      BY <2>3, <2>4, <1>1
    <3>2. k \notin T
      <4> HIDE DEF T, k
      <4> QED
        BY <2>2, <3>1
    <3> QED
      BY <3>1, <3>2
  <2> HIDE DEF T, a
  <2>6. CASE a > L
    <3>1. From[a] = <<>>
      BY <2>6, <2>4, <1>3
    <3>2. \A j \in a..Len(data) : FALSE
      BY <2>6, <2>4, <1>1 DEF L
    <3>3. Finds(data, <<>>, a)
      BY <3>2 DEF Finds
    <3> QED
      BY <3>1, <3>3, <2>3
  <2>7. CASE a <= L /\ FrameEnd(data, a) = 0
    <3>7. ~(a > L) /\ a + 1 \in a + 1..L + 1
      BY <2>7, <2>4, <1>1
    <3>1. From[a] = From[a + 1] /\ a + 1 \in a + 1..L + 1
      BY <2>7, <2>4, <1>3, <3>7
    <3>2. Finds(data, From[a + 1], a + 1)
      BY <3>1, <2>5
    <3> DEFINE ms == From[a + 1]
    <3>3. /\ ms \in Seq(FramesIn(data)) /\ Len(ms) \in Nat /\ DOMAIN ms = 1..Len(ms)
          /\ \A x \in DOMAIN ms : a + 1 <= ms[x].first /\ ms[x].first \in Nat
      <4> HIDE DEF ms
      <4>1. ms \in Seq(FramesIn(data)) /\ \A x \in DOMAIN ms : a + 1 <= ms[x].first
        BY <3>2 DEF Finds, ms
      <4>2. Len(ms) \in Nat /\ DOMAIN ms = 1..Len(ms) /\ \A x \in DOMAIN ms : ms[x] \in FramesIn(data)
        BY <4>1
      <4> QED
        BY <4>1, <4>2, FrameInIs
    <3>4. \A x \in DOMAIN ms : a <= ms[x].first
      <4> HIDE DEF ms
      <4> QED
        BY <3>3, <2>4
    <3>5. \A j \in a..Len(data) : j = a \/ j \in a + 1..Len(data)
      BY <2>4, <1>1 DEF L
    <3>6. Finds(data, ms, a)
      BY <3>2, <3>4, <3>5, <2>7 DEF Finds
    <3> QED
      BY <3>1, <3>6, <2>3
  <2>8. CASE a <= L /\ FrameEnd(data, a) # 0
    <3>1. a \in 1..Len(data)
      BY <2>8, <2>4, <1>1 DEF L
    <3>2. FrameEnd(data, a) \in a + 1..L
      BY <3>1, <2>8, <1>1, FrameEndRange DEF L
    <3>3. Finds(data, From[FrameEnd(data, a) + 1], FrameEnd(data, a) + 1)
      BY <3>2, <2>5, <1>1, <2>4
    <3>6. ~(a > L)
      BY <2>8, <2>4, <1>1
    <3>4. From[a] = <<FrameAt(data, a)>> \o From[FrameEnd(data, a) + 1]
      BY <2>8, <2>4, <1>3, <3>6
    <3>5. Finds(data, <<FrameAt(data, a)>> \o From[FrameEnd(data, a) + 1], a)
      BY <3>1, <3>3, <2>8, FindsMore
    <3> QED
      BY <3>4, <3>5, <2>3
  <2> QED
    BY <2>4, <2>6, <2>7, <2>8, <1>1
<1>5. L \in 0..L /\ L + 1 - L = 1
  BY <1>1
<1> QED
  BY <1>2, <1>4, <1>5

-----------------------------------------------------------------------------
(* The decoder's buffer is the end of what was heard.                      *)

EndsIn(s, h) ==
  /\ Len(s) <= Len(h)
  /\ \A i \in 1..Len(s) : s[i] = h[Len(h) - Len(s) + i]

LEMMA DropIs ==
  ASSUME NEW S, NEW s \in Seq(S), NEW n \in 0..Len(s)
  PROVE  /\ Drop(s, n) \in Seq(S) /\ Len(Drop(s, n)) = Len(s) - n
         /\ \A i \in 1..Len(s) - n : Drop(s, n)[i] = s[n + i]
<1> DEFINE L == Len(s)
<1>1. L \in Nat /\ n \in 0..L /\ \A i \in n + 1..L : i \in 1..L
  OBVIOUS
<1>2. /\ SubSeq(s, n + 1, L) \in Seq(S) /\ Len(SubSeq(s, n + 1, L)) = L - n
      /\ \A i \in 1..L - n : SubSeq(s, n + 1, L)[i] = s[n + i]
  <2>1. \A i \in n + 1..L : s[i] \in S
    BY <1>1
  <2>2. Len(SubSeq(s, n + 1, L)) = L - n
    <3>1. n + 1 <= L => L - (n + 1) + 1 = L - n
      BY <1>1
    <3>2. ~(n + 1 <= L) => L - n = 0
      BY <1>1
    <3> QED
      BY <1>1, <2>1, <3>1, <3>2
  <2>3. SubSeq(s, n + 1, L) \in Seq(S)
    BY <1>1, <2>1
  <2>4. ASSUME NEW i \in 1..L - n PROVE SubSeq(s, n + 1, L)[i] = s[n + i]
    <3>1. i \in 1..L - (n + 1) + 1 /\ n + 1 + i - 1 = n + i
      BY <1>1
    <3> QED
      BY <3>1, <1>1
  <2> QED
    BY <2>2, <2>3, <2>4
<1> QED
  BY <1>2 DEF Drop, L

LEMMA DropEnds ==
  ASSUME NEW S, NEW h \in Seq(S), NEW s \in Seq(S), EndsIn(s, h), NEW n \in 0..Len(s)
  PROVE  Drop(s, n) \in Seq(S) /\ EndsIn(Drop(s, n), h)
<1> DEFINE d == Drop(s, n)
<1>1. /\ d \in Seq(S) /\ Len(d) = Len(s) - n
      /\ \A i \in 1..Len(s) - n : d[i] = s[n + i]
  BY DropIs
<1>2. Len(s) \in Nat /\ Len(h) \in Nat /\ Len(s) <= Len(h)
  BY DEF EndsIn
<1> HIDE DEF d
<1>3. Len(d) <= Len(h)
  BY <1>1, <1>2
<1>4. ASSUME NEW i \in 1..Len(d) PROVE d[i] = h[Len(h) - Len(d) + i]
  <2>1. i \in 1..Len(s) - n /\ n + i \in 1..Len(s)
        /\ Len(h) - Len(s) + (n + i) = Len(h) - Len(d) + i
    BY <1>1, <1>2
  <2> QED
    BY <2>1, <1>1 DEF EndsIn
<1> QED
  BY <1>1, <1>3, <1>4 DEF EndsIn, d

LEMMA EndIsDrop ==
  ASSUME NEW S, NEW h \in Seq(S), NEW s \in Seq(S), EndsIn(s, h)
  PROVE  s = Drop(h, Len(h) - Len(s))
<1> DEFINE n == Len(h) - Len(s)
           d == Drop(h, n)
<1>1. Len(s) \in Nat /\ Len(h) \in Nat /\ Len(s) <= Len(h)
  BY DEF EndsIn
<1>2. n \in 0..Len(h) /\ Len(h) - n = Len(s)
  BY <1>1
<1>3. d \in Seq(S) /\ Len(d) = Len(s) /\ \A i \in 1..Len(s) : d[i] = h[n + i]
  <2> HIDE DEF n
  <2> QED
    BY <1>2, DropIs
<1>4. \A i \in 1..Len(s) : d[i] = s[i]
  BY <1>3 DEF EndsIn
<1> HIDE DEF d
<1>5. s = d
  BY <1>3, <1>4
<1> QED
  BY <1>5 DEF d

DataOf(b, p) ==
  LET all == b \o p
  IN  IF Len(all) > MaxBuffer THEN Drop(all, Len(all) - MaxBuffer) ELSE all

LEMMA DataIs ==
  ASSUME NEW S, NEW h \in Seq(S), NEW b \in Seq(S), NEW p \in Seq(S), EndsIn(b, h)
  PROVE  /\ h \o p \in Seq(S) /\ Len(h \o p) = Len(h) + Len(p)
         /\ DataOf(b, p) \in Seq(S) /\ EndsIn(DataOf(b, p), h \o p)
         /\ Len(DataOf(b, p)) <= MaxBuffer
         /\ Len(DataOf(b, p)) \in {Len(b) + Len(p), MaxBuffer}
<1> DEFINE all == b \o p
           h2 == h \o p
<1>1. MaxBuffer \in Nat
  BY SikAssumption
<1>2. /\ all \in Seq(S) /\ Len(all) = Len(b) + Len(p) /\ Len(b) \in Nat /\ Len(p) \in Nat
      /\ \A i \in 1..Len(b) : all[i] = b[i]
      /\ \A i \in 1..Len(p) : all[Len(b) + i] = p[i]
  BY Concatenates
<1>3. /\ h2 \in Seq(S) /\ Len(h2) = Len(h) + Len(p) /\ Len(h) \in Nat
      /\ \A i \in 1..Len(h) : h2[i] = h[i]
      /\ \A i \in 1..Len(p) : h2[Len(h) + i] = p[i]
  BY Concatenates
<1>4. DataOf(b, p) = IF Len(all) > MaxBuffer THEN Drop(all, Len(all) - MaxBuffer) ELSE all
  BY DEF DataOf
<1> HIDE DEF all, h2
<1>5. EndsIn(all, h2)
  <2>1. Len(b) <= Len(h) /\ \A i \in 1..Len(b) : b[i] = h[Len(h) - Len(b) + i]
    BY DEF EndsIn
  <2>2. Len(all) <= Len(h2) /\ Len(h2) - Len(all) = Len(h) - Len(b)
    BY <1>2, <1>3, <2>1
  <2>3. ASSUME NEW i \in 1..Len(all) PROVE all[i] = h2[Len(h2) - Len(all) + i]
    <3>1. CASE i <= Len(b)
      <4>1. i \in 1..Len(b) /\ Len(h) - Len(b) + i \in 1..Len(h)
        BY <3>1, <1>2, <1>3, <2>1
      <4> QED
        BY <4>1, <1>2, <1>3, <2>1, <2>2
    <3>2. CASE i > Len(b)
      <4> DEFINE k == i - Len(b)
      <4>1. k \in 1..Len(p) /\ i = Len(b) + k /\ Len(h) - Len(b) + i = Len(h) + k
        BY <3>2, <1>2, <1>3
      <4> HIDE DEF k
      <4> QED
        BY <4>1, <1>2, <1>3, <2>2
    <3> QED
      BY <3>1, <3>2, <1>2
  <2> QED
    BY <2>2, <2>3 DEF EndsIn
<1>6. CASE Len(all) > MaxBuffer
  <2>1. Len(all) - MaxBuffer \in 0..Len(all) /\ Len(all) - (Len(all) - MaxBuffer) = MaxBuffer
    BY <1>6, <1>1, <1>2
  <2> DEFINE d == Drop(all, Len(all) - MaxBuffer)
  <2>2. d \in Seq(S) /\ EndsIn(d, h2) /\ Len(d) = MaxBuffer
    BY <2>1, <1>2, <1>3, <1>5, DropIs, DropEnds
  <2> HIDE DEF d
  <2>3. Len(d) <= MaxBuffer /\ Len(d) \in {Len(b) + Len(p), MaxBuffer}
    BY <2>2, <1>1
  <2> QED
    BY <2>2, <2>3, <1>3, <1>4, <1>6 DEF d, h2
<1>7. CASE ~(Len(all) > MaxBuffer)
  <2>1. Len(all) <= MaxBuffer
    BY <1>7, <1>1, <1>2
  <2> QED
    BY <2>1, <1>2, <1>3, <1>4, <1>5, <1>7 DEF h2
<1> QED
  BY <1>6, <1>7

LEMMA ConsumedIs ==
  ASSUME NEW stream \in Streams, NEW d \in Seq(Bytes(stream))
  PROVE  /\ ConsumedPrefix(d, ParseStream(d)) \in 0..Len(d)
         /\ ParseStream(d) # <<>> =>
              ConsumedPrefix(d, ParseStream(d)) = ParseStream(d)[Len(ParseStream(d))].last
<1> DEFINE ms == ParseStream(d)
           starts == {j \in DOMAIN d : IsStx(d[j])}
<1>1. Finds(d, ms, 1)
  BY ParseFinds
<1> HIDE DEF ms
<1>2. Len(ms) \in Nat /\ \A x \in 1..Len(ms) : ms[x].last \in 1..Len(d)
  <2>1. ms \in Seq(FramesIn(d))
    BY <1>1 DEF Finds
  <2>2. \A x \in 1..Len(ms) : ms[x] \in FramesIn(d)
    BY <2>1
  <2> QED
    BY <2>1, <2>2, FrameInIs
<1>3. Len(d) \in Nat
  OBVIOUS
<1>4. CASE ms # <<>>
  <2>1. Len(ms) \in 1..Len(ms)
    <3>1. Len(ms) # 0
      BY <1>1, <1>4 DEF Finds
    <3> QED
      BY <3>1, <1>2
  <2>2. ConsumedPrefix(d, ms) = ms[Len(ms)].last
    BY <1>4 DEF ConsumedPrefix, Last
  <2>3. ms[Len(ms)].last \in 0..Len(d)
    BY <2>1, <1>2, <1>3
  <2> QED
    BY <2>2, <2>3 DEF ms
<1>5. CASE ms = <<>>
  <2>1. starts \subseteq Nat /\ \A x \in starts : x \in 1..Len(d)
    OBVIOUS
  <2>2. starts # {} => Max(starts) \in starts
    <3>1. \A x \in starts : x <= Len(d)
      BY <2>1, <1>3
    <3> HIDE DEF starts
    <3> QED
      BY <2>1, <3>1, <1>3, MaxIsMember
  <2>3. starts # {} => Max(starts) - 1 \in 0..Len(d)
    <3>1. starts # {} => Max(starts) \in 1..Len(d)
      BY <2>1, <2>2
    <3> QED
      BY <3>1, <1>3
  <2>4. ConsumedPrefix(d, ms) = IF starts # {} THEN Max(starts) - 1
                                ELSE IF Len(d) > 0 THEN Len(d) - 1 ELSE 0
    BY <1>5 DEF ConsumedPrefix
  <2> HIDE DEF starts
  <2>5. ConsumedPrefix(d, ms) \in 0..Len(d)
    BY <2>3, <2>4, <1>3
  <2> QED
    BY <2>5, <1>5 DEF ms
<1> QED
  BY <1>4, <1>5

-----------------------------------------------------------------------------
(* Messages that are whole, and messages of which only the start is there. *)

LEMMA WholeRuns ==
  ASSUME NEW stream \in Streams, NEW d \in Seq(Bytes(stream)), NEW q \in 1..Len(d), WholeIn(q, d)
  PROVE  /\ FrameEnd(d, q) = q + d[q].n - 1 /\ q + d[q].n - 1 \in q..Len(d)
         /\ CrcOk(d, q, FrameEnd(d, q)) <=> d[q].known
         /\ IsStx(d[q])
<1> DEFINE n == d[q].n
<1>1. n \in Nat /\ n >= 3 /\ d[q].k = 1 /\ q + n - 1 <= Len(d) /\ Len(d) \in Nat /\ IsStx(d[q])
  <2>1. d[q] \in Bytes(stream)
    OBVIOUS
  <2> QED
    BY <2>1, ByteFacts DEF WholeIn
<1>2. \A j \in q..q + n - 1 : d[j].m = d[q].m /\ d[j].k = j - q + 1
  <2> SUFFICES ASSUME NEW j \in q..q + n - 1 PROVE d[j].m = d[q].m /\ d[j].k = j - q + 1
    OBVIOUS
  <2> DEFINE i == j - q
  <2>1. i \in 0..n - 1 /\ q + i = j
    BY <1>1
  <2>2. d[q + i].m = d[q].m /\ d[q + i].k = i + 1
    <3> HIDE DEF i
    <3> QED
      BY <2>1 DEF WholeIn
  <2> QED
    BY <2>1, <2>2
<1>3. Runs(d, q)
  <2>1. \A j \in q..Len(d) : j <= q + n - 1 => j \in q..q + n - 1
    BY <1>1
  <2> QED
    BY <2>1, <1>1, <1>2 DEF Runs
<1>4. FrameEnd(d, q) = q + n - 1
  BY <1>1, <1>3, EndOfMessage
<1> DEFINE e == q + n - 1
<1>5. e \in q..Len(d) /\ e - q + 1 = n
  BY <1>1
<1>6. CrcOk(d, q, e) <=> d[q].known
  <2> HIDE DEF e
  <2> QED
    BY <1>1, <1>2, <1>5 DEF CrcOk, e
<1> QED
  BY <1>1, <1>4, <1>5, <1>6

LEMMA WholeInEnd ==
  ASSUME NEW stream \in Streams, NEW h \in Seq(Bytes(stream)), NEW d \in Seq(Bytes(stream)), EndsIn(d, h),
         NEW q \in 1..Len(d)
  PROVE  /\ Len(h) - Len(d) + q \in 1..Len(h) /\ h[Len(h) - Len(d) + q] = d[q]
         /\ WholeIn(Len(h) - Len(d) + q, h) => WholeIn(q, d)
<1> DEFINE c == Len(h) - Len(d)
           n == d[q].n
<1>1. Len(h) \in Nat /\ Len(d) \in Nat /\ Len(d) <= Len(h)
  BY DEF EndsIn
<1>2. c \in Nat /\ c + q \in 1..Len(h) /\ h[c + q] = d[q] /\ c + Len(d) = Len(h)
  BY <1>1 DEF EndsIn
<1>3. n \in Nat
  <2>1. d[q] \in Bytes(stream)
    OBVIOUS
  <2> QED
    BY <2>1, ByteFacts
<1> HIDE DEF c
<1>4. ASSUME WholeIn(c + q, h) PROVE WholeIn(q, d)
  <2>1. /\ d[q].k = 1 /\ (c + q) + n - 1 <= Len(h)
        /\ \A i \in 0..n - 1 : h[(c + q) + i].m = d[q].m /\ h[(c + q) + i].k = i + 1
    BY <1>2, <1>4 DEF WholeIn
  <2> HIDE DEF n
  <2>2. q + n - 1 <= Len(d)
    BY <2>1, <1>1, <1>2, <1>3
  <2>3. ASSUME NEW i \in 0..n - 1 PROVE d[q + i].m = d[q].m /\ d[q + i].k = i + 1
    <3>1. q + i \in 1..Len(d) /\ (c + q) + i = c + (q + i)
      <4>1. i \in Nat /\ i <= n - 1 /\ q \in Nat /\ q >= 1 /\ c \in Nat /\ Len(d) \in Nat
        BY <1>1, <1>2, <1>3
      <4> QED
        BY <4>1, <2>2, <1>3
    <3>2. d[q + i] = h[c + (q + i)]
      BY <3>1 DEF EndsIn, c
    <3> QED
      BY <3>1, <3>2, <2>1
  <2> QED
    BY <2>1, <2>2, <2>3 DEF WholeIn, n
<1> QED
  BY <1>2, <1>4 DEF c

(* The start of a message lies at the end of h, no frame before reaches    *)
(* into it, and no start byte lies inside it.                              *)
Partial(j, h) ==
  /\ h[j].k = 1 /\ j + h[j].n - 1 > Len(h)
  /\ \A i \in j..Len(h) : h[i].m = h[j].m /\ h[i].k = i - j + 1
  /\ \A i \in 1..j - 1 : FrameEnd(h, i) < j
  /\ \A i \in j + 1..Len(h) : ~IsStx(h[i])
NotLost(h, b) == \A j \in 1..Len(h) : Partial(j, h) => j > Len(h) - Len(b)

Unmistaken(j, h) == WholeIn(j, h) /\ ClearIn(j, h)
ReportedIn(h, o) ==
  \A j \in 1..Len(h) : Unmistaken(j, h) =>
    \E x \in DOMAIN o : o[x].first = j /\ (o[x].ok <=> h[j].known)

(* What was whole in h was whole before p, if it ends there.               *)
LEMMA WholeBefore ==
  ASSUME NEW stream \in Streams, NEW h \in Seq(Bytes(stream)), NEW p \in Seq(Bytes(stream)),
         NEW i \in 1..Len(h), WholeIn(i, h \o p), i + h[i].n - 1 <= Len(h)
  PROVE  WholeIn(i, h)
<1> DEFINE h2 == h \o p
           n == h[i].n
<1>1. Len(h) \in Nat /\ \A x \in 1..Len(h) : h2[x] = h[x]
  BY Concatenates
<1>2. n \in Nat
  <2>1. h[i] \in Bytes(stream)
    OBVIOUS
  <2> QED
    BY <2>1, ByteFacts
<1> HIDE DEF h2
<1>3. /\ h[i].k = 1
      /\ \A x \in 0..n - 1 : h2[i + x].m = h[i].m /\ h2[i + x].k = x + 1
  BY <1>1 DEF WholeIn, h2
<1>4. ASSUME NEW x \in 0..n - 1 PROVE h[i + x].m = h[i].m /\ h[i + x].k = x + 1
  <2>1. i + x \in 1..Len(h)
    BY <1>1, <1>2
  <2> QED
    BY <2>1, <1>1, <1>3
<1> QED
  BY <1>3, <1>4 DEF WholeIn

(* Of a message that looks plain in h2, as far as it was there before.     *)
LEMMA PlainWasPartial ==
  ASSUME NEW stream \in Streams, NEW h \in Seq(Bytes(stream)), NEW p \in Seq(Bytes(stream)),
         NEW j \in 1..Len(h), h[j].k = 1,
         \A i \in j..Len(h) : i <= j + h[j].n - 1 => h[i].m = h[j].m /\ h[i].k = i - j + 1,
         \A i \in 1..j - 1 : FrameEnd(h \o p, i) < j,
         \A i \in j + 1..Len(h) : i <= j + h[j].n - 1 => ~IsStx(h[i]),
         j + h[j].n - 1 > Len(h)
  PROVE  Partial(j, h)
<1>1. /\ h \o p \in Seq(Bytes(stream)) /\ Len(h \o p) = Len(h) + Len(p) /\ Len(h) \in Nat /\ Len(p) \in Nat
      /\ \A x \in 1..Len(h) : (h \o p)[x] = h[x]
  BY Concatenates
<1>2. \A i \in 1..Len(h) : h[i].n \in Nat
  <2>1. \A i \in 1..Len(h) : h[i] \in Bytes(stream)
    OBVIOUS
  <2> QED
    BY <2>1, ByteFacts
<1>3. \A i \in 1..j - 1 : FrameEnd(h, i) < j
  <2> DEFINE h2 == h \o p
  <2>1. /\ h2 \in Seq(Bytes(stream)) /\ 0 + Len(h) <= Len(h2) /\ j \in Nat /\ 0 + j = j
        /\ \A i \in 1..Len(h) : h[i] = h2[0 + i]
    BY <1>1
  <2>2. \A i \in 1..j - 1 : FrameEnd(h2, i) < j
    OBVIOUS
  <2> HIDE DEF h2
  <2> QED
    BY <2>1, <2>2, FramesOfPart
<1>4. \A i \in j..Len(h) : i <= j + h[j].n - 1
  BY <1>1, <1>2
<1>5. \A i \in j + 1..Len(h) : i \in j..Len(h)
  BY <1>1
<1> QED
  BY <1>3, <1>4, <1>5 DEF Partial

Fits(p) == \E n \in Packets : Len(p) <= n

LEMMA Room ==
  ASSUME NEW stream \in Streams, NEW b \in Bytes(stream), NEW n \in Packets
  PROVE  b.n \in Nat /\ n \in Nat /\ b.n - 1 + n <= MaxBuffer
<1>1. b.m \in DOMAIN stream /\ b.n = Len(Values(stream[b.m])) /\ b.n \in Nat
  BY DEF Bytes
<1> QED
  BY <1>1, SikAssumption, BufferAssumption

(* A message of which the last byte is not there before p, and which looks *)
(* plain as far as it is there with p, has not left the data.              *)
LEMMA StillThere ==
  ASSUME NEW stream \in Streams, NEW h \in Seq(Bytes(stream)), NEW b \in Seq(Bytes(stream)),
         NEW p \in Seq(Bytes(stream)), EndsIn(b, h), NotLost(h, b), Fits(p),
         NEW j \in 1..Len(h \o p), (h \o p)[j].k = 1,
         \A i \in j..Len(h \o p) : i <= j + (h \o p)[j].n - 1 =>
           (h \o p)[i].m = (h \o p)[j].m /\ (h \o p)[i].k = i - j + 1,
         \A i \in 1..j - 1 : FrameEnd(h \o p, i) < j,
         \A i \in j + 1..Len(h \o p) : i <= j + (h \o p)[j].n - 1 => ~IsStx((h \o p)[i]),
         j + (h \o p)[j].n - 1 > Len(h)
  PROVE  j > Len(h \o p) - Len(DataOf(b, p))
<1> DEFINE h2 == h \o p
           d == DataOf(b, p)
<1>1. /\ h2 \in Seq(Bytes(stream)) /\ Len(h2) = Len(h) + Len(p) /\ Len(h) \in Nat /\ Len(p) \in Nat
      /\ \A x \in 1..Len(h) : h2[x] = h[x]
  BY Concatenates
<1>2. Len(d) \in {Len(b) + Len(p), MaxBuffer}
  BY DataIs
<1>3. Len(b) \in Nat /\ MaxBuffer \in Nat
  BY SikAssumption
<1>4. PICK n \in Packets : Len(p) <= n
  BY DEF Fits
<1>5. h2[j].n \in Nat /\ n \in Nat /\ h2[j].n - 1 + n <= MaxBuffer
  <2>1. h2[j] \in Bytes(stream)
    <3> HIDE DEF h2
    <3> QED
      BY <1>1
  <2> HIDE DEF h2
  <2> QED
    BY <2>1, Room
<1>6. CASE Len(d) = MaxBuffer
  <2> DEFINE nj == h2[j].n
  <2>1. j + nj - 1 > Len(h) /\ j \in Nat /\ nj \in Nat /\ nj - 1 + n <= MaxBuffer
    BY <1>1, <1>5
  <2> HIDE DEF nj, h2, d
  <2>2. j > Len(h) + Len(p) - MaxBuffer
    BY <2>1, <1>1, <1>3, <1>4, <1>5
  <2>3. j > Len(h2) - Len(d)
    BY <2>2, <1>1, <1>6
  <2> QED
    BY <2>3 DEF h2, d
<1>7. CASE Len(d) = Len(b) + Len(p)
  <2>1. Len(h2) - Len(d) = Len(h) - Len(b)
    BY <1>1, <1>3, <1>7
  <2>2. CASE j > Len(h)
    BY <2>1, <2>2, <1>1, <1>3
  <2>3. CASE j <= Len(h)
    <3>1. j \in 1..Len(h) /\ h2[j] = h[j]
      BY <2>3, <1>1
    <3>2. \A i \in 1..Len(h) : i \in 1..Len(h2) /\ h2[i] = h[i]
      BY <1>1
    <3>3. h[j].k = 1 /\ j + h[j].n - 1 > Len(h)
      BY <3>1
    <3>4. \A i \in j..Len(h) : i <= j + h[j].n - 1 => h[i].m = h[j].m /\ h[i].k = i - j + 1
      <4>1. \A i \in j..Len(h) : i \in j..Len(h2) /\ h2[i] = h[i]
        BY <3>1, <3>2, <1>1
      <4> QED
        BY <4>1, <3>1
    <3>5. \A i \in 1..j - 1 : FrameEnd(h \o p, i) < j
      OBVIOUS
    <3>6. \A i \in j + 1..Len(h) : i <= j + h[j].n - 1 => ~IsStx(h[i])
      <4>1. \A i \in j + 1..Len(h) : i \in j + 1..Len(h2) /\ h2[i] = h[i]
        BY <3>1, <3>2, <1>1
      <4> QED
        BY <4>1, <3>1
    <3>7. Partial(j, h)
      BY <3>1, <3>3, <3>4, <3>5, <3>6, PlainWasPartial
    <3>8. j > Len(h) - Len(b)
      BY <3>1, <3>7 DEF NotLost
    <3> QED
      BY <3>8, <2>1
  <2> QED
    BY <2>2, <2>3, <1>1
<1> QED
  BY <1>2, <1>6, <1>7

(* A frame found before a message ends before it.                          *)
LEMMA SearchReaches ==
  ASSUME NEW stream \in Streams, NEW d \in Seq(Bytes(stream)), NEW q \in 1..Len(d),
         \A i \in 1..q - 1 : FrameEnd(d, i) < q, NEW r \in FramesIn(d), r.first < q
  PROVE  r.last < q
<1>1. r.first \in 1..Len(d) /\ r.last = FrameEnd(d, r.first)
  BY FrameInIs
<1>2. r.first \in 1..q - 1
  BY <1>1
<1> QED
  BY <1>1, <1>2

LEMMA PlainFound ==
  ASSUME NEW stream \in Streams, NEW d \in Seq(Bytes(stream)), NEW q \in 1..Len(d), WholeIn(q, d),
         \A i \in 1..q - 1 : FrameEnd(d, i) < q
  PROVE  \E x \in DOMAIN ParseStream(d) :
           ParseStream(d)[x].first = q /\ (ParseStream(d)[x].ok <=> d[q].known)
<1> DEFINE ms == ParseStream(d)
<1>1. Finds(d, ms, 1)
  BY ParseFinds
<1> HIDE DEF ms
<1>2. Len(d) \in Nat /\ FrameEnd(d, q) # 0 /\ (CrcOk(d, q, FrameEnd(d, q)) <=> d[q].known)
  <2>1. /\ FrameEnd(d, q) = q + d[q].n - 1 /\ q + d[q].n - 1 \in q..Len(d)
        /\ CrcOk(d, q, FrameEnd(d, q)) <=> d[q].known
    BY WholeRuns
  <2> QED
    BY <2>1
<1>3. PICK x \in DOMAIN ms : ms[x].first <= q /\ q <= ms[x].last
  BY <1>1, <1>2 DEF Finds
<1>4. ms[x] \in FramesIn(d)
  BY <1>1, <1>3 DEF Finds
<1>5. ms[x].first \in 1..Len(d) /\ ms[x].last \in 1..Len(d) /\ ms[x] = FrameAt(d, ms[x].first)
  BY <1>4, FrameInIs
<1>6. ms[x].first = q
  <2>1. ms[x].first < q => ms[x].last < q
    BY <1>2, <1>4, SearchReaches
  <2> QED
    BY <2>1, <1>3, <1>5
<1>7. ms[x].ok <=> d[q].known
  <2>1. FrameAt(d, q).ok <=> CrcOk(d, q, FrameEnd(d, q))
    BY Zenon DEF FrameAt
  <2>2. ms[x] = FrameAt(d, q)
    BY <1>5, <1>6
  <2> QED
    BY <2>1, <2>2, <1>2
<1> QED
  BY <1>6, <1>7 DEF ms

LEMMA PartialNotConsumed ==
  ASSUME NEW stream \in Streams, NEW d \in Seq(Bytes(stream)), NEW q \in 1..Len(d), Runs(d, q),
         q + d[q].n - 1 > Len(d),
         \A i \in 1..q - 1 : FrameEnd(d, i) < q,
         \A i \in q + 1..Len(d) : ~IsStx(d[i])
  PROVE  ConsumedPrefix(d, ParseStream(d)) < q
<1> DEFINE ms == ParseStream(d)
           starts == {j \in DOMAIN d : IsStx(d[j])}
<1>1. Finds(d, ms, 1) /\ ConsumedPrefix(d, ms) \in 0..Len(d)
      /\ (ms # <<>> => ConsumedPrefix(d, ms) = ms[Len(ms)].last)
  BY ParseFinds, ConsumedIs
<1> HIDE DEF ms
<1>2. Len(d) \in Nat /\ d[q].k = 1 /\ IsStx(d[q]) /\ d[q].n \in Nat
  <2>1. d[q].k = 1 /\ d[q] \in Bytes(stream)
    BY DEF Runs
  <2> QED
    BY <2>1, ByteFacts
<1>3. FrameEnd(d, q) = 0
  <2>1. ~(q + d[q].n - 1 <= Len(d))
    BY <1>2
  <2> QED
    BY <2>1, EndOfMessage
<1>4. CASE ms # <<>>
  <2> DEFINE r == ms[Len(ms)]
  <2>1. Len(ms) \in DOMAIN ms
    <3>1. ms \in Seq(FramesIn(d)) /\ Len(ms) # 0 /\ Len(ms) \in Nat
      BY <1>1, <1>4 DEF Finds
    <3> QED
      BY <3>1
  <2>2. r \in FramesIn(d)
    BY <1>1, <2>1 DEF Finds
  <2> HIDE DEF r
  <2>3. r.first \in 1..Len(d) /\ r.last = FrameEnd(d, r.first) /\ r.last \in 1..Len(d) /\ IsStx(d[r.first])
    BY <2>2, FrameInIs
  <2>4. r.first # q
    BY <2>3, <1>3
  <2>5. ~(r.first > q)
    <3>1. r.first > q => r.first \in q + 1..Len(d)
      BY <2>3
    <3> QED
      BY <2>3, <3>1
  <2>6. r.first < q
    BY <2>3, <2>4, <2>5
  <2>7. r.last < q
    BY <2>2, <2>6, <1>2, SearchReaches
  <2> QED
    BY <2>7, <1>1, <1>4 DEF r, ms
<1>5. CASE ms = <<>>
  <2>1. starts \subseteq Nat /\ q \in starts /\ \A x \in starts : x <= q
    <3>1. q \in starts
      BY <1>2
    <3>2. \A x \in starts : x \in 1..Len(d) /\ ~(x \in q + 1..Len(d))
      OBVIOUS
    <3> QED
      BY <3>1, <3>2, <1>2
  <2>2. Max(starts) \in starts /\ q <= Max(starts)
    <3> HIDE DEF starts
    <3> QED
      BY <2>1, MaxIsMember
  <2>3. ConsumedPrefix(d, ms) = Max(starts) - 1
    BY <1>5, <2>1 DEF ConsumedPrefix
  <2> HIDE DEF starts
  <2>4. Max(starts) = q
    <3>1. Max(starts) \in Nat /\ Max(starts) <= q /\ q \in Nat
      BY <2>1, <2>2
    <3> QED
      BY <3>1, <2>2
  <2> QED
    BY <2>3, <2>4 DEF ms
<1> QED
  BY <1>4, <1>5

-----------------------------------------------------------------------------
(* One frame fed.                                                          *)

KeptOf(b, p) == Drop(DataOf(b, p), ConsumedPrefix(DataOf(b, p), ParseStream(DataOf(b, p))))

LEMMA FeedKeeps ==
  ASSUME NEW stream \in Streams, NEW h \in Seq(Bytes(stream)), NEW b \in Seq(Bytes(stream)),
         NEW p \in Seq(Bytes(stream)), EndsIn(b, h), NotLost(h, b), Fits(p)
  PROVE  /\ KeptOf(b, p) \in Seq(Bytes(stream)) /\ EndsIn(KeptOf(b, p), h \o p)
         /\ Len(KeptOf(b, p)) <= MaxBuffer
         /\ NotLost(h \o p, KeptOf(b, p))
<1> DEFINE h2 == h \o p
           d == DataOf(b, p)
           c == ConsumedPrefix(d, ParseStream(d))
           b2 == KeptOf(b, p)
<1>1. /\ h2 \in Seq(Bytes(stream)) /\ d \in Seq(Bytes(stream)) /\ EndsIn(d, h2)
      /\ Len(d) <= MaxBuffer /\ Len(h2) \in Nat /\ Len(d) \in Nat /\ MaxBuffer \in Nat
  BY DataIs, SikAssumption
<1>2. c \in 0..Len(d)
  <2> HIDE DEF d
  <2> QED
    BY <1>1, ConsumedIs
<1>3. /\ b2 \in Seq(Bytes(stream)) /\ Len(b2) = Len(d) - c /\ EndsIn(b2, h2)
  <2>1. b2 = Drop(d, c)
    BY DEF KeptOf
  <2> HIDE DEF d, c, h2, b2
  <2> QED
    BY <2>1, <1>1, <1>2, DropIs, DropEnds
<1>4. Len(b2) <= MaxBuffer
  <2> HIDE DEF d, c, b2
  <2> QED
    BY <1>1, <1>2, <1>3
<1>5. ASSUME NEW j \in 1..Len(h2), Partial(j, h2) PROVE j > Len(h2) - Len(b2)
  <2> DEFINE base == Len(h2) - Len(d)
             q == j - base
  <2>1. /\ h2[j].k = 1 /\ j + h2[j].n - 1 > Len(h2)
        /\ \A i \in j..Len(h2) : h2[i].m = h2[j].m /\ h2[i].k = i - j + 1
        /\ \A i \in 1..j - 1 : FrameEnd(h2, i) < j
        /\ \A i \in j + 1..Len(h2) : ~IsStx(h2[i])
    BY <1>5 DEF Partial
  <2>2. j > base
    <3>1. j + h2[j].n - 1 > Len(h)
      <4>1. Len(h2) = Len(h) + Len(p) /\ Len(h) \in Nat /\ Len(p) \in Nat
        BY Concatenates
      <4>2. h2[j].n \in Nat
        <5>1. h2[j] \in Bytes(stream)
          BY <1>1
        <5> HIDE DEF h2
        <5> QED
          BY <5>1, ByteFacts
      <4> HIDE DEF h2
      <4> QED
        BY <2>1, <4>1, <4>2
    <3> QED
      BY <2>1, <3>1, StillThere
  <2> HIDE DEF b2, d, h2
  <2>3. base \in Nat /\ q \in 1..Len(d) /\ base + q = j /\ Len(d) + base = Len(h2) /\ j \in Nat
    BY <1>1, <2>2 DEF EndsIn
  <2>4. \A i \in 1..Len(d) : base + i \in 1..Len(h2) /\ d[i] = h2[base + i]
    BY <1>1, WholeInEnd
  <2> HIDE DEF base, q
  <2>5. d[q] = h2[j]
    BY <2>3, <2>4
  <2>6. d[q].n \in Nat
    <3>1. d[q] \in Bytes(stream)
      BY <1>1, <2>3
    <3> QED
      BY <3>1, ByteFacts
  <2>7. q + d[q].n - 1 > Len(d)
    <3> DEFINE n == d[q].n
    <3>1. j + n - 1 > Len(h2) /\ n \in Nat
      BY <2>1, <2>5, <2>6
    <3> HIDE DEF n
    <3>2. q + n - 1 > Len(d)
      BY <3>1, <2>3, <1>1
    <3> QED
      BY <3>2 DEF n
  <2>8. Runs(d, q)
    <3>1. ASSUME NEW i \in q..Len(d) PROVE d[i].m = d[q].m /\ d[i].k = i - q + 1
      <4>1. base + i \in j..Len(h2) /\ (base + i) - j + 1 = i - q + 1 /\ i \in 1..Len(d)
        BY <2>3, <1>1
      <4> QED
        BY <4>1, <2>1, <2>4, <2>5
    <3> QED
      BY <3>1, <2>1, <2>5 DEF Runs
  <2>9. \A i \in 1..q - 1 : FrameEnd(d, i) < q
    <3>1. base + Len(d) <= Len(h2)
      BY <2>3, <1>1
    <3> QED
      BY <3>1, <2>1, <2>3, <2>4, <1>1, FramesOfPart
  <2>10. \A i \in q + 1..Len(d) : ~IsStx(d[i])
    <3>1. \A i \in q + 1..Len(d) : i \in 1..Len(d) /\ base + i \in j + 1..Len(h2)
      BY <2>3, <1>1
    <3> QED
      BY <3>1, <2>1, <2>4
  <2>11. c < q
    BY <2>3, <2>7, <2>8, <2>9, <2>10, <1>1, PartialNotConsumed
  <2> HIDE DEF c
  <2> QED
    BY <2>11, <2>3, <1>1, <1>2, <1>3
<1> QED
  BY <1>3, <1>4, <1>5 DEF NotLost

Found == [first : Nat \ {0}, last : Nat \ {0}, ok : BOOLEAN]
Placed(ms, base) ==
  [i \in DOMAIN ms |-> [ms[i] EXCEPT !.first = @ + base, !.last = @ + base]]
BaseOf(h, b, p) == Len(h) + Len(p) - Len(DataOf(b, p))

LEMMA PlacedIs ==
  ASSUME NEW stream \in Streams, NEW d \in Seq(Bytes(stream)), NEW base \in Nat
  PROVE  /\ Placed(ParseStream(d), base) \in Seq(Found)
         /\ Len(Placed(ParseStream(d), base)) = Len(ParseStream(d))
         /\ Len(ParseStream(d)) \in Nat
         /\ \A x \in 1..Len(ParseStream(d)) :
              /\ Placed(ParseStream(d), base)[x].first = ParseStream(d)[x].first + base
              /\ Placed(ParseStream(d), base)[x].last = ParseStream(d)[x].last + base
              /\ Placed(ParseStream(d), base)[x].ok <=> ParseStream(d)[x].ok
              /\ ParseStream(d)[x].first \in 1..Len(d) /\ ParseStream(d)[x].last \in 1..Len(d)
              /\ ParseStream(d)[x].first < ParseStream(d)[x].last
<1> DEFINE ms == ParseStream(d)
<1>1. ms \in Seq(FramesIn(d))
  BY ParseFinds DEF Finds
<1> HIDE DEF ms
<1>2. Len(ms) \in Nat /\ DOMAIN ms = 1..Len(ms) /\ \A x \in 1..Len(ms) : ms[x] \in FramesIn(d)
  BY <1>1
<1>3. \A x \in 1..Len(ms) :
        /\ ms[x].first \in 1..Len(d) /\ ms[x].last \in 1..Len(d) /\ ms[x].first < ms[x].last
        /\ ms[x] \in Found
  <2> SUFFICES ASSUME NEW x \in 1..Len(ms)
               PROVE  /\ ms[x].first \in 1..Len(d) /\ ms[x].last \in 1..Len(d) /\ ms[x].first < ms[x].last
                      /\ ms[x] \in Found
    OBVIOUS
  <2>1. /\ ms[x].first \in 1..Len(d) /\ ms[x].last \in 1..Len(d) /\ ms[x].first < ms[x].last
        /\ ms[x].last = FrameEnd(d, ms[x].first) /\ ms[x] = FrameAt(d, ms[x].first)
    BY <1>2, FrameInIs
  <2>2. CrcOk(d, ms[x].first, ms[x].last) \in BOOLEAN
    BY DEF CrcOk
  <2> DEFINE f == ms[x].first
             e == ms[x].last
  <2>3. ms[x] = [first |-> f, last |-> e, ok |-> CrcOk(d, f, e)]
    BY <2>1, Zenon DEF FrameAt
  <2>4. f \in Nat \ {0} /\ e \in Nat \ {0}
    BY <2>1
  <2> HIDE DEF f, e
  <2>5. ms[x] \in Found
    BY <2>2, <2>3, <2>4 DEF Found, f, e
  <2> QED
    BY <2>1, <2>5
<1> DEFINE pl == Placed(ms, base)
<1>4. DOMAIN pl = 1..Len(ms) /\ \A x \in 1..Len(ms) :
        pl[x] = [ms[x] EXCEPT !.first = ms[x].first + base, !.last = ms[x].last + base]
  BY <1>2 DEF Placed
<1>5. \A x \in 1..Len(ms) : /\ pl[x] \in Found
                            /\ pl[x].first = ms[x].first + base /\ pl[x].last = ms[x].last + base
                            /\ pl[x].ok <=> ms[x].ok
  <2> HIDE DEF pl
  <2> SUFFICES ASSUME NEW x \in 1..Len(ms)
               PROVE  /\ pl[x] \in Found
                      /\ pl[x].first = ms[x].first + base /\ pl[x].last = ms[x].last + base
                      /\ pl[x].ok <=> ms[x].ok
    OBVIOUS
  <2>1. ms[x] \in Found
    BY <1>3
  <2> DEFINE r == ms[x]
             f == ms[x].first + base
             e == ms[x].last + base
  <2>2. f \in Nat \ {0} /\ e \in Nat \ {0}
    BY <2>1 DEF Found
  <2>3. pl[x] = [r EXCEPT !.first = f, !.last = e] /\ r \in Found
    <3>1. pl[x] = [ms[x] EXCEPT !.first = ms[x].first + base, !.last = ms[x].last + base]
      BY <1>4, Zenon
    <3> QED
      BY <3>1, <2>1, Zenon DEF r, f, e
  <2> HIDE DEF r, f, e
  <2>4. pl[x] \in Found /\ pl[x].first = f /\ pl[x].last = e
    BY <2>2, <2>3 DEF Found
  <2>5. pl[x].ok <=> r.ok
    BY <2>3, Zenon DEF Found
  <2> QED
    BY <2>4, <2>5 DEF r, f, e
<1>6. pl \in Seq(Found) /\ Len(pl) = Len(ms)
  <2>1. pl = [x \in 1..Len(ms) |-> pl[x]]
    BY <1>2 DEF Placed
  <2> HIDE DEF pl
  <2>2. pl \in [1..Len(ms) -> Found]
    BY <2>1, <1>5
  <2> QED
    BY <2>2, <1>2
<1> QED
  BY <1>2, <1>3, <1>5, <1>6 DEF pl, ms

LEMMA FeedReports ==
  ASSUME NEW stream \in Streams, NEW h \in Seq(Bytes(stream)), NEW b \in Seq(Bytes(stream)),
         NEW p \in Seq(Bytes(stream)), EndsIn(b, h), NotLost(h, b), Fits(p),
         NEW o \in Seq(Found), ReportedIn(h, o)
  PROVE  ReportedIn(h \o p, o \o Placed(ParseStream(DataOf(b, p)), BaseOf(h, b, p)))
<1> DEFINE h2 == h \o p
           d == DataOf(b, p)
           base == BaseOf(h, b, p)
           ms == ParseStream(d)
           pl == Placed(ms, base)
           o2 == o \o pl
<1>1. /\ h2 \in Seq(Bytes(stream)) /\ d \in Seq(Bytes(stream)) /\ EndsIn(d, h2)
      /\ Len(h2) \in Nat /\ Len(d) \in Nat /\ Len(h2) = Len(h) + Len(p)
  BY DataIs
<1>2. /\ Len(h) \in Nat /\ Len(p) \in Nat /\ \A x \in 1..Len(h) : h2[x] = h[x]
  BY Concatenates
<1>3. base = Len(h2) - Len(d) /\ base \in Nat /\ base + Len(d) = Len(h2)
  <2>1. base = Len(h2) - Len(d)
    BY <1>1 DEF BaseOf
  <2> HIDE DEF h2, d, base
  <2> QED
    BY <2>1, <1>1 DEF EndsIn
<1>4. /\ pl \in Seq(Found) /\ Len(pl) = Len(ms) /\ Len(ms) \in Nat
      /\ \A x \in 1..Len(ms) : /\ pl[x].first = ms[x].first + base
                               /\ pl[x].ok <=> ms[x].ok
                               /\ ms[x].first \in 1..Len(d)
  <2> HIDE DEF d, base
  <2> QED
    BY <1>1, <1>3, PlacedIs
<1>5. /\ Len(o2) = Len(o) + Len(pl) /\ Len(o) \in Nat /\ Len(pl) \in Nat /\ o2 \in Seq(Found)
      /\ \A x \in 1..Len(o) : o2[x] = o[x]
      /\ \A x \in 1..Len(pl) : o2[Len(o) + x] = pl[x]
  <2>1. o \in Seq(Found) /\ pl \in Seq(Found)
    BY <1>4
  <2> HIDE DEF pl
  <2> QED
    BY <2>1, Concatenates
<1> SUFFICES ASSUME NEW j \in 1..Len(h2), Unmistaken(j, h2)
             PROVE  \E x \in DOMAIN o2 : o2[x].first = j /\ (o2[x].ok <=> h2[j].known)
  BY DEF ReportedIn
<1> DEFINE n == h2[j].n
           e == j + n - 1
<1>6. /\ WholeIn(j, h2) /\ h2[j].k = 1 /\ e <= Len(h2)
      /\ \A i \in 1..j - 1 : FrameEnd(h2, i) < j
      /\ \A i \in j + 1..e : ~IsStx(h2[i])
  BY DEF Unmistaken, WholeIn, ClearIn
<1>7. n \in Nat /\ n >= 3
  <2>1. h2[j] \in Bytes(stream)
    BY <1>1
  <2> HIDE DEF h2
  <2> QED
    BY <2>1, ByteFacts
<1>8. e \in Nat /\ j <= e /\ e \in 1..Len(h2) /\ j \in Nat
  <2>1. e <= Len(h2) /\ j \in 1..Len(h2)
    BY <1>6
  <2> HIDE DEF n, h2
  <2> QED
    BY <2>1, <1>1, <1>7
<1>9. CASE e <= Len(h)
  <2>1. j \in 1..Len(h) /\ h[j] = h2[j] /\ \A i \in 1..e : i \in 1..Len(h) /\ h[i] = h2[i]
    <3> HIDE DEF e, h2
    <3> QED
      BY <1>2, <1>8, <1>9
  <2>2. WholeIn(j, h)
    <3>1. j + h[j].n - 1 <= Len(h)
      BY <2>1, <1>9
    <3> QED
      BY <3>1, <2>1, <1>6, WholeBefore
  <2>3. Unmistaken(j, h)
    <3>1. \A i \in 1..j - 1 : FrameEnd(h, i) < j
      <4>1. /\ 0 + Len(h) <= Len(h2) /\ j \in Nat /\ 0 + j = j
            /\ \A i \in 1..Len(h) : h[i] = h2[0 + i]
        BY <1>1, <1>2
      <4> HIDE DEF h2
      <4> QED
        BY <4>1, <2>1, <1>1, <1>6, FramesOfPart
    <3>2. \A i \in j + 1..j + h[j].n - 1 : ~IsStx(h[i])
      <4>1. e = j + h[j].n - 1 /\ \A i \in j + 1..e : i \in 1..e
        BY <2>1, <1>8
      <4> HIDE DEF e, h2
      <4> QED
        BY <4>1, <2>1, <1>6
    <3> QED
      BY <3>1, <3>2, <2>2 DEF Unmistaken, ClearIn
  <2>4. PICK x \in DOMAIN o : o[x].first = j /\ (o[x].ok <=> h[j].known)
    BY <2>1, <2>3 DEF ReportedIn
  <2>5. x \in DOMAIN o2 /\ o2[x] = o[x]
    <3>1. x \in 1..Len(o)
      OBVIOUS
    <3> HIDE DEF o2, pl
    <3>2. DOMAIN o2 = 1..Len(o2) /\ Len(o2) = Len(o) + Len(pl) /\ Len(pl) \in Nat /\ Len(o) \in Nat
      BY <1>5
    <3>3. x \in DOMAIN o2
      BY <3>1, <3>2
    <3> QED
      BY <3>1, <3>3, <1>5
  <2> HIDE DEF o2
  <2> QED
    BY <2>1, <2>4, <2>5
<1>10. CASE e > Len(h)
  <2> DEFINE q == j - base
  <2>1. \A i \in j..e : h2[i].m = h2[j].m /\ h2[i].k = i - j + 1
    <3> SUFFICES ASSUME NEW i \in j..e PROVE h2[i].m = h2[j].m /\ h2[i].k = i - j + 1
      OBVIOUS
    <3> DEFINE x == i - j
    <3>1. x \in 0..n - 1 /\ j + x = i
      <4> HIDE DEF n
      <4> QED
        BY <1>7, <1>8
    <3>2. h2[j + x].m = h2[j].m /\ h2[j + x].k = x + 1
      <4> HIDE DEF x, h2
      <4> QED
        BY <3>1, <1>6 DEF WholeIn
    <3> QED
      BY <3>1, <3>2
  <2>2. \A i \in j + 1..e : ~IsStx(h2[i])
    BY <1>6
  <2>3. j > base
    <3>1. \A i \in j..Len(h2) : i <= e => i \in j..e
      BY <1>8
    <3>2. \A i \in j + 1..Len(h2) : i <= e => i \in j + 1..e
      BY <1>8
    <3>4. j > Len(h2) - Len(d)
      BY <3>1, <3>2, <2>1, <2>2, <1>6, <1>10, StillThere
    <3> QED
      BY <3>4, <1>3
  <2> HIDE DEF h2, d, base, ms, pl, o2
  <2>4. q \in 1..Len(d) /\ base + q = j
    BY <2>3, <1>1, <1>3
  <2>5. \A i \in 1..Len(d) : base + i \in 1..Len(h2) /\ d[i] = h2[base + i] /\ (WholeIn(base + i, h2) => WholeIn(i, d))
    <3> SUFFICES ASSUME NEW i \in 1..Len(d)
                 PROVE  /\ base + i \in 1..Len(h2) /\ d[i] = h2[base + i]
                        /\ WholeIn(base + i, h2) => WholeIn(i, d)
      OBVIOUS
    <3>1. /\ Len(h2) - Len(d) + i \in 1..Len(h2) /\ h2[Len(h2) - Len(d) + i] = d[i]
          /\ WholeIn(Len(h2) - Len(d) + i, h2) => WholeIn(i, d)
      BY <1>1, WholeInEnd
    <3>2. base = Len(h2) - Len(d)
      BY <1>3
    <3> QED
      BY <3>1, <3>2
  <2> HIDE DEF q
  <2>6. WholeIn(q, d)
    BY <2>4, <2>5, <1>6
  <2>7. \A i \in 1..q - 1 : FrameEnd(d, i) < q
    <3>1. base + Len(d) <= Len(h2) /\ base \in Nat /\ j \in Nat
      BY <1>1, <1>3, <1>8
    <3>2. \A i \in 1..Len(d) : d[i] = h2[base + i]
      BY <2>5
    <3>3. \A i \in 1..j - 1 : FrameEnd(h2, i) < j
      BY <1>6
    <3> QED
      BY <3>1, <3>2, <3>3, <2>4, <1>1, FramesOfPart
  <2>8. PICK x \in DOMAIN ms : ms[x].first = q /\ (ms[x].ok <=> h2[j].known)
    <3>1. d[q].known <=> h2[j].known
      BY <2>4, <2>5
    <3> QED
      BY <3>1, <2>4, <2>6, <2>7, <1>1, PlainFound DEF ms
  <2>9. x \in 1..Len(ms)
    <3>1. DOMAIN ms = 1..Len(ms)
      BY <1>1, ParseFinds DEF Finds, ms
    <3> QED
      BY <3>1
  <2>10. pl[x].first = j /\ (pl[x].ok <=> h2[j].known)
    <3>1. pl[x].first = q + base /\ (pl[x].ok <=> h2[j].known)
      BY <2>8, <2>9, <1>4
    <3>2. q + base = j
      BY <2>4, <1>3
    <3> QED
      BY <3>1, <3>2
  <2>11. Len(o) + x \in DOMAIN o2 /\ o2[Len(o) + x] = pl[x]
    BY <2>9, <1>4, <1>5
  <2> QED
    BY <2>10, <2>11
<1> HIDE DEF e, h2, o2
<1>11. e <= Len(h) \/ e > Len(h)
  BY <1>2, <1>8
<1> QED
  BY <1>9, <1>10, <1>11

Ordered(o) ==
  /\ \A i \in DOMAIN o : o[i].first <= o[i].last
  /\ \A i \in 2..Len(o) : o[i - 1].last < o[i].first
Behind(h, b, o) == Len(o) # 0 => o[Len(o)].last <= Len(h) - Len(b)

LEMMA OrderedJoin ==
  ASSUME NEW o \in Seq(Found), NEW t \in Seq(Found), NEW k \in Nat, Ordered(o), Ordered(t),
         Len(o) # 0 => o[Len(o)].last <= k,
         \A x \in 1..Len(t) : t[x].first > k
  PROVE  Ordered(o \o t)
<1> DEFINE o2 == o \o t
<1>1. /\ o2 \in Seq(Found) /\ Len(o2) = Len(o) + Len(t) /\ Len(o) \in Nat /\ Len(t) \in Nat
      /\ \A x \in 1..Len(o) : o2[x] = o[x]
      /\ \A x \in 1..Len(t) : o2[Len(o) + x] = t[x]
  BY Concatenates
<1>2. /\ \A x \in 1..Len(o) : o[x].last \in Nat
      /\ \A x \in 1..Len(t) : t[x].first \in Nat
  <2>1. \A x \in 1..Len(o) : o[x] \in Found
    OBVIOUS
  <2>2. \A x \in 1..Len(t) : t[x] \in Found
    OBVIOUS
  <2> QED
    BY <2>1, <2>2 DEF Found
<1> HIDE DEF o2
<1>3. \A i \in 1..Len(o2) :
        i \in 1..Len(o) \/ \E x \in 1..Len(t) : x = i - Len(o) /\ i = Len(o) + x /\ o2[i] = t[x]
  <2> SUFFICES ASSUME NEW i \in 1..Len(o2), i \notin 1..Len(o)
               PROVE  \E x \in 1..Len(t) : x = i - Len(o) /\ i = Len(o) + x /\ o2[i] = t[x]
    OBVIOUS
  <2> DEFINE x == i - Len(o)
  <2>1. x \in 1..Len(t) /\ i = Len(o) + x
    BY <1>1
  <2> HIDE DEF x
  <2>2. o2[i] = t[x]
    BY <2>1, <1>1
  <2> QED
    BY <2>1, <2>2 DEF x
<1>4. ASSUME NEW i \in 1..Len(o2) PROVE o2[i].first <= o2[i].last
  <2>1. CASE i \in 1..Len(o)
    BY <2>1, <1>1 DEF Ordered
  <2>2. CASE i \notin 1..Len(o)
    <3>1. PICK x \in 1..Len(t) : o2[i] = t[x]
      BY <2>2, <1>3
    <3> QED
      BY <3>1 DEF Ordered
  <2> QED
    BY <2>1, <2>2
<1>5. ASSUME NEW i \in 2..Len(o2) PROVE o2[i - 1].last < o2[i].first
  <2>1. i \in 1..Len(o2) /\ i \in Nat /\ i # 1
    BY <1>1
  <2>2. CASE i \in 1..Len(o)
    <3>1. i \in 2..Len(o) /\ i - 1 \in 1..Len(o)
      BY <2>1, <2>2, <1>1
    <3>2. o2[i - 1] = o[i - 1] /\ o2[i] = o[i]
      BY <2>2, <3>1, <1>1
    <3>3. o[i - 1].last < o[i].first
      BY <3>1 DEF Ordered
    <3> QED
      BY <3>2, <3>3
  <2>3. CASE i \notin 1..Len(o)
    <3>1. PICK x \in 1..Len(t) : i = Len(o) + x /\ o2[i] = t[x]
      BY <2>1, <2>3, <1>3
    <3>2. x \in Nat /\ x >= 1 /\ x <= Len(t)
      BY <1>1
    <3>3. CASE x = 1
      <4>1. i - 1 = Len(o)
        BY <3>1, <3>3, <1>1
      <4>2. Len(o) # 0 /\ Len(o) \in 1..Len(o)
        BY <4>1, <2>1, <1>1
      <4>3. o2[i - 1] = o[Len(o)]
        BY <4>1, <4>2, <1>1
      <4> DEFINE l == o[Len(o)].last
                 f == t[x].first
      <4>4. l \in Nat /\ l <= k /\ f > k /\ f \in Nat
        BY <4>2, <1>2
      <4> HIDE DEF l, f
      <4>5. l < f
        BY <4>4
      <4> QED
        BY <3>1, <4>3, <4>5 DEF l, f
    <3>4. CASE x # 1
      <4> DEFINE y == x - 1
      <4>1. x \in 2..Len(t) /\ y \in 1..Len(t) /\ Len(o) + y = i - 1
        BY <3>1, <3>2, <3>4, <1>1
      <4>2. t[y].last < t[x].first
        BY <4>1 DEF Ordered
      <4> HIDE DEF y
      <4>3. o2[i - 1] = t[y]
        BY <4>1, <1>1
      <4> QED
        BY <3>1, <4>2, <4>3
    <3> QED
      BY <3>3, <3>4
  <2> QED
    BY <2>2, <2>3
<1>6. DOMAIN o2 = 1..Len(o2)
  BY <1>1
<1> QED
  BY <1>4, <1>5, <1>6 DEF Ordered, o2

LEMMA FeedOrders ==
  ASSUME NEW stream \in Streams, NEW h \in Seq(Bytes(stream)), NEW b \in Seq(Bytes(stream)),
         NEW p \in Seq(Bytes(stream)), EndsIn(b, h),
         NEW o \in Seq(Found), Ordered(o), Behind(h, b, o)
  PROVE  LET o2 == o \o Placed(ParseStream(DataOf(b, p)), BaseOf(h, b, p))
         IN  o2 \in Seq(Found) /\ Ordered(o2) /\ Behind(h \o p, KeptOf(b, p), o2)
<1> DEFINE h2 == h \o p
           d == DataOf(b, p)
           base == BaseOf(h, b, p)
           ms == ParseStream(d)
           pl == Placed(ms, base)
           o2 == o \o pl
           c == ConsumedPrefix(d, ms)
           b2 == KeptOf(b, p)
<1>1. /\ h2 \in Seq(Bytes(stream)) /\ d \in Seq(Bytes(stream)) /\ EndsIn(d, h2)
      /\ Len(h2) \in Nat /\ Len(d) \in Nat /\ Len(h2) = Len(h) + Len(p)
      /\ Len(h) \in Nat /\ Len(p) \in Nat /\ Len(b) \in Nat
      /\ Len(d) \in {Len(b) + Len(p), MaxBuffer} /\ Len(d) <= MaxBuffer
  BY DataIs
<1>2. base = Len(h2) - Len(d) /\ base \in Nat /\ Len(h) - Len(b) <= base
      /\ Len(h) - Len(b) \in Nat
  <2>1. base = Len(h2) - Len(d)
    BY <1>1 DEF BaseOf
  <2>2. Len(d) <= Len(b) + Len(p)
    <3>1. b \o p \in Seq(Bytes(stream)) /\ Len(b \o p) = Len(b) + Len(p)
      BY Concatenates
    <3>2. d = IF Len(b \o p) > MaxBuffer THEN Drop(b \o p, Len(b \o p) - MaxBuffer) ELSE b \o p
      BY DEF DataOf
    <3>3. Len(b \o p) > MaxBuffer \/ d = b \o p
      BY <3>2
    <3> HIDE DEF d
    <3> QED
      BY <3>1, <3>3, <1>1, SikAssumption
  <2>3. Len(d) <= Len(h2) /\ Len(b) <= Len(h)
    BY <1>1 DEF EndsIn
  <2> HIDE DEF h2, d, base
  <2> QED
    BY <2>1, <2>2, <2>3, <1>1
<1>3. /\ pl \in Seq(Found) /\ Len(pl) = Len(ms) /\ Len(ms) \in Nat
      /\ \A x \in 1..Len(ms) : /\ pl[x].first = ms[x].first + base
                               /\ pl[x].last = ms[x].last + base
                               /\ ms[x].first \in 1..Len(d) /\ ms[x].last \in 1..Len(d)
                               /\ ms[x].first < ms[x].last
  <2>1. d \in Seq(Bytes(stream)) /\ base \in Nat
    BY <1>1, <1>2
  <2> HIDE DEF d, base
  <2>2. pl \in Seq(Found) /\ Len(pl) = Len(ms) /\ Len(ms) \in Nat
    BY <2>1, PlacedIs
  <2>5. \A x \in 1..Len(ms) : pl[x].last = ms[x].last + base
    BY <2>1, PlacedIs
  <2>3. \A x \in 1..Len(ms) : pl[x].first = ms[x].first + base
    BY <2>1, PlacedIs
  <2>4. \A x \in 1..Len(ms) : /\ ms[x].first \in 1..Len(d) /\ ms[x].last \in 1..Len(d)
                               /\ ms[x].first < ms[x].last
    BY <2>1, PlacedIs
  <2> QED
    BY <2>2, <2>3, <2>4, <2>5
<1>4. \A x \in 2..Len(ms) : ms[x - 1].last < ms[x].first
  BY <1>1, ParseFinds DEF Finds
<1>5. c \in 0..Len(d) /\ (Len(ms) # 0 => c = ms[Len(ms)].last)
  <2>1. c \in 0..Len(d) /\ (ms # <<>> => c = ms[Len(ms)].last)
    <3> HIDE DEF d
    <3> QED
      BY <1>1, ConsumedIs
  <2>2. Len(ms) # 0 => ms # <<>>
    OBVIOUS
  <2> QED
    BY <2>1, <2>2
<1>6. Len(h2) - Len(b2) = base + c
  <2>1. b2 = Drop(d, c)
    BY DEF KeptOf
  <2> HIDE DEF d, c, h2, b2, base
  <2>2. Len(b2) = Len(d) - c
    BY <2>1, <1>1, <1>5, DropIs
  <2> QED
    BY <2>2, <1>1, <1>2, <1>5
<1> HIDE DEF h2, d, base, ms, pl, o2, c, b2
<1>7. \A x \in 1..Len(pl) : pl[x].first > base /\ pl[x].first <= pl[x].last
  <2> SUFFICES ASSUME NEW x \in 1..Len(pl) PROVE pl[x].first > base /\ pl[x].first <= pl[x].last
    OBVIOUS
  <2> DEFINE f == ms[x].first
             l == ms[x].last
  <2>1. f \in 1..Len(d) /\ l \in 1..Len(d) /\ f < l /\ pl[x].first = f + base /\ pl[x].last = l + base
    BY <1>3
  <2>3. f \in Nat /\ f > 0 /\ l \in Nat /\ base \in Nat
    <3>1. Len(d) \in Nat /\ base \in Nat
      BY <1>1, <1>2
    <3> HIDE DEF f, l
    <3> QED
      BY <2>1, <3>1
  <2> HIDE DEF f, l
  <2>2. f + base > base /\ f + base <= l + base
    BY <2>1, <2>3
  <2> QED
    BY <2>1, <2>2
<1>8. Ordered(pl)
  <2>1. ASSUME NEW x \in 2..Len(pl) PROVE pl[x - 1].last < pl[x].first
    <3> DEFINE y == x - 1
    <3>1. x \in 1..Len(ms) /\ y \in 1..Len(ms) /\ x \in 2..Len(ms)
      BY <1>3
    <3>2. ms[y].last < ms[x].first
      BY <3>1, <1>4
    <3> HIDE DEF y
    <3> DEFINE l == ms[y].last
               f == ms[x].first
    <3>3. l \in 1..Len(d) /\ f \in 1..Len(d) /\ l < f /\ pl[y].last = l + base /\ pl[x].first = f + base
      BY <3>1, <3>2, <1>3
    <3>5. l \in Nat /\ f \in Nat /\ base \in Nat
      <4>1. Len(d) \in Nat /\ base \in Nat
        BY <1>1, <1>2
      <4> HIDE DEF f, l
      <4> QED
        BY <3>3, <4>1
    <3> HIDE DEF l, f
    <3>4. l + base < f + base
      BY <3>3, <3>5
    <3> QED
      BY <3>3, <3>4 DEF y
  <2>2. DOMAIN pl = 1..Len(pl)
    BY <1>3
  <2> QED
    BY <2>1, <2>2, <1>7 DEF Ordered
<1>9. Ordered(o2)
  <2> DEFINE k == Len(h) - Len(b)
  <2>1. Len(o) # 0 => o[Len(o)].last <= k
    BY DEF Behind
  <2>2. \A x \in 1..Len(pl) : pl[x].first > k
    <3> SUFFICES ASSUME NEW x \in 1..Len(pl) PROVE pl[x].first > k
      OBVIOUS
    <3> DEFINE f == pl[x].first
    <3>1. f > base /\ f \in Nat
      <4>1. pl[x] \in Found
        BY <1>3
      <4> QED
        BY <4>1, <1>7 DEF Found
    <3> HIDE DEF f, k
    <3>2. f > k
      BY <3>1, <1>2 DEF k
    <3> QED
      BY <3>2 DEF f
  <2>3. k \in Nat
    BY <1>2
  <2> HIDE DEF k
  <2> QED
    BY <2>1, <2>2, <2>3, <1>3, <1>8, OrderedJoin DEF o2
<1>10. /\ Len(o2) = Len(o) + Len(pl) /\ Len(o) \in Nat /\ o2 \in Seq(Found)
       /\ \A x \in 1..Len(o) : o2[x] = o[x]
       /\ \A x \in 1..Len(pl) : o2[Len(o) + x] = pl[x]
  <2>1. o \in Seq(Found) /\ pl \in Seq(Found)
    BY <1>3
  <2> QED
    BY <2>1, Concatenates DEF o2
<1>11. ASSUME Len(o2) # 0 PROVE o2[Len(o2)].last <= base + c
  <2>1. CASE Len(ms) = 0
    <3>1. Len(o2) = Len(o) /\ Len(o) \in 1..Len(o) /\ Len(o) # 0
      BY <2>1, <1>3, <1>10, <1>11
    <3> DEFINE l == o[Len(o)].last
    <3>2. o2[Len(o2)] = o[Len(o)] /\ l <= Len(h) - Len(b)
      BY <3>1, <1>10 DEF Behind
    <3>3. l \in Nat
      <4>1. o[Len(o)] \in Found
        BY <3>1
      <4> QED
        BY <4>1 DEF Found
    <3> HIDE DEF l
    <3>4. l <= base + c
      BY <3>2, <3>3, <1>1, <1>2, <1>5
    <3> QED
      BY <3>2, <3>4 DEF l
  <2>2. CASE Len(ms) # 0
    <3>1. Len(ms) \in 1..Len(pl) /\ Len(o2) = Len(o) + Len(ms) /\ Len(ms) \in 1..Len(ms)
      BY <2>2, <1>3, <1>10
    <3>2. o2[Len(o2)] = pl[Len(ms)]
      BY <3>1, <1>10
    <3>3. pl[Len(ms)].last = c + base
      BY <2>2, <3>1, <1>3, <1>5
    <3>4. c + base <= base + c
      <4>1. c \in Nat /\ base \in Nat
        BY <1>1, <1>2, <1>5
      <4> QED
        BY <4>1
    <3> QED
      BY <3>2, <3>3, <3>4
  <2> QED
    BY <2>1, <2>2
<1>12. Behind(h2, b2, o2)
  BY <1>6, <1>11 DEF Behind
<1> QED
  BY <1>9, <1>10, <1>12 DEF o2, pl, ms, d, base, h2, b2

-----------------------------------------------------------------------------
(* The bytes of a stream.                                                  *)

LEMMA BytesOfType ==
  ASSUME NEW stream \in Streams
  PROVE  BytesOf(stream) \in Seq(Bytes(stream))
<1> DEFINE Of(m) == [k \in DOMAIN Values(stream[m]) |->
                       [v |-> Values(stream[m])[k], m |-> m, k |-> k, n |-> Len(Values(stream[m])),
                        known |-> stream[m].known]]
           ss == [m \in DOMAIN stream |-> Of(m)]
<1>1. stream \in Seq(Messages) /\ \A m \in DOMAIN stream : Len(stream[m].body) <= 255
  BY SikAssumption
<1>2. DOMAIN stream = 1..Len(stream) /\ Len(stream) \in Nat
  BY <1>1
<1>3. ASSUME NEW m \in DOMAIN stream PROVE Of(m) \in Seq(Bytes(stream))
  <2> DEFINE vs == Values(stream[m])
             n == Len(vs)
             known == stream[m].known
  <2>1. stream[m] \in Messages /\ m \in Nat
    BY <1>1, <1>2
  <2>2. vs \in Seq(Nat) /\ known \in BOOLEAN
    <3>1. known \in BOOLEAN
      BY <2>1 DEF Messages
    <3> QED
      BY <3>1, <2>1, <1>1, ValuesShape
  <2> HIDE DEF vs, known
  <2>3. n \in Nat /\ DOMAIN vs = 1..n /\ \A k \in 1..n : vs[k] \in Nat
    BY <2>2
  <2> HIDE DEF n
  <2>4. \A k \in 1..n : [v |-> vs[k], m |-> m, k |-> k, n |-> n, known |-> known] \in Bytes(stream)
    <3> SUFFICES ASSUME NEW k \in 1..n
                 PROVE  [v |-> vs[k], m |-> m, k |-> k, n |-> n, known |-> known] \in Bytes(stream)
      OBVIOUS
    <3> DEFINE x == [v |-> vs[k], m |-> m, k |-> k, n |-> n, known |-> known]
    <3>1. k \in Nat /\ vs[k] \in Nat
      BY <2>3
    <3>2. x \in [v : Nat, m : Nat, k : Nat, n : Nat, known : BOOLEAN]
      BY <3>1, <2>1, <2>2, <2>3
    <3>3. x.v = vs[k] /\ x.m = m /\ x.k = k /\ x.n = n
      OBVIOUS
    <3>4. x.known = known
      OBVIOUS
    <3> HIDE DEF x
    <3>5. x.m \in DOMAIN stream /\ x.k \in 1..Len(Values(stream[x.m]))
      BY <3>3 DEF vs, n
    <3>6. x.v = Values(stream[x.m])[x.k] /\ x.n = Len(Values(stream[x.m]))
      BY <3>3 DEF vs, n
    <3>7. x.known = stream[x.m].known
      BY <3>3, <3>4 DEF known
    <3> QED
      BY <3>2, <3>5, <3>6, <3>7 DEF Bytes, x
  <2>5. Of(m) = [k \in 1..n |-> [v |-> vs[k], m |-> m, k |-> k, n |-> n, known |-> known]]
    BY <2>3 DEF vs, n, known
  <2>6. Of(m) \in [1..n -> Bytes(stream)]
    <3> DEFINE x(k) == [v |-> vs[k], m |-> m, k |-> k, n |-> n, known |-> known]
    <3>1. \A k \in 1..n : x(k) \in Bytes(stream)
      BY <2>4
    <3>2. Of(m) = [k \in 1..n |-> x(k)]
      BY <2>5
    <3> HIDE DEF x, Of
    <3> QED
      BY <3>1, <3>2
  <2> HIDE DEF Of
  <2> QED
    BY <2>3, <2>6
<1>4. ss \in Seq(Seq(Bytes(stream)))
  <2>1. ss \in [1..Len(stream) -> Seq(Bytes(stream))]
    <3> HIDE DEF Of
    <3> QED
      BY <1>2, <1>3
  <2> HIDE DEF ss
  <2> QED
    BY <2>1, <1>2
<1>5. BytesOf(stream) = FlattenSeq(ss)
  BY DEF BytesOf
<1> HIDE DEF ss
<1> QED
  BY <1>4, <1>5, FlattenSeqType

-----------------------------------------------------------------------------
(* The invariant of the link: the bytes are those of one stream, nothing   *)
(* of a message still incomplete was dropped, and what was whole and plain *)
(* is reported.                                                            *)

BurstsOf(s) ==
  [ch : Channels, off : Int, netid : {Mavlink, Other}, frame : BOOLEAN, payload : Seq(Bytes(s))]

LinkBytes(s) ==
  /\ unsent \in Seq(Bytes(s)) /\ heard \in Seq(Bytes(s)) /\ buf \in Seq(Bytes(s))
  /\ bursts \in Seq(BurstsOf(s))
  /\ out \in Seq(Found)

BurstsFit ==
  \A i \in DOMAIN bursts :
    Fits(bursts[i].payload) /\ (bursts[i].netid = Other => bursts[i].payload = <<>>)

Reassembly ==
  /\ EndsIn(buf, heard) /\ NotLost(heard, buf)
  /\ ReportedIn(heard, out) /\ Ordered(out) /\ Behind(heard, buf, out)

LinkEvidence ==
  /\ netid # "none" => phase # "listen" /\ Confirmed(netid)
  /\ phase = "feed" => netid # "none"
  /\ netid = Other => Len(heard) = 0
  /\ level = 4 => phase = "report" /\ netid = Mavlink /\ \E i \in DOMAIN out : out[i].ok

LinkInv ==
  /\ LinkTypeOK
  /\ \E s \in Streams : LinkBytes(s)
  /\ BurstsFit /\ Reassembly /\ LinkEvidence

LEMMA NothingFed ==
  ASSUME NEW S
  PROVE  /\ <<>> \in Seq(S) /\ <<>> \in Seq(Found) /\ EndsIn(<<>>, <<>>) /\ NotLost(<<>>, <<>>)
         /\ ReportedIn(<<>>, <<>>) /\ Ordered(<<>>) /\ Behind(<<>>, <<>>, <<>>)
<1>1. <<>> \in Seq(S) /\ <<>> \in Seq(Found) /\ Len(<<>>) = 0 /\ DOMAIN <<>> = {}
  OBVIOUS
<1>2. 1..0 = {} /\ 2..0 = {}
  OBVIOUS
<1> QED
  BY <1>1, <1>2 DEF EndsIn, NotLost, ReportedIn, Ordered, Behind

LEMMA Names == "none" # Other /\ "none" # Mavlink /\ Mavlink # Other /\ "listen" # "feed"
BY DEF Other, Mavlink

LEMMA InitLink == LinkInit => LinkInv
<1> SUFFICES ASSUME LinkInit PROVE LinkInv
  OBVIOUS
<1>1. PICK s \in Streams : unsent = BytesOf(s)
  BY DEF LinkInit
<1>2. /\ hop = 0 /\ enabled \in BOOLEAN /\ windows = 0
      /\ phase = "listen" /\ bursts = <<>> /\ netid = "none" /\ level = 0
      /\ fed = 0 /\ heard = <<>> /\ buf = <<>> /\ out = <<>>
  BY DEF LinkInit
<1>3. LinkTypeOK
  BY <1>2, SikAssumption DEF LinkTypeOK, Channels
<1>4. LinkBytes(s)
  <2>1. unsent \in Seq(Bytes(s))
    BY <1>1, BytesOfType
  <2>2. bursts \in Seq(BurstsOf(s))
    BY <1>2
  <2> QED
    BY <1>2, <2>1, <2>2, NothingFed DEF LinkBytes
<1>5. BurstsFit
  BY <1>2 DEF BurstsFit
<1>6. Reassembly
  BY <1>2, NothingFed DEF Reassembly
<1>7. LinkEvidence
  BY <1>2 DEF LinkEvidence, Other, Mavlink
<1> QED
  BY <1>3, <1>4, <1>5, <1>6, <1>7 DEF LinkInv

LEMMA ClearedFed ==
  ASSUME heard' = <<>>, buf' = <<>>, out' = <<>>
  PROVE  Reassembly'
BY NothingFed DEF Reassembly

LEMMA KeptFed ==
  ASSUME LinkInv, UNCHANGED <<heard, buf, out>>
  PROVE  Reassembly'
BY DEF LinkInv, Reassembly

LEMMA ThreeChannels == IsFiniteSet(Channels) /\ Cardinality(Channels) = 3
<1> DEFINE hi == 2
<1>1. hi \in Int /\ hi = 2 /\ 0 \in Int /\ ~(0 > hi) /\ hi - 0 + 1 = 3
  OBVIOUS
<1> HIDE DEF hi
<1>2. IsFiniteSet(0..hi) /\ Cardinality(0..hi) = IF 0 > hi THEN 0 ELSE hi - 0 + 1
  BY <1>1, FS_Interval
<1> QED
  BY <1>1, <1>2, Zenon DEF hi, Channels

LEMMA NextChannel ==
  ASSUME hop \in Channels
  PROVE  (hop + 1) % Cardinality(Channels) \in Channels
<1>1. hop \in Nat /\ Cardinality(Channels) = 3
  BY ThreeChannels DEF Channels
<1>2. (hop + 1) % 3 \in 0..2
  BY <1>1
<1> QED
  BY <1>1, <1>2 DEF Channels

(* One more burst.                                                         *)
LEMMA MoreBursts ==
  ASSUME LinkInv, phase = "listen", Len(bursts) < MaxBursts, NEW s \in Streams, LinkBytes(s),
         unsent' \in Seq(Bytes(s)), hop' \in Channels,
         UNCHANGED <<enabled, windows, phase, netid, level, fed, heard, buf, out>>,
         \/ UNCHANGED bursts
         \/ \E ch \in Channels, off \in Int, id \in {Mavlink, Other}, frame \in BOOLEAN,
               payload \in Seq(Bytes(s)) :
              /\ Burst(ch, off, id, frame, payload)
              /\ Fits(payload) /\ (id = Other => payload = <<>>)
  PROVE  LinkInv'
<1>1. /\ bursts' \in Seq(BurstsOf(s)) /\ Len(bursts') \in Nat /\ Len(bursts') <= MaxBursts
      /\ BurstsFit'
  <2>1. MaxBursts \in Nat /\ bursts \in Seq(BurstsOf(s)) /\ Len(bursts) \in Nat
    BY SikAssumption DEF LinkBytes
  <2>2. CASE UNCHANGED bursts
    <3>1. BurstsFit'
      BY <2>2 DEF LinkInv, BurstsFit
    <3> QED
      BY <2>1, <2>2, <3>1
  <2>3. CASE ~ UNCHANGED bursts
    <3>1. PICK ch \in Channels, off \in Int, id \in {Mavlink, Other}, frame \in BOOLEAN,
               payload \in Seq(Bytes(s)) :
              /\ Burst(ch, off, id, frame, payload)
              /\ Fits(payload) /\ (id = Other => payload = <<>>)
      BY <2>3
    <3> DEFINE b == [ch |-> ch, off |-> off, netid |-> id, frame |-> frame, payload |-> payload]
    <3>2. b \in BurstsOf(s) /\ bursts' = Append(bursts, b)
      BY <3>1 DEF BurstsOf, Burst
    <3>3. b.payload = payload /\ b.netid = id
      OBVIOUS
    <3> HIDE DEF b
    <3>4. /\ bursts' \in Seq(BurstsOf(s)) /\ Len(bursts') = Len(bursts) + 1
          /\ \A i \in 1..Len(bursts) : bursts'[i] = bursts[i]
          /\ bursts'[Len(bursts) + 1] = b
      BY <2>1, <3>2
    <3>5. Len(bursts') \in Nat /\ Len(bursts') <= MaxBursts
      BY <2>1, <3>4
    <3>6. ASSUME NEW i \in DOMAIN bursts'
          PROVE  Fits(bursts'[i].payload) /\ (bursts'[i].netid = Other => bursts'[i].payload = <<>>)
      <4>1. i \in 1..Len(bursts) \/ i = Len(bursts) + 1
        BY <2>1, <3>4
      <4>2. CASE i \in 1..Len(bursts)
        BY <4>2, <2>1, <3>4 DEF LinkInv, BurstsFit
      <4>3. CASE i = Len(bursts) + 1
        BY <4>3, <3>1, <3>3, <3>4
      <4> QED
        BY <4>1, <4>2, <4>3
    <3>7. BurstsFit'
      BY <3>6 DEF BurstsFit
    <3> QED
      BY <3>4, <3>5, <3>7
  <2> QED
    BY <2>2, <2>3
<1>2. LinkTypeOK'
  BY <1>1 DEF LinkInv, LinkTypeOK
<1>3. LinkBytes(s)'
  BY <1>1 DEF LinkBytes
<1>4. Reassembly'
  BY KeptFed
<1>5. LinkEvidence'
  <2>1. netid = "none" /\ netid' = "none" /\ level # 4 /\ level' # 4 /\ phase' = "listen"
    BY DEF LinkInv, LinkEvidence
  <2> QED
    BY <2>1, Names, Zenon DEF LinkEvidence
<1> QED
  BY <1>1, <1>2, <1>3, <1>4, <1>5 DEF LinkInv

LEMMA SendsStep == LinkInv /\ (LinkSends \/ OtherSends) => LinkInv'
<1> SUFFICES ASSUME LinkInv, LinkSends \/ OtherSends PROVE LinkInv'
  OBVIOUS
<1>1. PICK s \in Streams : LinkBytes(s)
  BY DEF LinkInv
<1>2. hop \in Channels
  BY DEF LinkInv, LinkTypeOK
<1>3. CASE LinkSends
  <2>1. PICK n \in Packets :
          LET k == Min({n, Len(unsent)})
          IN  /\ unsent' = Drop(unsent, k)
              /\ \/ \E off \in Jitter, frame \in BOOLEAN :
                      Burst(hop, off, Mavlink, frame, SubSeq(unsent, 1, k))
                 \/ UNCHANGED bursts
    BY <1>3 DEF LinkSends
  <2> DEFINE k == Min({n, Len(unsent)})
             p == SubSeq(unsent, 1, k)
  <2>2. unsent \in Seq(Bytes(s)) /\ Len(unsent) \in Nat /\ n \in Nat
    BY <1>1, SikAssumption DEF LinkBytes
  <2>3. k \in 0..Len(unsent) /\ k <= n
    <3> DEFINE two == {n, Len(unsent)}
    <3>1. two \subseteq Nat /\ two # {} /\ n \in two /\ Len(unsent) \in two
      BY <2>2
    <3> HIDE DEF two
    <3>2. Min(two) \in two /\ Min(two) <= n /\ Min(two) <= Len(unsent)
      BY <3>1, MinIsMember
    <3>3. Min(two) \in Nat
      BY <3>1, <3>2
    <3>4. k = Min(two)
      BY DEF two
    <3> HIDE DEF k
    <3> QED
      BY <3>2, <3>3, <3>4, <2>2
  <2>4. unsent' = Drop(unsent, k)
    BY <2>1
  <2>5. (\E off \in Jitter, frame \in BOOLEAN : Burst(hop, off, Mavlink, frame, p)) \/ UNCHANGED bursts
    BY <2>1
  <2> HIDE DEF k
  <2>6. unsent' \in Seq(Bytes(s))
    BY <2>2, <2>3, <2>4, DropIs
  <2>7. p \in Seq(Bytes(s)) /\ Len(p) = k
    BY <2>2, <2>3
  <2> HIDE DEF p
  <2>8. Fits(p)
    BY <2>3, <2>7 DEF Fits
  <2>9. \/ UNCHANGED bursts
        \/ \E ch \in Channels, off \in Int, id \in {Mavlink, Other}, frame \in BOOLEAN,
              payload \in Seq(Bytes(s)) :
             /\ Burst(ch, off, id, frame, payload)
             /\ Fits(payload) /\ (id = Other => payload = <<>>)
    <3> SUFFICES ASSUME NEW off \in Jitter, NEW frame \in BOOLEAN, Burst(hop, off, Mavlink, frame, p)
                 PROVE  \E ch \in Channels, offs \in Int, id \in {Mavlink, Other}, fr \in BOOLEAN,
                           payload \in Seq(Bytes(s)) :
                          /\ Burst(ch, offs, id, fr, payload)
                          /\ Fits(payload) /\ (id = Other => payload = <<>>)
      BY <2>5
    <3>1. off \in Int /\ Mavlink \in {Mavlink, Other} /\ Mavlink # Other
      BY SikAssumption, Names
    <3> QED
      BY <3>1, <1>2, <2>7, <2>8, Zenon
  <2>10. hop' \in Channels
    BY <1>2, <1>3, NextChannel DEF LinkSends
  <2>11. /\ phase = "listen" /\ Len(bursts) < MaxBursts
         /\ UNCHANGED <<enabled, windows, phase, netid, level, fed, heard, buf, out>>
    BY <1>3 DEF LinkSends
  <2> QED
    BY <1>1, <2>6, <2>9, <2>10, <2>11, MoreBursts
<1>4. CASE OtherSends
  <2>1. /\ phase = "listen" /\ Len(bursts) < MaxBursts /\ Burst(2, 0, Other, TRUE, <<>>)
        /\ UNCHANGED <<unsent, hop, enabled, windows, phase, netid, level, fed, heard, buf, out>>
    BY <1>4 DEF OtherSends
  <2>2. unsent' \in Seq(Bytes(s)) /\ hop' \in Channels
    BY <1>1, <1>2, <2>1 DEF LinkBytes
  <2>3. Fits(<<>>)
    <3>1. PICK n : n \in Packets
      BY SikAssumption
    <3>2. Len(<<>>) <= n
      BY <3>1, SikAssumption
    <3> QED
      BY <3>1, <3>2 DEF Fits
  <2>4. \E ch \in Channels, off \in Int, id \in {Mavlink, Other}, frame \in BOOLEAN,
           payload \in Seq(Bytes(s)) :
          /\ Burst(ch, off, id, frame, payload)
          /\ Fits(payload) /\ (id = Other => payload = <<>>)
    <3>1. 2 \in Channels /\ 0 \in Int /\ TRUE \in BOOLEAN /\ <<>> \in Seq(Bytes(s)) /\ Other \in {Mavlink, Other}
      BY DEF Channels
    <3> QED
      BY <3>1, <2>1, <2>3, Zenon
  <2> QED
    BY <1>1, <2>1, <2>2, <2>4, MoreBursts
<1> QED
  BY <1>3, <1>4

LEMMA ConfirmedIs ==
  ASSUME NEW S, bursts \in Seq(S)
  PROVE  /\ ConfirmedNetid \in {"none", Mavlink, Other}
         /\ ConfirmedNetid # "none" => Confirmed(ConfirmedNetid)
<1> DEFINE ids == {id \in {Mavlink, Other} : Confirmed(id)}
           First(id) == \A other \in ids : FirstFrame(id) <= FirstFrame(other)
<1>1. ConfirmedNetid = IF ids = {} THEN "none" ELSE CHOOSE id \in ids : First(id)
  BY DEF ConfirmedNetid
<1>2. CASE ids = {}
  BY <1>1, <1>2
<1>3. CASE ids # {}
  <2>1. \E id \in ids : First(id)
    <3>1. ids \subseteq {Mavlink, Other}
      OBVIOUS
    <3>2. \A id \in ids : FirstFrame(id) \in Int
      <4> SUFFICES ASSUME NEW id \in ids PROVE FirstFrame(id) \in Int
        OBVIOUS
      <4>1. FramesOf(id) \subseteq Nat
        BY DEF FramesOf
      <4>2. FramesOf(id) # {}
        <5>1. Cardinality(FramesOf(id)) >= MinFrames /\ MinFrames \in Nat \ {0}
          BY SikAssumption DEF Confirmed
        <5>2. Cardinality({}) = 0
          BY FS_EmptySet
        <5>3. ~(0 >= MinFrames)
          BY <5>1
        <5> QED
          BY <5>1, <5>2, <5>3, Zenon
      <4> QED
        BY <4>1, <4>2, MinIsMember DEF FirstFrame
    <3> HIDE DEF ids
    <3> QED
      BY <1>3, <3>1, <3>2
  <2>2. ConfirmedNetid \in ids
    BY <1>1, <1>3, <2>1
  <2> QED
    BY <2>2
<1> QED
  BY <1>2, <1>3

LEMMA DwellStep == LinkInv /\ EndOfDwell => LinkInv'
<1> SUFFICES ASSUME LinkInv, EndOfDwell PROVE LinkInv'
  OBVIOUS
<1>1. PICK s \in Streams : LinkBytes(s)
  BY DEF LinkInv
<1>2. /\ phase = "listen" /\ windows < MaxWindows /\ windows' = windows + 1
      /\ netid' = ConfirmedNetid
      /\ phase' = IF enabled /\ ConfirmedNetid # "none" THEN "feed" ELSE "report"
      /\ fed' = 0 /\ heard' = <<>> /\ buf' = <<>> /\ out' = <<>>
      /\ UNCHANGED <<unsent, hop, enabled, bursts>>
  BY DEF EndOfDwell
<1>3. level' \in 0..3
  <2>1. PICK consistent \in RasterOutcomes(bursts) :
          level' = Level(consistent /\ Len(bursts) >= MinBursts, ConfirmedNetid, <<>>)
    BY DEF EndOfDwell
  <2> DEFINE hopper == consistent /\ Len(bursts) >= MinBursts
  <2>2. ~ \E i \in DOMAIN <<>> : <<>>[i].ok
    OBVIOUS
  <2> HIDE DEF hopper
  <2>3. Level(hopper, ConfirmedNetid, <<>>) \in {0, 1, 2, 3}
    BY <2>2 DEF Level
  <2> QED
    BY <2>1, <2>3 DEF hopper
<1>4. ConfirmedNetid \in {"none", Mavlink, Other} /\ (ConfirmedNetid # "none" => Confirmed(ConfirmedNetid))
  BY <1>1, ConfirmedIs DEF LinkBytes
<1>5. LinkTypeOK'
  <2>1. /\ enabled \in BOOLEAN /\ windows \in 0..MaxWindows /\ hop \in Channels
        /\ Len(bursts) <= MaxBursts
    BY DEF LinkInv, LinkTypeOK
  <2>2. MaxWindows \in Nat /\ MaxBursts \in Nat /\ MaxBuffer \in Nat
    BY SikAssumption
  <2>3. windows' \in 0..MaxWindows
    BY <1>2, <2>1, <2>2
  <2>4. phase' \in {"feed", "report"}
    BY <1>2
  <2>5. level' \in 0..4 /\ fed' \in 0..MaxBursts /\ Len(buf') <= MaxBuffer
    BY <1>2, <1>3, <2>2
  <2>6. netid' \in {"none", Mavlink, Other}
    BY <1>2, <1>4
  <2> QED
    BY <1>2, <2>1, <2>3, <2>4, <2>5, <2>6 DEF LinkTypeOK
<1>6. LinkBytes(s)'
  BY <1>1, <1>2, NothingFed DEF LinkBytes
<1>7. BurstsFit'
  BY <1>2 DEF LinkInv, BurstsFit
<1>8. Reassembly'
  BY <1>2, ClearedFed
<1>9. LinkEvidence'
  <2>1. phase' # "listen" /\ (phase' = "feed" => netid' # "none")
    BY <1>2
  <2>2. (netid # "none" => Confirmed(netid))'
    <3>1. bursts' = bursts /\ netid' = ConfirmedNetid
      BY <1>2
    <3> QED
      BY <3>1, <1>4 DEF Confirmed, FramesOf, SeenChannels, Centre
  <2>3. level' # 4 /\ Len(heard') = 0
    BY <1>2, <1>3
  <2> QED
    BY <2>1, <2>2, <2>3 DEF LinkEvidence
<1> QED
  BY <1>5, <1>6, <1>7, <1>8, <1>9 DEF LinkInv

LEMMA FeedStep == LinkInv /\ Feed => LinkInv'
<1> SUFFICES ASSUME LinkInv, Feed PROVE LinkInv'
  OBVIOUS
<1>1. PICK s \in Streams : LinkBytes(s)
  BY DEF LinkInv
<1> DEFINE u == Min(Unfed)
           p == bursts[u].payload
           d == DataOf(buf, p)
<1>2. /\ bursts \in Seq(BurstsOf(s)) /\ buf \in Seq(Bytes(s)) /\ heard \in Seq(Bytes(s))
      /\ out \in Seq(Found)
  BY <1>1 DEF LinkBytes
<1>3. phase = "feed" /\ Unfed # {} /\ netid # "none"
  <2>1. phase = "feed" /\ Unfed # {}
    BY Zenon DEF Feed
  <2> QED
    BY <2>1 DEF LinkInv, LinkEvidence
<1>4. u \in 1..Len(bursts) /\ bursts[u].netid = netid
  <2>1. Unfed \subseteq Nat
    BY <1>2 DEF Unfed, FramesOf
  <2>2. u \in Unfed
    BY <1>3, <2>1, MinIsMember
  <2> HIDE DEF u
  <2> QED
    BY <2>2, <1>2 DEF Unfed, FramesOf
<1>5. p \in Seq(Bytes(s)) /\ Fits(p) /\ (netid = Other => p = <<>>)
  <2>1. bursts[u] \in BurstsOf(s)
    BY <1>2, <1>4
  <2>2. u \in DOMAIN bursts /\ BurstsFit
    BY <1>2, <1>4 DEF LinkInv
  <2> HIDE DEF u
  <2> QED
    BY <2>1, <2>2, <1>4 DEF BurstsOf, BurstsFit
<1>6. /\ heard' = heard \o p
      /\ buf' = KeptOf(buf, p)
      /\ out' = out \o Placed(ParseStream(d), BaseOf(heard, buf, p))
      /\ fed' = u
      /\ UNCHANGED <<unsent, hop, enabled, windows, phase, bursts, netid, level>>
  <2>1. heard' = heard \o p
    BY Zenon DEF Feed
  <2>2. buf' = KeptOf(buf, p)
    BY Zenon DEF Feed, KeptOf, DataOf
  <2>3. out' = out \o Placed(ParseStream(d), BaseOf(heard, buf, p))
    BY Zenon DEF Feed, Placed, BaseOf, DataOf
  <2>4. fed' = u /\ UNCHANGED <<unsent, hop, enabled, windows, phase, bursts, netid, level>>
    BY Zenon DEF Feed
  <2> QED
    BY <2>1, <2>2, <2>3, <2>4
<1> HIDE DEF p
<1>7. EndsIn(buf, heard) /\ NotLost(heard, buf) /\ ReportedIn(heard, out) /\ Ordered(out) /\ Behind(heard, buf, out)
  BY DEF LinkInv, Reassembly
<1>8. /\ heard' \in Seq(Bytes(s)) /\ Len(heard') = Len(heard) + Len(p)
      /\ buf' \in Seq(Bytes(s)) /\ EndsIn(buf', heard') /\ Len(buf') <= MaxBuffer
      /\ NotLost(heard', buf')
  <2>1. heard \o p \in Seq(Bytes(s)) /\ Len(heard \o p) = Len(heard) + Len(p)
    BY <1>2, <1>5, Concatenates
  <2>2. /\ KeptOf(buf, p) \in Seq(Bytes(s)) /\ EndsIn(KeptOf(buf, p), heard \o p)
        /\ Len(KeptOf(buf, p)) <= MaxBuffer
        /\ NotLost(heard \o p, KeptOf(buf, p))
    BY <1>2, <1>5, <1>7, FeedKeeps
  <2> QED
    BY <2>1, <2>2, <1>6
<1>9. ReportedIn(heard', out')
  <2>1. ReportedIn(heard \o p, out \o Placed(ParseStream(d), BaseOf(heard, buf, p)))
    BY <1>2, <1>5, <1>7, FeedReports
  <2> QED
    BY <2>1, <1>6
<1>10. out' \in Seq(Found) /\ Ordered(out') /\ Behind(heard', buf', out')
  <2>1. LET o2 == out \o Placed(ParseStream(d), BaseOf(heard, buf, p))
        IN  o2 \in Seq(Found) /\ Ordered(o2) /\ Behind(heard \o p, KeptOf(buf, p), o2)
    BY <1>2, <1>5, <1>7, FeedOrders
  <2> QED
    BY <2>1, <1>6
<1> HIDE DEF d, u
<1>11. LinkTypeOK'
  <2>1. fed' \in 0..MaxBursts
    <3>1. Len(bursts) <= MaxBursts /\ MaxBursts \in Nat /\ Len(bursts) \in Nat
      BY <1>2, SikAssumption DEF LinkInv, LinkTypeOK
    <3> QED
      BY <3>1, <1>4, <1>6
  <2> QED
    BY <2>1, <1>6, <1>8 DEF LinkInv, LinkTypeOK
<1>12. LinkBytes(s)'
  BY <1>1, <1>6, <1>8, <1>10 DEF LinkBytes
<1>13. BurstsFit'
  BY <1>6 DEF LinkInv, BurstsFit
<1>14. Reassembly'
  BY <1>8, <1>9, <1>10 DEF Reassembly
<1>15. LinkEvidence'
  <2>1. Confirmed(netid)' <=> Confirmed(netid)
    BY <1>6 DEF Confirmed, FramesOf, SeenChannels, Centre
  <2>2. netid = Other => Len(heard') = 0
    <3>1. netid = Other => Len(heard) = 0 /\ Len(p) = 0
      BY <1>5 DEF LinkInv, LinkEvidence
    <3> QED
      BY <3>1, <1>8
  <2>3. level # 4 /\ Confirmed(netid)
    BY <1>3 DEF LinkInv, LinkEvidence
  <2>4. UNCHANGED <<phase, netid, level>>
    BY <1>6
  <2> QED
    BY <2>1, <2>2, <2>3, <2>4, <1>3, Zenon DEF LinkEvidence
<1> QED
  BY <1>11, <1>12, <1>13, <1>14, <1>15 DEF LinkInv

(* With nothing heard, nothing was found.                                  *)
LEMMA SilentLink ==
  ASSUME LinkInv, NEW i \in DOMAIN out
  PROVE  netid # Other
<1> SUFFICES ASSUME netid = Other PROVE FALSE
  OBVIOUS
<1>1. PICK s \in Streams : LinkBytes(s)
  BY DEF LinkInv
<1>2. Len(heard) = 0 /\ out \in Seq(Found) /\ buf \in Seq(Bytes(s))
  BY <1>1 DEF LinkInv, LinkEvidence, LinkBytes
<1>3. EndsIn(buf, heard) /\ Behind(heard, buf, out)
  BY DEF LinkInv, Reassembly
<1>4. Len(buf) = 0
  BY <1>2, <1>3 DEF EndsIn
<1>5. Len(out) \in 1..Len(out) /\ Len(out) # 0
  BY <1>2
<1>6. out[Len(out)] \in Found
  BY <1>2, <1>5
<1> DEFINE l == out[Len(out)].last
<1>7. l \in Nat \ {0}
  BY <1>6 DEF Found
<1>8. l <= 0
  BY <1>2, <1>3, <1>4, <1>5 DEF Behind
<1> HIDE DEF l
<1> QED
  BY <1>7, <1>8

LEMMA FedStep == LinkInv /\ Fed => LinkInv'
<1> SUFFICES ASSUME LinkInv, Fed PROVE LinkInv'
  OBVIOUS
<1>1. PICK s \in Streams : LinkBytes(s)
  BY DEF LinkInv
<1>2. /\ phase = "feed" /\ phase' = "report"
      /\ level' = IF \E i \in DOMAIN out : out[i].ok THEN 4 ELSE level
      /\ UNCHANGED <<unsent, hop, enabled, windows, bursts, netid, fed, heard, buf, out>>
  BY DEF Fed
<1>3. LinkTypeOK'
  BY <1>2 DEF LinkInv, LinkTypeOK
<1>4. LinkBytes(s)'
  BY <1>1, <1>2 DEF LinkBytes
<1>5. BurstsFit'
  BY <1>2 DEF LinkInv, BurstsFit
<1>6. Reassembly'
  BY <1>2, KeptFed
<1>7. LinkEvidence'
  <2>1. Confirmed(netid)' <=> Confirmed(netid)
    BY <1>2 DEF Confirmed, FramesOf, SeenChannels, Centre
  <2>2. netid # "none" /\ Confirmed(netid) /\ level # 4 /\ (netid = Other => Len(heard) = 0)
    BY <1>2 DEF LinkInv, LinkEvidence
  <2>3. netid \in {"none", Mavlink, Other}
    BY DEF LinkInv, LinkTypeOK
  <2>4. level' = 4 => \E i \in DOMAIN out : out[i].ok
    BY <1>2, <2>2
  <2>5. level' = 4 => netid = Mavlink
    BY <2>2, <2>3, <2>4, SilentLink
  <2>6. netid' = netid /\ heard' = heard /\ out' = out /\ phase' = "report"
    BY <1>2
  <2> QED
    BY <2>1, <2>2, <2>4, <2>5, <2>6 DEF LinkEvidence
<1> QED
  BY <1>3, <1>4, <1>5, <1>6, <1>7 DEF LinkInv

LEMMA WindowStep == LinkInv /\ NextWindow => LinkInv'
<1> SUFFICES ASSUME LinkInv, NextWindow PROVE LinkInv'
  OBVIOUS
<1>1. PICK s \in Streams : LinkBytes(s)
  BY DEF LinkInv
<1>2. /\ phase' = "listen" /\ bursts' = <<>> /\ netid' = "none" /\ level' = 0
      /\ fed' = 0 /\ heard' = <<>> /\ buf' = <<>> /\ out' = <<>>
      /\ UNCHANGED <<unsent, hop, enabled, windows>>
  BY DEF NextWindow
<1>3. LinkTypeOK'
  BY <1>2, SikAssumption DEF LinkInv, LinkTypeOK
<1>4. LinkBytes(s)'
  <2>1. <<>> \in Seq(BurstsOf(s))
    OBVIOUS
  <2> QED
    BY <1>1, <1>2, <2>1, NothingFed DEF LinkBytes
<1>5. BurstsFit'
  BY <1>2 DEF BurstsFit
<1>6. Reassembly'
  BY <1>2, ClearedFed
<1>7. LinkEvidence'
  <2>1. level' # 4
    BY <1>2
  <2> QED
    BY <1>2, <2>1, Names DEF LinkEvidence
<1> QED
  BY <1>3, <1>4, <1>5, <1>6, <1>7 DEF LinkInv

LEMMA NextLink == LinkInv /\ [LinkNext]_linkVars => LinkInv'
<1> SUFFICES ASSUME LinkInv, [LinkNext]_linkVars PROVE LinkInv'
  OBVIOUS
<1>1. CASE UNCHANGED linkVars
  BY <1>1 DEF linkVars, LinkInv, LinkTypeOK, LinkBytes, BurstsFit, Reassembly, LinkEvidence,
              Confirmed, FramesOf, SeenChannels, Centre
<1>2. CASE LinkNext
  BY <1>2, SendsStep, DwellStep, FeedStep, FedStep, WindowStep DEF LinkNext
<1> QED
  BY <1>1, <1>2

(* Whatever the link sends, in frames of whatever number of the allowed     *)
(* bytes, found or not, and whatever else is heard, the decoder's buffer is *)
(* the end of what it was fed, holds the start of every message that is    *)
(* still incomplete, and the evidence of a window is that of its frames.   *)
THEOREM LinkInvHolds == LinkSpec => []LinkInv
<1> QED
  BY InitLink, NextLink, PTL DEF LinkSpec

LEMMA LinkReports == LinkInv => MessagesReportedOnce
<1> SUFFICES ASSUME LinkInv PROVE MessagesReportedOnce
  OBVIOUS
<1>1. PICK s \in Streams : LinkBytes(s)
  BY DEF LinkInv
<1>2. out \in Seq(Found) /\ heard \in Seq(Bytes(s)) /\ buf \in Seq(Bytes(s))
  BY <1>1 DEF LinkBytes
<1>3. EndsIn(buf, heard) /\ ReportedIn(heard, out) /\ Ordered(out) /\ Behind(heard, buf, out)
  BY DEF LinkInv, Reassembly
<1>4. EachByteReportedOnce
  <2>1. \A i \in DOMAIN out : out[i].first <= out[i].last
    BY <1>3 DEF Ordered
  <2>2. \A i \in DOMAIN out : i > 1 => out[i - 1].last < out[i].first
    <3>1. \A i \in DOMAIN out : i > 1 => i \in 2..Len(out)
      BY <1>2
    <3> QED
      BY <3>1, <1>3 DEF Ordered
  <2>3. buf = Drop(heard, Len(heard) - Len(buf))
    BY <1>2, <1>3, EndIsDrop
  <2>4. out # <<>> => Last(out).last <= Len(heard) - Len(buf)
    <3>1. out # <<>> => Len(out) # 0
      BY <1>2
    <3> QED
      BY <3>1, <1>3 DEF Behind, Last
  <2> QED
    BY <2>1, <2>2, <2>3, <2>4 DEF EachByteReportedOnce
<1>5. SplitMessagesReported
  <2>1. DOMAIN heard = 1..Len(heard)
    BY <1>2
  <2> QED
    BY <2>1, <1>3, Zenon DEF SplitMessagesReported, ReportedIn, Unmistaken, Reported
<1> QED
  BY <1>4, <1>5 DEF MessagesReportedOnce, LinkInv

(* MessagesReportedOnce of SikLink, for every stream of messages, every     *)
(* split into frames, every loss, and every number of windows: feed and    *)
(* parse_mavlink_stream of mavlink.py.                                     *)
THEOREM MessagesAreReported == LinkSpec => []MessagesReportedOnce
<1> QED
  BY LinkInvHolds, LinkReports, PTL

(* With one centre per channel there are no more centres than channels.    *)
LEMMA CentresOfChannels ==
  ASSUME NEW S, bursts \in Seq(S), NEW F, F \subseteq DOMAIN bursts,
         \A i \in F : bursts[i].ch \in Channels,
         \A i, j \in F : bursts[i].ch = bursts[j].ch => bursts[i].off = bursts[j].off
  PROVE  /\ Cardinality(SeenChannels(F)) <= Cardinality({bursts[i].ch : i \in F})
         /\ Cardinality(SeenChannels(F)) \in Nat /\ Cardinality({bursts[i].ch : i \in F}) \in Nat
<1> DEFINE chs == {bursts[i].ch : i \in F}
           one(c) == CHOOSE i \in F : bursts[i].ch = c
           f == [c \in chs |-> Centre(bursts[one(c)])]
           cs == SeenChannels(F)
<1>1. IsFiniteSet(chs)
  <2>1. chs \subseteq Channels
    OBVIOUS
  <2> HIDE DEF chs
  <2> QED
    BY <2>1, ThreeChannels, FS_Subset
<1>2. \A c \in chs : one(c) \in F /\ bursts[one(c)].ch = c
  OBVIOUS
<1>3. cs = {Centre(bursts[i]) : i \in F}
  BY DEF SeenChannels
<1>4. f \in Surjection(chs, cs)
  <2>1. \A c \in chs : f[c] \in cs
    <3> HIDE DEF one, chs
    <3> QED
      BY <1>2, <1>3
  <2>2. ASSUME NEW t \in cs PROVE \E c \in chs : f[c] = t
    <3>1. PICK i \in F : t = Centre(bursts[i])
      BY <1>3
    <3> DEFINE c == bursts[i].ch
               j == one(c)
    <3>2. c \in chs /\ f[c] = Centre(bursts[j])
      OBVIOUS
    <3>3. j \in F /\ bursts[j].ch = c
      BY <1>2, <3>2
    <3> HIDE DEF j
    <3>4. bursts[j].off = bursts[i].off
      BY <3>3
    <3>5. Centre(bursts[j]) = Centre(bursts[i])
      BY <3>3, <3>4 DEF Centre
    <3> QED
      BY <3>1, <3>2, <3>5
  <2>3. f \in [chs -> cs]
    <3> HIDE DEF chs, one, cs
    <3> QED
      BY <2>1
  <2> HIDE DEF f
  <2> QED
    BY <2>2, <2>3, Zenon DEF Surjection
<1> HIDE DEF f, chs, cs
<1>5. IsFiniteSet(cs) /\ Cardinality(cs) <= Cardinality(chs)
  BY <1>1, <1>4, FS_Surjection
<1> QED
  BY <1>1, <1>5, FS_CardinalityType DEF chs, cs

LEMMA LinkConfirms == LinkInv => ConfirmedByJitterOnly
<1> SUFFICES ASSUME LinkInv, netid # "none"
             PROVE  LET frames == FramesOf(netid)
                    IN  /\ Cardinality(frames) >= MinFrames
                        /\ \/ Cardinality({bursts[i].ch : i \in frames}) >= MinChannels
                           \/ \E i, j \in frames :
                                bursts[i].ch = bursts[j].ch /\ bursts[i].off # bursts[j].off
                        /\ level = 4 => netid = Mavlink /\ (phase = "report" => \E i \in DOMAIN out : out[i].ok)
  BY DEF ConfirmedByJitterOnly
<1> DEFINE frames == FramesOf(netid)
           chs == {bursts[i].ch : i \in frames}
           apart == \E i, j \in frames : bursts[i].ch = bursts[j].ch /\ bursts[i].off # bursts[j].off
<1>1. PICK s \in Streams : LinkBytes(s)
  BY DEF LinkInv
<1>2. Cardinality(frames) >= MinFrames /\ Cardinality(SeenChannels(frames)) >= MinChannels
  BY DEF LinkInv, LinkEvidence, Confirmed
<1>3. Cardinality(chs) >= MinChannels \/ apart
  <2> SUFFICES ASSUME ~ apart PROVE Cardinality(chs) >= MinChannels
    OBVIOUS
  <2>1. bursts \in Seq(BurstsOf(s)) /\ frames \subseteq DOMAIN bursts
    BY <1>1 DEF LinkBytes, FramesOf
  <2>2. \A i \in frames : bursts[i].ch \in Channels
    <3>1. \A i \in frames : bursts[i] \in BurstsOf(s)
      BY <2>1
    <3> QED
      BY <3>1 DEF BurstsOf
  <2>3. \A i, j \in frames : bursts[i].ch = bursts[j].ch => bursts[i].off = bursts[j].off
    OBVIOUS
  <2> HIDE DEF frames, apart
  <2>4. /\ Cardinality(SeenChannels(frames)) <= Cardinality(chs)
        /\ Cardinality(SeenChannels(frames)) \in Nat /\ Cardinality(chs) \in Nat
    BY <2>1, <2>2, <2>3, CentresOfChannels
  <2> HIDE DEF chs
  <2> QED
    BY <2>4, <1>2, SikAssumption
<1>4. level = 4 => netid = Mavlink /\ \E i \in DOMAIN out : out[i].ok
  BY DEF LinkInv, LinkEvidence
<1> QED
  BY <1>2, <1>3, <1>4

(* ConfirmedByJitterOnly of SikLink, for every error of the centre          *)
(* estimates and every threshold: the confirmation of a link and the level *)
(* of evidence of pipeline.py.                                             *)
THEOREM ConfirmationsAreEarned == LinkSpec => []ConfirmedByJitterOnly
<1> QED
  BY LinkInvHolds, LinkConfirms, PTL
=============================================================================
