-------------------- MODULE DuplicateMessageDetector_proofs --------------------
(***************************************************************************)
(* That the detector of DuplicateMessageDetector accepts every number at   *)
(* most once and loses none, for every number of gaps and every Infinity.  *)
(*                                                                         *)
(* The invariant says that the gaps ascend and that no accepted number     *)
(* lies in one; the lemmas say what splicing a gap and dropping the lowest *)
(* one do to it.                                                           *)
(***************************************************************************)
EXTENDS DuplicateMessageDetector, SequenceTheorems, TLAPS

-----------------------------------------------------------------------------
(***************************************************************************)
(* Sequences                                                               *)
(***************************************************************************)
\* t is s with the n elements of new in the place of element i.
IsSpliced(S, s, i, new, n, t) ==
    /\ t \in Seq(S)
    /\ Len(t) = Len(s) - 1 + n
    /\ \A k \in 1 .. i - 1 : t[k] = s[k]
    /\ \A k \in i .. i + n - 1 : t[k] = new[k - i + 1]
    /\ \A k \in i + n .. Len(t) : t[k] = s[k - n + 1]

\* The elements of a spliced sequence.
LEMMA SpliceElements ==
    ASSUME NEW S, NEW s \in Seq(S), NEW i \in 1 .. Len(s), NEW new \in Seq(S)
    PROVE  IsSpliced(S, s, i, new, Len(new), Splice(s, i, new))
<1> DEFINE n == Len(new)
           spliced == Splice(s, i, new)
<1>0. n = Len(new) /\ spliced = Splice(s, i, new)
  OBVIOUS
<1> HIDE DEF n, spliced
<1> DEFINE a == SubSeq(s, 1, i - 1)
           b == SubSeq(s, i + 1, Len(s))
<1> DEFINE c == a \o new
           t == c \o b
<1>0a. \A k \in 1 .. Len(s) : s[k] \in S
  OBVIOUS
<1>1. /\ a \in Seq(S)
      /\ Len(a) = i - 1
      /\ \A k \in 1 .. i - 1 : a[k] = s[k]
  BY <1>0a, SubSeqProperties
<1>2. /\ b \in Seq(S)
      /\ Len(b) = Len(s) - i
      /\ \A k \in 1 .. Len(s) - i : b[k] = s[k + i]
  BY <1>0a, SubSeqProperties
<1>3. spliced = t
  BY <1>0 DEF Splice
<1> HIDE DEF a, b
<1>4. /\ c \in Seq(S)
      /\ Len(c) = i - 1 + n
      /\ \A k \in 1 .. i - 1 + n : c[k] = IF k <= i - 1 THEN s[k] ELSE new[k - (i - 1)]
  <2>1. /\ c \in Seq(S)
        /\ Len(c) = Len(a) + Len(new)
        /\ \A k \in 1 .. Len(a) + Len(new) :
              c[k] = IF k <= Len(a) THEN a[k] ELSE new[k - Len(a)]
    <3> HIDE DEF t
    <3> QED BY <1>1, ConcatProperties, Zenon
  <2> HIDE DEF c, t
  <2>2. Len(new) \in Nat /\ i \in Nat
    OBVIOUS
  <2> QED BY <1>0, <1>1, <2>1, <2>2
<1> HIDE DEF c
<1>5. /\ t \in Seq(S)
      /\ Len(t) = Len(s) - 1 + n
      /\ \A k \in 1 .. Len(t) :
            t[k] = IF k <= i - 1 + n THEN c[k] ELSE b[k - (i - 1 + n)]
  <2>1. /\ t \in Seq(S)
        /\ Len(t) = Len(c) + Len(b)
        /\ \A k \in 1 .. Len(c) + Len(b) :
              t[k] = IF k <= Len(c) THEN c[k] ELSE b[k - Len(c)]
    <3> QED BY <1>2, <1>4, ConcatProperties, Zenon
  <2> HIDE DEF t
  <2>2. n \in Nat /\ i \in Nat /\ Len(s) \in Nat
    BY <1>0
  <2> QED BY <1>2, <1>4, <2>1, <2>2
<1>6. n \in Nat /\ i \in Nat /\ i >= 1 /\ i <= Len(s) /\ Len(s) \in Nat
  BY <1>0
<1> HIDE DEF t
<1>7. \A k \in 1 .. i - 1 : t[k] = s[k]
  <2> SUFFICES ASSUME NEW k \in 1 .. i - 1 PROVE t[k] = s[k]
    OBVIOUS
  <2>1. k \in 1 .. Len(t) /\ k \in 1 .. i - 1 + n /\ k <= i - 1 /\ k <= i - 1 + n
    BY <1>5, <1>6
  <2> QED BY <1>4, <1>5, <2>1
<1>8. \A k \in i .. i + n - 1 : t[k] = new[k - i + 1]
  <2> SUFFICES ASSUME NEW k \in i .. i + n - 1 PROVE t[k] = new[k - i + 1]
    OBVIOUS
  <2>1. k \in 1 .. Len(t) /\ k \in 1 .. i - 1 + n /\ ~ (k <= i - 1)
    BY <1>5, <1>6
  <2>2. k - (i - 1) = k - i + 1
    BY <1>6
  <2> QED BY <1>4, <1>5, <2>1, <2>2
<1>9. \A k \in i + n .. Len(t) : t[k] = s[k - n + 1]
  <2> SUFFICES ASSUME NEW k \in i + n .. Len(t) PROVE t[k] = s[k - n + 1]
    OBVIOUS
  <2>1. /\ k \in 1 .. Len(t)
        /\ ~ (k <= i - 1 + n)
        /\ k - (i - 1 + n) \in 1 .. Len(s) - i
        /\ (k - (i - 1 + n)) + i = k - n + 1
    BY <1>5, <1>6
  <2> QED BY <1>2, <1>5, <2>1
<1>10. IsSpliced(S, s, i, new, n, spliced)
  BY <1>3, <1>5, <1>7, <1>8, <1>9 DEF IsSpliced
<1> QED
  BY <1>0, <1>10

-----------------------------------------------------------------------------
(***************************************************************************)
(* Gaps                                                                    *)
(***************************************************************************)
\* The gaps of the field gaps, whenever it has any.
GoodGaps(s) == /\ s \in Seq(Gap)
               /\ Ascending(s)
               /\ s # <<>>
               /\ s[Len(s)][2] = Infinity

\* Both ends of a gap are numbers, the upper one perhaps Infinity.
LEMMA GapBounds ==
    ASSUME NEW gap \in Gap
    PROVE  /\ gap[1] \in Nat
           /\ gap[2] \in Nat
           /\ gap[1] < Infinity
           /\ gap[2] <= Infinity
  BY InfinityAssumption DEF Gap, Number

\* What remains of a gap lies inside it and leaves out the number that arrived.
LEMMA RemainsInside ==
    ASSUME NEW gap \in Gap, gap[1] < gap[2],
           NEW previousNumber \in Number, NEW number \in Number,
           previousNumber < number,
           gap[1] <= previousNumber, previousNumber < gap[2], number <= gap[2]
    PROVE  LET new == Remains(gap, previousNumber, number)
           IN  /\ new \in Seq(Gap)
               /\ Len(new) <= 2
               /\ Ascending(new)
               /\ \A k \in DOMAIN new :
                     /\ gap[1] <= new[k][1]
                     /\ new[k][2] <= gap[2]
                     /\ ~ (new[k][1] < number /\ number <= new[k][2])
               /\ number < gap[2] =>
                     new # <<>> /\ new[Len(new)][2] = gap[2]
<1> DEFINE below == <<gap[1], previousNumber>>
           above == <<number, gap[2]>>
           new == Remains(gap, previousNumber, number)
<1>1. /\ gap[1] \in Nat /\ gap[2] \in Nat
      /\ previousNumber \in Nat /\ number \in Nat
      /\ gap[1] < Infinity /\ gap[2] <= Infinity
      /\ previousNumber < Infinity /\ number < Infinity
  BY InfinityAssumption DEF Gap, Number
<1>2. previousNumber # gap[1] => below \in Gap
  BY <1>1, InfinityAssumption DEF Gap, Number
<1>3. number # gap[2] => above \in Gap
  BY <1>1, InfinityAssumption DEF Gap, Number
<1>4. CASE previousNumber = gap[1] /\ number = gap[2]
  <2>1. new = <<>>
    BY <1>4 DEF Remains
  <2>2. /\ <<>> \in Seq(Gap)
        /\ Len(<<>>) = 0
        /\ DOMAIN <<>> = {}
    OBVIOUS
  <2>3. ~ (number < gap[2])
    BY <1>1, <1>4
  <2> QED BY <2>1, <2>2, <2>3 DEF Ascending
<1>5. CASE previousNumber = gap[1] /\ number # gap[2]
  <2>1. new = <<above>>
    BY <1>5 DEF Remains
  <2> QED BY <1>1, <1>3, <1>5, <2>1 DEF Ascending
<1>6. CASE previousNumber # gap[1] /\ number = gap[2]
  <2>1. new = <<below>>
    BY <1>6 DEF Remains
  <2> QED BY <1>1, <1>2, <1>6, <2>1 DEF Ascending
<1>7. CASE previousNumber # gap[1] /\ number # gap[2]
  <2>1. new = <<below, above>>
    BY <1>7 DEF Remains
  <2> QED BY <1>1, <1>2, <1>3, <1>7, <2>1 DEF Ascending
<1> QED
  BY <1>4, <1>5, <1>6, <1>7

\* Every place of what is spliced is below i, within the n new ones or above them.
LEMMA SplicePlaces ==
    ASSUME NEW i \in Nat, NEW n \in Nat, NEW size \in Nat, NEW length \in Nat,
           length = size - 1 + n
    PROVE  \A k \in 1 .. length :
              \/ k \in 1 .. i - 1
              \/ k \in i .. i + n - 1 /\ k - i + 1 \in 1 .. n
              \/ k \in i + n .. length /\ k - n + 1 \in i + 1 .. size
OBVIOUS

\* Splicing what remains into the gaps.
LEMMA SpliceGood ==
    ASSUME NEW s, GoodGaps(s), NEW i \in DOMAIN s,
           NEW previousNumber \in Number, NEW number \in Number,
           previousNumber < number,
           s[i][1] <= previousNumber, previousNumber < s[i][2], number <= s[i][2]
    PROVE  LET t == Splice(s, i, Remains(s[i], previousNumber, number))
           IN  /\ GoodGaps(t)
               /\ Len(t) <= Len(s) + 1
               /\ \A m \in Number : InGap(t, m) => InGap(s, m)
               /\ ~ InGap(t, number)
<1> DEFINE new == Remains(s[i], previousNumber, number)
           n == Len(new)
           t == Splice(s, i, new)
<1>1. /\ s \in Seq(Gap)
      /\ DOMAIN s = 1 .. Len(s)
      /\ Len(s) \in Nat
      /\ i \in 1 .. Len(s)
  BY DEF GoodGaps
<1>2. \A k \in 1 .. Len(s) : /\ s[k] \in Gap
                             /\ s[k][1] \in Nat
                             /\ s[k][2] \in Nat
                             /\ s[k][1] < s[k][2]
                             /\ s[k][1] < Infinity
                             /\ s[k][2] <= Infinity
  <2>1. \A k \in 1 .. Len(s) : s[k] \in Gap
    BY <1>1
  <2>2. \A k \in 1 .. Len(s) : s[k][1] < s[k][2]
    BY <1>1 DEF GoodGaps, Ascending
  <2> QED BY <2>1, <2>2, GapBounds
<1>3. \A j, k \in 1 .. Len(s) : j < k => s[j][2] < s[k][1]
  BY <1>1 DEF GoodGaps, Ascending
<1>4. /\ new \in Seq(Gap)
      /\ n <= 2
      /\ Ascending(new)
      /\ \A k \in DOMAIN new :
            /\ s[i][1] <= new[k][1]
            /\ new[k][2] <= s[i][2]
            /\ ~ (new[k][1] < number /\ number <= new[k][2])
      /\ number < s[i][2] => new # <<>> /\ new[n][2] = s[i][2]
  <2>1. s[i] \in Gap /\ s[i][1] < s[i][2]
    BY <1>1, <1>2
  <2> QED BY <2>1, RemainsInside
<1>5. n \in Nat /\ DOMAIN new = 1 .. n
  BY <1>4
<1> HIDE DEF new, n
<1>6. /\ t \in Seq(Gap)
      /\ Len(t) = Len(s) - 1 + n
      /\ \A k \in 1 .. i - 1 : t[k] = s[k]
      /\ \A k \in i .. i + n - 1 : t[k] = new[k - i + 1]
      /\ \A k \in i + n .. Len(t) : t[k] = s[k - n + 1]
  <2> HIDE DEF t
  <2>1. t = Splice(s, i, new) /\ new \in Seq(Gap) /\ n = Len(new)
    BY <1>4 DEF t, n
  <2>2. IsSpliced(Gap, s, i, new, n, t)
    BY <1>1, <2>1, SpliceElements
  <2> QED BY <2>2 DEF IsSpliced
<1> HIDE DEF t
<1>7. /\ Len(t) \in Nat /\ DOMAIN t = 1 .. Len(t)
      /\ i \in Nat /\ n \in Nat /\ Len(s) \in Nat
      /\ 1 <= i /\ i <= Len(s)
      /\ Len(t) = Len(s) - 1 + n
  BY <1>1, <1>5, <1>6
\* Every gap of t is one below i, one of new or one above i.
<1>8. \A k \in 1 .. Len(t) :
         \/ k \in 1 .. i - 1
         \/ k \in i .. i + n - 1 /\ k - i + 1 \in 1 .. n
         \/ k \in i + n .. Len(t) /\ k - n + 1 \in i + 1 .. Len(s)
  BY <1>7, SplicePlaces
<1>9. \A k \in 1 .. n : new[k][1] \in Nat /\ new[k][2] \in Nat /\ new[k][1] < new[k][2]
  <2>1. \A k \in 1 .. n : new[k] \in Gap
    BY <1>4, <1>5
  <2>2. \A k \in 1 .. n : new[k][1] < new[k][2]
    BY <1>4, <1>5 DEF Ascending
  <2> QED BY <2>1, <2>2, GapBounds
<1>10. \A k \in 1 .. Len(t) : t[k][1] < t[k][2]
  <2> SUFFICES ASSUME NEW k \in 1 .. Len(t) PROVE t[k][1] < t[k][2]
    OBVIOUS
  <2>1. CASE k \in 1 .. i - 1
    <3>1. k \in 1 .. Len(s) /\ t[k] = s[k]
      BY <1>1, <1>6, <2>1
    <3> QED BY <1>2, <3>1
  <2>2. CASE k \in i .. i + n - 1 /\ k - i + 1 \in 1 .. n
    <3>1. t[k] = new[k - i + 1]
      BY <1>6, <2>2
    <3> QED BY <1>9, <2>2, <3>1
  <2>3. CASE k \in i + n .. Len(t) /\ k - n + 1 \in i + 1 .. Len(s)
    <3>1. k - n + 1 \in 1 .. Len(s) /\ t[k] = s[k - n + 1]
      BY <1>1, <1>6, <2>3
    <3> QED BY <1>2, <3>1
  <2> QED BY <1>8, <2>1, <2>2, <2>3
<1>11. \A j, k \in 1 .. Len(t) : j < k => t[j][2] < t[k][1]
  <2> DEFINE Below(k) == k \in 1 .. i - 1
             Within(k) == k \in i .. i + n - 1 /\ k - i + 1 \in 1 .. n
             Above(k) == k \in i + n .. Len(t) /\ k - n + 1 \in i + 1 .. Len(s)
  <2>1. ASSUME NEW k \in 1 .. Len(t), Below(k)
        PROVE  /\ t[k] = s[k] /\ k \in 1 .. Len(s) /\ k < i
               /\ s[k][1] \in Nat /\ s[k][2] \in Nat
    <3>1. k \in 1 .. Len(s) /\ k < i
      BY <1>7, <2>1
    <3> QED BY <1>2, <1>6, <2>1, <3>1
  <2>2. ASSUME NEW k \in 1 .. Len(t), Within(k)
        PROVE  /\ t[k] = new[k - i + 1]
               /\ s[i][1] <= t[k][1] /\ t[k][2] <= s[i][2]
               /\ t[k][1] \in Nat /\ t[k][2] \in Nat
    <3>1. t[k] = new[k - i + 1]
      BY <1>6, <2>2
    <3>2. /\ s[i][1] <= new[k - i + 1][1]
          /\ new[k - i + 1][2] <= s[i][2]
      BY <1>4, <1>5, <2>2
    <3> QED BY <1>9, <2>2, <3>1, <3>2
  <2>3. ASSUME NEW k \in 1 .. Len(t), Above(k)
        PROVE  /\ t[k] = s[k - n + 1] /\ k - n + 1 \in 1 .. Len(s) /\ i < k - n + 1
               /\ s[k - n + 1][1] \in Nat /\ s[k - n + 1][2] \in Nat
    <3>1. k - n + 1 \in 1 .. Len(s) /\ i < k - n + 1
      <4>1. k - n + 1 \in i + 1 .. Len(s)
        BY <2>3
      <4> QED BY <1>7, <4>1
    <3> QED BY <1>2, <1>6, <2>3, <3>1
  <2>4. s[i][1] \in Nat /\ s[i][2] \in Nat
    BY <1>1, <1>2
  <2> SUFFICES ASSUME NEW j \in 1 .. Len(t), NEW k \in 1 .. Len(t), j < k
               PROVE  t[j][2] < t[k][1]
    OBVIOUS
  <2>5. /\ Below(j) \/ Within(j) \/ Above(j)
        /\ Below(k) \/ Within(k) \/ Above(k)
    BY <1>8
  <2>6. /\ Within(j) => ~ Below(k)
        /\ Above(j) => ~ Below(k) /\ ~ Within(k)
    <3>1. j \in Nat /\ k \in Nat
      BY <1>7
    <3>2. /\ Below(k) => k < i
          /\ Within(k) => k < i + n
      <4>1. /\ k \in 1 .. i - 1 => k < i
            /\ k \in i .. i + n - 1 => k < i + n
        BY <1>7
      <4> QED BY <4>1
    <3>3. /\ Within(j) => i <= j
          /\ Above(j) => i + n <= j
      BY <1>7, <3>1
    <3> HIDE DEF Below, Within, Above
    <3> QED BY <1>7, <3>1, <3>2, <3>3
  <2>7. CASE Below(j) /\ Below(k)
    BY <1>3, <2>1, <2>7
  <2>8. CASE Below(j) /\ Within(k)
    <3>1. s[j][2] < s[i][1]
      BY <1>1, <1>3, <2>1, <2>8
    <3>2. /\ t[j][2] = s[j][2] /\ s[j][2] \in Nat
          /\ s[i][1] <= t[k][1] /\ t[k][1] \in Nat
      BY <2>1, <2>2, <2>8
    <3> HIDE DEF Below, Within
    <3> QED BY <2>4, <3>1, <3>2
  <2>9. CASE Below(j) /\ Above(k)
    <3>1. j < k - n + 1
      <4>1. j < i
        BY <2>1, <2>9
      <4>2. i < k - n + 1 /\ k - n + 1 \in 1 .. Len(s)
        BY <2>3, <2>9
      <4>3. j \in Nat /\ i \in Nat /\ k - n + 1 \in Nat
        BY <1>7, <4>2
      <4> HIDE DEF Below, Above
      <4> QED BY <4>1, <4>2, <4>3
    <3> QED BY <1>3, <2>1, <2>3, <2>9, <3>1
  <2>10. CASE Within(j) /\ Within(k)
    <3>1. j - i + 1 < k - i + 1
      BY <1>7
    <3>2. new[j - i + 1][2] < new[k - i + 1][1]
      BY <1>4, <1>5, <2>10, <3>1 DEF Ascending
    <3> QED BY <2>2, <2>10, <3>2
  <2>11. CASE Within(j) /\ Above(k)
    <3>1. s[i][2] < s[k - n + 1][1]
      BY <1>1, <1>3, <2>3, <2>11
    <3>2. /\ t[j][2] <= s[i][2] /\ t[j][2] \in Nat
          /\ t[k] = s[k - n + 1] /\ s[k - n + 1][1] \in Nat
      BY <2>2, <2>3, <2>11
    <3> HIDE DEF Within, Above
    <3> QED BY <2>4, <3>1, <3>2
  <2>12. CASE Above(j) /\ Above(k)
    <3>1. j - n + 1 < k - n + 1
      BY <1>7
    <3> QED BY <1>3, <2>3, <2>12, <3>1
  <2> HIDE DEF Below, Within, Above
  <2> QED BY <2>5, <2>6, <2>7, <2>8, <2>9, <2>10, <2>11, <2>12
<1>12. t # <<>> /\ t[Len(t)][2] = Infinity
  <2>1. CASE i = Len(s)
    <3>1. s[i][2] = Infinity /\ number < s[i][2]
      BY <1>1, <2>1, InfinityAssumption DEF GoodGaps, Number
    <3>2. new # <<>> /\ new[n][2] = Infinity
      BY <1>4, <3>1
    <3>3. n >= 1
      BY <1>4, <1>5, <3>2 DEF n
    <3>4. /\ Len(t) \in i .. i + n - 1
          /\ Len(t) - i + 1 = n
          /\ Len(t) > 0
      BY <1>1, <1>5, <1>6, <2>1, <3>3
    <3>5. t[Len(t)] = new[n]
      BY <1>6, <3>4
    <3> QED BY <1>6, <3>2, <3>4, <3>5
  <2>2. CASE i # Len(s)
    <3>1. Len(t) \in i + n .. Len(t) /\ Len(t) - n + 1 = Len(s) /\ Len(t) > 0
      BY <1>1, <1>5, <1>6, <2>2
    <3>2. t[Len(t)] = s[Len(s)]
      BY <1>6, <3>1
    <3> QED BY <1>6, <3>1, <3>2 DEF GoodGaps
  <2> QED BY <2>1, <2>2
<1>13. GoodGaps(t)
  BY <1>6, <1>7, <1>10, <1>11, <1>12 DEF GoodGaps, Ascending
<1>14. Len(t) <= Len(s) + 1
  BY <1>1, <1>4, <1>5, <1>6
<1>15. \A m \in Number : InGap(t, m) => InGap(s, m)
  <2> SUFFICES ASSUME NEW m \in Number,
                      NEW k \in 1 .. Len(t), t[k][1] < m, m <= t[k][2]
               PROVE  InGap(s, m)
    BY <1>7 DEF InGap
  <2>1. m \in Nat
    BY InfinityAssumption DEF Number
  <2>2. CASE k \in 1 .. i - 1
    <3>1. k \in 1 .. Len(s) /\ t[k] = s[k]
      BY <1>1, <1>6, <2>2
    <3> QED BY <1>1, <3>1 DEF InGap
  <2>3. CASE k \in i .. i + n - 1 /\ k - i + 1 \in 1 .. n
    <3>1. t[k] = new[k - i + 1]
      BY <1>6, <2>3
    <3>2. /\ s[i][1] <= new[k - i + 1][1]
          /\ new[k - i + 1][2] <= s[i][2]
      BY <1>4, <1>5, <2>3
    <3>3. /\ s[i][1] \in Nat /\ s[i][2] \in Nat
          /\ new[k - i + 1][1] \in Nat /\ new[k - i + 1][2] \in Nat
      BY <1>1, <1>2, <1>9, <2>3
    <3>4. s[i][1] < m /\ m <= s[i][2]
      <4>1. PICK x \in Nat, y \in Nat : x = new[k - i + 1][1] /\ y = new[k - i + 1][2]
        BY <3>3
      <4>2. x < m /\ m <= y
        BY <1>7, <3>1, <4>1 DEF InGap
      <4>3. s[i][1] <= x /\ y <= s[i][2]
        BY <3>2, <4>1
      <4>4. s[i][1] \in Nat /\ s[i][2] \in Nat
        BY <3>3
      <4> QED BY <2>1, <4>2, <4>3, <4>4
    <3> QED BY <3>4 DEF InGap
  <2>4. CASE k \in i + n .. Len(t) /\ k - n + 1 \in i + 1 .. Len(s)
    <3>1. k - n + 1 \in 1 .. Len(s) /\ t[k] = s[k - n + 1]
      BY <1>1, <1>6, <2>4
    <3> QED BY <1>1, <3>1 DEF InGap
  <2> QED BY <1>8, <2>2, <2>3, <2>4
<1>16. ~ InGap(t, number)
  <2> SUFFICES ASSUME NEW k \in 1 .. Len(t), t[k][1] < number, number <= t[k][2]
               PROVE  FALSE
    BY <1>7 DEF InGap
  <2>1. /\ number \in Nat /\ previousNumber \in Nat
    BY InfinityAssumption DEF Number
  <2>2. CASE k \in 1 .. i - 1
    <3>1. t[k] = s[k] /\ k \in 1 .. Len(s) /\ k < i
      BY <1>1, <1>6, <2>2
    <3>2. s[k][2] < s[i][1]
      BY <1>1, <1>3, <3>1
    <3> QED BY <1>1, <1>2, <2>1, <3>1, <3>2
  <2>3. CASE k \in i .. i + n - 1 /\ k - i + 1 \in 1 .. n
    BY <1>4, <1>5, <1>6, <2>3
  <2>4. CASE k \in i + n .. Len(t) /\ k - n + 1 \in i + 1 .. Len(s)
    <3>1. t[k] = s[k - n + 1] /\ k - n + 1 \in 1 .. Len(s) /\ i < k - n + 1
      BY <1>1, <1>6, <2>4
    <3>2. s[i][2] < s[k - n + 1][1]
      BY <1>1, <1>3, <3>1
    <3> QED BY <1>1, <1>2, <2>1, <3>1, <3>2
  <2> QED BY <1>8, <2>2, <2>3, <2>4
<1> QED
  BY <1>13, <1>14, <1>15, <1>16 DEF t, new

\* Dropping the lowest gap, if there are too many.
LEMMA DropGood ==
    ASSUME NEW s, GoodGaps(s), Len(s) <= MaxNumberOfGaps + 1
    PROVE  /\ GoodGaps(DropLowestGap(s))
           /\ Len(DropLowestGap(s)) <= MaxNumberOfGaps
           /\ \A m : InGap(DropLowestGap(s), m) => InGap(s, m)
<1>1. s \in Seq(Gap) /\ s # <<>> /\ Len(s) \in Nat /\ DOMAIN s = 1 .. Len(s)
  BY DEF GoodGaps
<1>2. CASE ~ (Len(s) > MaxNumberOfGaps)
  <2>1. DropLowestGap(s) = s
    BY <1>2 DEF DropLowestGap
  <2> QED BY <1>1, <1>2, <2>1, GapsAssumption
<1>3. CASE Len(s) > MaxNumberOfGaps
  <2> DEFINE t == Tail(s)
  <2>1. DropLowestGap(s) = t
    BY <1>3 DEF DropLowestGap
  <2>2. /\ t \in Seq(Gap)
        /\ Len(t) = Len(s) - 1
        /\ DOMAIN t = 1 .. Len(t)
        /\ \A k \in 1 .. Len(t) : t[k] = s[k + 1]
    BY <1>1, HeadTailProperties
  <2> HIDE DEF t
  <2>3. Len(s) >= 2
    BY <1>1, <1>3, GapsAssumption
  <2>4. \A k \in 1 .. Len(t) : k + 1 \in 1 .. Len(s)
    BY <1>1, <2>2
  <2>5. \A k \in 1 .. Len(t) : t[k][1] < t[k][2]
    BY <1>1, <2>2, <2>4 DEF GoodGaps, Ascending
  <2>6. \A j, k \in 1 .. Len(t) : j < k => t[j][2] < t[k][1]
    <3> SUFFICES ASSUME NEW j \in 1 .. Len(t), NEW k \in 1 .. Len(t), j < k
                 PROVE  t[j][2] < t[k][1]
      OBVIOUS
    <3>1. j + 1 \in 1 .. Len(s) /\ k + 1 \in 1 .. Len(s) /\ j + 1 < k + 1
      BY <2>4
    <3>2. s[j + 1][2] < s[k + 1][1]
      BY <1>1, <3>1 DEF GoodGaps, Ascending
    <3> QED BY <2>2, <3>2
  <2>7. t # <<>> /\ t[Len(t)][2] = Infinity
    <3>1. Len(t) \in 1 .. Len(t) /\ Len(t) + 1 = Len(s)
      BY <1>1, <2>2, <2>3
    <3>2. t[Len(t)] = s[Len(s)]
      BY <2>2, <3>1
    <3> QED BY <1>1, <2>2, <3>1, <3>2 DEF GoodGaps
  <2>8. \A m : InGap(t, m) => InGap(s, m)
    BY <1>1, <2>2, <2>4 DEF InGap
  <2>9. Len(t) <= MaxNumberOfGaps
    BY <1>1, <2>2, GapsAssumption
  <2> QED BY <2>1, <2>2, <2>5, <2>6, <2>7, <2>8, <2>9 DEF GoodGaps, Ascending
<1> QED
  BY <1>2, <1>3

-----------------------------------------------------------------------------
(***************************************************************************)
(* The invariant                                                           *)
(***************************************************************************)
IInv == /\ TypeOK
        /\ GapsAscend
        /\ NeverForgetsAll
        /\ AcceptedNotInGaps

\* After the first call the field gaps is well formed and not empty.
LEMMA GoodWhenNotEmpty ==
    ASSUME TypeOK, GapsAscend, gaps # <<>>
    PROVE  GoodGaps(gaps)
  BY DEF TypeOK, GapsAscend, GoodGaps

\* A new detector has no gaps and has accepted nothing.
LEMMA InitIInv == Init => IInv
<1> SUFFICES ASSUME Init PROVE IInv
  OBVIOUS
<1>1. /\ gaps = <<>>
      /\ accepted = {}
      /\ <<>> \in Seq(Gap)
      /\ Len(<<>>) = 0
      /\ DOMAIN <<>> = {}
  BY DEF Init
<1>2. TypeOK
  BY <1>1 DEF Init, TypeOK
<1>3. GapsAscend
  BY <1>1, GapsAssumption DEF GapsAscend, Ascending
<1> QED
  BY <1>1, <1>2, <1>3 DEF IInv, NeverForgetsAll, AcceptedNotInGaps

\* Accepting a number keeps the invariant when the new gaps are well formed,
\* add nothing to the old ones and leave the number out.
LEMMA AcceptKeepsIInv ==
    ASSUME IInv, NEW number \in Number, NEW newGaps,
           Accept(number, newGaps),
           first' \in Number \cup {NoNumber}, forgot' \in BOOLEAN,
           GoodGaps(newGaps), Len(newGaps) <= MaxNumberOfGaps,
           \A m \in Number : InGap(newGaps, m) => InGap(gaps, m) \/ gaps = <<>>,
           ~ InGap(newGaps, number)
    PROVE  IInv'
<1>1. /\ gaps' = newGaps
      /\ outcome' = "new"
      /\ accepted' = accepted \cup {number}
  BY DEF Accept
<1>2. TypeOK'
  BY <1>1 DEF IInv, TypeOK, GoodGaps
<1>3. GapsAscend'
  BY <1>1 DEF GapsAscend, GoodGaps
<1>4. NeverForgetsAll'
  BY <1>1 DEF NeverForgetsAll, GoodGaps
<1>5. AcceptedNotInGaps'
  <2> SUFFICES ASSUME NEW m \in accepted', InGap(newGaps, m)
               PROVE  FALSE
    BY <1>1 DEF AcceptedNotInGaps
  <2>1. CASE m = number
    BY <2>1
  <2>2. CASE m \in accepted
    BY <2>2 DEF IInv, TypeOK, AcceptedNotInGaps, NeverForgetsAll
  <2> QED BY <1>1, <2>1, <2>2
<1> QED
  BY <1>2, <1>3, <1>4, <1>5 DEF IInv

\* A call that returns false or throws changes nothing.
LEMMA RefuseKeepsIInv ==
    ASSUME IInv, NEW how \in {"duplicate", "InvalidNumberingError", "GapMisMatchError"},
           Refuse(how)
    PROVE  IInv'
  BY DEF Refuse, IInv, TypeOK, GapsAscend, NeverForgetsAll, AcceptedNotInGaps

\* The first call accepts its number and opens the gap above it.
LEMMA FirstKeepsIInv ==
    ASSUME IInv, NEW number \in Number, NEW previousNumber,
           FirstNumber(previousNumber, number)
    PROVE  IInv'
<1> DEFINE s == <<<<number, Infinity>>>>
<1>1. number \in Nat /\ number < Infinity
  BY InfinityAssumption DEF Number
<1>2. <<number, Infinity>> \in Gap
  BY <1>1, InfinityAssumption DEF Gap, Number
<1>3. /\ s \in Seq(Gap)
      /\ Len(s) = 1
      /\ DOMAIN s = {1}
      /\ s[1] = <<number, Infinity>>
  BY <1>2
<1> HIDE DEF s
<1>4. GoodGaps(s)
  BY <1>1, <1>3 DEF GoodGaps, Ascending
<1>5. ~ InGap(s, number)
  BY <1>1, <1>3 DEF InGap
<1>6. /\ Accept(number, s)
      /\ gaps = <<>>
      /\ first' = number
      /\ forgot' = forgot
  BY DEF FirstNumber, s
<1>7. /\ first' \in Number \cup {NoNumber}
      /\ forgot' \in BOOLEAN
      /\ Len(s) <= MaxNumberOfGaps
  BY <1>3, <1>6, GapsAssumption DEF IInv, TypeOK
<1> QED
  BY <1>4, <1>5, <1>6, <1>7, AcceptKeepsIInv

\* A message without a previous one moves the start of the last gap.
LEMMA LastGapMoved ==
    ASSUME NEW s, GoodGaps(s), NEW number \in Number, number > s[Len(s)][1]
    PROVE  LET t == [s EXCEPT ![Len(s)] = <<number, @[2]>>]
           IN  /\ GoodGaps(t)
               /\ Len(t) = Len(s)
               /\ \A m \in Number : InGap(t, m) => InGap(s, m)
               /\ ~ InGap(t, number)
<1> DEFINE last == Len(s)
           t == [s EXCEPT ![last] = <<number, @[2]>>]
<1>1. /\ s \in Seq(Gap)
      /\ last \in Nat /\ last >= 1
      /\ DOMAIN s = 1 .. last
      /\ s[last][2] = Infinity
  BY DEF GoodGaps
<1>2. number \in Nat /\ number < Infinity
  BY InfinityAssumption DEF Number
<1>3. <<number, Infinity>> \in Gap
  BY <1>2, InfinityAssumption DEF Gap, Number
<1>4. /\ t \in Seq(Gap)
      /\ Len(t) = last
      /\ DOMAIN t = 1 .. last
      /\ t[last] = <<number, Infinity>>
      /\ \A k \in 1 .. last : k # last => t[k] = s[k]
  <2>1. last \in 1 .. last
    BY <1>1
  <2>2. <<number, s[last][2]>> = <<number, Infinity>>
    BY <1>1
  <2>3. t = [s EXCEPT ![last] = <<number, Infinity>>]
    BY <2>2
  <2> HIDE DEF last, t
  <2>4. t \in Seq(Gap) /\ Len(t) = Len(s)
    BY <1>1, <1>3, <2>1, <2>3, ExceptSeq
  <2>5. t[last] = <<number, Infinity>>
    BY <1>1, <2>1, <2>3
  <2>6. \A k \in 1 .. last : k # last => t[k] = s[k]
    BY <1>1, <2>3
  <2>7. DOMAIN t = 1 .. Len(t)
    BY <2>4
  <2>8. Len(t) = last
    BY <2>4 DEF last
  <2> QED BY <2>4, <2>5, <2>6, <2>7, <2>8
<1>5. \A k \in 1 .. last : s[k][1] \in Nat /\ s[k][2] \in Nat
  <2>1. \A k \in 1 .. last : s[k] \in Gap
    BY <1>1
  <2> QED BY <2>1, GapBounds
<1>6. \A k \in 1 .. last : k # last => s[k][2] < s[last][1]
  <2> SUFFICES ASSUME NEW k \in 1 .. last, k # last
               PROVE  s[k][2] < s[last][1]
    OBVIOUS
  <2> HIDE DEF last, t
  <2>1. last \in 1 .. last /\ k < last
    BY <1>1
  <2> QED BY <1>1, <2>1 DEF GoodGaps, Ascending
<1> HIDE DEF t, last
<1>7. \A k \in 1 .. last : t[k][1] < t[k][2]
  <2> SUFFICES ASSUME NEW k \in 1 .. last
               PROVE  t[k][1] < t[k][2]
    OBVIOUS
  <2>1. CASE k = last
    BY <1>2, <1>4, <2>1
  <2>2. CASE k # last
    <3>1. t[k] = s[k]
      BY <1>4, <2>2
    <3>2. s[k][1] < s[k][2]
      BY <1>1 DEF GoodGaps, Ascending
    <3> QED BY <3>1, <3>2
  <2> QED BY <2>1, <2>2
<1>8. \A j, k \in 1 .. last : j < k => t[j][2] < t[k][1]
  <2> SUFFICES ASSUME NEW j \in 1 .. last, NEW k \in 1 .. last, j < k
               PROVE  t[j][2] < t[k][1]
    OBVIOUS
  <2>1. t[j] = s[j]
    BY <1>1, <1>4
  <2>2. s[j][2] < s[k][1]
    BY <1>1 DEF GoodGaps, Ascending
  <2>3. CASE k = last
    <3>1. number > s[last][1] /\ s[last][1] \in Nat /\ s[j][2] \in Nat
      BY <1>1, <1>5 DEF last
    <3> QED BY <1>2, <1>4, <2>1, <2>2, <2>3, <3>1
  <2>4. CASE k # last
    BY <1>4, <2>1, <2>2, <2>4
  <2> QED BY <2>3, <2>4
<1>9. GoodGaps(t)
  BY <1>1, <1>4, <1>7, <1>8 DEF GoodGaps, Ascending
<1>10. \A m \in Number : InGap(t, m) => InGap(s, m)
  <2> SUFFICES ASSUME NEW m \in Number, NEW k \in 1 .. last,
                      t[k][1] < m, m <= t[k][2]
               PROVE  InGap(s, m)
    BY <1>4 DEF InGap
  <2>1. m \in Nat
    BY InfinityAssumption DEF Number
  <2>2. CASE k = last
    <3>1. s[last][1] \in Nat /\ s[last][1] < number /\ last \in DOMAIN s
      BY <1>1, <1>5 DEF last
    <3>2. s[last][1] < m /\ m <= s[last][2]
      BY <1>1, <1>2, <1>4, <2>1, <2>2, <3>1
    <3> QED BY <3>1, <3>2 DEF InGap
  <2>3. CASE k # last
    BY <1>1, <1>4, <2>3 DEF InGap
  <2> QED BY <2>2, <2>3
<1>11. ~ InGap(t, number)
  <2> SUFFICES ASSUME NEW k \in 1 .. last, t[k][1] < number, number <= t[k][2]
               PROVE  FALSE
    BY <1>4 DEF InGap
  <2>1. CASE k = last
    BY <1>2, <1>4, <2>1
  <2>2. CASE k # last
    <3>1. t[k] = s[k] /\ s[k][2] < s[last][1]
      BY <1>4, <1>6, <2>2
    <3>2. s[last][1] < number /\ s[last][1] \in Nat /\ s[k][2] \in Nat
      BY <1>1, <1>5 DEF last
    <3> QED BY <1>2, <3>1, <3>2
  <2> QED BY <2>1, <2>2
<1> QED
  BY <1>4, <1>9, <1>10, <1>11 DEF t, last

\* A call without previousNumber only moves the start of the last gap up.
LEMMA WithoutPreviousKeepsIInv ==
    ASSUME IInv, NEW number \in Number, WithoutPrevious(number)
    PROVE  IInv'
<1> DEFINE last == Len(gaps)
           t == [gaps EXCEPT ![last] = <<number, @[2]>>]
<1>1. GoodGaps(gaps)
  BY GoodWhenNotEmpty DEF IInv, WithoutPrevious
<1>2. CASE number > gaps[last][1]
  <2>1. /\ Accept(number, t)
        /\ forgot' = (forgot \/ number > gaps[last][1] + 1)
        /\ first' = first
    BY <1>2 DEF WithoutPrevious
  <2>2. first' \in Number \cup {NoNumber} /\ forgot' \in BOOLEAN
    BY <2>1 DEF IInv, TypeOK
  <2>3. /\ GoodGaps(t)
        /\ Len(t) = Len(gaps)
        /\ \A m \in Number : InGap(t, m) => InGap(gaps, m)
        /\ ~ InGap(t, number)
    BY <1>1, <1>2, LastGapMoved
  <2> HIDE DEF t
  <2>4. Len(t) <= MaxNumberOfGaps
    BY <2>3 DEF IInv, GapsAscend
  <2> QED BY <2>1, <2>2, <2>3, <2>4, AcceptKeepsIInv
<1>3. CASE ~ (number > gaps[last][1])
  <2>1. Refuse("duplicate")
    BY <1>3 DEF WithoutPrevious
  <2> QED BY <2>1, RefuseKeepsIInv
<1> QED
  BY <1>2, <1>3

\* The branch of WithPrevious that accepts, for the gap i it stops at.
Fills(previousNumber, number, i) ==
    /\ i \in DOMAIN gaps
    /\ previousNumber < gaps[i][2]
    /\ previousNumber >= gaps[i][1]
    /\ number <= gaps[i][2]
    /\ LET s == Splice(gaps, i, Remains(gaps[i], previousNumber, number))
       IN  /\ Accept(number, DropLowestGap(s))
           /\ forgot' = (forgot \/ Len(s) > MaxNumberOfGaps
                                 \/ number > previousNumber + 1)
    /\ first' = first

\* A call with previousNumber changes nothing or fills part of one gap.
LEMMA WithPreviousFillsOrRefuses ==
    ASSUME NEW number, NEW previousNumber, WithPrevious(previousNumber, number)
    PROVE  \/ Refuse("duplicate")
           \/ Refuse("GapMisMatchError")
           \/ \E i \in DOMAIN gaps : Fills(previousNumber, number, i)
  BY DEF WithPrevious, StopAt, Fills

\* Filling part of a gap, and dropping the lowest gap when there are too many,
\* keeps the invariant.
LEMMA FillsKeepsIInv ==
    ASSUME IInv, gaps # <<>>,
           NEW number \in Number, NEW previousNumber \in Number,
           previousNumber < number,
           NEW i \in DOMAIN gaps, Fills(previousNumber, number, i)
    PROVE  IInv'
<1> DEFINE s == Splice(gaps, i, Remains(gaps[i], previousNumber, number))
           t == DropLowestGap(s)
<1>1. GoodGaps(gaps)
  BY GoodWhenNotEmpty DEF IInv
<1>2. /\ Accept(number, t)
      /\ forgot' = (forgot \/ Len(s) > MaxNumberOfGaps
                            \/ number > previousNumber + 1)
      /\ first' = first
  BY DEF Fills
<1>3. /\ gaps[i] \in Gap
      /\ gaps[i][1] \in Nat /\ gaps[i][2] \in Nat
      /\ previousNumber \in Nat
  <2>1. gaps[i] \in Gap
    BY <1>1 DEF GoodGaps
  <2> QED BY <2>1, GapBounds, InfinityAssumption DEF Number
<1>4. /\ gaps[i][1] <= previousNumber
      /\ previousNumber < gaps[i][2]
      /\ number <= gaps[i][2]
  BY <1>3 DEF Fills
<1>5. /\ GoodGaps(s)
      /\ Len(s) <= Len(gaps) + 1
      /\ \A m \in Number : InGap(s, m) => InGap(gaps, m)
      /\ ~ InGap(s, number)
  BY <1>1, <1>4, SpliceGood
<1> HIDE DEF s
<1>6. Len(s) <= MaxNumberOfGaps + 1
  <2>1. Len(s) \in Nat /\ Len(gaps) \in Nat /\ Len(gaps) <= MaxNumberOfGaps
    BY <1>1, <1>5 DEF GoodGaps, IInv, GapsAscend
  <2> QED BY <1>5, <2>1, GapsAssumption
<1>7. /\ GoodGaps(t)
      /\ Len(t) <= MaxNumberOfGaps
      /\ \A m : InGap(t, m) => InGap(s, m)
  BY <1>5, <1>6, DropGood
<1> HIDE DEF t
<1>8. first' \in Number \cup {NoNumber} /\ forgot' \in BOOLEAN
  BY <1>2 DEF IInv, TypeOK
<1> QED
  BY <1>2, <1>5, <1>7, <1>8, AcceptKeepsIInv

\* So does every call of markAndCheck.
LEMMA MarkAndCheckKeepsIInv ==
    ASSUME IInv, NEW number \in Number,
           NEW previousNumber \in Number \cup {NoNumber},
           MarkAndCheck(previousNumber, number)
    PROVE  IInv'
<1>1. CASE InvalidNumbering(previousNumber, number)
  BY <1>1, RefuseKeepsIInv DEF InvalidNumbering
<1>2. CASE FirstNumber(previousNumber, number)
  BY <1>2, FirstKeepsIInv
<1>3. CASE previousNumber = NoNumber /\ WithoutPrevious(number)
  BY <1>3, WithoutPreviousKeepsIInv
<1>4. CASE WithPrevious(previousNumber, number)
  <2>1. /\ previousNumber \in Number
        /\ previousNumber < number
        /\ gaps # <<>>
    BY <1>4 DEF WithPrevious
  <2>2. CASE \E i \in DOMAIN gaps : Fills(previousNumber, number, i)
    BY <2>1, <2>2, FillsKeepsIInv
  <2> QED BY <1>4, <2>2, WithPreviousFillsOrRefuses, RefuseKeepsIInv
<1> QED
  BY <1>1, <1>2, <1>3, <1>4 DEF MarkAndCheck

\* Every step keeps the invariant.
LEMMA NextIInv == IInv /\ [Next]_vars => IInv'
<1> SUFFICES ASSUME IInv, [Next]_vars PROVE IInv'
  OBVIOUS
<1>1. CASE Next
  BY <1>1, MarkAndCheckKeepsIInv DEF Next
<1>2. CASE UNCHANGED vars
  BY <1>2 DEF IInv, TypeOK, GapsAscend, NeverForgetsAll, AcceptedNotInGaps, vars
<1> QED
  BY <1>1, <1>2

-----------------------------------------------------------------------------
(***************************************************************************)
(* The theorems                                                            *)
(***************************************************************************)
\* The invariant holds for messages that are numbered in any way.
THEOREM DetectorInvariant == Spec => []IInv
<1> QED
  BY InitIInv, NextIInv, PTL DEF Spec

\* The field gaps is what the comment at lines 143-148 says it is.
THEOREM AlwaysAscending == Spec => []GapsAscend
<1>1. IInv => GapsAscend
  BY DEF IInv
<1> QED
  BY <1>1, DetectorInvariant, PTL

\* The field gaps always holds pairs of numbers, and accepted only numbers.
THEOREM TypeCorrect == Spec => []TypeOK
<1>1. IInv => TypeOK
  BY DEF IInv
<1> QED
  BY <1>1, DetectorInvariant, PTL

\* What was accepted is in no gap.
THEOREM AcceptedLeavesGaps == Spec => []AcceptedNotInGaps
<1>1. IInv => AcceptedNotInGaps
  BY DEF IInv
<1> QED
  BY <1>1, DetectorInvariant, PTL

\* A number that is reported as new lies in a gap, or is the first of all.
LEMMA NewIsInGap ==
    ASSUME IInv, NEW number \in Number,
           NEW previousNumber \in Number \cup {NoNumber},
           MarkAndCheck(previousNumber, number), outcome' = "new"
    PROVE  gaps = <<>> \/ InGap(gaps, number)
<1>1. ~ Refuse("duplicate") /\ ~ Refuse("InvalidNumberingError")
                            /\ ~ Refuse("GapMisMatchError")
  BY DEF Refuse
<1>2. CASE FirstNumber(previousNumber, number)
  BY <1>2 DEF FirstNumber
<1>3. CASE WithoutPrevious(number)
  <2>1. GoodGaps(gaps)
    BY <1>3, GoodWhenNotEmpty DEF IInv, WithoutPrevious
  <2>2. /\ Len(gaps) \in DOMAIN gaps
        /\ gaps[Len(gaps)][2] = Infinity
        /\ gaps[Len(gaps)] \in Gap
    BY <2>1 DEF GoodGaps
  <2>3. gaps[Len(gaps)][1] < number
    <3>1. number > gaps[Len(gaps)][1]
      BY <1>1, <1>3 DEF WithoutPrevious
    <3> QED BY <2>2, <3>1, GapBounds, InfinityAssumption DEF Number
  <2>4. number <= Infinity
    BY InfinityAssumption DEF Number
  <2> QED BY <2>2, <2>3, <2>4 DEF InGap
<1>4. CASE WithPrevious(previousNumber, number)
  <2>1. PICK i \in DOMAIN gaps : Fills(previousNumber, number, i)
    BY <1>1, <1>4, WithPreviousFillsOrRefuses
  <2>2. /\ previousNumber \in Number
        /\ previousNumber < number
        /\ gaps # <<>>
    BY <1>4 DEF WithPrevious
  <2>3. gaps[i] \in Gap
    BY <2>2, GoodWhenNotEmpty DEF IInv, GoodGaps
  <2>4. gaps[i][1] < number
    BY <2>1, <2>2, <2>3, GapBounds, InfinityAssumption DEF Fills, Number
  <2> QED BY <2>1, <2>4 DEF Fills, InGap
<1> QED
  BY <1>1, <1>2, <1>3, <1>4 DEF MarkAndCheck, InvalidNumbering

\* No number is accepted twice, however messages are numbered, reordered and
\* repeated: no message is propagated in circles.
THEOREM NeverAcceptedTwice == Spec => AcceptedOnce
<1> DEFINE Once == \A number \in Number, previousNumber \in Number \cup {NoNumber} :
                     MarkAndCheck(previousNumber, number) /\ outcome' = "new" =>
                         number \notin accepted
<1>1. IInv /\ [Next]_vars => [Once]_vars
  <2> SUFFICES ASSUME IInv,
                      NEW number \in Number,
                      NEW previousNumber \in Number \cup {NoNumber},
                      MarkAndCheck(previousNumber, number), outcome' = "new",
                      number \in accepted
               PROVE  FALSE
    OBVIOUS
  <2>1. gaps = <<>> \/ InGap(gaps, number)
    BY NewIsInGap
  <2> QED BY <2>1 DEF IInv, NeverForgetsAll, AcceptedNotInGaps
<1> QED
  BY <1>1, DetectorInvariant, PTL DEF Spec, AcceptedOnce

\* A message that refers to the one just before it never causes an error,
\* whatever was lost, repeated or numbered wrongly before.
THEOREM ConsistentNeverErrs == Spec => NoErrors
<1> DEFINE Fine == \A number \in Number :
                     MarkAndCheck(number - 1, number) =>
                         outcome' \notin {"InvalidNumberingError", "GapMisMatchError"}
<1>1. IInv /\ [Next]_vars => [Fine]_vars
  <2> SUFFICES ASSUME IInv, NEW number \in Number, MarkAndCheck(number - 1, number)
               PROVE  outcome' \notin {"InvalidNumberingError", "GapMisMatchError"}
    OBVIOUS
  <2>2. number \in Int /\ ~ (number - 1 >= number) /\ number >= 0
    BY InfinityAssumption DEF Number
  <2>3. CASE FirstNumber(number - 1, number)
    BY <2>3 DEF FirstNumber, Accept
  <2>4. CASE WithoutPrevious(number)
    BY <2>4 DEF WithoutPrevious, Accept, Refuse
  <2>5. CASE WithPrevious(number - 1, number)
    <3>1. ASSUME NEW i \in DOMAIN gaps, StopAt(gaps, number - 1, number, i),
                 number - 1 < gaps[i][2],
                 number - 1 < gaps[i][1] \/ number > gaps[i][2]
          PROVE  FALSE
      <4>1. gaps[i] \in Gap
        BY <2>5, GoodWhenNotEmpty DEF IInv, WithPrevious, GoodGaps
      <4>2. gaps[i][1] \in Int /\ gaps[i][2] \in Int
        BY <4>1, GapBounds
      <4>3. Stops(gaps[i], number - 1, number)
        BY <3>1 DEF StopAt
      <4> QED BY <2>2, <3>1, <4>2, <4>3 DEF Stops
    <3>2. \/ Refuse("duplicate")
          \/ \E i \in DOMAIN gaps : Fills(number - 1, number, i)
      BY <2>5, <3>1 DEF WithPrevious, Fills, StopAt
    <3> QED BY <3>2 DEF Refuse, Fills, Accept
  <2> QED BY <2>2, <2>3, <2>4, <2>5 DEF MarkAndCheck, InvalidNumbering
<1> QED
  BY <1>1, DetectorInvariant, PTL DEF Spec, NoErrors
-----------------------------------------------------------------------------
(***************************************************************************)
(* Nothing is lost                                                         *)
(***************************************************************************)
\* When the number after previousNumber arrives, what remains of a gap still
\* holds every other number of it.
LEMMA RemainsHoldsTheRest ==
    ASSUME NEW gap \in Gap,
           NEW previousNumber \in Number, NEW number \in Number,
           number = previousNumber + 1,
           gap[1] <= previousNumber, number <= gap[2],
           NEW m \in Number, gap[1] < m, m <= gap[2], m # number
    PROVE  LET new == Remains(gap, previousNumber, number)
           IN  \E k \in 1 .. Len(new) : new[k][1] < m /\ m <= new[k][2]
<1> DEFINE below == <<gap[1], previousNumber>>
           above == <<number, gap[2]>>
           new == Remains(gap, previousNumber, number)
<1>1. /\ gap[1] \in Nat /\ gap[2] \in Nat
      /\ previousNumber \in Nat /\ number \in Nat /\ m \in Nat
  BY GapBounds, InfinityAssumption DEF Number
<1>2. CASE m <= previousNumber
  <2>1. previousNumber # gap[1]
    BY <1>1, <1>2
  <2>2. new = <<below>> \/ new = <<below, above>>
    BY <2>1 DEF Remains
  <2>3. 1 \in 1 .. Len(new) /\ new[1] = below
    BY <2>2
  <2>4. below[1] < m /\ m <= below[2]
    BY <1>2
  <2> HIDE DEF new, below
  <2>5. \E k \in 1 .. Len(new) : new[k][1] < m /\ m <= new[k][2]
    BY <2>3, <2>4
  <2> QED BY <2>5 DEF new
<1>3. CASE ~ (m <= previousNumber)
  <2>1. number < m /\ number # gap[2]
    BY <1>1, <1>3
  <2>2. new = <<above>> \/ new = <<below, above>>
    BY <2>1 DEF Remains
  <2>3. \E k \in 1 .. Len(new) : new[k] = above
    <3>1. CASE new = <<above>>
      <4>1. 1 \in 1 .. Len(new) /\ new[1] = above
        BY <3>1
      <4> HIDE DEF new, above
      <4> QED BY <4>1
    <3>2. CASE new = <<below, above>>
      <4>1. 2 \in 1 .. Len(new) /\ new[2] = above
        BY <3>2
      <4> HIDE DEF new, above
      <4> QED BY <4>1
    <3> QED BY <2>2, <3>1, <3>2
  <2>4. above[1] < m /\ m <= above[2]
    BY <2>1
  <2> HIDE DEF new, above
  <2>5. \E k \in 1 .. Len(new) : new[k][1] < m /\ m <= new[k][2]
    BY <2>3, <2>4
  <2> QED BY <2>5 DEF new
<1> QED
  BY <1>2, <1>3

\* Splicing leaves out the i-th element only.
LEMMA SpliceLeavesOut ==
    ASSUME NEW s \in Seq(Gap), NEW i \in 1 .. Len(s), NEW new \in Seq(Gap),
           NEW n, n = Len(new),
           NEW t, t = Splice(s, i, new)
    PROVE  /\ \A l \in 1 .. n : \E q \in DOMAIN t : t[q] = new[l]
           /\ \A k \in 1 .. Len(s) : k # i => \E q \in DOMAIN t : t[q] = s[k]
<1> DEFINE size == Len(s)
<1>1. /\ t \in Seq(Gap)
      /\ Len(t) = size - 1 + n
      /\ \A q \in 1 .. i - 1 : t[q] = s[q]
      /\ \A q \in i .. i + n - 1 : t[q] = new[q - i + 1]
      /\ \A q \in i + n .. Len(t) : t[q] = s[q - n + 1]
  <2>1. IsSpliced(Gap, s, i, new, n, t)
    BY SpliceElements
  <2> HIDE DEF size
  <2> QED BY <2>1 DEF IsSpliced, size
<1>2. i \in Nat /\ n \in Nat /\ size \in Nat /\ 1 <= i /\ i <= size
  BY LenProperties
<1> HIDE DEF size
<1>3. DOMAIN t = 1 .. size - 1 + n
  BY <1>1, LenProperties
<1>4. ASSUME NEW l \in 1 .. n PROVE \E q \in DOMAIN t : t[q] = new[l]
  <2>1. PICK q \in Int : q = l + i - 1
    BY <1>2
  <2>2. q \in i .. i + n - 1 /\ q - i + 1 = l /\ q \in 1 .. size - 1 + n
    BY <1>2, <2>1
  <2> QED BY <1>1, <1>3, <2>2
<1>5. ASSUME NEW k \in 1 .. size, k # i PROVE \E q \in DOMAIN t : t[q] = s[k]
  <2>1. CASE k < i
    <3>1. k \in 1 .. i - 1 /\ k \in 1 .. size - 1 + n
      BY <1>2, <2>1
    <3> QED BY <1>1, <1>3, <3>1
  <2>2. CASE i < k
    <3>1. PICK q \in Int : q = k + n - 1
      <4>1. k + n - 1 \in Int
        BY <1>2
      <4> QED BY <4>1
    <3>2. q \in i + n .. Len(t) /\ q - n + 1 = k /\ q \in 1 .. size - 1 + n
      BY <1>1, <1>2, <2>2, <3>1
    <3>3. t[q] = s[q - n + 1]
      BY <1>1, <3>2
    <3> QED BY <1>3, <3>2, <3>3
  <2> QED BY <1>2, <1>5, <2>1, <2>2
<1> QED BY <1>1, <1>4, <1>5 DEF size

\* Splicing it in, every number that was in a gap still is, but the one that
\* arrived.
LEMMA SpliceHoldsTheRest ==
    ASSUME NEW s, GoodGaps(s), NEW i \in DOMAIN s,
           NEW previousNumber \in Number, NEW number \in Number,
           number = previousNumber + 1,
           s[i][1] <= previousNumber, number <= s[i][2],
           NEW m \in Number, InGap(s, m), m # number
    PROVE  InGap(Splice(s, i, Remains(s[i], previousNumber, number)), m)
<1> DEFINE new == Remains(s[i], previousNumber, number)
           n == Len(new)
           t == Splice(s, i, new)
<1>1. /\ s \in Seq(Gap)
      /\ DOMAIN s = 1 .. Len(s)
      /\ Len(s) \in Nat
      /\ i \in 1 .. Len(s)
      /\ s[i] \in Gap
  BY DEF GoodGaps
<1>2. s[i][1] < s[i][2] /\ previousNumber < number /\ previousNumber < s[i][2]
  <2>1. s[i][1] \in Nat /\ s[i][2] \in Nat /\ previousNumber \in Nat
    BY <1>1, GapBounds, InfinityAssumption DEF Number
  <2> QED BY <2>1
<1>3. new \in Seq(Gap)
  BY <1>1, <1>2, RemainsInside
<1>4. PICK k \in 1 .. Len(s) : s[k][1] < m /\ m <= s[k][2]
  BY <1>1 DEF InGap
<1>5. k = i => \E l \in 1 .. n : new[l][1] < m /\ m <= new[l][2]
  BY <1>1, <1>4, RemainsHoldsTheRest
<1>6. n = Len(new) /\ t = Splice(s, i, new)
  OBVIOUS
<1> HIDE DEF new, n, t
<1>7. /\ \A l \in 1 .. n : \E q \in DOMAIN t : t[q] = new[l]
      /\ \A j \in 1 .. Len(s) : j # i => \E q \in DOMAIN t : t[q] = s[j]
  <2>1. s \in Seq(Gap) /\ new \in Seq(Gap) /\ i \in 1 .. Len(s)
    BY <1>1, <1>3
  <2> QED BY <1>6, <2>1, SpliceLeavesOut
<1>8. PICK q \in DOMAIN t : t[q][1] < m /\ m <= t[q][2]
  <2>1. CASE k = i
    <3>1. PICK l \in 1 .. n : new[l][1] < m /\ m <= new[l][2]
      BY <1>5, <2>1
    <3>2. PICK q \in DOMAIN t : t[q] = new[l]
      BY <1>7
    <3> QED BY <3>1, <3>2
  <2>2. CASE k # i
    <3>1. PICK q \in DOMAIN t : t[q] = s[k]
      BY <1>7, <2>2
    <3> QED BY <1>4, <3>1
  <2> QED BY <2>1, <2>2
<1>9. InGap(t, m)
  BY <1>8 DEF InGap
<1> QED
  BY <1>6, <1>9 DEF new

\* Moving the start of the last gap up by one leaves out one number.
LEMMA LastGapHoldsTheRest ==
    ASSUME NEW s, GoodGaps(s), NEW number \in Number, number = s[Len(s)][1] + 1,
           NEW m \in Number, InGap(s, m), m # number
    PROVE  InGap([s EXCEPT ![Len(s)] = <<number, @[2]>>], m)
<1> DEFINE last == Len(s)
           t == [s EXCEPT ![last] = <<number, @[2]>>]
<1>1. /\ s \in Seq(Gap)
      /\ last \in Nat /\ last \in 1 .. last
      /\ DOMAIN s = 1 .. last
      /\ DOMAIN t = 1 .. last
  BY DEF GoodGaps
<1>2. PICK k \in 1 .. last : s[k][1] < m /\ m <= s[k][2]
  BY <1>1 DEF InGap
<1>3. CASE k = last
  <2>1. t[last][1] = number /\ t[last][2] = s[last][2]
    BY <1>1
  <2>2. s[last][1] \in Nat /\ s[last][2] \in Nat /\ m \in Nat
    BY <1>1, GapBounds, InfinityAssumption DEF Number
  <2>3. number < m
    BY <1>2, <1>3, <2>2
  <2>4. t[last][1] < m /\ m <= t[last][2]
    BY <1>2, <1>3, <2>1, <2>3
  <2> HIDE DEF t
  <2>5. InGap(t, m)
    BY <1>1, <2>4 DEF InGap
  <2> QED BY <2>5 DEF t
<1>4. CASE k # last
  <2>1. t[k] = s[k]
    BY <1>1, <1>4
  <2> HIDE DEF t
  <2>2. InGap(t, m)
    BY <1>1, <1>2, <2>1 DEF InGap
  <2> QED BY <2>2 DEF t
<1> QED
  BY <1>3, <1>4

\* A call that accepts loses no other number, unless it forgets one.
LEMMA MarkAndCheckLosesNothing ==
    ASSUME IInv, NothingLost,
           NEW number \in Number, NEW previousNumber \in Number \cup {NoNumber},
           MarkAndCheck(previousNumber, number)
    PROVE  NothingLost'
<1>1. ASSUME UNCHANGED <<gaps, accepted, first, forgot>> PROVE NothingLost'
  BY <1>1 DEF NothingLost
<1>2. CASE FirstNumber(previousNumber, number)
  <2>1. gaps' = <<<<number, Infinity>>>> /\ first' = number
    BY <1>2 DEF FirstNumber, Accept
  <2>2. \A m \in Number : m > number => number < m /\ m <= Infinity
    BY InfinityAssumption DEF Number
  <2>3. \A m \in Number : m > number => InGap(gaps', m)
    <3> SUFFICES ASSUME NEW m \in Number, m > number PROVE InGap(gaps', m)
      OBVIOUS
    <3>1. 1 \in DOMAIN gaps' /\ gaps'[1] = <<number, Infinity>>
      BY <2>1
    <3>2. gaps'[1][1] < m /\ m <= gaps'[1][2]
      BY <2>2, <3>1
    <3> QED BY <3>1, <3>2 DEF InGap
  <2> QED BY <2>1, <2>3 DEF NothingLost
<1>3. ASSUME NEW s, Accept(number, s), first' = first, forgot' = FALSE => forgot = FALSE,
             ~ forgot' => \A m \in Number : InGap(gaps, m) /\ m # number => InGap(s, m)
      PROVE  NothingLost'
  <2> SUFFICES ASSUME first' # NoNumber, ~ forgot', NEW m \in Number, m > first'
               PROVE  m \in accepted' \/ InGap(gaps', m)
    BY DEF NothingLost
  <2>1. gaps' = s /\ accepted' = accepted \cup {number}
    BY <1>3 DEF Accept
  <2>2. ~ forgot
    BY <1>2, <1>3
  <2>3. m \in accepted \/ InGap(gaps, m)
    BY <1>3, <2>2 DEF NothingLost
  <2> QED BY <1>3, <2>1, <2>3
<1>4. CASE WithoutPrevious(number) /\ number > gaps[Len(gaps)][1]
  <2> DEFINE last == Len(gaps)
             t == [gaps EXCEPT ![last] = <<number, @[2]>>]
  <2>1. /\ Accept(number, t)
        /\ forgot' = (forgot \/ number > gaps[last][1] + 1)
        /\ first' = first
    BY <1>4 DEF WithoutPrevious
  <2>2. GoodGaps(gaps)
    BY <1>4, GoodWhenNotEmpty DEF IInv, WithoutPrevious
  <2>3. ~ forgot' => number = gaps[last][1] + 1
    <3>1. gaps[last] \in Gap
      BY <2>2 DEF GoodGaps
    <3>2. gaps[last][1] \in Nat /\ number \in Nat
      BY <3>1, GapBounds, InfinityAssumption DEF Number
    <3>3. ~ forgot' => ~ (number > gaps[last][1] + 1)
      BY <2>1, Zenon
    <3> QED BY <1>4, <3>2, <3>3
  <2>4. ~ forgot' => \A m \in Number : InGap(gaps, m) /\ m # number => InGap(t, m)
    BY <2>2, <2>3, LastGapHoldsTheRest
  <2> HIDE DEF t
  <2>5. forgot' = FALSE => forgot = FALSE
    BY <2>1 DEF IInv, TypeOK
  <2> QED BY <1>3, <2>1, <2>4, <2>5
<1>5. ASSUME WithPrevious(previousNumber, number),
             NEW i \in DOMAIN gaps, Fills(previousNumber, number, i)
      PROVE  NothingLost'
  <2> DEFINE s == Splice(gaps, i, Remains(gaps[i], previousNumber, number))
  <2>1. /\ Accept(number, DropLowestGap(s))
        /\ forgot' = (forgot \/ Len(s) > MaxNumberOfGaps \/ number > previousNumber + 1)
        /\ first' = first
    BY <1>5 DEF Fills
  <2>2. GoodGaps(gaps) /\ previousNumber \in Number /\ previousNumber < number
    BY <1>5, GoodWhenNotEmpty DEF IInv, WithPrevious
  <2>3. ~ forgot' => number = previousNumber + 1
    <3>1. ~ forgot' => ~ (number > previousNumber + 1)
      BY <2>1, Zenon
    <3>2. number \in Nat /\ previousNumber \in Nat
      BY <2>2, InfinityAssumption DEF Number
    <3> HIDE DEF s
    <3> QED BY <2>2, <3>1, <3>2
  <2>4. gaps[i][1] <= previousNumber /\ number <= gaps[i][2]
    <3>1. gaps[i] \in Gap
      BY <2>2 DEF GoodGaps
    <3>2. gaps[i][1] \in Nat /\ previousNumber \in Nat
      BY <2>2, <3>1, GapBounds, InfinityAssumption DEF Number
    <3> QED BY <1>5, <3>2 DEF Fills
  <2>5. ~ forgot' => \A m \in Number : InGap(gaps, m) /\ m # number => InGap(s, m)
    BY <2>2, <2>3, <2>4, SpliceHoldsTheRest
  <2> HIDE DEF s
  <2>6. ~ forgot' => DropLowestGap(s) = s
    BY <2>1 DEF DropLowestGap
  <2>7. forgot' = FALSE => forgot = FALSE
    BY <2>1 DEF IInv, TypeOK
  <2> QED BY <1>3, <2>1, <2>5, <2>6, <2>7
<1>6. CASE WithoutPrevious(number) /\ ~ (number > gaps[Len(gaps)][1])
  BY <1>1, <1>6 DEF WithoutPrevious, Refuse
<1>7. CASE InvalidNumbering(previousNumber, number)
  BY <1>1, <1>7 DEF InvalidNumbering, Refuse
<1>8. CASE WithPrevious(previousNumber, number)
  BY <1>1, <1>5, <1>8, WithPreviousFillsOrRefuses DEF Refuse
<1> QED
  BY <1>2, <1>4, <1>6, <1>7, <1>8 DEF MarkAndCheck

\* Every number above the first is accepted or still may be, as long as no gap
\* was dropped and no message claimed that a number does not exist.
THEOREM NothingIsLost == Spec => []NothingLost
<1>1. Init => NothingLost
  BY DEF Init, NothingLost
<1>2. IInv /\ NothingLost /\ [Next]_vars => NothingLost'
  <2> SUFFICES ASSUME IInv, NothingLost, [Next]_vars PROVE NothingLost'
    OBVIOUS
  <2>1. CASE Next
    BY <2>1, MarkAndCheckLosesNothing DEF Next
  <2>2. CASE UNCHANGED vars
    BY <2>2 DEF vars, NothingLost
  <2> QED BY <2>1, <2>2
<1> QED
  BY <1>1, <1>2, DetectorInvariant, PTL DEF Spec
=============================================================================
