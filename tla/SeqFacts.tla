------------------------------ MODULE SeqFacts ------------------------------
(***************************************************************************)
(* Facts about the sequence and set operators the specifications are built *)
(* from, cited by name in the proofs.                                      *)
(***************************************************************************)
EXTENDS Integers, Sequences, Lists, TLAPS, WellFoundedInduction

\* x occurs at most once in l.
Once(l, x) == \A i, j \in DOMAIN l : l[i] = x /\ l[j] = x => i = j

-----------------------------------------------------------------------------
(* What the operators of Sequences return *)

\* A sequence is a function on the numbers up to its length.
LEMMA LenProperties ==
  ASSUME NEW S, NEW l \in Seq(S)
  PROVE  Len(l) \in Nat /\ DOMAIN l = 1 .. Len(l) /\ l \in [1 .. Len(l) -> S]
OBVIOUS

\* The empty sequence is the one of length 0.
LEMMA EmptySeq ==
  ASSUME NEW S
  PROVE  <<>> \in Seq(S) /\ \A l \in Seq(S) : l = <<>> <=> Len(l) = 0
OBVIOUS

\* The elements of a sequence over S are in S.
LEMMA ElementOfSeq ==
  ASSUME NEW S, NEW l \in Seq(S), NEW i \in 1 .. Len(l)
  PROVE  l[i] \in S
OBVIOUS

\* Appending adds one element at the end.
LEMMA AppendProperties ==
  ASSUME NEW S, NEW l \in Seq(S), NEW e \in S
  PROVE  /\ Append(l, e) \in Seq(S) /\ Len(Append(l, e)) = Len(l) + 1
         /\ Append(l, e)[Len(l) + 1] = e
         /\ \A i \in 1 .. Len(l) : Append(l, e)[i] = l[i]
OBVIOUS

\* The elements of a concatenation.
LEMMA ConcatProperties ==
  ASSUME NEW S, NEW a \in Seq(S), NEW b \in Seq(S)
  PROVE  /\ a \o b \in Seq(S) /\ Len(a \o b) = Len(a) + Len(b)
         /\ \A i \in 1 .. Len(a) + Len(b) :
              (a \o b)[i] = IF i <= Len(a) THEN a[i] ELSE b[i - Len(a)]
OBVIOUS

\* The elements of a subsequence.
LEMMA SubSeqProperties ==
  ASSUME NEW S, NEW l \in Seq(S), NEW m \in 1 .. Len(l) + 1, NEW n \in m - 1 .. Len(l)
  PROVE  /\ SubSeq(l, m, n) \in Seq(S) /\ Len(SubSeq(l, m, n)) = n - m + 1
         /\ \A i \in 1 .. n - m + 1 : SubSeq(l, m, n)[i] = l[m + i - 1]
OBVIOUS

\* The head is the first element, the tail has the others.
LEMMA HeadTailProperties ==
  ASSUME NEW S, NEW l \in Seq(S), l # <<>>
  PROVE  /\ Head(l) \in S /\ Head(l) = l[1]
         /\ Tail(l) \in Seq(S) /\ Len(Tail(l)) = Len(l) - 1
         /\ \A i \in 1 .. Len(Tail(l)) : Tail(l)[i] = l[i + 1]
OBVIOUS

-----------------------------------------------------------------------------
(* Least and greatest elements, removing and adding *)

\* A non-empty set of naturals has a least element.
LEMMA LeastNat ==
  ASSUME NEW S, S \subseteq Nat, S # {}
  PROVE  \E m \in S : \A x \in S : m <= x
<1>1. PICK m \in S : \A x \in S : ~ (<<x, m>> \in OpToRel(<, Nat))
  BY NatLessThanWellFounded, WFMin, Zenon
<1>2. ASSUME NEW x \in S, x < m PROVE <<x, m>> \in OpToRel(<, Nat)
  BY <1>2 DEF OpToRel
<1>3. ASSUME NEW x \in S PROVE m <= x
  <2>1. x \in Nat /\ m \in Nat
    OBVIOUS
  <2>2. ~ (x < m)
    BY <1>1, <1>2, Zenon
  <2>. QED BY <2>1, <2>2
<1>. QED BY <1>3

\* A non-empty bounded set of naturals has a greatest element.
LEMMA GreatestNat ==
  ASSUME NEW S, S \subseteq Nat, S # {}, NEW b \in Nat, \A x \in S : x <= b
  PROVE  \E m \in S : \A x \in S : x <= m
<1>. DEFINE T == {b - x : x \in S}
<1>1. T \subseteq Nat /\ T # {}
  <2>1. ASSUME NEW x \in S PROVE b - x \in Nat
    <3>1. x \in Nat /\ x <= b
      OBVIOUS
    <3>. QED BY <3>1
  <2>2. PICK x \in S : TRUE
    BY Zenon
  <2>. QED BY <2>1, <2>2
<1>2. PICK t \in T : \A y \in T : t <= y
  BY <1>1, LeastNat, Zenon
<1>3. PICK m \in S : t = b - m
  OBVIOUS
<1>4. ASSUME NEW x \in S PROVE x <= m
  <2>1. b - x \in T
    OBVIOUS
  <2>2. b - m <= b - x
    BY <2>1, <1>2, <1>3
  <2>. QED BY <2>2
<1>. QED BY <1>4

\* Least picks the least number of a set.
LEMMA MinIsLeast ==
  ASSUME NEW S, S \subseteq Nat, S # {}
  PROVE  Least(S) \in S /\ \A x \in S : Least(S) <= x
BY LeastNat, Zenon DEF Least

\* Greatest picks the greatest number of a bounded set.
LEMMA MaxIsGreatest ==
  ASSUME NEW S, S \subseteq Nat, S # {}, NEW b \in Nat, \A x \in S : x <= b
  PROVE  Greatest(S) \in S /\ \A x \in S : x <= Greatest(S)
<1>1. \E m \in S : \A x \in S : m >= x
  BY GreatestNat, Zenon
<1>. QED BY <1>1, Zenon DEF Greatest

\* Removing one position of a sequence.
LEMMA RemoveAtFacts ==
  ASSUME NEW S, NEW l \in Seq(S), NEW i \in 1 .. Len(l)
  PROVE  /\ RemoveAt(l, i) \in Seq(S)
         /\ Len(RemoveAt(l, i)) = Len(l) - 1
         /\ \A j \in 1 .. Len(l) - 1 :
              RemoveAt(l, i)[j] = IF j < i THEN l[j] ELSE l[j + 1]
<1>. DEFINE a == SubSeq(l, 1, i - 1)
            b == SubSeq(l, i + 1, Len(l))
<1>1. /\ a \in Seq(S) /\ Len(a) = i - 1
      /\ \A j \in 1 .. i - 1 : a[j] = l[j]
  BY SubSeqProperties
<1>2. /\ b \in Seq(S) /\ Len(b) = Len(l) - i
      /\ \A j \in 1 .. Len(l) - i : b[j] = l[i + j]
  BY SubSeqProperties
<1>3. /\ a \o b \in Seq(S) /\ Len(a \o b) = Len(a) + Len(b)
      /\ \A j \in 1 .. Len(a) + Len(b) :
           (a \o b)[j] = IF j <= Len(a) THEN a[j] ELSE b[j - Len(a)]
  BY <1>1, <1>2, ConcatProperties, Zenon
<1>4. RemoveAt(l, i) = a \o b
  BY DEF RemoveAt
<1>5. Len(l) \in Nat /\ i \in Nat /\ 1 <= i /\ i <= Len(l)
  BY LenProperties
<1>. DEFINE r == a \o b
<1>. HIDE DEF a, b
<1>6. Len(r) = Len(l) - 1
  BY <1>1, <1>2, <1>3, <1>5
<1>7. ASSUME NEW j \in 1 .. Len(l) - 1
      PROVE  r[j] = IF j < i THEN l[j] ELSE l[j + 1]
  <2>0. j \in Nat /\ 1 <= j /\ j <= Len(l) - 1
    BY <1>5
  <2>1. r[j] = IF j <= i - 1 THEN a[j] ELSE b[j - (i - 1)]
    BY <1>1, <1>2, <1>3, <1>5, <2>0
  <2>2. CASE j < i
    BY <2>0, <2>1, <2>2, <1>1, <1>5
  <2>3. CASE ~ (j < i)
    <3>1. j - (i - 1) \in 1 .. Len(l) - i
      BY <2>0, <2>3, <1>5
    <3>2. b[j - (i - 1)] = l[i + (j - (i - 1))]
      BY <3>1, <1>2
    <3>3. i + (j - (i - 1)) = j + 1
      BY <2>0, <1>5
    <3>. QED BY <2>0, <2>1, <2>3, <3>2, <3>3, <1>5
  <2>. QED BY <2>2, <2>3, Zenon
<1>. QED BY <1>3, <1>4, <1>6, <1>7

\* Removing the first occurrence of e keeps every other element and makes the
\* sequence one shorter when e occurs in it.
LEMMA RemoveFirstFacts ==
  ASSUME NEW S, NEW l \in Seq(S), NEW e
  PROVE  /\ RemoveFirst(l, e) \in Seq(S)
         /\ Range(RemoveFirst(l, e)) \subseteq Range(l)
         /\ \A x \in Range(l) : x # e => x \in Range(RemoveFirst(l, e))
         /\ Len(RemoveFirst(l, e)) = IF e \in Range(l) THEN Len(l) - 1 ELSE Len(l)
<1>. DEFINE I == {j \in 1 .. Len(l) : l[j] = e}
            i == Least(I)
<1>0. DOMAIN l = 1 .. Len(l) /\ Len(l) \in Nat
  BY LenProperties, SMTT(30)
<1>1. CASE I = {}
  <2>1. RemoveFirst(l, e) = l
    BY <1>1 DEF RemoveFirst, Places
  <2>. QED BY <2>1, <1>1, <1>0, Zenon DEF Range
<1>2. CASE I # {}
  <2>0. I \subseteq Nat
    BY <1>0
  <2>1. i \in 1 .. Len(l) /\ l[i] = e
    <3>1. i \in I
      BY <2>0, <1>2, MinIsLeast, Zenon
    <3>. QED BY <3>1
  <2>2. RemoveFirst(l, e) = RemoveAt(l, i)
    BY <1>2 DEF RemoveFirst, Places
  <2>. DEFINE r == RemoveAt(l, i)
  <2>3. /\ r \in Seq(S) /\ Len(r) = Len(l) - 1 /\ DOMAIN r = 1 .. Len(r)
        /\ \A j \in 1 .. Len(l) - 1 : r[j] = IF j < i THEN l[j] ELSE l[j + 1]
    BY <2>1, RemoveAtFacts, LenProperties, Zenon
  <2>. HIDE DEF r, i
  <2>4. ASSUME NEW x \in Range(l), x # e PROVE x \in Range(r)
    <3>1. PICK j \in 1 .. Len(l) : l[j] = x
      BY <1>0 DEF Range
    <3>2. CASE j < i
      <4>1. j \in 1 .. Len(l) - 1 /\ r[j] = x
        BY <3>1, <3>2, <2>1, <2>3, <1>0
      <4>. QED BY <4>1, <2>3 DEF Range
    <3>3. CASE j > i
      <4>1. j - 1 \in 1 .. Len(l) - 1 /\ r[j - 1] = x
        BY <3>1, <3>3, <2>1, <2>3, <1>0
      <4>. QED BY <4>1, <2>3 DEF Range
    <3>. QED BY <3>1, <3>2, <3>3, <2>1, <2>4, <1>0
  <2>5. Range(r) \subseteq Range(l)
    <3>1. \A j \in DOMAIN r : j \in DOMAIN l /\ j + 1 \in DOMAIN l
      BY <2>3, <1>0
    <3>2. \A j \in DOMAIN r : r[j] = l[j] \/ r[j] = l[j + 1]
      BY <2>3, <1>0
    <3>. QED BY <3>1, <3>2, Zenon DEF Range
  <2>6. e \in Range(l)
    BY <2>1, <1>0 DEF Range
  <2>. QED BY <2>2, <2>3, <2>4, <2>5, <2>6 DEF r
<1>. QED BY <1>1, <1>2

\* The range of a sequence over S is within S.
LEMMA RangeType ==
  ASSUME NEW S, NEW l \in Seq(S)
  PROVE  Range(l) \subseteq S
BY ElementOfSeq DEF Range

\* Putting an element in front.
LEMMA PrependFacts ==
  ASSUME NEW S, NEW l \in Seq(S), NEW e \in S
  PROVE  /\ <<e>> \o l \in Seq(S)
         /\ Len(<<e>> \o l) = Len(l) + 1
         /\ Range(<<e>> \o l) = Range(l) \cup {e}
<1>. DEFINE h == <<e>>
            r == h \o l
<1>1. h \in Seq(S) /\ Len(h) = 1 /\ h[1] = e
  OBVIOUS
<1>2. /\ r \in Seq(S) /\ Len(r) = Len(h) + Len(l)
      /\ \A i \in 1 .. Len(h) + Len(l) : r[i] = IF i <= Len(h) THEN h[i] ELSE l[i - Len(h)]
  BY <1>1, ConcatProperties
<1>3. DOMAIN l = 1 .. Len(l) /\ Len(l) \in Nat /\ DOMAIN r = 1 .. Len(r)
  BY <1>2, LenProperties
<1>. HIDE DEF r, h
<1>4. r[1] = e /\ \A i \in 1 .. Len(l) : r[i + 1] = l[i]
  BY <1>1, <1>2, <1>3
<1>5. ASSUME NEW i \in DOMAIN r PROVE r[i] \in Range(l) \cup {e}
  <2>1. CASE i = 1
    BY <2>1, <1>4
  <2>2. CASE i # 1
    <3>1. i - 1 \in 1 .. Len(l) /\ i = (i - 1) + 1
      BY <2>2, <1>1, <1>2, <1>3
    <3>2. r[i] = l[i - 1]
      BY <3>1, <1>4
    <3>. QED BY <3>1, <3>2, <1>3 DEF Range
  <2>. QED BY <2>1, <2>2
<1>6. ASSUME NEW x \in Range(l) PROVE x \in Range(r)
  <2>1. PICK i \in 1 .. Len(l) : l[i] = x
    BY <1>3 DEF Range
  <2>2. i + 1 \in DOMAIN r
    BY <1>1, <1>2, <1>3
  <2>. QED BY <2>1, <2>2, <1>4 DEF Range
<1>7. e \in Range(r)
  BY <1>1, <1>2, <1>3, <1>4 DEF Range
<1>8. Range(r) = Range(l) \cup {e}
  BY <1>5, <1>6, <1>7, Zenon DEF Range
<1>. QED BY <1>1, <1>2, <1>3, <1>8 DEF r, h

\* Removing and putting in front keep an element that occurs at most once so.
LEMMA RemoveFirstOnce ==
  ASSUME NEW S, NEW l \in Seq(S), NEW e, NEW x, Once(l, x)
  PROVE  /\ Once(RemoveFirst(l, e), x)
         /\ e = x => e \notin Range(RemoveFirst(l, e))
<1>. DEFINE I == {j \in 1 .. Len(l) : l[j] = e}
            i == Least(I)
<1>0. DOMAIN l = 1 .. Len(l) /\ Len(l) \in Nat
  BY LenProperties
<1>1. CASE I = {}
  <2>1. RemoveFirst(l, e) = l
    BY <1>1 DEF RemoveFirst, Places
  <2>. QED BY <2>1, <1>1, <1>0 DEF Range
<1>2. CASE I # {}
  <2>0. I \subseteq Nat
    BY <1>0
  <2>1. i \in 1 .. Len(l) /\ l[i] = e
    <3>1. i \in I
      BY <2>0, <1>2, MinIsLeast, Zenon
    <3>. QED BY <3>1
  <2>2. RemoveFirst(l, e) = RemoveAt(l, i)
    BY <1>2 DEF RemoveFirst, Places
  <2>. DEFINE r == RemoveAt(l, i)
              f(j) == IF j < i THEN j ELSE j + 1
  <2>3. r \in Seq(S) /\ Len(r) = Len(l) - 1 /\ DOMAIN r = 1 .. Len(l) - 1
    BY <2>1, RemoveAtFacts, LenProperties
  <2>4. \A j \in 1 .. Len(l) - 1 : r[j] = IF j < i THEN l[j] ELSE l[j + 1]
    BY <2>1, RemoveAtFacts, Zenon
  <2>. HIDE DEF r, i
  <2>5. \A j \in DOMAIN r : f(j) \in DOMAIN l /\ f(j) # i /\ r[j] = l[f(j)]
    BY <2>1, <2>3, <2>4, <1>0
  <2>6. \A j, k \in DOMAIN r : f(j) = f(k) => j = k
    BY <2>1, <2>3, <1>0
  <2>. HIDE DEF f
  <2>7. Once(r, x)
    BY <2>5, <2>6 DEF Once
  <2>8. ASSUME e = x, NEW j \in DOMAIN r PROVE r[j] # e
    BY <2>5, <2>8, <2>1, <1>0 DEF Once
  <2>. QED BY <2>2, <2>7, <2>8 DEF r, Range
<1>. QED BY <1>1, <1>2

\* An element in front of a list occurs once if it did not occur.
LEMMA PrependOnce ==
  ASSUME NEW S, NEW l \in Seq(S), NEW e \in S, NEW x, Once(l, x),
         e = x => e \notin Range(l)
  PROVE  Once(<<e>> \o l, x)
<1>. DEFINE h == <<e>>
            r == h \o l
<1>1. h \in Seq(S) /\ Len(h) = 1 /\ h[1] = e
  OBVIOUS
<1>2. /\ r \in Seq(S) /\ Len(r) = Len(h) + Len(l)
      /\ \A i \in 1 .. Len(h) + Len(l) : r[i] = IF i <= Len(h) THEN h[i] ELSE l[i - Len(h)]
  BY <1>1, ConcatProperties
<1>3. DOMAIN l = 1 .. Len(l) /\ Len(l) \in Nat /\ DOMAIN r = 1 .. Len(r)
  BY <1>2, LenProperties
<1>. HIDE DEF r, h
<1>4. \A i \in DOMAIN r : \/ i = 1 /\ r[i] = e
                          \/ i - 1 \in DOMAIN l /\ r[i] = l[i - 1]
  BY <1>1, <1>2, <1>3
<1>5. ASSUME NEW i \in DOMAIN r, NEW j \in DOMAIN r, r[i] = x, r[j] = x PROVE i = j
  <2>1. i \in Nat /\ j \in Nat
    BY <1>3
  <2>2. CASE i = 1 \/ j = 1
    BY <1>4, <1>5, <2>1, <2>2 DEF Range
  <2>3. CASE i # 1 /\ j # 1
    <3>1. i - 1 = j - 1
      BY <1>4, <1>5, <2>3 DEF Once
    <3>. QED BY <3>1, <2>1
  <2>. QED BY <2>2, <2>3
<1>. QED BY <1>5 DEF Once, r, h

\* Putting an element at the end.
LEMMA AppendFacts ==
  ASSUME NEW S, NEW l \in Seq(S), NEW e \in S
  PROVE  /\ Append(l, e) \in Seq(S)
         /\ Append(l, e) # <<>> /\ Last(Append(l, e)) = e
         /\ Range(Append(l, e)) = Range(l) \cup {e}
         /\ \A x : Once(l, x) /\ (x = e => e \notin Range(l)) => Once(Append(l, e), x)
<1>. DEFINE r == Append(l, e)
<1>1. /\ r \in Seq(S) /\ Len(r) = Len(l) + 1 /\ r[Len(l) + 1] = e
      /\ \A i \in 1 .. Len(l) : r[i] = l[i]
  BY AppendProperties
<1>2. DOMAIN l = 1 .. Len(l) /\ Len(l) \in Nat /\ DOMAIN r = 1 .. Len(l) + 1
  BY <1>1, LenProperties
<1>. HIDE DEF r
<1>3. \A i \in DOMAIN r : (i \in DOMAIN l /\ r[i] = l[i]) \/ (i = Len(l) + 1 /\ r[i] = e)
  BY <1>1, <1>2
<1>4. \A i \in DOMAIN l : i \in DOMAIN r /\ r[i] = l[i]
  BY <1>1, <1>2
<1>5. Len(l) + 1 \in DOMAIN r
  BY <1>2
<1>6. Range(r) = Range(l) \cup {e}
  BY <1>1, <1>3, <1>4, <1>5 DEF Range
<1>7. r # <<>> /\ Last(r) = e
  BY <1>1, <1>2, <1>5 DEF Last
<1>8. ASSUME NEW x, Once(l, x), x = e => e \notin Range(l) PROVE Once(r, x)
  BY <1>3, <1>8 DEF Once, Range
<1>. QED BY <1>1, <1>6, <1>7, <1>8 DEF r

\* Removing the last element.
LEMMA FrontFacts ==
  ASSUME NEW S, NEW l \in Seq(S), l # <<>>, Once(l, Last(l))
  PROVE  /\ Front(l) \in Seq(S) /\ Last(l) \in Range(l)
         /\ Range(Front(l)) = Range(l) \ {Last(l)}
         /\ \A x : Once(l, x) => Once(Front(l), x)
<1>. DEFINE r == Front(l)
            n == Len(l)
<1>1. DOMAIN l = 1 .. n /\ n \in Nat /\ n # 0
  BY LenProperties, EmptySeq
<1>2. /\ r \in Seq(S) /\ Len(r) = n - 1 /\ \A i \in 1 .. n - 1 : r[i] = l[i]
  BY <1>1, SubSeqProperties DEF Front
<1>3. DOMAIN r = 1 .. n - 1 /\ Last(l) = l[n] /\ n \in DOMAIN l
  BY <1>1, <1>2, LenProperties DEF Last
<1>. HIDE DEF r
<1>4. \A i \in DOMAIN r : i \in DOMAIN l /\ i # n /\ r[i] = l[i]
  BY <1>1, <1>2, <1>3
<1>5. \A i \in DOMAIN l : i # n => i \in DOMAIN r /\ r[i] = l[i]
  BY <1>1, <1>2, <1>3
<1>. HIDE DEF n
<1>6. Range(r) = Range(l) \ {Last(l)}
  BY <1>3, <1>4, <1>5 DEF Range, Once
<1>7. \A x : Once(l, x) => Once(r, x)
  BY <1>4 DEF Once
<1>8. Last(l) \in Range(l)
  BY <1>3 DEF Range
<1>. QED BY <1>2, <1>6, <1>7, <1>8 DEF r

\* The last position of l that does not hold x exists when l has two elements
\* and x occurs at most once.
LEMMA LastOtherFacts ==
  ASSUME NEW S, NEW l \in Seq(S), NEW x, NEW I, I = {j \in 1 .. Len(l) : l[j] # x}
  PROVE  /\ I # {} => Greatest(I) \in DOMAIN l /\ l[Greatest(I)] # x /\ Greatest(I) # 0
         /\ Once(l, x) /\ Len(l) >= 2 => I # {}
<1>0. DOMAIN l = 1 .. Len(l) /\ Len(l) \in Nat
  BY LenProperties
<1>1. ASSUME I = {}, Len(l) >= 2
      PROVE  1 \in DOMAIN l /\ 2 \in DOMAIN l /\ l[1] = x /\ l[2] = x
  BY <1>0, <1>1
<1>2. Once(l, x) /\ Len(l) >= 2 => I # {}
  BY <1>1 DEF Once
<1>3. ASSUME I # {} PROVE Greatest(I) \in DOMAIN l /\ l[Greatest(I)] # x /\ Greatest(I) # 0
  <2>1. I \subseteq Nat /\ \A j \in I : j <= Len(l)
    BY <1>0
  <2>2. Greatest(I) \in I
    BY <2>1, <1>3, <1>0, MaxIsGreatest, Zenon
  <2>. QED BY <2>2, <1>0
<1>. QED BY <1>2, <1>3

\* Sequences of at most two elements.
LEMMA ShortFacts ==
  ASSUME NEW S, NEW x \in S, NEW y \in S
  PROVE  /\ <<>> \in Seq(S) /\ <<x>> \in Seq(S) /\ <<x, y>> \in Seq(S)
         /\ Range(<<>>) = {} /\ Range(<<x>>) = {x} /\ Range(<<x, y>>) = {x, y}
         /\ <<x>> # <<>> /\ <<x, y>> # <<>>
         /\ Head(<<x>>) = x /\ Tail(<<x>>) = <<>>
         /\ Head(<<x, y>>) = x /\ Tail(<<x, y>>) = <<y>>
<1>1. /\ <<>> \in Seq(S) /\ <<x>> \in Seq(S) /\ <<x, y>> \in Seq(S)
      /\ DOMAIN <<>> = {} /\ DOMAIN <<x>> = {1} /\ DOMAIN <<x, y>> = {1, 2}
      /\ Len(<<>>) = 0 /\ Len(<<x>>) = 1 /\ Len(<<x, y>>) = 2
  OBVIOUS
<1>2. Range(<<>>) = {} /\ Range(<<x>>) = {x} /\ Range(<<x, y>>) = {x, y}
  BY <1>1 DEF Range
<1>3. <<x>> # <<>> /\ <<x, y>> # <<>>
  BY <1>1, Zenon
<1>4. Head(<<x>>) = x /\ Tail(<<x>>) = <<>> /\ Head(<<x, y>>) = x /\ Tail(<<x, y>>) = <<y>>
  BY <1>1
<1>. QED BY <1>1, <1>2, <1>3, <1>4, Zenon

\* Removing the first element.
LEMMA TailFacts ==
  ASSUME NEW S, NEW l \in Seq(S), l # <<>>
  PROVE  /\ Head(l) \in S /\ Tail(l) \in Seq(S) /\ Len(Tail(l)) = Len(l) - 1
         /\ \A i \in DOMAIN Tail(l) : i + 1 \in DOMAIN l /\ Tail(l)[i] = l[i + 1]
         /\ \A i \in DOMAIN l :
              (i = 1 /\ l[i] = Head(l)) \/ (i - 1 \in DOMAIN Tail(l) /\ Tail(l)[i - 1] = l[i])
         /\ Range(l) = Range(Tail(l)) \cup {Head(l)}
<1>1. Len(l) \in Nat \ {0} /\ DOMAIN l = 1 .. Len(l) /\ Head(l) = l[1]
  BY EmptySeq, LenProperties
<1>2. /\ Head(l) \in S /\ Tail(l) \in Seq(S) /\ Len(Tail(l)) = Len(l) - 1
      /\ \A i \in 1 .. Len(Tail(l)) : Tail(l)[i] = l[i + 1]
  BY HeadTailProperties, Zenon
<1>3. DOMAIN Tail(l) = 1 .. Len(l) - 1
  BY <1>2, LenProperties, Zenon
<1>. DEFINE r == Tail(l)
            h == Head(l)
<1>. HIDE DEF r, h
<1>4. \A i \in DOMAIN r : i + 1 \in DOMAIN l /\ r[i] = l[i + 1]
  BY <1>1, <1>2, <1>3 DEF r
<1>5. \A i \in DOMAIN l : (i = 1 /\ l[i] = h) \/ (i - 1 \in DOMAIN r /\ r[i - 1] = l[i])
  <2>. SUFFICES ASSUME NEW i \in DOMAIN l, i # 1 PROVE i - 1 \in DOMAIN r /\ r[i - 1] = l[i]
    BY <1>1, Zenon DEF h
  <2>1. i - 1 \in DOMAIN r /\ (i - 1) + 1 = i
    BY <1>1, <1>3 DEF r
  <2>. QED BY <2>1, <1>4, Zenon
<1>6. Range(l) = Range(r) \cup {h}
  <2>1. 1 \in DOMAIN l /\ l[1] = h
    BY <1>1 DEF h
  <2>. QED BY <2>1, <1>4, <1>5 DEF Range
<1>. QED BY <1>2, <1>4, <1>5, <1>6, Zenon DEF r, h
=============================================================================
