----------------------------- MODULE ListLemmas ------------------------------
(***************************************************************************)
(* What the kernel's lists do, for lists of any length: taking a member    *)
(* out, putting one in at a place, and the first place with a property.    *)
(***************************************************************************)
EXTENDS Integers, SequencesExt, SequenceTheorems, WellFoundedInduction, TLAPS

\* A set of numbers has a least one.  Induction over numbers is done with it:
\* the least counterexample is none.
LEMMA Least ==
  ASSUME NEW S \in SUBSET Nat, S # {}
  PROVE  \E n \in S : \A m \in S : n <= m
<1>1. PICK n \in S : \A m \in S : ~ (<<m, n>> \in OpToRel(<, Nat))
  BY WFMin, NatLessThanWellFounded, Zenon
<1>2. \A m \in S : ~ (m < n)
  BY <1>1, Zenon DEF OpToRel
<1> QED BY <1>2

\* What FiniteSetsExt's Min chooses.
LEMMA MinIsLeast ==
  ASSUME NEW S \in SUBSET Nat, S # {}
  PROVE  Min(S) \in S /\ \A m \in S : Min(S) <= m
BY Least DEF Min

-----------------------------------------------------------------------------
\* The members of a list are the values at its places.
LEMMA Members ==
  ASSUME NEW S, NEW s \in Seq(S)
  PROVE  /\ ToSet(s) \subseteq S
         /\ \A e : e \in ToSet(s) <=> \E i \in 1..Len(s) : s[i] = e
BY LenProperties DEF ToSet

\* Put at the tail.
LEMMA AppendMembers ==
  ASSUME NEW S, NEW s \in Seq(S), NEW e \in S
  PROVE  /\ Append(s, e) \in Seq(S)
         /\ ToSet(Append(s, e)) = ToSet(s) \cup {e}
         /\ IsInjective(s) /\ e \notin ToSet(s) => IsInjective(Append(s, e))
<1> DEFINE r == Append(s, e)
<1>1. /\ r \in Seq(S) /\ Len(r) = Len(s) + 1
      /\ \A i \in 1..Len(s) : r[i] = s[i]
      /\ r[Len(s) + 1] = e /\ Len(s) \in Nat
  BY AppendProperties, LenProperties
<1>2. DOMAIN r = 1..Len(s) + 1 /\ DOMAIN s = 1..Len(s)
  BY <1>1, LenProperties
<1>3. ToSet(r) = ToSet(s) \cup {e}
  <2> HIDE DEF r
  <2>1. ASSUME NEW x \in ToSet(r) PROVE x \in ToSet(s) \cup {e}
    BY <1>1, <1>2, <2>1 DEF ToSet
  <2>2. ASSUME NEW x \in ToSet(s) PROVE x \in ToSet(r)
    BY <1>1, <1>2, <2>2 DEF ToSet
  <2>3. e \in ToSet(r)
    BY <1>1, <1>2 DEF ToSet
  <2> QED BY <2>1, <2>2, <2>3
<1>4. ASSUME IsInjective(s), e \notin ToSet(s) PROVE IsInjective(r)
  <2> HIDE DEF r
  <2> QED BY <1>1, <1>2, <1>4 DEF ToSet, IsInjective
<1> QED BY <1>1, <1>3, <1>4

-----------------------------------------------------------------------------
\* A member is taken out: those behind it move up by one.
LEMMA RemoveAtPlaces ==
  ASSUME NEW S, NEW s \in Seq(S), NEW k \in 1..Len(s)
  PROVE  /\ RemoveAt(s, k) \in Seq(S)
         /\ Len(RemoveAt(s, k)) = Len(s) - 1
         /\ \A i \in 1..Len(s) - 1 : RemoveAt(s, k)[i] = IF i < k THEN s[i] ELSE s[i + 1]
<1> DEFINE a == SubSeq(s, 1, k - 1)
           b == SubSeq(s, k + 1, Len(s))
<1>1. Len(s) \in Nat /\ \A i \in 1..Len(s) : s[i] \in S
  BY LenProperties, ElementOfSeq
<1>2. a \in Seq(S) /\ Len(a) = k - 1 /\ \A i \in 1..k - 1 : a[i] = s[i]
  <2>1. \A i \in 1..k - 1 : s[i] \in S
    BY <1>1
  <2> QED BY <1>1, <2>1, SubSeqProperties
<1>3. b \in Seq(S) /\ Len(b) = Len(s) - k /\ \A i \in 1..Len(s) - k : b[i] = s[k + i]
  <2>1. \A i \in k + 1..Len(s) : s[i] \in S
    BY <1>1
  <2>2. /\ b \in Seq(S) /\ Len(b) = IF k + 1 <= Len(s) THEN Len(s) - (k + 1) + 1 ELSE 0
        /\ \A i \in 1..Len(s) - (k + 1) + 1 : b[i] = s[k + 1 + i - 1]
    BY <1>1, <2>1, SubSeqProperties
  <2> QED BY <1>1, <2>2
<1> HIDE DEF a, b
<1>4. /\ a \o b \in Seq(S) /\ Len(a \o b) = Len(a) + Len(b)
      /\ \A i \in 1..Len(a) + Len(b) : (a \o b)[i] = IF i <= Len(a) THEN a[i] ELSE b[i - Len(a)]
  BY <1>2, <1>3, ConcatProperties
<1>5. RemoveAt(s, k) = a \o b
  BY DEF RemoveAt, a, b
<1>6. Len(a) + Len(b) = Len(s) - 1
  BY <1>1, <1>2, <1>3
<1>7. ASSUME NEW i \in 1..Len(s) - 1
      PROVE  (a \o b)[i] = IF i < k THEN s[i] ELSE s[i + 1]
  <2>1. CASE i < k
    BY <1>1, <1>2, <1>4, <1>6, <2>1
  <2>2. CASE ~ (i < k)
    <3>1. (a \o b)[i] = b[i - (k - 1)] /\ i - (k - 1) \in 1..Len(s) - k
      BY <1>1, <1>2, <1>4, <1>6, <2>2
    <3>2. b[i - (k - 1)] = s[k + (i - (k - 1))] /\ k + (i - (k - 1)) = i + 1
      BY <1>1, <1>3, <3>1
    <3> QED BY <2>2, <3>1, <3>2
  <2> QED BY <2>1, <2>2
<1> QED BY <1>4, <1>5, <1>6, <1>7

\* A member is put in at a place: those from there on move down by one.
HasInserted(r, s, k, e) ==
  /\ Len(r) = Len(s) + 1
  /\ \A i \in 1..Len(s) + 1 : r[i] = IF i < k THEN s[i] ELSE IF i = k THEN e ELSE s[i - 1]

LEMMA InsertAtPlaces ==
  ASSUME NEW S, NEW s \in Seq(S), NEW k \in 1..Len(s) + 1, NEW e \in S
  PROVE  InsertAt(s, k, e) \in Seq(S) /\ HasInserted(InsertAt(s, k, e), s, k, e)
<1> DEFINE a == SubSeq(s, 1, k - 1)
           b == SubSeq(s, k, Len(s))
           c == a \o <<e>>
<1>1. Len(s) \in Nat /\ \A i \in 1..Len(s) : s[i] \in S
  BY LenProperties, ElementOfSeq
<1>2. a \in Seq(S) /\ Len(a) = k - 1 /\ \A i \in 1..k - 1 : a[i] = s[i]
  <2>1. \A i \in 1..k - 1 : s[i] \in S
    BY <1>1
  <2> QED BY <1>1, <2>1, SubSeqProperties
<1>3. b \in Seq(S) /\ Len(b) = Len(s) - k + 1 /\ \A i \in 1..Len(s) - k + 1 : b[i] = s[k + i - 1]
  <2>1. \A i \in k..Len(s) : s[i] \in S
    BY <1>1
  <2>2. /\ b \in Seq(S) /\ Len(b) = IF k <= Len(s) THEN Len(s) - k + 1 ELSE 0
        /\ \A i \in 1..Len(s) - k + 1 : b[i] = s[k + i - 1]
    BY <1>1, <2>1, SubSeqProperties
  <2> QED BY <1>1, <2>2
<1> HIDE DEF a, b
<1>4. c \in Seq(S) /\ Len(c) = k /\ \A i \in 1..k : c[i] = IF i < k THEN s[i] ELSE e
  <2>1. <<e>> \in Seq(S) /\ Len(<<e>>) = 1 /\ <<e>>[1] = e
    OBVIOUS
  <2>2. /\ c \in Seq(S) /\ Len(c) = Len(a) + 1
        /\ \A i \in 1..Len(a) + 1 : c[i] = IF i <= Len(a) THEN a[i] ELSE <<e>>[i - Len(a)]
    BY <1>2, <2>1, ConcatProperties
  <2> QED BY <1>1, <1>2, <2>1, <2>2
<1> HIDE DEF c
<1>5. /\ c \o b \in Seq(S) /\ Len(c \o b) = Len(c) + Len(b)
      /\ \A i \in 1..Len(c) + Len(b) : (c \o b)[i] = IF i <= Len(c) THEN c[i] ELSE b[i - Len(c)]
  BY <1>4, <1>3, ConcatProperties
<1>6. InsertAt(s, k, e) = c \o b
  BY DEF InsertAt, a, b, c
<1>7. c \o b \in Seq(S) /\ HasInserted(c \o b, s, k, e)
  BY <1>1, <1>3, <1>4, <1>5 DEF HasInserted
<1> QED BY <1>6, <1>7, Zenon

-----------------------------------------------------------------------------
\* RemoveFirst finds the only place of a member.
LEMMA RemoveFirstIs ==
  ASSUME NEW S, NEW s \in Seq(S), IsInjective(s), NEW k \in 1..Len(s)
  PROVE  RemoveFirst(s, s[k]) = RemoveAt(s, k)
<1> DEFINE I == {i \in 1..Len(s) : s[i] = s[k]}
<1>1. I \in SUBSET Nat /\ k \in I
  BY LenProperties
<1>2. Min(I) \in I
  BY <1>1, MinIsLeast
<1>3. \A i \in I : i = k
  BY LenProperties DEF IsInjective
<1>4. SelectInSeq(s, LAMBDA v : v = s[k]) = k
  BY <1>1, <1>2, <1>3, Zenon DEF SelectInSeq
<1> QED BY <1>4, Zenon DEF RemoveFirst

\* Taken out of a list that has it once: it is gone, the others stay, and
\* stay in their order.
LEMMA RemovedPlaces ==
  ASSUME NEW S, NEW s \in Seq(S), IsInjective(s), NEW k \in 1..Len(s),
         NEW r, r = RemoveFirst(s, s[k])
  PROVE  /\ r \in Seq(S) /\ Len(r) = Len(s) - 1
         /\ \A i \in 1..Len(s) - 1 : r[i] = IF i < k THEN s[i] ELSE s[i + 1]
BY RemoveFirstIs, RemoveAtPlaces

\* Its members are the others.
LEMMA RemovedMembers ==
  ASSUME NEW S, NEW s \in Seq(S), IsInjective(s), NEW e,
         NEW r, r = RemoveFirst(s, e)
  PROVE  r \in Seq(S) /\ IsInjective(r) /\ ToSet(r) = ToSet(s) \ {e}
<1>1. CASE e \notin ToSet(s)
  <2>1. ~ \E i \in 1..Len(s) : s[i] = e
    BY <1>1, Members
  <2>2. r = s
    BY <2>1, Zenon DEF RemoveFirst
  <2> QED BY <1>1, <2>2
<1>2. CASE e \in ToSet(s)
  <2>1. PICK k \in 1..Len(s) : s[k] = e
    BY <1>2, Members
  <2>2. /\ r \in Seq(S) /\ Len(r) = Len(s) - 1
        /\ \A i \in 1..Len(s) - 1 : r[i] = IF i < k THEN s[i] ELSE s[i + 1]
    BY <2>1, RemovedPlaces
  <2>3. DOMAIN r = 1..Len(s) - 1 /\ DOMAIN s = 1..Len(s) /\ Len(s) \in Nat
    BY <2>2, LenProperties
  <2>4. IsInjective(r)
    <3> SUFFICES ASSUME NEW i \in DOMAIN r, NEW j \in DOMAIN r, r[i] = r[j] PROVE i = j
      BY DEF IsInjective
    <3> QED BY <2>2, <2>3 DEF IsInjective
  <2>5. ASSUME NEW i \in DOMAIN r PROVE r[i] \in ToSet(s) \ {e}
    <3>1. CASE i < k
      BY <2>1, <2>2, <2>3, <3>1 DEF ToSet, IsInjective
    <3>2. CASE ~ (i < k)
      BY <2>1, <2>2, <2>3, <3>2 DEF ToSet, IsInjective
    <3> QED BY <3>1, <3>2
  <2>6. ASSUME NEW x \in ToSet(s) \ {e} PROVE x \in ToSet(r)
    <3>1. PICK i \in 1..Len(s) : s[i] = x /\ i # k
      BY <2>1, <2>6, Members
    <3>2. CASE i < k
      BY <2>2, <2>3, <3>1, <3>2 DEF ToSet
    <3>3. CASE i > k
      <4>1. i - 1 \in DOMAIN r /\ r[i - 1] = s[i]
        BY <2>2, <2>3, <3>1, <3>3
      <4> QED BY <3>1, <4>1 DEF ToSet
    <3> QED BY <2>3, <3>1, <3>2, <3>3
  <2>7. ToSet(r) \subseteq ToSet(s) \ {e}
    BY <2>5 DEF ToSet
  <2> QED BY <2>2, <2>4, <2>6, <2>7
<1> QED BY <1>1, <1>2

\* Put in at a place.
LEMMA InsertedMembers ==
  ASSUME NEW S, NEW s \in Seq(S), IsInjective(s), NEW k \in 1..Len(s) + 1,
         NEW e \in S, e \notin ToSet(s), NEW r, r = InsertAt(s, k, e)
  PROVE  r \in Seq(S) /\ IsInjective(r) /\ ToSet(r) = ToSet(s) \cup {e}
<1>1. /\ r \in Seq(S) /\ Len(r) = Len(s) + 1
      /\ \A i \in 1..Len(s) + 1 : r[i] = IF i < k THEN s[i] ELSE IF i = k THEN e ELSE s[i - 1]
  <2>1. r \in Seq(S) /\ HasInserted(r, s, k, e)
    BY InsertAtPlaces
  <2> QED BY <2>1 DEF HasInserted
<1>2. DOMAIN r = 1..Len(s) + 1 /\ DOMAIN s = 1..Len(s) /\ Len(s) \in Nat
  BY <1>1, LenProperties
<1>3. \A i \in 1..Len(s) : s[i] # e
  BY Members
<1>4. IsInjective(r)
  <2> SUFFICES ASSUME NEW i \in DOMAIN r, NEW j \in DOMAIN r, r[i] = r[j] PROVE i = j
    BY DEF IsInjective
  <2>1. \A m, n \in 1..Len(s) : s[m] = s[n] => m = n
    BY <1>2 DEF IsInjective
  <2>2. i \in 1..Len(s) + 1 /\ j \in 1..Len(s) + 1
    BY <1>2
  <2>3. CASE i = k \/ j = k
    BY <1>1, <1>2, <1>3, <2>2, <2>3
  <2>4. CASE i # k /\ j # k
    <3> DEFINE m == IF i < k THEN i ELSE i - 1
               n == IF j < k THEN j ELSE j - 1
    <3>1. m \in 1..Len(s) /\ n \in 1..Len(s) /\ r[i] = s[m] /\ r[j] = s[n]
      BY <1>1, <1>2, <2>2, <2>4
    <3>2. m = n => i = j
      BY <1>2, <2>2, <2>4
    <3> HIDE DEF m, n
    <3> QED BY <2>1, <3>1, <3>2
  <2> QED BY <2>3, <2>4
<1>5. ASSUME NEW i \in DOMAIN r PROVE r[i] \in ToSet(s) \cup {e}
  BY <1>1, <1>2 DEF ToSet
<1>6. ASSUME NEW i \in DOMAIN s PROVE s[i] \in ToSet(r)
  <2>1. CASE i < k
    BY <1>1, <1>2, <2>1 DEF ToSet
  <2>2. CASE ~ (i < k)
    <3>1. i + 1 \in DOMAIN r /\ r[i + 1] = s[i]
      BY <1>1, <1>2, <2>2
    <3> QED BY <3>1 DEF ToSet
  <2> QED BY <2>1, <2>2
<1>7. e \in ToSet(r)
  BY <1>1, <1>2 DEF ToSet
<1>8. ToSet(r) \subseteq ToSet(s) \cup {e} /\ ToSet(s) \subseteq ToSet(r)
  BY <1>5, <1>6 DEF ToSet
<1> QED BY <1>1, <1>4, <1>7, <1>8

\* The head is the only one that leaves with Tail.
LEMMA TailIsRemoved ==
  ASSUME NEW S, NEW s \in Seq(S), IsInjective(s), s # <<>>
  PROVE  RemoveFirst(s, Head(s)) = Tail(s)
<1>1. Len(s) \in Nat \ {0} /\ Head(s) = s[1]
  BY EmptySeq, LenProperties
<1>2. /\ RemoveFirst(s, s[1]) \in Seq(S) /\ Len(RemoveFirst(s, s[1])) = Len(s) - 1
      /\ \A i \in 1..Len(s) - 1 : RemoveFirst(s, s[1])[i] = s[i + 1]
  BY <1>1, RemovedPlaces
<1>3. Tail(s) \in Seq(S) /\ Len(Tail(s)) = Len(s) - 1 /\ \A i \in 1..Len(s) - 1 : Tail(s)[i] = s[i + 1]
  BY HeadTailProperties
<1> QED BY <1>1, <1>2, <1>3, SeqEqual

-----------------------------------------------------------------------------
\* The order of two members.
Before(s, a, b) == \E i, j \in DOMAIN s : i < j /\ s[i] = a /\ s[j] = b

\* What stands before another is in the list.
LEMMA BeforeMembers ==
  ASSUME NEW s, NEW a, NEW b, Before(s, a, b)
  PROVE  a \in ToSet(s) /\ b \in ToSet(s)
BY DEF Before, ToSet

\* Taking a member out leaves the order of the others.
LEMMA RemovedBefore ==
  ASSUME NEW S, NEW s \in Seq(S), IsInjective(s), NEW e, NEW a, NEW b
  PROVE  Before(RemoveFirst(s, e), a, b) <=> Before(s, a, b) /\ a # e /\ b # e
<1> DEFINE r == RemoveFirst(s, e)
<1>1. CASE e \notin ToSet(s)
  <2>1. ~ \E i \in 1..Len(s) : s[i] = e
    BY <1>1, Members
  <2>2. r = s
    BY <2>1, Zenon DEF RemoveFirst
  <2> QED BY <1>1, <2>2, BeforeMembers
<1>2. CASE e \in ToSet(s)
  <2>1. PICK k \in 1..Len(s) : s[k] = e
    BY <1>2, Members
  <2>2. /\ r \in Seq(S) /\ Len(r) = Len(s) - 1
        /\ \A i \in 1..Len(s) - 1 : r[i] = IF i < k THEN s[i] ELSE s[i + 1]
    BY <2>1, RemovedPlaces
  <2>3. DOMAIN r = 1..Len(s) - 1 /\ DOMAIN s = 1..Len(s) /\ Len(s) \in Nat
    BY <2>2, LenProperties
  <2> HIDE DEF r
  <2>4. ASSUME Before(r, a, b) PROVE Before(s, a, b) /\ a # e /\ b # e
    <3>1. PICK i \in 1..Len(s) - 1, j \in 1..Len(s) - 1 : i < j /\ r[i] = a /\ r[j] = b
      BY <2>3, <2>4 DEF Before
    <3> DEFINE p == IF i < k THEN i ELSE i + 1
               q == IF j < k THEN j ELSE j + 1
    <3>2. p \in 1..Len(s) /\ q \in 1..Len(s) /\ p < q /\ p # k /\ q # k
      BY <2>3, <3>1
    <3>3. s[p] = a /\ s[q] = b
      BY <2>2, <3>1
    <3> HIDE DEF p, q
    <3> QED BY <2>1, <2>3, <3>2, <3>3 DEF Before, IsInjective
  <2>5. ASSUME Before(s, a, b), a # e, b # e PROVE Before(r, a, b)
    <3>1. PICK i \in 1..Len(s), j \in 1..Len(s) : i < j /\ s[i] = a /\ s[j] = b
      BY <2>3, <2>5 DEF Before
    <3> DEFINE p == IF i < k THEN i ELSE i - 1
               q == IF j < k THEN j ELSE j - 1
    <3>2. i # k /\ j # k
      BY <2>1, <2>5, <3>1
    <3>3. p \in 1..Len(s) - 1 /\ q \in 1..Len(s) - 1 /\ p < q
      BY <2>3, <3>1, <3>2
    <3>4. r[p] = a /\ r[q] = b
      <4>1. r[p] = s[i]
        <5>1. CASE i < k
          BY <2>2, <3>3, <5>1
        <5>2. CASE i > k
          <6>1. p = i - 1 /\ i - 1 \in 1..Len(s) - 1 /\ ~ (i - 1 < k) /\ (i - 1) + 1 = i
            BY <2>3, <3>1, <5>2
          <6>2. r[i - 1] = s[(i - 1) + 1]
            BY <2>2, <6>1
          <6> QED BY <6>1, <6>2
        <5> QED BY <2>3, <3>1, <3>2, <5>1, <5>2
      <4>2. r[q] = s[j]
        <5>1. CASE j < k
          BY <2>2, <3>3, <5>1
        <5>2. CASE j > k
          <6>1. q = j - 1 /\ j - 1 \in 1..Len(s) - 1 /\ ~ (j - 1 < k) /\ (j - 1) + 1 = j
            BY <2>3, <3>1, <5>2
          <6>2. r[j - 1] = s[(j - 1) + 1]
            BY <2>2, <6>1
          <6> QED BY <6>1, <6>2
        <5> QED BY <2>3, <3>1, <3>2, <5>1, <5>2
      <4> QED BY <3>1, <4>1, <4>2
    <3> HIDE DEF p, q
    <3> QED BY <2>3, <3>3, <3>4 DEF Before
  <2> QED BY <2>4, <2>5 DEF r
<1> QED BY <1>1, <1>2

\* So does putting one at the tail, which comes after all of them.
LEMMA AppendBefore ==
  ASSUME NEW S, NEW s \in Seq(S), NEW e \in S, NEW a, NEW b,
         Before(s, a, b) \/ (a \in ToSet(s) /\ b = e)
  PROVE  Before(Append(s, e), a, b)
<1> DEFINE r == Append(s, e)
<1>1. /\ r \in Seq(S) /\ Len(r) = Len(s) + 1
      /\ \A i \in 1..Len(s) : r[i] = s[i]
      /\ r[Len(s) + 1] = e /\ Len(s) \in Nat
  BY AppendProperties, LenProperties
<1>2. DOMAIN r = 1..Len(s) + 1 /\ DOMAIN s = 1..Len(s)
  BY <1>1, LenProperties
<1> HIDE DEF r
<1>3. CASE Before(s, a, b)
  BY <1>1, <1>2, <1>3 DEF Before
<1>4. CASE a \in ToSet(s) /\ b = e
  <2>1. PICK i \in 1..Len(s) : s[i] = a
    BY <1>4, Members
  <2> QED BY <1>1, <1>2, <1>4, <2>1 DEF Before
<1> QED BY <1>3, <1>4 DEF r

\* Put in at a place, a member comes after those in front of the place and
\* before the others, which stay in their order.
LEMMA InsertedBefore ==
  ASSUME NEW S, NEW s \in Seq(S), NEW k \in 1..Len(s) + 1, NEW e \in S,
         NEW r, r = InsertAt(s, k, e)
  PROVE  \A x, y : Before(r, x, y) =>
           \/ Before(s, x, y)
           \/ x = e /\ \E j \in 1..Len(s) : k <= j /\ s[j] = y
           \/ y = e /\ \E i \in 1..Len(s) : i < k /\ s[i] = x
<1>1. /\ r \in Seq(S) /\ Len(r) = Len(s) + 1
      /\ \A i \in 1..Len(s) + 1 : r[i] = IF i < k THEN s[i] ELSE IF i = k THEN e ELSE s[i - 1]
  <2>1. r \in Seq(S) /\ HasInserted(r, s, k, e)
    BY InsertAtPlaces
  <2> QED BY <2>1 DEF HasInserted
<1>2. DOMAIN r = 1..Len(s) + 1 /\ DOMAIN s = 1..Len(s) /\ Len(s) \in Nat
  BY <1>1, LenProperties
<1> SUFFICES ASSUME NEW x, NEW y, Before(r, x, y)
             PROVE  \/ Before(s, x, y)
                    \/ x = e /\ \E j \in 1..Len(s) : k <= j /\ s[j] = y
                    \/ y = e /\ \E i \in 1..Len(s) : i < k /\ s[i] = x
  OBVIOUS
<1>3. PICK i \in 1..Len(s) + 1, j \in 1..Len(s) + 1 : i < j /\ r[i] = x /\ r[j] = y
  BY <1>2 DEF Before
<1>4. CASE i = k
  BY <1>1, <1>2, <1>3, <1>4
<1>5. CASE j = k
  BY <1>1, <1>2, <1>3, <1>5
<1>6. CASE i # k /\ j # k
  <2> DEFINE p == IF i < k THEN i ELSE i - 1
             q == IF j < k THEN j ELSE j - 1
  <2>1. p \in 1..Len(s) /\ q \in 1..Len(s) /\ p < q
    BY <1>2, <1>3, <1>6
  <2>2. s[p] = x /\ s[q] = y
    BY <1>1, <1>3, <1>6
  <2> HIDE DEF p, q
  <2> QED BY <1>2, <2>1, <2>2 DEF Before
<1> QED BY <1>4, <1>5, <1>6
=============================================================================
