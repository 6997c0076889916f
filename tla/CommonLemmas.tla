---------------------------- MODULE CommonLemmas ----------------------------
(* Facts about numbers and sequences that the proofs of several modules    *)
(* need.                                                                   *)
EXTENDS Integers, SequencesExt, TLAPS, WellFoundedInduction, SequenceTheorems

\* A set of numbers that has a member has a least one.
LEMMA MinOfNats ==
  ASSUME NEW S \in SUBSET Nat, S # {}
  PROVE  Min(S) \in S /\ \A y \in S : Min(S) <= y
<1>1. PICK x \in S : \A y \in S : ~ (<<y, x>> \in OpToRel(<, Nat))
  BY NatLessThanWellFounded, WFMin, Zenon
<1>2. \A y \in S : ~ (y < x)
  BY <1>1 DEF OpToRel
<1>3. \A y \in S : x =< y
  BY <1>2
<1>4. QED
  BY <1>3 DEF Min

\* And a largest one, if it has a bound.
LEMMA MaxOfNats ==
  ASSUME NEW n \in Nat, NEW S \in SUBSET (0..n), S # {}
  PROVE  Max(S) \in S /\ \A y \in S : Max(S) >= y
<1> DEFINE T == {n - x : x \in S}
<1>1. T \in SUBSET Nat /\ T # {}
  <2>1. \A x \in S : x \in 0..n
    OBVIOUS
  <2>2. \A x \in S : n - x \in Nat
    BY <2>1
  <2>3. QED
    BY <2>2
<1>2. Min(T) \in T /\ \A y \in T : Min(T) <= y
  BY <1>1, MinOfNats
<1>3. PICK x \in S : Min(T) = n - x
  BY <1>2
<1>4. \A y \in S : n - x <= n - y
  BY <1>2, <1>3
<1>5. \A y \in S : x >= y
  BY <1>4
<1>6. QED
  BY <1>5 DEF Max

\* t is s with e inserted at position i.
Inserts(t, s, i, e) ==
  /\ Len(t) = Len(s) + 1
  /\ \A k \in 1..(i - 1) : t[k] = s[k]
  /\ t[i] = e
  /\ \A k \in (i + 1)..(Len(s) + 1) : t[k] = s[k - 1]

\* What InsertAt makes of a list.
LEMMA InsertAtProperties ==
  ASSUME NEW S, NEW s \in Seq(S), NEW e \in S, NEW i \in 1..(Len(s) + 1)
  PROVE  InsertAt(s, i, e) \in Seq(S) /\ Inserts(InsertAt(s, i, e), s, i, e)
<1> DEFINE a == SubSeq(s, 1, i - 1)
           b == SubSeq(s, i, Len(s))
           c == a \o <<e>>
           t == c \o b
<1>1. Len(s) \in Nat /\ i \in Nat /\ i >= 1 /\ i <= Len(s) + 1
  BY LenProperties
<1>2. /\ \A k \in 1..(i - 1) : s[k] \in S
      /\ \A k \in i..Len(s) : s[k] \in S
  BY <1>1, ElementOfSeq
<1>3. /\ a \in Seq(S) /\ Len(a) = i - 1
      /\ \A k \in 1..(i - 1) : a[k] = s[k]
  <2>1. /\ a \in Seq(S)
        /\ Len(a) = IF 1 <= i - 1 THEN (i - 1) - 1 + 1 ELSE 0
        /\ \A k \in 1..((i - 1) - 1 + 1) : a[k] = s[1 + k - 1]
    BY <1>1, <1>2, SubSeqProperties
  <2>2. QED
    BY <1>1, <2>1
<1>4. /\ b \in Seq(S) /\ Len(b) = Len(s) - i + 1
      /\ \A k \in 1..(Len(s) - i + 1) : b[k] = s[i + k - 1]
  <2>1. /\ b \in Seq(S)
        /\ Len(b) = IF i <= Len(s) THEN Len(s) - i + 1 ELSE 0
        /\ \A k \in 1..(Len(s) - i + 1) : b[k] = s[i + k - 1]
    BY <1>1, <1>2, SubSeqProperties
  <2>2. QED
    BY <1>1, <2>1
<1>5. <<e>> \in Seq(S) /\ Len(<<e>>) = 1 /\ <<e>>[1] = e
  OBVIOUS
<1> HIDE DEF a, b
<1>6. /\ c \in Seq(S) /\ Len(c) = i
      /\ \A k \in 1..(i - 1) : c[k] = s[k]
      /\ c[i] = e
  <2>1. /\ c \in Seq(S) /\ Len(c) = Len(a) + Len(<<e>>)
        /\ \A k \in 1..(Len(a) + Len(<<e>>)) :
             c[k] = IF k <= Len(a) THEN a[k] ELSE <<e>>[k - Len(a)]
    BY <1>3, <1>5, ConcatProperties
  <2>2. \A k \in 1..i : c[k] = IF k <= i - 1 THEN a[k] ELSE <<e>>[k - (i - 1)]
    BY <1>1, <1>3, <1>5, <2>1
  <2>3. c[i] = <<e>>[1]
    <3>1. i \in 1..i /\ ~(i <= i - 1) /\ i - (i - 1) = 1
      BY <1>1
    <3>2. QED
      BY <2>2, <3>1
  <2>4. QED
    BY <1>1, <1>3, <1>5, <2>1, <2>2, <2>3
<1> HIDE DEF c
<1>7. /\ t \in Seq(S) /\ Len(t) = Len(s) + 1
      /\ \A k \in 1..i : t[k] = c[k]
      /\ \A k \in (i + 1)..(Len(s) + 1) : t[k] = b[k - i]
  <2>1. /\ t \in Seq(S) /\ Len(t) = Len(c) + Len(b)
        /\ \A k \in 1..(Len(c) + Len(b)) :
             t[k] = IF k <= Len(c) THEN c[k] ELSE b[k - Len(c)]
    BY <1>4, <1>6, ConcatProperties
  <2> HIDE DEF t
  <2>2. Len(c) + Len(b) = Len(s) + 1
    BY <1>1, <1>4, <1>6
  <2>3. QED
    BY <1>1, <1>6, <2>1, <2>2
<1> HIDE DEF t
<1>8. ASSUME NEW k \in (i + 1)..(Len(s) + 1)
      PROVE  t[k] = s[k - 1]
  <2>1. k - i \in 1..(Len(s) - i + 1) /\ i + (k - i) - 1 = k - 1
    BY <1>1
  <2>2. b[k - i] = s[i + (k - i) - 1]
    BY <1>4, <2>1
  <2>3. QED
    BY <1>7, <2>1, <2>2
<1>9. /\ t[i] = e
      /\ \A k \in 1..(i - 1) : t[k] = s[k]
  BY <1>1, <1>6, <1>7
<1>10. InsertAt(s, i, e) = t
  BY DEF InsertAt, t, a, b, c
<1>11. QED
  BY <1>7, <1>8, <1>9, <1>10 DEF Inserts

LEMMA InsertAtIsUnique ==
  ASSUME NEW S, NEW s \in Seq(S), NEW e \in S, NEW i \in 1..(Len(s) + 1),
         NEW t \in Seq(S), Inserts(t, s, i, e)
  PROVE  t = InsertAt(s, i, e)
<1>1. PICK u \in Seq(S) : u = InsertAt(s, i, e) /\ Inserts(u, s, i, e)
  BY InsertAtProperties
<1>2. Len(s) \in Nat /\ Len(t) = Len(s) + 1 /\ Len(u) = Len(s) + 1
  BY <1>1, LenProperties DEF Inserts
<1>3. ASSUME NEW k \in 1..(Len(s) + 1)
      PROVE  t[k] = u[k]
  <2>1. k \in 1..(i - 1) \/ k = i \/ k \in (i + 1)..(Len(s) + 1)
    BY <1>2
  <2>2. QED
    BY <1>1, <2>1 DEF Inserts
<1>4. t = u
  BY <1>2, <1>3, SeqEqual
<1>5. QED
  BY <1>1, <1>4

\* t is s without position i.
Removes(t, s, i) ==
  /\ Len(t) = Len(s) - 1
  /\ \A k \in 1..(i - 1) : t[k] = s[k]
  /\ \A k \in i..(Len(s) - 1) : t[k] = s[k + 1]

\* What RemoveAt makes of a list.
LEMMA RemoveAtProperties ==
  ASSUME NEW S, NEW s \in Seq(S), NEW i \in 1..Len(s)
  PROVE  RemoveAt(s, i) \in Seq(S) /\ Removes(RemoveAt(s, i), s, i)
<1> DEFINE a == SubSeq(s, 1, i - 1)
           b == SubSeq(s, i + 1, Len(s))
           t == a \o b
<1>1. Len(s) \in Nat /\ i \in Nat /\ i >= 1 /\ i <= Len(s)
  BY LenProperties
<1>2. /\ \A k \in 1..(i - 1) : s[k] \in S
      /\ \A k \in (i + 1)..Len(s) : s[k] \in S
  BY <1>1, ElementOfSeq
<1>3. /\ a \in Seq(S) /\ Len(a) = i - 1
      /\ \A k \in 1..(i - 1) : a[k] = s[k]
  <2>1. /\ a \in Seq(S)
        /\ Len(a) = IF 1 <= i - 1 THEN (i - 1) - 1 + 1 ELSE 0
        /\ \A k \in 1..((i - 1) - 1 + 1) : a[k] = s[1 + k - 1]
    BY <1>1, <1>2, SubSeqProperties
  <2>2. QED
    BY <1>1, <2>1
<1>4. /\ b \in Seq(S) /\ Len(b) = Len(s) - i
      /\ \A k \in 1..(Len(s) - i) : b[k] = s[i + k]
  <2>1. /\ b \in Seq(S)
        /\ Len(b) = IF i + 1 <= Len(s) THEN Len(s) - (i + 1) + 1 ELSE 0
        /\ \A k \in 1..(Len(s) - (i + 1) + 1) : b[k] = s[(i + 1) + k - 1]
    BY <1>1, <1>2, SubSeqProperties
  <2>2. QED
    BY <1>1, <2>1
<1> HIDE DEF a, b
<1>5. /\ t \in Seq(S) /\ Len(t) = Len(a) + Len(b)
      /\ \A k \in 1..(Len(a) + Len(b)) :
           t[k] = IF k <= Len(a) THEN a[k] ELSE b[k - Len(a)]
  BY <1>3, <1>4, ConcatProperties
<1> HIDE DEF t
<1>6. Len(t) = Len(s) - 1 /\ \A k \in 1..(i - 1) : t[k] = s[k]
  <2>1. Len(a) + Len(b) = Len(s) - 1
    BY <1>1, <1>3, <1>4
  <2>2. \A k \in 1..(i - 1) : k \in 1..(Len(a) + Len(b)) /\ k <= Len(a)
    BY <1>1, <1>3, <2>1
  <2>3. QED
    BY <1>3, <1>5, <2>1, <2>2
<1>7. ASSUME NEW k \in i..(Len(s) - 1)
      PROVE  t[k] = s[k + 1]
  <2>1. /\ k \in 1..(Len(a) + Len(b)) /\ ~(k <= Len(a)) /\ k - Len(a) = k - (i - 1)
        /\ k - (i - 1) \in 1..(Len(s) - i) /\ i + (k - (i - 1)) = k + 1
    BY <1>1, <1>3, <1>4
  <2>2. t[k] = b[k - (i - 1)]
    BY <1>5, <2>1
  <2>3. QED
    BY <1>4, <2>1, <2>2
<1>8. RemoveAt(s, i) = t
  BY DEF RemoveAt, t, a, b
<1>9. QED
  BY <1>5, <1>6, <1>7, <1>8 DEF Removes

LEMMA RemoveAtIsUnique ==
  ASSUME NEW S, NEW s \in Seq(S), NEW i \in 1..Len(s),
         NEW t \in Seq(S), Removes(t, s, i)
  PROVE  t = RemoveAt(s, i)
<1>1. PICK u \in Seq(S) : u = RemoveAt(s, i) /\ Removes(u, s, i)
  BY RemoveAtProperties
<1>2. Len(s) \in Nat /\ Len(t) = Len(s) - 1 /\ Len(u) = Len(s) - 1
  BY <1>1, LenProperties DEF Removes
<1>3. ASSUME NEW k \in 1..(Len(s) - 1)
      PROVE  t[k] = u[k]
  <2>1. k \in 1..(i - 1) \/ k \in i..(Len(s) - 1)
    BY <1>2
  <2>2. QED
    BY <1>1, <2>1 DEF Removes
<1>4. t = u
  BY <1>2, <1>3, SeqEqual
<1>5. QED
  BY <1>1, <1>4

\* A function on 1..n is a sequence.
LEMMA FunctionIsSeq ==
  ASSUME NEW S, NEW n \in Nat, NEW f \in [1..n -> S]
  PROVE  f \in Seq(S) /\ Len(f) = n
<1>1. f \in Seq(S)
  BY SeqDef
<1>2. Len(f) \in Nat /\ DOMAIN f = 1..Len(f)
  BY <1>1, LenProperties
<1>3. QED
  BY <1>1, <1>2
=============================================================================
