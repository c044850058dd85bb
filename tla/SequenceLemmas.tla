--------------------------- MODULE SequenceLemmas ---------------------------
(***************************************************************************)
(* Facts about numbers and sequences that the proofs of several components *)
(* need: least and greatest elements, prefixes, appending.                 *)
(***************************************************************************)
EXTENDS Naturals, Sequences, SequenceTheorems, WellFoundedInduction, TLAPS

\* Every nonempty set of numbers has a least element.
LEMMA LeastNatural ==
    ASSUME NEW S \in SUBSET Nat, S # {}
    PROVE  \E n \in S : \A m \in S : n <= m
<1> DEFINE R == {ss \in Nat \X Nat : ss[1] < ss[2]}
<1>1. IsWellFoundedOn(R, Nat)
  BY NatLessThanWellFounded DEF OpToRel
<1>2. PICK n \in S : \A m \in S : ~(<<m, n>> \in R)
  <2> HIDE DEF R
  <2>. QED  BY <1>1, WFMin
<1>3. \A m \in S : ~(m < n)
  BY <1>2
<1>. QED  BY <1>3

\* Every nonempty bounded set of numbers has a greatest element.
LEMMA GreatestNatural ==
    ASSUME NEW b \in Nat, NEW S \in SUBSET (0..b), S # {}
    PROVE  \E n \in S : \A m \in S : m <= n
<1> DEFINE D == {i \in Nat : i <= b /\ b - i \in S}
<1>1. D # {}
  <2>1. PICK m \in S : TRUE
    OBVIOUS
  <2>2. b - m \in D
    BY <2>1
  <2>. QED  BY <2>2
<1>2. PICK i \in D : \A j \in D : i <= j
  BY <1>1, LeastNatural
<1>3. \A m \in S : b - m \in D
  OBVIOUS
<1>4. \A m \in S : i <= b - m
  BY <1>2, <1>3
<1>5. \A m \in S : m <= b - i
  BY <1>2, <1>4
<1>. QED  BY <1>2, <1>5

\* A prefix of a sequence.
LEMMA PrefixOfSeq ==
    ASSUME NEW R, NEW s \in Seq(R), NEW n \in 0..Len(s)
    PROVE  /\ SubSeq(s, 1, n) \in Seq(R)
           /\ Len(SubSeq(s, 1, n)) = n
           /\ \A i \in 1..n : SubSeq(s, 1, n)[i] = s[i]
<1>1. \A i \in 1..n : s[i] \in R
  BY ElementOfSeq
<1>. QED  BY <1>1, SubSeqProperties, Z3

\* f is defined by recursion over 0..m.
Iterates(f, b, m, step) == f[0] = b /\ \A n \in 1..m : f[n] = step[<<n, f[n - 1]>>]
Steps(m, V) == [(1..m) \X V -> V]

\* Every recursion has a solution.
LEMMA RecursionExists ==
    ASSUME NEW V, NEW b \in V, NEW m \in Nat, NEW step \in Steps(m, V)
    PROVE  \E f \in [0..m -> V] : Iterates(f, b, m, step)
<1> USE DEF Steps
<1> DEFINE Q(f, k) == f[0] = b /\ \A n \in 1..k : f[n] = step[<<n, f[n - 1]>>]
           S == {k \in 0..m : ~\E f \in [0..k -> V] : Q(f, k)}
<1>1. S = {}
  <2> SUFFICES ASSUME S # {} PROVE FALSE
    OBVIOUS
  <2>0. S \in SUBSET Nat
    OBVIOUS
  <2>1. PICK k \in S : \A j \in S : k <= j
    <3> HIDE DEF S
    <3>. QED  BY <2>0, LeastNatural
  <2>2. k # 0
    <3>1. [n \in 0..0 |-> b] \in [0..0 -> V] /\ Q([n \in 0..0 |-> b], 0)
      OBVIOUS
    <3>2. 0 \notin S
      BY <3>1
    <3>. QED  BY <3>2
  <2>3. k \in Nat /\ k - 1 \in 0..m /\ k - 1 \notin S /\ k \in 1..m
    <3>1. k \in 0..m
      BY <2>1
    <3> HIDE DEF S
    <3>. QED  BY <2>1, <2>2, <3>1
  <2>4. PICK f \in [0..k - 1 -> V] : Q(f, k - 1)
    BY <2>3
  <2> DEFINE g == [n \in 0..k |-> IF n = k THEN step[<<k, f[k - 1]>>] ELSE f[n]]
  <2>5. f[k - 1] \in V /\ step[<<k, f[k - 1]>>] \in V
    BY <2>3, <2>4
  <2>6. g \in [0..k -> V]
    BY <2>3, <2>4, <2>5
  <2>7. g[0] = b
    BY <2>2, <2>3, <2>4
  <2>8. \A n \in 1..k : g[n] = step[<<n, g[n - 1]>>]
    <3> TAKE n \in 1..k
    <3>1. CASE n = k
      <4>1. g[k] = step[<<k, f[k - 1]>>] /\ g[k - 1] = f[k - 1]
        BY <2>3
      <4>. QED  BY <3>1, <4>1
    <3>2. CASE n # k
      <4>1. n \in 1..k - 1 /\ g[n] = f[n] /\ g[n - 1] = f[n - 1]
        BY <2>3, <3>2
      <4>. QED  BY <2>4, <4>1
    <3>. QED  BY <3>1, <3>2
  <2>9. Q(g, k)
    <3> HIDE DEF g
    <3>. QED  BY <2>7, <2>8
  <2>. QED
    <3> HIDE DEF g, Q
    <3>. QED  BY <2>1, <2>6, <2>9
<1>2. PICK f \in [0..m -> V] : Q(f, m)
  <2>1. m \in 0..m
    OBVIOUS
  <2>2. m \notin S
    <3> HIDE DEF S
    <3>. QED  BY <1>1
  <2> HIDE DEF Q
  <2>. QED  BY <2>1, <2>2
<1>. QED  BY <1>2 DEF Iterates

\* Induction over 0..m.
LEMMA IntervalInduction ==
    ASSUME NEW m \in Nat, NEW G, 0 \in G, \A k \in 1..m : k - 1 \in G => k \in G
    PROVE  \A k \in 0..m : k \in G
<1> DEFINE S == {k \in 0..m : k \notin G}
<1> SUFFICES ASSUME S # {} PROVE FALSE
  OBVIOUS
<1>1. S \in SUBSET Nat /\ S \subseteq 0..m /\ 0 \notin S
  OBVIOUS
<1>2. PICK k \in S : \A j \in S : k <= j
  <2> HIDE DEF S
  <2>. QED  BY <1>1, LeastNatural
<1>3. k \in 1..m /\ k - 1 \in 0..m /\ k - 1 \notin S
  <2> HIDE DEF S
  <2>. QED  BY <1>1, <1>2
<1>. QED  BY <1>2, <1>3

Elements(s) == {s[i] : i \in DOMAIN s}

\* The elements of a sequence behind an Append.
LEMMA ElementsAppended ==
    ASSUME NEW R, NEW s \in Seq(R), NEW x \in R
    PROVE  /\ Append(s, x) \in Seq(R)
           /\ Elements(Append(s, x)) = Elements(s) \cup {x}
<1>1. /\ Append(s, x) \in Seq(R) /\ Len(Append(s, x)) = Len(s) + 1
      /\ \A i \in 1..Len(s) : Append(s, x)[i] = s[i]
      /\ Append(s, x)[Len(s) + 1] = x
  BY AppendProperties
<1> DEFINE a == Append(s, x)
<1>2. DOMAIN a = 1..Len(s) + 1 /\ DOMAIN s = 1..Len(s) /\ Len(s) \in Nat
  BY <1>1, LenProperties
<1>3. a[Len(s) + 1] = x /\ \A i \in 1..Len(s) : a[i] = s[i]
  BY <1>1
<1> HIDE DEF a
<1>4. {a[i] : i \in 1..Len(s) + 1} = {s[i] : i \in 1..Len(s)} \cup {x}
  BY <1>2, <1>3
<1>. QED  BY <1>1, <1>2, <1>4 DEF a, Elements

\* The elements of a concatenation.
LEMMA ElementsConcatenated ==
    ASSUME NEW R, NEW s \in Seq(R), NEW t \in Seq(R)
    PROVE  /\ s \o t \in Seq(R) /\ Len(s \o t) = Len(s) + Len(t)
           /\ \A i \in 1..Len(s) : (s \o t)[i] = s[i]
           /\ \A i \in 1..Len(t) : (s \o t)[Len(s) + i] = t[i]
           /\ Elements(s \o t) = Elements(s) \cup Elements(t)
<1> DEFINE c == s \o t
<1>1. /\ c \in Seq(R) /\ Len(c) = Len(s) + Len(t)
      /\ \A i \in 1..Len(s) + Len(t) : c[i] = IF i <= Len(s) THEN s[i] ELSE t[i - Len(s)]
  BY ConcatProperties
<1>2. DOMAIN c = 1..Len(s) + Len(t) /\ DOMAIN s = 1..Len(s) /\ DOMAIN t = 1..Len(t)
      /\ Len(s) \in Nat /\ Len(t) \in Nat
  BY <1>1, LenProperties
<1> HIDE DEF c
<1>3. \A i \in 1..Len(s) : i \in 1..Len(s) + Len(t) /\ c[i] = s[i]
  BY <1>1, <1>2
<1>4. \A i \in 1..Len(t) : Len(s) + i \in 1..Len(s) + Len(t) /\ c[Len(s) + i] = t[i]
  <2> TAKE i \in 1..Len(t)
  <2>1. /\ Len(s) + i \in 1..Len(s) + Len(t) /\ ~(Len(s) + i <= Len(s))
        /\ Len(s) + i - Len(s) = i
    BY <1>2
  <2>. QED  BY <1>1, <2>1
<1>5. \A i \in 1..Len(s) + Len(t) : i \in 1..Len(s) \/ (i - Len(s) \in 1..Len(t) /\ c[i] = t[i - Len(s)])
  BY <1>1, <1>2
<1>6. {c[i] : i \in 1..Len(s) + Len(t)} = {s[i] : i \in 1..Len(s)} \cup {t[i] : i \in 1..Len(t)}
  <2>1. ASSUME NEW i \in 1..Len(s) + Len(t)
        PROVE  c[i] \in {s[k] : k \in 1..Len(s)} \cup {t[k] : k \in 1..Len(t)}
    BY <1>3, <1>5
  <2>2. ASSUME NEW i \in 1..Len(s) PROVE s[i] \in {c[k] : k \in 1..Len(s) + Len(t)}
    BY <1>3
  <2>3. ASSUME NEW i \in 1..Len(t) PROVE t[i] \in {c[k] : k \in 1..Len(s) + Len(t)}
    BY <1>4
  <2>. QED  BY <2>1, <2>2, <2>3
<1>7. Elements(c) = Elements(s) \cup Elements(t)
  BY <1>2, <1>6 DEF Elements
<1>. QED  BY <1>1, <1>3, <1>4, <1>7 DEF c

\* Appending to the second part of a concatenation.
LEMMA ConcatAppend ==
    ASSUME NEW R, NEW s \in Seq(R), NEW t \in Seq(R), NEW x \in R
    PROVE  s \o Append(t, x) = Append(s \o t, x)
<1>1. Append(t, x) = t \o <<x>>
  BY AppendIsConcat
<1>2. s \o t \in Seq(R) /\ <<x>> \in Seq(R)
  BY ConcatProperties
<1>3. Append(s \o t, x) = (s \o t) \o <<x>>
  BY <1>2, AppendIsConcat
<1>4. (s \o t) \o <<x>> = s \o (t \o <<x>>)
  BY <1>2, ConcatAssociative
<1>. QED  BY <1>1, <1>3, <1>4

\* A prefix is the one before it and one more element.
LEMMA PrefixAppend ==
    ASSUME NEW R, NEW s \in Seq(R), NEW k \in 1..Len(s)
    PROVE  SubSeq(s, 1, k) = Append(SubSeq(s, 1, k - 1), s[k])
<1> DEFINE p == SubSeq(s, 1, k)
           q == SubSeq(s, 1, k - 1)
           a == Append(q, s[k])
<1>0. Len(s) \in Nat /\ k \in 0..Len(s) /\ k - 1 \in 0..Len(s) /\ s[k] \in R
  BY LenProperties, ElementOfSeq
<1>1. p \in Seq(R) /\ Len(p) = k /\ \A i \in 1..k : p[i] = s[i]
  BY <1>0, PrefixOfSeq
<1>2. q \in Seq(R) /\ Len(q) = k - 1 /\ \A i \in 1..k - 1 : q[i] = s[i]
  BY <1>0, PrefixOfSeq
<1> HIDE DEF p, q
<1>3. /\ a \in Seq(R) /\ Len(a) = k
      /\ (\A i \in 1..k - 1 : a[i] = q[i]) /\ a[k] = s[k]
  BY <1>0, <1>2, AppendProperties
<1> HIDE DEF a
<1>4. \A i \in 1..k : p[i] = a[i]
  <2> TAKE i \in 1..k
  <2>1. i = k \/ i \in 1..k - 1
    BY <1>0
  <2>. QED  BY <1>1, <1>2, <1>3, <2>1
<1>5. p = a
  BY <1>1, <1>3, <1>4, SeqEqual
<1>. QED  BY <1>5 DEF p, q, a
=============================================================================
