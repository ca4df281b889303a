----------------------------- MODULE Slab_proofs -----------------------------
(***************************************************************************)
(* Theorems about the slab allocator, for any frames, size classes and     *)
(* magazine size: that every object of every page is in one place, that    *)
(* objects fit what was asked, and that a page leaves its cache only when  *)
(* all of its objects are back.                                            *)
(***************************************************************************)
EXTENDS Slab, FiniteSetTheorems, SequenceTheorems, NaturalsInduction, WellFoundedInduction,
        TLAPS

----------------------------------------------------------------------------
(* Sequences without repetition, as the stacks and lists of the allocator are *)

\* The elements of a sequence, by position.
LEMMA Elements ==
  ASSUME NEW S, NEW s \in Seq(S)
  PROVE  /\ \A e : e \in ToSet(s) <=> \E i \in 1 .. Len(s) : s[i] = e
         /\ \A i \in 1 .. Len(s) : s[i] \in ToSet(s) /\ s[i] \in S
         /\ \A e : Contains(s, e) <=> e \in ToSet(s)
         /\ ToSet(s) \subseteq S /\ Len(s) \in Nat
         /\ IsInjective(s) <=> \A i, j \in 1 .. Len(s) : s[i] = s[j] => i = j
         /\ s = <<>> <=> ToSet(s) = {}
         /\ s = <<>> <=> Len(s) = 0
<1>1. DOMAIN s = 1 .. Len(s) /\ Len(s) \in Nat /\ \A i \in 1 .. Len(s) : s[i] \in S
  BY LenProperties
<1>2. s # <<>> => Len(s) # 0
  BY EmptySeq
<1>3. Len(s) = 0 => ToSet(s) = {}
  BY <1>1 DEF ToSet
<1>4. Len(s) # 0 => s[1] \in ToSet(s)
  BY <1>1 DEF ToSet
<1>5. s = <<>> => Len(s) = 0
  BY EmptySeq
<1> QED BY <1>1, <1>2, <1>3, <1>4, <1>5 DEF ToSet, Contains, IsInjective

\* The last element is taken off.
LEMMA FrontElements ==
  ASSUME NEW S, NEW s \in Seq(S), s # <<>>, IsInjective(s)
  PROVE  /\ Front(s) \in Seq(S) /\ IsInjective(Front(s))
         /\ Last(s) \in ToSet(s)
         /\ ToSet(Front(s)) = ToSet(s) \ {Last(s)}
         /\ Len(Front(s)) = Len(s) - 1
<1> DEFINE n == Len(s)
           t == SubSeq(s, 1, n - 1)
<1>1. n \in Nat /\ n # 0 /\ \A i \in 1 .. n : s[i] \in S
  BY Elements
<1>2. t \in Seq(S) /\ Len(t) = n - 1 /\ \A i \in 1 .. n - 1 : t[i] = s[i]
  <2>1. \A i \in 1 .. n - 1 : s[i] \in S
    BY <1>1
  <2>2. 1 \in Int /\ n - 1 \in Int
    BY <1>1
  <2>3. /\ t \in Seq(S)
        /\ Len(t) = IF 1 <= n - 1 THEN (n - 1) - 1 + 1 ELSE 0
        /\ \A i \in 1 .. (n - 1) - 1 + 1 : t[i] = s[1 + i - 1]
    BY <2>1, <2>2, SubSeqProperties
  <2>4. (n - 1) - 1 + 1 = n - 1 /\ (1 <= n - 1 \/ n - 1 = 0)
    <3> HIDE DEF n
    <3> QED BY <1>1
  <2>5. \A i \in 1 .. n - 1 : 1 + i - 1 = i
    OBVIOUS
  <2> HIDE DEF t, n
  <2> QED BY <2>3, <2>4, <2>5
<1>3. Front(s) = t /\ Last(s) = s[n]
  BY DEF Front, Last
<1> HIDE DEF t
<1>4. \A i, j \in 1 .. n : s[i] = s[j] => i = j
  BY Elements
<1>5. IsInjective(t)
  <2>1. \A i, j \in 1 .. Len(t) : t[i] = t[j] => i = j
    BY <1>1, <1>2, <1>4
  <2> QED BY <1>2, <2>1, Elements
<1>6. ASSUME NEW e  PROVE e \in ToSet(t) <=> e \in ToSet(s) \ {s[n]}
  <2>1. e \in ToSet(t) <=> \E i \in 1 .. n - 1 : s[i] = e
    BY <1>2, Elements
  <2>2. e \in ToSet(s) <=> \E i \in 1 .. n : s[i] = e
    BY Elements
  <2>3. (\E i \in 1 .. n - 1 : s[i] = e) <=> (\E i \in 1 .. n : s[i] = e) /\ e # s[n]
    BY <1>1, <1>4
  <2> QED BY <2>1, <2>2, <2>3
<1>7. s[n] \in ToSet(s)
  BY <1>1, Elements
<1> QED BY <1>2, <1>3, <1>5, <1>6, <1>7

\* The first is taken off.
LEMMA TailElements ==
  ASSUME NEW S, NEW s \in Seq(S), s # <<>>, IsInjective(s)
  PROVE  /\ Tail(s) \in Seq(S) /\ IsInjective(Tail(s))
         /\ Head(s) \in ToSet(s)
         /\ ToSet(Tail(s)) = ToSet(s) \ {Head(s)}
         /\ Len(Tail(s)) = Len(s) - 1
<1> DEFINE n == Len(s)
           t == Tail(s)
<1>1. n \in Nat /\ n # 0 /\ \A i \in 1 .. n : s[i] \in S
  BY Elements
<1>2. t \in Seq(S) /\ Len(t) = n - 1 /\ \A i \in 1 .. n - 1 : t[i] = s[i + 1]
  BY <1>1, HeadTailProperties
<1>3. Head(s) = s[1]
  BY <1>1
<1> HIDE DEF t
<1>4. \A i, j \in 1 .. n : s[i] = s[j] => i = j
  BY Elements
<1>5. IsInjective(t)
  <2>1. \A i, j \in 1 .. Len(t) : t[i] = t[j] => i = j
    <3> SUFFICES ASSUME NEW i \in 1 .. Len(t), NEW j \in 1 .. Len(t), t[i] = t[j]  PROVE i = j
      OBVIOUS
    <3>1. i + 1 \in 1 .. n /\ j + 1 \in 1 .. n /\ s[i + 1] = s[j + 1]
      BY <1>1, <1>2
    <3>2. i + 1 = j + 1
      BY <1>4, <3>1
    <3> QED BY <3>2
  <2> QED BY <1>2, <2>1, Elements
<1>6. ASSUME NEW e  PROVE e \in ToSet(t) <=> e \in ToSet(s) \ {s[1]}
  <2>1. e \in ToSet(t) <=> \E i \in 1 .. n - 1 : s[i + 1] = e
    <3>1. e \in ToSet(t) <=> \E i \in 1 .. Len(t) : t[i] = e
      BY <1>2, Elements
    <3> QED BY <1>2, <3>1
  <2>2. e \in ToSet(s) <=> \E i \in 1 .. n : s[i] = e
    BY Elements
  <2>3. ASSUME NEW i \in 1 .. n - 1, s[i + 1] = e  PROVE e \in ToSet(s) /\ e # s[1]
    <3>1. i + 1 \in 1 .. n /\ i + 1 # 1 /\ 1 \in 1 .. n
      BY <1>1
    <3> QED BY <1>4, <2>2, <2>3, <3>1
  <2>4. ASSUME NEW i \in 1 .. n, s[i] = e, e # s[1]  PROVE e \in ToSet(t)
    <3>1. i - 1 \in 1 .. n - 1 /\ (i - 1) + 1 = i
      BY <1>1, <2>4
    <3> QED BY <2>1, <2>4, <3>1
  <2> QED BY <2>1, <2>2, <2>3, <2>4
<1>7. s[1] \in ToSet(s)
  BY <1>1, Elements
<1> QED BY <1>2, <1>3, <1>5, <1>6, <1>7 DEF t

\* An element is put on at the end.
LEMMA AppendElements ==
  ASSUME NEW S, NEW s \in Seq(S), IsInjective(s), NEW e \in S, e \notin ToSet(s)
  PROVE  /\ Append(s, e) \in Seq(S) /\ IsInjective(Append(s, e))
         /\ ToSet(Append(s, e)) = ToSet(s) \cup {e}
         /\ Len(Append(s, e)) = Len(s) + 1
<1> DEFINE n == Len(s)
           t == Append(s, e)
<1>1. n \in Nat
  BY Elements
<1>2. t \in Seq(S) /\ Len(t) = n + 1 /\ (\A i \in 1 .. n : t[i] = s[i]) /\ t[n + 1] = e
  BY AppendProperties
<1> HIDE DEF t
<1>3. \A i, j \in 1 .. n : s[i] = s[j] => i = j
  BY Elements
<1>4. \A i \in 1 .. n : s[i] # e
  BY Elements
<1>5. \A i \in 1 .. n + 1 : i \in 1 .. n \/ i = n + 1
  BY <1>1
<1>6. IsInjective(t)
  <2>1. \A i, j \in 1 .. Len(t) : t[i] = t[j] => i = j
    BY <1>2, <1>3, <1>4, <1>5
  <2> QED BY <1>2, <2>1, Elements
<1>7. ASSUME NEW d  PROVE d \in ToSet(t) <=> d \in ToSet(s) \cup {e}
  <2>1. d \in ToSet(t) <=> \E i \in 1 .. n + 1 : t[i] = d
    BY <1>2, Elements
  <2>2. d \in ToSet(s) <=> \E i \in 1 .. n : s[i] = d
    BY Elements
  <2>3. n + 1 \in 1 .. n + 1 /\ 1 .. n \subseteq 1 .. n + 1
    BY <1>1
  <2> QED BY <1>2, <1>5, <2>1, <2>2, <2>3
<1> QED BY <1>2, <1>6, <1>7 DEF t

\* An element is put on at the front.
LEMMA ConsElements ==
  ASSUME NEW S, NEW s \in Seq(S), IsInjective(s), NEW e \in S, e \notin ToSet(s)
  PROVE  /\ <<e>> \o s \in Seq(S) /\ IsInjective(<<e>> \o s)
         /\ ToSet(<<e>> \o s) = ToSet(s) \cup {e}
         /\ Len(<<e>> \o s) = Len(s) + 1
<1> DEFINE n == Len(s)
           t == <<e>> \o s
<1>1. n \in Nat
  BY Elements
<1>2. t \in Seq(S) /\ Len(t) = n + 1 /\ t[1] = e /\ \A i \in 2 .. n + 1 : t[i] = s[i - 1]
  <2>1. <<e>> \in Seq(S) /\ Len(<<e>>) = 1 /\ <<e>>[1] = e
    OBVIOUS
  <2>2. /\ t \in Seq(S) /\ Len(t) = 1 + n
        /\ \A i \in 1 .. 1 + n : t[i] = IF i <= 1 THEN <<e>>[i] ELSE s[i - 1]
    BY <2>1, ConcatProperties
  <2> HIDE DEF t
  <2> QED BY <1>1, <2>1, <2>2
<1> HIDE DEF t
<1>3. \A i, j \in 1 .. n : s[i] = s[j] => i = j
  BY Elements
<1>4. \A i \in 1 .. n : s[i] # e
  BY Elements
<1>5. \A i \in 1 .. n + 1 : i = 1 \/ (i \in 2 .. n + 1 /\ i - 1 \in 1 .. n)
  BY <1>1
<1>6. IsInjective(t)
  <2>1. \A i, j \in 1 .. Len(t) : t[i] = t[j] => i = j
    <3> SUFFICES ASSUME NEW i \in 1 .. n + 1, NEW j \in 1 .. n + 1, t[i] = t[j]  PROVE i = j
      BY <1>2
    <3>1. CASE i = 1 \/ j = 1
      BY <1>2, <1>4, <1>5, <3>1
    <3>2. CASE i # 1 /\ j # 1
      <4>1. i - 1 = j - 1
        BY <1>2, <1>3, <1>5, <3>2
      <4> QED BY <4>1
    <3> QED BY <3>1, <3>2
  <2> QED BY <1>2, <2>1, Elements
<1>7. ASSUME NEW d  PROVE d \in ToSet(t) <=> d \in ToSet(s) \cup {e}
  <2>1. d \in ToSet(t) <=> \E i \in 1 .. n + 1 : t[i] = d
    BY <1>2, Elements
  <2>2. d \in ToSet(s) <=> \E i \in 1 .. n : s[i] = d
    BY Elements
  <2>3. 1 \in 1 .. n + 1
    BY <1>1
  <2>4. ASSUME NEW i \in 1 .. n, s[i] = d  PROVE d \in ToSet(t)
    <3>1. i + 1 \in 2 .. n + 1 /\ i + 1 \in 1 .. n + 1 /\ (i + 1) - 1 = i
      BY <1>1
    <3> QED BY <1>2, <2>1, <2>4, <3>1
  <2> QED BY <1>2, <1>5, <2>1, <2>2, <2>3, <2>4
<1> QED BY <1>2, <1>6, <1>7 DEF t

\* A set of naturals that is not empty has a least element.
LEMMA LeastExists ==
  ASSUME NEW S \in SUBSET Nat, S # {}
  PROVE  \E x \in S : \A y \in S : x <= y
<1> DEFINE Less == {ss \in Nat \X Nat : ss[1] < ss[2]}
<1>1. IsWellFoundedOn(Less, Nat)
  BY NatLessThanWellFounded, Zenon DEF OpToRel
<1>2. PICK x \in S : \A y \in S : <<y, x>> \notin Less
  <2> HIDE DEF Less
  <2> QED BY <1>1, WFMin
<1>3. \A y \in S : x <= y
  <2> SUFFICES ASSUME NEW y \in S  PROVE x <= y
    OBVIOUS
  <2>1. <<y, x>> \in Nat \X Nat /\ <<y, x>> \notin Less
    BY <1>2
  <2>2. <<y, x>>[1] = y /\ <<y, x>>[2] = x
    OBVIOUS
  <2>3. ~ (y < x) /\ y \in Nat /\ x \in Nat
    BY <2>1, <2>2
  <2> QED BY <2>3
<1> QED BY <1>3

\* An element is taken out, wherever it is.
LEMMA RemoveFirstElements ==
  ASSUME NEW S, NEW s \in Seq(S), IsInjective(s), NEW e \in ToSet(s)
  PROVE  /\ RemoveFirst(s, e) \in Seq(S) /\ IsInjective(RemoveFirst(s, e))
         /\ ToSet(RemoveFirst(s, e)) = ToSet(s) \ {e}
<1> DEFINE n == Len(s)
           I == {i \in 1 .. n : s[i] = e}
           t == RemoveFirst(s, e)
<1>1. n \in Nat /\ \A i \in 1 .. n : s[i] \in S
  BY Elements
<1>2. \A i, j \in 1 .. n : s[i] = s[j] => i = j
  BY Elements
<1>3. PICK k \in I : \A y \in I : k <= y
  <2>1. I \in SUBSET Nat /\ I # {}
    BY <1>1, Elements
  <2> HIDE DEF I
  <2> QED BY <2>1, LeastExists
<1>4. k \in 1 .. n /\ s[k] = e /\ I = {k}
  BY <1>2, <1>3
<1>5. SelectInSeq(s, LAMBDA v : v = e) = k
  <2>1. SelectInSeq(s, LAMBDA v : v = e) = Min(I)
    BY <1>4 DEF SelectInSeq
  <2>2. k \in {k} /\ \A y \in {k} : k <= y
    BY <1>4
  <2>3. Min({k}) = k
    BY <2>2 DEF Min
  <2> QED BY <1>4, <2>1, <2>3
<1>6. t = SubSeq(s, 1, k - 1) \o SubSeq(s, k + 1, n)
  BY <1>4, <1>5 DEF RemoveFirst, RemoveAt
<1> DEFINE u == SubSeq(s, 1, k - 1)
           w == SubSeq(s, k + 1, n)
<1> HIDE DEF t, I
<1>7. u \in Seq(S) /\ Len(u) = k - 1 /\ \A i \in 1 .. k - 1 : u[i] = s[i]
  <2>1. /\ \A i \in 1 .. k - 1 : s[i] \in S
        /\ 1 \in Int /\ k - 1 \in Int /\ (1 <= k - 1 \/ k - 1 = 0)
        /\ (k - 1) - 1 + 1 = k - 1
    <3> HIDE DEF n
    <3> QED BY <1>1, <1>4
  <2>2. /\ u \in Seq(S)
        /\ Len(u) = IF 1 <= k - 1 THEN (k - 1) - 1 + 1 ELSE 0
        /\ \A i \in 1 .. (k - 1) - 1 + 1 : u[i] = s[1 + i - 1]
    BY <2>1, SubSeqProperties
  <2>3. \A i \in 1 .. k - 1 : 1 + i - 1 = i
    OBVIOUS
  <2> HIDE DEF u, n
  <2> QED BY <2>1, <2>2, <2>3
<1>8. w \in Seq(S) /\ Len(w) = n - k /\ \A i \in 1 .. n - k : w[i] = s[k + i]
  <2>1. /\ \A i \in k + 1 .. n : s[i] \in S
        /\ k + 1 \in Int /\ n \in Int /\ (k + 1 <= n \/ n - k = 0)
        /\ n - (k + 1) + 1 = n - k
    <3> HIDE DEF n
    <3> QED BY <1>1, <1>4
  <2>2. /\ w \in Seq(S)
        /\ Len(w) = IF k + 1 <= n THEN n - (k + 1) + 1 ELSE 0
        /\ \A i \in 1 .. n - (k + 1) + 1 : w[i] = s[(k + 1) + i - 1]
    BY <2>1, SubSeqProperties
  <2>3. \A i \in 1 .. n - k : (k + 1) + i - 1 = k + i
    <3> HIDE DEF n
    <3> QED BY <1>1, <1>4
  <2>4. n - k \in Int /\ k \in Int
    <3> HIDE DEF n
    <3> QED BY <1>1, <1>4
  <2> HIDE DEF w, n
  <2> QED BY <2>1, <2>2, <2>3, <2>4
<1> HIDE DEF u, w
<1>9. /\ t \in Seq(S) /\ Len(t) = n - 1
      /\ \A i \in 1 .. n - 1 : t[i] = IF i < k THEN s[i] ELSE s[i + 1]
  <2>1. t = u \o w
    BY <1>6 DEF u, w
  <2>2. /\ t \in Seq(S) /\ Len(t) = (k - 1) + (n - k)
        /\ \A i \in 1 .. (k - 1) + (n - k) : t[i] = IF i <= k - 1 THEN u[i] ELSE w[i - (k - 1)]
    <3>1. /\ u \o w \in Seq(S) /\ Len(u \o w) = Len(u) + Len(w)
          /\ \A i \in 1 .. Len(u) + Len(w) :
               (u \o w)[i] = IF i <= Len(u) THEN u[i] ELSE w[i - Len(u)]
      BY <1>7, <1>8, ConcatProperties
    <3> HIDE DEF n
    <3> QED BY <1>7, <1>8, <2>1, <3>1
  <2>3. (k - 1) + (n - k) = n - 1
    <3> HIDE DEF n
    <3> QED BY <1>1, <1>4
  <2>4. ASSUME NEW i \in 1 .. n - 1
        PROVE  /\ i <= k - 1 <=> i < k
               /\ i < k => i \in 1 .. k - 1
               /\ ~(i < k) => i - (k - 1) \in 1 .. n - k /\ k + (i - (k - 1)) = i + 1
    <3> HIDE DEF n
    <3> QED BY <1>1, <1>4
  <2> HIDE DEF n
  <2> QED BY <1>7, <1>8, <2>2, <2>3, <2>4
<1>10. \A i \in 1 .. n - 1 : i \in 1 .. n /\ i + 1 \in 1 .. n
  <2> HIDE DEF n
  <2> QED BY <1>1
<1>11. IsInjective(t)
  <2>1. ASSUME NEW i \in 1 .. n - 1, NEW j \in 1 .. n - 1, t[i] = t[j]  PROVE i = j
    <3> DEFINE a == IF i < k THEN i ELSE i + 1
               b == IF j < k THEN j ELSE j + 1
    <3>1. a \in 1 .. n /\ b \in 1 .. n /\ s[a] = s[b]
      BY <1>9, <1>10, <2>1
    <3>2. a = b
      <4> HIDE DEF a, b, n
      <4> QED BY <1>2, <3>1
    <3> QED BY <1>4, <3>2
  <2>2. \A i, j \in 1 .. Len(t) : t[i] = t[j] => i = j
    BY <1>9, <2>1
  <2> QED BY <1>9, <2>2, Elements
<1>12. ASSUME NEW d  PROVE d \in ToSet(t) <=> d \in ToSet(s) \ {e}
  <2>1. d \in ToSet(t) <=> \E i \in 1 .. n - 1 : t[i] = d
    <3>1. d \in ToSet(t) <=> \E i \in 1 .. Len(t) : t[i] = d
      BY <1>9, Elements
    <3> QED BY <1>9, <3>1
  <2>2. d \in ToSet(s) <=> \E i \in 1 .. n : s[i] = d
    BY Elements
  <2>3. ASSUME NEW i \in 1 .. n - 1, t[i] = d  PROVE d \in ToSet(s) /\ d # e
    <3> DEFINE a == IF i < k THEN i ELSE i + 1
    <3>1. a \in 1 .. n /\ s[a] = d /\ a # k
      BY <1>4, <1>9, <1>10, <2>3
    <3> HIDE DEF a
    <3> QED BY <1>2, <1>4, <2>2, <3>1
  <2>4. ASSUME NEW i \in 1 .. n, s[i] = d, d # e  PROVE d \in ToSet(t)
    <3>1. i # k
      BY <1>4, <2>4
    <3>2. CASE i < k
      <4>1. i \in 1 .. n - 1
        <5> HIDE DEF n
        <5> QED BY <1>1, <1>4, <3>2
      <4> QED BY <1>9, <2>1, <2>4, <3>2, <4>1
    <3>3. CASE k < i
      <4>1. i - 1 \in 1 .. n - 1 /\ ~(i - 1 < k) /\ (i - 1) + 1 = i
        <5> HIDE DEF n
        <5> QED BY <1>1, <1>4, <3>3
      <4> QED BY <1>9, <2>1, <2>4, <4>1
    <3> QED BY <1>4, <3>1, <3>2, <3>3
  <2> QED BY <2>1, <2>2, <2>3, <2>4
<1> QED BY <1>9, <1>11, <1>12 DEF t

\* A list without repetition of the slots of a page is no longer than they are
\* many, and holds them all when it is as long.
LEMMA AllSlots ==
  ASSUME NEW n \in Nat, NEW s \in Seq(0 .. n - 1), IsInjective(s)
  PROVE  Len(s) <= n /\ (Len(s) = n => ToSet(s) = 0 .. n - 1)
<1>1. Len(s) \in Nat /\ s \in [1 .. Len(s) -> 0 .. n - 1]
  BY LenProperties
<1>2. s \in Injection(1 .. Len(s), 0 .. n - 1)
  BY <1>1 DEF Injection
<1>3. /\ IsFiniteSet(0 .. n - 1) /\ Cardinality(0 .. n - 1) = n
      /\ Cardinality(1 .. Len(s)) = Len(s)
  <2>1. IsFiniteSet(0 .. n - 1) /\ Cardinality(0 .. n - 1) = IF 0 > n - 1 THEN 0 ELSE n - 1 - 0 + 1
    <3>1. 0 \in Int /\ n - 1 \in Int
      OBVIOUS
    <3> QED BY <3>1, FS_Interval
  <2>2. Cardinality(1 .. Len(s)) = IF 1 > Len(s) THEN 0 ELSE Len(s) - 1 + 1
    <3>1. 1 \in Int /\ Len(s) \in Int
      BY <1>1
    <3> QED BY <3>1, FS_Interval
  <2>3. (IF 0 > n - 1 THEN 0 ELSE n - 1 - 0 + 1) = n
    OBVIOUS
  <2>4. ASSUME NEW m \in Nat  PROVE (IF 1 > m THEN 0 ELSE m - 1 + 1) = m
    OBVIOUS
  <2> QED BY <1>1, <2>1, <2>2, <2>3, <2>4
<1>4. /\ Len(s) <= n
      /\ Len(s) = n => s \in Surjection(1 .. Len(s), 0 .. n - 1)
  BY <1>2, <1>3, FS_Injection
<1>5. ASSUME s \in Surjection(1 .. Len(s), 0 .. n - 1)  PROVE ToSet(s) = 0 .. n - 1
  <2>1. \A t \in 0 .. n - 1 : \E i \in 1 .. Len(s) : s[i] = t
    BY <1>5 DEF Surjection
  <2>2. /\ ToSet(s) \subseteq 0 .. n - 1
        /\ \A t : t \in ToSet(s) <=> \E i \in 1 .. Len(s) : s[i] = t
    BY Elements
  <2> QED BY <2>1, <2>2
<1> QED BY <1>4, <1>5

----------------------------------------------------------------------------
(* Size classes *)

\* A page has room for an object of any class, and for no more than its bytes.
LEMMA Quotient ==
  ASSUME NEW a \in Nat, NEW b \in Nat \ {0}, b <= a
  PROVE  a \div b \in Nat \ {0} /\ a \div b <= a
<1> DEFINE q == a \div b
           r == a % b
<1>1. q \in Int /\ r \in 0 .. b - 1 /\ a = b * q + r
  OBVIOUS
<1> HIDE DEF q, r
<1>2. q >= 1
  <2>1. q <= 0 => b * q <= 0
    BY <1>1, SMTT(30)
  <2> QED BY <1>1, <2>1
<1>3. q <= b * q
  BY <1>1, <1>2, SMTT(30)
<1>4. q <= a
  <2> DEFINE m == b * q
  <2>1. m \in Int /\ a = m + r /\ q <= m
    BY <1>1, <1>3
  <2> HIDE DEF m
  <2> QED BY <1>1, <2>1
<1> QED BY <1>1, <1>2, <1>4 DEF q

\* The classes and their sizes.
LEMMA ClassSizes ==
  /\ Classes \subseteq Nat \ {0}
  /\ \A i \in Classes : /\ slab_sizes[i] \in Nat \ {0} /\ slab_sizes[i] <= USABLE
                        /\ objs_per_page(i) \in Nat \ {0} /\ objs_per_page(i) <= USABLE
  /\ \A i, j \in Classes : slab_sizes[i] <= slab_sizes[j] => i <= j
  /\ \A i, j \in Classes : slab_sizes[i] = slab_sizes[j] => i = j
<1>1. Classes = 1 .. Len(slab_sizes) /\ Len(slab_sizes) \in Nat
  BY SlabAssumption, LenProperties DEF Classes
<1>2. \A i \in Classes : slab_sizes[i] \in Nat \ {0} /\ slab_sizes[i] <= USABLE
  BY <1>1, SlabAssumption, ElementOfSeq
<1>3. ASSUME NEW i \in Classes
      PROVE  objs_per_page(i) \in Nat \ {0} /\ objs_per_page(i) <= USABLE
  BY <1>2, SlabAssumption, Quotient DEF objs_per_page
<1>4. \A i, j \in Classes : i < j => slab_sizes[i] < slab_sizes[j]
  BY SlabAssumption
<1>5. \A i, j \in Classes : i < j \/ j < i \/ i = j
  BY <1>1
<1>6. ASSUME NEW i \in Classes, NEW j \in Classes, slab_sizes[i] <= slab_sizes[j]
      PROVE  i <= j
  <2>1. ~(j < i)
    BY <1>2, <1>4, <1>6
  <2> QED BY <1>1, <2>1
<1>7. ASSUME NEW i \in Classes, NEW j \in Classes, slab_sizes[i] = slab_sizes[j]
      PROVE  i = j
  BY <1>2, <1>4, <1>5, <1>7
<1> QED BY <1>1, <1>2, <1>3, <1>6, <1>7

\* The class of a size is the first that it fits in.
LEMMA ClassFits ==
  ASSUME NEW sz \in Nat, size_to_index(sz) # 0
  PROVE  size_to_index(sz) \in Classes /\ sz <= slab_sizes[size_to_index(sz)]
<1> DEFINE S == {i \in Classes : sz <= slab_sizes[i]}
<1>1. S # {}
  BY DEF size_to_index
<1>2. S \in SUBSET Nat
  BY ClassSizes
<1>3. PICK k \in S : \A i \in S : k <= i
  <2> HIDE DEF S
  <2> QED BY <1>1, <1>2, LeastExists
<1>4. \E i \in Classes : sz <= slab_sizes[i] /\ \A j \in Classes : sz <= slab_sizes[j] => i <= j
  BY <1>3
<1> QED BY <1>4 DEF size_to_index

\* The class of a page is found again from the object size in its header.
LEMMA ClassOfSize ==
  ASSUME NEW c \in Classes
  PROVE  size_to_index(slab_sizes[c]) = c
<1>1. slab_sizes[c] \in Nat /\ slab_sizes[c] <= slab_sizes[c]
  BY ClassSizes
<1>2. \A j \in Classes : slab_sizes[c] <= slab_sizes[j] => c <= j
  BY ClassSizes
<1> DEFINE k == size_to_index(slab_sizes[c])
           First(i) == /\ slab_sizes[c] <= slab_sizes[i]
                       /\ \A j \in Classes : slab_sizes[c] <= slab_sizes[j] => i <= j
<1>3. k = CHOOSE i \in Classes : First(i)
  BY <1>1 DEF size_to_index
<1>4. First(c)
  BY <1>1, <1>2
<1>5. k \in Classes /\ First(k)
  <2> HIDE DEF First, k
  <2> QED BY <1>3, <1>4
<1>6. k <= c /\ c <= k
  BY <1>1, <1>2, <1>5
<1>7. k \in Nat /\ c \in Nat
  BY <1>5, ClassSizes
<1> HIDE DEF k
<1> QED BY <1>6, <1>7 DEF k

----------------------------------------------------------------------------
(* The inductive invariant *)

Places == [page : Frames, slot : Nat]

\* An object of a slab page.
Real(o) == o \in Places /\ obj_size[o.page] # 0 /\ o.slot \in Slots(o.page)

\* An object in a magazine, and one on its page's free list.
Kept(o) == \E c \in Classes : o \in ToSet(mags[c])
Free(o) == o.slot \in ToSet(free_list[o.page])

Types ==
  /\ pool \subseteq Frames /\ held \subseteq Frames /\ pool \cap held = {}
  /\ frame \in Frames \cup {NoFrame}
  /\ obj_size \in [Frames -> {0} \cup {slab_sizes[i] : i \in Classes}]
  /\ free_list \in [Frames -> Seq(Nat)] /\ free_count \in [Frames -> Nat]
  /\ partial \in [Classes -> Seq(Frames)]
  /\ mags \in [Classes -> Seq(Places)]

\* A slab page's frame is never given back: the address it is freed by is none
\* of the frame allocator's.
PagesHeld == \A f \in Frames : obj_size[f] # 0 => f \in held

FreeLists ==
  \A f \in Frames :
    /\ free_count[f] = Len(free_list[f]) /\ IsInjective(free_list[f])
    /\ obj_size[f] = 0 => free_list[f] = <<>>
    /\ obj_size[f] # 0 => ToSet(free_list[f]) \subseteq Slots(f)

Caches ==
  \A c \in Classes :
    /\ IsInjective(partial[c])
    /\ \A f \in ToSet(partial[c]) : obj_size[f] = slab_sizes[c]

Magazines ==
  \A c \in Classes :
    /\ IsInjective(mags[c]) /\ Len(mags[c]) <= SLAB_MAGAZINE_SIZE
    /\ \A o \in ToSet(mags[c]) : Real(o) /\ obj_size[o.page] = slab_sizes[c] /\ ~Free(o)

Callers ==
  \A o \in DOMAIN owned :
    /\ Real(o) /\ ~Free(o) /\ ~Kept(o)
    /\ owned[o] \in Sizes /\ owned[o] <= obj_size[o.page]

NoneLost == \A o : Real(o) => Owned(o) \/ Kept(o) \/ Free(o)

\* A page that left its cache has all of its objects.
RetiredFull ==
  \A f \in Frames :
    obj_size[f] # 0 =>
      f \in ToSet(partial[size_to_index(obj_size[f])]) \/ Slots(f) \subseteq ToSet(free_list[f])

IInv ==
  /\ Types /\ PagesHeld /\ FreeLists /\ Caches /\ Magazines /\ Callers /\ NoneLost /\ RetiredFull

\* A page's class: its slots are as many as a page of the class has objects.
LEMMA PageClass ==
  ASSUME Types, NEW f \in Frames, obj_size[f] # 0
  PROVE  /\ size_to_index(obj_size[f]) \in Classes
         /\ slab_sizes[size_to_index(obj_size[f])] = obj_size[f]
         /\ Slots(f) = 0 .. objs_per_page(size_to_index(obj_size[f])) - 1
         /\ \A c \in Classes : obj_size[f] = slab_sizes[c] => size_to_index(obj_size[f]) = c
<1>1. PICK c \in Classes : obj_size[f] = slab_sizes[c]
  BY DEF Types
<1>2. size_to_index(obj_size[f]) = c
  BY <1>1, ClassOfSize
<1>3. \A d \in Classes : obj_size[f] = slab_sizes[d] => c = d
  BY <1>1, ClassSizes
<1> QED BY <1>1, <1>2, <1>3 DEF Slots

\* Slots are numbered by naturals.
LEMMA SlotNumbers ==
  ASSUME Types, NEW f \in Frames, obj_size[f] # 0, NEW s \in Slots(f)
  PROVE  s \in Nat
<1> DEFINE n == objs_per_page(size_to_index(obj_size[f]))
<1>1. Slots(f) = 0 .. n - 1 /\ n \in Nat
  BY PageClass, ClassSizes
<1> HIDE DEF n
<1> QED BY <1>1

\* After slab_init nothing is owned, and no page belongs to a class.
LEMMA InitHolds == Init => IInv
<1> SUFFICES ASSUME Init  PROVE IInv
  OBVIOUS
<1>1. /\ \A S : <<>> \in Seq(S)
      /\ Len(<<>>) = 0 /\ ToSet(<<>>) = {} /\ IsInjective(<<>>)
  BY EmptySeq DEF ToSet, IsInjective
<1>2. DOMAIN owned = {}
  BY DEF Init
<1>3. Types
  BY <1>1 DEF Init, Types
<1>4. FreeLists /\ PagesHeld /\ RetiredFull
  BY <1>1 DEF Init, FreeLists, PagesHeld, RetiredFull
<1>5. \A c \in Classes : partial[c] = <<>> /\ mags[c] = <<>>
  BY DEF Init
<1>6. Caches /\ Magazines
  BY <1>1, <1>5, SlabAssumption DEF Caches, Magazines
<1>7. Callers /\ NoneLost
  BY <1>2 DEF Init, Callers, NoneLost, Real, Places
<1> QED BY <1>3, <1>4, <1>6, <1>7 DEF IInv

\* The objects in callers' hands, and the sizes they asked for.
LEMMA HandStep ==
  ASSUME NEW o, NEW sz, Hand(o, sz), o \notin DOMAIN owned
  PROVE  /\ DOMAIN owned' = DOMAIN owned \cup {o} /\ owned'[o] = sz
         /\ \A p \in DOMAIN owned : owned'[p] = owned[p]
BY DEF Hand

\* A release takes one object from its owner and leaves the others.
LEMMA ReleaseStep ==
  ASSUME NEW o, Release(o)
  PROVE  /\ DOMAIN owned' = DOMAIN owned \ {o}
         /\ \A p \in DOMAIN owned' : owned'[p] = owned[p]
BY DEF Release

\* What depends on the headers of the pages alone.
LEMMA SameHeaders ==
  ASSUME UNCHANGED obj_size
  PROVE  /\ \A f : Slots(f)' = Slots(f)
         /\ \A o : Real(o)' = Real(o)
BY DEF Slots, Real

\* slab_alloc served by the magazine keeps the invariant.
LEMMA StepFromMagazine ==
  ASSUME IInv, NEW sz \in Sizes, slab_alloc_from_magazine(sz)
  PROVE  IInv'
<1> DEFINE idx == size_to_index(sz)
           m == mags[idx]
           o == Last(m)
<1>1. idx \in Classes /\ sz <= slab_sizes[idx]
  BY ClassFits, SlabAssumption DEF slab_alloc_from_magazine
<1>2. m \in Seq(Places) /\ m # <<>> /\ IsInjective(m)
  BY <1>1 DEF slab_alloc_from_magazine, IInv, Types, Magazines
<1>3. /\ Front(m) \in Seq(Places) /\ IsInjective(Front(m))
      /\ o \in ToSet(m) /\ ToSet(Front(m)) = ToSet(m) \ {o} /\ Len(Front(m)) = Len(m) - 1
  BY <1>2, FrontElements
<1>4. /\ Real(o) /\ obj_size[o.page] = slab_sizes[idx] /\ ~Free(o) /\ Kept(o)
      /\ Len(m) <= SLAB_MAGAZINE_SIZE /\ Len(m) \in Nat /\ SLAB_MAGAZINE_SIZE \in Nat
  <2> HIDE DEF o, idx
  <2>1. /\ Len(m) <= SLAB_MAGAZINE_SIZE
        /\ \A p \in ToSet(m) : Real(p) /\ obj_size[p.page] = slab_sizes[idx] /\ ~Free(p)
    BY <1>1 DEF IInv, Magazines
  <2>2. Kept(o)
    BY <1>1, <1>3 DEF Kept
  <2> HIDE DEF m
  <2>3. Len(m) \in Nat /\ SLAB_MAGAZINE_SIZE \in Nat
    BY <1>2, SlabAssumption
  <2> QED BY <1>3, <2>1, <2>2, <2>3
<1>5. o \notin DOMAIN owned
  BY <1>4 DEF IInv, Callers
<1>6. /\ mags' = [mags EXCEPT ![idx] = Front(m)] /\ Hand(o, sz)
      /\ UNCHANGED <<pool, held, frame, obj_size, free_list, free_count, partial>>
  BY DEF slab_alloc_from_magazine, Pop, fvars, pvars
<1> HIDE DEF o, m, idx
<1>7. /\ mags' \in [Classes -> Seq(Places)] /\ mags'[idx] = Front(m)
      /\ \A c \in Classes \ {idx} : mags'[c] = mags[c]
  BY <1>1, <1>3, <1>6 DEF IInv, Types
<1>8. \A p : Kept(p)' <=> Kept(p) /\ p # o
  <2>1. ASSUME NEW c \in Classes, o \in ToSet(mags[c])  PROVE c = idx
    BY <1>1, <1>4, <2>1, ClassSizes DEF IInv, Magazines
  <2>2. \A c \in Classes : ToSet(mags'[c]) = ToSet(mags[c]) \ {o}
    BY <1>3, <1>7, <2>1 DEF m
  <2> QED BY <2>2 DEF Kept
<1>9. /\ \A p : Real(p)' = Real(p) /\ Free(p)' = Free(p)
      /\ \A f : Slots(f)' = Slots(f)
  BY <1>6, SameHeaders DEF Free
<1>10. /\ DOMAIN owned' = DOMAIN owned \cup {o} /\ owned'[o] = sz
       /\ \A p \in DOMAIN owned : owned'[p] = owned[p]
  BY <1>5, <1>6, HandStep
<1>11. Types' /\ PagesHeld' /\ FreeLists' /\ Caches' /\ RetiredFull'
  BY <1>6, <1>7, <1>9 DEF IInv, Types, PagesHeld, FreeLists, Caches, RetiredFull
<1>12. Magazines'
  <2> SUFFICES ASSUME NEW c \in Classes
               PROVE  /\ IsInjective(mags'[c]) /\ Len(mags'[c]) <= SLAB_MAGAZINE_SIZE
                      /\ \A p \in ToSet(mags'[c]) :
                           Real(p) /\ obj_size[p.page] = slab_sizes[c] /\ ~Free(p)
    BY <1>6, <1>9 DEF Magazines
  <2>1. CASE c = idx
    BY <1>1, <1>3, <1>4, <1>7, <2>1 DEF m, IInv, Magazines
  <2>2. CASE c # idx
    BY <1>7, <2>2 DEF IInv, Magazines
  <2> QED BY <2>1, <2>2
<1>13. Callers'
  BY <1>1, <1>4, <1>6, <1>8, <1>9, <1>10 DEF IInv, Callers
<1>14. NoneLost'
  BY <1>8, <1>9, <1>10 DEF IInv, NoneLost, Owned
<1> QED BY <1>11, <1>12, <1>13, <1>14 DEF IInv

\* slab_alloc served by a page that has free slots keeps the invariant.
LEMMA StepFromPage ==
  ASSUME IInv, NEW sz \in Sizes, slab_alloc_from_page(sz)
  PROVE  IInv'
<1> DEFINE idx == size_to_index(sz)
           sp == Head(partial[idx])
           fl == free_list[sp]
           o == Object(sp, Head(fl))
<1>1. idx \in Classes /\ sz <= slab_sizes[idx]
  BY ClassFits, SlabAssumption DEF slab_alloc_from_page
<1>2. partial[idx] \in Seq(Frames) /\ partial[idx] # <<>> /\ IsInjective(partial[idx])
  BY <1>1 DEF slab_alloc_from_page, HeadHasFree, IInv, Types, Caches
<1>3. sp \in Frames /\ sp \in ToSet(partial[idx])
  BY <1>2, TailElements, Elements
<1>4. obj_size[sp] = slab_sizes[idx] /\ obj_size[sp] # 0
  BY <1>1, <1>3, ClassSizes DEF IInv, Caches
<1>5. fl \in Seq(Nat) /\ IsInjective(fl) /\ fl # <<>> /\ free_count[sp] = Len(fl)
  <2>1. fl \in Seq(Nat) /\ IsInjective(fl) /\ free_count[sp] = Len(fl)
    BY <1>3 DEF IInv, Types, FreeLists
  <2>2. free_count[sp] # 0
    BY DEF slab_alloc_from_page, HeadHasFree
  <2> QED BY <2>1, <2>2, Elements
<1>6. /\ Tail(fl) \in Seq(Nat) /\ IsInjective(Tail(fl)) /\ Head(fl) \in ToSet(fl)
      /\ ToSet(Tail(fl)) = ToSet(fl) \ {Head(fl)} /\ Len(Tail(fl)) = Len(fl) - 1
      /\ Len(fl) \in Nat
  BY <1>5, TailElements, Elements
<1>7. o = [page |-> sp, slot |-> Head(fl)] /\ o.page = sp /\ o.slot = Head(fl)
  BY DEF Object
<1>8. Real(o) /\ Free(o) /\ obj_size[o.page] = slab_sizes[idx] /\ ToSet(fl) \subseteq Slots(sp)
  <2>1. ToSet(fl) \subseteq Slots(sp) /\ ToSet(fl) \subseteq Nat
    BY <1>3, <1>4, <1>5, Elements DEF IInv, FreeLists
  <2> QED BY <1>3, <1>4, <1>6, <1>7, <2>1 DEF Real, Free, Places
<1>9. o \notin DOMAIN owned /\ ~Kept(o)
  BY <1>8 DEF IInv, Callers, Magazines, Kept
<1>10. /\ free_list' = [free_list EXCEPT ![sp] = Tail(fl)]
       /\ free_count' = [free_count EXCEPT ![sp] = free_count[sp] - 1]
       /\ Hand(o, sz)
       /\ UNCHANGED <<pool, held, frame, obj_size, partial, mags>>
  BY DEF slab_alloc_from_page, fvars
<1> HIDE DEF o, fl, sp, idx
<1>11. /\ free_list' \in [Frames -> Seq(Nat)] /\ free_count' \in [Frames -> Nat]
       /\ free_list'[sp] = Tail(fl) /\ free_count'[sp] = Len(fl) - 1
       /\ \A f \in Frames \ {sp} : free_list'[f] = free_list[f] /\ free_count'[f] = free_count[f]
  BY <1>3, <1>5, <1>6, <1>10 DEF IInv, Types
<1>12. \A p : Real(p) => (Free(p)' <=> Free(p) /\ p # o)
  <2> SUFFICES ASSUME NEW p, Real(p)  PROVE Free(p)' <=> Free(p) /\ p # o
    OBVIOUS
  <2>1. p \in Places
    BY DEF Real
  <2>2. CASE p.page = sp
    <3>1. p # o <=> p.slot # Head(fl)
      BY <1>7, <2>1, <2>2 DEF Places
    <3> QED BY <1>6, <1>11, <2>2, <3>1 DEF Free, fl
  <2>3. CASE p.page # sp
    <3>1. p # o /\ p.page \in Frames
      BY <1>7, <2>1, <2>3 DEF Places
    <3> QED BY <1>11, <2>3, <3>1 DEF Free
  <2> QED BY <2>2, <2>3
<1>13. /\ \A p : Real(p)' = Real(p) /\ Kept(p)' = Kept(p)
       /\ \A f : Slots(f)' = Slots(f)
  BY <1>10, SameHeaders DEF Kept
<1>14. /\ DOMAIN owned' = DOMAIN owned \cup {o} /\ owned'[o] = sz
       /\ \A p \in DOMAIN owned : owned'[p] = owned[p]
  BY <1>9, <1>10, HandStep
<1>15. Types' /\ PagesHeld' /\ Caches'
  BY <1>10, <1>11 DEF IInv, Types, PagesHeld, Caches
<1>16. FreeLists'
  <2> SUFFICES ASSUME NEW f \in Frames
               PROVE  /\ free_count'[f] = Len(free_list'[f]) /\ IsInjective(free_list'[f])
                      /\ obj_size[f] = 0 => free_list'[f] = <<>>
                      /\ obj_size[f] # 0 => ToSet(free_list'[f]) \subseteq Slots(f)
    BY <1>10, <1>13 DEF FreeLists
  <2>1. CASE f = sp
    BY <1>4, <1>6, <1>8, <1>11, <2>1
  <2>2. CASE f # sp
    BY <1>11, <2>2 DEF IInv, FreeLists
  <2> QED BY <2>1, <2>2
<1>17. Magazines'
  BY <1>10, <1>12, <1>13 DEF IInv, Magazines
<1>18. Callers'
  BY <1>1, <1>8, <1>9, <1>10, <1>12, <1>13, <1>14 DEF IInv, Callers
<1>19. NoneLost'
  BY <1>12, <1>13, <1>14 DEF IInv, NoneLost, Owned
<1>20. RetiredFull'
  <2>1. size_to_index(obj_size[sp]) = idx
    BY <1>1, <1>3, <1>4, PageClass DEF IInv
  <2> QED BY <1>3, <1>10, <1>11, <1>13, <2>1 DEF IInv, RetiredFull
<1> QED BY <1>15, <1>16, <1>17, <1>18, <1>19, <1>20 DEF IInv

\* A new page's free list holds each of its slots once.
LEMMA NewFreeListProperty ==
  ASSUME NEW c \in Classes
  PROVE  /\ NewFreeList(c) \in Seq(Nat) /\ IsInjective(NewFreeList(c)) /\ NewFreeList(c) # <<>>
         /\ Len(NewFreeList(c)) = objs_per_page(c)
         /\ ToSet(NewFreeList(c)) = 0 .. objs_per_page(c) - 1
<1> DEFINE n == objs_per_page(c)
           fl == NewFreeList(c)
<1>1. n \in Nat \ {0}
  BY ClassSizes
<1>2. fl = [i \in 1 .. n |-> n - i]
  BY DEF NewFreeList
<1> HIDE DEF n
<1>3. fl \in [1 .. n -> 0 .. n - 1] /\ \A i \in 1 .. n : fl[i] = n - i
  BY <1>1, <1>2
<1> HIDE DEF fl
<1>4. fl \in Seq(0 .. n - 1) /\ Len(fl) = n
  <2>1. fl \in Seq(0 .. n - 1)
    BY <1>1, <1>3, SeqDef
  <2> DEFINE m == Len(fl)
  <2>2. 1 .. m = 1 .. n /\ m \in Nat
    BY <1>3, <2>1, LenProperties
  <2>3. m = n
    <3> HIDE DEF m
    <3>1. n \in 1 .. m
      BY <1>1, <2>2
    <3>2. m \in 1 .. n
      BY <1>1, <2>2, <3>1
    <3> QED BY <1>1, <3>1, <3>2
  <2> QED BY <2>1, <2>3
<1>5. IsInjective(fl)
  <2>1. \A i, j \in 1 .. Len(fl) : fl[i] = fl[j] => i = j
    BY <1>1, <1>3, <1>4
  <2> QED BY ZenonT(30), <1>4, <2>1, Elements
<1>6. ToSet(fl) = 0 .. n - 1
  BY <1>1, <1>4, <1>5, AllSlots
<1>7. fl \in Seq(Nat) /\ fl # <<>>
  BY <1>1, <1>4, Elements, SeqMonotonic
<1> QED BY <1>4, <1>5, <1>6, <1>7 DEF n, fl

\* slab_alloc served by a page just taken from the frames keeps the invariant.
LEMMA StepFromNewPage ==
  ASSUME IInv, NEW sz \in Sizes, slab_alloc_from_new_page(sz)
  PROVE  IInv'
<1> DEFINE idx == size_to_index(sz)
           n == objs_per_page(idx)
           fl == NewFreeList(idx)
<1>1. idx \in Classes /\ sz <= slab_sizes[idx] /\ slab_sizes[idx] # 0
  BY ClassFits, ClassSizes, SlabAssumption DEF slab_alloc_from_new_page
<1>2. PICK sp \in Frames :
        /\ PMM!Allocate(sp)
        /\ obj_size' = [obj_size EXCEPT ![sp] = slab_sizes[idx]]
        /\ partial' = [partial EXCEPT ![idx] = <<sp>> \o partial[idx]]
        /\ free_list' = [free_list EXCEPT ![sp] = Tail(fl)]
        /\ free_count' = [free_count EXCEPT ![sp] = FreshCount(idx)]
        /\ Hand(Object(sp, Head(fl)), sz)
        /\ UNCHANGED mags
  BY DEF slab_alloc_from_new_page
<1> DEFINE o == Object(sp, Head(fl))
<1>3. /\ fl \in Seq(Nat) /\ IsInjective(fl) /\ fl # <<>> /\ Len(fl) = n /\ n \in Nat \ {0}
      /\ ToSet(fl) = 0 .. n - 1
  BY <1>1, NewFreeListProperty, ClassSizes
<1>4. /\ Tail(fl) \in Seq(Nat) /\ IsInjective(Tail(fl)) /\ Head(fl) \in ToSet(fl)
      /\ ToSet(Tail(fl)) = ToSet(fl) \ {Head(fl)} /\ Len(Tail(fl)) = n - 1
  BY <1>3, TailElements
<1>5. o = [page |-> sp, slot |-> Head(fl)] /\ o.page = sp /\ o.slot = Head(fl)
  BY DEF Object
<1>6. /\ sp \in pool /\ pool' = pool \ {sp} /\ held' = held \cup {sp} /\ frame' = sp
      /\ obj_size[sp] = 0
  BY <1>2 DEF PMM!Allocate, IInv, Types, PagesHeld
<1>7. /\ obj_size' = [obj_size EXCEPT ![sp] = slab_sizes[idx]]
      /\ partial' = [partial EXCEPT ![idx] = <<sp>> \o partial[idx]]
      /\ free_list' = [free_list EXCEPT ![sp] = Tail(fl)]
      /\ free_count' = [free_count EXCEPT ![sp] = n - 1]
      /\ Hand(o, sz) /\ UNCHANGED mags
  BY <1>2 DEF FreshCount
<1> HIDE DEF o, fl, n, idx
<1>8. \A c \in Classes : sp \notin ToSet(partial[c])
  BY <1>6, ClassSizes DEF IInv, Caches
<1>9. /\ <<sp>> \o partial[idx] \in Seq(Frames) /\ IsInjective(<<sp>> \o partial[idx])
      /\ ToSet(<<sp>> \o partial[idx]) = ToSet(partial[idx]) \cup {sp}
  BY <1>1, <1>8, ConsElements DEF IInv, Types, Caches
<1>10. /\ obj_size'[sp] = slab_sizes[idx] /\ free_list'[sp] = Tail(fl) /\ free_count'[sp] = n - 1
       /\ partial'[idx] = <<sp>> \o partial[idx]
       /\ \A f \in Frames \ {sp} : /\ obj_size'[f] = obj_size[f]
                                   /\ free_list'[f] = free_list[f]
                                   /\ free_count'[f] = free_count[f]
       /\ \A c \in Classes \ {idx} : partial'[c] = partial[c]
  BY <1>1, <1>7 DEF IInv, Types
<1>11. Types'
  BY <1>1, <1>3, <1>4, <1>6, <1>7, <1>9 DEF IInv, Types
<1>12. size_to_index(obj_size'[sp]) = idx /\ Slots(sp)' = 0 .. n - 1
  BY <1>1, <1>10, ClassOfSize DEF Slots, n
<1>13. \A f \in Frames \ {sp} : Slots(f)' = Slots(f)
  BY <1>10 DEF Slots
<1>14. /\ \A p : Real(p) => p.page # sp /\ Real(p)' /\ (Free(p)' <=> Free(p))
       /\ \A p : Real(p)' => \/ Real(p)
                             \/ p.page = sp /\ (p = o \/ Free(p)')
       /\ Real(o)' /\ ~Free(o)'
  <2>1. ASSUME NEW p, Real(p)  PROVE p.page # sp /\ Real(p)' /\ (Free(p)' <=> Free(p))
    <3>1. p \in Places /\ p.page \in Frames /\ p.page # sp
      BY <1>6, <2>1 DEF Real, Places
    <3> QED BY <1>10, <1>13, <2>1, <3>1 DEF Real, Free
  <2>2. ASSUME NEW p, Real(p)', ~Real(p)  PROVE p.page = sp /\ (p = o \/ Free(p)')
    <3>1. p \in Places /\ p.page \in Frames
      BY <2>2 DEF Real, Places
    <3>2. p.page = sp
      BY <1>10, <1>13, <2>2, <3>1 DEF Real
    <3>3. p.slot \in ToSet(fl)
      BY <1>3, <1>12, <2>2, <3>2 DEF Real
    <3>4. p.slot = Head(fl) => p = o
      BY <1>5, <3>1, <3>2 DEF Places
    <3>5. p.slot # Head(fl) => Free(p)'
      BY <1>4, <1>10, <3>2, <3>3 DEF Free
    <3> QED BY <3>2, <3>4, <3>5
  <2>3. Real(o)' /\ ~Free(o)'
    <3>1. o \in Places
      BY <1>3, <1>4, <1>5 DEF Places
    <3>2. o.slot \in 0 .. n - 1 /\ o.slot \notin ToSet(Tail(fl))
      BY <1>3, <1>4, <1>5
    <3> QED BY <1>1, <1>5, <1>10, <1>12, <3>1, <3>2 DEF Real, Free
  <2> QED BY <2>1, <2>2, <2>3
<1>15. \A p : Kept(p)' = Kept(p)
  BY <1>7 DEF Kept
<1>16. o \notin DOMAIN owned /\ ~Kept(o)
  <2>1. ~Real(o)
    BY <1>5, <1>6 DEF Real
  <2> QED BY <2>1 DEF IInv, Callers, Magazines, Kept
<1>17. /\ DOMAIN owned' = DOMAIN owned \cup {o} /\ owned'[o] = sz
       /\ \A p \in DOMAIN owned : owned'[p] = owned[p]
  BY <1>7, <1>16, HandStep
<1>18. PagesHeld'
  BY <1>6, <1>10 DEF IInv, PagesHeld
<1>19. FreeLists'
  <2> SUFFICES ASSUME NEW f \in Frames
               PROVE  /\ free_count'[f] = Len(free_list'[f]) /\ IsInjective(free_list'[f])
                      /\ obj_size'[f] = 0 => free_list'[f] = <<>>
                      /\ obj_size'[f] # 0 => ToSet(free_list'[f]) \subseteq Slots(f)'
    BY DEF FreeLists
  <2>1. CASE f = sp
    BY <1>1, <1>3, <1>4, <1>10, <1>12, <2>1
  <2>2. CASE f # sp
    BY <1>10, <1>13, <2>2 DEF IInv, FreeLists
  <2> QED BY <2>1, <2>2
<1>20. Caches'
  <2> SUFFICES ASSUME NEW c \in Classes
               PROVE  /\ IsInjective(partial'[c])
                      /\ \A f \in ToSet(partial'[c]) : obj_size'[f] = slab_sizes[c]
    BY DEF Caches
  <2>1. \A f \in ToSet(partial[c]) : f \in Frames \ {sp}
    BY <1>8, Elements DEF IInv, Types
  <2>2. CASE c = idx
    BY <1>9, <1>10, <2>1, <2>2 DEF IInv, Caches
  <2>3. CASE c # idx
    BY <1>10, <2>1, <2>3 DEF IInv, Caches
  <2> QED BY <2>2, <2>3
<1>21. ASSUME NEW p, Real(p)  PROVE obj_size'[p.page] = obj_size[p.page]
  BY <1>10, <1>14, <1>21 DEF Real, Places
<1>22. Magazines'
  <2> SUFFICES ASSUME NEW c \in Classes
               PROVE  /\ IsInjective(mags[c]) /\ Len(mags[c]) <= SLAB_MAGAZINE_SIZE
                      /\ \A p \in ToSet(mags[c]) :
                           Real(p)' /\ obj_size'[p.page] = slab_sizes[c] /\ ~Free(p)'
    BY <1>7 DEF Magazines
  <2> QED BY <1>14, <1>21 DEF IInv, Magazines
<1>23. Callers'
  <2>1. ASSUME NEW p \in DOMAIN owned
        PROVE  /\ Real(p)' /\ ~Free(p)' /\ ~Kept(p)'
               /\ owned'[p] \in Sizes /\ owned'[p] <= obj_size'[p.page]
    BY <1>14, <1>15, <1>17, <1>21 DEF IInv, Callers
  <2>2. /\ Real(o)' /\ ~Free(o)' /\ ~Kept(o)' /\ owned'[o] \in Sizes
        /\ owned'[o] <= obj_size'[o.page]
    BY <1>1, <1>5, <1>10, <1>14, <1>15, <1>16, <1>17
  <2> QED BY <1>17, <2>1, <2>2 DEF Callers
<1>24. NoneLost'
  BY <1>14, <1>15, <1>17 DEF IInv, NoneLost, Owned
<1>25. RetiredFull'
  <2> SUFFICES ASSUME NEW f \in Frames, obj_size'[f] # 0
               PROVE  \/ f \in ToSet(partial'[size_to_index(obj_size'[f])])
                      \/ Slots(f)' \subseteq ToSet(free_list'[f])
    BY DEF RetiredFull
  <2>1. CASE f = sp
    BY <1>9, <1>10, <1>12, <2>1
  <2>2. CASE f # sp
    <3>1. size_to_index(obj_size[f]) \in Classes
      BY <1>10, <2>2, PageClass DEF IInv
    <3> QED BY <1>9, <1>10, <1>13, <2>2, <3>1 DEF IInv, RetiredFull
  <2> QED BY <2>1, <2>2
<1> QED BY <1>11, <1>18, <1>19, <1>20, <1>22, <1>23, <1>24, <1>25 DEF IInv

\* An allocation that fails changes at most the frame allocator's answer.
LEMMA StepFails ==
  ASSUME IInv, NEW sz \in Sizes, slab_alloc_fails(sz)
  PROVE  IInv'
<1>1. /\ UNCHANGED <<pool, held, obj_size, free_list, free_count, partial, mags, owned>>
      /\ frame' \in {frame, NoFrame}
  BY DEF slab_alloc_fails, vars, fvars, pvars, PMM!Refuse
<1>2. /\ \A p : Real(p)' = Real(p) /\ Kept(p)' = Kept(p) /\ Free(p)' = Free(p)
      /\ \A f : Slots(f)' = Slots(f)
  BY <1>1, SameHeaders DEF Kept, Free
<1>3. Types'
  BY <1>1 DEF IInv, Types
<1>4. PagesHeld' /\ FreeLists' /\ Caches' /\ RetiredFull'
  BY <1>1, <1>2 DEF IInv, PagesHeld, FreeLists, Caches, RetiredFull
<1>5. Magazines' /\ Callers' /\ NoneLost'
  BY <1>1, <1>2 DEF IInv, Magazines, Callers, NoneLost, Owned
<1> QED BY <1>3, <1>4, <1>5 DEF IInv

\* The class that slab_free finds is that of the object's page.
LEMMA CacheOfProperty ==
  ASSUME IInv, NEW o, Real(o)
  PROVE  /\ o \in Places /\ o.page \in Frames
         /\ CacheOf(o) \in Classes /\ slab_sizes[CacheOf(o)] = obj_size[o.page]
         /\ Slots(o.page) = 0 .. objs_per_page(CacheOf(o)) - 1
         /\ \A c \in Classes : obj_size[o.page] = slab_sizes[c] => CacheOf(o) = c
<1>1. o \in Places /\ o.page \in Frames /\ obj_size[o.page] # 0
  BY DEF Real, Places
<1> QED BY <1>1, PageClass DEF IInv, CacheOf

\* slab_free into a magazine with room keeps the invariant.
LEMMA StepToMagazine ==
  ASSUME IInv, NEW o \in DOMAIN owned, slab_free_to_magazine(o)
  PROVE  IInv'
<1> DEFINE idx == CacheOf(o)
           m == mags[idx]
<1>1. Real(o) /\ ~Free(o) /\ ~Kept(o)
  BY DEF IInv, Callers
<1>2. /\ idx \in Classes /\ slab_sizes[idx] = obj_size[o.page] /\ o \in Places
  BY <1>1, CacheOfProperty
<1>3. /\ m \in Seq(Places) /\ IsInjective(m) /\ Len(m) < SLAB_MAGAZINE_SIZE
      /\ o \notin ToSet(m) /\ Len(m) \in Nat
  BY <1>1, <1>2, Elements DEF slab_free_to_magazine, MagazineHasRoom, IInv, Types, Magazines, Kept
<1>4. /\ Append(m, o) \in Seq(Places) /\ IsInjective(Append(m, o))
      /\ ToSet(Append(m, o)) = ToSet(m) \cup {o} /\ Len(Append(m, o)) = Len(m) + 1
  BY <1>2, <1>3, AppendElements
<1>5. /\ mags' = [mags EXCEPT ![idx] = Append(m, o)] /\ Release(o)
      /\ UNCHANGED <<pool, held, frame, obj_size, free_list, free_count, partial>>
  BY DEF slab_free_to_magazine, fvars, pvars
<1> HIDE DEF m, idx
<1>6. /\ mags' \in [Classes -> Seq(Places)] /\ mags'[idx] = Append(m, o)
      /\ \A c \in Classes \ {idx} : mags'[c] = mags[c]
  BY <1>2, <1>4, <1>5 DEF IInv, Types
<1>7. \A p : Kept(p)' <=> Kept(p) \/ p = o
  <2>1. /\ ToSet(mags'[idx]) = ToSet(mags[idx]) \cup {o}
        /\ \A c \in Classes \ {idx} : ToSet(mags'[c]) = ToSet(mags[c])
    BY <1>4, <1>6 DEF m
  <2> QED BY <1>2, <2>1 DEF Kept
<1>8. /\ \A p : Real(p)' = Real(p) /\ Free(p)' = Free(p)
      /\ \A f : Slots(f)' = Slots(f)
  BY <1>5, SameHeaders DEF Free
<1>9. /\ DOMAIN owned' = DOMAIN owned \ {o}
      /\ \A p \in DOMAIN owned' : owned'[p] = owned[p]
  BY <1>5, ReleaseStep
<1>10. Types' /\ PagesHeld' /\ FreeLists' /\ Caches' /\ RetiredFull'
  BY <1>5, <1>6, <1>8 DEF IInv, Types, PagesHeld, FreeLists, Caches, RetiredFull
<1>11. Magazines'
  <2> SUFFICES ASSUME NEW c \in Classes
               PROVE  /\ IsInjective(mags'[c]) /\ Len(mags'[c]) <= SLAB_MAGAZINE_SIZE
                      /\ \A p \in ToSet(mags'[c]) :
                           Real(p) /\ obj_size[p.page] = slab_sizes[c] /\ ~Free(p)
    BY <1>5, <1>8 DEF Magazines
  <2>1. CASE c = idx
    <3>1. Len(m) + 1 <= SLAB_MAGAZINE_SIZE
      BY <1>3, SlabAssumption
    <3> QED BY <1>1, <1>2, <1>4, <1>6, <2>1, <3>1 DEF m, IInv, Magazines
  <2>2. CASE c # idx
    BY <1>6, <2>2 DEF IInv, Magazines
  <2> QED BY <2>1, <2>2
<1>12. Callers'
  BY <1>5, <1>7, <1>8, <1>9 DEF IInv, Callers
<1>13. NoneLost'
  BY <1>7, <1>8, <1>9 DEF IInv, NoneLost, Owned
<1> QED BY <1>10, <1>11, <1>12, <1>13 DEF IInv

\* What is given to the frame allocator is no frame it handed out.
LEMMA FreeIgnored ==
  ASSUME IInv, NEW f \in Frames, pmm_free_frame(PHYS_TO_VIRT(f))
  PROVE  UNCHANGED <<pool, held, frame>>
<1>1. f \in Nat /\ HHDM_BASE \in Nat /\ \A g \in Frames : g < HHDM_BASE /\ g \in Nat
  BY SlabAssumption
<1>2. PHYS_TO_VIRT(f) \notin held
  BY <1>1 DEF PHYS_TO_VIRT, IInv, Types
<1> QED BY <1>2 DEF pmm_free_frame, fvars

\* slab_free onto the list of the page, which may give the page back, keeps it.
LEMMA StepToPage ==
  ASSUME IInv, NEW o \in DOMAIN owned, slab_free_to_page(o)
  PROVE  IInv'
<1> DEFINE idx == CacheOf(o)
           sp == o.page
           fl == free_list[sp]
           n == objs_per_page(idx)
<1>1. Real(o) /\ ~Free(o) /\ ~Kept(o)
  BY DEF IInv, Callers
<1>2. /\ idx \in Classes /\ slab_sizes[idx] = obj_size[sp] /\ o \in Places /\ sp \in Frames
      /\ Slots(sp) = 0 .. n - 1 /\ n \in Nat
      /\ \A c \in Classes : obj_size[sp] = slab_sizes[c] => idx = c
      /\ obj_size[sp] # 0
  BY <1>1, CacheOfProperty, ClassSizes DEF Real
<1>3. /\ fl \in Seq(Nat) /\ IsInjective(fl) /\ free_count[sp] = Len(fl) /\ Len(fl) \in Nat
      /\ ToSet(fl) \subseteq Slots(sp) /\ o.slot \notin ToSet(fl)
      /\ o.slot \in Slots(sp) /\ o.slot \in Nat
  BY SMTT(30), <1>1, <1>2, Elements DEF IInv, Types, FreeLists, Free, Real, Places
<1>4. /\ <<o.slot>> \o fl \in Seq(Nat) /\ IsInjective(<<o.slot>> \o fl)
      /\ ToSet(<<o.slot>> \o fl) = ToSet(fl) \cup {o.slot}
      /\ Len(<<o.slot>> \o fl) = Len(fl) + 1
  BY <1>3, ConsElements
<1>5. /\ free_list' = [free_list EXCEPT ![sp] = <<o.slot>> \o fl]
      /\ free_count' = [free_count EXCEPT ![sp] = free_count[sp] + 1]
      /\ \/ /\ FullyFree(sp, idx)
            /\ partial' = [partial EXCEPT ![idx] = RemoveFirst(partial[idx], sp)]
            /\ pmm_free_frame(PHYS_TO_VIRT(sp))
         \/ UNCHANGED <<partial, fvars>>
      /\ Release(o) /\ UNCHANGED <<obj_size, mags>>
  BY DEF slab_free_to_page
<1> HIDE DEF fl, n, idx
<1>6. UNCHANGED <<pool, held, frame>>
  BY <1>2, <1>5, FreeIgnored DEF fvars
<1>7. /\ free_list' \in [Frames -> Seq(Nat)] /\ free_count' \in [Frames -> Nat]
      /\ free_list'[sp] = <<o.slot>> \o fl /\ free_count'[sp] = Len(fl) + 1
      /\ \A f \in Frames \ {sp} : free_list'[f] = free_list[f] /\ free_count'[f] = free_count[f]
  BY SMTT(30), <1>2, <1>3, <1>4, <1>5 DEF IInv, Types
\* The cache loses the page, if it is there, when the list then holds every slot.
<1>8. /\ partial' \in [Classes -> Seq(Frames)]
      /\ \A c \in Classes : /\ IsInjective(partial'[c])
                            /\ ToSet(partial'[c]) \subseteq ToSet(partial[c])
                            /\ ToSet(partial[c]) \ {sp} \subseteq ToSet(partial'[c])
      /\ \/ Slots(sp) \subseteq ToSet(free_list'[sp])
         \/ UNCHANGED partial
  <2>1. CASE UNCHANGED partial
    BY <2>1 DEF IInv, Types, Caches
  <2>2. CASE /\ FullyFree(sp, idx)
             /\ partial' = [partial EXCEPT ![idx] = RemoveFirst(partial[idx], sp)]
    <3>1. partial[idx] \in Seq(Frames) /\ IsInjective(partial[idx])
      BY <1>2 DEF IInv, Types, Caches
    <3>2. /\ RemoveFirst(partial[idx], sp) \in Seq(Frames)
          /\ IsInjective(RemoveFirst(partial[idx], sp))
          /\ ToSet(RemoveFirst(partial[idx], sp)) = ToSet(partial[idx]) \ {sp}
      <4>1. CASE sp \in ToSet(partial[idx])
        BY <3>1, <4>1, RemoveFirstElements
      <4>2. CASE sp \notin ToSet(partial[idx])
        <5>1. RemoveFirst(partial[idx], sp) = partial[idx]
          BY <3>1, <4>2, Elements DEF RemoveFirst
        <5> QED BY <3>1, <4>2, <5>1
      <4> QED BY <4>1, <4>2
    <3>3. /\ partial' \in [Classes -> Seq(Frames)]
          /\ partial'[idx] = RemoveFirst(partial[idx], sp)
          /\ \A c \in Classes \ {idx} : partial'[c] = partial[c]
      BY <1>2, <2>2, <3>2 DEF IInv, Types
    <3>4. Slots(sp) \subseteq ToSet(free_list'[sp])
      <4> DEFINE s == <<o.slot>> \o fl
      <4>1. Len(s) = n
        BY <1>3, <1>4, <2>2 DEF FullyFree, n
      <4>2. s \in Seq(Nat) /\ IsInjective(s) /\ ToSet(s) \subseteq 0 .. n - 1
        BY <1>2, <1>3, <1>4
      <4> HIDE DEF s
      <4>3. s \in Seq(0 .. n - 1)
        <5>1. /\ DOMAIN s = 1 .. Len(s) /\ Len(s) \in Nat /\ s \in [1 .. Len(s) -> Nat]
              /\ \A i \in 1 .. Len(s) : s[i] \in ToSet(s)
          BY <4>2, LenProperties, Elements
        <5>2. s \in [1 .. Len(s) -> 0 .. n - 1]
          BY <4>2, <5>1
        <5> QED BY <5>1, <5>2, SeqDef
      <4>4. ToSet(s) = 0 .. n - 1
        BY <1>2, <4>1, <4>2, <4>3, AllSlots
      <4> QED BY <1>2, <1>7, <4>4 DEF s
    <3>5. ASSUME NEW c \in Classes
          PROVE  /\ IsInjective(partial'[c])
                 /\ ToSet(partial'[c]) \subseteq ToSet(partial[c])
                 /\ ToSet(partial[c]) \ {sp} \subseteq ToSet(partial'[c])
      BY <3>2, <3>3 DEF IInv, Caches
    <3> QED BY <3>3, <3>4, <3>5
  <2> QED BY <1>5, <2>1, <2>2
<1>9. \A p : Real(p) => (Free(p)' <=> Free(p) \/ p = o)
  <2> SUFFICES ASSUME NEW p, Real(p)  PROVE Free(p)' <=> Free(p) \/ p = o
    OBVIOUS
  <2>1. p \in Places /\ p.page \in Frames
    BY DEF Real, Places
  <2>2. CASE p.page = sp
    <3>1. p = o <=> p.slot = o.slot
      BY <1>2, <2>1, <2>2 DEF Places
    <3> QED BY <1>4, <1>7, <2>2, <3>1 DEF Free, fl
  <2>3. CASE p.page # sp
    BY <1>7, <2>1, <2>3 DEF Free
  <2> QED BY <2>2, <2>3
<1>10. /\ \A p : Real(p)' = Real(p) /\ Kept(p)' = Kept(p)
       /\ \A f : Slots(f)' = Slots(f)
  BY <1>5, SameHeaders DEF Kept
<1>11. /\ DOMAIN owned' = DOMAIN owned \ {o}
       /\ \A p \in DOMAIN owned' : owned'[p] = owned[p]
  BY <1>5, ReleaseStep
<1>12. Types' /\ PagesHeld'
  BY <1>5, <1>6, <1>7, <1>8 DEF IInv, Types, PagesHeld
<1>13. FreeLists'
  <2> SUFFICES ASSUME NEW f \in Frames
               PROVE  /\ free_count'[f] = Len(free_list'[f]) /\ IsInjective(free_list'[f])
                      /\ obj_size[f] = 0 => free_list'[f] = <<>>
                      /\ obj_size[f] # 0 => ToSet(free_list'[f]) \subseteq Slots(f)
    BY <1>5, <1>10 DEF FreeLists
  <2>1. CASE f = sp
    <3>1. free_list'[f] = <<o.slot>> \o fl /\ free_count'[f] = Len(fl) + 1 /\ obj_size[f] # 0
      BY <1>2, <1>7, <2>1
    <3>2. free_count'[f] = Len(free_list'[f]) /\ IsInjective(free_list'[f])
      <4> DEFINE s == <<o.slot>> \o fl
      <4>1. free_list'[f] = s /\ IsInjective(s) /\ Len(s) = Len(fl) + 1
        BY <1>4, <3>1
      <4> HIDE DEF s
      <4> QED BY <3>1, <4>1
    <3>3. ToSet(free_list'[f]) \subseteq Slots(sp)
      <4> DEFINE s == <<o.slot>> \o fl
      <4>1. free_list'[f] = s /\ ToSet(s) = ToSet(fl) \cup {o.slot}
        BY <1>4, <3>1
      <4> HIDE DEF s
      <4> QED BY <1>3, <4>1
    <3> QED BY <2>1, <3>1, <3>2, <3>3
  <2>2. CASE f # sp
    BY <1>7, <2>2 DEF IInv, FreeLists
  <2> QED BY <2>1, <2>2
<1>14. Caches'
  BY <1>5, <1>8 DEF IInv, Caches
<1>15. Magazines'
  <2>1. ASSUME NEW c \in Classes, NEW p \in ToSet(mags[c])
        PROVE  Real(p) /\ obj_size[p.page] = slab_sizes[c] /\ ~Free(p)'
    BY <1>1, <1>9 DEF IInv, Magazines, Kept
  <2> QED BY <1>5, <1>10, <2>1 DEF IInv, Magazines
<1>16. Callers'
  BY <1>5, <1>9, <1>10, <1>11 DEF IInv, Callers
<1>17. NoneLost'
  BY <1>9, <1>10, <1>11 DEF IInv, NoneLost, Owned
<1>18. RetiredFull'
  <2> SUFFICES ASSUME NEW f \in Frames, obj_size[f] # 0
               PROVE  \/ f \in ToSet(partial'[size_to_index(obj_size[f])])
                      \/ Slots(f) \subseteq ToSet(free_list'[f])
    BY <1>5, <1>10 DEF RetiredFull
  <2>1. size_to_index(obj_size[f]) \in Classes
    BY PageClass DEF IInv
  <2>2. CASE f = sp
    BY <1>4, <1>7, <1>8, <2>2 DEF IInv, RetiredFull, fl
  <2>3. CASE f # sp
    BY <1>7, <1>8, <2>1, <2>3 DEF IInv, RetiredFull
  <2> QED BY <2>2, <2>3
<1> QED BY <1>12, <1>13, <1>14, <1>15, <1>16, <1>17, <1>18 DEF IInv

----------------------------------------------------------------------------
(* The theorems *)

\* The invariant is inductive.
LEMMA StepHolds == IInv /\ [Next]_vars => IInv'
<1> SUFFICES ASSUME IInv, [Next]_vars  PROVE IInv'
  OBVIOUS
<1>1. ASSUME NEW sz \in Sizes, slab_alloc_from_magazine(sz)  PROVE IInv'
  BY <1>1, StepFromMagazine
<1>2. ASSUME NEW sz \in Sizes, slab_alloc_from_page(sz)  PROVE IInv'
  BY <1>2, StepFromPage
<1>3. ASSUME NEW sz \in Sizes, slab_alloc_from_new_page(sz)  PROVE IInv'
  BY <1>3, StepFromNewPage
<1>4. ASSUME NEW sz \in Sizes, slab_alloc_fails(sz)  PROVE IInv'
  BY <1>4, StepFails
<1>5. ASSUME NEW o \in DOMAIN owned, slab_free_to_magazine(o)  PROVE IInv'
  BY <1>5, StepToMagazine
<1>6. ASSUME NEW o \in DOMAIN owned, slab_free_to_page(o)  PROVE IInv'
  BY <1>6, StepToPage
<1>7. CASE UNCHANGED vars
  <2>1. UNCHANGED <<pool, held, frame, obj_size, free_list, free_count, partial, mags, owned>>
    BY <1>7 DEF vars, fvars, pvars
  <2>2. /\ \A p : Real(p)' = Real(p) /\ Free(p)' = Free(p) /\ Kept(p)' = Kept(p)
        /\ \A f : Slots(f)' = Slots(f)
    BY <2>1, SameHeaders DEF Free, Kept
  <2>3. Types' /\ PagesHeld' /\ FreeLists' /\ Caches' /\ RetiredFull'
    BY <2>1, <2>2 DEF IInv, Types, PagesHeld, FreeLists, Caches, RetiredFull
  <2>4. Magazines' /\ Callers' /\ NoneLost'
    BY <2>1, <2>2 DEF IInv, Magazines, Callers, NoneLost, Owned
  <2> QED BY <2>3, <2>4 DEF IInv
<1> QED BY <1>1, <1>2, <1>3, <1>4, <1>5, <1>6, <1>7 DEF Next

\* The lists, magazines and counts of the allocator agree with what callers
\* hold, through every call of slab_alloc and slab_free.
THEOREM SlabInvariant == Spec => []IInv
BY InitHolds, StepHolds, PTL DEF Spec

\* The variables keep their types: no free list or count exceeds the page, and
\* no magazine its size.
THEOREM TypeCorrect == Spec => []TypeOK
<1>1. IInv => TypeOK
  <2> SUFFICES ASSUME IInv  PROVE TypeOK
    OBVIOUS
  <2>1. PMM!TypeOK
    BY DEF IInv, Types, PMM!TypeOK
  <2>2. obj_size \in [Frames -> {0} \cup {slab_sizes[i] : i \in Classes}]
    BY DEF IInv, Types
  <2>3. ASSUME NEW f \in Frames
        PROVE  ToSet(free_list[f]) \subseteq 0 .. USABLE /\ free_count[f] \in 0 .. USABLE
    <3>1. CASE obj_size[f] = 0
      <4>1. free_list[f] = <<>> /\ free_count[f] = 0 /\ 0 \in 0 .. USABLE
        BY <3>1, SlabAssumption, EmptySeq DEF IInv, FreeLists
      <4>2. ToSet(free_list[f]) = {}
        BY <4>1, Elements DEF IInv, Types
      <4> QED BY <4>1, <4>2
    <3>2. CASE obj_size[f] # 0
      <4> DEFINE n == objs_per_page(size_to_index(obj_size[f]))
      <4>1. Slots(f) = 0 .. n - 1 /\ n \in Nat /\ n <= USABLE /\ USABLE \in Nat
        BY <3>2, PageClass, ClassSizes, SlabAssumption DEF IInv
      <4>2. /\ free_list[f] \in Seq(Nat) /\ IsInjective(free_list[f])
            /\ ToSet(free_list[f]) \subseteq Slots(f) /\ free_count[f] = Len(free_list[f])
        BY <3>2 DEF IInv, Types, FreeLists
      <4> HIDE DEF n
      <4>3. free_list[f] \in Seq(0 .. n - 1)
        <5>1. /\ free_list[f] \in [1 .. Len(free_list[f]) -> Nat]
              /\ Len(free_list[f]) \in Nat
              /\ \A i \in 1 .. Len(free_list[f]) : free_list[f][i] \in ToSet(free_list[f])
          BY <4>2, LenProperties, Elements
        <5>2. free_list[f] \in [1 .. Len(free_list[f]) -> 0 .. n - 1]
          BY <4>1, <4>2, <5>1
        <5> QED BY <5>1, <5>2, SeqDef
      <4>4. Len(free_list[f]) <= n /\ Len(free_list[f]) \in Nat
        BY <4>1, <4>2, <4>3, AllSlots, Elements
      <4>5. 0 .. n - 1 \subseteq 0 .. USABLE
        BY <4>1
      <4>6. free_count[f] \in 0 .. USABLE
        BY <4>1, <4>2, <4>4
      <4> QED BY <4>1, <4>2, <4>5, <4>6
    <3> QED BY <3>1, <3>2
  <2>4. free_count \in [Frames -> 0 .. USABLE]
    BY <2>3 DEF IInv, Types
  <2>5. \A c \in Classes : ToSet(partial[c]) \subseteq Frames
    BY Elements DEF IInv, Types
  <2>6. \A c \in Classes : Len(mags[c]) <= SLAB_MAGAZINE_SIZE
    BY DEF IInv, Magazines
  <2>7. \A o \in DOMAIN owned : o.page \in Frames /\ owned[o] \in Sizes
    BY DEF IInv, Callers, Real, Places
  <2> QED BY <2>1, <2>2, <2>3, <2>4, <2>5, <2>6, <2>7 DEF TypeOK
<1> QED BY <1>1, SlabInvariant, PTL

\* Membership, as the properties state it.
LEMMA WhereObjectsAre ==
  ASSUME Types, NEW o \in Places
  PROVE  (InMagazine(o) <=> Kept(o)) /\ (OnPage(o) <=> Free(o))
<1>1. \A c \in Classes : Contains(mags[c], o) <=> o \in ToSet(mags[c])
  BY Elements DEF Types
<1>2. o.page \in Frames
  BY DEF Places
<1>3. OnPage(o) <=> Free(o)
  BY <1>2, Elements DEF Types, OnPage, Free
<1> QED BY <1>1, <1>3 DEF InMagazine, Kept

\* slab_alloc never hands out an object twice and slab_free never loses one:
\* each object of each page is with a caller, in a magazine or on the free list
\* of its page, and there only once.
THEOREM OnePlace == Spec => []ObjectsInOnePlace
<1>1. IInv => ObjectsInOnePlace
  <2> SUFFICES ASSUME IInv  PROVE ObjectsInOnePlace
    OBVIOUS
  <2>1. ASSUME NEW f \in Pages, NEW s \in Slots(f)
        PROVE  LET o == Object(f, s)
               IN  Cardinality({p \in {"owned", "magazine", "page"} :
                                  \/ p = "owned" /\ Owned(o)
                                  \/ p = "magazine" /\ InMagazine(o)
                                  \/ p = "page" /\ OnPage(o)}) = 1
    <3> DEFINE o == Object(f, s)
               P == {p \in {"owned", "magazine", "page"} :
                       \/ p = "owned" /\ Owned(o)
                       \/ p = "magazine" /\ InMagazine(o)
                       \/ p = "page" /\ OnPage(o)}
    <3>1. f \in Frames /\ obj_size[f] # 0 /\ s \in Nat
      BY SlotNumbers DEF Pages, IInv
    <3>2. o \in Places /\ Real(o)
      BY <3>1 DEF Object, Places, Real
    <3> HIDE DEF o
    <3>3. (InMagazine(o) <=> Kept(o)) /\ (OnPage(o) <=> Free(o))
      BY <3>2, WhereObjectsAre DEF IInv
    <3>4. /\ Owned(o) \/ Kept(o) \/ Free(o)
          /\ ~(Owned(o) /\ Kept(o)) /\ ~(Owned(o) /\ Free(o)) /\ ~(Kept(o) /\ Free(o))
      BY <3>2 DEF IInv, NoneLost, Callers, Magazines, Owned, Kept
    <3>5. P = {"owned"} \/ P = {"magazine"} \/ P = {"page"}
      BY <3>3, <3>4
    <3> HIDE DEF P
    <3>6. Cardinality(P) = 1
      BY <3>5, FS_Singleton
    <3> QED BY <3>6 DEF P, o
  <2>2. \A f \in Pages : IsInjective(free_list[f])
    BY DEF IInv, FreeLists, Pages
  <2>3. \A c \in Classes : IsInjective(mags[c])
    BY DEF IInv, Magazines
  <2> QED BY <2>1, <2>2, <2>3 DEF ObjectsInOnePlace
<1> QED BY <1>1, SlabInvariant, PTL

\* What slab_alloc returns is as big as what was asked, whichever of the
\* magazine, a page or a new page it came from.
THEOREM Fit == Spec => []ObjectsFit
<1>1. IInv => ObjectsFit
  BY DEF IInv, Callers, Magazines, ObjectsFit
<1> QED BY <1>1, SlabInvariant, PTL

\* A slab page leaves its cache only with all of its objects back, and a page in
\* a cache is a frame the slab allocator holds.
THEOREM Accounted == Spec => []PagesAccounted
<1>1. IInv => PagesAccounted
  <2> SUFFICES ASSUME IInv  PROVE PagesAccounted
    OBVIOUS
  <2>1. /\ \A f \in Pages : free_count[f] = Len(free_list[f]) /\ f \in held
        /\ \A c \in Classes : Len(mags[c]) <= SLAB_MAGAZINE_SIZE
    BY DEF IInv, FreeLists, PagesHeld, Magazines, Pages
  <2>2. ASSUME NEW f \in Retired, NEW s \in Slots(f)  PROVE OnPage(Object(f, s))
    <3>1. f \in Frames /\ obj_size[f] # 0 /\ \A c \in Classes : ~Contains(partial[c], f)
      BY DEF Retired, Pages
    <3>2. size_to_index(obj_size[f]) \in Classes /\ s \in Nat
      <4>1. s \in Nat
        BY <3>1, SlotNumbers DEF IInv
      <4> QED BY <3>1, <4>1, PageClass DEF IInv
    <3>3. f \notin ToSet(partial[size_to_index(obj_size[f])])
      BY <3>1, <3>2, Elements DEF IInv, Types
    <3>4. s \in ToSet(free_list[f])
      BY <3>1, <3>3 DEF IInv, RetiredFull
    <3>5. Object(f, s) \in Places /\ Free(Object(f, s))
      BY <3>1, <3>2, <3>4 DEF Object, Places, Free
    <3> QED BY <3>5, WhereObjectsAre DEF IInv
  <2> QED BY <2>1, <2>2 DEF PagesAccounted
<1> QED BY <1>1, SlabInvariant, PTL
=============================================================================
