---------------------------- MODULE OrderProofs -----------------------------
(***************************************************************************)
(* What the operators of Order return.  That a bounded set of positions    *)
(* can be listed, and in one way, would be inductions; they are proved     *)
(* from the least counterexample, that is from the well-foundedness of <.  *)
(***************************************************************************)
EXTENDS Order, FiniteSetTheorems, SequenceTheorems, WellFoundedInduction, TLAPS

\* A set of numbers has a least one.
LEMMA LeastOf ==
  ASSUME NEW T \in SUBSET Nat, T # {}
  PROVE  \E n \in T : \A m \in T : n <= m
<1>1. PICK n \in T : \A m \in T : ~ (<<m, n>> \in OpToRel(<, Nat))
  BY WFMin, NatLessThanWellFounded
<1>2. \A m \in T : ~ (m < n)
  BY <1>1 DEF OpToRel
<1> QED
  BY <1>2

\* What a listing is.
LEMMA ListingParts ==
  ASSUME NEW S, NEW s \in Listings(S)
  PROVE  /\ s \in [1..Cardinality(S) -> S] /\ DOMAIN s = 1..Cardinality(S)
         /\ \A i \in 1..Cardinality(S) : s[i] \in S
         /\ \A x \in S : \E i \in 1..Cardinality(S) : s[i] = x
         /\ \A i, j \in 1..Cardinality(S) : i < j => s[i] < s[j]
<1>1. s \in [1..Cardinality(S) -> S] /\ DOMAIN s = 1..Cardinality(S)
  BY DEF Listings
<1> QED BY <1>1 DEF Listings

\* A greater element goes to the end.
LEMMA ListingExtends ==
  ASSUME NEW n \in Nat, NEW V \in SUBSET (1..n), NEW s \in Listings(V)
  PROVE  Listings(V \cup {n+1}) # {}
<1> DEFINE U == V \cup {n+1}
<1> DEFINE c == Cardinality(V)
<1> DEFINE t == [i \in 1..c+1 |-> IF i = c+1 THEN n+1 ELSE s[i]]
<1>1. n+1 \notin V /\ c \in Nat /\ Cardinality(U) = c + 1
  <2>1. IsFiniteSet(1..n) /\ n+1 \notin V
    BY FS_Interval
  <2>2. IsFiniteSet(V)
    BY <2>1, FS_Subset
  <2> QED BY <2>1, <2>2, FS_AddElement, FS_CardinalityType
<1>2. /\ \A i \in 1..c : s[i] \in V /\ s[i] \in 1..n
      /\ \A x \in V : \E i \in 1..c : s[i] = x
      /\ \A i, j \in 1..c : i < j => s[i] < s[j]
  <2>1. \A x \in V : x \in 1..n
    OBVIOUS
  <2> QED BY <2>1, ListingParts
<1> HIDE DEF c
<1>3. t \in [1..c+1 -> U]
  BY <1>1, <1>2
<1>4. \A x \in U : \E i \in 1..c+1 : t[i] = x
  <2>1. t[c+1] = n+1 /\ c+1 \in 1..c+1
    BY <1>1
  <2>2. \A i \in 1..c : i \in 1..c+1 /\ t[i] = s[i]
    BY <1>1
  <2> QED BY <2>1, <2>2, <1>2
<1>5. \A i, j \in 1..c+1 : i < j => t[i] < t[j]
  <2> SUFFICES ASSUME NEW i \in 1..c+1, NEW j \in 1..c+1, i < j
               PROVE  t[i] < t[j]
    OBVIOUS
  <2>1. i \in 1..c /\ t[i] = s[i] /\ s[i] \in 1..n
    BY <1>1, <1>2
  <2>2. CASE j = c+1
    BY <2>1, <2>2, <1>1
  <2>3. CASE j # c+1
    <3>1. j \in 1..c /\ t[j] = s[j]
      BY <2>3, <1>1
    <3> QED BY <3>1, <2>1, <1>2
  <2> QED BY <2>2, <2>3
<1>6. t \in Listings(U)
  <2>1. DOMAIN t = 1..c+1
    OBVIOUS
  <2> HIDE DEF t, U
  <2> QED BY <1>1, <1>3, <1>4, <1>5, <2>1 DEF Listings
<1> QED BY <1>6

\* Nothing to list.
LEMMA EmptyListing == Listings({}) # {}
<1>1. Cardinality({}) = 0
  BY FS_EmptySet
<1>2. [i \in 1..0 |-> i] \in Listings({})
  BY <1>1 DEF Listings
<1> QED BY <1>2

\* Every bounded set of positions can be listed: otherwise take the least bound
\* below which there is a set that cannot.
LEMMA ListingExists ==
  ASSUME NEW k \in Nat, NEW S \in SUBSET (1..k)
  PROVE  Listings(S) # {}
<1> DEFINE Bad == {n \in Nat : \E U \in SUBSET (1..n) : Listings(U) = {}}
<1> SUFFICES ASSUME Bad # {} PROVE FALSE
  OBVIOUS
<1>1. PICK n \in Bad : \A m \in Bad : n <= m
  BY LeastOf
<1>2. PICK U \in SUBSET (1..n) : Listings(U) = {}
  BY <1>1
<1>3. n \in Nat /\ n # 0
  <2>1. n = 0 => U = {}
    OBVIOUS
  <2> QED BY <2>1, <1>2, EmptyListing
<1> DEFINE V == U \ {n}
<1>4. n-1 \in Nat /\ n-1 \notin Bad /\ V \in SUBSET (1..(n-1))
  BY <1>1, <1>3
<1>5. Listings(V) # {}
  BY <1>4
<1>6. CASE n \in U
  <2>1. U = V \cup {(n-1)+1}
    BY <1>3, <1>6
  <2> HIDE DEF V, Bad
  <2> QED BY <2>1, <1>2, <1>4, <1>5, ListingExtends
<1>7. CASE n \notin U
  BY <1>7, <1>5, <1>2
<1> QED BY <1>6, <1>7

\* Two listings of one set do not differ: not at the least place where they do.
LEMMA ListingUnique ==
  ASSUME NEW k \in Nat, NEW S \in SUBSET (1..k), NEW s \in Listings(S), NEW t \in Listings(S)
  PROVE  s = t
<1> DEFINE c == Cardinality(S)
<1> DEFINE D == {i \in 1..c : s[i] # t[i]}
<1>1. /\ c \in Nat
      /\ \A i \in 1..c : s[i] \in S /\ t[i] \in S /\ s[i] \in Nat /\ t[i] \in Nat
      /\ \A x \in S : (\E i \in 1..c : s[i] = x) /\ (\E i \in 1..c : t[i] = x)
      /\ \A i, j \in 1..c : i < j => s[i] < s[j] /\ t[i] < t[j]
  <2>1. IsFiniteSet(S)
    <3>1. IsFiniteSet(1..k)
      BY FS_Interval
    <3> QED BY <3>1, FS_Subset
  <2>2. \A x \in S : x \in Nat
    OBVIOUS
  <2>3. c \in Nat
    BY <2>1, FS_CardinalityType
  <2>4. /\ \A i \in 1..c : s[i] \in S /\ t[i] \in S
        /\ \A x \in S : (\E i \in 1..c : s[i] = x) /\ (\E i \in 1..c : t[i] = x)
        /\ \A i, j \in 1..c : i < j => s[i] < s[j] /\ t[i] < t[j]
    BY ListingParts
  <2> QED BY <2>2, <2>3, <2>4
<1>2. s \in [1..c -> S] /\ t \in [1..c -> S]
  BY ListingParts
<1> HIDE DEF c
<1>3. D = {}
  <2> SUFFICES ASSUME D # {} PROVE FALSE
    OBVIOUS
  <2>1. PICK i \in D : \A m \in D : i <= m
    <3>1. D \in SUBSET Nat
      OBVIOUS
    <3> QED BY <3>1, LeastOf
  <2>2. i \in 1..c /\ s[i] # t[i] /\ \A j \in 1..c : j < i => s[j] = t[j]
    BY <2>1, <1>1
  <2>3. CASE s[i] < t[i]
    <3>1. PICK j \in 1..c : t[j] = s[i]
      BY <1>1, <2>2
    <3>2. ~(j < i)
      BY <3>1, <2>2, <1>1
    <3> QED BY <3>1, <3>2, <2>2, <2>3, <1>1
  <2>4. CASE t[i] < s[i]
    <3>1. PICK j \in 1..c : s[j] = t[i]
      BY <1>1, <2>2
    <3>2. ~(j < i)
      BY <3>1, <2>2, <1>1
    <3> QED BY <3>1, <3>2, <2>2, <2>4, <1>1
  <2> QED BY <2>2, <2>3, <2>4, <1>1
<1>4. \A i \in 1..c : s[i] = t[i]
  BY <1>3
<1>5. s = [i \in 1..c |-> s[i]] /\ t = [i \in 1..c |-> t[i]]
  BY <1>2
<1> QED BY <1>4, <1>5

\* So InOrder chooses a listing, the only one.
LEMMA InOrderIsListing ==
  ASSUME NEW k \in Nat, NEW S \in SUBSET (1..k)
  PROVE  InOrder(S) \in Listings(S)
BY ListingExists DEF InOrder

UpTo(W, x) == {w \in W : w <= x}

\* The stretch of c from behind its d-th place to its n-th holds the elements of
\* W up to its own last one, and no others.
Stretch(c, k, W, d, n) ==
  /\ c \in Seq(Nat) /\ k \in Nat /\ W \in SUBSET (1..k)
  /\ d \in Nat /\ n \in Nat /\ d < n /\ n <= Len(c)
  /\ \A i, j \in 1..n : i < j => c[i] < c[j]
  /\ \A i \in d+1..n : c[i] \in W
  /\ \A w \in W : w <= c[n] => \E i \in d+1..n : c[i] = w

Follows(c, W, d, n) == SubSeq(c, 1, n) = SubSeq(c, 1, d) \o InOrder(UpTo(W, c[n]))

\* If it rises, it is those elements in order.
LEMMA StretchInOrder ==
  ASSUME NEW c, NEW k, NEW W, NEW d, NEW n, Stretch(c, k, W, d, n)
  PROVE  Follows(c, W, d, n)
<1>0. /\ c \in Seq(Nat) /\ k \in Nat /\ W \in SUBSET (1..k)
      /\ d \in Nat /\ n \in Nat /\ d < n /\ n <= Len(c)
      /\ \A i, j \in 1..n : i < j => c[i] < c[j]
      /\ \A i \in d+1..n : c[i] \in W
      /\ \A w \in W : w <= c[n] => \E i \in d+1..n : c[i] = w
  BY DEF Stretch
<1> DEFINE S == {w \in W : w <= c[n]}
<1> DEFINE t == [i \in 1..n-d |-> c[d+i]]
<1> USE <1>0
<1>1. /\ n-d \in Nat /\ n \in 1..n
      /\ \A i \in 1..n : c[i] \in Nat
      /\ \A i \in 1..n-d : d+i \in d+1..n /\ d+i \in 1..n
      /\ \A i \in d+1..n : i \in 1..n /\ i-d \in 1..n-d /\ d+(i-d) = i
  OBVIOUS
<1>2. \A i \in d+1..n : c[i] \in S
  <2>1. \A i \in d+1..n : i = n \/ c[i] < c[n]
    BY <1>1
  <2> QED BY <2>1, <1>1
<1>3. \A x \in S : \E i \in 1..n-d : t[i] = x
  <2> SUFFICES ASSUME NEW x \in S PROVE \E i \in 1..n-d : t[i] = x
    OBVIOUS
  <2>1. PICK i \in d+1..n : c[i] = x
    OBVIOUS
  <2> QED BY <2>1, <1>1
<1>4. t \in [1..n-d -> S]
  BY <1>1, <1>2
<1>5. \A i, j \in 1..n-d : i < j => t[i] < t[j]
  BY <1>1
<1>6. S \in SUBSET (1..k)
  OBVIOUS
<1>7. Cardinality(S) = n-d
  <2>1. t \in Injection(1..n-d, S)
    <3>1. \A i, j \in 1..n-d : i # j => t[i] # t[j]
      <4>1. \A i \in 1..n-d : t[i] \in Nat
        BY <1>1
      <4> HIDE DEF t
      <4> QED BY <1>5, <4>1, <1>1
    <3> HIDE DEF t, S
    <3> QED BY <3>1, <1>4 DEF Injection, IsInjective
  <2>2. t \in Surjection(1..n-d, S)
    BY <1>3, <1>4 DEF Surjection
  <2>3. IsFiniteSet(1..n-d) /\ Cardinality(1..n-d) = n-d
    BY <1>1, FS_Interval
  <2> HIDE DEF t, S
  <2> QED BY <2>1, <2>2, <2>3, FS_Surjection
<1>8. t \in Listings(S)
  <2>1. DOMAIN t = 1..n-d
    OBVIOUS
  <2> HIDE DEF t, S
  <2> QED BY <1>3, <1>4, <1>5, <1>7, <2>1 DEF Listings
<1>9. t = InOrder(S)
  <2> HIDE DEF t, S
  <2> QED BY <1>6, <1>8, InOrderIsListing, ListingUnique
<1>10. t \in Seq(Nat) /\ Len(t) = n-d /\ \A i \in 1..n-d : t[i] = c[d+i]
  <2>1. t \in [1..n-d -> Nat]
    BY <1>1
  <2> QED BY <2>1, <1>1
<1> HIDE DEF t, S
<1>11. /\ SubSeq(c, 1, n) \in Seq(Nat) /\ Len(SubSeq(c, 1, n)) = n
       /\ \A i \in 1..n : SubSeq(c, 1, n)[i] = c[i]
  BY <1>1, SubSeqProperties
<1>12. /\ SubSeq(c, 1, d) \in Seq(Nat) /\ Len(SubSeq(c, 1, d)) = d
       /\ \A i \in 1..d : SubSeq(c, 1, d)[i] = c[i]
  BY <1>1, SubSeqProperties
<1> DEFINE u == SubSeq(c, 1, d) \o t
<1>13. u \in Seq(Nat) /\ Len(u) = n /\ \A i \in 1..n : u[i] = IF i <= d THEN SubSeq(c, 1, d)[i] ELSE t[i-d]
  BY <1>10, <1>12, <1>1, ConcatProperties
<1>14. \A i \in 1..n : u[i] = c[i]
  <2> HIDE DEF u
  <2> SUFFICES ASSUME NEW i \in 1..n PROVE u[i] = c[i]
    OBVIOUS
  <2>1. CASE i <= d
    BY <2>1, <1>12, <1>13
  <2>2. CASE ~(i <= d)
    <3>1. i \in d+1..n
      BY <2>2
    <3>2. i-d \in 1..n-d /\ d+(i-d) = i
      BY <3>1, <1>1
    <3> QED BY <2>2, <3>2, <1>10, <1>13
  <2> QED BY <2>1, <2>2
<1>15. u = SubSeq(c, 1, n)
  <2> HIDE DEF u
  <2> QED BY <1>11, <1>13, <1>14, SeqEqual
<1> QED BY <1>9, <1>15 DEF S, UpTo, Follows

-----------------------------------------------------------------------------
\* The elements of s that are in S are its first k.
FrontIn(s, S, k) ==
  /\ k \in 0..Len(s)
  /\ \A i \in 1..Len(s) : s[i] \in S <=> i <= k

Leaves(s, S, k) == Without(s, S) = SubSeq(s, k+1, Len(s))

\* An interval is listed by counting.
LEMMA Counting ==
  ASSUME NEW k \in Nat, NEW n \in Nat, k <= n
  PROVE  InOrder(k+1..n) = [i \in 1..n-k |-> k+i]
<1> DEFINE t == [i \in 1..n-k |-> k+i]
<1>1. Cardinality(k+1..n) = n-k
  <2>1. CASE k = n
    <3>1. k+1..n = {}
      BY <2>1
    <3> QED BY <3>1, <2>1, FS_EmptySet
  <2>2. CASE k # n
    BY <2>2, FS_Interval
  <2> QED BY <2>1, <2>2
<1>2. t \in Listings(k+1..n)
  <2>1. DOMAIN t = 1..n-k /\ t \in [1..n-k -> k+1..n]
    OBVIOUS
  <2>2. \A x \in k+1..n : x-k \in 1..n-k /\ t[x-k] = x
    OBVIOUS
  <2>3. \A i, j \in 1..n-k : i < j => t[i] < t[j]
    OBVIOUS
  <2> HIDE DEF t
  <2> QED BY <1>1, <2>1, <2>2, <2>3 DEF Listings
<1>3. k+1..n \in SUBSET (1..n)
  OBVIOUS
<1> HIDE DEF t
<1>4. InOrder(k+1..n) = t
  <2> DEFINE U == k+1..n
  <2>1. U \in SUBSET (1..n) /\ t \in Listings(U)
    BY <1>2, <1>3
  <2> HIDE DEF U
  <2>2. InOrder(U) \in Listings(U)
    BY <2>1, InOrderIsListing
  <2>3. InOrder(U) = t
    BY <2>1, <2>2, ListingUnique
  <2> QED BY <2>3 DEF U
<1> QED BY <1>4 DEF t

\* Without a front there is left what comes behind it.
LEMMA WithoutFront ==
  ASSUME NEW R, NEW s \in Seq(R), NEW S, NEW k, FrontIn(s, S, k)
  PROVE  Leaves(s, S, k)
<1> DEFINE n == Len(s)
<1>1. k \in Nat /\ n \in Nat /\ k <= n /\ DOMAIN s = 1..n
  BY DEF FrontIn
<1>2. {i \in DOMAIN s : s[i] \notin S} = k+1..n
  BY <1>1 DEF FrontIn
<1> DEFINE t == [i \in 1..n-k |-> k+i]
<1> DEFINE w == [j \in DOMAIN t |-> s[t[j]]]
<1>3. Without(s, S) = w
  <2>1. InOrder(k+1..n) = t
    BY <1>1, Counting
  <2> QED BY <2>1, <1>2 DEF Without
<1>4. \A i \in 1..n-k : k+i \in 1..n /\ w[i] = s[k+i]
  BY <1>1
<1>5. w \in Seq(R) /\ Len(w) = n-k
  <2>1. w \in [1..n-k -> R]
    BY <1>4
  <2> QED BY <2>1, <1>1
<1>6. /\ SubSeq(s, k+1, n) \in Seq(R) /\ Len(SubSeq(s, k+1, n)) = n-k
      /\ \A i \in 1..n-k : SubSeq(s, k+1, n)[i] = s[k+i]
  <2>1. k+1 \in Int /\ n \in Int /\ \A i \in k+1..n : s[i] \in R
    BY <1>1
  <2>2. /\ SubSeq(s, k+1, n) \in Seq(R)
        /\ Len(SubSeq(s, k+1, n)) = IF k+1 <= n THEN n-(k+1)+1 ELSE 0
        /\ \A i \in 1..n-(k+1)+1 : SubSeq(s, k+1, n)[i] = s[k+1+i-1]
    BY <2>1, SubSeqProperties
  <2>3. Len(SubSeq(s, k+1, n)) = n-k
    <3>1. Len(SubSeq(s, k+1, n)) = IF k+1 <= n THEN n-(k+1)+1 ELSE 0
      BY <2>2
    <3> HIDE DEF n
    <3>2. CASE k = n
      BY <3>1, <3>2, <1>1
    <3>3. CASE k # n
      BY <3>1, <3>3, <1>1
    <3> QED BY <3>2, <3>3
  <2>4. ASSUME NEW i \in 1..n-k
        PROVE  SubSeq(s, k+1, n)[i] = s[k+i]
    <3>1. i \in 1..n-(k+1)+1 /\ k+1+i-1 = k+i
      BY <1>1
    <3>2. SubSeq(s, k+1, n)[i] = s[k+1+i-1]
      BY <2>2, <3>1
    <3> QED BY <3>1, <3>2
  <2> QED BY <2>2, <2>3, <2>4
<1> HIDE DEF w
<1>7. w = SubSeq(s, k+1, n)
  BY <1>4, <1>5, <1>6, SeqEqual
<1> QED BY <1>3, <1>7 DEF Leaves
=============================================================================
