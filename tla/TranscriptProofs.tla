-------------------------- MODULE TranscriptProofs --------------------------
(***************************************************************************)
(* Proofs about Transcript: for any transcripts, rows, flushes and number  *)
(* of faults, the queue keeps the promise of the log (TranscriptLog).      *)
(*                                                                         *)
(* The argument: of the queue of a transcript the first k rows are on      *)
(* disk, for some k, and the rest are not (Shape, Standing).  An append    *)
(* that fails makes k greater but leaves the queue as it is; the retry     *)
(* therefore writes from the k-th row on; and a batch only leaves the      *)
(* queue when k is its length, or together with all that is behind it.  So *)
(* the rows of the file and the rest of the queue are at every moment what *)
(* has been accepted, and a step either adds a row at the end of it, or    *)
(* moves rows from the queue to the file, or drops the queue.              *)
(***************************************************************************)
EXTENDS Transcript, OrderProofs, TLAPS

\* No row twice.
Once(s) == \A i, j \in 1..Len(s) : s[i] = s[j] => i = j

\* A transcript F and its queue Q, of which the first k rows are in F.
Shape(F, Q, k) ==
  /\ F \in Seq(Row) /\ Q \in Seq(Row)
  /\ Once(F) /\ Once(Q)
  /\ FrontIn(Q, ToSet(F), k)

\* What has been accepted, seen from both.
Told(F, Q) == F \o Without(Q, ToSet(F))

Tells(F, Q, k) == Told(F, Q) = F \o SubSeq(Q, k+1, Len(Q))

\* G is F with n more rows of the queue.
Moved(F, Q, k, n, G) ==
  /\ n \in Nat /\ k + n <= Len(Q)
  /\ G = F \o SubSeq(Q, k+1, k+n)

\* The members of a sequence.
LEMMA Members ==
  ASSUME NEW R, NEW s \in Seq(R)
  PROVE  \A x : x \in ToSet(s) <=> \E i \in 1..Len(s) : s[i] = x
<1>1. DOMAIN s = 1..Len(s)
  OBVIOUS
<1> QED BY <1>1 DEF ToSet

\* A stretch of a sequence.
LEMMA Piece ==
  ASSUME NEW R, NEW s \in Seq(R), NEW m \in Nat, NEW n \in Nat, m + n <= Len(s)
  PROVE  /\ SubSeq(s, m+1, m+n) \in Seq(R)
         /\ Len(SubSeq(s, m+1, m+n)) = n
         /\ \A i \in 1..n : SubSeq(s, m+1, m+n)[i] = s[m+i]
<1> DEFINE u == SubSeq(s, m+1, m+n)
<1>1. m+1 \in Int /\ m+n \in Int /\ \A i \in m+1..m+n : s[i] \in R
  OBVIOUS
<1>2. /\ u \in Seq(R)
      /\ Len(u) = IF m+1 <= m+n THEN (m+n)-(m+1)+1 ELSE 0
      /\ \A i \in 1..(m+n)-(m+1)+1 : u[i] = s[m+1+i-1]
  BY <1>1, SubSeqProperties
<1> HIDE DEF u
<1>3. Len(u) = n
  <2>1. CASE n = 0
    BY <2>1, <1>2
  <2>2. CASE n # 0
    BY <2>2, <1>2
  <2> QED BY <2>1, <2>2
<1>4. ASSUME NEW i \in 1..n
      PROVE  u[i] = s[m+i]
  <2>1. i \in 1..(m+n)-(m+1)+1 /\ m+1+i-1 = m+i
    OBVIOUS
  <2>2. u[i] = s[m+1+i-1]
    BY <2>1, <1>2
  <2> QED BY <2>1, <2>2
<1> QED BY <1>2, <1>3, <1>4 DEF u

\* Three pieces: F, what moves, what stays.
LEMMA ToldBy ==
  ASSUME NEW F, NEW Q, NEW k, Shape(F, Q, k)
  PROVE  Tells(F, Q, k)
<1>1. Leaves(Q, ToSet(F), k)
  BY WithoutFront DEF Shape
<1> QED BY <1>1 DEF Leaves, Tells, Told

\* The file holds each row once still, and more of the queue.
LEMMA MovedShape ==
  ASSUME NEW F, NEW Q, NEW k, NEW n, NEW G, Shape(F, Q, k), Moved(F, Q, k, n, G)
  PROVE  Shape(G, Q, k+n) /\ Len(G) = Len(F) + n
<1> DEFINE u == SubSeq(Q, k+1, k+n)
<1>1. /\ F \in Seq(Row) /\ Q \in Seq(Row) /\ k \in Nat /\ n \in Nat /\ k+n <= Len(Q)
      /\ Len(F) \in Nat /\ Len(Q) \in Nat
      /\ G = F \o u
  BY DEF Shape, Moved, FrontIn
<1>2. u \in Seq(Row) /\ Len(u) = n /\ \A i \in 1..n : u[i] = Q[k+i]
  BY <1>1, Piece
<1> HIDE DEF u
<1>3. /\ G \in Seq(Row) /\ Len(G) = Len(F) + n
      /\ \A i \in 1..Len(F)+n : G[i] = IF i <= Len(F) THEN F[i] ELSE u[i - Len(F)]
  BY <1>1, <1>2, ConcatProperties
<1>4. ASSUME NEW i \in 1..Len(F)
      PROVE  i \in 1..Len(G) /\ G[i] = F[i]
  BY <1>1, <1>3
<1>5. ASSUME NEW i \in 1..n
      PROVE  k+i \in 1..Len(Q) /\ Len(F)+i \in 1..Len(G) /\ G[Len(F)+i] = Q[k+i]
  <2>1. Len(F)+i \in 1..Len(F)+n /\ ~(Len(F)+i <= Len(F)) /\ (Len(F)+i) - Len(F) = i
    BY <1>1
  <2> QED BY <2>1, <1>1, <1>2, <1>3
<1>6. ASSUME NEW j \in 1..Len(G)
      PROVE  \/ j \in 1..Len(F)
             \/ \E i \in 1..n : j = Len(F)+i
  <2>1. j <= Len(F) \/ (j - Len(F) \in 1..n /\ j = Len(F) + (j - Len(F)))
    BY <1>1, <1>3
  <2> QED BY <2>1, <1>3
<1>7. \A i \in 1..Len(Q) : Q[i] \in ToSet(F) <=> i <= k
  BY DEF Shape, FrontIn
<1>8. /\ \A x : x \in ToSet(F) <=> \E i \in 1..Len(F) : F[i] = x
      /\ \A x : x \in ToSet(G) <=> \E i \in 1..Len(G) : G[i] = x
  BY <1>1, <1>3, Members
<1>9. Once(F) /\ Once(Q)
  BY DEF Shape
<1>10. ASSUME NEW i \in 1..Len(F), NEW j \in 1..n, G[i] = G[Len(F)+j]
       PROVE  FALSE
  <2>1. Q[k+j] \in ToSet(F)
    BY <1>4, <1>5, <1>8, <1>10
  <2>2. k+j \in 1..Len(Q) /\ ~(k+j <= k)
    BY <1>1, <1>5
  <2> QED BY <2>1, <2>2, <1>7
<1>11. ASSUME NEW i \in 1..n, NEW j \in 1..n, G[Len(F)+i] = G[Len(F)+j]
       PROVE  i = j
  <2>1. k+i = k+j
    BY <1>5, <1>9, <1>11 DEF Once
  <2> QED BY <2>1, <1>1
<1>12. Once(G)
  <2> SUFFICES ASSUME NEW i \in 1..Len(G), NEW j \in 1..Len(G), G[i] = G[j]
               PROVE  i = j
    BY DEF Once
  <2>1. CASE i \in 1..Len(F) /\ j \in 1..Len(F)
    BY <2>1, <1>4, <1>9 DEF Once
  <2>2. CASE i \in 1..Len(F) /\ \E m \in 1..n : j = Len(F)+m
    BY <2>2, <1>10
  <2>3. CASE j \in 1..Len(F) /\ \E m \in 1..n : i = Len(F)+m
    BY <2>3, <1>10
  <2>4. CASE (\E m \in 1..n : i = Len(F)+m) /\ (\E m \in 1..n : j = Len(F)+m)
    BY <2>4, <1>11
  <2> QED BY <2>1, <2>2, <2>3, <2>4, <1>6
<1>13. ASSUME NEW i \in 1..Len(Q)
       PROVE  Q[i] \in ToSet(G) <=> i <= k+n
  <2>1. CASE i <= k
    <3>1. Q[i] \in ToSet(G)
      BY <2>1, <1>4, <1>7, <1>8
    <3> QED BY <3>1, <2>1, <1>1
  <2>2. CASE ~(i <= k) /\ i <= k+n
    <3>1. i-k \in 1..n /\ k+(i-k) = i
      BY <2>2, <1>1
    <3>2. G[Len(F)+(i-k)] = Q[i] /\ Len(F)+(i-k) \in 1..Len(G)
      BY <3>1, <1>5
    <3> QED BY <3>2, <2>2, <1>8
  <2>3. CASE ~(i <= k+n)
    <3> SUFFICES ASSUME Q[i] \in ToSet(G) PROVE FALSE
      BY <2>3
    <3>1. PICK j \in 1..Len(G) : G[j] = Q[i]
      BY <1>8
    <3>2. CASE j \in 1..Len(F)
      <4>1. Q[i] \in ToSet(F)
        BY <3>1, <3>2, <1>4, <1>8
      <4> QED BY <4>1, <2>3, <1>1, <1>7
    <3>3. ASSUME NEW m \in 1..n, j = Len(F)+m
          PROVE  FALSE
      <4>1. Q[k+m] = Q[i] /\ k+m \in 1..Len(Q)
        BY <3>1, <3>3, <1>5
      <4>2. k+m = i
        BY <4>1, <1>9 DEF Once
      <4> QED BY <4>2, <2>3, <1>1
    <3> QED BY <3>2, <3>3, <1>6
  <2> QED BY <2>1, <2>2, <2>3, <1>1
<1>14. FrontIn(Q, ToSet(G), k+n)
  BY <1>1, <1>13 DEF FrontIn
<1> QED BY <1>1, <1>3, <1>9, <1>12, <1>14 DEF Shape

SameTold(F, Q, G, P) == Told(F, Q) = Told(G, P)

\* Rows on their way to the file are accepted already.
LEMMA MovedTold ==
  ASSUME NEW F, NEW Q, NEW k, NEW n, NEW G, Shape(F, Q, k), Moved(F, Q, k, n, G)
  PROVE  SameTold(F, Q, G, Q)
<1> DEFINE u == SubSeq(Q, k+1, k+n)
<1> DEFINE v == SubSeq(Q, k+n+1, Len(Q))
<1>1. /\ F \in Seq(Row) /\ Q \in Seq(Row) /\ k \in Nat /\ n \in Nat /\ k+n <= Len(Q)
      /\ Len(Q) \in Nat /\ G = F \o u
  BY DEF Shape, Moved, FrontIn
<1>2. Tells(F, Q, k) /\ Tells(G, Q, k+n)
  BY MovedShape, ToldBy
<1>3. u \in Seq(Row) /\ v \in Seq(Row)
  <2>1. u \in Seq(Row)
    BY <1>1, Piece
  <2>2. k+n+1 \in Int /\ Len(Q) \in Int /\ \A i \in k+n+1..Len(Q) : Q[i] \in Row
    BY <1>1
  <2>3. v \in Seq(Row)
    BY <2>2, SubSeqProperties
  <2> QED BY <2>1, <2>3
<1>4. u \o v = SubSeq(Q, k+1, Len(Q))
  <2>1. k+1 \in 1..Len(Q)+1 /\ k+n \in (k+1)-1..Len(Q) /\ Len(Q) \in k+n..Len(Q)
    BY <1>1
  <2>2. SubSeq(Q, k+1, k+n) \o SubSeq(Q, (k+n)+1, Len(Q)) = SubSeq(Q, k+1, Len(Q))
    BY <2>1, <1>1, ConcatAdjacentSubSeq
  <2> QED BY <2>2
<1>5. Told(F, Q) = F \o SubSeq(Q, k+1, Len(Q)) /\ Told(G, Q) = G \o v
  BY <1>2 DEF Tells
<1> HIDE DEF u, v
<1>6. (F \o u) \o v = F \o (u \o v)
  <2>1. F \in Seq(Row)
    BY <1>1
  <2> QED BY <2>1, <1>3, ConcatAssociative
<1>7. Told(G, Q) = Told(F, Q)
  BY <1>1, <1>4, <1>5, <1>6
<1> QED BY <1>7 DEF SameTold

\* The queue without what is in the file.
LEMMA SettledShape ==
  ASSUME NEW F, NEW Q, NEW k, NEW P, Shape(F, Q, k), P = SubSeq(Q, k+1, Len(Q))
  PROVE  Shape(F, P, 0) /\ SameTold(F, Q, F, P)
<1>1. /\ F \in Seq(Row) /\ Q \in Seq(Row) /\ k \in Nat /\ k <= Len(Q) /\ Len(Q) \in Nat
      /\ \A i \in 1..Len(Q) : Q[i] \in ToSet(F) <=> i <= k
      /\ Once(F) /\ Once(Q)
  BY DEF Shape, FrontIn
<1> DEFINE n == Len(Q) - k
<1>2. P \in Seq(Row) /\ Len(P) = n /\ \A i \in 1..n : P[i] = Q[k+i]
  <2>1. n \in Nat /\ k+n = Len(Q) /\ k+n <= Len(Q)
    BY <1>1
  <2> HIDE DEF n
  <2>2. /\ SubSeq(Q, k+1, k+n) \in Seq(Row)
        /\ Len(SubSeq(Q, k+1, k+n)) = n
        /\ \A i \in 1..n : SubSeq(Q, k+1, k+n)[i] = Q[k+i]
    BY <1>1, <2>1, Piece
  <2> QED BY <2>1, <2>2
<1>3. \A i \in 1..n : k+i \in 1..Len(Q) /\ ~(k+i <= k)
  BY <1>1
<1>4. Once(P)
  <2> SUFFICES ASSUME NEW i \in 1..n, NEW j \in 1..n, P[i] = P[j]
               PROVE  i = j
    BY <1>2 DEF Once
  <2>1. k+i = k+j
    BY <1>1, <1>2, <1>3 DEF Once
  <2> QED BY <2>1, <1>1
<1>5. FrontIn(P, ToSet(F), 0)
  <2>1. \A i \in 1..n : ~(P[i] \in ToSet(F)) /\ ~(i <= 0)
    BY <1>1, <1>2, <1>3
  <2> QED BY <2>1, <1>2, <1>1 DEF FrontIn
<1>6. Shape(F, P, 0)
  BY <1>1, <1>2, <1>4, <1>5 DEF Shape
<1>7. Tells(F, Q, k) /\ Tells(F, P, 0)
  BY <1>6, ToldBy
<1>8. SubSeq(P, 0+1, Len(P)) = P
  BY <1>2, SubSeqFull
<1>9. Told(F, P) = Told(F, Q)
  BY <1>7, <1>8 DEF Tells
<1> QED BY <1>6, <1>9 DEF SameTold

\* What is accepted is in the file or waits behind it.
LEMMA ToldParts ==
  ASSUME NEW F, NEW Q, NEW k, Shape(F, Q, k)
  PROVE  /\ Told(F, Q) \in Seq(Row)
         /\ Len(Told(F, Q)) = Len(F) + (Len(Q) - k)
         /\ \A i \in 1..Len(F) : Told(F, Q)[i] = F[i]
         /\ \A i \in 1..Len(Q)-k : Told(F, Q)[Len(F)+i] = Q[k+i]
<1>1. /\ F \in Seq(Row) /\ Q \in Seq(Row) /\ k \in Nat /\ k <= Len(Q)
      /\ Len(F) \in Nat /\ Len(Q) \in Nat
  BY DEF Shape, FrontIn
<1> DEFINE n == Len(Q) - k
<1> DEFINE v == SubSeq(Q, k+1, Len(Q))
<1>2. n \in Nat /\ k+n = Len(Q) /\ k+n <= Len(Q)
  BY <1>1
<1>3. v \in Seq(Row) /\ Len(v) = n /\ \A i \in 1..n : v[i] = Q[k+i]
  <2> HIDE DEF n
  <2>1. /\ SubSeq(Q, k+1, k+n) \in Seq(Row)
        /\ Len(SubSeq(Q, k+1, k+n)) = n
        /\ \A i \in 1..n : SubSeq(Q, k+1, k+n)[i] = Q[k+i]
    BY <1>1, <1>2, Piece
  <2> QED BY <2>1, <1>2
<1>4. Told(F, Q) = F \o v
  BY ToldBy DEF Tells
<1> HIDE DEF v, n
<1>5. /\ F \o v \in Seq(Row) /\ Len(F \o v) = Len(F) + n
      /\ \A i \in 1..Len(F)+n : (F \o v)[i] = IF i <= Len(F) THEN F[i] ELSE v[i - Len(F)]
  BY <1>1, <1>3, ConcatProperties
<1>6. ASSUME NEW i \in 1..Len(F)
      PROVE  (F \o v)[i] = F[i]
  BY <1>1, <1>2, <1>5
<1>7. ASSUME NEW i \in 1..n
      PROVE  (F \o v)[Len(F)+i] = Q[k+i]
  <2>1. Len(F)+i \in 1..Len(F)+n /\ ~(Len(F)+i <= Len(F)) /\ (Len(F)+i) - Len(F) = i
    BY <1>1, <1>2
  <2> QED BY <2>1, <1>5, <1>3
<1> QED BY <1>4, <1>5, <1>6, <1>7 DEF n

\* What is in the file has been accepted first.
FileFirst(F, Q) ==
  /\ SubSeq(Told(F, Q), 1, Len(F)) = F
  /\ {Told(F, Q)[i] : i \in 1..Len(F)} = ToSet(F)

LEMMA FileIsFirst ==
  ASSUME NEW F, NEW Q, NEW k, Shape(F, Q, k)
  PROVE  FileFirst(F, Q)
<1> DEFINE A == Told(F, Q)
<1>1. F \in Seq(Row) /\ Len(F) \in Nat /\ k \in 0..Len(Q) /\ Len(Q) \in Nat
  BY DEF Shape, FrontIn
<1>2. /\ A \in Seq(Row) /\ Len(A) = Len(F) + (Len(Q) - k)
      /\ \A i \in 1..Len(F) : A[i] = F[i]
  BY ToldParts
<1> HIDE DEF A
<1>3. /\ SubSeq(A, 1, Len(F)) \in Seq(Row)
      /\ Len(SubSeq(A, 1, Len(F))) = Len(F)
      /\ \A i \in 1..Len(F) : SubSeq(A, 1, Len(F))[i] = A[i]
  <2>1. 0 \in Nat /\ 0 + Len(F) <= Len(A) /\ 0+1 = 1 /\ 0+Len(F) = Len(F)
    BY <1>1, <1>2
  <2>2. /\ SubSeq(A, 0+1, 0+Len(F)) \in Seq(Row)
        /\ Len(SubSeq(A, 0+1, 0+Len(F))) = Len(F)
        /\ \A i \in 1..Len(F) : SubSeq(A, 0+1, 0+Len(F))[i] = A[0+i]
    BY <1>1, <1>2, <2>1, Piece
  <2> QED BY <2>1, <2>2
<1>4. SubSeq(A, 1, Len(F)) = F
  BY <1>1, <1>2, <1>3, SeqEqual
<1>5. {A[i] : i \in 1..Len(F)} = ToSet(F)
  <2>1. DOMAIN F = 1..Len(F)
    BY <1>1
  <2> QED BY <2>1, <1>2 DEF ToSet
<1> QED BY <1>4, <1>5 DEF FileFirst, A

\* A new row comes last.
Grows(F, Q, r) == Told(F, Append(Q, r)) = Append(Told(F, Q), r)

LEMMA GrownShape ==
  ASSUME NEW F, NEW Q, NEW k, NEW r \in Row, Shape(F, Q, k),
         r \notin ToSet(F), r \notin ToSet(Q)
  PROVE  Shape(F, Append(Q, r), k) /\ Grows(F, Q, r) /\ r \notin ToSet(Told(F, Q))
<1> DEFINE P == Append(Q, r)
<1> DEFINE A == Told(F, Q)
<1> DEFINE B == Told(F, P)
<1>1. /\ F \in Seq(Row) /\ Q \in Seq(Row) /\ k \in Nat /\ k <= Len(Q)
      /\ Len(F) \in Nat /\ Len(Q) \in Nat
      /\ \A i \in 1..Len(Q) : Q[i] \in ToSet(F) <=> i <= k
      /\ Once(F) /\ Once(Q)
  BY DEF Shape, FrontIn
<1>2. /\ P \in Seq(Row) /\ Len(P) = Len(Q) + 1
      /\ \A i \in 1..Len(Q) : P[i] = Q[i]
      /\ P[Len(Q)+1] = r
  BY <1>1
<1> HIDE DEF P
<1>3. ASSUME NEW i \in 1..Len(P)
      PROVE  i \in 1..Len(Q) \/ i = Len(Q)+1
  BY <1>1, <1>2
<1>4. \A i \in 1..Len(Q) : Q[i] # r
  BY <1>1, Members
<1>5. Once(P)
  <2> SUFFICES ASSUME NEW i \in 1..Len(P), NEW j \in 1..Len(P), P[i] = P[j]
               PROVE  i = j
    BY DEF Once
  <2> QED BY <1>1, <1>2, <1>3, <1>4 DEF Once
<1>6. FrontIn(P, ToSet(F), k)
  <2>1. ASSUME NEW i \in 1..Len(P)
        PROVE  P[i] \in ToSet(F) <=> i <= k
    <3>1. CASE i \in 1..Len(Q)
      BY <3>1, <1>1, <1>2
    <3>2. CASE i = Len(Q)+1
      BY <3>2, <1>1, <1>2
    <3> QED BY <3>1, <3>2, <1>3
  <2>2. k \in 0..Len(P)
    BY <1>1, <1>2
  <2> QED BY <2>1, <2>2 DEF FrontIn
<1>7. Shape(F, P, k)
  BY <1>1, <1>2, <1>5, <1>6 DEF Shape
<1>8. /\ A \in Seq(Row) /\ Len(A) = Len(F) + (Len(Q) - k)
      /\ \A i \in 1..Len(F) : A[i] = F[i]
      /\ \A i \in 1..Len(Q)-k : A[Len(F)+i] = Q[k+i]
  BY ToldParts
<1>9. /\ B \in Seq(Row) /\ Len(B) = Len(F) + (Len(P) - k)
      /\ \A i \in 1..Len(F) : B[i] = F[i]
      /\ \A i \in 1..Len(P)-k : B[Len(F)+i] = P[k+i]
  BY <1>7, ToldParts
<1> HIDE DEF A, B
<1>10. /\ Append(A, r) \in Seq(Row) /\ Len(Append(A, r)) = Len(A) + 1
       /\ \A i \in 1..Len(A) : Append(A, r)[i] = A[i]
       /\ Append(A, r)[Len(A)+1] = r
  BY <1>8
<1>11. Len(A) \in Nat /\ Len(B) = Len(A) + 1
  BY <1>1, <1>2, <1>8, <1>9
<1>12. ASSUME NEW i \in 1..Len(A)
       PROVE  \/ i \in 1..Len(F)
              \/ \E j \in 1..Len(Q)-k : i = Len(F)+j
  <2>1. i <= Len(F) \/ (i - Len(F) \in 1..Len(Q)-k /\ i = Len(F) + (i - Len(F)))
    BY <1>1, <1>8
  <2> QED BY <2>1
<1>13. ASSUME NEW j \in 1..Len(Q)-k
       PROVE  k+j \in 1..Len(Q) /\ j \in 1..Len(P)-k
  BY <1>1, <1>2
<1>14. \A i \in 1..Len(A) : B[i] = A[i]
  <2> SUFFICES ASSUME NEW i \in 1..Len(A) PROVE B[i] = A[i]
    OBVIOUS
  <2>1. CASE i \in 1..Len(F)
    BY <2>1, <1>8, <1>9
  <2>2. ASSUME NEW j \in 1..Len(Q)-k, i = Len(F)+j
        PROVE  B[i] = A[i]
    BY <2>2, <1>2, <1>8, <1>9, <1>13
  <2> QED BY <2>1, <2>2, <1>12
<1>15. B[Len(A)+1] = r
  <2> DEFINE m == Len(P)-k
  <2>1. m \in 1..Len(P)-k /\ Len(A)+1 = Len(F)+m /\ k+m = Len(Q)+1
    BY <1>1, <1>2, <1>8
  <2> HIDE DEF m
  <2> QED BY <2>1, <1>2, <1>9
<1>16. Append(A, r) = B
  <2> DEFINE C == Append(A, r)
  <2>1. \A i \in 1..Len(B) : C[i] = B[i]
    <3>1. ASSUME NEW i \in 1..Len(B)
          PROVE  i \in 1..Len(A) \/ i = Len(A)+1
      BY <1>11
    <3> QED BY <3>1, <1>10, <1>14, <1>15
  <2>2. C \in Seq(Row) /\ Len(C) = Len(B)
    BY <1>10, <1>11
  <2> HIDE DEF C
  <2>3. C = B
    BY <2>1, <2>2, <1>9, SeqEqual
  <2> QED BY <2>3 DEF C
<1>17. r \notin ToSet(A)
  <2> SUFFICES ASSUME NEW i \in 1..Len(A), A[i] = r PROVE FALSE
    BY <1>8, Members
  <2>1. CASE i \in 1..Len(F)
    <3>1. F[i] = r
      BY <2>1, <1>8
    <3> QED BY <3>1, <2>1, <1>1, Members
  <2>2. ASSUME NEW j \in 1..Len(Q)-k, i = Len(F)+j
        PROVE  FALSE
    BY <2>2, <1>4, <1>8, <1>13
  <2> QED BY <2>1, <2>2, <1>12
<1> QED BY <1>7, <1>16, <1>17 DEF Grows, A, B, P

\* After a restart there is only the file.
LEMMA DroppedShape ==
  ASSUME NEW F \in Seq(Row), Once(F)
  PROVE  Shape(F, <<>>, 0) /\ Told(F, <<>>) = F
<1>1. /\ <<>> \in Seq(Row) /\ Len(<<>>) = 0 /\ 1..Len(<<>>) = {}
  OBVIOUS
<1>2. FrontIn(<<>>, ToSet(F), 0) /\ Once(<<>>)
  BY <1>1 DEF FrontIn, Once
<1>3. Shape(F, <<>>, 0)
  BY <1>1, <1>2 DEF Shape
<1> DEFINE A == Told(F, <<>>)
<1>4. /\ A \in Seq(Row) /\ Len(A) = Len(F) + (Len(<<>>) - 0)
      /\ \A i \in 1..Len(F) : A[i] = F[i]
  BY <1>3, ToldParts
<1> HIDE DEF A
<1>5. Len(A) = Len(F)
  BY <1>1, <1>4
<1>6. A = F
  BY <1>4, <1>5, SeqEqual
<1> QED BY <1>3, <1>6 DEF A

-----------------------------------------------------------------------------
\* A transcript, of whose queue the first k rows are on disk.  Rows that are on
\* disk are in the batch, all of them at its end unless an append failed; what
\* failed has everything else of its transcript behind it; and a transcript that
\* is not to be compared with its file has nothing of the queue there.
Standing(p, k) ==
  /\ Shape(file[p], Queue(p), k)
  /\ failed[p] # <<>> => inflight[p] = <<>> /\ pending[p] = <<>>
  /\ inflight[p] # <<>> => k <= Len(inflight[p])
  /\ inflight[p] # <<>> /\ p \notin todo \cup broken => k = Len(inflight[p])
  /\ p \notin retry /\ (inflight[p] = <<>> \/ p \in todo) => k = 0
  /\ p \in todo => inflight[p] # <<>> /\ p \notin broken

Stands(p) == \E k \in Nat : Standing(p, k)

\* Rows a transcript knows of.
Kept(p) == ToSet(file[p]) \cup ToSet(Queue(p))

\* No row comes twice, because the identities of all of them are reserved.
Reserved == \A p \in Path : Kept(p) \subseteq known

\* A row that a flush waits for stays queued until it is on disk.
Awaited == \A f \in Flusher : flush[f] \subseteq UNION {Kept(p) : p \in Path}

TranscriptInv ==
  /\ TranscriptTypeOK
  /\ Reserved /\ Awaited
  /\ \A p \in Path : Stands(p)

\* The shapes, spelled out.
LEMMA Typed ==
  ASSUME TranscriptTypeOK, NEW p \in Path
  PROVE  /\ file[p] \in Seq(RowsOf(p)) /\ pending[p] \in Seq(RowsOf(p))
         /\ inflight[p] \in Seq(RowsOf(p)) /\ failed[p] \in Seq(RowsOf(p))
         /\ Queue(p) \in Seq(RowsOf(p))
         /\ file[p] \in Seq(Row) /\ pending[p] \in Seq(Row)
         /\ inflight[p] \in Seq(Row) /\ failed[p] \in Seq(Row)
         /\ Queue(p) \in Seq(Row)
<1>1. /\ file[p] \in Seq(RowsOf(p)) /\ pending[p] \in Seq(RowsOf(p))
      /\ inflight[p] \in Seq(RowsOf(p)) /\ failed[p] \in Seq(RowsOf(p))
      /\ file[p] \in Seq(Row) /\ pending[p] \in Seq(Row)
      /\ inflight[p] \in Seq(Row) /\ failed[p] \in Seq(Row)
  BY DEF TranscriptTypeOK
<1>2. Queue(p) \in Seq(RowsOf(p)) /\ Queue(p) \in Seq(Row)
  BY <1>1, ConcatProperties DEF Queue
<1> QED BY <1>1, <1>2

\* What a step may do to one transcript.
Still(p)     == file'[p] = file[p] /\ Queue(p)' = Queue(p)
Joins(p, r)  == file'[p] = file[p] /\ Queue(p)' = Append(Queue(p), r)
Writes(p, k, n) == Queue(p)' = Queue(p) /\ Moved(file[p], Queue(p), k, n, file'[p])
Settles(p, k)   == file'[p] = file[p] /\ Queue(p)' = SubSeq(Queue(p), k+1, Len(Queue(p)))
Drops(p)     == file'[p] = file[p] /\ Queue(p)' = <<>>

\* What each of them does to the rows the transcript knows of.
LEMMA StillKept ==
  ASSUME NEW p, Still(p)
  PROVE  Kept(p)' = Kept(p)
BY DEF Still, Kept

LEMMA JoinsKept ==
  ASSUME NEW p, NEW r \in Row, Queue(p) \in Seq(Row), Joins(p, r)
  PROVE  Kept(p)' = Kept(p) \cup {r}
<1> DEFINE Q == Queue(p)
<1>1. Q \in Seq(Row)
  OBVIOUS
<1> HIDE DEF Q
<1>2. /\ Append(Q, r) \in Seq(Row) /\ Len(Append(Q, r)) = Len(Q) + 1
      /\ \A i \in 1..Len(Q) : Append(Q, r)[i] = Q[i]
      /\ Append(Q, r)[Len(Q)+1] = r /\ Len(Q) \in Nat
  BY <1>1
<1>3. ASSUME NEW x
      PROVE  x \in ToSet(Append(Q, r)) <=> x \in ToSet(Q) \/ x = r
  <2>1. /\ x \in ToSet(Q) <=> \E i \in 1..Len(Q) : Q[i] = x
        /\ x \in ToSet(Append(Q, r)) <=> \E i \in 1..Len(Q)+1 : Append(Q, r)[i] = x
    <3> DEFINE P == Append(Q, r)
    <3>1. P \in Seq(Row) /\ Len(P) = Len(Q)+1
      BY <1>2
    <3> HIDE DEF P
    <3>2. x \in ToSet(P) <=> \E i \in 1..Len(P) : P[i] = x
      BY <3>1, Members
    <3>3. x \in ToSet(Q) <=> \E i \in 1..Len(Q) : Q[i] = x
      BY <1>1, Members
    <3> QED BY <3>1, <3>2, <3>3 DEF P
  <2>2. \A i \in 1..Len(Q)+1 : i \in 1..Len(Q) \/ i = Len(Q)+1
    BY <1>2
  <2>3. \A i \in 1..Len(Q) : i \in 1..Len(Q)+1
    BY <1>2
  <2>4. Len(Q)+1 \in 1..Len(Q)+1
    BY <1>2
  <2> QED BY <2>1, <2>2, <2>3, <2>4, <1>2
<1> QED BY <1>3 DEF Joins, Kept, Q

LEMMA WritesKept ==
  ASSUME NEW p, NEW k, NEW n, Shape(file[p], Queue(p), k), Writes(p, k, n)
  PROVE  Kept(p)' = Kept(p)
<1> DEFINE F == file[p]
<1> DEFINE G == file'[p]
<1> DEFINE Q == Queue(p)
<1>1. Shape(F, Q, k) /\ Moved(F, Q, k, n, G) /\ Queue(p)' = Q
  BY DEF Writes
<1> HIDE DEF F, G, Q
<1>2. Shape(G, Q, k+n)
  BY <1>1, MovedShape
<1> DEFINE u == SubSeq(Q, k+1, k+n)
<1>3. /\ F \in Seq(Row) /\ G \in Seq(Row) /\ Q \in Seq(Row) /\ G = F \o u
      /\ k \in Nat /\ n \in Nat /\ k+n <= Len(Q) /\ Len(Q) \in Nat
  BY <1>1, <1>2 DEF Shape, Moved, FrontIn
<1>4. u \in Seq(Row) /\ Len(u) = n /\ \A i \in 1..n : u[i] = Q[k+i]
  BY <1>3, Piece
<1>5. ToSet(G) = ToSet(F) \cup ToSet(u)
  <2> HIDE DEF u
  <2>1. Range(F \o u) = Range(F) \cup Range(u)
    BY <1>3, <1>4, RangeConcatenation
  <2> QED BY <2>1, <1>3 DEF ToSet, Range
<1>6. ToSet(u) \subseteq ToSet(Q)
  <2> HIDE DEF u
  <2> SUFFICES ASSUME NEW i \in 1..n PROVE u[i] \in ToSet(Q)
    BY <1>4, Members
  <2>1. k+i \in 1..Len(Q)
    BY <1>3
  <2> QED BY <2>1, <1>3, <1>4, Members
<1> QED BY <1>1, <1>5, <1>6 DEF Kept, F, G, Q

LEMMA SettlesKept ==
  ASSUME NEW p, NEW k, Shape(file[p], Queue(p), k), Settles(p, k)
  PROVE  Kept(p)' = Kept(p)
<1> DEFINE F == file[p]
<1> DEFINE Q == Queue(p)
<1> DEFINE P == SubSeq(Q, k+1, Len(Q))
<1>1. Shape(F, Q, k) /\ file'[p] = F /\ Queue(p)' = P
  BY DEF Settles
<1> HIDE DEF F, Q
<1> DEFINE n == Len(Q) - k
<1>2. /\ Q \in Seq(Row) /\ k \in Nat /\ n \in Nat /\ k+n = Len(Q) /\ k+n <= Len(Q)
      /\ \A i \in 1..Len(Q) : Q[i] \in ToSet(F) <=> i <= k
  BY <1>1 DEF Shape, FrontIn
<1>3. P \in Seq(Row) /\ Len(P) = n /\ \A i \in 1..n : P[i] = Q[k+i]
  <2> HIDE DEF n
  <2>1. /\ SubSeq(Q, k+1, k+n) \in Seq(Row) /\ Len(SubSeq(Q, k+1, k+n)) = n
        /\ \A i \in 1..n : SubSeq(Q, k+1, k+n)[i] = Q[k+i]
    BY <1>2, Piece
  <2> QED BY <2>1, <1>2
<1> HIDE DEF P, n
<1>4. ToSet(P) \subseteq ToSet(Q)
  <2> SUFFICES ASSUME NEW i \in 1..n PROVE P[i] \in ToSet(Q)
    BY <1>3, Members
  <2>1. k+i \in 1..Len(Q)
    BY <1>2
  <2> QED BY <2>1, <1>2, <1>3, Members
<1>5. ToSet(Q) \subseteq ToSet(F) \cup ToSet(P)
  <2> SUFFICES ASSUME NEW i \in 1..Len(Q), Q[i] \notin ToSet(F) PROVE Q[i] \in ToSet(P)
    BY <1>2, Members
  <2>1. i-k \in 1..n /\ k+(i-k) = i
    BY <1>2
  <2>2. P[i-k] = Q[i]
    BY <2>1, <1>3
  <2> QED BY <2>1, <2>2, <1>3, Members
<1> QED BY <1>1, <1>4, <1>5 DEF Kept, F, Q

-----------------------------------------------------------------------------
\* Queues can be joined in any grouping.
Regroups(b, c, x) == (b \o c) \o x = b \o (c \o x)

LEMMA Associates ==
  ASSUME NEW R, NEW b \in Seq(R), NEW c \in Seq(R), NEW x \in Seq(R)
  PROVE  Regroups(b, c, x)
BY ConcatAssociative DEF Regroups

\* What has failed comes back in front of what is pending.
Comes(a, b, c, x) == <<>> \o b \o (a \o c \o x) = (a \o b \o c) \o x

LEMMA Requeued ==
  ASSUME NEW R, NEW a \in Seq(R), NEW b \in Seq(R), NEW c \in Seq(R), NEW x \in Seq(R),
         a # <<>> => b = <<>> /\ c = <<>>
  PROVE  Comes(a, b, c, x)
<1>1. <<>> \o b = b
  BY ConcatEmptySeq
<1>2. <<>> \in Seq(R)
  OBVIOUS
<1>3. CASE a = <<>>
  <2>1. a \o c = c /\ a \o b = b
    BY <1>3, ConcatEmptySeq
  <2>2. Regroups(b, c, x)
    BY Associates
  <2> QED BY <1>1, <2>1, <2>2 DEF Comes, Regroups
<1>4. CASE a # <<>>
  <2>1. b = <<>> /\ c = <<>>
    BY <1>4
  <2>2. a \o <<>> = a
    BY ConcatEmptySeq
  <2>3. a \o x \in Seq(R)
    BY ConcatProperties
  <2>4. <<>> \o <<>> = <<>> /\ <<>> \o (a \o x) = a \o x
    BY <1>2, <2>3, ConcatEmptySeq
  <2> QED BY <2>1, <2>2, <2>4 DEF Comes
<1> QED BY <1>3, <1>4

\* Record: the row joins its transcript, or nothing is new.
LEMMA RecordPath ==
  ASSUME TranscriptInv, NEW r \in Row, Record(r), NEW p \in Path, NEW k \in Nat, Standing(p, k)
  PROVE  /\ p = Of[r] /\ r \notin known => Joins(p, r)
         /\ ~ (p = Of[r] /\ r \notin known) => Still(p)
         /\ Standing(p, k)'
<1> DEFINE x == IF p = Of[r] /\ r \notin known THEN <<r>> ELSE <<>>
<1>1. x \in Seq(Row)
  OBVIOUS
<1>2. /\ pending[p] \in Seq(Row) /\ inflight[p] \in Seq(Row) /\ failed[p] \in Seq(Row)
      /\ Queue(p) \in Seq(Row)
  BY Typed DEF TranscriptInv
<1>3. /\ Shape(file[p], Queue(p), k)
      /\ failed[p] # <<>> => inflight[p] = <<>> /\ pending[p] = <<>>
  BY DEF Standing
<1>4. /\ failed'[p] = <<>> /\ inflight'[p] = inflight[p] /\ file'[p] = file[p]
      /\ pending'[p] = failed[p] \o pending[p] \o x
      /\ UNCHANGED <<todo, broken, retry>>
  BY DEF Record, Nothing, writer, disk
<1> HIDE DEF x
<1>5. Queue(p)' = Queue(p) \o x
  <2>1. Comes(failed[p], inflight[p], pending[p], x)
    BY <1>1, <1>2, <1>3, Requeued
  <2> QED BY <2>1, <1>4 DEF Queue, Comes
<1>6. CASE p = Of[r] /\ r \notin known
  <2>1. Joins(p, r)
    <3>1. x = <<r>>
      BY <1>6 DEF x
    <3>2. Append(Queue(p), r) = Queue(p) \o <<r>>
      BY <1>2, AppendIsConcat
    <3> QED BY <3>1, <3>2, <1>4, <1>5 DEF Joins
  <2>2. r \notin ToSet(file[p]) /\ r \notin ToSet(Queue(p))
    BY <1>6 DEF TranscriptInv, Reserved, Kept
  <2>3. Shape(file[p], Append(Queue(p), r), k)
    BY <1>3, <2>2, GrownShape
  <2>4. Standing(p, k)'
    BY <2>1, <2>3, <1>4 DEF Standing, Joins
  <2> QED BY <1>6, <2>1, <2>4
<1>7. CASE ~ (p = Of[r] /\ r \notin known)
  <2>1. Still(p)
    <3>1. x = <<>>
      BY <1>7 DEF x
    <3>2. Queue(p) \o <<>> = Queue(p)
      BY <1>2, ConcatEmptySeq
    <3> QED BY <3>1, <3>2, <1>4, <1>5 DEF Still
  <2>2. Standing(p, k)'
    BY <2>1, <1>3, <1>4 DEF Standing, Still
  <2> QED BY <1>7, <2>1, <2>2
<1> QED BY <1>6, <1>7

\* Flush: what has failed comes back, nothing is new.
LEMMA FlushPath ==
  ASSUME TranscriptInv, NEW f, NEW S, Flush(f, S), NEW p \in Path, NEW k \in Nat, Standing(p, k)
  PROVE  Still(p) /\ Standing(p, k)'
<1>1. /\ pending[p] \in Seq(Row) /\ inflight[p] \in Seq(Row) /\ failed[p] \in Seq(Row)
      /\ Queue(p) \in Seq(Row)
  BY Typed DEF TranscriptInv
<1>2. /\ Shape(file[p], Queue(p), k)
      /\ failed[p] # <<>> => inflight[p] = <<>> /\ pending[p] = <<>>
  BY DEF Standing
<1>3. /\ inflight'[p] = inflight[p] /\ file'[p] = file[p]
      /\ UNCHANGED <<todo, broken, retry>>
  BY DEF Flush, writer, disk
<1>4. CASE p \in S
  <2>1. failed'[p] = <<>> /\ pending'[p] = failed[p] \o pending[p]
    BY <1>4 DEF Flush
  <2>2. Queue(p)' = Queue(p)
    <3>1. <<>> \in Seq(Row)
      OBVIOUS
    <3>2. Comes(failed[p], inflight[p], pending[p], <<>>)
      BY <3>1, <1>1, <1>2, Requeued
    <3>3. failed[p] \o pending[p] \in Seq(Row)
      BY <1>1, ConcatProperties
    <3>4. failed[p] \o pending[p] \o <<>> = failed[p] \o pending[p]
      BY <3>3, ConcatEmptySeq
    <3>5. Queue(p) \o <<>> = Queue(p)
      BY <1>1, ConcatEmptySeq
    <3> QED BY <2>1, <3>2, <3>4, <3>5, <1>3 DEF Queue, Comes
  <2> QED BY <2>1, <2>2, <1>2, <1>3 DEF Standing, Still
<1>5. CASE p \notin S
  <2>1. failed'[p] = failed[p] /\ pending'[p] = pending[p]
    BY <1>5 DEF Flush
  <2>2. Queue(p)' = Queue(p)
    BY <2>1, <1>3 DEF Queue
  <2> QED BY <2>1, <2>2, <1>2, <1>3 DEF Standing, Still
<1> QED BY <1>4, <1>5

\* TakeBatch: what was pending is now the batch.
LEMMA TakePath ==
  ASSUME TranscriptInv, TakeBatch, NEW p \in Path, NEW k \in Nat, Standing(p, k)
  PROVE  Still(p) /\ Standing(p, k)'
<1>1. pending[p] \in Seq(Row) /\ failed[p] \in Seq(Row) /\ Queue(p) \in Seq(Row)
  BY Typed DEF TranscriptInv
<1>2. /\ Shape(file[p], Queue(p), k)
      /\ failed[p] # <<>> => inflight[p] = <<>> /\ pending[p] = <<>>
      /\ p \notin retry /\ inflight[p] = <<>> => k = 0
  BY DEF Standing
<1>3. /\ inflight[p] = <<>> /\ inflight'[p] = pending[p] /\ pending'[p] = <<>>
      /\ failed'[p] = failed[p] /\ file'[p] = file[p] /\ retry' = retry
      /\ p \in todo' <=> pending[p] # <<>>
      /\ broken' = {}
  BY DEF TakeBatch, Nothing, disk
<1>4. Queue(p) = failed[p] \o pending[p]
  BY <1>1, <1>3, ConcatEmptySeq DEF Queue
<1>5. Queue(p)' = failed[p] \o pending[p]
  <2>1. failed[p] \o pending[p] \in Seq(Row)
    BY <1>1, ConcatProperties
  <2>2. (failed[p] \o pending[p]) \o <<>> = failed[p] \o pending[p]
    BY <2>1, ConcatEmptySeq
  <2> QED BY <2>2, <1>3 DEF Queue
<1>6. Shape(file[p], Queue(p), k)'
  BY <1>2, <1>3, <1>4, <1>5 DEF Shape
<1>7. pending[p] # <<>> => k <= Len(pending[p])
  <2> SUFFICES ASSUME pending[p] # <<>> PROVE k <= Len(pending[p])
    OBVIOUS
  <2>1. failed[p] = <<>>
    BY <1>2
  <2>2. Queue(p) = pending[p]
    BY <2>1, <1>1, <1>4, ConcatEmptySeq
  <2>3. k \in 0..Len(pending[p]) /\ Len(pending[p]) \in Nat
    BY <2>2, <1>1, <1>2 DEF Shape, FrontIn
  <2> QED BY <2>3
<1>8. Standing(p, k)'
  BY <1>2, <1>3, <1>6, <1>7 DEF Standing
<1> QED BY <1>3, <1>4, <1>5, <1>8 DEF Still

\* What is to be appended of a batch is what of it is not on disk.
Remains(p, k) ==
  /\ k <= Len(inflight[p])
  /\ Lines(p) = SubSeq(inflight[p], k+1, Len(inflight[p]))

LEMMA LinesRemain ==
  ASSUME TranscriptInv, NEW p \in Path, p \in todo, NEW k \in Nat, Standing(p, k)
  PROVE  Remains(p, k)
<1> DEFINE b == inflight[p]
<1> DEFINE S == ToSet(file[p])
<1>1. b \in Seq(Row) /\ pending[p] \in Seq(Row)
  BY Typed DEF TranscriptInv
<1>2. /\ Shape(file[p], Queue(p), k) /\ b # <<>> /\ k <= Len(b)
      /\ failed[p] # <<>> => b = <<>>
      /\ p \notin retry => k = 0
  BY DEF Standing
<1>3. Queue(p) = b \o pending[p]
  <2>1. failed[p] = <<>>
    BY <1>2
  <2> QED BY <2>1, <1>1, ConcatEmptySeq DEF Queue
<1>4. /\ Len(b \o pending[p]) = Len(b) + Len(pending[p])
      /\ \A i \in 1..Len(b) + Len(pending[p]) :
           (b \o pending[p])[i] = IF i <= Len(b) THEN b[i] ELSE pending[p][i - Len(b)]
  BY <1>1, ConcatProperties
<1>5. Len(b) \in Nat /\ Len(pending[p]) \in Nat
  BY <1>1
<1>6. \A i \in 1..Len(Queue(p)) : Queue(p)[i] \in S <=> i <= k
  BY <1>2 DEF Shape, FrontIn
<1> HIDE DEF b, S
<1>7. FrontIn(b, S, k)
  <2>1. ASSUME NEW i \in 1..Len(b)
        PROVE  b[i] \in S <=> i <= k
    <3>1. i \in 1..Len(b) + Len(pending[p]) /\ i <= Len(b)
      BY <1>5
    <3>2. Queue(p)[i] = b[i] /\ i \in 1..Len(Queue(p))
      BY <3>1, <1>3, <1>4
    <3> QED BY <3>2, <1>6
  <2>2. k \in 0..Len(b)
    BY <1>2, <1>5
  <2> QED BY <2>1, <2>2 DEF FrontIn
<1>8. Leaves(b, S, k)
  BY <1>1, <1>7, WithoutFront
<1>9. CASE p \in retry \cup torn
  BY <1>2, <1>8, <1>9 DEF Remains, Lines, Leaves, b, S
<1>10. CASE p \notin retry \cup torn
  <2>1. k = 0 /\ Lines(p) = b
    BY <1>2, <1>10 DEF Lines, b
  <2>2. SubSeq(b, 1, Len(b)) = b
    BY <1>1, SubSeqFull
  <2>3. 0+1 = 1
    OBVIOUS
  <2> QED BY <2>1, <2>2, <2>3, <1>2 DEF Remains, b
<1> QED BY <1>9, <1>10

\* AppendBatch: rows of the batch, in its order, go to disk.
Appends(p, k, n) ==
  /\ k + n <= Len(inflight[p])
  /\ file'[p] = file[p] \o SubSeq(inflight[p], k+1, k+n)

LEMMA AppendsPart ==
  ASSUME TranscriptInv, NEW p \in Path, AppendBatch(p), NEW k \in Nat, Standing(p, k)
  PROVE  \E n \in Nat : Appends(p, k, n) /\ (p \notin broken' => k + n = Len(inflight[p]))
<1> DEFINE b == inflight[p]
<1> DEFINE m == Len(b) - k
<1>1. b \in Seq(Row) /\ Len(b) \in Nat /\ file[p] \in Seq(Row)
  BY Typed DEF TranscriptInv
<1>2. p \in todo
  BY DEF AppendBatch
<1>3. k <= Len(b) /\ Lines(p) = SubSeq(b, k+1, Len(b))
  BY <1>2, LinesRemain DEF Remains
<1>4. m \in Nat /\ k+m = Len(b) /\ k+m <= Len(b)
  BY <1>1, <1>3
<1> HIDE DEF b, m
<1>5. Lines(p) \in Seq(Row) /\ Len(Lines(p)) = m /\ \A i \in 1..m : Lines(p)[i] = b[k+i]
  <2>1. /\ SubSeq(b, k+1, k+m) \in Seq(Row) /\ Len(SubSeq(b, k+1, k+m)) = m
        /\ \A i \in 1..m : SubSeq(b, k+1, k+m)[i] = b[k+i]
    BY <1>1, <1>4, Piece
  <2> QED BY <2>1, <1>3, <1>4
<1>6. ASSUME NEW n \in 0..m
      PROVE  SubSeq(Lines(p), 1, n) = SubSeq(b, k+1, k+n)
  <2> DEFINE s == SubSeq(Lines(p), 1, n)
  <2> DEFINE t == SubSeq(b, k+1, k+n)
  <2>1. n \in Nat /\ 0+n <= Len(Lines(p)) /\ k+n <= Len(b) /\ 0+1 = 1 /\ 0+n = n
    BY <1>1, <1>4, <1>5
  <2>2. s \in Seq(Row) /\ Len(s) = n /\ \A i \in 1..n : s[i] = Lines(p)[i]
    <3>1. 0 \in Nat
      OBVIOUS
    <3>2. /\ SubSeq(Lines(p), 0+1, 0+n) \in Seq(Row)
          /\ Len(SubSeq(Lines(p), 0+1, 0+n)) = n
          /\ \A i \in 1..n : SubSeq(Lines(p), 0+1, 0+n)[i] = Lines(p)[0+i]
      BY <3>1, <2>1, <1>5, Piece
    <3> QED BY <3>2, <2>1
  <2>3. t \in Seq(Row) /\ Len(t) = n /\ \A i \in 1..n : t[i] = b[k+i]
    BY <2>1, <1>1, Piece
  <2>4. \A i \in 1..n : i \in 1..m
    BY <1>4
  <2> HIDE DEF s, t
  <2>5. s = t
    BY <2>2, <2>3, <2>4, <1>5, SeqEqual
  <2> QED BY <2>5 DEF s, t
<1>7. CASE file' = [file EXCEPT ![p] = @ \o Lines(p)]
  <2>1. file'[p] = file[p] \o Lines(p)
    BY <1>7 DEF TranscriptInv, TranscriptTypeOK
  <2>2. Lines(p) = SubSeq(b, k+1, k+m)
    BY <1>3, <1>4
  <2>3. Appends(p, k, m)
    BY <2>1, <2>2, <1>4 DEF Appends, b
  <2> QED BY <2>3, <1>4 DEF b
<1>8. ASSUME NEW n \in 0..m, file' = [file EXCEPT ![p] = @ \o SubSeq(Lines(p), 1, n)],
             p \in broken'
      PROVE  \E l \in Nat : Appends(p, k, l) /\ (p \notin broken' => k + l = Len(b))
  <2>1. file'[p] = file[p] \o SubSeq(Lines(p), 1, n)
    BY <1>8 DEF TranscriptInv, TranscriptTypeOK
  <2>2. file'[p] = file[p] \o SubSeq(b, k+1, k+n)
    BY <2>1, <1>6
  <2>3. Appends(p, k, n) /\ n \in Nat
    BY <2>2, <1>1, <1>4 DEF Appends, b
  <2> QED BY <2>3, <1>8
<1>9. \/ file' = [file EXCEPT ![p] = @ \o Lines(p)]
      \/ \E n \in 0..m : /\ file' = [file EXCEPT ![p] = @ \o SubSeq(Lines(p), 1, n)]
                         /\ p \in broken'
  BY <1>5 DEF AppendBatch
<1> QED BY <1>7, <1>8, <1>9 DEF b

LEMMA AppendPath ==
  ASSUME TranscriptInv, NEW p \in Path, AppendBatch(p), NEW k \in Nat, Standing(p, k)
  PROVE  \E n \in Nat : Appends(p, k, n) /\ Writes(p, k, n) /\ Standing(p, k+n)'
<1> DEFINE b == inflight[p]
<1>1. PICK n \in Nat : Appends(p, k, n) /\ (p \notin broken' => k + n = Len(b))
  BY AppendsPart
<1>2. b \in Seq(Row) /\ Len(b) \in Nat /\ pending[p] \in Seq(Row)
  BY Typed DEF TranscriptInv
<1>3. /\ Shape(file[p], Queue(p), k) /\ failed[p] = <<>> /\ b # <<>>
      /\ Queue(p) = b \o pending[p]
  <2>1. /\ Shape(file[p], Queue(p), k) /\ b # <<>>
        /\ failed[p] # <<>> => b = <<>>
    BY DEF Standing, AppendBatch
  <2>2. failed[p] = <<>>
    BY <2>1
  <2> QED BY <2>1, <2>2, <1>2, ConcatEmptySeq DEF Queue
<1>4. /\ UNCHANGED <<pending, inflight, failed>> /\ p \notin todo'
  BY DEF AppendBatch, queues
<1>5. Queue(p)' = Queue(p)
  BY <1>4 DEF Queue
<1> HIDE DEF b
<1>6. k+n <= Len(b) /\ file'[p] = file[p] \o SubSeq(b, k+1, k+n)
  BY <1>1 DEF Appends, b
<1> DEFINE s == SubSeq(b, k+1, k+n)
<1> DEFINE t == SubSeq(Queue(p), k+1, k+n)
<1>7. /\ Queue(p) \in Seq(Row) /\ Len(Queue(p)) = Len(b) + Len(pending[p])
      /\ Len(pending[p]) \in Nat
      /\ \A i \in 1..Len(b) + Len(pending[p]) :
           Queue(p)[i] = IF i <= Len(b) THEN b[i] ELSE pending[p][i - Len(b)]
  BY <1>2, <1>3, ConcatProperties
<1>8. s \in Seq(Row) /\ Len(s) = n /\ \A i \in 1..n : s[i] = b[k+i]
  BY <1>2, <1>6, Piece
<1>9. k+n <= Len(Queue(p))
  BY <1>2, <1>6, <1>7
<1>10. t \in Seq(Row) /\ Len(t) = n /\ \A i \in 1..n : t[i] = Queue(p)[k+i]
  BY <1>7, <1>9, Piece
<1>11. \A i \in 1..n : Queue(p)[k+i] = b[k+i]
  <2> SUFFICES ASSUME NEW i \in 1..n PROVE Queue(p)[k+i] = b[k+i]
    OBVIOUS
  <2>1. k+i \in 1..Len(b) + Len(pending[p]) /\ k+i <= Len(b)
    BY <1>2, <1>6, <1>7
  <2> QED BY <2>1, <1>7
<1> HIDE DEF s, t
<1>12. s = t
  BY <1>8, <1>10, <1>11, SeqEqual
<1>13. Writes(p, k, n)
  <2>1. file'[p] = file[p] \o SubSeq(Queue(p), k+1, k+n)
    BY <1>6, <1>12 DEF s, t
  <2> QED BY <2>1, <1>5, <1>9 DEF Writes, Moved
<1>14. Shape(file'[p], Queue(p), k+n)
  BY <1>3, <1>13, MovedShape DEF Writes
<1>15. Standing(p, k+n)'
  <2>1. Shape(file'[p], Queue(p)', k+n)
    BY <1>5, <1>14
  <2>2. failed'[p] = <<>> /\ inflight'[p] = b /\ b # <<>>
    BY <1>3, <1>4 DEF b
  <2>3. p \notin broken' => k+n = Len(b)
    BY <1>1
  <2> QED BY <2>1, <2>2, <2>3, <1>4, <1>6 DEF Standing
<1> QED BY <1>1, <1>13, <1>15

\* The other transcripts of the batch stay as they are.
LEMMA AppendOther ==
  ASSUME TranscriptInv, NEW q \in Path, AppendBatch(q), NEW p \in Path, p # q,
         NEW k \in Nat, Standing(p, k)
  PROVE  Still(p) /\ Standing(p, k)'
<1>1. /\ file'[p] = file[p] /\ UNCHANGED <<pending, inflight, failed>>
      /\ p \in todo' <=> p \in todo
      /\ p \in broken' <=> p \in broken
      /\ p \in retry' <=> p \in retry
  BY DEF AppendBatch, queues, TranscriptInv, TranscriptTypeOK
<1>2. Queue(p)' = Queue(p)
  BY <1>1 DEF Queue
<1> QED BY <1>1, <1>2 DEF Still, Standing

\* EndBatch: what failed takes the queue behind it along; of the rest, the batch
\* is on disk.
LEMMA EndPath ==
  ASSUME TranscriptInv, EndBatch, NEW p \in Path, NEW k \in Nat, Standing(p, k)
  PROVE  \/ Still(p) /\ Standing(p, k)'
         \/ Settles(p, k) /\ Standing(p, 0)'
<1> DEFINE b == inflight[p]
<1>1. /\ b \in Seq(Row) /\ Len(b) \in Nat /\ pending[p] \in Seq(Row) /\ failed[p] \in Seq(Row)
      /\ Queue(p) \in Seq(Row)
  BY Typed DEF TranscriptInv
<1>2. /\ Shape(file[p], Queue(p), k)
      /\ failed[p] # <<>> => b = <<>> /\ pending[p] = <<>>
      /\ b # <<>> /\ p \notin broken => k = Len(b)
      /\ p \notin retry /\ b = <<>> => k = 0
  BY DEF Standing, EndBatch
<1>3. /\ file'[p] = file[p] /\ inflight'[p] = <<>> /\ todo' = {} /\ broken' = broken
      /\ retry' = retry \cup broken
  BY DEF EndBatch, Nothing, disk, writer
<1>4. CASE p \in broken
  <2>1. failed'[p] = Queue(p) /\ pending'[p] = <<>>
    BY <1>4 DEF EndBatch
  <2>2. Queue(p)' = Queue(p)
    <3>1. Queue(p)' = Queue(p) \o <<>> \o <<>>
      BY <2>1, <1>3 DEF Queue
    <3>2. Queue(p) \o <<>> = Queue(p)
      BY <1>1, ConcatEmptySeq
    <3> QED BY <3>1, <3>2
  <2> QED BY <2>1, <2>2, <1>2, <1>3, <1>4 DEF Still, Standing
<1>5. CASE p \notin broken /\ b = <<>>
  <2>1. failed'[p] = failed[p] /\ pending'[p] = pending[p]
    BY <1>5 DEF EndBatch
  <2>2. Queue(p)' = Queue(p)
    BY <2>1, <1>3, <1>5 DEF Queue
  <2> QED BY <2>1, <2>2, <1>2, <1>3, <1>5 DEF Still, Standing
<1>6. CASE p \notin broken /\ b # <<>>
  <2>1. failed'[p] = <<>> /\ pending'[p] = pending[p] /\ failed[p] = <<>>
    <3>1. failed[p] = <<>>
      BY <1>2, <1>6
    <3> QED BY <3>1, <1>6 DEF EndBatch
  <2>2. Queue(p)' = pending[p]
    <3>1. <<>> \o <<>> = <<>> /\ <<>> \o pending[p] = pending[p]
      BY <1>1, ConcatEmptySeq
    <3> QED BY <3>1, <2>1, <1>3 DEF Queue
  <2>3. Queue(p) = b \o pending[p] /\ k = Len(b)
    <3>1. <<>> \o b = b
      BY <1>1, ConcatEmptySeq
    <3> QED BY <3>1, <2>1, <1>2, <1>6 DEF Queue
  <2> DEFINE n == Len(pending[p])
  <2>4. pending[p] = SubSeq(Queue(p), k+1, Len(Queue(p)))
    <3> HIDE DEF b
    <3>1. /\ Len(b \o pending[p]) = Len(b) + n /\ n \in Nat
          /\ \A i \in 1..Len(b) + n :
               (b \o pending[p])[i] = IF i <= Len(b) THEN b[i] ELSE pending[p][i - Len(b)]
      BY <1>1, ConcatProperties
    <3>2. Len(Queue(p)) = k+n /\ k+n <= Len(Queue(p))
      BY <3>1, <2>3, <1>1
    <3> HIDE DEF n
    <3> DEFINE v == SubSeq(Queue(p), k+1, k+n)
    <3>3. v \in Seq(Row) /\ Len(v) = n /\ \A i \in 1..n : v[i] = Queue(p)[k+i]
      BY <3>1, <3>2, <1>1, Piece
    <3> HIDE DEF v
    <3>4. \A i \in 1..n : v[i] = pending[p][i]
      <4> SUFFICES ASSUME NEW i \in 1..n PROVE v[i] = pending[p][i]
        OBVIOUS
      <4>1. k+i \in 1..Len(b)+n /\ ~(k+i <= Len(b)) /\ (k+i) - Len(b) = i
        BY <2>3, <3>1, <1>1
      <4>2. Queue(p)[k+i] = pending[p][i]
        BY <4>1, <3>1, <2>3
      <4> QED BY <4>2, <3>3
    <3>5. v = pending[p]
      BY <3>3, <3>4, <1>1, SeqEqual DEF n
    <3> QED BY <3>2, <3>5 DEF v
  <2>5. Settles(p, k)
    BY <2>2, <2>4, <1>3 DEF Settles
  <2>6. Shape(file[p], pending[p], 0)
    <3> DEFINE P == pending[p]
    <3>1. P = SubSeq(Queue(p), k+1, Len(Queue(p)))
      BY <2>4
    <3> HIDE DEF P
    <3>2. Shape(file[p], P, 0)
      BY <3>1, <1>2, SettledShape
    <3> QED BY <3>2 DEF P
  <2>7. Standing(p, 0)'
    BY <2>1, <2>2, <2>6, <1>3 DEF Standing
  <2> QED BY <2>5, <2>7
<1> QED BY <1>4, <1>5, <1>6

\* Crash: the file is left.
LEMMA CrashPath ==
  ASSUME TranscriptInv, Crash, NEW p \in Path
  PROVE  Drops(p) /\ Standing(p, 0)'
<1>1. /\ file'[p] = file[p] /\ failed'[p] = <<>> /\ inflight'[p] = <<>> /\ pending'[p] = <<>>
      /\ todo' = {}
  BY DEF Crash, Nothing, disk
<1>2. Queue(p)' = <<>>
  <2>1. <<>> \o <<>> \o <<>> = <<>>
    OBVIOUS
  <2> QED BY <2>1, <1>1 DEF Queue
<1>3. file[p] \in Seq(Row) /\ Once(file[p])
  BY DEF TranscriptInv, Stands, Standing, Shape
<1>4. Shape(file[p], <<>>, 0)
  BY <1>3, DroppedShape
<1> QED BY <1>1, <1>2, <1>4 DEF Drops, Standing

-----------------------------------------------------------------------------
\* No row that a flush waits for is given up by a step that gives up none.
LEMMA StayAwaited ==
  ASSUME Awaited, \A p \in Path : Kept(p) \subseteq Kept(p)',
         \A f \in Flusher : flush'[f] \subseteq flush[f]
  PROVE  Awaited'
BY DEF Awaited

\* Rows that stay in their transcript are joined to rows of it.
LEMMA JoinedType ==
  ASSUME NEW R, NEW s \in Seq(R), NEW t \in Seq(R)
  PROVE  s \o t \in Seq(R)
BY ConcatProperties

\* Types, action by action.
LEMMA RecordTypes ==
  ASSUME TranscriptInv, NEW r \in Row, Record(r)
  PROVE  TranscriptTypeOK'
<1>1. TranscriptTypeOK
  BY DEF TranscriptInv
<1>2. UNCHANGED <<file, torn, inflight, retry, todo, broken, flush, certified, faults>>
  BY DEF Record, disk, writer
<1>3. known' \subseteq Row
  BY <1>1 DEF Record, TranscriptTypeOK
<1>4. failed' \in [Path -> Seq(Row)] /\ \A p \in Path : failed'[p] \in Seq(RowsOf(p))
  BY DEF Record, Nothing
<1>5. pending' \in [Path -> Seq(Row)] /\ \A p \in Path : pending'[p] \in Seq(RowsOf(p))
  <2> DEFINE x(p) == IF p = Of[r] /\ r \notin known THEN <<r>> ELSE <<>>
  <2>1. pending' = [p \in Path |-> failed[p] \o pending[p] \o x(p)]
    BY DEF Record
  <2>2. ASSUME NEW p \in Path
        PROVE  /\ failed[p] \o pending[p] \o x(p) \in Seq(Row)
               /\ failed[p] \o pending[p] \o x(p) \in Seq(RowsOf(p))
    <3>1. x(p) \in Seq(Row) /\ x(p) \in Seq(RowsOf(p))
      <4>1. CASE p = Of[r] /\ r \notin known
        <5>1. r \in RowsOf(p)
          BY <4>1 DEF RowsOf
        <5> QED BY <4>1, <5>1
      <4>2. CASE ~ (p = Of[r] /\ r \notin known)
        BY <4>2
      <4> QED BY <4>1, <4>2
    <3>2. /\ failed[p] \in Seq(Row) /\ failed[p] \in Seq(RowsOf(p))
          /\ pending[p] \in Seq(Row) /\ pending[p] \in Seq(RowsOf(p))
      BY <1>1, Typed
    <3> HIDE DEF x
    <3>3. failed[p] \o pending[p] \in Seq(Row) /\ failed[p] \o pending[p] \in Seq(RowsOf(p))
      BY <3>2, JoinedType
    <3> QED BY <3>1, <3>3, JoinedType
  <2> HIDE DEF x
  <2> QED BY <2>1, <2>2
<1> QED BY <1>1, <1>2, <1>3, <1>4, <1>5 DEF TranscriptTypeOK, RowsOf

LEMMA FlushTypes ==
  ASSUME TranscriptInv, NEW f \in Flusher, NEW S, Flush(f, S)
  PROVE  TranscriptTypeOK'
<1>1. TranscriptTypeOK
  BY DEF TranscriptInv
<1>2. UNCHANGED <<file, torn, known, inflight, retry, todo, broken, certified, faults>>
  BY DEF Flush, disk, writer
<1>3. flush' \in [Flusher -> SUBSET Row]
  <2>1. Queued \subseteq Row
    <3>1. \A p \in Path : ToSet(Queue(p)) \subseteq Row
      BY <1>1, Typed, Members
    <3> QED BY <3>1 DEF Queued
  <2> QED BY <1>1, <2>1 DEF Flush, TranscriptTypeOK
<1>4. ASSUME NEW p \in Path
      PROVE  /\ failed[p] \in Seq(Row) /\ failed[p] \in Seq(RowsOf(p))
             /\ pending[p] \in Seq(Row) /\ pending[p] \in Seq(RowsOf(p))
             /\ failed[p] \o pending[p] \in Seq(Row)
             /\ failed[p] \o pending[p] \in Seq(RowsOf(p))
  BY <1>1, Typed, JoinedType
<1>5. failed' \in [Path -> Seq(Row)] /\ \A p \in Path : failed'[p] \in Seq(RowsOf(p))
  BY <1>4 DEF Flush
<1>6. pending' \in [Path -> Seq(Row)] /\ \A p \in Path : pending'[p] \in Seq(RowsOf(p))
  BY <1>4 DEF Flush
<1> QED BY <1>1, <1>2, <1>3, <1>5, <1>6 DEF TranscriptTypeOK, RowsOf

LEMMA TakeTypes ==
  ASSUME TranscriptInv, TakeBatch
  PROVE  TranscriptTypeOK'
<1>1. TranscriptTypeOK
  BY DEF TranscriptInv
<1>2. /\ UNCHANGED <<file, torn, known, failed, retry, flush, certified, faults>>
      /\ inflight' = pending /\ pending' = Nothing
      /\ todo' \subseteq Path /\ broken' = {}
  BY DEF TakeBatch, disk
<1>3. pending' \in [Path -> Seq(Row)] /\ \A p \in Path : pending'[p] \in Seq(RowsOf(p))
  BY <1>2 DEF Nothing
<1> QED BY <1>1, <1>2, <1>3 DEF TranscriptTypeOK, RowsOf

LEMMA AppendTypes ==
  ASSUME TranscriptInv, NEW q \in Path, AppendBatch(q)
  PROVE  TranscriptTypeOK'
<1>1. TranscriptTypeOK
  BY DEF TranscriptInv
<1>2. UNCHANGED <<known, pending, inflight, failed, flush, certified>>
  BY DEF AppendBatch, queues
<1>3. torn' \subseteq Path /\ retry' \subseteq Path /\ todo' \subseteq Path /\ broken' \subseteq Path
  BY <1>1 DEF AppendBatch, TranscriptTypeOK
<1>4. faults' \in 0..MaxFaults
  BY <1>1, FaultAssumption DEF AppendBatch, Fault, TranscriptTypeOK
<1>5. file' \in [Path -> Seq(Row)] /\ \A p \in Path : file'[p] \in Seq(RowsOf(p))
  <2>1. PICK k \in Nat : Standing(q, k)
    BY DEF TranscriptInv, Stands
  <2>2. PICK n \in Nat : Appends(q, k, n)
    BY <2>1, AppendsPart
  <2> DEFINE u == SubSeq(inflight[q], k+1, k+n)
  <2>3. u \in Seq(Row) /\ u \in Seq(RowsOf(q))
    BY <1>1, <2>2, Typed, Piece DEF Appends
  <2>4. file'[q] = file[q] \o u
    BY <2>2 DEF Appends
  <2> HIDE DEF u
  <2>5. file'[q] \in Seq(Row) /\ file'[q] \in Seq(RowsOf(q))
    BY <1>1, <2>3, <2>4, Typed, JoinedType
  <2>6. \A p \in Path \ {q} : file'[p] = file[p]
    BY <1>1 DEF AppendBatch, TranscriptTypeOK
  <2>7. DOMAIN file' = Path /\ file' = [p \in DOMAIN file' |-> file'[p]]
    BY <1>1 DEF AppendBatch, TranscriptTypeOK
  <2>8. ASSUME NEW p \in Path
        PROVE  file'[p] \in Seq(Row) /\ file'[p] \in Seq(RowsOf(p))
    BY <1>1, <2>5, <2>6, Typed
  <2> QED BY <2>7, <2>8
<1> QED BY <1>1, <1>2, <1>3, <1>4, <1>5 DEF TranscriptTypeOK, RowsOf

LEMMA EndTypes ==
  ASSUME TranscriptInv, EndBatch
  PROVE  TranscriptTypeOK'
<1>1. TranscriptTypeOK
  BY DEF TranscriptInv
<1>2. /\ UNCHANGED <<file, torn, known, todo, broken, flush, certified, faults>>
      /\ retry' = retry \cup broken /\ inflight' = Nothing
  BY DEF EndBatch, disk, writer
<1>3. ASSUME NEW p \in Path
      PROVE  /\ failed[p] \in Seq(Row) /\ failed[p] \in Seq(RowsOf(p))
             /\ pending[p] \in Seq(Row) /\ pending[p] \in Seq(RowsOf(p))
             /\ Queue(p) \in Seq(Row) /\ Queue(p) \in Seq(RowsOf(p))
             /\ <<>> \in Seq(Row) /\ <<>> \in Seq(RowsOf(p))
  BY <1>1, Typed
<1>4. failed' \in [Path -> Seq(Row)] /\ \A p \in Path : failed'[p] \in Seq(RowsOf(p))
  BY <1>3 DEF EndBatch
<1>5. pending' \in [Path -> Seq(Row)] /\ \A p \in Path : pending'[p] \in Seq(RowsOf(p))
  BY <1>3 DEF EndBatch
<1>6. inflight' \in [Path -> Seq(Row)] /\ \A p \in Path : inflight'[p] \in Seq(RowsOf(p))
  BY <1>2, <1>3 DEF Nothing
<1> QED BY <1>1, <1>2, <1>4, <1>5, <1>6 DEF TranscriptTypeOK, RowsOf

LEMMA FlushedTypes ==
  ASSUME TranscriptInv, NEW f \in Flusher, Flushed(f)
  PROVE  TranscriptTypeOK'
<1>1. TranscriptTypeOK
  BY DEF TranscriptInv
<1>2. UNCHANGED <<file, torn, known, pending, inflight, failed, retry, todo, broken, faults>>
  BY DEF Flushed, disk, writer, queues
<1>3. flush' \in [Flusher -> SUBSET Row] /\ certified' \subseteq Row
  BY <1>1 DEF Flushed, TranscriptTypeOK
<1> QED BY <1>1, <1>2, <1>3 DEF TranscriptTypeOK, RowsOf

LEMMA CrashTypes ==
  ASSUME TranscriptInv, Crash
  PROVE  TranscriptTypeOK'
<1>1. TranscriptTypeOK
  BY DEF TranscriptInv
<1>2. UNCHANGED <<file, torn, certified>>
  BY DEF Crash, disk
<1>3. known' \subseteq Row
  <2>1. \A p \in Path : ToSet(file[p]) \subseteq Row
    BY <1>1, Typed, Members
  <2> QED BY <2>1 DEF Crash
<1>4. faults' \in 0..MaxFaults
  BY <1>1, FaultAssumption DEF Crash, Fault, TranscriptTypeOK
<1>5. /\ pending' = Nothing /\ inflight' = Nothing /\ failed' = Nothing
      /\ retry' = {} /\ todo' = {} /\ broken' = {}
      /\ flush' \in [Flusher -> SUBSET Row]
  BY DEF Crash
<1>6. Nothing \in [Path -> Seq(Row)] /\ \A p \in Path : Nothing[p] \in Seq(RowsOf(p))
  BY DEF Nothing
<1> QED BY <1>1, <1>2, <1>3, <1>4, <1>5, <1>6 DEF TranscriptTypeOK, RowsOf

-----------------------------------------------------------------------------
\* Each operation keeps the invariant.

\* A step that leaves the transcripts standing, knows no new row and gives up none.
LEMMA Keeps ==
  ASSUME TranscriptInv, TranscriptTypeOK', \A p \in Path : Stands(p)',
         \A p \in Path : Kept(p)' = Kept(p), known' = known,
         \A f \in Flusher : flush'[f] \subseteq flush[f]
  PROVE  TranscriptInv'
<1>1. Reserved'
  BY DEF TranscriptInv, Reserved
<1>2. Awaited'
  BY StayAwaited DEF TranscriptInv
<1> QED BY <1>1, <1>2 DEF TranscriptInv

\* A new row is reserved by the call that brings it.
LEMMA RecordKeeps ==
  ASSUME TranscriptInv, NEW r \in Row, Record(r)
  PROVE  TranscriptInv'
<1>1. TranscriptTypeOK'
  BY RecordTypes
<1>2. ASSUME NEW p \in Path
      PROVE  Stands(p)' /\ Kept(p) \subseteq Kept(p)' /\ Kept(p)' \subseteq Kept(p) \cup {r}
  <2>1. PICK k \in Nat : Standing(p, k)
    BY DEF TranscriptInv, Stands
  <2>2. /\ p = Of[r] /\ r \notin known => Joins(p, r)
        /\ ~ (p = Of[r] /\ r \notin known) => Still(p)
        /\ Standing(p, k)'
    BY <2>1, RecordPath
  <2>3. Stands(p)'
    BY <2>2 DEF Stands
  <2>4. Queue(p) \in Seq(Row)
    BY Typed DEF TranscriptInv
  <2>5. Kept(p) \subseteq Kept(p)' /\ Kept(p)' \subseteq Kept(p) \cup {r}
    BY <2>2, <2>4, JoinsKept, StillKept
  <2> QED BY <2>3, <2>5
<1>3. known' = known \cup {r} /\ flush' = flush
  BY DEF Record
<1>4. Reserved'
  BY <1>2, <1>3 DEF TranscriptInv, Reserved
<1>5. Awaited'
  BY <1>2, <1>3, StayAwaited DEF TranscriptInv
<1> QED BY <1>1, <1>2, <1>4, <1>5 DEF TranscriptInv

\* The batch is another place in the queue.
LEMMA TakeKeeps ==
  ASSUME TranscriptInv, TakeBatch
  PROVE  TranscriptInv' /\ \A p \in Path : Still(p)
<1>1. ASSUME NEW p \in Path
      PROVE  Stands(p)' /\ Still(p) /\ Kept(p)' = Kept(p)
  BY TakePath, StillKept DEF TranscriptInv, Stands
<1>2. known' = known /\ flush' = flush
  BY DEF TakeBatch
<1> QED BY <1>1, <1>2, TakeTypes, Keeps

\* A flush waits for rows that are queued.
LEMMA FlushKeeps ==
  ASSUME TranscriptInv, NEW f \in Flusher, NEW S, Flush(f, S)
  PROVE  TranscriptInv' /\ \A p \in Path : Still(p)
<1>1. ASSUME NEW p \in Path
      PROVE  Stands(p)' /\ Still(p) /\ Kept(p)' = Kept(p)
  BY FlushPath, StillKept DEF TranscriptInv, Stands
<1>2. known' = known
  BY DEF Flush
<1>3. Awaited'
  <2>1. ASSUME NEW g \in Flusher
        PROVE  flush'[g] \subseteq UNION {Kept(p) : p \in Path}
    <3>1. Queued \subseteq UNION {Kept(p) : p \in Path}
      BY DEF Queued, Kept
    <3>2. flush'[g] \subseteq Queued \/ flush'[g] = flush[g]
      BY DEF Flush, TranscriptInv, TranscriptTypeOK
    <3> QED BY <3>1, <3>2 DEF TranscriptInv, Awaited
  <2> QED BY <2>1, <1>1 DEF Awaited
<1>4. Reserved'
  BY <1>1, <1>2 DEF TranscriptInv, Reserved
<1> QED BY <1>1, <1>3, <1>4, FlushTypes DEF TranscriptInv

\* One transcript moves rows to disk, the others stand still.
LEMMA AppendKeeps ==
  ASSUME TranscriptInv, NEW q \in Path, AppendBatch(q)
  PROVE  TranscriptInv'
<1>1. ASSUME NEW p \in Path
      PROVE  Stands(p)' /\ Kept(p)' = Kept(p)
  <2>1. PICK k \in Nat : Standing(p, k)
    BY DEF TranscriptInv, Stands
  <2>2. CASE p = q
    <3>1. PICK n \in Nat : Writes(p, k, n) /\ Standing(p, k+n)'
      BY <2>1, <2>2, AppendPath
    <3>2. k+n \in Nat
      OBVIOUS
    <3> QED BY <2>1, <3>1, <3>2, WritesKept DEF Stands, Standing
  <2>3. CASE p # q
    BY <2>1, <2>3, AppendOther, StillKept DEF Stands
  <2> QED BY <2>2, <2>3
<1>2. known' = known /\ flush' = flush
  BY DEF AppendBatch
<1> QED BY <1>1, <1>2, AppendTypes, Keeps

\* Each transcript stands still or has been written.
LEMMA EndKeeps ==
  ASSUME TranscriptInv, EndBatch
  PROVE  TranscriptInv'
<1>1. ASSUME NEW p \in Path
      PROVE  Stands(p)' /\ Kept(p)' = Kept(p)
  <2>1. PICK k \in Nat : Standing(p, k)
    BY DEF TranscriptInv, Stands
  <2>2. CASE Still(p) /\ Standing(p, k)'
    BY <2>2, StillKept DEF Stands
  <2>3. CASE Settles(p, k) /\ Standing(p, 0)'
    <3>1. Shape(file[p], Queue(p), k)
      BY <2>1 DEF Standing
    <3> QED BY <2>3, <3>1, SettlesKept DEF Stands
  <2> QED BY <2>1, <2>2, <2>3, EndPath
<1>2. known' = known /\ flush' = flush
  BY DEF EndBatch
<1> QED BY <1>1, <1>2, EndTypes, Keeps

\* A flush that ends waits for nothing.
LEMMA FlushedKeeps ==
  ASSUME TranscriptInv, NEW f \in Flusher, Flushed(f)
  PROVE  TranscriptInv' /\ \A p \in Path : Still(p)
<1>1. UNCHANGED <<file, known, pending, inflight, failed, retry, todo, broken>>
  BY DEF Flushed, disk, writer, queues
<1>2. ASSUME NEW p \in Path
      PROVE  Stands(p)' /\ Still(p) /\ Kept(p)' = Kept(p)
  <2>1. Still(p)
    BY <1>1 DEF Still, Queue
  <2>2. PICK k \in Nat : Standing(p, k)
    BY DEF TranscriptInv, Stands
  <2>3. Standing(p, k)'
    BY <1>1, <2>1, <2>2 DEF Standing, Still
  <2> QED BY <2>1, <2>3, StillKept DEF Stands
<1>3. \A g \in Flusher : flush'[g] \subseteq flush[g]
  BY DEF Flushed, TranscriptInv, TranscriptTypeOK
<1> QED BY <1>1, <1>2, <1>3, FlushedTypes, Keeps

\* The next process knows the rows of the files, and nobody waits.
LEMMA CrashKeeps ==
  ASSUME TranscriptInv, Crash
  PROVE  TranscriptInv'
<1>1. ASSUME NEW p \in Path
      PROVE  Stands(p)' /\ Kept(p)' = ToSet(file[p])
  <2>1. Drops(p) /\ Standing(p, 0)'
    BY CrashPath
  <2>2. ToSet(<<>>) = {}
    BY DEF ToSet
  <2> QED BY <2>1, <2>2 DEF Stands, Drops, Kept
<1>2. Reserved'
  BY <1>1 DEF Crash, Reserved
<1>3. Awaited'
  BY DEF Crash, Awaited
<1> QED BY <1>1, <1>2, <1>3, CrashTypes DEF TranscriptInv

\* In the beginning there is nothing.
LEMMA TranscriptInitial == TranscriptInit => TranscriptInv
<1> SUFFICES ASSUME TranscriptInit PROVE TranscriptInv
  OBVIOUS
<1>1. ASSUME NEW p \in Path
      PROVE  file[p] = <<>> /\ Queue(p) = <<>> /\ failed[p] = <<>> /\ inflight[p] = <<>>
  BY DEF TranscriptInit, Nothing, Queue
<1>2. TranscriptTypeOK
  <2>1. Nothing \in [Path -> Seq(Row)] /\ \A p \in Path : Nothing[p] \in Seq(RowsOf(p))
    BY DEF Nothing
  <2>2. faults \in 0..MaxFaults
    BY FaultAssumption DEF TranscriptInit
  <2> QED BY <2>1, <2>2 DEF TranscriptInit, TranscriptTypeOK
<1>3. ASSUME NEW p \in Path
      PROVE  Stands(p) /\ Kept(p) = {}
  <2>1. <<>> \in Seq(Row) /\ Once(<<>>)
    BY DEF Once
  <2>2. Shape(<<>>, <<>>, 0)
    BY <2>1, DroppedShape
  <2>3. Standing(p, 0)
    BY <1>1, <2>2 DEF Standing, TranscriptInit
  <2>4. ToSet(<<>>) = {}
    BY DEF ToSet
  <2> QED BY <1>1, <2>3, <2>4 DEF Stands, Kept
<1>4. Reserved /\ Awaited
  BY <1>3 DEF TranscriptInit, Reserved, Awaited
<1> QED BY <1>2, <1>3, <1>4 DEF TranscriptInv

\* And every operation keeps it.
LEMMA TranscriptStep == TranscriptInv /\ [TranscriptNext]_transcriptVars => TranscriptInv'
<1> SUFFICES ASSUME TranscriptInv, [TranscriptNext]_transcriptVars
             PROVE  TranscriptInv'
  OBVIOUS
<1>1. ASSUME NEW r \in Row, Record(r)
      PROVE  TranscriptInv'
  BY <1>1, RecordKeeps
<1>2. CASE TakeBatch
  BY <1>2, TakeKeeps
<1>3. ASSUME NEW p \in Path, AppendBatch(p)
      PROVE  TranscriptInv'
  BY <1>3, AppendKeeps
<1>4. CASE EndBatch
  BY <1>4, EndKeeps
<1>5. ASSUME NEW f \in Flusher, Flushed(f)
      PROVE  TranscriptInv'
  BY <1>5, FlushedKeeps
<1>6. ASSUME NEW f \in Flusher, NEW S, Flush(f, S)
      PROVE  TranscriptInv'
  BY <1>6, FlushKeeps
<1>7. CASE Crash
  BY <1>7, CrashKeeps
<1>8. CASE UNCHANGED transcriptVars
  <2>1. UNCHANGED <<file, torn, known, pending, inflight, failed, retry, todo, broken, flush,
                    certified, faults>>
    BY <1>8 DEF transcriptVars
  <2>2. ASSUME NEW p \in Path
        PROVE  Stands(p)' /\ Kept(p)' = Kept(p)
    <3>1. Still(p)
      BY <2>1 DEF Still, Queue
    <3>2. PICK k \in Nat : Standing(p, k)
      BY DEF TranscriptInv, Stands
    <3>3. Standing(p, k)'
      BY <2>1, <3>1, <3>2 DEF Standing, Still
    <3> QED BY <3>1, <3>3, StillKept DEF Stands
  <2>3. TranscriptTypeOK'
    BY <2>1 DEF TranscriptInv, TranscriptTypeOK, RowsOf
  <2> QED BY <2>1, <2>2, <2>3, Keeps
<1> QED BY <1>1, <1>2, <1>3, <1>4, <1>5, <1>6, <1>7, <1>8 DEF TranscriptNext

\* The invariant of the transcripts.
THEOREM TranscriptInvariant == TranscriptSpec => []TranscriptInv
BY TranscriptInitial, TranscriptStep, PTL DEF TranscriptSpec

\* The transcripts and the queues hold rows, each those of its own transcript;
\* so a batch is split by transcript and no row is written to another's file.
THEOREM TranscriptTypeCorrect == TranscriptSpec => []TranscriptTypeOK
<1>1. TranscriptInv => TranscriptTypeOK
  BY DEF TranscriptInv
<1> QED BY <1>1, TranscriptInvariant, PTL

-----------------------------------------------------------------------------
\* The promise of the log.

\* What the log sees of a transcript.
Acc(p)  == Told(file[p], Queue(p))
Size(p) == Len(file[p])
Sizes   == [p \in Path |-> Len(file[p])]

LogKept == [Log!LogNext]_(Log!logVars)

\* The refinement mapping in these terms.
LEMMA AcceptedIs == Accepted = [p \in Path |-> Acc(p)]
BY DEF Accepted, Acc, Told

\* Nothing of a step can be seen.
LEMMA AsStutter ==
  ASSUME \A p \in Path : Acc(p)' = Acc(p) /\ Size(p)' = Size(p), certified' = certified
  PROVE  LogKept
<1>1. Accepted' = Accepted
  BY DEF Accepted, Acc, Told
<1>2. Sizes' = Sizes
  BY DEF Sizes, Size
<1> QED BY <1>1, <1>2 DEF LogKept, Log!logVars, Sizes

\* A row is accepted.
LEMMA AsAccept ==
  ASSUME NEW p \in Path, NEW r \in Row, r \notin ToSet(Acc(p)), Acc(p)' = Append(Acc(p), r),
         \A q \in Path : q # p => Acc(q)' = Acc(q),
         \A q \in Path : Size(q)' = Size(q), certified' = certified
  PROVE  LogKept
<1>1. Accepted' = [Accepted EXCEPT ![p] = Append(@, r)]
  BY DEF Accepted, Acc, Told
<1>2. Sizes' = Sizes
  BY DEF Sizes, Size
<1>3. r \notin Log!ToSet(Accepted[p])
  BY AcceptedIs DEF Log!ToSet, ToSet
<1>4. Log!Accept(p, r)
  BY <1>1, <1>2, <1>3 DEF Log!Accept, Sizes
<1> QED BY <1>4 DEF LogKept, Log!LogNext

\* Accepted rows are written.
LEMMA AsWrite ==
  ASSUME NEW p \in Path, Size(p)' \in Size(p)..Len(Acc(p)),
         \A q \in Path : Acc(q)' = Acc(q),
         \A q \in Path : q # p => Size(q)' = Size(q), certified' = certified
  PROVE  LogKept
<1>1. Accepted' = Accepted
  BY DEF Accepted, Acc, Told
<1>2. Sizes' = [Sizes EXCEPT ![p] = Size(p)']
  BY DEF Sizes, Size
<1>3. Size(p)' \in Sizes[p]..Len(Accepted[p])
  BY AcceptedIs DEF Sizes, Size
<1>4. Log!Write(p)
  BY <1>1, <1>2, <1>3 DEF Log!Write, Sizes
<1> QED BY <1>4 DEF LogKept, Log!LogNext

\* Rows on disk are certified.
LEMMA AsCertify ==
  ASSUME NEW S, S \subseteq UNION {ToSet(file[p]) : p \in Path}, certified' = certified \cup S,
         \A p \in Path : FileFirst(file[p], Queue(p)),
         \A p \in Path : Acc(p)' = Acc(p) /\ Size(p)' = Size(p)
  PROVE  LogKept
<1>1. Accepted' = Accepted
  BY DEF Accepted, Acc, Told
<1>2. Sizes' = Sizes
  BY DEF Sizes, Size
<1>3. ASSUME NEW p \in Path
      PROVE  Log!OnDisk(p) = ToSet(file[p])
  <2>1. Log!OnDisk(p) = {Acc(p)[i] : i \in 1..Len(file[p])}
    BY AcceptedIs DEF Log!OnDisk
  <2>2. {Acc(p)[i] : i \in 1..Len(file[p])} = ToSet(file[p])
    BY DEF FileFirst, Acc
  <2> QED BY <2>1, <2>2
<1>4. S \in SUBSET UNION {Log!OnDisk(p) : p \in Path}
  BY <1>3
<1>5. Log!Certify
  BY <1>1, <1>2, <1>4 DEF Log!Certify, Sizes
<1> QED BY <1>5 DEF LogKept, Log!LogNext

\* A restart forgets what is not on disk.
LEMMA AsRestart ==
  ASSUME \A p \in Path : Acc(p)' = SubSeq(Acc(p), 1, Size(p)) /\ Size(p)' = Size(p),
         certified' = certified
  PROVE  LogKept
<1>1. Accepted' = [p \in Path |-> SubSeq(Accepted[p], 1, Sizes[p])]
  BY DEF Accepted, Acc, Told, Sizes, Size
<1>2. Sizes' = Sizes
  BY DEF Sizes, Size
<1>3. Log!Restart
  BY <1>1, <1>2 DEF Log!Restart, Sizes
<1> QED BY <1>3 DEF LogKept, Log!LogNext

\* What the log sees of what a step does to one transcript.
LEMMA SeenStill ==
  ASSUME NEW p, Still(p)
  PROVE  Acc(p)' = Acc(p) /\ Size(p)' = Size(p)
BY DEF Still, Acc, Size

\* Rows that leave the queue written were seen as written before.
LEMMA SeenSettles ==
  ASSUME NEW p, NEW k, Shape(file[p], Queue(p), k), Settles(p, k)
  PROVE  Acc(p)' = Acc(p) /\ Size(p)' = Size(p)
<1> DEFINE P == Queue(p)'
<1>1. P = SubSeq(Queue(p), k+1, Len(Queue(p))) /\ file'[p] = file[p]
  BY DEF Settles
<1> HIDE DEF P
<1>2. SameTold(file[p], Queue(p), file[p], P)
  BY <1>1, SettledShape
<1> QED BY <1>1, <1>2 DEF SameTold, Acc, Size, P

\* Rows that are written were accepted before.
LEMMA SeenWrites ==
  ASSUME NEW p, NEW k, NEW n, Shape(file[p], Queue(p), k), Writes(p, k, n)
  PROVE  Acc(p)' = Acc(p) /\ Size(p)' \in Size(p)..Len(Acc(p))
<1>1. Moved(file[p], Queue(p), k, n, file'[p]) /\ Queue(p)' = Queue(p)
  BY DEF Writes
<1>2. SameTold(file[p], Queue(p), file'[p], Queue(p))
  BY <1>1, MovedTold
<1>3. Len(file'[p]) = Len(file[p]) + n
  BY <1>1, MovedShape
<1>4. Len(Acc(p)) = Len(file[p]) + (Len(Queue(p)) - k)
  BY ToldParts DEF Acc
<1>5. /\ n \in Nat /\ k+n <= Len(Queue(p)) /\ k \in Nat
      /\ Len(Queue(p)) \in Nat /\ Len(file[p]) \in Nat
  BY <1>1 DEF Moved, Shape, FrontIn
<1>6. Len(file'[p]) \in Len(file[p])..Len(Acc(p))
  BY <1>3, <1>4, <1>5
<1> QED BY <1>1, <1>2, <1>6 DEF SameTold, Acc, Size

\* Every operation is a step of the log, or cannot be seen in it.
LEMMA LogStep ==
  ASSUME TranscriptInv, [TranscriptNext]_transcriptVars
  PROVE  LogKept
<1>1. ASSUME NEW p \in Path
      PROVE  \E k \in Nat : Standing(p, k) /\ Shape(file[p], Queue(p), k)
  BY DEF TranscriptInv, Stands, Standing
<1>2. ASSUME NEW r \in Row, Record(r)
      PROVE  LogKept
  <2> DEFINE p == Of[r]
  <2>1. p \in Path /\ certified' = certified
    BY <1>2, OfAssumption DEF Record
  <2>2. ASSUME NEW q \in Path, q # p \/ r \in known
        PROVE  Acc(q)' = Acc(q) /\ Size(q)' = Size(q)
    BY <1>1, <1>2, <2>2, RecordPath, SeenStill
  <2>3. CASE r \in known
    BY <2>1, <2>2, <2>3, AsStutter
  <2>4. CASE r \notin known
    <3>1. PICK k \in Nat : Standing(p, k) /\ Shape(file[p], Queue(p), k)
      BY <1>1, <2>1
    <3>2. Joins(p, r)
      BY <1>2, <2>1, <2>4, <3>1, RecordPath
    <3>3. r \notin ToSet(file[p]) /\ r \notin ToSet(Queue(p))
      BY <2>1, <2>4 DEF TranscriptInv, Reserved, Kept
    <3> HIDE DEF p
    <3>4. Grows(file[p], Queue(p), r) /\ r \notin ToSet(Told(file[p], Queue(p)))
      BY <3>1, <3>3, GrownShape
    <3>5. Acc(p)' = Append(Acc(p), r) /\ Size(p)' = Size(p) /\ r \notin ToSet(Acc(p))
      BY <3>2, <3>4 DEF Joins, Grows, Acc, Size
    <3> QED BY <2>1, <2>2, <3>5, AsAccept
  <2> QED BY <2>3, <2>4
<1>3. ASSUME TakeBatch \/ \E f \in Flusher : \E S \in {Path} \cup {{p} : p \in Path} : Flush(f, S)
      PROVE  LogKept
  <2>1. \A p \in Path : Still(p)
    BY <1>3, TakeKeeps, FlushKeeps
  <2>2. certified' = certified
    BY <1>3 DEF TakeBatch, Flush
  <2> QED BY <2>1, <2>2, SeenStill, AsStutter
<1>4. ASSUME NEW p \in Path, AppendBatch(p)
      PROVE  LogKept
  <2>1. PICK k \in Nat : Standing(p, k) /\ Shape(file[p], Queue(p), k)
    BY <1>1
  <2>2. PICK n \in Nat : Writes(p, k, n)
    BY <1>4, <2>1, AppendPath
  <2>3. Acc(p)' = Acc(p) /\ Size(p)' \in Size(p)..Len(Acc(p))
    BY <2>1, <2>2, SeenWrites
  <2>4. \A q \in Path : q # p => Acc(q)' = Acc(q) /\ Size(q)' = Size(q)
    BY <1>1, <1>4, AppendOther, SeenStill
  <2>5. certified' = certified
    BY <1>4 DEF AppendBatch
  <2> QED BY <2>3, <2>4, <2>5, AsWrite
<1>5. CASE EndBatch
  <2>1. ASSUME NEW p \in Path
        PROVE  Acc(p)' = Acc(p) /\ Size(p)' = Size(p)
    BY <1>1, <1>5, EndPath, SeenStill, SeenSettles
  <2>2. certified' = certified
    BY <1>5 DEF EndBatch
  <2> QED BY <2>1, <2>2, AsStutter
<1>6. ASSUME NEW f \in Flusher, Flushed(f)
      PROVE  LogKept
  <2>1. \A p \in Path : Acc(p)' = Acc(p) /\ Size(p)' = Size(p)
    BY <1>6, FlushedKeeps, SeenStill
  <2>2. CASE certified' = certified
    BY <2>1, <2>2, AsStutter
  <2>3. CASE flush[f] \cap Queued = {} /\ certified' = certified \cup flush[f]
    <3>1. flush[f] \subseteq UNION {ToSet(file[p]) : p \in Path}
      BY <2>3 DEF TranscriptInv, Awaited, Kept, Queued
    <3>2. \A p \in Path : FileFirst(file[p], Queue(p))
      BY <1>1, FileIsFirst
    <3> QED BY <2>1, <2>3, <3>1, <3>2, AsCertify
  <2> QED BY <1>6, <2>2, <2>3 DEF Flushed
<1>7. CASE Crash
  <2>1. ASSUME NEW p \in Path
        PROVE  Acc(p)' = SubSeq(Acc(p), 1, Size(p)) /\ Size(p)' = Size(p)
    <3>1. Drops(p)
      BY <1>7, CrashPath
    <3>2. PICK k \in Nat : Shape(file[p], Queue(p), k)
      BY <1>1
    <3>3. file[p] \in Seq(Row) /\ Once(file[p]) /\ FileFirst(file[p], Queue(p))
      BY <3>2, FileIsFirst DEF Shape
    <3>4. Told(file[p], <<>>) = file[p]
      BY <3>3, DroppedShape
    <3> QED BY <3>1, <3>3, <3>4 DEF Drops, FileFirst, Acc, Size
  <2>2. certified' = certified
    BY <1>7 DEF Crash
  <2> QED BY <2>1, <2>2, AsRestart
<1>8. CASE UNCHANGED transcriptVars
  <2>1. \A p \in Path : Still(p)
    BY <1>8 DEF transcriptVars, Still, Queue
  <2>2. certified' = certified
    BY <1>8 DEF transcriptVars
  <2> QED BY <2>1, <2>2, SeenStill, AsStutter
<1> QED BY <1>2, <1>3, <1>4, <1>5, <1>6, <1>7, <1>8 DEF TranscriptNext

\* The queue keeps the promise of the log (TranscriptLog): the accepted rows of a
\* transcript are written in their order and once, a flush certifies only rows on
\* disk, and only a restart forgets, and only rows that are not on disk -- through
\* appends that fail half way, their retries and a death at any moment.
THEOREM TranscriptKeepsLog == TranscriptSpec => KeepsLog
<1>1. TranscriptInit => Log!LogInit
  <2> SUFFICES ASSUME TranscriptInit PROVE Log!LogInit
    OBVIOUS
  <2>1. \A p \in Path : file[p] = <<>> /\ Queue(p) = <<>> /\ Len(file[p]) = 0
    BY DEF TranscriptInit, Nothing, Queue
  <2>2. Told(<<>>, <<>>) = <<>>
    <3>1. <<>> \in Seq(Row) /\ Once(<<>>)
      BY DEF Once
    <3> QED BY <3>1, DroppedShape
  <2>3. Accepted = [p \in Path |-> <<>>]
    BY <2>1, <2>2, AcceptedIs DEF Acc
  <2>4. Sizes = [p \in Path |-> 0]
    BY <2>1 DEF Sizes
  <2> QED BY <2>3, <2>4 DEF Log!LogInit, Sizes, TranscriptInit
<1>2. TranscriptInv /\ [TranscriptNext]_transcriptVars => [Log!LogNext]_(Log!logVars)
  BY LogStep DEF LogKept
<1> QED  BY <1>1, <1>2, TranscriptInvariant, PTL DEF TranscriptSpec, KeepsLog, Log!LogSpec
=============================================================================
