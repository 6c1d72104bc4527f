------------------------------ MODULE AudioProofs ------------------------------
(***************************************************************************)
(* Theorems about AudioPlayer, for every recording, buffer size and number *)
(* of requests.                                                            *)
(***************************************************************************)
EXTENDS AudioPlayer, NaturalsInduction, WellFoundedInduction, FiniteSetTheorems,
        SequenceTheorems, TLAPS

(***************************************************************************)
(* Induction, over sets instead of formulas: the order of the natural      *)
(* numbers is well founded.                                                *)
(***************************************************************************)
LEMMA LeastNat ==
  ASSUME NEW T, T \subseteq Nat, T # {}
  PROVE  \E x \in T : \A y \in T : x <= y
<1> DEFINE R == OpToRel(<, Nat)
<1>1. R = {ss \in Nat \X Nat : ss[1] < ss[2]}  BY Zenon DEF OpToRel
<1>2. IsWellFoundedOn(R, Nat)  BY Zenon, NatLessThanWellFounded
<1> HIDE DEF R
<1>3. PICK x \in T : \A y \in T : ~(<<y, x>> \in R)  BY <1>2, WFMin
<1>4. \A y \in T : ~(y < x)  BY <1>1, <1>3
<1> QED  BY <1>3, <1>4

LEMMA Induction ==
  ASSUME NEW T, 0 \in T, \A n \in Nat : n \in T => n + 1 \in T
  PROVE  Nat \subseteq T
<1> SUFFICES ASSUME ~(Nat \subseteq T) PROVE FALSE  OBVIOUS
<1> DEFINE U == Nat \ T
<1>1. U # {} /\ U \subseteq Nat  OBVIOUS
<1>2. PICK x \in U : \A y \in U : x <= y
  <2> HIDE DEF U
  <2> QED  BY <1>1, LeastNat
<1>3. x # 0 /\ x - 1 \in Nat /\ x - 1 \in T  BY <1>2
<1> QED  BY <1>2, <1>3

(***************************************************************************)
(* FlattenSeq                                                              *)
(***************************************************************************)
\* f holds what the first n sequences of q are, one after the other.
Joins(f, q, n) == f = [i \in 1..n |-> IF i = 1 THEN q[i] ELSE f[i - 1] \o q[i]]

LEMMA JoinsAt ==
  ASSUME NEW f, NEW q, NEW n, Joins(f, q, n), NEW i \in 1..n
  PROVE  f[i] = IF i = 1 THEN q[i] ELSE f[i - 1] \o q[i]
<1>1. f[i] = [j \in 1..n |-> IF j = 1 THEN q[j] ELSE f[j - 1] \o q[j]][i]  BY Zenon DEF Joins
<1> QED  BY <1>1, Zenon

LEMMA JoinsExists ==
  ASSUME NEW q \in Seq(Seq(Nat))
  PROVE  \E f : Joins(f, q, Len(q))
<1> DEFINE T == {n \in Nat : n <= Len(q) => \E f : Joins(f, q, n)}
<1>1. 0 \in T
  <2>1. Joins([i \in 1..0 |-> q[i]], q, 0)  BY DEF Joins
  <2> QED  BY <2>1
<1>2. ASSUME NEW n \in Nat, n \in T  PROVE n + 1 \in T
  <2> SUFFICES ASSUME n + 1 <= Len(q)  PROVE \E f : Joins(f, q, n + 1)  OBVIOUS
  <2>1. PICK f : Joins(f, q, n)  BY <1>2
  <2> DEFINE g == [i \in 1..n + 1 |-> IF i = n + 1 THEN IF i = 1 THEN q[i] ELSE f[i - 1] \o q[i] ELSE f[i]]
  <2>2. \A i \in 1..n : g[i] = f[i]  OBVIOUS
  <2>3. \A i \in 1..n + 1 : g[i] = IF i = 1 THEN q[i] ELSE g[i - 1] \o q[i]
    <3> SUFFICES ASSUME NEW i \in 1..n + 1  PROVE g[i] = IF i = 1 THEN q[i] ELSE g[i - 1] \o q[i]
      OBVIOUS
    <3>1. CASE i = n + 1
      <4>1. i # 1 => i - 1 \in 1..n  BY <3>1
      <4> QED  BY <3>1, <4>1, <2>2
    <3>2. CASE i \in 1..n
      <4>1. i # 1 => i - 1 \in 1..n  BY <3>2
      <4>2. f[i] = IF i = 1 THEN q[i] ELSE f[i - 1] \o q[i]  BY <2>1, <3>2 DEF Joins
      <4> HIDE DEF g
      <4> QED  BY <3>2, <4>1, <4>2, <2>2
    <3> QED  BY <3>1, <3>2
  <2>4. g = [i \in 1..n + 1 |-> g[i]]  OBVIOUS
  <2> HIDE DEF g
  <2>5. Joins(g, q, n + 1)  BY <2>3, <2>4, Zenon DEF Joins
  <2> QED  BY <2>5
<1> HIDE DEF T
<1>3. Nat \subseteq T  BY <1>1, <1>2, Induction
<1>4. Len(q) \in T  BY <1>3
<1> QED  BY <1>4 DEF T

LEMMA JoinsType ==
  ASSUME NEW q \in Seq(Seq(Nat)), NEW f, Joins(f, q, Len(q))
  PROVE  \A i \in 1..Len(q) : f[i] \in Seq(Nat)
<1> DEFINE T == {n \in Nat : n \in 1..Len(q) => f[n] \in Seq(Nat)}
<1>1. 0 \in T  OBVIOUS
<1>2. ASSUME NEW n \in Nat, n \in T  PROVE n + 1 \in T
  <2> SUFFICES ASSUME n + 1 \in 1..Len(q)  PROVE f[n + 1] \in Seq(Nat)  OBVIOUS
  <2>1. f[n + 1] = IF n + 1 = 1 THEN q[n + 1] ELSE f[n] \o q[n + 1]  BY JoinsAt
  <2>2. q[n + 1] \in Seq(Nat)  BY ElementOfSeq
  <2> QED  BY <2>1, <2>2, <1>2
<1> HIDE DEF T
<1>3. Nat \subseteq T  BY <1>1, <1>2, Induction
<1> QED  BY <1>3 DEF T

\* Two sequences that begin alike are joined alike so far.
LEMMA JoinsUnique ==
  ASSUME NEW m \in Nat, NEW n \in Nat, m <= n, NEW p, NEW q, \A i \in 1..m : p[i] = q[i],
         NEW f, Joins(f, p, m), NEW g, Joins(g, q, n)
  PROVE  \A i \in 1..m : f[i] = g[i]
<1> DEFINE T == {k \in Nat : k \in 1..m => f[k] = g[k]}
<1>1. 0 \in T  OBVIOUS
<1>2. ASSUME NEW k \in Nat, k \in T  PROVE k + 1 \in T
  <2> SUFFICES ASSUME k + 1 \in 1..m  PROVE f[k + 1] = g[k + 1]  OBVIOUS
  <2>1. f[k + 1] = IF k + 1 = 1 THEN p[k + 1] ELSE f[k] \o p[k + 1]
    <3>1. k + 1 \in 1..m /\ k + 1 - 1 = k  OBVIOUS
    <3> QED  BY <3>1, JoinsAt
  <2>2. g[k + 1] = IF k + 1 = 1 THEN q[k + 1] ELSE g[k] \o q[k + 1]
    <3>1. k + 1 \in 1..n /\ k + 1 - 1 = k  OBVIOUS
    <3> QED  BY <3>1, JoinsAt
  <2>3. p[k + 1] = q[k + 1]  OBVIOUS
  <2>4. k + 1 # 1 => f[k] = g[k]  BY <1>2
  <2> QED  BY <2>1, <2>2, <2>3, <2>4
<1> HIDE DEF T
<1>3. Nat \subseteq T  BY <1>1, <1>2, Induction
<1> QED  BY <1>3 DEF T

LEMMA JoinAssociative ==
  \A s, t, u \in Seq(Nat) : (s \o t) \o u = s \o (t \o u)
<1> TAKE s \in Seq(Nat), t \in Seq(Nat), u \in Seq(Nat)
<1> QED  OBVIOUS

LEMMA JoinsAgree ==
  ASSUME NEW n \in Nat
  PROVE  \A p, q, f, g : Joins(f, p, n) /\ Joins(g, q, n + 1) /\ (\A i \in 1..n : p[i] = q[i])
           => \A i \in 1..n : f[i] = g[i]
<1> SUFFICES ASSUME NEW p, NEW q, NEW f, NEW g, Joins(f, p, n), Joins(g, q, n + 1),
                    \A i \in 1..n : p[i] = q[i]
             PROVE  \A i \in 1..n : f[i] = g[i]
  OBVIOUS
<1>1. n + 1 \in Nat /\ n <= n + 1  OBVIOUS
<1> QED  BY <1>1, JoinsUnique

LEMMA FlattenIs ==
  ASSUME NEW q \in Seq(Seq(Nat))
  PROVE  /\ FlattenSeq(<<>>) = <<>>
         /\ q # <<>> => \E f : Joins(f, q, Len(q)) /\ FlattenSeq(q) = f[Len(q)]
         /\ FlattenSeq(q) \in Seq(Nat)
<1>1. FlattenSeq(<<>>) = <<>>  BY DEF FlattenSeq
<1>2. ASSUME q # <<>>  PROVE \E f : Joins(f, q, Len(q)) /\ FlattenSeq(q) = f[Len(q)]
  <2> DEFINE f == CHOOSE f : Joins(f, q, Len(q))
  <2>1. Joins(f, q, Len(q))  BY JoinsExists, Zenon
  <2>2. FlattenSeq(q) = f[Len(q)]  BY <1>2, EmptySeq, Zenon DEF FlattenSeq, Joins
  <2> QED  BY <2>1, <2>2
<1>3. FlattenSeq(q) \in Seq(Nat)
  <2>1. CASE q = <<>>
    <3>1. <<>> \in Seq(Nat)  OBVIOUS
    <3> QED  BY <1>1, <2>1, <3>1
  <2>2. CASE q # <<>>
    <3>1. PICK f : Joins(f, q, Len(q)) /\ FlattenSeq(q) = f[Len(q)]  BY <1>2, <2>2
    <3>2. Len(q) \in 1..Len(q)  BY <2>2
    <3> QED  BY <3>1, <3>2, JoinsType
  <2> QED  BY <2>1, <2>2
<1> QED  BY <1>1, <1>2, <1>3

LEMMA FlattenAppend ==
  ASSUME NEW q \in Seq(Seq(Nat)), NEW x \in Seq(Nat)
  PROVE  FlattenSeq(Append(q, x)) = FlattenSeq(q) \o x
<1> DEFINE r == Append(q, x)
           n == Len(q)
<1>0. /\ r \in Seq(Seq(Nat)) /\ Len(r) = n + 1 /\ r # <<>> /\ r[n + 1] = x
      /\ \A i \in 1..n : r[i] = q[i]
      /\ n \in Nat
  BY AppendProperties, LenProperties
<1> HIDE DEF r
<1>1. PICK g : Joins(g, r, n + 1) /\ FlattenSeq(r) = g[n + 1]  BY <1>0, FlattenIs
<1>2. g[n + 1] = IF n + 1 = 1 THEN r[n + 1] ELSE g[n] \o r[n + 1]
  <2>1. n + 1 \in 1..n + 1 /\ n + 1 - 1 = n  BY <1>0
  <2> QED  BY <1>1, <2>1, JoinsAt
<1>3. CASE q = <<>>
  <2>1. n = 0 /\ FlattenSeq(q) = <<>>  BY <1>3, FlattenIs
  <2>2. FlattenSeq(r) = x  BY <1>0, <1>1, <1>2, <2>1
  <2> QED  BY <2>1, <2>2, ConcatEmptySeq DEF r
<1>4. CASE q # <<>>
  <2>1. PICK f : Joins(f, q, n) /\ FlattenSeq(q) = f[n]  BY <1>4, FlattenIs
  <2>2. n \in 1..n  BY <1>4
  <2>3. n \in Nat  BY <1>0
  <2>4. \A i \in 1..n : q[i] = r[i]  BY <1>0
  <2>5. \A i \in 1..n : f[i] = g[i]
    <3> HIDE DEF n
    <3>1. Joins(f, q, n) /\ Joins(g, r, n + 1)  BY <1>1, <2>1, Zenon
    <3> QED  BY <2>3, <2>4, <3>1, JoinsAgree
  <2>6. f[n] = g[n]  BY <2>2, <2>5
  <2> QED  BY <1>0, <1>1, <1>2, <2>1, <2>2, <2>6 DEF r
<1> QED  BY <1>3, <1>4

LEMMA AppendAssociative ==
  ASSUME NEW p \in Seq(Seq(Nat)), NEW s \in Seq(Seq(Nat)), NEW x \in Seq(Nat)
  PROVE  p \o Append(s, x) = Append(p \o s, x) /\ p \o s \in Seq(Seq(Nat))
OBVIOUS

LEMMA FlattenConcat ==
  ASSUME NEW p \in Seq(Seq(Nat)), NEW q \in Seq(Seq(Nat))
  PROVE  FlattenSeq(p \o q) = FlattenSeq(p) \o FlattenSeq(q)
<1> DEFINE T == {n \in Nat : \A r \in Seq(Seq(Nat)) :
                   Len(r) = n => FlattenSeq(p \o r) = FlattenSeq(p) \o FlattenSeq(r)}
<1>1. 0 \in T
  <2> SUFFICES ASSUME NEW r \in Seq(Seq(Nat)), Len(r) = 0
               PROVE  FlattenSeq(p \o r) = FlattenSeq(p) \o FlattenSeq(r)
    OBVIOUS
  <2>1. r = <<>> /\ p \o r = p  BY EmptySeq, ConcatEmptySeq
  <2> QED  BY <2>1, FlattenIs, ConcatEmptySeq
<1>2. ASSUME NEW n \in Nat, n \in T  PROVE n + 1 \in T
  <2> SUFFICES ASSUME NEW r \in Seq(Seq(Nat)), Len(r) = n + 1
               PROVE  FlattenSeq(p \o r) = FlattenSeq(p) \o FlattenSeq(r)
    OBVIOUS
  <2> DEFINE s == SubSeq(r, 1, n)
             x == r[n + 1]
  <2>1. s \in Seq(Seq(Nat)) /\ Len(s) = n /\ x \in Seq(Nat)  OBVIOUS
  <2>2. r = Append(s, x)  OBVIOUS
  <2>3. p \o r = Append(p \o s, x) /\ p \o s \in Seq(Seq(Nat))
    <3> HIDE DEF s, x
    <3> QED  BY <2>1, <2>2, AppendAssociative
  <2>4. FlattenSeq(p \o s) = FlattenSeq(p) \o FlattenSeq(s)  BY <1>2, <2>1
  <2>5. FlattenSeq(r) = FlattenSeq(s) \o x
    <3> HIDE DEF s, x
    <3> QED BY <2>1, <2>2, FlattenAppend
  <2>6. FlattenSeq(p \o r) = FlattenSeq(p \o s) \o x
    <3> HIDE DEF s, x
    <3> QED BY <2>1, <2>3, FlattenAppend
  <2>7. FlattenSeq(p) \in Seq(Nat) /\ FlattenSeq(s) \in Seq(Nat)
    <3> HIDE DEF s, x
    <3> QED BY <2>1, FlattenIs
  <2> HIDE DEF s, x
  <2>8. (FlattenSeq(p) \o FlattenSeq(s)) \o x = FlattenSeq(p) \o (FlattenSeq(s) \o x)
    <3>1. x \in Seq(Nat)  BY <2>1
    <3> QED  BY <2>7, <3>1, JoinAssociative, Zenon
  <2> QED  BY <2>4, <2>5, <2>6, <2>8, Zenon
<1> HIDE DEF T
<1>3. Nat \subseteq T  BY <1>1, <1>2, Induction
<1>4. Len(q) \in T  BY <1>3
<1> QED  BY <1>4 DEF T

(***************************************************************************)
(* The decoder                                                             *)
(***************************************************************************)
N == Len(Packets)
AllFrames == Frames(1, N)
Pending(d) == d.leftover \o Frames(d.next, N)

LEMMA PacketsType ==
  ASSUME recording \in Recordings
  PROVE  /\ Packets \in Seq([outcome : Outcomes, frames : Seq(Nat)])
         /\ N \in Nat
         /\ \A k \in 1..N : Packets[k].outcome \in Outcomes /\ FramesOf(Packets[k]) \in Seq(Nat)
<1>1. Packets \in Seq([outcome : Outcomes, frames : Seq(Nat)]) /\ N \in Nat
  BY AudioAssumption, LenProperties DEF Packets, N
<1>2. \A k \in 1..N : Packets[k] \in [outcome : Outcomes, frames : Seq(Nat)]
  BY <1>1, ElementOfSeq DEF N
<1> QED  BY <1>1, <1>2 DEF FramesOf

Span(i, j) == [k \in 1..j - i + 1 |-> FramesOf(Packets[i - 1 + k])]

LEMMA SpanType ==
  ASSUME recording \in Recordings, NEW i \in 1..N + 1, NEW j \in i - 1..N
  PROVE  /\ Span(i, j) \in Seq(Seq(Nat)) /\ Len(Span(i, j)) = j - i + 1
         /\ Frames(i, j) = FlattenSeq(Span(i, j)) /\ Frames(i, j) \in Seq(Nat)
<1>1. N \in Nat /\ j - i + 1 \in Nat  BY PacketsType
<1>2. \A k \in 1..j - i + 1 : FramesOf(Packets[i - 1 + k]) \in Seq(Nat)
  <2> TAKE k \in 1..j - i + 1
  <2>1. i - 1 + k \in 1..N  BY <1>1
  <2> QED  BY <2>1, PacketsType
<1>3. Span(i, j) \in [1..j - i + 1 -> Seq(Nat)]  BY <1>2 DEF Span
<1>4. Span(i, j) \in Seq(Seq(Nat)) /\ Len(Span(i, j)) = j - i + 1
  <2> DEFINE m == j - i + 1
  <2>1. m \in Nat /\ Span(i, j) \in [1..m -> Seq(Nat)]  BY <1>1, <1>3
  <2> HIDE DEF m
  <2>2. Span(i, j) \in Seq(Seq(Nat)) /\ Len(Span(i, j)) = m  BY <2>1, SeqDef, LenProperties
  <2> QED  BY <2>2 DEF m
<1>5. Frames(i, j) = FlattenSeq(Span(i, j))  BY DEF Frames, Span
<1> QED  BY <1>4, <1>5, FlattenIs

LEMMA FramesNone ==
  ASSUME recording \in Recordings, NEW i \in 1..N + 1
  PROVE  Frames(i, i - 1) = <<>>
<1>1. i - 1 \in i - 1..N /\ N \in Nat  BY PacketsType
<1>2. Span(i, i - 1) = <<>>  BY <1>1, SpanType, EmptySeq
<1> QED  BY <1>1, <1>2, SpanType, FlattenIs

LEMMA FramesSplit ==
  ASSUME recording \in Recordings, NEW i \in 1..N + 1, NEW j \in i - 1..N, NEW k \in j..N
  PROVE  Frames(i, k) = Frames(i, j) \o Frames(j + 1, k)
<1>0. N \in Nat /\ j + 1 \in 1..N + 1 /\ k \in j + 1 - 1..N /\ k \in i - 1..N  BY PacketsType
<1>1. /\ Span(i, j) \in Seq(Seq(Nat)) /\ Len(Span(i, j)) = j - i + 1
      /\ Span(j + 1, k) \in Seq(Seq(Nat)) /\ Len(Span(j + 1, k)) = k - j
      /\ Span(i, k) \in Seq(Seq(Nat)) /\ Len(Span(i, k)) = k - i + 1
      /\ Frames(i, j) = FlattenSeq(Span(i, j)) /\ Frames(i, k) = FlattenSeq(Span(i, k))
      /\ Frames(j + 1, k) = FlattenSeq(Span(j + 1, k))
  <2>1. /\ Span(i, j) \in Seq(Seq(Nat)) /\ Len(Span(i, j)) = j - i + 1
        /\ Frames(i, j) = FlattenSeq(Span(i, j))
    BY SpanType
  <2>2. /\ Span(i, k) \in Seq(Seq(Nat)) /\ Len(Span(i, k)) = k - i + 1
        /\ Frames(i, k) = FlattenSeq(Span(i, k))
    BY <1>0, SpanType
  <2> DEFINE h == j + 1
  <2>3. h \in 1..N + 1 /\ k \in h - 1..N /\ k - h + 1 = k - j  BY <1>0
  <2> HIDE DEF h
  <2>4. /\ Span(h, k) \in Seq(Seq(Nat)) /\ Len(Span(h, k)) = k - h + 1
        /\ Frames(h, k) = FlattenSeq(Span(h, k))
    BY <2>3, SpanType
  <2> QED  BY <2>1, <2>2, <2>3, <2>4 DEF h
<1>2. Span(i, k) = Span(i, j) \o Span(j + 1, k)
  <2> DEFINE s == Span(i, j)
             t == Span(j + 1, k)
             u == Span(i, k)
  <2>1. \A m \in 1..k - i + 1 : u[m] = FramesOf(Packets[i - 1 + m])  BY DEF Span
  <2>2. \A m \in 1..j - i + 1 : s[m] = FramesOf(Packets[i - 1 + m])  BY DEF Span
  <2>3. \A m \in 1..k - j : t[m] = FramesOf(Packets[j + m])
    <3> TAKE m \in 1..k - j
    <3>1. m \in 1..k - (j + 1) + 1 /\ j + 1 - 1 + m = j + m  BY <1>0
    <3>2. t[m] = FramesOf(Packets[j + 1 - 1 + m])  BY <3>1 DEF Span
    <3> QED  BY <3>1, <3>2
  <2> HIDE DEF s, t, u
  <2>4. /\ s \o t \in Seq(Seq(Nat)) /\ Len(s \o t) = k - i + 1
        /\ \A m \in 1..k - i + 1 : (s \o t)[m] = IF m <= Len(s) THEN s[m] ELSE t[m - Len(s)]
    <3>1. s \in Seq(Seq(Nat)) /\ t \in Seq(Seq(Nat)) /\ Len(s) + Len(t) = k - i + 1
      <4>1. /\ s \in Seq(Seq(Nat)) /\ t \in Seq(Seq(Nat))
            /\ Len(s) = j - i + 1 /\ Len(t) = k - j
        BY <1>1, Zenon DEF s, t
      <4> QED  BY <1>0, <4>1
    <3> QED  BY <3>1, ConcatProperties
  <2>5. \A m \in 1..k - i + 1 : u[m] = (s \o t)[m]
    <3> TAKE m \in 1..k - i + 1
    <3>1. CASE m <= j - i + 1
      <4>1. m \in 1..j - i + 1  BY <1>0, <3>1
      <4> QED  BY <1>1, <2>1, <2>2, <2>4, <3>1, <4>1 DEF s
    <3>2. CASE ~(m <= j - i + 1)
      <4>1. m - (j - i + 1) \in 1..k - j /\ j + (m - (j - i + 1)) = i - 1 + m  BY <1>0, <3>2
      <4>2. (s \o t)[m] = t[m - (j - i + 1)]  BY <1>1, <2>4, <3>2 DEF s
      <4> QED  BY <2>1, <2>3, <4>1, <4>2
    <3> QED  BY <3>1, <3>2
  <2>6. u = s \o t  BY <1>1, <2>4, <2>5, SeqEqual DEF u
  <2> QED  BY <2>6 DEF s, t, u
<1>3. FlattenSeq(Span(i, j) \o Span(j + 1, k)) = FlattenSeq(Span(i, j)) \o FlattenSeq(Span(j + 1, k))
  BY <1>1, FlattenConcat
<1> QED  BY <1>1, <1>2, <1>3

LEMMA StopsAtIs ==
  ASSUME recording \in Recordings, NEW i \in 1..N + 1
  PROVE  /\ StopsAt(i) \in i..N + 1
         /\ StopsAt(i) = N + 1 \/ Packets[StopsAt(i)].outcome \in {"fatal", "panic"}
<1> DEFINE U == {k \in i..N + 1 : k = N + 1 \/ Packets[k].outcome \in {"fatal", "panic"}}
<1>1. N \in Nat /\ U \subseteq Nat /\ N + 1 \in U  BY PacketsType
<1>2. PICK s \in U : \A k \in U : s <= k
  <2> HIDE DEF U
  <2> QED  BY <1>1, LeastNat
<1>3. \A k \in i..s - 1 : Packets[k].outcome \in {"decoded", "corrupt"}
  <2> TAKE k \in i..s - 1
  <2>1. k \in i..N + 1 /\ ~(s <= k)  BY <1>1
  <2>2. k \notin U  BY <1>2, <2>1
  <2>3. k \in 1..N /\ Packets[k].outcome \notin {"fatal", "panic"}  BY <1>1, <2>1, <2>2
  <2>4. Packets[k].outcome \in Outcomes  BY <2>3, PacketsType
  <2> QED  BY <2>3, <2>4 DEF Outcomes
<1>4. /\ s \in i..Len(Packets) + 1
      /\ s = Len(Packets) + 1 \/ Packets[s].outcome \in {"fatal", "panic"}
  BY DEF N
<1> HIDE DEF U
<1>5. \E x \in i..Len(Packets) + 1 :
        /\ x = Len(Packets) + 1 \/ Packets[x].outcome \in {"fatal", "panic"}
        /\ \A k \in i..x - 1 : Packets[k].outcome \in {"decoded", "corrupt"}
  BY <1>3, <1>4
<1> QED  BY <1>5, Zenon DEF StopsAt, N

Copied(d, j) == d.leftover \o Frames(d.next, j)

LEMMA CopiedIs ==
  ASSUME recording \in Recordings, NEW d \in Decoders, NEW j \in d.next - 1..N
  PROVE  /\ Copied(d, j) \in Seq(Nat)
         /\ j + 1 \in 1..N + 1
         /\ Pending(d) = Copied(d, j) \o Frames(j + 1, N)
<1>1. N \in Nat /\ d.next \in 1..N + 1 /\ d.leftover \in Seq(Nat)  BY PacketsType DEF Decoders, N
<1>2. j + 1 \in 1..N + 1 /\ N \in j..N /\ N \in j + 1 - 1..N /\ N \in d.next - 1..N  BY <1>1
<1>3. Frames(d.next, N) = Frames(d.next, j) \o Frames(j + 1, N)  BY <1>1, <1>2, FramesSplit
<1>4. Frames(d.next, j) \in Seq(Nat)  BY <1>1, SpanType
<1>5. Frames(j + 1, N) \in Seq(Nat)
  <2> DEFINE h == j + 1
  <2>1. h \in 1..N + 1 /\ N \in h - 1..N  BY <1>2
  <2> HIDE DEF h
  <2>2. Frames(h, N) \in Seq(Nat)  BY <2>1, SpanType
  <2> QED  BY <2>2 DEF h
<1>6. Copied(d, j) \in Seq(Nat)  BY <1>1, <1>4, ConcatProperties DEF Copied
<1>7. d.leftover \o (Frames(d.next, j) \o Frames(j + 1, N)) = (d.leftover \o Frames(d.next, j)) \o Frames(j + 1, N)
  BY <1>1, <1>4, <1>5, JoinAssociative, Zenon
<1> QED  BY <1>2, <1>3, <1>6, <1>7, Zenon DEF Pending, Copied

Enough(d) == {j \in d.next - 1..StopsAt(d.next) - 1 : Len(Copied(d, j)) >= Cap}

LEMMA EnoughIs ==
  ASSUME recording \in Recordings, NEW d \in Decoders
  PROVE  /\ StopsAt(d.next) \in d.next..N + 1
         /\ StopsAt(d.next) - 1 \in d.next - 1..N
         /\ Enough(d) \subseteq d.next - 1..N
         /\ Enough(d) # {} => \E j \in Enough(d) : \A i \in Enough(d) : j <= i
<1>1. N \in Nat /\ d.next \in 1..N + 1  BY PacketsType DEF Decoders, N
<1>2. StopsAt(d.next) \in d.next..N + 1  BY <1>1, StopsAtIs
<1>3. /\ Enough(d) \subseteq d.next - 1..N /\ Enough(d) \subseteq Nat
      /\ StopsAt(d.next) - 1 \in d.next - 1..N
  BY <1>1, <1>2 DEF Enough
<1> QED  BY <1>2, <1>3, LeastNat

LEMMA DecoderMoved ==
  ASSUME NEW d \in Decoders, NEW n, NEW l
  PROVE  [d EXCEPT !.next = n, !.leftover = l] = [open |-> d.open, next |-> n, leftover |-> l]
<1>1. d = [x \in {"open", "next", "leftover"} |-> d[x]]  BY DEF Decoders
<1>2. [d EXCEPT !.next = n, !.leftover = l]
        = [x \in {"open", "next", "leftover"} |-> IF x = "leftover" THEN l ELSE IF x = "next" THEN n ELSE d[x]]
  BY <1>1
<1> QED  BY <1>2

\* What is read comes from the front of what is to come, and is at most a
\* buffer; if nothing is read, something may have been lost there.
LEMMA ReadIs ==
  ASSUME recording \in Recordings, NEW d \in Decoders, NEW r, r = Read(d)
  PROVE  /\ r.dec \in Decoders /\ r.dec.open = d.open
         /\ r.out \in Seq(Nat) /\ Len(r.out) <= Cap
         /\ \/ Pending(d) = r.out \o Pending(r.dec)
            \/ r.out = <<>> /\ \E x \in Seq(Nat) : Pending(d) = x \o Pending(r.dec)
<1> DEFINE s == StopsAt(d.next)
<1>0. /\ N \in Nat /\ Cap \in Nat \ {0}
      /\ d = [open |-> d.open, next |-> d.next, leftover |-> d.leftover]
      /\ d.open \in BOOLEAN /\ d.next \in 1..N + 1
  BY PacketsType, AudioAssumption DEF Decoders, N
<1>1. s \in d.next..N + 1 /\ s - 1 \in d.next - 1..N  BY EnoughIs
<1>2. CASE Enough(d) # {}
  <2> DEFINE j == CHOOSE j \in Enough(d) : \A i \in Enough(d) : j <= i
             c == Copied(d, j)
  <2>1. j \in Enough(d) /\ j \in d.next - 1..N  BY <1>2, EnoughIs
  <2>2. c \in Seq(Nat) /\ j + 1 \in 1..N + 1 /\ Pending(d) = c \o Frames(j + 1, N)
    <3> HIDE DEF j
    <3> QED  BY <2>1, CopiedIs
  <2>3. Len(c) >= Cap  BY <2>1 DEF Enough
  <2>4. r = [out |-> SubSeq(c, 1, Cap),
             dec |-> [d EXCEPT !.next = j + 1, !.leftover = SubSeq(c, Cap + 1, Len(c))]]
    BY <1>2, Zenon DEF Read, Enough, Copied
  <2> HIDE DEF j, c
  <2>5. /\ r.out = SubSeq(c, 1, Cap) /\ r.dec.leftover = SubSeq(c, Cap + 1, Len(c))
        /\ r.dec = [open |-> d.open, next |-> j + 1, leftover |-> SubSeq(c, Cap + 1, Len(c))]
        /\ r.dec.next = j + 1 /\ r.dec.open = d.open
    <3>1. r = [out |-> SubSeq(c, 1, Cap),
               dec |-> [open |-> d.open, next |-> j + 1, leftover |-> SubSeq(c, Cap + 1, Len(c))]]
      BY <2>4, DecoderMoved
    <3> DEFINE front == SubSeq(c, 1, Cap)
               rest == SubSeq(c, Cap + 1, Len(c))
    <3>2. r = [out |-> front, dec |-> [open |-> d.open, next |-> j + 1, leftover |-> rest]]
      BY <3>1
    <3> HIDE DEF front, rest
    <3>3. /\ r.out = front /\ r.dec = [open |-> d.open, next |-> j + 1, leftover |-> rest]
          /\ r.dec.leftover = rest /\ r.dec.next = j + 1 /\ r.dec.open = d.open
      BY <3>2
    <3> QED  BY <3>3 DEF front, rest
  <2>6. Len(c) \in Nat  BY <2>2
  <2>7. r.out \in Seq(Nat) /\ Len(r.out) = Cap /\ r.dec.leftover \in Seq(Nat)
    <3>1. Cap + 1 \in 1..Len(c) + 1 /\ 1 \in 1..Len(c) + 1 /\ Cap \in 0..Len(c) /\ Len(c) \in 0..Len(c)
      BY <1>0, <2>3, <2>6
    <3>2. SubSeq(c, 1, Cap) \in Seq(Nat) /\ Len(SubSeq(c, 1, Cap)) = Cap
      BY <1>0, <2>2, <3>1, SubSeqProperties
    <3>3. SubSeq(c, Cap + 1, Len(c)) \in Seq(Nat)
      BY <1>0, <2>2, <2>3, <2>6
    <3> QED  BY <2>5, <3>2, <3>3
  <2>8. r.dec \in Decoders
    BY <1>0, <2>2, <2>5, <2>7 DEF Decoders, N
  <2>9. c = r.out \o r.dec.leftover
    <3>1. SubSeq(c, 1, Cap) \o SubSeq(c, Cap + 1, Len(c)) = SubSeq(c, 1, Len(c))
      <4>1. 1 \in 1..Len(c) + 1 /\ Cap \in 1 - 1..Len(c) /\ Len(c) \in Cap..Len(c)  BY <1>0, <2>3, <2>6
      <4> QED  BY <2>2, <4>1, ConcatAdjacentSubSeq, Zenon
    <3>2. SubSeq(c, 1, Len(c)) = c  BY <2>2
    <3> QED  BY <2>5, <3>1, <3>2
  <2>10. Frames(j + 1, N) \in Seq(Nat)
    <3> DEFINE h == j + 1
    <3>1. h \in 1..N + 1 /\ N \in h - 1..N  BY <1>0, <2>2
    <3> HIDE DEF h
    <3>2. Frames(h, N) \in Seq(Nat)  BY <3>1, SpanType
    <3> QED  BY <3>2 DEF h
  <2>11. (r.out \o r.dec.leftover) \o Frames(j + 1, N) = r.out \o (r.dec.leftover \o Frames(j + 1, N))
    BY <2>7, <2>10, JoinAssociative, Zenon
  <2>12. Pending(d) = r.out \o Pending(r.dec)
    BY <2>2, <2>5, <2>9, <2>11, Zenon DEF Pending
  <2>13. Len(r.out) <= Cap  BY <1>0, <2>7
  <2> QED  BY <2>5, <2>7, <2>8, <2>12, <2>13
<1>3. CASE Enough(d) = {}
  <2> DEFINE c == Copied(d, s - 1)
             panics == s <= N /\ Packets[s].outcome = "panic"
             next == IF s <= N THEN s + 1 ELSE s
  <2>1. r = [out |-> IF panics THEN <<>> ELSE c, dec |-> [d EXCEPT !.next = next, !.leftover = <<>>]]
    BY <1>3, Zenon DEF Read, Enough, Copied, N
  <2>2. c \in Seq(Nat) /\ s - 1 + 1 \in 1..N + 1 /\ Pending(d) = c \o Frames(s - 1 + 1, N)
    <3> DEFINE j == s - 1
    <3>1. j \in d.next - 1..N  BY <1>1
    <3> HIDE DEF j
    <3>2. Copied(d, j) \in Seq(Nat) /\ j + 1 \in 1..N + 1 /\ Pending(d) = Copied(d, j) \o Frames(j + 1, N)
      BY <3>1, CopiedIs
    <3> QED  BY <3>2 DEF j
  <2>3. s \in 1..N + 1 /\ Pending(d) = c \o Frames(s, N) /\ next \in 1..N + 1
    <3>1. s - 1 + 1 = s /\ s \in 1..N + 1 /\ next \in 1..N + 1  BY <1>0, <1>1
    <3> HIDE DEF s, c, next
    <3> QED  BY <2>2, <3>1
  <2>4. Len(c) < Cap
    <3>1. s - 1 \in d.next - 1..s - 1 /\ Len(c) \in Nat  BY <1>0, <1>1, <2>2
    <3>2. ~(Len(c) >= Cap)  BY <1>3, <3>1 DEF Enough
    <3> QED  BY <1>0, <3>1, <3>2
  <2>5. Frames(s, N) = Frames(next, N)
    <3>1. CASE ~(s <= N)  BY <3>1
    <3>2. CASE s <= N
      <4>1. Packets[s].outcome \in {"fatal", "panic"}  BY <1>0, <1>1, <3>2, StopsAtIs
      <4>2. s \in s - 1..N /\ N \in s..N /\ s + 1 \in 1..N + 1 /\ N \in s + 1 - 1..N /\ s \in Int
        BY <1>0, <2>3, <3>2
      <4> HIDE DEF s
      <4>3. Frames(s, N) = Frames(s, s) \o Frames(s + 1, N)  BY <2>3, <4>2, FramesSplit
      <4>4. Frames(s, s) = <<>>
        <5>1. /\ Span(s, s) \in Seq(Seq(Nat)) /\ Len(Span(s, s)) = s - s + 1
              /\ Frames(s, s) = FlattenSeq(Span(s, s))
          BY <2>3, <4>2, SpanType
        <5>2. Span(s, s)[1] = FramesOf(Packets[s - 1 + 1])  BY <4>2 DEF Span
        <5>3. Span(s, s)[1] = <<>>  BY <4>1, <4>2, <5>2 DEF FramesOf
        <5>4. Span(s, s) = Append(<<>>, <<>>)  BY <4>2, <5>1, <5>3
        <5>5. FlattenSeq(Append(<<>>, <<>>)) = FlattenSeq(<<>>) \o <<>>
          <6>1. <<>> \in Seq(Seq(Nat)) /\ <<>> \in Seq(Nat)  OBVIOUS
          <6> QED  BY <6>1, FlattenAppend
        <5>6. FlattenSeq(<<>>) = <<>>  BY <5>1, FlattenIs
        <5> QED  BY <5>1, <5>4, <5>5, <5>6
      <4>5. Frames(s + 1, N) \in Seq(Nat)
        <5> DEFINE h == s + 1
        <5>1. h \in 1..N + 1 /\ N \in h - 1..N  BY <4>2
        <5> HIDE DEF h
        <5>2. Frames(h, N) \in Seq(Nat)  BY <5>1, SpanType
        <5> QED  BY <5>2 DEF h
      <4>6. Frames(s, N) = Frames(s + 1, N)  BY <4>3, <4>4, <4>5, ConcatEmptySeq
      <4> QED  BY <3>2, <4>6
    <3> QED  BY <3>1, <3>2
  <2> HIDE DEF s, c, panics, next
  <2>6. /\ r.dec = [open |-> d.open, next |-> next, leftover |-> <<>>]
        /\ r.dec.next = next /\ r.dec.leftover = <<>> /\ r.dec.open = d.open
        /\ r.out = IF panics THEN <<>> ELSE c
    <3>1. r = [out |-> IF panics THEN <<>> ELSE c,
               dec |-> [open |-> d.open, next |-> next, leftover |-> <<>>]]
      BY <2>1, DecoderMoved
    <3> QED  BY <3>1
  <2>7. r.dec \in Decoders  BY <1>0, <2>3, <2>6 DEF Decoders, N
  <2>8. Frames(next, N) \in Seq(Nat)
    <3>1. N \in next - 1..N  BY <1>0, <2>3
    <3> QED  BY <2>3, <3>1, SpanType
  <2>9. Pending(r.dec) = Frames(next, N)  BY <2>6, <2>8, ConcatEmptySeq DEF Pending
  <2>10. Pending(d) = c \o Pending(r.dec)  BY <2>3, <2>5, <2>9
  <2>11. r.out \in Seq(Nat) /\ Len(r.out) <= Cap
    <3>1. CASE panics
      <4>1. r.out = <<>>  BY <2>6, <3>1
      <4> QED  BY <1>0, <4>1
    <3>2. CASE ~panics
      <4>1. r.out = c /\ Len(c) \in Nat  BY <2>2, <2>6, <3>2
      <4> QED  BY <1>0, <2>2, <2>4, <4>1
    <3> QED  BY <3>1, <3>2
  <2> QED  BY <2>2, <2>6, <2>7, <2>10, <2>11
<1> QED  BY <1>2, <1>3

(***************************************************************************)
(* The player: what one call of scheduleNext keeps                         *)
(***************************************************************************)
States == [dec : Decoders, node : Nodes, feed : [generation : Nat, inFlight : Nat, atEnd : BOOLEAN],
           shown : BOOLEAN, start : 0..N + 1]

Bounded(q) == \A k \in DOMAIN q : Len(q[k]) \in 1..Cap

Sound(a, h) == h \o FlattenSeq(a.node.queue)
Sequel(a) == Frames(IF a.start = 0 THEN 1 ELSE a.start, N)

\* x, if it is not empty, may come before where the player is.
Before(a, x) == x \in Seq(Nat) /\ (a.start # 0 => x = <<>>)

\* h having been heard, what is to come is the end of the recording; what is heard
\* and scheduled is a piece of it, and what is to come follows it.
ToCome(d) == \E x \in Seq(Nat) : AllFrames = x \o Pending(d)
InOrder(a, h) == \E x, y \in Seq(Nat) : Before(a, x) /\ Sequel(a) = (x \o Sound(a, h)) \o y
Follows(a, h) == \E x \in Seq(Nat) : Before(a, x) /\ Sequel(a) = x \o (Sound(a, h) \o Pending(a.dec))
Runs(a, h) == ToCome(a.dec) /\ InOrder(a, h) /\ (a.dec.open /\ ~a.feed.atEnd => Follows(a, h))

\* The buffers in flight are those scheduled and c more.
Counts(a, c) == a.feed.inFlight = Len(a.node.queue) + c

LEMMA PendingType ==
  ASSUME recording \in Recordings, NEW d \in Decoders
  PROVE  Pending(d) \in Seq(Nat)
<1>1. N \in Nat /\ d.next \in 1..N + 1 /\ d.leftover \in Seq(Nat)  BY PacketsType DEF Decoders, N
<1>2. N \in d.next - 1..N  BY <1>1
<1>3. Frames(d.next, N) \in Seq(Nat)  BY <1>1, <1>2, SpanType
<1> QED  BY <1>1, <1>3, ConcatProperties DEF Pending

LEMMA SoundType ==
  ASSUME NEW a \in States, NEW h \in Seq(Nat)
  PROVE  Sound(a, h) \in Seq(Nat)
<1>1. a.node.queue \in Seq(Seq(Nat))  BY DEF States, Nodes
<1>2. FlattenSeq(a.node.queue) \in Seq(Nat)  BY <1>1, FlattenIs
<1> QED  BY <1>2, ConcatProperties DEF Sound

LEMMA FollowsInOrder ==
  ASSUME recording \in Recordings, NEW a \in States, NEW h \in Seq(Nat), Follows(a, h)
  PROVE  InOrder(a, h)
<1>1. PICK x \in Seq(Nat) : Before(a, x) /\ Sequel(a) = x \o (Sound(a, h) \o Pending(a.dec))
  BY DEF Follows
<1>2. Sound(a, h) \in Seq(Nat)  BY SoundType
<1>3. Pending(a.dec) \in Seq(Nat)
  <2>1. a.dec \in Decoders  BY DEF States
  <2> QED  BY <2>1, PendingType
<1>4. Sequel(a) = (x \o Sound(a, h)) \o Pending(a.dec)
  BY <1>1, <1>2, <1>3, JoinAssociative, Zenon
<1> QED  BY <1>1, <1>3, <1>4 DEF InOrder

\* Clearing a node that holds nothing changes what is heard in no way.
LEMMA DrainedIs ==
  ASSUME NEW a \in States, NEW c \in Nat, NEW h \in Seq(Nat), NEW b, b = Drained(a),
         Counts(a, c), Bounded(a.node.queue), Runs(a, h)
  PROVE  /\ b \in States /\ b.feed = a.feed /\ b.start = a.start /\ b.dec = a.dec
         /\ b.node.playing => a.node.playing
         /\ Counts(b, c) /\ Bounded(b.node.queue) /\ Runs(b, h)
<1>1. CASE a.feed.inFlight # 0
  <2>1. b = a  BY <1>1 DEF Drained
  <2> QED  BY <2>1
<1>2. CASE a.feed.inFlight = 0
  <2>1. a.node.queue = <<>> /\ c = 0
    <3>1. a.node.queue \in Seq(Seq(Nat)) /\ Len(a.node.queue) \in Nat  BY DEF States, Nodes
    <3>2. Len(a.node.queue) = 0 /\ c = 0  BY <1>2, <3>1 DEF Counts
    <3> QED  BY <3>1, <3>2, EmptySeq
  <2>2. /\ b \in States /\ b.feed = a.feed /\ b.start = a.start /\ b.dec = a.dec
        /\ b.node = [playing |-> FALSE, queue |-> <<>>]
    <3>1. <<>> \in Seq(Seq(Nat))  OBVIOUS
    <3> QED  BY <1>2, <3>1 DEF Drained, finishPlayback, StopNode, States, Nodes
  <2>3. b.node.queue = a.node.queue /\ ~b.node.playing  BY <2>1, <2>2
  <2>4. Counts(b, c) /\ Bounded(b.node.queue)  BY <2>2, <2>3 DEF Counts
  <2>5. Sound(b, h) = Sound(a, h) /\ Sequel(b) = Sequel(a) /\ \A x : Before(b, x) = Before(a, x)
    BY <2>2, <2>3 DEF Sound, Sequel, Before
  <2>6. Runs(b, h)  BY <2>2, <2>5 DEF Runs, InOrder, Follows
  <2> QED  BY <2>2, <2>3, <2>4, <2>6
<1> QED  BY <1>1, <1>2

LEMMA ScheduleIs ==
  ASSUME recording \in Recordings, NEW a \in States, NEW c \in Nat, NEW h \in Seq(Nat),
         NEW b, b = scheduleNext(a),
         a.dec.open, Counts(a, c), Bounded(a.node.queue), Runs(a, h)
  PROVE  /\ b \in States /\ b.dec.open
         /\ b.feed.generation = a.feed.generation /\ b.start = a.start
         /\ b.feed.inFlight <= a.feed.inFlight + 1
         /\ b.node.playing => a.node.playing
         /\ Counts(b, c) /\ Bounded(b.node.queue) /\ Runs(b, h)
<1>0. /\ a.feed.inFlight \in Nat /\ a.dec \in Decoders /\ a.node.queue \in Seq(Seq(Nat))
      /\ a.feed.atEnd \in BOOLEAN
  BY DEF States, Nodes
<1>1. CASE a.feed.atEnd
  <2>1. b = Drained(a)  BY <1>1 DEF scheduleNext
  <2> QED  BY <1>0, <2>1, DrainedIs
<1>2. CASE ~a.feed.atEnd
  <2> DEFINE r == Read(a.dec)
  <2>1. /\ r.dec \in Decoders /\ r.dec.open
        /\ r.out \in Seq(Nat) /\ Len(r.out) <= Cap
        /\ \/ Pending(a.dec) = r.out \o Pending(r.dec)
           \/ r.out = <<>> /\ \E x \in Seq(Nat) : Pending(a.dec) = x \o Pending(r.dec)
    BY <1>0, ReadIs
  <2>2. Pending(a.dec) \in Seq(Nat) /\ Pending(r.dec) \in Seq(Nat)
    <3> HIDE DEF r
    <3> QED  BY <1>0, <2>1, PendingType
  <2>3. ToCome(r.dec)
    <3> HIDE DEF r
    <3>1. PICK x \in Seq(Nat) : Pending(a.dec) = x \o Pending(r.dec)  BY <2>1
    <3>2. PICK y \in Seq(Nat) : AllFrames = y \o Pending(a.dec)  BY DEF Runs, ToCome
    <3>3. AllFrames = (y \o x) \o Pending(r.dec)
      <4>1. (y \o x) \o Pending(r.dec) = y \o (x \o Pending(r.dec))  BY <2>2, JoinAssociative, Zenon
      <4> QED  BY <3>1, <3>2, <4>1, Zenon
    <3>4. y \o x \in Seq(Nat)  BY ConcatProperties
    <3> QED  BY <3>3, <3>4 DEF ToCome
  <2>4. CASE r.out = <<>>
    <3> DEFINE e == [[a EXCEPT !.dec = r.dec] EXCEPT !.feed.atEnd = TRUE]
    <3>1. b = Drained(e)  BY <1>2, <2>4 DEF scheduleNext
    <3>2. /\ e \in States /\ e.dec = r.dec /\ e.node = a.node /\ e.start = a.start
          /\ e.feed.atEnd /\ e.feed.inFlight = a.feed.inFlight /\ e.feed.generation = a.feed.generation
      <4> HIDE DEF r
      <4> QED  BY <2>1 DEF States
    <3> HIDE DEF e, r
    <3>3. Sound(e, h) = Sound(a, h) /\ Sequel(e) = Sequel(a) /\ \A x : Before(e, x) = Before(a, x)
      BY <3>2 DEF Sound, Sequel, Before
    <3>4. Runs(e, h)  BY <2>3, <3>2, <3>3 DEF Runs, InOrder
    <3>5. Counts(e, c) /\ Bounded(e.node.queue)  BY <3>2 DEF Counts
    <3>6. /\ b \in States /\ b.feed = e.feed /\ b.start = e.start /\ b.dec = e.dec
          /\ b.node.playing => e.node.playing
          /\ Counts(b, c) /\ Bounded(b.node.queue) /\ Runs(b, h)
      BY <3>1, <3>2, <3>4, <3>5, DrainedIs
    <3> QED  BY <1>0, <2>1, <3>2, <3>6
  <2>5. CASE r.out # <<>>
    <3> DEFINE q == Append(a.node.queue, r.out)
    <3>1. b = [[a EXCEPT !.dec = r.dec] EXCEPT !.feed.inFlight = @ + 1, !.node.queue = Append(@, r.out)]
      BY <1>2, <2>5 DEF scheduleNext
    <3> HIDE DEF r
    <3>2. q \in Seq(Seq(Nat)) /\ Len(q) = Len(a.node.queue) + 1 /\ q[Len(q)] = r.out
          /\ \A k \in 1..Len(a.node.queue) : q[k] = a.node.queue[k]
      BY <1>0, <2>1, AppendProperties
    <3>3. /\ b \in States /\ b.dec = r.dec /\ b.node.playing = a.node.playing /\ b.start = a.start
          /\ b.node.queue = q /\ b.feed.inFlight = a.feed.inFlight + 1
          /\ b.feed.generation = a.feed.generation /\ b.feed.atEnd = a.feed.atEnd
      <4>1. b = [[a EXCEPT !.dec = r.dec] EXCEPT !.feed.inFlight = @ + 1, !.node.queue = q]
        BY <1>0, <3>1 DEF States, Nodes
      <4> HIDE DEF q
      <4>2. b = [dec |-> r.dec, node |-> [playing |-> a.node.playing, queue |-> q],
                 feed |-> [generation |-> a.feed.generation, inFlight |-> a.feed.inFlight + 1,
                           atEnd |-> a.feed.atEnd],
                 shown |-> a.shown, start |-> a.start]
        BY <4>1 DEF States, Nodes
      <4>3. /\ a.feed.generation \in Nat /\ a.feed.inFlight + 1 \in Nat /\ a.feed.atEnd \in BOOLEAN
            /\ a.node.playing \in BOOLEAN /\ a.shown \in BOOLEAN /\ a.start \in 0..N + 1
        BY DEF States, Nodes
      <4>4. b \in States
        <5>1. q \in Seq(Seq(Nat))  BY <3>2
        <5> QED  BY <2>1, <4>2, <4>3, <5>1 DEF States, Nodes
      <4> QED  BY <4>2, <4>4
    <3>4. Counts(b, c)
      <4>1. Len(a.node.queue) \in Nat  BY <1>0
      <4>2. Len(b.node.queue) = Len(a.node.queue) + 1 /\ b.feed.inFlight = a.feed.inFlight + 1
        BY <3>2, <3>3, Zenon
      <4> QED  BY <4>1, <4>2 DEF Counts
    <3>5. Bounded(b.node.queue)
      <4> HIDE DEF q
      <4>1. Len(r.out) \in 1..Cap
        <5>1. Cap \in Nat /\ Len(r.out) \in Nat /\ Len(r.out) # 0
          BY <2>1, <2>5, AudioAssumption, EmptySeq
        <5> QED  BY <2>1, <5>1
      <4>2. Len(a.node.queue) \in Nat /\ DOMAIN a.node.queue = 1..Len(a.node.queue)  BY <1>0
      <4>3. DOMAIN q = 1..Len(q)  BY <3>2
      <4>4. \A k \in DOMAIN q : Len(q[k]) \in 1..Cap
        <5> TAKE k \in DOMAIN q
        <5>1. k \in 1..Len(a.node.queue) \/ k = Len(q)
          <6>1. Len(q) = Len(a.node.queue) + 1 /\ k \in 1..Len(q)  BY <3>2, <4>3, Zenon
          <6> QED  BY <4>2, <6>1
        <5>2. CASE k \in 1..Len(a.node.queue)  BY <3>2, <4>2, <5>2 DEF Bounded
        <5>3. CASE k = Len(q)  BY <3>2, <4>1, <5>3
        <5> QED  BY <5>1, <5>2, <5>3
      <4>5. b.node.queue = q  BY <3>3
      <4> QED  BY <4>4, <4>5 DEF Bounded
    <3>6. Sound(b, h) = Sound(a, h) \o r.out
      <4>1. FlattenSeq(q) = FlattenSeq(a.node.queue) \o r.out  BY <1>0, <2>1, FlattenAppend
      <4>2. FlattenSeq(a.node.queue) \in Seq(Nat)  BY <1>0, FlattenIs
      <4> HIDE DEF q
      <4>3. (h \o FlattenSeq(a.node.queue)) \o r.out = h \o (FlattenSeq(a.node.queue) \o r.out)
        BY <2>1, <4>2, JoinAssociative, Zenon
      <4> QED  BY <3>3, <4>1, <4>3, Zenon DEF Sound
    <3>7. Follows(b, h)
      <4>1. PICK x \in Seq(Nat) : Before(a, x) /\ Sequel(a) = x \o (Sound(a, h) \o Pending(a.dec))
        BY <1>2 DEF Runs, Follows
      <4>2. Sound(a, h) \in Seq(Nat)  BY SoundType
      <4>3. Sound(a, h) \o (r.out \o Pending(r.dec)) = (Sound(a, h) \o r.out) \o Pending(r.dec)
        <5>1. r.out \in Seq(Nat)  BY <2>1
        <5>2. Pending(r.dec) \in Seq(Nat)  BY <2>2
        <5> DEFINE z == Sound(a, h)
        <5>3. z \in Seq(Nat)  BY <4>2
        <5> HIDE DEF z
        <5>4. z \o (r.out \o Pending(r.dec)) = (z \o r.out) \o Pending(r.dec)
          BY <5>1, <5>2, <5>3, JoinAssociative
        <5> QED  BY <5>4 DEF z
      <4>4. Pending(a.dec) = r.out \o Pending(r.dec)  BY <2>1, <2>5
      <4>5. Sequel(a) = x \o (Sound(b, h) \o Pending(b.dec))  BY <3>3, <3>6, <4>1, <4>3, <4>4, Zenon
      <4>6. Sequel(b) = Sequel(a) /\ Before(b, x)  BY <3>3, <4>1 DEF Sequel, Before
      <4> QED  BY <4>5, <4>6, Zenon DEF Follows
    <3>8. Runs(b, h)
      <4>1. InOrder(b, h)  BY <3>3, <3>7, FollowsInOrder
      <4> QED  BY <2>3, <3>3, <3>7, <4>1 DEF Runs
    <3> QED  BY <1>0, <2>1, <3>3, <3>4, <3>5, <3>8
  <2> QED  BY <2>4, <2>5
<1> QED  BY <1>0, <1>1, <1>2

\* With sequence h heard, a is playing nothing yet, or nothing any more, of generation g,
\* and has at most n buffers in flight, none of them reported.
Silent(a, g, h, n) ==
  /\ a \in States /\ a.dec.open /\ ~a.node.playing
  /\ a.feed.generation = g /\ a.feed.inFlight <= n
  /\ Counts(a, 0) /\ Bounded(a.node.queue) /\ Runs(a, h)

LEMMA PrimedIs ==
  ASSUME recording \in Recordings, NEW S, NEW g \in Nat, NEW h \in Seq(Nat),
         \A a \in S : Silent(a, g, h, 0)
  PROVE  \A a \in Primed(S) : Silent(a, g, h, 3)
<1>1. ASSUME NEW n \in Nat, NEW a, Silent(a, g, h, n)  PROVE Silent(scheduleNext(a), g, h, n + 1)
  <2> DEFINE b == scheduleNext(a)
  <2>1. a \in States /\ 0 \in Nat /\ a.feed.inFlight \in Nat  BY <1>1 DEF Silent, States
  <2>2. /\ b \in States /\ b.dec.open
        /\ b.feed.generation = a.feed.generation /\ b.start = a.start
        /\ b.feed.inFlight <= a.feed.inFlight + 1
        /\ b.node.playing => a.node.playing
        /\ Counts(b, 0) /\ Bounded(b.node.queue) /\ Runs(b, h)
    BY <1>1, <2>1, ScheduleIs DEF Silent
  <2> HIDE DEF b
  <2>3. b.feed.inFlight \in Nat  BY <2>2 DEF States
  <2>4. b.feed.inFlight <= n + 1  BY <1>1, <2>1, <2>2, <2>3 DEF Silent
  <2>5. Silent(b, g, h, n + 1)  BY <1>1, <2>2, <2>4 DEF Silent
  <2> QED  BY <2>5 DEF b
<1> SUFFICES ASSUME NEW a \in S  PROVE Silent(scheduleNext(scheduleNext(scheduleNext(a))), g, h, 3)
  BY Zenon DEF Primed
<1>2. Silent(scheduleNext(a), g, h, 1)  BY <1>1
<1>3. Silent(scheduleNext(scheduleNext(a)), g, h, 2)  BY <1>1, <1>2
<1> QED  BY <1>1, <1>3

\* A seek begins anew where it was sought, or is somewhere in the recording.
LEMMA SoughtIs ==
  ASSUME recording \in Recordings, NEW a \in States, a.dec.open, ToCome(a.dec), NEW k \in 1..N + 1
  PROVE  \A b \in Sought(a, k) : Silent(b, a.feed.generation + 1, <<>>, 3)
<1> DEFINE g == a.feed.generation + 1
           cleared == StopNode([a EXCEPT !.feed = [generation |-> @.generation + 1, inFlight |-> 0, atEnd |-> FALSE]])
           at(ok) == [cleared EXCEPT !.dec = Seek(@, k, ok), !.start = IF ok THEN k ELSE 0]
<1>0. a.dec \in Decoders /\ g \in Nat /\ a.shown \in BOOLEAN /\ N \in Nat  BY PacketsType DEF States
<1>1. ASSUME NEW ok \in BOOLEAN
      PROVE  at(ok) = [dec |-> Seek(a.dec, k, ok), node |-> [playing |-> FALSE, queue |-> <<>>],
                       feed |-> [generation |-> g, inFlight |-> 0, atEnd |-> FALSE],
                       shown |-> a.shown, start |-> IF ok THEN k ELSE 0]
  <2>1. ASSUME NEW F, NEW X, NEW Y
        PROVE  [StopNode([a EXCEPT !.feed = F]) EXCEPT !.dec = X, !.start = Y]
                 = [dec |-> X, node |-> [playing |-> FALSE, queue |-> <<>>], feed |-> F,
                    shown |-> a.shown, start |-> Y]
    <3> DEFINE stopped == [playing |-> FALSE, queue |-> <<>>]
               r == [a EXCEPT !.feed = F]
               t == [r EXCEPT !.node = stopped]
    <3>1. StopNode(r) = t  BY DEF StopNode
    <3> HIDE DEF stopped
    <3>2. r = [dec |-> a.dec, node |-> a.node, feed |-> F, shown |-> a.shown, start |-> a.start]
      BY DEF States
    <3> HIDE DEF r
    <3>3. t = [dec |-> a.dec, node |-> stopped, feed |-> F, shown |-> a.shown, start |-> a.start]
      BY <3>2
    <3> HIDE DEF t
    <3>4. [t EXCEPT !.dec = X, !.start = Y]
            = [x \in {"dec", "node", "feed", "shown", "start"} |->
                 IF x = "start" THEN Y ELSE IF x = "dec" THEN X ELSE t[x]]
      BY <3>3
    <3>5. [t EXCEPT !.dec = X, !.start = Y]
            = [dec |-> X, node |-> stopped, feed |-> F, shown |-> a.shown, start |-> Y]
      BY <3>3, <3>4
    <3> QED  BY <3>1, <3>5 DEF r, stopped
  <2>2. cleared.dec = a.dec
    <3>1. ASSUME NEW F  PROVE StopNode([a EXCEPT !.feed = F]).dec = a.dec  BY DEF StopNode, States
    <3> QED  BY <3>1
  <2>3. at(ok) = [dec |-> Seek(cleared.dec, k, ok), node |-> [playing |-> FALSE, queue |-> <<>>],
                  feed |-> [generation |-> a.feed.generation + 1, inFlight |-> 0, atEnd |-> FALSE],
                  shown |-> a.shown, start |-> IF ok THEN k ELSE 0]
    BY <2>1, Zenon
  <2> HIDE DEF cleared, at
  <2> QED  BY <2>2, <2>3, Zenon
<1>2. ASSUME NEW ok \in BOOLEAN  PROVE Silent(at(ok), g, <<>>, 0)
  <2> DEFINE c == at(ok)
             d == Seek(a.dec, k, ok)
  <2>1. d \in Decoders /\ d.open /\ (ok => d.next = k /\ d.leftover = <<>>) /\ (~ok => d = a.dec)
    <3>1. CASE ok
      <4>1. d = [open |-> a.dec.open, next |-> k, leftover |-> <<>>]
        BY <1>0, <3>1, DecoderMoved DEF Seek
      <4>2. <<>> \in Seq(Nat)  OBVIOUS
      <4> HIDE DEF d
      <4> QED  BY <1>0, <3>1, <4>1, <4>2 DEF Decoders, N
    <3>2. CASE ~ok  BY <1>0, <3>2 DEF Seek
    <3> QED  BY <3>1, <3>2
  <2>2. c = [dec |-> d, node |-> [playing |-> FALSE, queue |-> <<>>],
             feed |-> [generation |-> g, inFlight |-> 0, atEnd |-> FALSE],
             shown |-> a.shown, start |-> IF ok THEN k ELSE 0]
    BY <1>1
  <2> HIDE DEF c, d, g
  <2>3. <<>> \in Seq(Seq(Nat)) /\ <<>> \in Seq(Nat) /\ (IF ok THEN k ELSE 0) \in 0..N + 1  BY <1>0
  <2>4. /\ c.dec = d /\ c.node.queue = <<>> /\ ~c.node.playing /\ c.start = IF ok THEN k ELSE 0
        /\ c.feed.generation = g /\ c.feed.inFlight = 0
    BY <2>2
  <2>5. c \in States  BY <1>0, <2>1, <2>2, <2>3 DEF States, Nodes
  <2>6. Sound(c, <<>>) = <<>>
    <3>1. FlattenSeq(<<>>) = <<>>  BY <2>3, FlattenIs
    <3> QED  BY <2>3, <2>4, <3>1, ConcatEmptySeq DEF Sound
  <2>7. Pending(d) \in Seq(Nat)  BY <2>1, PendingType
  <2>8. Sound(c, <<>>) \o Pending(c.dec) = Pending(d)  BY <2>4, <2>6, <2>7, ConcatEmptySeq
  <2>9. ToCome(d) /\ Follows(c, <<>>)
    <3>1. CASE ok
      <4>1. Frames(k, N) \in Seq(Nat)
        <5>1. N \in k - 1..N  BY <1>0
        <5> QED  BY <5>1, SpanType
      <4>2. Pending(d) = Frames(k, N)  BY <2>1, <3>1, <4>1, ConcatEmptySeq DEF Pending
      <4>3. Frames(1, k - 1) \in Seq(Nat) /\ AllFrames = Frames(1, k - 1) \o Frames(k, N)
        <5> DEFINE j == k - 1
        <5>1. 1 \in 1..N + 1 /\ j \in 1 - 1..N /\ N \in j..N /\ j + 1 = k  BY <1>0
        <5> HIDE DEF j
        <5>2. Frames(1, j) \in Seq(Nat)  BY <5>1, SpanType
        <5>3. Frames(1, N) = Frames(1, j) \o Frames(j + 1, N)  BY <5>1, FramesSplit
        <5> QED  BY <5>1, <5>2, <5>3 DEF AllFrames, j
      <4>4. ToCome(d)  BY <4>2, <4>3 DEF ToCome
      <4>5. Sequel(c) = Frames(k, N)  BY <2>4, <3>1 DEF Sequel
      <4>6. Sequel(c) = <<>> \o Pending(d)  BY <4>1, <4>2, <4>5, ConcatEmptySeq
      <4>7. Before(c, <<>>)  BY <2>3 DEF Before
      <4> QED  BY <2>3, <2>8, <4>4, <4>6, <4>7 DEF Follows
    <3>2. CASE ~ok
      <4>1. ToCome(d)  BY <2>1, <3>2
      <4>2. PICK x \in Seq(Nat) : AllFrames = x \o Pending(d)  BY <4>1 DEF ToCome
      <4>3. Sequel(c) = AllFrames  BY <2>4, <3>2 DEF Sequel, AllFrames
      <4>4. Before(c, x)  BY <2>4, <3>2 DEF Before
      <4> QED  BY <2>8, <4>1, <4>2, <4>3, <4>4 DEF Follows
    <3> QED  BY <3>1, <3>2
  <2>10. Runs(c, <<>>)  BY <2>3, <2>4, <2>5, <2>9, FollowsInOrder DEF Runs
  <2>11. Counts(c, 0) /\ Bounded(c.node.queue)  BY <2>4 DEF Counts, Bounded
  <2>12. Silent(c, g, <<>>, 0)  BY <2>1, <2>4, <2>5, <2>10, <2>11 DEF Silent
  <2> QED  BY <2>12 DEF c
<1>3. \A b \in {at(ok) : ok \in BOOLEAN} : Silent(b, g, <<>>, 0)  BY <1>2
<1>4. Sought(a, k) = Primed({at(ok) : ok \in BOOLEAN})  BY Zenon DEF Sought
<1> HIDE DEF at, g
<1>5. <<>> \in Seq(Nat)  OBVIOUS
<1>6. \A b \in Primed({at(ok) : ok \in BOOLEAN}) : Silent(b, g, <<>>, 3)
  BY <1>0, <1>3, <1>5, PrimedIs
<1> QED  BY <1>4, <1>6 DEF g

LEMMA PlaysIs ==
  ASSUME NEW a \in States, NEW h, NEW b, b = Plays(a)
  PROVE  /\ b \in States /\ b.dec = a.dec /\ b.feed = a.feed /\ b.start = a.start
         /\ b.node.queue = a.node.queue /\ b.node.playing
         /\ Runs(a, h) => Runs(b, h)
<1>1. /\ b \in States /\ b.dec = a.dec /\ b.feed = a.feed /\ b.start = a.start
      /\ b.node.queue = a.node.queue /\ b.node.playing
  BY DEF Plays, States, Nodes
<1>2. Sound(b, h) = Sound(a, h) /\ Sequel(b) = Sequel(a) /\ \A x : Before(b, x) = Before(a, x)
  BY <1>1 DEF Sound, Sequel, Before
<1> QED  BY <1>1, <1>2 DEF Runs, InOrder, Follows

LEMMA seekToIs ==
  ASSUME recording \in Recordings, NEW a \in States, a.dec.open, ToCome(a.dec), NEW k \in 1..N + 1,
         NEW b \in seekTo(a, k)
  PROVE  /\ b \in States /\ b.dec.open /\ (b.node.playing => a.node.playing)
         /\ b.feed.generation = a.feed.generation + 1 /\ b.feed.inFlight <= 3
         /\ Counts(b, 0) /\ Bounded(b.node.queue) /\ Runs(b, <<>>)
<1>1. CASE a.node.playing
  <2>1. PICK c \in Sought(a, k) : b = Plays(c)  BY <1>1, Zenon DEF seekTo
  <2>2. Silent(c, a.feed.generation + 1, <<>>, 3)  BY SoughtIs
  <2> QED  BY <1>1, <2>1, <2>2, PlaysIs DEF Silent, Counts
<1>2. CASE ~a.node.playing
  <2>1. Silent(b, a.feed.generation + 1, <<>>, 3)  BY <1>2, SoughtIs DEF seekTo
  <2> QED  BY <2>1 DEF Silent
<1> QED  BY <1>1, <1>2

(***************************************************************************)
(* The reports on the queue                                                *)
(***************************************************************************)
ReportsOf(t, g) == {k \in DOMAIN t : t[k] = Report(g)}
Reported(t, g) == Cardinality(ReportsOf(t, g))

\* All reports are of buffers scheduled so far; nothing is to be loaded.
Past(t, g) == \A k \in DOMAIN t : t[k].do = "consumed" => t[k].generation <= g
NoLoad(t) == \A k \in DOMAIN t : t[k].do # "load"

LEMMA ReportedType ==
  ASSUME NEW T, NEW t \in Seq(T), NEW g
  PROVE  IsFiniteSet(ReportsOf(t, g)) /\ Reported(t, g) \in Nat
<1>1. DOMAIN t = 1..Len(t) /\ Len(t) \in Nat  BY LenProperties
<1>2. IsFiniteSet(1..Len(t))  BY <1>1, FS_Interval
<1>3. IsFiniteSet(ReportsOf(t, g))
  <2>1. ReportsOf(t, g) \subseteq 1..Len(t)  BY <1>1 DEF ReportsOf
  <2> QED  BY <1>2, <2>1, FS_Subset
<1> QED  BY <1>3, FS_CardinalityType DEF Reported

LEMMA ReportedAppend ==
  ASSUME NEW T, NEW t \in Seq(T), NEW x \in T, NEW g
  PROVE  Reported(Append(t, x), g) = Reported(t, g) + IF x = Report(g) THEN 1 ELSE 0
<1> DEFINE n == Len(t)
           u == Append(t, x)
<1>1. /\ DOMAIN t = 1..n /\ n \in Nat /\ DOMAIN u = 1..n + 1
      /\ u[n + 1] = x
      /\ \A k \in 1..n : u[k] = t[k]
  BY LenProperties, AppendProperties
<1> HIDE DEF u
<1>2. ReportsOf(u, g) = IF x = Report(g) THEN ReportsOf(t, g) \cup {n + 1} ELSE ReportsOf(t, g)
  <2>1. \A k \in 1..n + 1 : k \in 1..n \/ k = n + 1  BY <1>1
  <2> HIDE DEF n
  <2> QED  BY <1>1, <2>1 DEF ReportsOf
<1>3. n + 1 \notin ReportsOf(t, g)  BY <1>1 DEF ReportsOf
<1>4. IsFiniteSet(ReportsOf(t, g)) /\ Cardinality(ReportsOf(t, g)) \in Nat  BY ReportedType DEF Reported
<1>5. Cardinality(ReportsOf(t, g) \cup {n + 1}) = Cardinality(ReportsOf(t, g)) + 1
  BY <1>3, <1>4, FS_AddElement
<1>6. Reported(u, g) = Reported(t, g) + IF x = Report(g) THEN 1 ELSE 0
  BY <1>2, <1>4, <1>5 DEF Reported
<1> QED  BY <1>6 DEF u

LEMMA ReportedTail ==
  ASSUME NEW T, NEW t \in Seq(T), t # <<>>, NEW g
  PROVE  Reported(t, g) = Reported(Tail(t), g) + IF Head(t) = Report(g) THEN 1 ELSE 0
<1> DEFINE u == Tail(t)
           A == ReportsOf(u, g)
           B == ReportsOf(t, g) \ {1}
           f == [k \in A |-> k + 1]
<1>1. /\ Len(t) \in Nat \ {0} /\ DOMAIN t = 1..Len(t) /\ u \in Seq(T) /\ DOMAIN u = 1..Len(t) - 1
      /\ \A k \in 1..Len(t) - 1 : u[k] = t[k + 1]
  <2>1. Len(t) \in Nat \ {0} /\ DOMAIN t = 1..Len(t)  BY EmptySeq, LenProperties
  <2>2. u \in Seq(T) /\ Len(u) = Len(t) - 1 /\ \A k \in 1..Len(u) : u[k] = t[k + 1]
    BY HeadTailProperties
  <2>3. DOMAIN u = 1..Len(u)  BY <2>2, LenProperties
  <2> QED  BY <2>1, <2>2, <2>3
<1>2. Head(t) = t[1]  OBVIOUS
<1> HIDE DEF u
<1>3. A \subseteq 1..Len(t) - 1 /\ \A k \in 1..Len(t) - 1 : k \in A <=> t[k + 1] = Report(g)
  BY <1>1 DEF ReportsOf
<1>4. B \subseteq 2..Len(t) /\ \A k \in 2..Len(t) : k \in B <=> t[k] = Report(g)
  BY <1>1 DEF ReportsOf
<1>5. f \in [A -> B]
  <2> SUFFICES ASSUME NEW k \in A  PROVE k + 1 \in B  OBVIOUS
  <2>1. k \in 1..Len(t) - 1 /\ k + 1 \in 2..Len(t)  BY <1>1, <1>3
  <2> HIDE DEF A, B
  <2> QED  BY <1>3, <1>4, <2>1
<1>6. \A k \in B : k - 1 \in A /\ f[k - 1] = k
  <2> SUFFICES ASSUME NEW k \in B  PROVE k - 1 \in A /\ k - 1 + 1 = k  OBVIOUS
  <2>1. k \in 2..Len(t) /\ k - 1 \in 1..Len(t) - 1 /\ k - 1 + 1 = k  BY <1>1, <1>4
  <2> HIDE DEF A, B
  <2> QED  BY <1>3, <1>4, <2>1
<1>7. \A j, k \in A : f[j] = f[k] => j = k
  <2> SUFFICES ASSUME NEW j \in A, NEW k \in A, j + 1 = k + 1  PROVE j = k  OBVIOUS
  <2>1. j \in Int /\ k \in Int  BY <1>1, <1>3
  <2> QED  BY <2>1
<1>8. f \in Bijection(A, B)
  <2> HIDE DEF A, B, f
  <2>1. f \in Surjection(A, B)  BY <1>5, <1>6 DEF Surjection
  <2>2. f \in Injection(A, B)  BY <1>5, <1>7 DEF Injection, IsInjective
  <2> QED  BY <2>1, <2>2 DEF Bijection
<1>9. IsFiniteSet(A) /\ IsFiniteSet(ReportsOf(t, g)) /\ IsFiniteSet(B)
  <2>1. IsFiniteSet(A) /\ IsFiniteSet(ReportsOf(t, g))  BY <1>1, ReportedType
  <2> QED  BY <2>1, FS_Subset
<1>10. Cardinality(A) = Cardinality(B)
  <2>1. ExistsBijection(A, B)  BY <1>8 DEF ExistsBijection
  <2> HIDE DEF A, B
  <2> QED  BY <1>9, <2>1, FS_Bijection
<1>11. CASE t[1] = Report(g)
  <2>1. 1 \in ReportsOf(t, g)  BY <1>1, <1>11 DEF ReportsOf
  <2>2. Cardinality(B) = Cardinality(ReportsOf(t, g)) - 1  BY <1>9, <2>1, FS_RemoveElement
  <2>3. Reported(t, g) \in Nat  BY ReportedType
  <2> QED  BY <1>2, <1>10, <1>11, <2>2, <2>3 DEF Reported, u
<1>12. CASE t[1] # Report(g)
  <2>1. B = ReportsOf(t, g)  BY <1>1, <1>12 DEF ReportsOf
  <2>2. Reported(t, g) \in Nat  BY ReportedType
  <2>3. Cardinality(A) = Cardinality(ReportsOf(t, g))  BY <1>10, <2>1
  <2>4. Reported(Tail(t), g) = Reported(t, g)  BY <2>3 DEF Reported, u
  <2>5. Head(t) # Report(g)  BY <1>2, <1>12
  <2> QED  BY <2>2, <2>4, <2>5
<1> QED  BY <1>11, <1>12

LEMMA ReportedNone ==
  ASSUME NEW t \in Seq(Tasks), NEW g \in Nat, Past(t, g)
  PROVE  Reported(t, g + 1) = 0 /\ Past(t, g + 1)
<1>1. ASSUME NEW k \in DOMAIN t  PROVE t[k] # Report(g + 1)
  <2>1. Report(g + 1).do = "consumed" /\ Report(g + 1).generation = g + 1  BY DEF Report
  <2>2. t[k].do = "consumed" => t[k].generation <= g  BY DEF Past
  <2> QED  BY <2>1, <2>2
<1>2. ReportsOf(t, g + 1) = {}  BY <1>1 DEF ReportsOf
<1>3. Reported(t, g + 1) = 0  BY <1>2, FS_EmptySet DEF Reported
<1>4. Past(t, g + 1)
  <2> SUFFICES ASSUME NEW k \in DOMAIN t, t[k].do = "consumed"  PROVE t[k].generation <= g + 1  BY DEF Past
  <2>1. t[k].generation <= g  BY DEF Past
  <2>2. t[k] \in Tasks
    <3>1. DOMAIN t = 1..Len(t)  OBVIOUS
    <3> QED  BY <3>1, ElementOfSeq
  <2>3. t[k].generation \in Nat  BY <2>2 DEF Tasks
  <2> QED  BY <2>1, <2>3
<1> QED  BY <1>3, <1>4

(***************************************************************************)
(* The invariant                                                           *)
(***************************************************************************)
\* The recording is loaded first, before anything can have been heard.
LoadFirst ==
  \A k \in DOMAIN tasks : tasks[k].do = "load" =>
    k = 1 /\ engine = "off" /\ heard = <<>> /\ start = 0

\* Without a decoder there are no buffers in flight, and no reports that count.
ClosedIdle == ~dec.open => feed.inFlight = 0

\* The invariant.
Inductive ==
  /\ TypeOK /\ LoadFirst /\ ClosedIdle
  /\ Counts(Now, Reported(tasks, feed.generation))
  /\ Past(tasks, feed.generation)
  /\ Runs(Now, heard)

\* The invariant stays, and playback is not begun.
Keeps == Inductive' /\ (node'.playing => node.playing)

LEMMA NowIs ==
  ASSUME TypeOK
  PROVE  /\ Now \in States /\ Bounded(node.queue)
         /\ Now.dec = dec /\ Now.node = node /\ Now.feed = feed /\ Now.start = start
<1>1. /\ Now.dec = dec /\ Now.node = node /\ Now.feed = feed /\ Now.start = start
  BY DEF Now
<1>2. Now \in States  BY DEF TypeOK, Now, States, Feeds, N
<1> QED  BY <1>1, <1>2 DEF TypeOK, Bounded

LEMMA StepTo ==
  ASSUME TypeOK, NEW a \in States, Becomes(a), UNCHANGED recording,
         a.feed.inFlight <= 3, Bounded(a.node.queue), Runs(a, heard'),
         ~a.dec.open => a.feed.inFlight = 0,
         tasks' \in Seq(Tasks), Past(tasks', a.feed.generation), LoadFirst',
         Counts(a, Reported(tasks', a.feed.generation)),
         starved' \in BOOLEAN, engine' \in {"off", "running", "raised"}, ops' \in 0..MaxOps,
         heard' \in Seq(Nat)
  PROVE  Inductive'
<1>1. Now' = a
  <2>1. Now' = [dec |-> a.dec, node |-> a.node, feed |-> a.feed, shown |-> a.shown, start |-> a.start]
    BY DEF Now, Becomes
  <2>2. a = [dec |-> a.dec, node |-> a.node, feed |-> a.feed, shown |-> a.shown, start |-> a.start]
    BY DEF States
  <2> QED  BY <2>1, <2>2
<1>2. /\ dec' = a.dec /\ node' = a.node /\ feed' = a.feed /\ shown' = a.shown /\ start' = a.start
  BY DEF Becomes
<1>3. TypeOK'
  <2>1. recording' \in Recordings  BY DEF TypeOK
  <2>2. Packets' = Packets /\ N = Len(Packets)  BY DEF Packets, N
  <2>3. Decoders' = Decoders /\ Tasks' = Tasks  BY <2>2 DEF Decoders, Tasks
  <2>4. dec' \in Decoders /\ node' \in Nodes /\ shown' \in BOOLEAN /\ start' \in 0..N + 1
    BY <1>2 DEF States
  <2>5. feed' \in Feeds
    <3>1. a.feed \in [generation : Nat, inFlight : Nat, atEnd : BOOLEAN]  BY DEF States
    <3>2. a.feed.inFlight \in 0..3  BY <3>1
    <3> QED  BY <1>2, <3>1, <3>2 DEF Feeds
  <2>6. \A k \in DOMAIN node'.queue : Len(node'.queue[k]) \in 1..Cap  BY <1>2 DEF Bounded
  <2> QED  BY <2>1, <2>2, <2>3, <2>4, <2>5, <2>6 DEF TypeOK, Nodes, Feeds
<1>4. ClosedIdle'  BY <1>2 DEF ClosedIdle
<1>5. Runs(Now, heard)'
  <2>1. \A i, j : Frames(i, j)' = Frames(i, j)  BY DEF Frames, Packets, FramesOf
  <2>2. N' = N /\ AllFrames' = AllFrames  BY <2>1 DEF N, AllFrames, Packets
  <2>3. \A d : Pending(d)' = Pending(d)  BY <2>1, <2>2 DEF Pending
  <2>4. Sequel(Now)' = Sequel(a)  BY <1>1, <2>1, <2>2 DEF Sequel
  <2>5. Pending(Now.dec)' = Pending(a.dec)  BY <1>1, <2>3
  <2> QED  BY <1>1, <2>2, <2>3, <2>4, <2>5 DEF Runs, ToCome, InOrder, Follows, Sound, Before
<1>6. Past(tasks, feed.generation)'  BY <1>2 DEF Past
<1>7. Counts(Now, Reported(tasks, feed.generation))'
  BY <1>1, <1>2 DEF Counts, Reported, ReportsOf, Report
<1> QED  BY <1>3, <1>4, <1>5, <1>6, <1>7 DEF Inductive

\* What is left of the queue when its first task has been taken.
LEMMA TakenIs ==
  ASSUME Inductive, NEW what, Takes(what), NEW t, t = Tail(tasks)
  PROVE  /\ tasks \in Seq(Tasks) /\ tasks # <<>> /\ Head(tasks) \in Tasks /\ Head(tasks).do = what
         /\ t \in Seq(Tasks) /\ NoLoad(t) /\ Past(t, feed.generation)
         /\ feed.generation \in Nat
         /\ Reported(tasks, feed.generation)
              = Reported(t, feed.generation) + IF Head(tasks) = Report(feed.generation) THEN 1 ELSE 0
<1>1. tasks \in Seq(Tasks) /\ tasks # <<>> /\ Head(tasks).do = what /\ feed.generation \in Nat
  BY DEF Inductive, TypeOK, Takes, Feeds
<1>2. /\ Head(tasks) \in Tasks /\ t \in Seq(Tasks) /\ Len(t) = Len(tasks) - 1
      /\ \A k \in 1..Len(t) : t[k] = tasks[k + 1]
  BY <1>1, HeadTailProperties
<1>3. DOMAIN t = 1..Len(t) /\ DOMAIN tasks = 1..Len(tasks) /\ Len(t) \in Nat /\ Len(tasks) \in Nat
  BY <1>1, <1>2, LenProperties
<1>4. ASSUME NEW k \in DOMAIN t  PROVE k + 1 \in DOMAIN tasks /\ k + 1 # 1 /\ t[k] = tasks[k + 1]
  BY <1>2, <1>3
<1>5. NoLoad(t)  BY <1>4 DEF NoLoad, Inductive, LoadFirst
<1>6. Past(t, feed.generation)  BY <1>4 DEF Past, Inductive
<1>7. Reported(tasks, feed.generation)
        = Reported(t, feed.generation) + IF Head(tasks) = Report(feed.generation) THEN 1 ELSE 0
  BY <1>1, ReportedTail
<1> QED  BY <1>1, <1>2, <1>5, <1>6, <1>7

\* The reports of the buffers that the node drops.
LEMMA DroppedIs ==
  ASSUME TypeOK, NEW t \in Seq(Tasks), NoLoad(t), Past(t, feed.generation),
         NEW u, u = t \o Dropped
  PROVE  u \in Seq(Tasks) /\ NoLoad(u) /\ Past(u, feed.generation)
<1>1. feed.generation \in Nat /\ Len(node.queue) \in Nat
  BY LenProperties DEF TypeOK, Feeds, Nodes
<1>2. Report(feed.generation) \in Tasks  BY <1>1 DEF Report, Tasks
<1>3. Dropped \in Seq(Tasks) /\ \A k \in 1..Len(Dropped) : Dropped[k] = Report(feed.generation)
  <2> DEFINE n == Len(node.queue)
             d == [k \in 1..n |-> Report(feed.generation)]
  <2>1. d \in [1..n -> Tasks]  BY <1>2
  <2>2. n \in Nat  BY <1>1
  <2>4. Dropped = d  BY DEF Dropped
  <2>5. \A k \in 1..n : d[k] = Report(feed.generation)  OBVIOUS
  <2> HIDE DEF n, d
  <2>3. d \in Seq(Tasks) /\ Len(d) = n  BY <2>1, <2>2, SeqDef, LenProperties
  <2> QED  BY <2>3, <2>4, <2>5
<1>4. /\ u \in Seq(Tasks) /\ Len(u) = Len(t) + Len(Dropped)
      /\ \A k \in 1..Len(t) + Len(Dropped) : u[k] = IF k <= Len(t) THEN t[k] ELSE Dropped[k - Len(t)]
  BY <1>3, ConcatProperties
<1>5. ASSUME NEW k \in DOMAIN u
      PROVE  (k \in DOMAIN t /\ u[k] = t[k]) \/ u[k] = Report(feed.generation)
  <2>1. /\ DOMAIN u = 1..Len(u) /\ DOMAIN t = 1..Len(t) /\ Len(t) \in Nat
        /\ Len(Dropped) \in Nat
    BY <1>3, <1>4, LenProperties
  <2>2. CASE k <= Len(t)
    <3>1. k \in 1..Len(t) /\ k \in 1..Len(t) + Len(Dropped)  BY <1>4, <2>1, <2>2
    <3> QED  BY <1>4, <2>1, <2>2, <3>1
  <2>3. CASE ~(k <= Len(t))
    <3>1. k - Len(t) \in 1..Len(Dropped) /\ k \in 1..Len(t) + Len(Dropped)  BY <1>4, <2>1, <2>3
    <3> QED  BY <1>3, <1>4, <2>3, <3>1
  <2> QED  BY <2>2, <2>3
<1>6. Report(feed.generation).do = "consumed" /\ Report(feed.generation).generation = feed.generation
  BY DEF Report
<1>7. NoLoad(u)  BY <1>5, <1>6 DEF NoLoad
<1>8. Past(u, feed.generation)  BY <1>1, <1>5, <1>6 DEF Past
<1> QED  BY <1>4, <1>7, <1>8

(***************************************************************************)
(* The steps                                                               *)
(***************************************************************************)
LEMMA InitInductive == Init => Inductive
<1> SUFFICES ASSUME Init  PROVE Inductive  OBVIOUS
<1> DEFINE load == [do |-> "load"]
<1>1. recording \in Recordings /\ N \in Nat /\ MaxOps \in Nat  BY PacketsType, AudioAssumption DEF Init
<1>2. <<>> \in Seq(Nat) /\ <<>> \in Seq(Seq(Nat))  OBVIOUS
<1>3. tasks = <<load>> /\ load \in Tasks  BY DEF Init, Tasks
<1>4. /\ tasks \in Seq(Tasks) /\ DOMAIN tasks = {1} /\ tasks[1] = load
      /\ load.do = "load"
  <2>1. load.do = "load"  OBVIOUS
  <2> HIDE DEF load
  <2> QED  BY <1>3, <2>1
<1>5. dec \in Decoders  BY <1>1, <1>2 DEF Init, Closed, Decoders, N
<1>6. TypeOK
  <2>1. node \in Nodes /\ feed \in Feeds /\ node.queue = <<>>  BY <1>2 DEF Init, Nodes, Feeds
  <2>2. start \in 0..Len(Packets) + 1 /\ ops \in 0..MaxOps  BY <1>1 DEF Init, N
  <2>3. \A k \in DOMAIN node.queue : Len(node.queue[k]) \in 1..Cap  BY <2>1
  <2>4. shown \in BOOLEAN /\ starved \in BOOLEAN /\ engine \in {"off", "running", "raised"} /\ heard \in Seq(Nat)
    BY <1>2 DEF Init
  <2> QED  BY <1>1, <1>4, <1>5, <2>1, <2>2, <2>3, <2>4 DEF TypeOK
<1>7. LoadFirst /\ ClosedIdle  BY <1>4 DEF Init, LoadFirst, ClosedIdle
<1>8. Past(tasks, feed.generation)  BY <1>4 DEF Past
<1>9. Counts(Now, Reported(tasks, feed.generation))
  <2>1. ReportsOf(tasks, feed.generation) = {}  BY <1>4 DEF ReportsOf, Report
  <2>2. Reported(tasks, feed.generation) = 0  BY <2>1, FS_EmptySet DEF Reported
  <2>3. Now.feed.inFlight = 0 /\ Now.node.queue = <<>>  BY DEF Now, Init
  <2> QED  BY <2>2, <2>3 DEF Counts
<1>10. Runs(Now, heard)
  <2>1. /\ Now.dec = Closed /\ Now.node.queue = <<>> /\ Now.start = 0 /\ heard = <<>>
        /\ ~Now.dec.open
    BY DEF Now, Init, Closed
  <2>2. AllFrames \in Seq(Nat)
    <3>1. 1 \in 1..N + 1 /\ N \in 1 - 1..N  BY <1>1
    <3> QED  BY <1>1, <3>1, SpanType DEF AllFrames
  <2>3. Pending(Closed) = AllFrames  BY <2>2, ConcatEmptySeq DEF Pending, Closed, AllFrames
  <2>4. AllFrames = <<>> \o AllFrames  BY <2>2, ConcatEmptySeq
  <2>5. ToCome(Now.dec)  BY <1>2, <2>1, <2>3, <2>4 DEF ToCome
  <2>6. Sound(Now, heard) = <<>>
    <3>1. FlattenSeq(<<>>) = <<>>  BY <1>2, FlattenIs
    <3> QED  BY <1>2, <2>1, <3>1, ConcatEmptySeq DEF Sound
  <2>7. Sequel(Now) = (<<>> \o Sound(Now, heard)) \o AllFrames
    <3>1. Sequel(Now) = AllFrames  BY <2>1 DEF Sequel, AllFrames
    <3>2. <<>> \o <<>> = <<>>  BY <1>2, ConcatEmptySeq
    <3> QED  BY <2>4, <2>6, <3>1, <3>2
  <2>8. Before(Now, <<>>)  BY <1>2 DEF Before
  <2>9. InOrder(Now, heard)  BY <1>2, <2>2, <2>7, <2>8 DEF InOrder
  <2> QED  BY <2>1, <2>5, <2>9 DEF Runs
<1> QED  BY <1>6, <1>7, <1>8, <1>9, <1>10 DEF Inductive

\* A step that leaves the player as it is.
LEMMA StepSame ==
  ASSUME Inductive, UNCHANGED <<recording, player, start>>, LoadFirst',
         tasks' \in Seq(Tasks), Past(tasks', feed.generation),
         Reported(tasks', feed.generation) = Reported(tasks, feed.generation),
         heard' = heard,
         starved' \in BOOLEAN, engine' \in {"off", "running", "raised"}, ops' \in 0..MaxOps
  PROVE  Keeps
<1>1. TypeOK  BY DEF Inductive
<1>2. /\ Now \in States /\ Bounded(node.queue)
      /\ Now.dec = dec /\ Now.node = node /\ Now.feed = feed /\ Now.start = start
  BY <1>1, NowIs
<1>3. Becomes(Now)  BY DEF Becomes, Now, player
<1>4. feed.inFlight <= 3 /\ heard \in Seq(Nat)  BY <1>1 DEF TypeOK, Feeds
<1>5. Counts(Now, Reported(tasks', Now.feed.generation))  BY <1>2 DEF Inductive
<1>6. Runs(Now, heard') /\ (~Now.dec.open => Now.feed.inFlight = 0)
  BY <1>2 DEF Inductive, ClosedIdle
<1>7. Inductive'  BY <1>1, <1>2, <1>3, <1>4, <1>5, <1>6, StepTo
<1> QED  BY <1>7 DEF Keeps, player

LEMMA AsksKeeps ==
  ASSUME Inductive, NEW task \in Tasks, task.do \notin {"load", "consumed"}, Asks(task)
  PROVE  Keeps
<1>1. tasks \in Seq(Tasks) /\ tasks' = Append(tasks, task) /\ ops' \in 0..MaxOps
      /\ starved' \in BOOLEAN /\ engine' \in {"off", "running", "raised"}
  BY AudioAssumption DEF Asks, Inductive, TypeOK
<1>2. tasks' \in Seq(Tasks) /\ tasks'[Len(tasks) + 1] = task /\ DOMAIN tasks' = 1..Len(tasks) + 1
      /\ \A k \in 1..Len(tasks) : tasks'[k] = tasks[k]
  BY <1>1, AppendProperties, LenProperties
<1>3. \A k \in DOMAIN tasks' : (k \in DOMAIN tasks /\ tasks'[k] = tasks[k]) \/ tasks'[k] = task
  <2>1. Len(tasks) \in Nat /\ DOMAIN tasks = 1..Len(tasks)  BY <1>1, LenProperties
  <2>2. \A k \in 1..Len(tasks) + 1 : k \in 1..Len(tasks) \/ k = Len(tasks) + 1  BY <2>1
  <2> QED  BY <1>2, <2>1, <2>2
<1>4. Past(tasks', feed.generation)  BY <1>3 DEF Inductive, Past
<1>5. LoadFirst'  BY <1>3 DEF Inductive, LoadFirst, Asks
<1>6. Reported(tasks', feed.generation) = Reported(tasks, feed.generation)
  <2>1. task # Report(feed.generation)  BY DEF Report
  <2>2. Reported(tasks, feed.generation) \in Nat  BY <1>1, ReportedType
  <2> QED  BY <1>1, <2>1, <2>2, ReportedAppend
<1> QED  BY <1>1, <1>2, <1>4, <1>5, <1>6, StepSame DEF Asks

LEMMA ConsumesKeeps ==
  ASSUME Inductive, Consumes
  PROVE  Keeps
<1>1. TypeOK /\ feed.generation \in Nat /\ feed.inFlight \in Nat /\ feed.inFlight <= 3
  BY DEF Inductive, TypeOK, Feeds
<1>2. /\ Now \in States /\ Bounded(node.queue)
      /\ Now.dec = dec /\ Now.node = node /\ Now.feed = feed /\ Now.start = start
  BY <1>1, NowIs
<1> DEFINE q == node.queue
           x == Head(q)
           r == Tail(q)
           a == [Now EXCEPT !.node = [playing |-> TRUE, queue |-> r]]
<1>3. /\ q \in Seq(Seq(Nat)) /\ q # <<>> /\ node.playing /\ node = [playing |-> TRUE, queue |-> q]
      /\ heard \in Seq(Nat) /\ tasks \in Seq(Tasks)
  BY <1>1 DEF Consumes, TypeOK, Nodes
<1>4. /\ x \in Seq(Nat) /\ r \in Seq(Seq(Nat)) /\ Len(q) \in Nat /\ Len(r) = Len(q) - 1
      /\ \A k \in 1..Len(r) : r[k] = q[k + 1]
      /\ q = <<x>> \o r
  BY <1>3, HeadTailProperties
<1>5. /\ heard' = heard \o x /\ node' = [playing |-> TRUE, queue |-> r]
      /\ tasks' = Append(tasks, Report(feed.generation))
      /\ UNCHANGED <<recording, dec, feed, shown, engine, ops, start, starved>>
  BY <1>3 DEF Consumes
<1> HIDE DEF x, r
<1>6. /\ a \in States /\ a.dec = dec /\ a.feed = feed /\ a.start = start /\ a.shown = shown
      /\ a.node = [playing |-> TRUE, queue |-> r]
  BY <1>2, <1>4 DEF Now, States, Nodes
<1> HIDE DEF a
<1>7. Becomes(a)  BY <1>5, <1>6 DEF Becomes
<1>8. Bounded(a.node.queue)
  <2>1. DOMAIN r = 1..Len(r) /\ DOMAIN q = 1..Len(q) /\ a.node.queue = r  BY <1>3, <1>4, <1>6, LenProperties
  <2>2. \A k \in 1..Len(r) : k + 1 \in 1..Len(q)  BY <1>4
  <2> QED  BY <1>2, <1>4, <2>1, <2>2 DEF Bounded
<1>9. /\ heard' \in Seq(Nat) /\ Sound(a, heard') = Sound(Now, heard)
  <2>1. FlattenSeq(q) = x \o FlattenSeq(r)
    <3>1. <<x>> \in Seq(Seq(Nat)) /\ <<x>> = Append(<<>>, x) /\ <<>> \in Seq(Seq(Nat))  BY <1>4
    <3>2. FlattenSeq(<<x>>) = FlattenSeq(<<>>) \o x  BY <1>4, <3>1, FlattenAppend
    <3>3. FlattenSeq(<<>>) = <<>> /\ <<>> \o x = x  BY <1>4, <3>1, FlattenIs, ConcatEmptySeq
    <3>4. FlattenSeq(<<x>> \o r) = FlattenSeq(<<x>>) \o FlattenSeq(r)  BY <1>4, <3>1, FlattenConcat
    <3> QED  BY <1>4, <3>2, <3>3, <3>4
  <2>2. FlattenSeq(r) \in Seq(Nat)  BY <1>4, FlattenIs
  <2>3. (heard \o x) \o FlattenSeq(r) = heard \o (x \o FlattenSeq(r))
    BY <1>3, <1>4, <2>2, JoinAssociative, Zenon
  <2>4. heard \o x \in Seq(Nat)  BY <1>3, <1>4, ConcatProperties
  <2>5. a.node.queue = r /\ Now.node.queue = q  BY <1>2, <1>6
  <2> QED  BY <1>5, <2>1, <2>3, <2>4, <2>5, Zenon DEF Sound
<1>10. Runs(a, heard')
  <2>1. Sequel(a) = Sequel(Now) /\ \A y : Before(a, y) = Before(Now, y)  BY <1>2, <1>6 DEF Sequel, Before
  <2>2. Runs(Now, heard)  BY DEF Inductive
  <2> QED  BY <1>2, <1>6, <1>9, <2>1, <2>2 DEF Runs, InOrder, Follows
<1>11. /\ tasks' \in Seq(Tasks) /\ Past(tasks', feed.generation) /\ LoadFirst'
       /\ Reported(tasks', feed.generation) = Reported(tasks, feed.generation) + 1
  <2> DEFINE rep == Report(feed.generation)
  <2>1. rep \in Tasks /\ rep.do = "consumed" /\ rep.generation = feed.generation
    BY <1>1 DEF Report, Tasks
  <2>2. tasks' = Append(tasks, rep)  BY <1>5
  <2>3. Reported(tasks', feed.generation) = Reported(tasks, feed.generation) + 1
    BY <1>3, <2>1, <2>2, ReportedAppend
  <2> HIDE DEF rep
  <2>4. tasks' \in Seq(Tasks) /\ tasks'[Len(tasks) + 1] = rep /\ DOMAIN tasks' = 1..Len(tasks) + 1
        /\ \A k \in 1..Len(tasks) : tasks'[k] = tasks[k]
    BY <1>3, <2>1, <2>2, AppendProperties, LenProperties
  <2>5. \A k \in DOMAIN tasks' : (k \in DOMAIN tasks /\ tasks'[k] = tasks[k]) \/ tasks'[k] = rep
    <3>1. Len(tasks) \in Nat /\ DOMAIN tasks = 1..Len(tasks)  BY <1>3, LenProperties
    <3>2. \A k \in 1..Len(tasks) + 1 : k \in 1..Len(tasks) \/ k = Len(tasks) + 1  BY <3>1
    <3> QED  BY <2>4, <3>1, <3>2
  <2>6. Past(tasks', feed.generation)  BY <1>1, <2>1, <2>5 DEF Inductive, Past
  <2>7. \A k \in DOMAIN tasks : tasks[k].do # "load"  BY DEF Inductive, LoadFirst, Consumes
  <2>8. LoadFirst'  BY <2>1, <2>5, <2>7 DEF LoadFirst
  <2> QED  BY <2>3, <2>4, <2>6, <2>8
<1>12. Counts(a, Reported(tasks', a.feed.generation))
  <2>1. Reported(tasks, feed.generation) \in Nat  BY <1>3, ReportedType
  <2>2. feed.inFlight = Len(q) + Reported(tasks, feed.generation)  BY <1>2 DEF Inductive, Counts
  <2>3. a.node.queue = r /\ a.feed = feed  BY <1>6
  <2> QED  BY <1>4, <1>11, <2>1, <2>2, <2>3 DEF Counts
<1>13. ~a.dec.open => a.feed.inFlight = 0  BY <1>6 DEF Inductive, ClosedIdle
<1>14. a.feed.inFlight <= 3 /\ a.feed.generation = feed.generation  BY <1>1, <1>6
<1>15. starved' \in BOOLEAN /\ engine' \in {"off", "running", "raised"} /\ ops' \in 0..MaxOps
  BY <1>1, <1>5 DEF TypeOK
<1>16. Inductive'
  BY <1>1, <1>5, <1>6, <1>7, <1>8, <1>9, <1>10, <1>11, <1>12, <1>13, <1>14, <1>15, StepTo
<1> QED  BY <1>3, <1>16 DEF Keeps

\* A step of the serial queue that schedules anew, under a new generation.
LEMMA StepNewer ==
  ASSUME Inductive, NEW a \in States, Becomes(a), UNCHANGED recording,
         a.feed.generation = feed.generation + 1,
         a.feed.inFlight <= 3, Counts(a, 0), Bounded(a.node.queue), Runs(a, heard'),
         ~a.dec.open => a.feed.inFlight = 0,
         tasks' \in Seq(Tasks), NoLoad(tasks'), Past(tasks', feed.generation),
         starved' \in BOOLEAN, engine' \in {"off", "running", "raised"}, ops' \in 0..MaxOps,
         heard' \in Seq(Nat)
  PROVE  Inductive'
<1>1. TypeOK /\ feed.generation \in Nat  BY DEF Inductive, TypeOK, Feeds
<1>2. Reported(tasks', a.feed.generation) = 0 /\ Past(tasks', a.feed.generation)
  BY <1>1, ReportedNone
<1>3. LoadFirst'  BY DEF NoLoad, LoadFirst
<1> QED  BY <1>1, <1>2, <1>3, StepTo

LEMMA TornDownIs ==
  ASSUME Inductive, NEW a, a = TornDown
  PROVE  /\ a \in States /\ a.dec = Closed /\ ~a.node.playing /\ a.node.queue = <<>>
         /\ a.feed = [generation |-> feed.generation + 1, inFlight |-> 0, atEnd |-> FALSE]
         /\ a.start = start
         /\ Counts(a, 0) /\ Bounded(a.node.queue) /\ Runs(a, heard)
<1>1. /\ recording \in Recordings /\ N \in Nat /\ feed.generation \in Nat /\ start \in 0..N + 1
      /\ heard \in Seq(Nat) /\ node.queue \in Seq(Seq(Nat))
  BY PacketsType DEF Inductive, TypeOK, Feeds, Nodes, N
<1>2. <<>> \in Seq(Nat) /\ <<>> \in Seq(Seq(Nat))  OBVIOUS
<1>3. Closed \in Decoders  BY <1>1, <1>2 DEF Closed, Decoders, N
<1>4. a = [dec |-> Closed, node |-> [playing |-> FALSE, queue |-> <<>>],
           feed |-> [generation |-> feed.generation + 1, inFlight |-> 0, atEnd |-> FALSE],
           shown |-> FALSE, start |-> start]
  <2> DEFINE stopped == [playing |-> FALSE, queue |-> <<>>]
             g == [generation |-> feed.generation + 1, inFlight |-> 0, atEnd |-> FALSE]
             t == [Now EXCEPT !.node = stopped]
  <2>1. t = [dec |-> dec, node |-> stopped, feed |-> feed, shown |-> shown, start |-> start]
    <3> HIDE DEF stopped
    <3> QED  BY DEF Now
  <2>2. t = StopNode(Now) /\ t.feed = feed
    <3>1. t = StopNode(Now)  BY DEF StopNode
    <3> HIDE DEF t
    <3> QED  BY <2>1, <3>1
  <2>3. a = [t EXCEPT !.dec = Closed, !.shown = FALSE, !.feed = g]
    BY <2>2 DEF TornDown
  <2> HIDE DEF stopped, g, t
  <2>4. a = [x \in {"dec", "node", "feed", "shown", "start"} |->
               IF x = "feed" THEN g ELSE IF x = "shown" THEN FALSE ELSE IF x = "dec" THEN Closed ELSE t[x]]
    BY <2>1, <2>3
  <2>5. a = [dec |-> Closed, node |-> stopped, feed |-> g, shown |-> FALSE, start |-> start]
    BY <2>1, <2>4
  <2> QED  BY <2>5 DEF stopped, g
<1>5. /\ a \in States /\ a.dec = Closed /\ ~a.node.playing /\ a.node.queue = <<>>
      /\ a.feed = [generation |-> feed.generation + 1, inFlight |-> 0, atEnd |-> FALSE]
      /\ a.start = start
  BY <1>1, <1>2, <1>3, <1>4 DEF States, Nodes
<1>6. Counts(a, 0) /\ Bounded(a.node.queue)  BY <1>5 DEF Counts, Bounded
<1>7. ToCome(Closed)
  <2>1. AllFrames \in Seq(Nat)
    <3>1. 1 \in 1..N + 1 /\ N \in 1 - 1..N  BY <1>1
    <3> QED  BY <1>1, <3>1, SpanType DEF AllFrames
  <2>2. Pending(Closed) = AllFrames  BY <2>1, ConcatEmptySeq DEF Pending, Closed, AllFrames
  <2>3. AllFrames = <<>> \o AllFrames  BY <2>1, ConcatEmptySeq
  <2> QED  BY <1>2, <2>2, <2>3 DEF ToCome
<1>8. InOrder(a, heard)
  <2>1. /\ Now \in States /\ Now.node.queue = node.queue /\ Now.start = start
    BY NowIs DEF Inductive
  <2> DEFINE f == FlattenSeq(node.queue)
  <2>2. PICK x, y \in Seq(Nat) : Before(Now, x) /\ Sequel(Now) = (x \o Sound(Now, heard)) \o y
    BY DEF Inductive, Runs, InOrder
  <2>3. f \in Seq(Nat)  BY <1>1, FlattenIs
  <2>4. Sound(Now, heard) = heard \o f  BY <2>1 DEF Sound
  <2>5. Sound(a, heard) = heard
    <3>1. FlattenSeq(<<>>) = <<>>  BY <1>2, FlattenIs
    <3> QED  BY <1>1, <1>5, <3>1, ConcatEmptySeq DEF Sound
  <2>6. Sequel(a) = Sequel(Now) /\ Before(a, x)  BY <1>5, <2>1, <2>2 DEF Sequel, Before
  <2> HIDE DEF f
  <2>7. x \o (heard \o f) = (x \o heard) \o f  BY <1>1, <2>3, JoinAssociative, Zenon
  <2>8. x \o heard \in Seq(Nat) /\ f \o y \in Seq(Nat)  BY <1>1, <2>3, ConcatProperties
  <2>9. ((x \o heard) \o f) \o y = (x \o heard) \o (f \o y)
    <3>1. x \o heard \in Seq(Nat)  BY <2>8
    <3> QED  BY <2>3, <3>1, JoinAssociative, Zenon
  <2>10. Sequel(a) = (x \o Sound(a, heard)) \o (f \o y)
    BY <2>2, <2>4, <2>5, <2>6, <2>7, <2>9, Zenon
  <2> QED  BY <2>6, <2>8, <2>10 DEF InOrder
<1>9. ~a.dec.open  BY <1>5 DEF Closed
<1>10. Runs(a, heard)  BY <1>5, <1>7, <1>8, <1>9 DEF Runs
<1> QED  BY <1>5, <1>6, <1>10

LEMMA LoadKeeps ==
  ASSUME Inductive, Load
  PROVE  Keeps
<1> DEFINE t == Tail(tasks)
           o == [TornDown EXCEPT !.dec.open = TRUE]
           f == [generation |-> feed.generation + 1, inFlight |-> 0, atEnd |-> FALSE]
<1>1. /\ tasks \in Seq(Tasks) /\ tasks # <<>> /\ Head(tasks).do = "load"
      /\ t \in Seq(Tasks) /\ NoLoad(t) /\ Past(t, feed.generation) /\ feed.generation \in Nat
      /\ tasks' = t
  BY TakenIs DEF Load
<1>2. heard = <<>> /\ start = 0
  <2>1. 1 \in DOMAIN tasks /\ tasks[1] = Head(tasks)  BY <1>1
  <2> QED  BY <1>1, <2>1 DEF Inductive, LoadFirst
<1>3. /\ UNCHANGED <<recording, ops, heard, starved>> /\ starved \in BOOLEAN
      /\ engine \in {"off", "running", "raised"} /\ ops \in 0..MaxOps /\ heard \in Seq(Nat)
      /\ recording \in Recordings
  BY DEF Load, Inductive, TypeOK
<1>4. /\ TornDown \in States /\ TornDown.dec = Closed /\ ~TornDown.node.playing /\ TornDown.node.queue = <<>>
      /\ TornDown.feed = f /\ TornDown.start = start
      /\ Counts(TornDown, 0) /\ Bounded(TornDown.node.queue) /\ Runs(TornDown, heard)
  BY TornDownIs
<1>5. N \in Nat /\ AllFrames \in Seq(Nat) /\ <<>> \in Seq(Nat)
  <2>1. N \in Nat  BY <1>3, PacketsType
  <2>2. 1 \in 1..N + 1 /\ N \in 1 - 1..N  BY <2>1
  <2> QED  BY <1>3, <2>1, <2>2, SpanType DEF AllFrames
<1> DEFINE d == [open |-> TRUE, next |-> 1, leftover |-> <<>>]
<1>6. /\ o \in States /\ o.dec = d /\ o.dec.open /\ o.node = TornDown.node
      /\ o.feed = f /\ o.shown = TornDown.shown /\ o.start = 0
  <2>1. d \in Decoders /\ d.open  BY <1>5 DEF Decoders, N
  <2>2. [Closed EXCEPT !.open = TRUE] = d
    <3>1. /\ Closed = [x \in {"open", "next", "leftover"} |-> Closed[x]]
          /\ Closed.next = 1 /\ Closed.leftover = <<>>
      BY DEF Closed
    <3>2. ASSUME NEW b  PROVE [Closed EXCEPT !.open = b] = [open |-> b, next |-> 1, leftover |-> <<>>]
      <4>1. [Closed EXCEPT !.open = b] = [x \in {"open", "next", "leftover"} |-> IF x = "open" THEN b ELSE Closed[x]]
        BY <3>1
      <4> QED  BY <3>1, <4>1
    <3> QED  BY <3>2
  <2> DEFINE torn == TornDown
  <2>3. /\ torn \in States /\ torn.dec = Closed /\ torn.feed = f /\ torn.start = 0
    BY <1>2, <1>4
  <2>4. o = [torn EXCEPT !.dec = [@ EXCEPT !.open = TRUE]]  OBVIOUS
  <2> HIDE DEF torn, o, d, f
  <2>5. o = [torn EXCEPT !.dec = d]  BY <2>2, <2>3, <2>4 DEF States
  <2>6. o \in States /\ o.dec = d /\ o.node = torn.node /\ o.feed = f /\ o.shown = torn.shown /\ o.start = 0
    BY <2>1, <2>3, <2>5 DEF States
  <2> QED  BY <2>1, <2>6 DEF torn
<1>7. f.generation = feed.generation + 1 /\ f.inFlight = 0 /\ ~f.atEnd  OBVIOUS
<1> HIDE DEF o, f
<1>8. ASSUME NEW a \in States, a.dec = d, a.node = TornDown.node, a.feed = f, a.start \in {0, 1}
      PROVE  Silent(a, feed.generation + 1, <<>>, 0)
  <2>1. Pending(d) = AllFrames  BY <1>5, ConcatEmptySeq DEF Pending, AllFrames
  <2>2. Sequel(a) = AllFrames  BY <1>8 DEF Sequel, AllFrames
  <2>3. Sound(a, <<>>) = <<>>
    <3>1. <<>> \in Seq(Seq(Nat))  OBVIOUS
    <3>2. FlattenSeq(<<>>) = <<>>  BY <3>1, FlattenIs
    <3> QED  BY <1>4, <1>5, <1>8, <3>2, ConcatEmptySeq DEF Sound
  <2>4. AllFrames = <<>> \o AllFrames  BY <1>5, ConcatEmptySeq
  <2>5. ToCome(a.dec)  BY <1>5, <1>8, <2>1, <2>4 DEF ToCome
  <2>6. Before(a, <<>>)  BY <1>5 DEF Before
  <2>7. Sequel(a) = <<>> \o (Sound(a, <<>>) \o Pending(a.dec))  BY <1>8, <2>1, <2>2, <2>3, <2>4
  <2>8. Follows(a, <<>>)  BY <1>5, <2>6, <2>7 DEF Follows
  <2>9. Runs(a, <<>>)  BY <1>3, <1>5, <2>5, <2>8, FollowsInOrder DEF Runs
  <2>10. Counts(a, 0) /\ Bounded(a.node.queue)  BY <1>4, <1>7, <1>8 DEF Counts, Bounded
  <2> QED  BY <1>4, <1>7, <1>8, <2>9, <2>10 DEF Silent
<1>9. CASE \E a \in {TornDown, o} : Becomes(a) /\ UNCHANGED engine
  <2>1. PICK a \in {TornDown, o} : Becomes(a) /\ UNCHANGED engine  BY <1>9
  <2>2. Silent(o, feed.generation + 1, <<>>, 0)  BY <1>6, <1>8
  <2>3. /\ a \in States /\ a.feed.generation = feed.generation + 1 /\ a.feed.inFlight = 0
        /\ Counts(a, 0) /\ Bounded(a.node.queue) /\ Runs(a, heard') /\ ~a.node.playing
    BY <1>2, <1>3, <1>4, <1>6, <1>7, <2>1, <2>2 DEF Silent
  <2>4. a.feed.inFlight <= 3  BY <2>3
  <2>5. Inductive'
    BY <1>1, <1>3, <2>1, <2>3, <2>4, StepNewer
  <2> QED  BY <2>1, <2>3, <2>5 DEF Keeps, Becomes
<1>10. CASE /\ \E a \in Primed({[o EXCEPT !.start = 1]}) : Becomes(a)
            /\ engine' = "running"
  <2> DEFINE p == [o EXCEPT !.start = 1]
  <2>1. /\ p \in States /\ p.dec = d /\ p.node = TornDown.node /\ p.feed = f /\ p.start = 1
    BY <1>5, <1>6 DEF States
  <2> HIDE DEF p
  <2>2. Silent(p, feed.generation + 1, <<>>, 0)  BY <1>8, <2>1
  <2>3. PICK a \in Primed({p}) : Becomes(a)  BY <1>10 DEF p
  <2>4. \A b \in {p} : Silent(b, feed.generation + 1, <<>>, 0)  BY <2>2
  <2>5. feed.generation + 1 \in Nat  BY <1>1
  <2>6. Silent(a, feed.generation + 1, <<>>, 3)  BY <1>3, <1>5, <2>3, <2>4, <2>5, PrimedIs
  <2>7. Inductive'
    BY <1>1, <1>2, <1>3, <1>10, <2>3, <2>6, StepNewer DEF Silent
  <2> QED  BY <2>3, <2>6, <2>7 DEF Keeps, Becomes, Silent
<1> QED  BY <1>9, <1>10 DEF Load, o

LEMMA DoSeekKeeps ==
  ASSUME Inductive, DoSeek
  PROVE  Keeps
<1> DEFINE t == Tail(tasks)
<1>1. /\ tasks \in Seq(Tasks) /\ tasks # <<>> /\ Head(tasks) \in Tasks /\ Head(tasks).do = "seek"
      /\ t \in Seq(Tasks) /\ NoLoad(t) /\ Past(t, feed.generation) /\ feed.generation \in Nat
      /\ Reported(tasks, feed.generation)
           = Reported(t, feed.generation) + IF Head(tasks) = Report(feed.generation) THEN 1 ELSE 0
  BY TakenIs DEF DoSeek
<1>2. Head(tasks).to \in 1..N + 1 /\ Head(tasks) # Report(feed.generation)
  BY <1>1 DEF Tasks, N, Report
<1>3. TypeOK /\ UNCHANGED <<recording, engine, ops>>  BY DEF Inductive, DoSeek
<1>4. starved \in BOOLEAN /\ engine' \in {"off", "running", "raised"} /\ ops' \in 0..MaxOps
      /\ recording \in Recordings
  BY <1>3 DEF TypeOK
<1>5. CASE ~dec.open
  <2>1. tasks' = t /\ UNCHANGED <<player, heard, start, starved>>  BY <1>5 DEF DoSeek
  <2>2. LoadFirst'  BY <1>1, <2>1 DEF NoLoad, LoadFirst
  <2>3. Reported(t, feed.generation) \in Nat  BY <1>1, ReportedType
  <2> QED  BY <1>1, <1>2, <1>3, <1>4, <2>1, <2>2, <2>3, StepSame
<1>6. CASE dec.open
  <2>1. PICK a \in seekTo(Now, Head(tasks).to) :
          Becomes(a) /\ starved' = (a.node.playing /\ a.feed.inFlight = 0)
    BY <1>6 DEF DoSeek
  <2>2. tasks' = t \o Dropped /\ heard' = <<>>  BY <1>6 DEF DoSeek
  <2>3. Now \in States /\ Now.dec.open /\ Now.node = node /\ Now.feed = feed  BY <1>3, <1>6, NowIs
  <2>4. ToCome(Now.dec)  BY DEF Inductive, Runs
  <2>5. /\ a \in States /\ a.dec.open /\ (a.node.playing => node.playing)
        /\ a.feed.generation = feed.generation + 1 /\ a.feed.inFlight <= 3
        /\ Counts(a, 0) /\ Bounded(a.node.queue) /\ Runs(a, <<>>)
    BY <1>2, <1>4, <2>1, <2>3, <2>4, seekToIs
  <2>6. tasks' \in Seq(Tasks) /\ NoLoad(tasks') /\ Past(tasks', feed.generation)
    BY <1>1, <1>3, <2>2, DroppedIs
  <2>7. <<>> \in Seq(Nat) /\ starved' \in BOOLEAN  BY <2>1
  <2>8. Inductive'  BY <1>3, <1>4, <2>1, <2>2, <2>5, <2>6, <2>7, StepNewer
  <2> QED  BY <2>1, <2>5, <2>8 DEF Keeps, Becomes
<1> QED  BY <1>5, <1>6

LEMMA StopKeeps ==
  ASSUME Inductive, Stop
  PROVE  Keeps
<1> DEFINE t == Tail(tasks)
           a == TornDown
<1>1. /\ t \in Seq(Tasks) /\ NoLoad(t) /\ Past(t, feed.generation) /\ feed.generation \in Nat
  BY TakenIs DEF Stop
<1>2. TypeOK /\ UNCHANGED <<recording, ops, heard, starved>> /\ engine' = "off" /\ Becomes(a)
      /\ tasks' = t \o Dropped
  BY DEF Inductive, Stop
<1>3. starved' \in BOOLEAN /\ engine' \in {"off", "running", "raised"} /\ ops' \in 0..MaxOps
      /\ heard' \in Seq(Nat)
  BY <1>2 DEF TypeOK
<1>4. tasks' \in Seq(Tasks) /\ NoLoad(tasks') /\ Past(tasks', feed.generation)
  BY <1>1, <1>2, DroppedIs
<1>5. /\ a \in States /\ ~a.node.playing
      /\ a.feed = [generation |-> feed.generation + 1, inFlight |-> 0, atEnd |-> FALSE]
      /\ Counts(a, 0) /\ Bounded(a.node.queue) /\ Runs(a, heard)
  BY TornDownIs
<1> HIDE DEF a
<1>6. a.feed.generation = feed.generation + 1 /\ a.feed.inFlight = 0 /\ a.feed.inFlight <= 3  BY <1>5
<1>7. Inductive'  BY <1>2, <1>3, <1>4, <1>5, <1>6, StepNewer
<1> QED  BY <1>2, <1>5, <1>7 DEF Keeps, Becomes

LEMMA ConsumedKeeps ==
  ASSUME Inductive, Consumed
  PROVE  Keeps
<1> DEFINE t == Tail(tasks)
           g == feed.generation
           a == [Now EXCEPT !.feed.inFlight = @ - 1]
<1>1. /\ tasks \in Seq(Tasks) /\ tasks # <<>> /\ Head(tasks) \in Tasks /\ Head(tasks).do = "consumed"
      /\ t \in Seq(Tasks) /\ NoLoad(t) /\ Past(t, g) /\ g \in Nat
      /\ Reported(tasks, g) = Reported(t, g) + IF Head(tasks) = Report(g) THEN 1 ELSE 0
      /\ tasks' = t
  BY TakenIs DEF Consumed
<1>2. Reported(t, g) \in Nat  BY <1>1, ReportedType
<1>3. Head(tasks) = Report(g) <=> Head(tasks).generation = g  BY <1>1 DEF Tasks, Report
<1>4. TypeOK /\ UNCHANGED <<recording, engine, ops, heard, starved>> /\ recording \in Recordings
      /\ starved' \in BOOLEAN /\ engine' \in {"off", "running", "raised"} /\ ops' \in 0..MaxOps
      /\ heard' = heard /\ heard \in Seq(Nat)
      /\ feed.inFlight \in 0..3
  BY DEF Inductive, Consumed, TypeOK, Feeds
<1>5. LoadFirst'  BY <1>1 DEF NoLoad, LoadFirst
<1>6. CASE Head(tasks).generation # g
  <2>1. UNCHANGED <<player, start>>  BY <1>6 DEF Consumed
  <2> QED  BY <1>1, <1>2, <1>3, <1>4, <1>5, <1>6, <2>1, StepSame
<1>7. CASE Head(tasks).generation = g
  <2>1. /\ Now \in States /\ Bounded(node.queue)
        /\ Now.dec = dec /\ Now.node = node /\ Now.feed = feed /\ Now.start = start
    BY <1>4, NowIs
  <2>2. Len(node.queue) \in Nat /\ feed.inFlight = Len(node.queue) + Reported(t, g) + 1
    <3>1. Reported(tasks, g) = Reported(t, g) + 1  BY <1>1, <1>3, <1>7
    <3>2. Len(node.queue) \in Nat  BY <1>4, LenProperties DEF TypeOK, Nodes
    <3>3. feed.inFlight = Len(node.queue) + Reported(tasks, g)  BY <2>1 DEF Inductive, Counts
    <3> HIDE DEF t, g
    <3> QED  BY <1>2, <3>1, <3>2, <3>3
  <2>3. feed.inFlight >= 1 /\ dec.open
    <3> HIDE DEF t, g
    <3> QED  BY <1>2, <1>4, <2>2 DEF Inductive, ClosedIdle
  <2>4. /\ a \in States /\ a.dec = dec /\ a.node = node /\ a.start = start
        /\ a.feed.inFlight = feed.inFlight - 1 /\ a.feed.generation = g /\ a.feed.atEnd = feed.atEnd
    <3>1. feed.inFlight - 1 \in Nat  BY <1>4, <2>3
    <3> DEFINE f == [feed EXCEPT !.inFlight = @ - 1]
    <3>2. f \in [generation : Nat, inFlight : Nat, atEnd : BOOLEAN]
          /\ f.inFlight = feed.inFlight - 1 /\ f.generation = g /\ f.atEnd = feed.atEnd
      BY <1>4, <3>1 DEF TypeOK, Feeds
    <3>3. a = [Now EXCEPT !.feed = f]  BY <2>1
    <3> HIDE DEF f, a
    <3> QED  BY <2>1, <3>2, <3>3 DEF States
  <2>5. PICK b \in {scheduleNext(a)} : Becomes(b)  BY <1>7 DEF Consumed
  <2> HIDE DEF a, t, g
  <2>6. Counts(a, Reported(t, g)) /\ Bounded(a.node.queue)
    BY <1>2, <1>4, <2>1, <2>2, <2>4 DEF Counts
  <2>7. Runs(a, heard)
    <3>1. Sound(a, heard) = Sound(Now, heard) /\ Sequel(a) = Sequel(Now) /\ \A x : Before(a, x) = Before(Now, x)
      BY <2>1, <2>4 DEF Sound, Sequel, Before
    <3>2. Runs(Now, heard)  BY DEF Inductive
    <3> QED  BY <2>1, <2>4, <3>1, <3>2 DEF Runs, InOrder, Follows
  <2>8. /\ b \in States /\ b.dec.open
        /\ b.feed.generation = g
        /\ b.feed.inFlight <= a.feed.inFlight + 1
        /\ b.node.playing => node.playing
        /\ Counts(b, Reported(t, g)) /\ Bounded(b.node.queue) /\ Runs(b, heard)
    BY <1>2, <1>4, <2>3, <2>4, <2>5, <2>6, <2>7, ScheduleIs
  <2>9. b.feed.inFlight <= 3
    <3>1. b.feed.inFlight \in Nat  BY <2>8 DEF States
    <3> QED  BY <1>4, <2>4, <2>8, <3>1
  <2>10. Inductive'
    BY <1>1, <1>4, <1>5, <2>5, <2>8, <2>9, StepTo
  <2> QED  BY <2>5, <2>8, <2>10 DEF Keeps, Becomes
<1> QED  BY <1>6, <1>7

LEMMA DoToggleKeeps ==
  ASSUME Inductive, DoToggle
  PROVE  Inductive'
<1> DEFINE t == Tail(tasks)
<1>1. /\ tasks \in Seq(Tasks) /\ tasks # <<>> /\ Head(tasks) \in Tasks /\ Head(tasks).do = "toggle"
      /\ t \in Seq(Tasks) /\ NoLoad(t) /\ Past(t, feed.generation) /\ feed.generation \in Nat
      /\ Reported(tasks, feed.generation)
           = Reported(t, feed.generation) + IF Head(tasks) = Report(feed.generation) THEN 1 ELSE 0
  BY TakenIs DEF DoToggle
<1>2. Head(tasks) # Report(feed.generation)  BY <1>1 DEF Report
<1>3. Reported(t, feed.generation) = Reported(tasks, feed.generation)
  <2>1. Reported(t, feed.generation) \in Nat  BY <1>1, ReportedType
  <2> HIDE DEF t
  <2> QED  BY <1>1, <1>2, <2>1
<1>4. /\ TypeOK /\ UNCHANGED <<recording, ops>> /\ ops' \in 0..MaxOps /\ recording \in Recordings
      /\ starved \in BOOLEAN /\ engine \in {"off", "running", "raised"} /\ heard \in Seq(Nat)
      /\ tasks' = t \o IF feed'.generation # feed.generation THEN Dropped ELSE <<>>
  BY DEF Inductive, DoToggle, TypeOK
<1>5. feed'.generation = feed.generation => tasks' = t /\ LoadFirst'
  <2> SUFFICES ASSUME feed'.generation = feed.generation  PROVE tasks' = t /\ LoadFirst'  OBVIOUS
  <2>1. tasks' = t  BY <1>1, <1>4, ConcatEmptySeq
  <2> QED  BY <1>1, <2>1 DEF NoLoad, LoadFirst
<1>6. /\ Now \in States /\ Bounded(node.queue)
      /\ Now.dec = dec /\ Now.node = node /\ Now.feed = feed /\ Now.start = start
  BY <1>4, NowIs
<1> HIDE DEF t
<1>7. CASE ~dec.open \/ (dec.open /\ ~node.playing /\ engine = "off")
  <2>1. UNCHANGED <<player, heard, start, starved>> /\ engine' \in {"off", "running", "raised"}
    BY <1>4, <1>7 DEF DoToggle
  <2>2. feed' = feed  BY <2>1 DEF player
  <2> QED  BY <1>1, <1>3, <1>4, <1>5, <2>1, <2>2, StepSame DEF Keeps
<1>8. CASE dec.open /\ node.playing
  <2>1. /\ node' = [node EXCEPT !.playing = FALSE] /\ shown' = FALSE
        /\ UNCHANGED <<dec, feed, engine, heard, start, starved>>
    BY <1>8 DEF DoToggle
  <2> DEFINE p == [node EXCEPT !.playing = FALSE]
             a == [dec |-> dec, node |-> p, feed |-> feed, shown |-> FALSE, start |-> start]
  <2>2. p \in Nodes /\ p.queue = node.queue  BY <1>4 DEF TypeOK, Nodes
  <2> HIDE DEF p
  <2>3. a \in States  BY <1>4, <2>2 DEF TypeOK, States, Feeds, N
  <2>4. a.dec = dec /\ a.node = p /\ a.feed = feed /\ a.start = start /\ Becomes(a)
    BY <2>1 DEF Becomes, p
  <2> HIDE DEF a
  <2>5. Runs(a, heard)
    <3>1. Sound(a, heard) = Sound(Now, heard) /\ Sequel(a) = Sequel(Now) /\ \A x : Before(a, x) = Before(Now, x)
      BY <1>6, <2>2, <2>4 DEF Sound, Sequel, Before
    <3>2. Runs(Now, heard)  BY DEF Inductive
    <3> QED  BY <1>6, <2>4, <3>1, <3>2 DEF Runs, InOrder, Follows
  <2>6. Counts(a, Reported(tasks, feed.generation)) /\ Bounded(a.node.queue)
    BY <1>6, <2>2, <2>4 DEF Inductive, Counts
  <2>7. feed.inFlight <= 3 /\ (~dec.open => feed.inFlight = 0)  BY <1>4 DEF TypeOK, Feeds, Inductive, ClosedIdle
  <2>8. tasks' = t /\ LoadFirst' /\ heard' = heard  BY <1>5, <2>1
  <2>9. Counts(a, Reported(tasks', a.feed.generation)) /\ Past(tasks', a.feed.generation) /\ tasks' \in Seq(Tasks)
    BY <1>1, <1>3, <2>4, <2>6, <2>8
  <2> QED  BY <1>4, <2>1, <2>3, <2>4, <2>5, <2>6, <2>7, <2>8, <2>9, StepTo
<1>9. CASE dec.open /\ ~node.playing /\ engine = "running"
  <2>1. PICK a \in IF feed.atEnd THEN seekTo(Now, 1) ELSE {Now} :
          Becomes(Plays(a)) /\ starved' = (a.feed.inFlight = 0)
    BY <1>9 DEF DoToggle
  <2>2. heard' = (IF feed.atEnd THEN <<>> ELSE heard) /\ UNCHANGED engine /\ starved' \in BOOLEAN
    BY <1>9, <2>1 DEF DoToggle
  <2>3. CASE feed.atEnd
    <3>1. ToCome(Now.dec) /\ 1 \in 1..N + 1
      <4>1. N \in Nat  BY <1>4, PacketsType
      <4> QED  BY <4>1 DEF Inductive, Runs
    <3>2. /\ a \in States /\ a.dec.open
          /\ a.feed.generation = feed.generation + 1 /\ a.feed.inFlight <= 3
          /\ Counts(a, 0) /\ Bounded(a.node.queue) /\ Runs(a, <<>>)
      BY <1>4, <1>6, <1>9, <2>1, <2>3, <3>1, seekToIs
    <3> DEFINE b == Plays(a)
    <3>3. /\ b \in States /\ b.dec = a.dec /\ b.feed = a.feed /\ b.node.queue = a.node.queue
          /\ Runs(b, <<>>) /\ Becomes(b)
      BY <2>1, <3>2, PlaysIs
    <3> HIDE DEF b
    <3>4. feed' = b.feed  BY <3>3 DEF Becomes
    <3>5. tasks' = t \o Dropped
      <4>1. feed'.generation # feed.generation  BY <1>1, <3>2, <3>3, <3>4
      <4> QED  BY <1>4, <4>1
    <3>6. tasks' \in Seq(Tasks) /\ NoLoad(tasks') /\ Past(tasks', feed.generation)
      BY <1>1, <1>4, <3>5, DroppedIs
    <3>7. /\ Counts(b, 0) /\ Bounded(b.node.queue) /\ b.feed.generation = feed.generation + 1
          /\ b.feed.inFlight <= 3 /\ b.dec.open
      BY <3>2, <3>3 DEF Counts
    <3>8. heard' = <<>> /\ <<>> \in Seq(Nat) /\ engine' \in {"off", "running", "raised"}  BY <1>4, <2>2, <2>3
    <3> QED  BY <1>4, <2>2, <3>3, <3>6, <3>7, <3>8, StepNewer
  <2>4. CASE ~feed.atEnd
    <3> DEFINE b == Plays(Now)
    <3>1. a = Now  BY <2>1, <2>4
    <3>2. /\ b \in States /\ b.dec = dec /\ b.feed = feed /\ b.node.queue = node.queue
          /\ Runs(b, heard) /\ Becomes(b)
      <4>1. Runs(Now, heard)  BY DEF Inductive
      <4> QED  BY <1>6, <2>1, <3>1, <4>1, PlaysIs
    <3> HIDE DEF b
    <3>3. feed' = feed /\ heard' = heard /\ engine' = engine  BY <2>2, <2>4, <3>2 DEF Becomes
    <3>4. tasks' = t /\ LoadFirst'  BY <1>5, <3>3
    <3>5. Counts(b, Reported(tasks', b.feed.generation)) /\ Past(tasks', b.feed.generation)
          /\ tasks' \in Seq(Tasks) /\ Bounded(b.node.queue)
      BY <1>1, <1>3, <1>6, <3>2, <3>4 DEF Inductive, Counts
    <3>6. feed.inFlight <= 3 /\ (~dec.open => feed.inFlight = 0)
      BY <1>4 DEF TypeOK, Feeds, Inductive, ClosedIdle
    <3> QED  BY <1>4, <2>2, <3>2, <3>3, <3>4, <3>5, <3>6, StepTo
  <2> QED  BY <2>3, <2>4
<1>10. engine = "raised" => FALSE  BY DEF DoToggle, Takes
<1> QED  BY <1>4, <1>7, <1>8, <1>9, <1>10

LEMMA PieceIs ==
  ASSUME NEW s \in Seq(Nat), NEW i \in Nat, NEW k \in Nat, i + k <= Len(s)
  PROVE  /\ SubSeq(s, i + 1, i + k) \in Seq(Nat) /\ Len(SubSeq(s, i + 1, i + k)) = k
         /\ \A j \in 1..k : SubSeq(s, i + 1, i + k)[j] = s[i + j]
<1> DEFINE p == SubSeq(s, i + 1, i + k)
<1>1. p \in Seq(Nat) /\ Len(p) = k /\ \A j \in 1..k : p[j] = s[i + j]
  <2>1. Len(s) \in Nat
    OBVIOUS
  <2>2. \A j \in 1..k : p[j] = s[i + j]
    BY <2>1
  <2>3. p \in Seq(Nat)
    BY <2>1
  <2>4. Len(p) = k
    BY <2>1
  <2> QED  BY <2>2, <2>3, <2>4
<1> QED  BY <1>1

(***************************************************************************)
(* The theorems                                                            *)
(***************************************************************************)
\* Every step keeps the invariant, and only the user's toggle begins playback.
LEMMA StepKeeps ==
  ASSUME Inductive, [Next]_vars
  PROVE  Inductive' /\ (~node.playing /\ node'.playing => Takes("toggle"))
<1>1. CASE Toggle
  <2>1. [do |-> "toggle"] \in Tasks  BY DEF Tasks
  <2> QED  BY <1>1, <2>1, AsksKeeps DEF Toggle, Keeps
<1>2. CASE Leave
  <2>1. [do |-> "stop"] \in Tasks  BY DEF Tasks
  <2> QED  BY <1>2, <2>1, AsksKeeps DEF Leave, Keeps
<1>3. ASSUME NEW k \in 1..Len(Packets) + 1, Scrub(k)
      PROVE  Inductive' /\ (~node.playing /\ node'.playing => Takes("toggle"))
  <2>1. [do |-> "seek", to |-> k] \in Tasks  BY DEF Tasks
  <2> QED  BY <1>3, <2>1, AsksKeeps DEF Scrub, Keeps
<1>4. CASE Consumes  BY <1>4, ConsumesKeeps DEF Keeps
<1>5. CASE Load  BY <1>5, LoadKeeps DEF Keeps
<1>6. CASE DoToggle  BY <1>6, DoToggleKeeps DEF DoToggle
<1>7. CASE DoSeek  BY <1>7, DoSeekKeeps DEF Keeps
<1>8. CASE Consumed  BY <1>8, ConsumedKeeps DEF Keeps
<1>9. CASE Stop  BY <1>9, StopKeeps DEF Keeps
<1>10. CASE UNCHANGED vars
  <2>1. UNCHANGED <<recording, player, start>> /\ tasks' = tasks /\ heard' = heard /\ starved' = starved
        /\ engine' = engine /\ ops' = ops
    BY <1>10 DEF vars
  <2>2. LoadFirst'  BY <2>1 DEF LoadFirst, Inductive
  <2> QED  BY <2>1, <2>2, StepSame DEF Inductive, TypeOK, Keeps
<1> QED
  BY <1>1, <1>2, <1>3, <1>4, <1>5, <1>6, <1>7, <1>8, <1>9, <1>10 DEF Next, Serial

\* Whatever the recording and the requests: the count in flight is that of the
\* buffers and reports of this generation, reports are never of a generation to
\* come, without a decoder nothing is in flight, and what has been heard, what
\* is scheduled and what is left to decode follow one another in the recording.
THEOREM PlayerInvariant == Spec => []Inductive
<1>1. Inductive /\ [Next]_vars => Inductive'  BY StepKeeps
<1> QED  BY InitInductive, <1>1, PTL DEF Spec

\* The variables of decoder, player, node and serial queue keep their types.
THEOREM TypeCorrect == Spec => []TypeOK
<1>1. Inductive => TypeOK  BY DEF Inductive
<1> QED  BY PlayerInvariant, <1>1, PTL

\* The count on which the end of playback hangs (inFlight in main.swift) is that
\* of the buffers scheduled and of the reports still to come, after any seeks,
\* stops and decoder errors.
THEOREM FlightCount == Spec => []InFlightExact
<1>1. Inductive => InFlightExact
  BY NowIs DEF Inductive, InFlightExact, Counts, Reported, ReportsOf
<1> QED  BY PlayerInvariant, <1>1, PTL

\* What is heard after a seek is one stretch of the recording from where it was
\* sought, for any packets, lengths and damage: leftover frames of before the
\* seek never come first, and no frame comes twice.
THEOREM SoundOrder == Spec => []HeardInOrder
<1>1. Inductive => HeardInOrder
  <2> SUFFICES ASSUME Inductive  PROVE HeardInOrder  OBVIOUS
  <2>1. /\ Now \in States /\ Now.node = node /\ Now.start = start /\ heard \in Seq(Nat)
    BY NowIs DEF Inductive, TypeOK
  <2> DEFINE sound == Sound(Now, heard)
             rest == Sequel(Now)
  <2>2. PICK x, y \in Seq(Nat) : Before(Now, x) /\ rest = (x \o sound) \o y
    BY DEF Inductive, Runs, InOrder
  <2>3. sound \in Seq(Nat)  BY <2>1, SoundType
  <2>4. sound = heard \o FlattenSeq(node.queue) /\ rest = Frames(IF start = 0 THEN 1 ELSE start, Len(Packets))
    BY <2>1 DEF Sound, Sequel, N
  <2> HIDE DEF sound, rest
  <2>5. /\ Len(x) \in 0..Len(rest) /\ Len(sound) \in Nat
        /\ sound = SubSeq(rest, Len(x) + 1, Len(x) + Len(sound))
    <3>1. /\ x \o sound \in Seq(Nat) /\ Len(x \o sound) = Len(x) + Len(sound)
          /\ \A i \in 1..Len(x) + Len(sound) : (x \o sound)[i] = IF i <= Len(x) THEN x[i] ELSE sound[i - Len(x)]
      BY <2>3, ConcatProperties
    <3>2. /\ rest \in Seq(Nat) /\ Len(rest) = Len(x \o sound) + Len(y)
          /\ \A i \in 1..Len(x \o sound) + Len(y) :
               rest[i] = IF i <= Len(x \o sound) THEN (x \o sound)[i] ELSE y[i - Len(x \o sound)]
      BY <2>2, <3>1, ConcatProperties
    <3>3. Len(x) \in Nat /\ Len(sound) \in Nat /\ Len(y) \in Nat  BY <2>3, LenProperties
    <3> DEFINE p == SubSeq(rest, Len(x) + 1, Len(x) + Len(sound))
    <3>4. Len(x) + Len(sound) <= Len(rest)  BY <3>1, <3>2, <3>3
    <3>5. p \in Seq(Nat) /\ Len(p) = Len(sound) /\ \A i \in 1..Len(sound) : p[i] = rest[Len(x) + i]
      <4>1. rest \in Seq(Nat)  BY <3>2
      <4> QED  BY <3>3, <3>4, <4>1, PieceIs, Zenon
    <3>6. \A i \in 1..Len(sound) : rest[Len(x) + i] = sound[i]
      <4> TAKE i \in 1..Len(sound)
      <4>1. /\ Len(x) + i \in 1..Len(x) + Len(sound) /\ ~(Len(x) + i <= Len(x)) /\ Len(x) + i - Len(x) = i
            /\ Len(x) + i \in 1..Len(x \o sound) + Len(y) /\ Len(x) + i <= Len(x \o sound)
        BY <3>1, <3>3
      <4>2. rest[Len(x) + i] = (x \o sound)[Len(x) + i]  BY <3>2, <4>1
      <4>3. (x \o sound)[Len(x) + i] = sound[i]  BY <3>1, <4>1
      <4> QED  BY <4>2, <4>3
    <3> HIDE DEF p
    <3>7. sound = p  BY <2>3, <3>5, <3>6, SeqEqual
    <3>8. Len(x) \in 0..Len(rest)  BY <3>1, <3>2, <3>3
    <3> QED  BY <3>3, <3>7, <3>8 DEF p
  <2>6. CASE start # 0
    <3>1. x = <<>> /\ Len(x) = 0  BY <2>1, <2>2, <2>6 DEF Before
    <3>2. sound = SubSeq(rest, 1, Len(sound))  BY <2>5, <3>1
    <3> QED  BY <2>4, <2>6, <3>2, Zenon DEF HeardInOrder
  <2>7. CASE start = 0
    <3>1. \E i \in 0..Len(rest) : sound = SubSeq(rest, i + 1, i + Len(sound))  BY <2>5
    <3> QED  BY <2>4, <2>7, <3>1, Zenon DEF HeardInOrder
  <2> QED  BY <2>6, <2>7
<1> QED  BY PlayerInvariant, <1>1, PTL

\* No load, seek, report or error begins playback: only the user's toggle does.
THEOREM Silence == Spec => SilentUntilAsked
<1>1. Inductive /\ [Next]_vars => [~node.playing /\ node'.playing => Takes("toggle")]_vars  BY StepKeeps
<1> QED  BY PlayerInvariant, <1>1, PTL DEF Spec, SilentUntilAsked
=============================================================================
