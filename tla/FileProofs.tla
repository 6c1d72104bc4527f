------------------------------ MODULE FileProofs ------------------------------
(***************************************************************************)
(* Proofs about the files of an open vault.  Namespace: whatever the paths *)
(* and limits, names stay unique, the counter covers every change, and a   *)
(* folder can be renamed back.  ByteRange: a file always holds some text,  *)
(* cut into full chunks, and every call treats it as one string of bytes.  *)
(***************************************************************************)
EXTENDS Namespace, ByteRange, NaturalsInduction, WellFoundedInduction,
        FiniteSetTheorems, SequenceTheorems, TLAPS

(***************************************************************************)
(* Induction, over sets instead of formulas                                *)
(***************************************************************************)
LEMMA LeastNat ==
  ASSUME NEW T, T \subseteq Nat, T # {}
  PROVE  \E x \in T : \A y \in T : x <= y
<1> DEFINE R == OpToRel(<, Nat)
<1>1. R = {ss \in Nat \X Nat : ss[1] < ss[2]}  BY Zenon DEF OpToRel
<1>2. IsWellFoundedOn(R, Nat)  BY Zenon, NatLessThanWellFounded
<1> HIDE DEF R
<1>3. PICK x \in T : \A y \in T : ~(<<y, x>> \in R)  BY <1>2, WFMin
<1>4. \A y \in T : ~(y < x)  BY <1>1, <1>3
<1> QED  BY <1>3, <1>4

LEMMA Induction ==
  ASSUME NEW T, 0 \in T, \A n \in Nat : n \in T => n + 1 \in T
  PROVE  Nat \subseteq T
<1> SUFFICES ASSUME ~(Nat \subseteq T) PROVE FALSE  OBVIOUS
<1> DEFINE U == Nat \ T
<1>1. U # {} /\ U \subseteq Nat  OBVIOUS
<1>2. PICK x \in U : \A y \in U : x <= y
  <2> HIDE DEF U
  <2> QED  BY <1>1, LeastNat
<1>3. x # 0 /\ x - 1 \in Nat /\ x - 1 \in T  BY <1>2
<1> QED  BY <1>2, <1>3

(***************************************************************************)
(* Filter                                                                  *)
(***************************************************************************)
\* f holds what is kept of the first elements of s, up to the n-th.
Keeps(f, s, S, n) ==
  f = [i \in 0..n |-> IF i = 0 THEN <<>>
                      ELSE IF s[i] \in S THEN Append(f[i - 1], s[i]) ELSE f[i - 1]]

LEMMA KeepsAt ==
  ASSUME NEW f, NEW s, NEW S, NEW n, Keeps(f, s, S, n), NEW i \in 0..n
  PROVE  f[i] = IF i = 0 THEN <<>>
                ELSE IF s[i] \in S THEN Append(f[i - 1], s[i]) ELSE f[i - 1]
<1>1. f[i] = [j \in 0..n |-> IF j = 0 THEN <<>>
                ELSE IF s[j] \in S THEN Append(f[j - 1], s[j]) ELSE f[j - 1]][i]
  BY Zenon DEF Keeps
<1> QED  BY <1>1, Zenon

LEMMA KeepsExists ==
  ASSUME NEW s, NEW S, NEW m \in Nat
  PROVE  \E f : Keeps(f, s, S, m)
<1> DEFINE T == {n \in Nat : \E f : Keeps(f, s, S, n)}
<1>1. 0 \in T
  <2>1. Keeps([i \in 0..0 |-> <<>>], s, S, 0)  BY DEF Keeps
  <2> QED  BY <2>1
<1>2. ASSUME NEW n \in Nat, n \in T  PROVE n + 1 \in T
  <2>1. PICK f : Keeps(f, s, S, n)  BY <1>2
  <2> DEFINE g == [i \in 0..n + 1 |->
                     IF i = n + 1 THEN IF s[i] \in S THEN Append(f[i - 1], s[i]) ELSE f[i - 1]
                     ELSE f[i]]
  <2>2. \A i \in 0..n : g[i] = f[i]  OBVIOUS
  <2>3. \A i \in 0..n + 1 : g[i] = IF i = 0 THEN <<>>
           ELSE IF s[i] \in S THEN Append(g[i - 1], s[i]) ELSE g[i - 1]
    <3> SUFFICES ASSUME NEW i \in 0..n + 1
                 PROVE  g[i] = IF i = 0 THEN <<>>
                               ELSE IF s[i] \in S THEN Append(g[i - 1], s[i]) ELSE g[i - 1]
      OBVIOUS
    <3>1. CASE i = n + 1
      <4>1. i # 0 /\ i - 1 \in 0..n  BY <3>1
      <4> QED  BY <3>1, <4>1, <2>2
    <3>2. CASE i \in 0..n
      <4>1. i # 0 => i - 1 \in 0..n  BY <3>2
      <4>2. f[i] = IF i = 0 THEN <<>>
                   ELSE IF s[i] \in S THEN Append(f[i - 1], s[i]) ELSE f[i - 1]
        BY <2>1, <3>2, KeepsAt
      <4> HIDE DEF g
      <4> QED  BY <3>2, <4>1, <4>2, <2>2
    <3> QED  BY <3>1, <3>2
  <2>4. g = [i \in 0..n + 1 |-> g[i]]  OBVIOUS
  <2> HIDE DEF g
  <2>5. Keeps(g, s, S, n + 1)  BY <2>3, <2>4, Zenon DEF Keeps
  <2> QED  BY <2>5
<1> HIDE DEF T
<1>3. Nat \subseteq T  BY <1>1, <1>2, Induction
<1>4. m \in T  BY <1>3
<1> QED  BY <1>4 DEF T

\* What is kept is of S, and it is all of a sequence of S.
LEMMA FilterIs ==
  ASSUME NEW T, NEW S, NEW s \in Seq(T)
  PROVE  /\ Filter(s, S) \in Seq(T \cap S)
         /\ s \in Seq(S) => Filter(s, S) = s
<1>1. PICK f : Keeps(f, s, S, Len(s)) /\ Filter(s, S) = f[Len(s)]
  <2> DEFINE f == CHOOSE f : Keeps(f, s, S, Len(s))
  <2>1. Keeps(f, s, S, Len(s))
    <3>1. Len(s) \in Nat  BY LenProperties
    <3>2. \E g : Keeps(g, s, S, Len(s))  BY <3>1, KeepsExists
    <3> QED  BY <3>2, Zenon
  <2>2. Filter(s, S) = f[Len(s)]  BY Zenon DEF Filter, Keeps
  <2> HIDE DEF f
  <2> QED  BY <2>1, <2>2
<1>2. f[0] = <<>> /\ Len(s) \in Nat  BY <1>1, KeepsAt
<1>3. ASSUME NEW n \in Nat, n + 1 <= Len(s)
      PROVE  /\ f[n + 1] = IF s[n + 1] \in S THEN Append(f[n], s[n + 1]) ELSE f[n]
             /\ s[n + 1] \in T
  <2>1. n + 1 \in 0..Len(s) /\ n + 1 \in 1..Len(s) /\ n + 1 # 0 /\ n + 1 - 1 = n  BY <1>3
  <2> QED  BY <1>1, <2>1, KeepsAt, ElementOfSeq
<1>4. Filter(s, S) \in Seq(T \cap S)
  <2> DEFINE U == {n \in Nat : n <= Len(s) => f[n] \in Seq(T \cap S)}
  <2>1. 0 \in U
    <3>1. <<>> \in Seq(T \cap S)  BY EmptySeq
    <3> QED  BY <1>2, <3>1
  <2>2. ASSUME NEW n \in Nat, n \in U  PROVE n + 1 \in U
    <3> SUFFICES ASSUME n + 1 <= Len(s)  PROVE f[n + 1] \in Seq(T \cap S)  OBVIOUS
    <3>1. f[n] \in Seq(T \cap S)  BY <2>2
    <3>2. s[n + 1] \in S => s[n + 1] \in T \cap S  BY <1>3
    <3>3. s[n + 1] \in S => Append(f[n], s[n + 1]) \in Seq(T \cap S)  BY <3>1, <3>2, AppendProperties
    <3> QED  BY <1>3, <3>1, <3>3
  <2> HIDE DEF U
  <2>3. Nat \subseteq U  BY <2>1, <2>2, Induction
  <2> QED  BY <1>1, <2>3 DEF U
<1>5. ASSUME s \in Seq(S)  PROVE Filter(s, S) = s
  <2> DEFINE U == {n \in Nat : n <= Len(s) =>
                     f[n] \in Seq(T) /\ Len(f[n]) = n /\ \A i \in 1..n : f[n][i] = s[i]}
  <2>1. 0 \in U
    <3>1. <<>> \in Seq(T) /\ Len(<<>>) = 0  BY EmptySeq
    <3>2. \A i \in 1..0 : f[0][i] = s[i]  OBVIOUS
    <3> QED  BY <1>2, <3>1, <3>2
  <2>2. ASSUME NEW n \in Nat, n \in U  PROVE n + 1 \in U
    <3> SUFFICES ASSUME n + 1 <= Len(s)
                 PROVE  /\ f[n + 1] \in Seq(T) /\ Len(f[n + 1]) = n + 1
                        /\ \A i \in 1..n + 1 : f[n + 1][i] = s[i]
      OBVIOUS
    <3>1. f[n] \in Seq(T) /\ Len(f[n]) = n /\ \A i \in 1..n : f[n][i] = s[i]  BY <2>2
    <3>2. s[n + 1] \in S
      <4>1. n + 1 \in 1..Len(s)  OBVIOUS
      <4> QED  BY <1>5, <4>1, ElementOfSeq
    <3>3. f[n + 1] = Append(f[n], s[n + 1]) /\ s[n + 1] \in T  BY <1>3, <3>2
    <3> HIDE DEF U
    <3> QED  BY <3>1, <3>3
  <2> HIDE DEF U
  <2>3. Nat \subseteq U  BY <2>1, <2>2, Induction
  <2>4. f[Len(s)] \in Seq(T) /\ Len(f[Len(s)]) = Len(s) /\ \A i \in 1..Len(s) : f[Len(s)][i] = s[i]
    BY <1>2, <2>3 DEF U
  <2> QED  BY <1>1, <2>4
<1> QED  BY <1>4, <1>5

(***************************************************************************)
(* Paths without empty components                                          *)
(***************************************************************************)
Clean == Seq(Comp)

\* A normalized path is one.
LEMMA NormalizeClean ==
  /\ \A p \in FolderPaths : Normalize(p) \in Path => Normalize(p) \in Clean
  /\ \A p \in Path : Normalize(p) \in Clean
  /\ \A p \in Clean : Normalize(p) = p /\ p \in Path
<1>1. ASSUME NEW p \in FolderPaths, Normalize(p) \in Path  PROVE Normalize(p) \in Clean
  <2>1. p \in Seq(Comp \cup {Empty, Control})  BY PathAssumption
  <2>2. Normalize(p) \in Seq((Comp \cup {Empty, Control}) \cap (Comp \cup {Control}))
    BY <2>1, FilterIs DEF Normalize
  <2> DEFINE n == Normalize(p)
  <2> HIDE DEF n
  <2>3. n \in Seq((Comp \cup {Empty, Control}) \cap (Comp \cup {Control})) /\ n \in Seq(Comp \cup {Empty})
    BY <1>1, <2>2 DEF n, Path
  <2>4. \A i \in 1..Len(n) : n[i] \in Comp
    <3> TAKE i \in 1..Len(n)
    <3>1. n[i] \in (Comp \cup {Empty, Control}) \cap (Comp \cup {Control})  BY <2>3, ElementOfSeq
    <3>2. n[i] \in Comp \cup {Empty}  BY <2>3, ElementOfSeq
    <3> QED  BY <3>1, <3>2, PathAssumption
  <2>5. n \in Seq(Comp)  BY <2>3, <2>4
  <2> QED  BY <2>5 DEF n, Clean
<1>2. ASSUME NEW p \in Path  PROVE Normalize(p) \in Clean
  <2>1. p \in Seq(Comp \cup {Empty})  BY DEF Path
  <2>2. Normalize(p) \in Seq((Comp \cup {Empty}) \cap (Comp \cup {Control}))
    BY <2>1, FilterIs DEF Normalize
  <2>3. (Comp \cup {Empty}) \cap (Comp \cup {Control}) = Comp  BY PathAssumption
  <2> QED  BY <2>2, <2>3 DEF Clean
<1>3. ASSUME NEW p \in Clean  PROVE Normalize(p) = p /\ p \in Path
  <2>1. p \in Seq(Comp \cup {Control}) /\ p \in Seq(Comp \cup {Empty}) /\ p \in Seq(Comp)
    BY DEF Clean
  <2> QED  BY <2>1, FilterIs DEF Normalize, Path
<1> QED  BY <1>1, <1>2, <1>3

\* p is q, or q is below p.
Begins(p, q) == Len(p) <= Len(q) /\ \A i \in 1..Len(p) : q[i] = p[i]

LEMMA PathIs ==
  ASSUME NEW p \in Clean
  PROVE  /\ Len(p) \in Nat /\ p \in Seq(Comp) /\ (p = <<>> <=> Len(p) = 0)
         /\ \A i \in 1..Len(p) : p[i] \in Comp
<1>1. QED  BY ElementOfSeq, EmptySeq, LenProperties DEF Clean

LEMMA SamePath ==
  ASSUME NEW p \in Clean, NEW q \in Clean, Len(p) = Len(q), \A i \in 1..Len(p) : p[i] = q[i]
  PROVE  p = q
<1>1. QED  BY SeqEqual DEF Clean

LEMMA PrefixIs ==
  ASSUME NEW q \in Clean, NEW k \in 0..Len(q)
  PROVE  /\ SubSeq(q, 1, k) \in Clean /\ Len(SubSeq(q, 1, k)) = k
         /\ \A i \in 1..k : SubSeq(q, 1, k)[i] = q[i]
<1>1. QED  BY DEF Clean

LEMMA UnderIs ==
  ASSUME NEW p \in Clean, NEW q \in Clean
  PROVE  Under(p, q) <=> Begins(p, q) /\ p # q
<1>1. Len(p) \in Nat /\ Len(q) \in Nat
  BY PathIs
<1>2. ASSUME Len(p) < Len(q)  PROVE SubSeq(q, 1, Len(p)) = p <=> \A i \in 1..Len(p) : q[i] = p[i]
  <2>1. Len(p) \in 0..Len(q)
    BY <1>1, <1>2
  <2> DEFINE t == SubSeq(q, 1, Len(p))
  <2>2. t \in Clean /\ Len(t) = Len(p) /\ \A i \in 1..Len(p) : t[i] = q[i]
    BY <2>1, PrefixIs
  <2> HIDE DEF t
  <2>3. t = p <=> \A i \in 1..Len(p) : q[i] = p[i]
    BY <2>2, SamePath
  <2> QED  BY <2>3 DEF t
<1>3. Len(p) = Len(q) /\ Begins(p, q) => p = q
  BY SamePath DEF Begins
<1>4. QED  BY <1>1, <1>2, <1>3 DEF Under, Begins

\* Of two paths to one place, one begins the other.
LEMMA Comparable ==
  ASSUME NEW p \in Clean, NEW q \in Clean, NEW r \in Clean
  PROVE  /\ Begins(p, r) /\ Begins(q, r) => Begins(p, q) \/ Begins(q, p)
         /\ Begins(p, q) /\ Begins(q, r) => Begins(p, r)
<1>1. Len(p) \in Nat /\ Len(q) \in Nat /\ Len(r) \in Nat
  BY PathIs
<1>2. QED  BY <1>1 DEF Begins

LEMMA AncestorsAre ==
  ASSUME NEW r \in Clean
  PROVE  /\ Ancestors(r) = {q \in Clean : q # <<>> /\ Begins(q, r)}
         /\ Ancestors(Front(r)) = {q \in Clean : q # <<>> /\ Under(q, r)}
<1>1. ASSUME NEW s \in Clean  PROVE Ancestors(s) = {q \in Clean : q # <<>> /\ Begins(q, s)}
  <2>1. Ancestors(s) = {SubSeq(s, 1, k) : k \in 1..Len(s)}
    BY NormalizeClean DEF Ancestors
  <2>2. ASSUME NEW k \in 1..Len(s)
        PROVE  SubSeq(s, 1, k) \in Clean /\ SubSeq(s, 1, k) # <<>> /\ Begins(SubSeq(s, 1, k), s)
    <3>1. k \in 0..Len(s) /\ k # 0 /\ k <= Len(s)
      BY PathIs
    <3> DEFINE q == SubSeq(s, 1, k)
    <3>2. q \in Clean /\ Len(q) = k /\ \A i \in 1..k : q[i] = s[i]
      BY <3>1, PrefixIs
    <3> HIDE DEF q
    <3>3. q \in Clean /\ q # <<>> /\ Begins(q, s)
      BY <3>1, <3>2, PathIs DEF Begins
    <3> QED  BY <3>3 DEF q
  <2>3. ASSUME NEW q \in Clean, q # <<>>, Begins(q, s)
        PROVE  \E k \in 1..Len(s) : q = SubSeq(s, 1, k)
    <3>1. Len(q) \in 1..Len(s) /\ Len(q) \in 0..Len(s)
      BY <2>3, PathIs DEF Begins
    <3> DEFINE p == SubSeq(s, 1, Len(q))
    <3>2. p \in Clean /\ Len(p) = Len(q) /\ \A i \in 1..Len(q) : p[i] = s[i]
      BY <3>1, PrefixIs
    <3> HIDE DEF p
    <3>3. p = q
      BY <2>3, <3>2, SamePath DEF Begins
    <3> QED  BY <3>1, <3>3 DEF p
  <2> QED  BY <2>1, <2>2, <2>3
<1>2. CASE r = <<>>
  <2>1. Front(r) = <<>> /\ <<>> \in Clean
    BY <1>2 DEF Front
  <2>2. \A q \in Clean : q # <<>> => ~Begins(q, r) /\ ~Under(q, r)
    BY <1>2, PathIs, UnderIs DEF Begins
  <2> QED  BY <1>1, <1>2, <2>1, <2>2
<1>3. CASE r # <<>>
  <2>1. /\ Front(r) \in Clean /\ Len(Front(r)) = Len(r) - 1 /\ Len(r) \in Nat
        /\ \A i \in 1..Len(r) - 1 : Front(r)[i] = r[i]
    <3>1. Len(r) - 1 \in 0..Len(r) /\ Len(r) \in Nat
      BY <1>3, PathIs
    <3> QED  BY <3>1, PrefixIs DEF Front
  <2>2. ASSUME NEW q \in Clean  PROVE Begins(q, Front(r)) <=> Under(q, r)
    <3>1. Len(q) \in Nat
      BY PathIs
    <3>2. Begins(q, r) /\ Len(q) = Len(r) => q = r
      BY SamePath DEF Begins
    <3>3. ASSUME Begins(q, Front(r))  PROVE Begins(q, r) /\ q # r
      <4>1. Len(q) <= Len(r) - 1 /\ \A i \in 1..Len(q) : Front(r)[i] = q[i]
        BY <2>1, <3>3 DEF Begins
      <4>2. \A i \in 1..Len(q) : r[i] = q[i]
        BY <2>1, <3>1, <4>1
      <4> QED  BY <2>1, <3>1, <4>1, <4>2 DEF Begins
    <3>4. ASSUME Begins(q, r), q # r  PROVE Begins(q, Front(r))
      <4>1. Len(q) <= Len(r) - 1
        BY <2>1, <3>1, <3>2, <3>4 DEF Begins
      <4>2. \A i \in 1..Len(q) : Front(r)[i] = q[i]
        BY <2>1, <3>1, <3>4, <4>1 DEF Begins
      <4> QED  BY <2>1, <4>1, <4>2 DEF Begins
    <3> QED  BY <3>3, <3>4, UnderIs
  <2> QED  BY <1>1, <2>1, <2>2
<1>4. QED  BY <1>2, <1>3

\* Renaming a folder moves what is below it below the new path, and back.
LEMMA ReprefixBack ==
  ASSUME NEW old \in Clean, NEW new \in Clean, NEW q \in Clean, Under(old, q)
  PROVE  /\ Reprefix(old, new, q) \in Clean
         /\ Under(new, Reprefix(old, new, q))
         /\ Reprefix(new, old, Reprefix(old, new, q)) = q
<1>1. ASSUME NEW a \in Clean, NEW b \in Clean, NEW r \in Clean, Under(a, r)
      PROVE  /\ Reprefix(a, b, r) \in Clean
             /\ Len(Reprefix(a, b, r)) = Len(b) + Len(r) - Len(a)
             /\ \A i \in 1..Len(b) : Reprefix(a, b, r)[i] = b[i]
             /\ \A i \in 1..Len(r) - Len(a) : Reprefix(a, b, r)[Len(b) + i] = r[Len(a) + i]
  <2>1. Len(a) \in Nat /\ Len(b) \in Nat /\ Len(r) \in Nat /\ Len(a) < Len(r)
    BY <1>1, PathIs DEF Under
  <2> DEFINE t == SubSeq(r, Len(a) + 1, Len(r))
  <2>2. t \in Seq(Comp) /\ Len(t) = Len(r) - Len(a) /\ \A i \in 1..Len(r) - Len(a) : t[i] = r[Len(a) + i]
    BY <2>1 DEF Clean
  <2> HIDE DEF t
  <2>3. /\ b \o t \in Seq(Comp) /\ Len(b \o t) = Len(b) + Len(t)
        /\ \A i \in 1..Len(b) : (b \o t)[i] = b[i]
        /\ \A i \in 1..Len(t) : (b \o t)[Len(b) + i] = t[i]
    <3>1. b \in Seq(Comp)
      BY PathIs
    <3>2. /\ b \o t \in Seq(Comp) /\ Len(b \o t) = Len(b) + Len(t)
          /\ \A i \in 1..Len(b) + Len(t) : (b \o t)[i] = IF i <= Len(b) THEN b[i] ELSE t[i - Len(b)]
      BY <2>2, <3>1, ConcatProperties
    <3>3. ASSUME NEW i \in 1..Len(t)
          PROVE  Len(b) + i \in 1..Len(b) + Len(t) /\ ~(Len(b) + i <= Len(b)) /\ Len(b) + i - Len(b) = i
      BY <2>1, <2>2
    <3>4. \A i \in 1..Len(b) : i \in 1..Len(b) + Len(t) /\ i <= Len(b)
      BY <2>1, <2>2
    <3> QED  BY <3>2, <3>3, <3>4
  <2>4. Reprefix(a, b, r) = b \o t
    BY DEF Reprefix, t
  <2> QED  BY <2>1, <2>2, <2>3, <2>4 DEF Clean
<1> DEFINE m == Reprefix(old, new, q)
<1>2. /\ m \in Clean /\ Len(m) = Len(new) + Len(q) - Len(old)
      /\ \A i \in 1..Len(new) : m[i] = new[i]
      /\ \A i \in 1..Len(q) - Len(old) : m[Len(new) + i] = q[Len(old) + i]
  BY <1>1
<1>3. Len(old) \in Nat /\ Len(new) \in Nat /\ Len(q) \in Nat /\ Len(old) < Len(q)
  BY PathIs DEF Under
<1> HIDE DEF m
<1>4. Under(new, m)
  <2>1. Begins(new, m) /\ new # m
    BY <1>2, <1>3 DEF Begins
  <2> QED  BY <1>2, <2>1, UnderIs
<1> DEFINE o == Reprefix(new, old, m)
<1>5. /\ o \in Clean /\ Len(o) = Len(q)
      /\ \A i \in 1..Len(old) : o[i] = old[i]
      /\ \A i \in 1..Len(q) - Len(old) : o[Len(old) + i] = m[Len(new) + i]
  <2>1. /\ o \in Clean /\ Len(o) = Len(old) + Len(m) - Len(new)
        /\ \A i \in 1..Len(old) : o[i] = old[i]
        /\ \A i \in 1..Len(m) - Len(new) : o[Len(old) + i] = m[Len(new) + i]
    BY <1>1, <1>2, <1>4
  <2>2. Len(m) - Len(new) = Len(q) - Len(old) /\ Len(old) + Len(m) - Len(new) = Len(q)
    BY <1>2, <1>3
  <2> QED  BY <2>1, <2>2
<1> HIDE DEF o
<1>6. o = q
  <2>1. Begins(old, q)
    BY UnderIs
  <2>2. ASSUME NEW i \in 1..Len(q)  PROVE o[i] = q[i]
    <3>1. CASE i <= Len(old)
      BY <1>3, <1>5, <2>1, <3>1 DEF Begins
    <3>2. CASE i > Len(old)
      <4>1. i - Len(old) \in 1..Len(q) - Len(old) /\ Len(old) + (i - Len(old)) = i
        BY <1>3, <3>2
      <4>2. o[Len(old) + (i - Len(old))] = q[Len(old) + (i - Len(old))]
        BY <1>2, <1>5, <4>1
      <4> QED  BY <4>1, <4>2
    <3> QED  BY <1>3, <3>1, <3>2
  <2> QED  BY <1>5, <2>2, SamePath
<1>7. QED  BY <1>2, <1>4, <1>6 DEF m, o

LEMMA FoldersMoved ==
  ASSUME folders \in Seq(Clean), NEW old \in Clean, NEW new \in Clean
  PROVE  MovedFolders(old, new) \in Seq(Clean)
<1>1. \A i \in 1..Len(folders) : folders[i] \in Clean
  BY ElementOfSeq
<1>2. \A i \in 1..Len(folders) :
        (IF folders[i] = old THEN new
         ELSE IF Under(old, folders[i]) THEN Reprefix(old, new, folders[i]) ELSE folders[i]) \in Clean
  BY <1>1, ReprefixBack
<1>3. QED  BY <1>2, IsASeq, LenProperties DEF MovedFolders

\* What the proofs need of the state: TypeOK without the limits.
Consistent ==
  /\ entries \subseteq Entry
  /\ IsFiniteSet(entries)
  /\ folders \in Seq(Clean)
  /\ counter \in Nat
  /\ UniqueNames

\* Changing the prefix of a path gives a path, and of two paths two.
LEMMA ReprefixType ==
  ASSUME NEW old \in Path, NEW new \in Path, NEW q \in Path, Under(old, q)
  PROVE  Reprefix(old, new, q) \in Path
<1>1. SubSeq(q, Len(old) + 1, Len(q)) \in Path
  BY DEF Path, Under
<1>2. QED  BY <1>1 DEF Reprefix, Path

LEMMA ReprefixInjective ==
  ASSUME NEW old \in Path, NEW new \in Path, NEW q \in Path, NEW r \in Path,
         Under(old, q), Under(old, r), Reprefix(old, new, q) = Reprefix(old, new, r)
  PROVE  q = r
<1> DEFINE Rest(s) == SubSeq(s, Len(old) + 1, Len(s))
<1>1. ASSUME NEW s \in Path, Under(old, s)
      PROVE  /\ Rest(s) \in Path /\ Len(Rest(s)) = Len(s) - Len(old)
             /\ \A i \in 1..Len(s) - Len(old) : Rest(s)[i] = s[Len(old) + i]
             /\ \A i \in 1..Len(old) : s[i] = old[i]
             /\ Len(new \o Rest(s)) = Len(new) + Len(s) - Len(old)
             /\ \A i \in 1..Len(s) - Len(old) : (new \o Rest(s))[Len(new) + i] = s[Len(old) + i]
  <2>1. Len(old) \in Nat /\ Len(s) \in Nat /\ Len(old) < Len(s)
    BY <1>1 DEF Path, Under
  <2>2. Rest(s) \in Path /\ Len(Rest(s)) = Len(s) - Len(old)
    BY <1>1, <2>1 DEF Path
  <2>3. \A i \in 1..Len(s) - Len(old) : Rest(s)[i] = s[Len(old) + i]
    BY <1>1, <2>1 DEF Path
  <2>4. \A i \in 1..Len(old) : s[i] = old[i]
    <3>1. SubSeq(s, 1, Len(old)) = old
      BY <1>1 DEF Under
    <3>2. \A i \in 1..Len(old) : SubSeq(s, 1, Len(old))[i] = s[i]
      BY <1>1, <2>1 DEF Path
    <3>3. QED  BY <3>1, <3>2
  <2>5. QED  BY <2>1, <2>2, <2>3, <2>4 DEF Path
<1>2. new \o Rest(q) = new \o Rest(r)
  BY DEF Reprefix
<1>3. Len(q) = Len(r)
  BY <1>1, <1>2 DEF Path
<1>4. \A i \in 1..Len(q) : q[i] = r[i]
  <2> TAKE i \in 1..Len(q)
  <2>1. CASE i <= Len(old)
    BY <1>1, <1>3, <2>1 DEF Path
  <2>2. CASE i > Len(old)
    <3>1. i - Len(old) \in 1..Len(q) - Len(old) /\ Len(old) + (i - Len(old)) = i
      BY <2>2 DEF Path
    <3>2. (new \o Rest(q))[Len(new) + (i - Len(old))] = q[i]
      BY <1>1, <3>1
    <3>3. (new \o Rest(r))[Len(new) + (i - Len(old))] = r[i]
      BY <1>1, <1>3, <3>1
    <3>4. QED  BY <1>2, <3>2, <3>3
  <2>3. QED  BY <2>1, <2>2 DEF Path
<1>5. QED  BY <1>3, <1>4 DEF Path

\* A published manifest with a counter that advanced.
LEMMA PublishConsistent ==
  ASSUME Consistent, NEW es, NEW fs, NEW n \in Nat, Publish(es, fs, n),
         es \subseteq Entry, IsFiniteSet(es), fs \in Seq(Clean),
         \A e, f \in es : e.name = f.name => e = f
  PROVE  Consistent'
<1>1. QED  BY DEF Consistent, Publish, UniqueNames

LEMMA PutFileConsistent ==
  ASSUME Consistent, NEW n \in FileNames, NEW b \in Bodies, PutFile(n, b)
  PROVE  Consistent'
<1> DEFINE new == [name |-> n, body |-> b]
           es == (entries \ Named(n)) \cup {new}
<1>1. es \subseteq Entry
  BY DEF Consistent, Entry, PutFile, ValidName
<1>2. IsFiniteSet(es)
  <2>1. IsFiniteSet(entries \ Named(n))
    BY FS_Subset DEF Consistent
  <2>2. QED  BY <2>1, FS_AddElement
<1>3. \A e, f \in es : e.name = f.name => e = f
  BY DEF Consistent, UniqueNames, Named
<1>4. Publish(es, folders, 1)
  BY DEF PutFile
<1>5. folders \in Seq(Clean)
  BY DEF Consistent
<1>6. QED  BY <1>1, <1>2, <1>3, <1>4, <1>5, PublishConsistent

LEMMA DeleteFileConsistent ==
  ASSUME Consistent, NEW n \in FileNames, DeleteFile(n)
  PROVE  Consistent'
<1>1. IsFiniteSet(entries \ Named(n))
  BY FS_Subset DEF Consistent
<1>2. QED
  BY <1>1, PublishConsistent DEF DeleteFile, Consistent, UniqueNames

LEMMA RenameFileConsistent ==
  ASSUME Consistent, NEW a \in FileNames, NEW b \in FileNames, RenameFile(a, b)
  PROVE  Consistent'
<1> DEFINE kept == entries \ (Named(a) \cup Named(b))
           moved == {[e EXCEPT !.name = b] : e \in Named(a)}
           n == IF Named(b) = {} THEN 2 ELSE 3
<1>1. PICK e \in entries : Named(a) = {e}
  <2>1. PICK e \in Named(a) : TRUE
    BY DEF RenameFile
  <2>2. QED  BY <2>1 DEF Named, Consistent, UniqueNames
<1>2. moved = {[e EXCEPT !.name = b]}
  BY <1>1
<1>3. [e EXCEPT !.name = b] \in Entry /\ [e EXCEPT !.name = b].name = b
  BY <1>1 DEF Consistent, Entry, RenameFile, ValidName
<1>4. kept \cup moved \subseteq Entry
  BY <1>2, <1>3 DEF Consistent
<1>5. IsFiniteSet(kept \cup moved)
  <2>1. IsFiniteSet(kept)
    BY FS_Subset DEF Consistent
  <2>2. QED  BY <1>2, <2>1, FS_AddElement
<1>6. \A f, g \in kept \cup moved : f.name = g.name => f = g
  BY <1>2, <1>3 DEF Consistent, UniqueNames, Named
<1>7. Publish(kept \cup moved, folders, n) /\ n \in Nat
  BY DEF RenameFile
<1>8. folders \in Seq(Clean)
  BY DEF Consistent
<1>9. QED  BY <1>4, <1>5, <1>6, <1>7, <1>8, PublishConsistent

LEMMA CreateFolderConsistent ==
  ASSUME Consistent, NEW p \in FolderPaths, CreateFolder(p)
  PROVE  Consistent'
<1>1. Normalize(p) \in Clean
  BY NormalizeClean DEF CreateFolder, ValidFolder
<1>2. Append(folders, Normalize(p)) \in Seq(Clean)
  BY <1>1, AppendProperties DEF Consistent
<1>3. QED  BY <1>2, PublishConsistent DEF CreateFolder, Consistent, UniqueNames

LEMMA DeleteFolderConsistent ==
  ASSUME Consistent, NEW p \in FolderPaths, DeleteFolder(p)
  PROVE  Consistent' /\ counter' > counter
<1> DEFINE q == Normalize(p)
           victims == {e \in entries : Under(q, e.name)}
           fs == Filter(folders, {f \in ToSet(folders) : f # q /\ ~Under(q, f)})
<1>1. IsFiniteSet(entries \ victims) /\ IsFiniteSet(victims)
  BY FS_Subset DEF Consistent
<1>2. Cardinality(victims) \in Nat
  BY <1>1, FS_CardinalityType
<1>9. fs \in Seq(Clean)
  <2> DEFINE S == {f \in ToSet(folders) : f # q /\ ~Under(q, f)}
  <2>1. fs \in Seq(Clean \cap S)
    <3>1. fs = Filter(folders, S) /\ folders \in Seq(Clean)
      BY DEF Consistent
    <3> HIDE DEF S, fs
    <3> QED  BY <3>1, FilterIs
  <2>2. Clean \cap S \subseteq Clean  OBVIOUS
  <2> HIDE DEF S, fs
  <2> QED  BY <2>1, <2>2, SeqMonotonic
<1> HIDE DEF victims, fs
<1>3. Publish(entries \ victims, fs, Cardinality(victims) + 1)
  BY DEF DeleteFolder, victims, fs
<1>4. entries \ victims \subseteq Entry /\ \A e, f \in entries \ victims : e.name = f.name => e = f
  BY DEF Consistent, UniqueNames
<1>5. Cardinality(victims) + 1 \in Nat
  BY <1>2
<1>6. Consistent'
  BY <1>1, <1>3, <1>4, <1>5, <1>9, PublishConsistent
<1>7. counter' > counter
  BY <1>2, <1>3 DEF Publish, Consistent
<1>8. QED  BY <1>6, <1>7

\* The collision check keeps a renamed folder's files apart from the others.
LEMMA MovedUnique ==
  ASSUME Consistent, NEW old \in Path, NEW new \in Path, NoCollision(old, new)
  PROVE  /\ MovedEntries(old, new) \subseteq Entry
         /\ \A f, g \in MovedEntries(old, new) : f.name = g.name => f = g
<1> DEFINE To(e) == IF Under(old, e.name) THEN [e EXCEPT !.name = Reprefix(old, new, @)] ELSE e
<1>1. ASSUME NEW e \in entries, Under(old, e.name)
      PROVE  /\ e.name \in Path /\ To(e) \in Entry
             /\ To(e).name = Reprefix(old, new, e.name) /\ To(e).body = e.body
             /\ \A f \in entries : f.name # Reprefix(old, new, e.name)
  <2>1. e \in Entry
    BY DEF Consistent
  <2>2. Reprefix(old, new, e.name) \in Path
    BY <1>1, <2>1, ReprefixType DEF Entry
  <2>3. QED  BY <1>1, <2>1, <2>2 DEF Entry, NoCollision, Named
<1>2. ASSUME NEW e \in entries, ~Under(old, e.name)
      PROVE  To(e) = e /\ e \in Entry
  BY <1>2 DEF Consistent
<1>3. ASSUME NEW e \in entries, NEW f \in entries, To(e).name = To(f).name
      PROVE  To(e) = To(f)
  <2>1. CASE Under(old, e.name) /\ Under(old, f.name)
    <3>1. e.name = f.name
      BY <1>1, <1>3, <2>1, ReprefixInjective
    <3>2. QED  BY <3>1 DEF Consistent, UniqueNames
  <2>2. CASE Under(old, e.name) /\ ~Under(old, f.name)
    BY <1>1, <1>2, <1>3, <2>2
  <2>3. CASE ~Under(old, e.name) /\ Under(old, f.name)
    BY <1>1, <1>2, <1>3, <2>3
  <2>4. CASE ~Under(old, e.name) /\ ~Under(old, f.name)
    BY <1>2, <1>3, <2>4 DEF Consistent, UniqueNames
  <2>5. QED  BY <2>1, <2>2, <2>3, <2>4
<1>4. MovedEntries(old, new) = {To(e) : e \in entries}
  BY DEF MovedEntries
<1> HIDE DEF To
<1>5. QED  BY <1>1, <1>2, <1>3, <1>4

LEMMA RenameFolderConsistent ==
  ASSUME Consistent, NEW p \in FolderPaths, NEW q \in FolderPaths, RenameFolder(p, q)
  PROVE  Consistent'
<1> DEFINE old == Normalize(p)
           new == Normalize(q)
<1>1. old \in Path /\ new \in Path
  BY DEF RenameFolder, Accepts, IsFolder, ValidFolder
<1>5. old \in Clean /\ new \in Clean
  BY <1>1, NormalizeClean
<1>2. NoCollision(old, new) /\ Publish(MovedEntries(old, new), MovedFolders(old, new), 1)
  BY DEF RenameFolder, Accepts
<1> HIDE DEF old, new
<1>3. IsFiniteSet(MovedEntries(old, new))
  <2> DEFINE f == [e \in entries |->
                     IF Under(old, e.name) THEN [e EXCEPT !.name = Reprefix(old, new, @)] ELSE e]
  <2>1. f \in Surjection(entries, MovedEntries(old, new))
    BY DEF Surjection, MovedEntries
  <2>2. QED  BY <2>1, FS_Surjection DEF Consistent
<1>4. MovedFolders(old, new) \in Seq(Clean)
  BY <1>5, FoldersMoved DEF Consistent
<1>6. QED  BY <1>1, <1>2, <1>3, <1>4, MovedUnique, PublishConsistent

LEMMA ConsistentStep == Consistent /\ [Next]_vars => Consistent'
<1> SUFFICES ASSUME Consistent, [Next]_vars PROVE Consistent'
  OBVIOUS
<1>1. CASE UNCHANGED vars
  BY <1>1 DEF vars, Consistent, UniqueNames
<1>2. CASE Next
  BY <1>2, PutFileConsistent, DeleteFileConsistent, RenameFileConsistent,
     CreateFolderConsistent, DeleteFolderConsistent, RenameFolderConsistent DEF Next
<1>3. QED  BY <1>1, <1>2

LEMMA ConsistentInit == Init => Consistent
<1>1. QED  BY FS_EmptySet DEF Init, Consistent, UniqueNames

\* Whatever folders are renamed into whatever others, two files never come to
\* have one name.
THEOREM NamesStayUnique == Spec => []UniqueNames
<1>1. Consistent => UniqueNames
  BY DEF Consistent
<1>2. QED  BY <1>1, ConsistentInit, ConsistentStep, PTL DEF Spec

\* No change of files or folders keeps the counter: a vault rolled back to
\* another tree shows another counter.
THEOREM CounterCovers == Spec => CounterCoversTree
<1> DEFINE Counted == <<entries, folders>>' # <<entries, folders>> => counter' > counter
<1>1. Consistent /\ [Next]_vars => [Counted]_vars
  <2> SUFFICES ASSUME Consistent, Next PROVE Counted
    BY DEF vars
  <2>1. ASSUME NEW es, NEW fs, NEW n \in Nat, n > 0, Publish(es, fs, n) PROVE counter' > counter
    BY <2>1 DEF Publish, Consistent
  <2>2. ASSUME NEW n \in FileNames, NEW b \in Bodies, PutFile(n, b) PROVE Counted
    BY <2>1, <2>2 DEF PutFile
  <2>3. ASSUME NEW n \in FileNames, DeleteFile(n) PROVE Counted
    BY <2>1, <2>3 DEF DeleteFile
  <2>4. ASSUME NEW a \in FileNames, NEW b \in FileNames, RenameFile(a, b) PROVE Counted
    BY <2>1, <2>4 DEF RenameFile
  <2>5. ASSUME NEW p \in FolderPaths, CreateFolder(p) PROVE Counted
    BY <2>1, <2>5 DEF CreateFolder
  <2>6. ASSUME NEW p \in FolderPaths, DeleteFolder(p) PROVE Counted
    BY <2>6, DeleteFolderConsistent
  <2>7. ASSUME NEW p \in FolderPaths, NEW q \in FolderPaths, RenameFolder(p, q) PROVE Counted
    BY <2>1, <2>7 DEF RenameFolder
  <2>8. QED  BY <2>2, <2>3, <2>4, <2>5, <2>6, <2>7 DEF Next
<1>2. QED  BY <1>1, ConsistentInit, ConsistentStep, PTL DEF Spec, CounterCoversTree

(***************************************************************************)
(* Renaming a folder and back                                              *)
(***************************************************************************)
\* The path q after `old` has been renamed to `new`, if q is not `old`.
To(old, new, q) == IF Under(old, q) THEN Reprefix(old, new, q) ELSE q

\* Where nothing was below the new path, nothing is left below the old one, and
\* what is below the new one comes back.
LEMMA ToAndBack ==
  ASSUME NEW old \in Clean, NEW new \in Clean, NEW q \in Clean, Apart(old, new), ~Under(new, q)
  PROVE  /\ To(old, new, q) \in Clean
         /\ ~Under(old, To(old, new, q))
         /\ Under(new, To(old, new, q)) <=> Under(old, q)
         /\ To(new, old, To(old, new, q)) = q
<1>1. CASE ~Under(old, q)
  BY <1>1 DEF To
<1>2. CASE Under(old, q)
  <2> DEFINE m == Reprefix(old, new, q)
  <2>1. m \in Clean /\ Under(new, m) /\ Reprefix(new, old, m) = q
    BY <1>2, ReprefixBack
  <2> HIDE DEF m
  <2>2. ~Under(old, m)
    <3> SUFFICES ASSUME Under(old, m)  PROVE FALSE
      OBVIOUS
    <3>1. Begins(old, m) /\ Begins(new, m)
      BY <2>1, UnderIs
    <3>2. Begins(old, new) \/ Begins(new, old)
      BY <2>1, <3>1, Comparable
    <3> QED  BY <3>2, UnderIs DEF Apart
  <2>3. To(old, new, q) = m
    BY <1>2 DEF To, m
  <2> QED  BY <1>2, <2>1, <2>2, <2>3 DEF To
<1>3. QED  BY <1>1, <1>2

LEMMA FoldersAre ==
  ASSUME NEW es, \A e \in es : e.name \in Clean, NEW fs \in Seq(Clean)
  PROVE  FoldersOf(es, fs) =
           {p \in Clean : /\ p # <<>>
                          /\ \/ \E i \in 1..Len(fs) : Begins(p, fs[i])
                             \/ \E e \in es : Under(p, e.name)}
<1>1. \A i \in 1..Len(fs) : Ancestors(fs[i]) = {q \in Clean : q # <<>> /\ Begins(q, fs[i])}
  BY AncestorsAre, ElementOfSeq
<1>2. \A e \in es : Ancestors(Front(e.name)) = {q \in Clean : q # <<>> /\ Under(q, e.name)}
  BY AncestorsAre
<1>3. ASSUME NEW p
      PROVE  p \in FoldersOf(es, fs) <=> \/ \E i \in 1..Len(fs) : p \in Ancestors(fs[i])
                                      \/ \E e \in es : p \in Ancestors(Front(e.name))
  <2> DEFINE A == UNION {Ancestors(fs[i]) : i \in 1..Len(fs)}
             B == UNION {Ancestors(Front(e.name)) : e \in es}
  <2>1. p \in A <=> \E i \in 1..Len(fs) : p \in Ancestors(fs[i])
    OBVIOUS
  <2>2. p \in B <=> \E e \in es : p \in Ancestors(Front(e.name))
    OBVIOUS
  <2>3. FoldersOf(es, fs) = A \cup B
    BY Zenon DEF FoldersOf
  <2> HIDE DEF A, B
  <2> QED  BY <2>1, <2>2, <2>3
<1>4. QED  BY <1>1, <1>2, <1>3

\* The entry e under the name n.
Renamed(e, n) == [e EXCEPT !.name = n]

\* What a renamed folder's entries and folders are.
LEMMA MovedAre ==
  ASSUME Consistent, NEW old, NEW new
  PROVE  /\ MovedEntries(old, new) = {Renamed(e, To(old, new, e.name)) : e \in entries}
         /\ MovedFolders(old, new) =
              [i \in 1..Len(folders) |-> IF folders[i] = old THEN new ELSE To(old, new, folders[i])]
         /\ \A e \in entries : \A n :
              /\ Renamed(e, n).name = n
              /\ Renamed(Renamed(e, n), e.name) = e
<1>1. \A e \in entries : \A n : /\ Renamed(e, n).name = n /\ Renamed(e, e.name) = e
                          /\ Renamed(Renamed(e, n), e.name) = e
  BY DEF Consistent, Entry, Renamed
<1>2. ASSUME NEW e \in entries
      PROVE  (IF Under(old, e.name) THEN [e EXCEPT !.name = Reprefix(old, new, @)] ELSE e)
               = Renamed(e, To(old, new, e.name))
  <2>1. CASE Under(old, e.name)
    BY <2>1 DEF To, Renamed
  <2>2. CASE ~Under(old, e.name)
    BY <1>1, <2>2 DEF To
  <2> QED  BY <2>1, <2>2
<1>3. MovedEntries(old, new) = {Renamed(e, To(old, new, e.name)) : e \in entries}
  BY <1>2, Zenon DEF MovedEntries
<1>4. MovedFolders(old, new) =
        [i \in 1..Len(folders) |-> IF folders[i] = old THEN new ELSE To(old, new, folders[i])]
  BY Zenon DEF MovedFolders, To
<1>5. QED  BY <1>1, <1>3, <1>4

LEMMA RenameUndoes ==
  ASSUME Consistent, Canonical, NEW old \in Clean, NEW new \in Clean, old # <<>>, new # <<>>,
         Absent(new), Apart(old, new),
         NEW es, es = MovedEntries(old, new), NEW fs, fs = MovedFolders(old, new)
  PROVE  /\ \A p \in FoldersOf(es, fs) : p # old /\ ~Under(old, p)
         /\ \A e \in es : Under(new, e.name) => To(new, old, e.name) \notin NamesOf(es)
         /\ {[e EXCEPT !.name = To(new, old, @)] : e \in es} = entries
         /\ \A i \in 1..Len(folders) :
              folders[i] = IF fs[i] = new THEN old ELSE To(new, old, fs[i])
<1>1. \A e \in entries : e.name \in Clean /\ ~Under(new, e.name)
  <2>1. \A e \in entries : e.name \in Clean
    <3> TAKE e \in entries
    <3>1. e.name \in Path /\ Normalize(e.name) = e.name
      BY DEF Consistent, Entry, Canonical, NamesOf
    <3> QED  BY <3>1, NormalizeClean
  <2> QED  BY <2>1, FoldersAre DEF Absent, Consistent
<1>2. \A i \in 1..Len(folders) : folders[i] \in Clean /\ ~Begins(new, folders[i])
  <2>1. \A i \in 1..Len(folders) : folders[i] \in Clean
    BY ElementOfSeq DEF Consistent
  <2> QED  BY <1>1, <2>1, FoldersAre DEF Absent, Consistent
<1>3. /\ es = {Renamed(e, To(old, new, e.name)) : e \in entries}
      /\ fs \in Seq(Clean) /\ Len(fs) = Len(folders)
      /\ \A i \in 1..Len(folders) : fs[i] = IF folders[i] = old THEN new ELSE To(old, new, folders[i])
  <2>1. fs \in Seq(Clean)
    BY FoldersMoved DEF Consistent
  <2>2. Len(folders) \in Nat
    BY DEF Consistent
  <2>3. /\ es = {Renamed(e, To(old, new, e.name)) : e \in entries}
        /\ fs = [i \in 1..Len(folders) |-> IF folders[i] = old THEN new ELSE To(old, new, folders[i])]
    BY MovedAre
  <2>4. Len(fs) = Len(folders)
    BY <2>2, <2>3
  <2>5. \A i \in 1..Len(folders) : fs[i] = IF folders[i] = old THEN new ELSE To(old, new, folders[i])
    BY <2>3
  <2> QED  BY <2>1, <2>3, <2>4, <2>5
\* Names, and where they go.
<1>4. ASSUME NEW e \in entries
      PROVE  /\ To(old, new, e.name) \in Clean /\ ~Under(old, To(old, new, e.name))
             /\ Under(new, To(old, new, e.name)) => Under(old, e.name)
             /\ To(new, old, To(old, new, e.name)) = e.name
  BY <1>1, ToAndBack
<1>5. \A f \in es : \E e \in entries : f.name = To(old, new, e.name) /\ f = Renamed(e, To(old, new, e.name))
  BY <1>3, MovedAre
<1>6. \A f \in es : f.name \in Clean /\ ~Under(old, f.name)
  BY <1>4, <1>5
<1>7. ASSUME NEW i \in 1..Len(folders)
      PROVE  /\ ~Begins(old, fs[i])
             /\ folders[i] = IF fs[i] = new THEN old ELSE To(new, old, fs[i])
  <2>1. folders[i] \in Clean /\ ~Under(new, folders[i]) /\ ~Begins(new, folders[i])
    BY <1>2, UnderIs
  <2>2. CASE folders[i] = old
    BY <1>3, <2>2, UnderIs DEF Apart
  <2>3. CASE folders[i] # old
    <3> DEFINE m == To(old, new, folders[i])
    <3>1. m \in Clean /\ ~Under(old, m) /\ To(new, old, m) = folders[i]
          /\ (Under(new, m) <=> Under(old, folders[i]))
      BY <2>1, ToAndBack
    <3>2. m # old /\ m # new
      <4>1. CASE Under(old, folders[i])
        <5>1. Under(new, m)
          BY <3>1, <4>1
        <5> HIDE DEF m
        <5> QED  BY <3>1, <5>1 DEF Apart, Under
      <4>2. CASE ~Under(old, folders[i])
        <5>1. m = folders[i] /\ Begins(folders[i], folders[i])
          BY <2>1, <4>2, PathIs DEF To, Begins
        <5> HIDE DEF m
        <5> QED  BY <2>1, <2>3, <5>1
      <4> QED  BY <4>1, <4>2
    <3>3. fs[i] = m
      BY <1>3, <2>3
    <3> HIDE DEF m
    <3> QED  BY <3>1, <3>2, <3>3, UnderIs
  <2> QED  BY <2>2, <2>3
\* The four claims.
<1>8. \A p \in FoldersOf(es, fs) : p # old /\ ~Under(old, p)
  <2> SUFFICES ASSUME NEW p \in FoldersOf(es, fs), Begins(old, p)  PROVE FALSE
    <3>1. \A p \in FoldersOf(es, fs) : p \in Clean
      BY <1>3, <1>6, FoldersAre
    <3>2. \A p \in Clean : p = old \/ Under(old, p) => Begins(old, p)
      BY UnderIs, PathIs DEF Begins
    <3> QED  BY <3>1, <3>2
  <2>1. /\ p \in Clean
        /\ \/ \E i \in 1..Len(fs) : Begins(p, fs[i])
           \/ \E e \in es : Under(p, e.name)
    <3> DEFINE F == {q \in Clean : /\ q # <<>>
                                   /\ \/ \E i \in 1..Len(fs) : Begins(q, fs[i])
                                      \/ \E e \in es : Under(q, e.name)}
    <3>1. FoldersOf(es, fs) = F
      BY <1>3, <1>6, FoldersAre
    <3>2. p \in F
      BY <3>1
    <3> QED  BY <3>2
  <2>2. ASSUME NEW i \in 1..Len(fs), Begins(p, fs[i])  PROVE FALSE
    <3>1. fs[i] \in Clean /\ ~Begins(old, fs[i])
      BY <1>3, <1>7, ElementOfSeq
    <3> QED  BY <2>1, <2>2, <3>1, Comparable
  <2>3. ASSUME NEW e \in es, Under(p, e.name)  PROVE FALSE
    <3>1. e.name \in Clean /\ ~Under(old, e.name)
      BY <1>6
    <3>2. Begins(p, e.name) /\ Begins(old, e.name)
      BY <2>1, <2>3, <3>1, UnderIs, Comparable
    <3>3. old = e.name
      BY <3>1, <3>2, UnderIs
    <3>4. Len(p) < Len(e.name) /\ Len(old) <= Len(p)
      BY <2>3 DEF Under, Begins
    <3> QED  BY <2>1, <3>3, <3>4, PathIs
  <2> QED  BY <2>1, <2>2, <2>3
<1>9. \A e \in es : Under(new, e.name) => To(new, old, e.name) \notin NamesOf(es)
  <2> SUFFICES ASSUME NEW f \in es, Under(new, f.name)  PROVE To(new, old, f.name) \notin NamesOf(es)
    OBVIOUS
  <2>1. PICK e \in entries : f.name = To(old, new, e.name)
    BY <1>5
  <2>2. To(new, old, f.name) = e.name /\ Under(old, e.name)
    BY <1>4, <2>1
  <2> QED  BY <1>6, <2>2 DEF NamesOf
<1>10. {[e EXCEPT !.name = To(new, old, @)] : e \in es} = entries
  <2> DEFINE back(f) == Renamed(f, To(new, old, f.name))
  <2>1. ASSUME NEW e \in entries
        PROVE  Renamed(e, To(old, new, e.name)) \in es /\ back(Renamed(e, To(old, new, e.name))) = e
    <3>1. Renamed(e, To(old, new, e.name)) \in es
      BY <1>3
    <3>2. back(Renamed(e, To(old, new, e.name))) = e
      BY <1>4, MovedAre
    <3> QED  BY <3>1, <3>2
  <2>2. \A f \in es : back(f) \in entries
    BY <1>5, <2>1
  <2> HIDE DEF back
  <2>3. {back(f) : f \in es} = entries
    BY <2>1, <2>2
  <2> QED  BY <2>3 DEF back, Renamed
<1>11. QED  BY <1>7, <1>8, <1>9, <1>10

\* Renaming a folder to a path of which the vault holds nothing (rename_folder)
\* leaves nothing behind, and renaming it back is not refused and restores the
\* files and folders, for any tree of normalized names.
THEOREM RenameUndone == Spec => []FolderRenameUndone
<1>1. Consistent => FolderRenameUndone
  <2> SUFFICES ASSUME Consistent, Canonical, NEW from \in FolderPaths, NEW to \in FolderPaths,
                      Accepts(Normalize(from), Normalize(to)), Absent(Normalize(to)),
                      Apart(Normalize(from), Normalize(to))
               PROVE  LET old == Normalize(from)
                          new == Normalize(to)
                          es  == MovedEntries(old, new)
                          fs  == MovedFolders(old, new)
                      IN  /\ \A p \in FoldersOf(es, fs) : p # old /\ ~Under(old, p)
                          /\ \A e \in es : Under(new, e.name) => To(new, old, e.name) \notin NamesOf(es)
                          /\ {[e EXCEPT !.name = To(new, old, @)] : e \in es} = entries
                          /\ \A i \in 1..Len(folders) :
                               folders[i] = IF fs[i] = new THEN old ELSE To(new, old, fs[i])
    BY Zenon DEF FolderRenameUndone, To
  <2> DEFINE old == Normalize(from)
             new == Normalize(to)
  <2>1. old \in Clean /\ new \in Clean
    BY NormalizeClean DEF Accepts, IsFolder, ValidFolder
  <2>2. old # <<>> /\ new # <<>>
    BY DEF Accepts, IsFolder, ValidFolder
  <2> HIDE DEF old, new
  <2>3. Absent(new) /\ Apart(old, new)
    BY DEF old, new
  <2> QED  BY <2>1, <2>2, <2>3, RenameUndoes DEF old, new
<1>2. QED  BY <1>1, ConsistentInit, ConsistentStep, PTL DEF Spec

-----------------------------------------------------------------------------
(***************************************************************************)
(* The bytes of a file: positions and chunks                               *)
(***************************************************************************)
LEMMA MinMax ==
  ASSUME NEW a \in Int, NEW b \in Int
  PROVE  /\ Min({a, b}) = IF a <= b THEN a ELSE b
         /\ Max({a, b}) = IF a <= b THEN b ELSE a
BY DEF Min, Max

\* Where chunk k begins, counted from 0.
At(k) == k * CP

LEMMA AtIs ==
  /\ CP \in Nat /\ CP >= 1 /\ At(0) = 0
  /\ \A k \in Nat : At(k) \in Nat /\ At(k + 1) = At(k) + CP
  /\ \A k \in Nat \ {0} : At(k) = At(k - 1) + CP
  /\ \A j, k \in Nat : j < k => At(j) + CP <= At(k)
  /\ \A j, k \in Nat : j <= k => At(j) <= At(k)
<1>1. CP \in Nat /\ CP >= 1
  BY SizeAssumption
<1>2. \A k \in Nat : k * CP \in Nat /\ (k + 1) * CP = k * CP + CP
  BY <1>1
<1>3. ASSUME NEW j \in Nat, NEW k \in Nat, j <= k  PROVE j * CP <= k * CP
  <2>1. k - j \in Nat
    BY <1>3
  <2>2. (k - j) * CP \in Nat /\ k * CP = j * CP + (k - j) * CP
    BY <1>1, <2>1
  <2> QED  BY <1>2, <2>2
<1>4. ASSUME NEW j \in Nat, NEW k \in Nat, j < k  PROVE j * CP + CP <= k * CP
  <2>1. j + 1 \in Nat /\ j + 1 <= k
    BY <1>4
  <2> QED  BY <1>2, <1>3, <2>1
<1>5. ASSUME NEW k \in Nat \ {0}  PROVE k * CP = (k - 1) * CP + CP
  <2>1. k - 1 \in Nat /\ k - 1 + 1 = k
    BY <1>5
  <2> QED  BY <1>2, <2>1
<1>6. 0 * CP = 0
  BY <1>1
<1> QED  BY <1>1, <1>2, <1>3, <1>4, <1>5, <1>6 DEF At

\* The chunk that position n is in, and the number of chunks of n bytes.
LEMMA DivIs ==
  ASSUME NEW n \in Nat
  PROVE  n \div CP \in Nat /\ At(n \div CP) <= n /\ n < At(n \div CP) + CP
<1> DEFINE q == n \div CP
<1>1. CP \in Nat \ {0}
  BY SizeAssumption
<1>2. q \in Nat
  BY <1>1
<1>3. q * CP <= n /\ n < q * CP + CP
  BY <1>1, <1>2
<1> QED  BY <1>2, <1>3 DEF At

LEMMA CountIs ==
  ASSUME NEW n \in Nat
  PROVE  /\ Count(n) \in Nat /\ n <= At(Count(n))
         /\ n = 0 => Count(n) = 0
         /\ n > 0 => Count(n) > 0 /\ At(Count(n) - 1) < n
<1> DEFINE c == Count(n)
<1>1. CP \in Nat /\ CP >= 1 /\ n + CP - 1 \in Nat
  BY AtIs
<1>2. c \in Nat /\ At(c) <= n + CP - 1 /\ n + CP - 1 < At(c) + CP
  BY <1>1, DivIs DEF Count
<1> HIDE DEF c
<1>3. At(c) \in Nat /\ n <= At(c)
  BY <1>1, <1>2, AtIs
<1>4. ASSUME n = 0  PROVE c = 0
  <2>1. c # 0 => CP <= At(c)
    BY <1>1, <1>2, AtIs
  <2> QED  BY <1>1, <1>2, <1>3, <1>4, <2>1
<1>5. ASSUME n > 0  PROVE c > 0 /\ At(c - 1) < n
  <2>1. c > 0
    BY <1>2, <1>3, <1>5, AtIs
  <2>2. At(c) = At(c - 1) + CP /\ At(c - 1) \in Nat
    BY <1>2, <2>1, AtIs
  <2> QED  BY <1>1, <1>2, <2>1, <2>2
<1> QED  BY <1>2, <1>3, <1>4, <1>5 DEF c

LEMMA CountOrder ==
  ASSUME NEW m \in Nat, NEW n \in Nat
  PROVE  /\ m <= n => Count(m) <= Count(n)
         /\ m <= n /\ n > 0 => m \div CP <= Count(n)
         /\ \A k \in Nat : m <= At(k) => Count(m) <= k
<1>1. ASSUME NEW k \in Nat, m <= At(k)  PROVE Count(m) <= k
  <2>1. CASE m = 0
    BY <2>1, CountIs
  <2>2. CASE m > 0
    <3>1. Count(m) \in Nat /\ Count(m) - 1 \in Nat /\ At(Count(m) - 1) < m
      BY <2>2, CountIs
    <3>2. k <= Count(m) - 1 => At(k) <= At(Count(m) - 1)
      BY <3>1, AtIs
    <3>3. At(k) \in Nat /\ At(Count(m) - 1) \in Nat
      BY <3>1, AtIs
    <3> QED  BY <1>1, <3>1, <3>2, <3>3
  <2> QED  BY <2>1, <2>2
<1>2. ASSUME m <= n  PROVE Count(m) <= Count(n)
  <2>1. Count(n) \in Nat /\ n <= At(Count(n)) /\ At(Count(n)) \in Nat
    BY CountIs, AtIs
  <2> QED  BY <1>1, <1>2, <2>1
<1>3. ASSUME m <= n, n > 0  PROVE m \div CP <= Count(n)
  <2>1. m \div CP \in Nat /\ At(m \div CP) <= m
    BY DivIs
  <2>2. Count(n) \in Nat /\ n <= At(Count(n)) /\ At(Count(n)) \in Nat /\ At(m \div CP) \in Nat
    BY <2>1, CountIs, AtIs
  <2>3. Count(n) < m \div CP => At(Count(n)) + CP <= At(m \div CP)
    BY <2>1, <2>2, AtIs
  <2> QED  BY <1>3, <2>1, <2>2, <2>3, AtIs
<1> QED  BY <1>1, <1>2, <1>3

(***************************************************************************)
(* FlattenSeq                                                              *)
(***************************************************************************)
\* f holds what the first n sequences of q are, one after the other.
Joins(f, q, n) == f = [i \in 1..n |-> IF i = 1 THEN q[i] ELSE f[i - 1] \o q[i]]

LEMMA JoinsAt ==
  ASSUME NEW f, NEW q, NEW n, Joins(f, q, n), NEW i \in 1..n
  PROVE  f[i] = IF i = 1 THEN q[i] ELSE f[i - 1] \o q[i]
<1>1. f[i] = [j \in 1..n |-> IF j = 1 THEN q[j] ELSE f[j - 1] \o q[j]][i]
  BY Zenon DEF Joins
<1> QED  BY <1>1, Zenon

LEMMA JoinsExists ==
  ASSUME NEW q, NEW m \in Nat
  PROVE  \E f : Joins(f, q, m)
<1> DEFINE T == {n \in Nat : \E f : Joins(f, q, n)}
<1>1. 0 \in T
  <2>1. Joins([i \in 1..0 |-> q[i]], q, 0)
    BY DEF Joins
  <2> QED  BY <2>1
<1>2. ASSUME NEW n \in Nat, n \in T  PROVE n + 1 \in T
  <2>1. PICK f : Joins(f, q, n)
    BY <1>2
  <2> DEFINE g == [i \in 1..n + 1 |->
                     IF i = n + 1 THEN IF i = 1 THEN q[i] ELSE f[i - 1] \o q[i] ELSE f[i]]
  <2>2. \A i \in 1..n : g[i] = f[i]
    OBVIOUS
  <2>3. \A i \in 1..n + 1 : g[i] = IF i = 1 THEN q[i] ELSE g[i - 1] \o q[i]
    <3> SUFFICES ASSUME NEW i \in 1..n + 1  PROVE g[i] = IF i = 1 THEN q[i] ELSE g[i - 1] \o q[i]
      OBVIOUS
    <3>1. CASE i = n + 1
      <4>1. i # 1 => i - 1 \in 1..n
        BY <3>1
      <4> QED  BY <3>1, <4>1, <2>2
    <3>2. CASE i \in 1..n
      <4>1. i # 1 => i - 1 \in 1..n
        BY <3>2
      <4>2. f[i] = IF i = 1 THEN q[i] ELSE f[i - 1] \o q[i]
        BY <2>1, <3>2, JoinsAt
      <4> HIDE DEF g
      <4> QED  BY <3>2, <4>1, <4>2, <2>2
    <3> QED  BY <3>1, <3>2
  <2>4. g = [i \in 1..n + 1 |-> g[i]]
    OBVIOUS
  <2> HIDE DEF g
  <2>5. Joins(g, q, n + 1)
    BY <2>3, <2>4, Zenon DEF Joins
  <2> QED  BY <2>5
<1> HIDE DEF T
<1>3. Nat \subseteq T
  BY <1>1, <1>2, Induction
<1>4. m \in T
  BY <1>3
<1> QED  BY <1>4 DEF T

LEMMA FlattenIs ==
  ASSUME NEW S, NEW q \in Seq(S)
  PROVE  /\ FlattenSeq(<<>>) = <<>>
         /\ q # <<>> => \E f : Joins(f, q, Len(q)) /\ FlattenSeq(q) = f[Len(q)]
<1>1. FlattenSeq(<<>>) = <<>>
  BY DEF FlattenSeq
<1>2. ASSUME q # <<>>  PROVE \E f : Joins(f, q, Len(q)) /\ FlattenSeq(q) = f[Len(q)]
  <2> DEFINE f == CHOOSE f : Joins(f, q, Len(q))
  <2>1. Joins(f, q, Len(q))
    BY JoinsExists, LenProperties, Zenon
  <2>2. FlattenSeq(q) = f[Len(q)]
    BY <1>2, EmptySeq, Zenon DEF FlattenSeq, Joins
  <2> QED  BY <2>1, <2>2
<1> QED  BY <1>1, <1>2

Text == Seq(Byte)

LEMMA PartIs ==
  ASSUME NEW t \in Text, NEW i \in Nat, NEW j \in Nat, i <= j, j <= Len(t)
  PROVE  /\ SubSeq(t, i + 1, j) \in Text /\ Len(SubSeq(t, i + 1, j)) = j - i
         /\ \A k \in 1..j - i : SubSeq(t, i + 1, j)[k] = t[i + k]
<1>1. Len(t) \in Nat /\ t \in Seq(Byte)
  BY LenProperties DEF Text
<1>2. \A k \in 1..j - i : SubSeq(t, i + 1, j)[k] = t[i + k]
  BY <1>1
<1>3. SubSeq(t, i + 1, j) \in Seq(Byte) /\ Len(SubSeq(t, i + 1, j)) = j - i
  BY <1>1
<1> QED  BY <1>2, <1>3 DEF Text

LEMMA FrontIs ==
  ASSUME NEW t \in Text, NEW j \in Nat, j <= Len(t)
  PROVE  /\ SubSeq(t, 1, j) \in Text /\ Len(SubSeq(t, 1, j)) = j
         /\ \A k \in 1..j : SubSeq(t, 1, j)[k] = t[k]
<1>1. SubSeq(t, 1, j) \in Seq(Byte) /\ Len(SubSeq(t, 1, j)) = j /\ \A k \in 1..j : SubSeq(t, 1, j)[k] = t[k]
  BY DEF Text
<1> QED  BY <1>1 DEF Text

LEMMA SameText ==
  ASSUME NEW s \in Text, NEW t \in Text, Len(s) = Len(t), \A i \in 1..Len(s) : s[i] = t[i]
  PROVE  s = t
BY SeqEqual DEF Text

LEMMA JoinIs ==
  ASSUME NEW t \in Text, NEW i \in Nat, NEW j \in Nat, i <= j, j <= Len(t)
  PROVE  SubSeq(t, 1, i) \o SubSeq(t, i + 1, j) = SubSeq(t, 1, j)
<1>1. Len(t) \in Nat
  BY LenProperties DEF Text
<1> DEFINE a == SubSeq(t, 1, i)
           b == SubSeq(t, i + 1, j)
           c == SubSeq(t, 1, j)
<1>2. a \in Text /\ Len(a) = i /\ \A k \in 1..i : a[k] = t[k]
  BY <1>1, PartIs
<1>3. b \in Text /\ Len(b) = j - i /\ \A k \in 1..j - i : b[k] = t[i + k]
  BY PartIs
<1>4. c \in Text /\ Len(c) = j /\ \A k \in 1..j : c[k] = t[k]
  BY <1>1, PartIs
<1> HIDE DEF a, b, c
<1>5. /\ a \o b \in Text /\ Len(a \o b) = j
      /\ \A k \in 1..j : (a \o b)[k] = IF k <= i THEN a[k] ELSE b[k - i]
  <2>1. a \in Seq(Byte) /\ b \in Seq(Byte)
    BY <1>2, <1>3 DEF Text
  <2>2. /\ a \o b \in Seq(Byte) /\ Len(a \o b) = Len(a) + Len(b)
        /\ \A k \in 1..Len(a) + Len(b) : (a \o b)[k] = IF k <= Len(a) THEN a[k] ELSE b[k - Len(a)]
    BY <2>1, ConcatProperties
  <2>3. Len(a) + Len(b) = j /\ Len(a) = i
    BY <1>2, <1>3
  <2> QED  BY <2>2, <2>3 DEF Text
<1>6. ASSUME NEW k \in 1..j  PROVE (a \o b)[k] = c[k]
  <2>1. CASE k <= i
    <3>1. k \in 1..i
      BY <2>1
    <3> QED  BY <1>2, <1>4, <1>5, <2>1, <3>1
  <2>2. CASE ~(k <= i)
    <3>1. k - i \in 1..j - i /\ i + (k - i) = k
      BY <2>2
    <3> QED  BY <1>3, <1>4, <1>5, <2>2, <3>1
  <2> QED  BY <2>1, <2>2
<1>7. a \o b = c
  BY <1>4, <1>5, <1>6, SameText
<1> QED  BY <1>7 DEF a, b, c

\* A text cut at the positions o is put together again by FlattenSeq.
LEMMA FlattenCuts ==
  ASSUME NEW t \in Text, NEW q \in Seq(Text),
         NEW o, o[0] = 0, o[Len(q)] = Len(t),
         \A i \in 0..Len(q) : o[i] \in Nat /\ o[i] <= Len(t),
         \A i \in 1..Len(q) : o[i - 1] <= o[i] /\ q[i] = SubSeq(t, o[i - 1] + 1, o[i])
  PROVE  FlattenSeq(q) = t
<1> DEFINE n == Len(q)
<1>3. n \in Nat /\ (n = 0 <=> q = <<>>)
  BY EmptySeq, LenProperties
<1>1. CASE n = 0
  <2>1. Len(t) = 0 /\ q = <<>>
    BY <1>1, <1>3
  <2> QED  BY <2>1, FlattenIs, EmptySeq DEF Text
<1>2. CASE n # 0
  <2>1. PICK f : Joins(f, q, n) /\ FlattenSeq(q) = f[n]
    BY <1>2, <1>3, FlattenIs
  <2> DEFINE T == {k \in Nat : k \in 1..n => f[k] = SubSeq(t, 1, o[k])}
  <2>2. 0 \in T
    OBVIOUS
  <2>3. ASSUME NEW k \in Nat, k \in T  PROVE k + 1 \in T
    <3> SUFFICES ASSUME k + 1 \in 1..n  PROVE f[k + 1] = SubSeq(t, 1, o[k + 1])
      OBVIOUS
    <3>1. k + 1 - 1 = k /\ k \in 0..n /\ k + 1 \in 0..n
      OBVIOUS
    <3>2. f[k + 1] = IF k + 1 = 1 THEN q[k + 1] ELSE f[k] \o q[k + 1]
      <4> HIDE DEF n
      <4> QED  BY <2>1, <3>1, JoinsAt
    <3>3. /\ o[k] \in Nat /\ o[k + 1] \in Nat /\ o[k] <= o[k + 1] /\ o[k + 1] <= Len(t)
          /\ q[k + 1] = SubSeq(t, o[k] + 1, o[k + 1])
      BY <3>1
    <3>6. k # 0 => k + 1 # 1
      OBVIOUS
    <3>4. CASE k = 0
      <4>1. o[k] + 1 = 1 /\ k + 1 = 1
        BY <3>4
      <4> QED  BY <3>2, <3>3, <4>1, Zenon
    <3>5. CASE k # 0
      <4>1. f[k] = SubSeq(t, 1, o[k])
        BY <2>3, <3>1, <3>5
      <4>2. SubSeq(t, 1, o[k]) \o SubSeq(t, o[k] + 1, o[k + 1]) = SubSeq(t, 1, o[k + 1])
        BY <3>3, JoinIs
      <4> QED  BY <3>2, <3>3, <3>5, <3>6, <4>1, <4>2, Zenon
    <3> QED  BY <3>4, <3>5
  <2> HIDE DEF T
  <2>4. Nat \subseteq T
    BY <2>2, <2>3, Induction
  <2>5. f[n] = SubSeq(t, 1, Len(t))
    <3>1. n \in 1..n
      BY <1>2, <1>3
    <3> QED  BY <2>4, <3>1 DEF T
  <2>6. SubSeq(t, 1, Len(t)) = t
    BY DEF Text
  <2> QED  BY <2>1, <2>5, <2>6
<1> QED  BY <1>1, <1>2

(***************************************************************************)
(* How a text is stored                                                    *)
(***************************************************************************)
\* The end of chunk i of n bytes, counted from 1.
EndOf(n, i) == IF At(i) <= n THEN At(i) ELSE n

\* What chunk i of the text t holds.
Piece(t, i) == SubSeq(t, At(i - 1) + 1, EndOf(Len(t), i))

\* The chunks cs hold the text t.
Stored(t, cs) ==
  /\ t \in Text /\ cs \in Seq(Text) /\ Len(cs) <= Pool
  /\ t # <<>> => Len(cs) = Count(Len(t))
  /\ \A i \in 1..Len(cs) : cs[i] = Piece(t, i)

\* The length of chunk i of n bytes.
LengthOf(n, i) ==
  IF n <= At(i - 1) THEN 0 ELSE IF n - At(i - 1) <= CP THEN n - At(i - 1) ELSE CP

LEMMA PieceIs ==
  ASSUME NEW t \in Text, NEW i \in Nat \ {0}
  PROVE  /\ Piece(t, i) \in Text /\ Len(Piece(t, i)) = LengthOf(Len(t), i)
         /\ \A k \in 1..LengthOf(Len(t), i) : Piece(t, i)[k] = t[At(i - 1) + k]
<1>1. /\ Len(t) \in Nat /\ CP \in Nat /\ CP >= 1
      /\ At(i) = At(i - 1) + CP /\ At(i - 1) \in Nat /\ At(i) \in Nat
  <2>1. i \in Nat /\ i - 1 \in Nat
    OBVIOUS
  <2> QED  BY <2>1, AtIs, LenProperties DEF Text
<1>2. CASE Len(t) <= At(i - 1)
  <2>1. EndOf(Len(t), i) = Len(t)
    BY <1>1, <1>2 DEF EndOf
  <2>2. SubSeq(t, At(i - 1) + 1, Len(t)) = <<>> /\ <<>> \in Text /\ Len(<<>>) = 0
    BY <1>1, <1>2 DEF Text
  <2>3. LengthOf(Len(t), i) = 0
    BY <1>2 DEF LengthOf
  <2>4. Piece(t, i) = <<>>
    BY <2>1, <2>2, Zenon DEF Piece
  <2>5. 1..0 = {}
    OBVIOUS
  <2> QED  BY <2>2, <2>3, <2>4, <2>5
<1>3. CASE Len(t) > At(i - 1)
  <2> DEFINE e == EndOf(Len(t), i)
  <2>1. e \in Nat /\ At(i - 1) <= e /\ e <= Len(t) /\ e - At(i - 1) = LengthOf(Len(t), i)
    BY <1>1, <1>3 DEF EndOf, LengthOf
  <2>2. Piece(t, i) = SubSeq(t, At(i - 1) + 1, e)
    BY DEF Piece
  <2> HIDE DEF e
  <2> QED  BY <1>1, <2>1, <2>2, PartIs
<1> QED  BY <1>1, <1>2, <1>3

LEMMA LengthIs ==
  ASSUME NEW n \in Nat, NEW i \in Nat \ {0}
  PROVE  /\ LengthOf(n, i) \in Nat /\ LengthOf(n, i) <= CP
         /\ \A k \in Nat \ {0} : k <= LengthOf(n, i) <=> k <= CP /\ At(i - 1) + k <= n
<1>1. CP \in Nat /\ CP >= 1 /\ At(i - 1) \in Nat
  <2>1. i - 1 \in Nat
    OBVIOUS
  <2> QED  BY <2>1, AtIs
<1> QED  BY <1>1 DEF LengthOf

LEMMA FullLength ==
  ASSUME NEW n \in Nat, NEW i \in Nat \ {0}, At(i) <= n
  PROVE  LengthOf(n, i) = CP
<1>1. CP \in Nat /\ CP >= 1 /\ At(i - 1) \in Nat /\ At(i) = At(i - 1) + CP
  <2>1. i - 1 \in Nat
    OBVIOUS
  <2> QED  BY <2>1, AtIs
<1> QED  BY <1>1 DEF LengthOf

LEMMA TextIs ==
  ASSUME NEW l \in Nat, NEW c, c = [k \in 1..l |-> c[k]], \A k \in 1..l : c[k] \in Byte
  PROVE  c \in Text /\ Len(c) = l
BY DEF Text

\* Equal texts where a chunk is, equal chunks.
LEMMA SamePiece ==
  ASSUME NEW t \in Text, NEW u \in Text, NEW i \in Nat \ {0},
         LengthOf(Len(t), i) = LengthOf(Len(u), i),
         \A k \in 1..LengthOf(Len(t), i) : t[At(i - 1) + k] = u[At(i - 1) + k]
  PROVE  Piece(t, i) = Piece(u, i)
<1>1. /\ Piece(t, i) \in Text /\ Len(Piece(t, i)) = LengthOf(Len(t), i)
      /\ \A k \in 1..LengthOf(Len(t), i) : Piece(t, i)[k] = t[At(i - 1) + k]
  BY PieceIs
<1>2. /\ Piece(u, i) \in Text /\ Len(Piece(u, i)) = LengthOf(Len(u), i)
      /\ \A k \in 1..LengthOf(Len(u), i) : Piece(u, i)[k] = u[At(i - 1) + k]
  BY PieceIs
<1>3. \A k \in 1..Len(Piece(t, i)) : Piece(t, i)[k] = Piece(u, i)[k]
  BY <1>1, <1>2
<1> QED  BY <1>1, <1>2, <1>3, SameText

\* What is stored is read back.
LEMMA StoredReads ==
  ASSUME NEW t, NEW cs, Stored(t, cs)
  PROVE  FlattenSeq(cs) = t /\ Plain(cs, Len(t)) = t
<1> DEFINE n == Len(t)
           m == Len(cs)
           o == [i \in 0..m |-> EndOf(n, i)]
<1>1. t \in Text /\ cs \in Seq(Text) /\ n \in Nat /\ m \in Nat
  BY LenProperties DEF Stored, Text
<1>2. \A i \in 0..m : At(i) \in Nat /\ EndOf(n, i) \in Nat /\ EndOf(n, i) <= n
  BY <1>1, AtIs DEF EndOf
<1>3. o[0] = 0
  BY <1>1, AtIs DEF EndOf
<1>4. o[m] = n
  <2>1. CASE t = <<>>
    <3>1. n = 0 /\ m \in 0..m
      BY <1>1, <2>1, EmptySeq
    <3>2. EndOf(n, m) = 0
      BY <1>1, <1>2, <3>1
    <3> QED  BY <3>1, <3>2
  <2>2. CASE t # <<>>
    <3>1. m = Count(n) /\ n <= At(m) /\ m \in 0..m
      BY <1>1, <2>2, CountIs DEF Stored
    <3>2. EndOf(n, m) = n
      BY <1>1, <1>2, <3>1 DEF EndOf
    <3> QED  BY <3>1, <3>2
  <2> QED  BY <2>1, <2>2
<1>5. \A i \in 1..m : o[i - 1] <= o[i] /\ cs[i] = SubSeq(t, o[i - 1] + 1, o[i])
  <2> SUFFICES ASSUME NEW i \in 1..m
               PROVE  o[i - 1] <= o[i] /\ cs[i] = SubSeq(t, o[i - 1] + 1, o[i])
    OBVIOUS
  <2>1. i \in Nat \ {0} /\ i \in 0..m /\ i - 1 \in 0..m /\ i - 1 \in Nat
    BY <1>1
  <2>2. o[i - 1] = EndOf(n, i - 1) /\ o[i] = EndOf(n, i)
    BY <2>1
  <2>3. At(i) = At(i - 1) + CP /\ At(i - 1) \in Nat /\ CP \in Nat /\ CP >= 1
    BY <2>1, AtIs
  <2>4. EndOf(n, i - 1) <= EndOf(n, i)
    BY <1>1, <2>3 DEF EndOf
  <2>5. cs[i] = SubSeq(t, At(i - 1) + 1, EndOf(n, i))
    BY DEF Stored, Piece
  <2> HIDE DEF o
  <2>6. CASE At(i - 1) <= n
    <3>1. EndOf(n, i - 1) = At(i - 1)
      BY <2>6 DEF EndOf
    <3> QED  BY <2>2, <2>4, <2>5, <3>1
  <2>7. CASE At(i - 1) > n
    <3>1. t = <<>>
      <4> SUFFICES ASSUME t # <<>>  PROVE FALSE
        OBVIOUS
      <4>1. m = Count(n) /\ n > 0
        BY <1>1, EmptySeq DEF Stored, Text
      <4>2. At(m - 1) < n /\ m \in Nat /\ m > 0
        BY <1>1, <4>1, CountIs
      <4>3. At(i - 1) <= At(m - 1) /\ At(m - 1) \in Nat
        <5>1. i - 1 \in Nat /\ m - 1 \in Nat /\ i - 1 <= m - 1
          BY <2>1, <4>2
        <5> QED  BY <5>1, AtIs
      <4> QED  BY <1>1, <2>3, <2>7, <4>2, <4>3
    <3>2. n = 0
      BY <3>1
    <3>3. EndOf(n, i) = 0 /\ EndOf(n, i - 1) = 0
      BY <2>3, <2>7, <3>2 DEF EndOf
    <3>4. SubSeq(t, At(i - 1) + 1, 0) = <<>> /\ SubSeq(t, 1, 0) = <<>>
      BY <1>1, <2>3 DEF Text
    <3>5. o[i - 1] = 0 /\ o[i] = 0 /\ o[i - 1] + 1 = 1 /\ o[i - 1] <= o[i]
      BY <2>2, <3>3
    <3>6. SubSeq(t, o[i - 1] + 1, o[i]) = SubSeq(t, 1, 0)
      BY <3>5, Zenon
    <3>7. cs[i] = SubSeq(t, At(i - 1) + 1, 0)
      BY <2>5, <3>3
    <3> QED  BY <3>4, <3>5, <3>6, <3>7, Zenon
  <2> QED  BY <1>1, <2>3, <2>6, <2>7
<1>6. \A i \in 0..m : o[i] \in Nat /\ o[i] <= n
  BY <1>2
<1>7. FlattenSeq(cs) = t
  <2> HIDE DEF o
  <2> QED  BY <1>1, <1>3, <1>4, <1>5, <1>6, FlattenCuts
<1>8. Min({Len(t), Len(t)}) = Len(t)
  BY <1>1, MinMax
<1>9. SubSeq(t, 1, Len(t)) = t
  BY <1>1 DEF Text
<1> QED  BY <1>7, <1>8, <1>9 DEF Plain

\* Holds(t): the file is the text t.
Holds(t) == Stored(t, chunks) /\ Len(t) = size

LEMMA HoldsIs ==
  ASSUME NEW t, Holds(t)
  PROVE  /\ t \in Text /\ size \in Nat /\ Len(t) = size /\ (t = <<>> <=> size = 0)
         /\ chunks \in Seq(Text) /\ Len(chunks) \in Nat /\ Len(chunks) <= Pool
         /\ size > 0 => Len(chunks) = Count(size)
         /\ \A i \in 1..Len(chunks) : /\ chunks[i] = Piece(t, i) /\ chunks[i] \in Text
                                      /\ Len(chunks[i]) = LengthOf(size, i)
                                      /\ \A k \in 1..LengthOf(size, i) : chunks[i][k] = t[At(i - 1) + k]
         /\ ReadFile = t
<1>1. /\ t \in Text /\ Len(t) = size /\ chunks \in Seq(Text) /\ Len(chunks) <= Pool
      /\ \A i \in 1..Len(chunks) : chunks[i] = Piece(t, i)
      /\ t # <<>> => Len(chunks) = Count(size)
  BY DEF Holds, Stored
<1>2. size \in Nat /\ Len(chunks) \in Nat /\ (t = <<>> <=> size = 0)
  BY <1>1, EmptySeq, LenProperties DEF Text
<1>3. \A i \in 1..Len(chunks) : i \in Nat \ {0}
  BY <1>2
<1>4. ASSUME NEW i \in 1..Len(chunks)
      PROVE  /\ chunks[i] = Piece(t, i) /\ chunks[i] \in Text
             /\ Len(chunks[i]) = LengthOf(size, i)
             /\ \A k \in 1..LengthOf(size, i) : chunks[i][k] = t[At(i - 1) + k]
  <2>1. i \in Nat \ {0} /\ chunks[i] = Piece(t, i) /\ t \in Text
    BY <1>1, <1>3
  <2>2. /\ Piece(t, i) \in Text /\ Len(Piece(t, i)) = LengthOf(Len(t), i)
        /\ \A k \in 1..LengthOf(Len(t), i) : Piece(t, i)[k] = t[At(i - 1) + k]
    BY <2>1, PieceIs
  <2> QED  BY <1>1, <2>1, <2>2
<1>5. ReadFile = t
  BY <1>1, StoredReads DEF ReadFile, Holds
<1> QED  BY <1>1, <1>2, <1>4, <1>5

LEMMA HoldsLengths ==
  ASSUME NEW t, Holds(t)
  PROVE  ChunkLengths
<1> SUFFICES ASSUME NEW i \in 1..Len(chunks)
             PROVE  Len(chunks[i]) = IF size > (i - 1) * CP THEN Min({CP, size - (i - 1) * CP}) ELSE 0
  BY HoldsIs DEF ChunkLengths
<1>1. Len(chunks[i]) = LengthOf(size, i) /\ size \in Nat /\ i - 1 \in Nat
  BY HoldsIs
<1> DEFINE a == At(i - 1)
<1>2. a \in Nat /\ CP \in Nat /\ a = (i - 1) * CP
  BY <1>1, AtIs DEF At
<1>3. Min({CP, size - a}) = IF CP <= size - a THEN CP ELSE size - a
  BY <1>1, <1>2, MinMax
<1>4. LengthOf(size, i) = IF size <= a THEN 0 ELSE IF size - a <= CP THEN size - a ELSE CP
  BY DEF LengthOf
<1> HIDE DEF a
<1> QED  BY <1>1, <1>2, <1>3, <1>4

\* To store a text is to cut it into its pieces.
LEMMA PiecesStored ==
  ASSUME NEW t \in Text, NEW n \in Nat, n <= Pool, t # <<>> => n = Count(Len(t)),
         NEW cs, cs = [i \in 1..n |-> Piece(t, i)]
  PROVE  Stored(t, cs)
<1>1. ASSUME NEW i \in 1..n  PROVE i \in Nat \ {0} /\ Piece(t, i) \in Text
  <2>1. i \in Nat \ {0}
    OBVIOUS
  <2> QED  BY <2>1, PieceIs
<1>2. cs \in Seq(Text) /\ Len(cs) = n /\ \A i \in 1..n : cs[i] = Piece(t, i)
  BY <1>1
<1> QED  BY <1>2 DEF Stored

LEMMA AddStored ==
  ASSUME NEW d \in Text, NEW n \in Nat, n = Max({Count(Len(d)), 1}), n <= Pool
  PROVE  Stored(d, [i \in 1..n |-> SubSeq(d, (i - 1) * CP + 1, Min({i * CP, Len(d)}))])
<1>1. Len(d) \in Nat /\ Count(Len(d)) \in Nat
  BY CountIs, LenProperties DEF Text
<1>2. ASSUME NEW i \in 1..n
      PROVE  /\ SubSeq(d, (i - 1) * CP + 1, Min({i * CP, Len(d)})) = Piece(d, i)
             /\ Piece(d, i) \in Text
  <2>1. i \in Nat \ {0} /\ i \in Nat /\ i - 1 \in Nat
    OBVIOUS
  <2>2. At(i) = i * CP /\ At(i - 1) = (i - 1) * CP /\ At(i) \in Nat
    BY <2>1, AtIs DEF At
  <2>3. Min({At(i), Len(d)}) = EndOf(Len(d), i)
    BY <1>1, <2>2, MinMax DEF EndOf
  <2> QED  BY <2>1, <2>2, <2>3, PieceIs DEF Piece
<1>3. [i \in 1..n |-> SubSeq(d, (i - 1) * CP + 1, Min({i * CP, Len(d)}))] = [i \in 1..n |-> Piece(d, i)]
  BY <1>2
<1>4. d # <<>> => n = Count(Len(d))
  <2>1. d # <<>> => Len(d) > 0
    BY <1>1, EmptySeq DEF Text
  <2> DEFINE c == Count(Len(d))
  <2>2. c \in Int /\ 1 \in Int /\ (Len(d) > 0 => c > 0)
    BY <1>1, CountIs
  <2> HIDE DEF c
  <2>3. Max({c, 1}) = IF c <= 1 THEN 1 ELSE c
    BY <2>2, MinMax
  <2> QED  BY <2>1, <2>2, <2>3 DEF c
<1> QED  BY <1>3, <1>4, PiecesStored

LEMMA CutStored ==
  ASSUME NEW t, Holds(t), NEW n \in Nat, n < size
  PROVE  /\ Stored(SubSeq(t, 1, n), CutChunks(n)) /\ Len(SubSeq(t, 1, n)) = n
<1> DEFINE u == SubSeq(t, 1, n)
           c == Count(n)
<1>1. /\ t \in Text /\ size \in Nat /\ Len(t) = size /\ size > 0
      /\ Len(chunks) = Count(size) /\ Count(size) <= Pool
      /\ \A i \in 1..Len(chunks) : /\ chunks[i] = Piece(t, i) /\ chunks[i] \in Text
                                   /\ Len(chunks[i]) = LengthOf(size, i)
                                   /\ \A k \in 1..LengthOf(size, i) : chunks[i][k] = t[At(i - 1) + k]
  BY HoldsIs
<1>2. u \in Text /\ Len(u) = n /\ \A k \in 1..n : u[k] = t[k]
  BY <1>1, FrontIs
<1>3. /\ c \in Nat /\ c <= Count(size) /\ Count(size) \in Nat /\ n <= At(c) /\ At(c) \in Nat
      /\ (n = 0 => c = 0) /\ (n > 0 => c > 0 /\ At(c - 1) < n)
  <2>1. c \in Nat /\ n <= At(c) /\ (n = 0 => c = 0) /\ (n > 0 => c > 0 /\ At(c - 1) < n)
    BY CountIs
  <2>2. c <= Count(size) /\ Count(size) \in Nat
    BY <1>1, CountIs, CountOrder
  <2> QED  BY <2>1, <2>2, AtIs
<1> HIDE DEF u, c
<1>4. ASSUME NEW i \in 1..c
      PROVE  (IF Cuts(n) /\ i = c THEN SubSeq(chunks[i], 1, n - (i - 1) * CP) ELSE chunks[i]) = Piece(u, i)
  <2>1. i \in Nat \ {0} /\ i \in 1..Len(chunks) /\ n > 0
    BY <1>1, <1>3
  <2>2. /\ At(i - 1) = (i - 1) * CP /\ At(i - 1) \in Nat /\ At(i) = At(i - 1) + CP
        /\ CP \in Nat /\ CP >= 1
    <3>1. i - 1 \in Nat
      BY <2>1
    <3> QED  BY <2>1, <3>1, AtIs DEF At
  <2>3. /\ Piece(u, i) \in Text /\ Len(Piece(u, i)) = LengthOf(n, i)
        /\ \A k \in 1..LengthOf(n, i) : Piece(u, i)[k] = u[At(i - 1) + k]
    BY <1>2, <2>1, PieceIs
  <2>4. CASE Cuts(n) /\ i = c
    <3> DEFINE l == n - At(i - 1)
    <3>1. l \in Nat /\ l = LengthOf(n, i) /\ l <= LengthOf(size, i) /\ LengthOf(size, i) \in Nat
      <4> DEFINE h == At(i - 1)
      <4>1. h \in Nat /\ h < n /\ n <= h + CP
        BY <1>3, <2>2, <2>4
      <4> HIDE DEF h
      <4>2. n - h \in Nat /\ n - h <= CP /\ n - h > 0 /\ n - h <= size - h /\ ~(n <= h) /\ ~(size <= h)
        BY <1>1, <2>2, <4>1
      <4>3. n - h = LengthOf(n, i)
        BY <4>2 DEF LengthOf, h
      <4>4. LengthOf(size, i) = IF size - h <= CP THEN size - h ELSE CP
        BY <4>2, Zenon DEF LengthOf, h
      <4>5. n - h <= LengthOf(size, i) /\ LengthOf(size, i) \in Nat
        BY <1>1, <2>2, <4>1, <4>2, <4>4
      <4> QED  BY <4>2, <4>3, <4>5 DEF h
    <3>2. chunks[i] \in Text /\ l <= Len(chunks[i]) /\ 0 <= l
      BY <1>1, <2>1, <3>1
    <3> DEFINE p == SubSeq(chunks[i], 1, l)
    <3>3. p \in Text /\ Len(p) = l /\ \A k \in 1..l : p[k] = chunks[i][k]
      <4> HIDE DEF l
      <4> QED  BY <3>1, <3>2, FrontIs
    <3>4. \A k \in 1..l : At(i - 1) + k \in 1..n
      BY <2>2, <3>1
    <3>5. \A k \in 1..l : k \in 1..LengthOf(size, i) /\ k \in 1..LengthOf(n, i)
      BY <3>1
    <3>6. p = SubSeq(chunks[i], 1, n - (i - 1) * CP)
      BY <2>2
    <3> HIDE DEF l, p
    <3>7. \A k \in 1..l : p[k] = Piece(u, i)[k]
      <4> TAKE k \in 1..l
      <4>1. p[k] = t[At(i - 1) + k]
        BY <1>1, <2>1, <3>3, <3>5
      <4>2. Piece(u, i)[k] = t[At(i - 1) + k]
        BY <1>2, <2>3, <3>4, <3>5
      <4> QED  BY <4>1, <4>2
    <3>8. p = Piece(u, i)
      BY <2>3, <3>1, <3>3, <3>7, SameText
    <3> QED  BY <2>4, <3>6, <3>8
  <2>5. CASE ~(Cuts(n) /\ i = c)
    <3>1. At(i) <= n
      <4>1. CASE i = c
        <5>1. ~Cuts(n)
          BY <2>5, <4>1
        <5>2. n = Min({At(c), size})
          BY <2>1, <5>1 DEF Cuts, At, c
        <5>3. n = At(c)
          <6>1. At(c) \in Int /\ size \in Int
            BY <1>1, <1>3
          <6>2. Min({At(c), size}) = IF At(c) <= size THEN At(c) ELSE size
            BY <6>1, MinMax
          <6> QED  BY <1>1, <1>3, <5>2, <6>1, <6>2
        <5> QED  BY <4>1, <5>3
      <4>2. CASE i # c
        <5>1. i \in Nat /\ c - 1 \in Nat /\ i <= c - 1
          BY <1>3, <2>1, <4>2
        <5>2. At(i) <= At(c - 1) /\ At(c - 1) \in Nat /\ At(i) \in Nat
          BY <5>1, AtIs
        <5> QED  BY <1>3, <2>1, <5>2
      <4> QED  BY <4>1, <4>2
    <3>2. LengthOf(n, i) = CP /\ LengthOf(size, i) = CP
      BY <1>1, <2>2, <3>1 DEF LengthOf
    <3>3. \A k \in 1..CP : At(i - 1) + k \in 1..n
      BY <2>2, <3>1
    <3>4. \A k \in 1..CP : t[At(i - 1) + k] = u[At(i - 1) + k]
      BY <1>2, <3>3
    <3>5. Piece(t, i) = Piece(u, i)
      <4>1. LengthOf(Len(t), i) = CP /\ LengthOf(Len(u), i) = CP
        BY <1>1, <1>2, <3>2
      <4>2. \A k \in 1..LengthOf(Len(t), i) : t[At(i - 1) + k] = u[At(i - 1) + k]
        BY <3>4, <4>1
      <4>3. t \in Text /\ u \in Text
        BY <1>1, <1>2
      <4> QED  BY <2>1, <4>1, <4>2, <4>3, SamePiece
    <3> QED  BY <1>1, <2>1, <2>5, <3>5
  <2> QED  BY <2>4, <2>5
<1>5. CutChunks(n) = [i \in 1..c |-> Piece(u, i)]
  BY <1>4 DEF CutChunks, c
<1>6. c <= Pool /\ (u # <<>> => c = Count(Len(u)))
  BY <1>1, <1>2, <1>3, SizeAssumption DEF c
<1>7. Stored(u, CutChunks(n))
  BY <1>2, <1>3, <1>5, <1>6, PiecesStored
<1> QED  BY <1>2, <1>7 DEF u

LEMMA NewSizeIs ==
  ASSUME size \in Nat, NEW off \in Nat, NEW len \in Nat, off + len <= MaxU
  PROVE  NewSize(off, len) = IF off + len <= size THEN size ELSE off + len
<1>1. MaxU + 1 \in Nat \ {0}
  BY SizeAssumption
<1> DEFINE e == off + len
           m == MaxU + 1
<1>2. e \in Nat /\ m \in Nat \ {0} /\ e < m /\ e \in Int /\ size \in Int
  BY <1>1, SizeAssumption
<1>3. e % m = e
  <2> HIDE DEF e, m
  <2> QED  BY <1>2
<1>4. Max({e, size}) = IF e <= size THEN size ELSE e
  <2> HIDE DEF e
  <2> QED  BY <1>2, MinMax
<1> QED  BY <1>3, <1>4 DEF NewSize

\* The bytes of the text after a write.
LEMMA OverlayIs ==
  ASSUME NEW t \in Text, NEW off \in Nat, NEW d \in Text
  PROVE  LET n == IF off + Len(d) <= Len(t) THEN Len(t) ELSE off + Len(d)
         IN  /\ File!Overlay(t, off, d) \in Text /\ Len(File!Overlay(t, off, d)) = n
             /\ \A i \in 1..n : File!Overlay(t, off, d)[i] =
                  IF i > off /\ i <= off + Len(d) THEN d[i - off]
                  ELSE IF i <= Len(t) THEN t[i] ELSE Zero
<1> DEFINE n == IF off + Len(d) <= Len(t) THEN Len(t) ELSE off + Len(d)
           x(i) == IF i > off /\ i <= off + Len(d) THEN d[i - off]
                   ELSE IF i <= Len(t) THEN t[i] ELSE Zero
<1>1. Len(d) \in Nat /\ Len(t) \in Nat
  BY LenProperties DEF Text
<1>3. n \in Nat
  BY <1>1
<1>4. \A i \in 1..n : x(i) \in Byte
  <2> TAKE i \in 1..n
  <2>1. CASE i > off /\ i <= off + Len(d)
    <3>1. i - off \in 1..Len(d)
      BY <1>1, <1>3, <2>1
    <3> QED  BY <2>1, <3>1, ElementOfSeq DEF Text
  <2>2. CASE ~(i > off /\ i <= off + Len(d)) /\ i <= Len(t)
    <3>1. i \in 1..Len(t)
      BY <1>1, <1>3, <2>2
    <3> QED  BY <2>2, <3>1, ElementOfSeq DEF Text
  <2>3. CASE ~(i > off /\ i <= off + Len(d)) /\ ~(i <= Len(t))
    BY <2>3, ByteAssumption
  <2> QED  BY <2>1, <2>2, <2>3
<1>5. File!Overlay(t, off, d) = [i \in 1..n |-> x(i)]
  BY Zenon DEF File!Overlay
<1> HIDE DEF n, x
<1>6. /\ File!Overlay(t, off, d) \in Text /\ Len(File!Overlay(t, off, d)) = n
      /\ \A i \in 1..n : File!Overlay(t, off, d)[i] = x(i)
  BY <1>3, <1>4, <1>5 DEF Text
<1> QED  BY <1>6 DEF n, x

\* The first chunk that a write re-encrypts: those before it lie before both
\* the end of the file and the write.
LEMMA FirstDirtyIs ==
  ASSUME NEW t, Holds(t), NEW off \in Nat
  PROVE  /\ FirstDirty(off) \in Nat /\ FirstDirty(off) <= Len(chunks)
         /\ \A i \in Nat : i <= FirstDirty(off) => At(i) <= off /\ At(i) <= size
<1>1. size \in Nat /\ Len(chunks) \in Nat /\ (size > 0 => Len(chunks) = Count(size))
  BY HoldsIs
<1>2. CASE size = 0
  <2>1. FirstDirty(off) = 0
    BY <1>2 DEF FirstDirty
  <2>2. ASSUME NEW i \in Nat, i <= FirstDirty(off)  PROVE At(i) <= off /\ At(i) <= size
    <3>1. i = 0
      BY <2>1, <2>2
    <3>2. At(i) = 0
      BY <3>1, AtIs
    <3> QED  BY <1>1, <3>2
  <2>3. FirstDirty(off) \in Nat /\ FirstDirty(off) <= Len(chunks)
    BY <1>1, <2>1
  <2> QED  BY <2>2, <2>3
<1>3. ASSUME size > 0, NEW m \in Nat, m <= off, m <= size, FirstDirty(off) = m \div CP
      PROVE  /\ FirstDirty(off) \in Nat /\ FirstDirty(off) <= Len(chunks)
             /\ \A i \in Nat : i <= FirstDirty(off) => At(i) <= off /\ At(i) <= size
  <2> DEFINE q == m \div CP
  <2>1. q \in Nat /\ At(q) <= m /\ q <= Count(size)
    BY <1>1, <1>3, DivIs, CountOrder
  <2>2. FirstDirty(off) = q
    BY <1>3
  <2> HIDE DEF q
  <2>3. ASSUME NEW i \in Nat, i <= q  PROVE At(i) <= off /\ At(i) <= size
    <3>1. At(i) <= At(q) /\ At(i) \in Nat /\ At(q) \in Nat
      BY <2>1, <2>3, AtIs
    <3> QED  BY <1>1, <1>3, <2>1, <3>1
  <2> QED  BY <1>1, <1>3, <2>1, <2>2, <2>3
<1>4. CASE size > 0 /\ off <= size
  <2>1. FirstDirty(off) = off \div CP
    BY <1>1, <1>4 DEF FirstDirty
  <2> QED  BY <1>3, <1>4, <2>1
<1>5. CASE size > 0 /\ off > size
  <2>1. FirstDirty(off) = (size - 1) \div CP
    BY <1>1, <1>5 DEF FirstDirty
  <2>2. size - 1 \in Nat /\ size - 1 <= off /\ size - 1 <= size
    BY <1>1, <1>5
  <2> QED  BY <1>3, <1>5, <2>1, <2>2
<1> QED  BY <1>1, <1>2, <1>4, <1>5

\* The preserved bytes of chunk i are those of the file that lie in it.
LEMMA PreservedIs ==
  ASSUME NEW t, Holds(t), NEW i \in Nat \ {0}
  PROVE  /\ \A k \in Nat \ {0} : k <= CP => (k <= Len(Preserved(i - 1)) <=> At(i - 1) + k <= size)
         /\ \A k \in Nat \ {0} : k <= CP /\ At(i - 1) + k <= size => Preserved(i - 1)[k] = t[At(i - 1) + k]
<1> DEFINE g == i - 1
           p == Preserved(g)
<1>1. /\ size \in Nat /\ Len(chunks) \in Nat /\ (size > 0 => Len(chunks) = Count(size))
      /\ \A j \in 1..Len(chunks) : /\ Len(chunks[j]) = LengthOf(size, j)
                                   /\ \A k \in 1..LengthOf(size, j) : chunks[j][k] = t[At(j - 1) + k]
  BY HoldsIs
<1>2. /\ g \in Nat /\ At(g) \in Nat /\ At(g + 1) = At(g) + CP /\ CP \in Nat /\ CP >= 1 /\ g + 1 = i
  <2>1. g \in Nat /\ g + 1 = i
    OBVIOUS
  <2> QED  BY <2>1, AtIs
<1>3. At(g) = g * CP /\ At(g + 1) = (g + 1) * CP
  BY DEF At
<1>4. Min({At(g + 1), size}) = IF At(g + 1) <= size THEN At(g + 1) ELSE size
  <2>1. At(g + 1) \in Int /\ size \in Int
    BY <1>1, <1>2
  <2> QED  BY <2>1, MinMax
<1>5. p = IF g < Len(chunks) /\ Min({At(g + 1), size}) > At(g) THEN chunks[g + 1] ELSE <<>>
  BY <1>3, Zenon DEF Preserved
<1>6. g < Len(chunks) \/ size <= At(g)
  <2> SUFFICES ASSUME ~(g < Len(chunks)), size > 0  PROVE size <= At(g)
    BY <1>1, <1>2
  <2>1. Len(chunks) = Count(size) /\ Count(size) \in Nat /\ size <= At(Count(size))
    BY <1>1, CountIs
  <2>2. Count(size) <= g
    BY <1>2, <2>1
  <2>3. At(Count(size)) <= At(g) /\ At(Count(size)) \in Nat
    BY <1>2, <2>1, <2>2, AtIs
  <2> QED  BY <1>1, <1>2, <2>1, <2>3
<1> HIDE DEF g, p
<1>7. CASE size <= At(g)
  <2>1. p = <<>> /\ Len(<<>>) = 0
    BY <1>1, <1>2, <1>4, <1>5, <1>7, EmptySeq
  <2> QED  BY <1>1, <1>2, <1>7, <2>1 DEF g, p
<1>8. CASE size > At(g)
  <2>1. g < Len(chunks) /\ i \in 1..Len(chunks)
    BY <1>1, <1>2, <1>6, <1>8
  <2>2. p = chunks[i]
    BY <1>1, <1>2, <1>4, <1>5, <1>8, <2>1
  <2>3. Len(p) = LengthOf(size, i) /\ \A k \in 1..LengthOf(size, i) : p[k] = t[At(g) + k]
    BY <1>1, <2>1, <2>2 DEF g
  <2>4. /\ LengthOf(size, i) \in Nat
        /\ \A k \in Nat \ {0} : k <= LengthOf(size, i) <=> k <= CP /\ At(g) + k <= size
    BY <1>1, LengthIs DEF g
  <2>5. \A k \in Nat \ {0} : k <= CP => (k <= Len(p) <=> At(g) + k <= size)
    BY <2>3, <2>4
  <2>6. \A k \in Nat \ {0} : k <= CP /\ At(g) + k <= size => p[k] = t[At(g) + k]
    BY <2>3, <2>4
  <2> QED  BY <2>5, <2>6 DEF g, p
<1> QED  BY <1>1, <1>2, <1>7, <1>8

\* An accepted write stores what pwrite makes of the text.
LEMMA WriteStored ==
  ASSUME NEW t, Holds(t), NEW off \in Nat, NEW d \in Text, d # <<>>,
         ~Overflows(off, Len(d)), WriteAllocates(off, Len(d))
  PROVE  /\ Stored(File!Overlay(t, off, d), NewChunks(off, d))
         /\ Len(File!Overlay(t, off, d)) = NewSize(off, Len(d))
<1> DEFINE u == File!Overlay(t, off, d)
           n == NewSize(off, Len(d))
           f == FirstDirty(off)
<1>1. t \in Text /\ Len(t) = size /\ size \in Nat /\ Len(d) \in Nat /\ Len(d) > 0
  BY HoldsIs, EmptySeq, LenProperties DEF Text
<1>2. n = (IF off + Len(d) <= size THEN size ELSE off + Len(d)) /\ n \in Nat /\ n > 0
  <2>1. off + Len(d) <= MaxU
    BY <1>1, SizeAssumption DEF Overflows
  <2> QED  BY <1>1, <2>1, NewSizeIs
<1>3. /\ u \in Text /\ Len(u) = n
      /\ \A i \in 1..n : u[i] = IF i > off /\ i <= off + Len(d) THEN d[i - off]
                              ELSE IF i <= size THEN t[i] ELSE Zero
  BY <1>1, <1>2, OverlayIs
<1>4. /\ f \in Nat /\ f <= Len(chunks) /\ Len(chunks) \in Nat /\ Len(chunks) <= Pool
      /\ \A i \in Nat : i <= f => At(i) <= off /\ At(i) <= size
  BY FirstDirtyIs, HoldsIs
<1>5. Count(n) \in Nat /\ At(Count(n) - 1) < n /\ Count(n) > 0
  BY <1>2, CountIs
<1>6. Count(n) <= Pool
  <2>1. Count(n) - f <= Pool - Len(chunks)
    BY DEF WriteAllocates, Allocates, Free
  <2> QED  BY <1>4, <1>5, <2>1, SizeAssumption
<1>7. NewChunks(off, d) = [i \in 1..Count(n) |-> IF i <= f THEN chunks[i] ELSE NewChunk(i - 1, off, d, n)]
  BY Zenon DEF NewChunks
<1> HIDE DEF u, n, f
<1>8. ASSUME NEW i \in 1..Count(n)
      PROVE  (IF i <= f THEN chunks[i] ELSE NewChunk(i - 1, off, d, n)) = Piece(u, i)
  <2>1. /\ i \in Nat \ {0} /\ i \in Nat /\ i - 1 \in Nat
        /\ At(i - 1) \in Nat /\ At(i) = At(i - 1) + CP /\ CP \in Nat /\ CP >= 1
    <3>1. i \in Nat \ {0} /\ i - 1 \in Nat
      BY <1>5
    <3> QED  BY <3>1, AtIs
  <2>2. CASE i <= f
    <3>1. At(i) <= off /\ At(i) <= size /\ i \in 1..Len(chunks)
      BY <1>4, <2>1, <2>2
    <3>2. LengthOf(Len(t), i) = CP /\ LengthOf(Len(u), i) = CP
      <4>1. At(i) <= n /\ At(i) <= size
        BY <1>1, <1>2, <2>1, <3>1
      <4>2. LengthOf(size, i) = CP /\ LengthOf(n, i) = CP
        BY <1>1, <1>2, <2>1, <4>1, FullLength
      <4> QED  BY <1>1, <1>3, <4>2
    <3>3. ASSUME NEW k \in 1..CP  PROVE t[At(i - 1) + k] = u[At(i - 1) + k]
      <4> DEFINE j == At(i - 1) + k
      <4>1. j \in 1..n /\ j <= off /\ j <= size
        BY <1>1, <1>2, <2>1, <3>1
      <4> HIDE DEF j
      <4>2. u[j] = t[j]
        BY <1>1, <1>3, <4>1
      <4> QED  BY <4>2 DEF j
    <3>4. Piece(t, i) = Piece(u, i)
      <4>1. t \in Text /\ u \in Text
        BY <1>1, <1>3
      <4> QED  BY <2>1, <3>2, <3>3, <4>1, SamePiece
    <3>5. chunks[i] = Piece(t, i)
      BY <3>1, HoldsIs
    <3> QED  BY <2>2, <3>4, <3>5
  <2>3. CASE ~(i <= f)
    <3> DEFINE l == LengthOf(n, i)
               c == NewChunk(i - 1, off, d, n)
               P == Preserved(i - 1)
    <3>1. /\ Piece(u, i) \in Text /\ Len(Piece(u, i)) = l /\ l \in Nat /\ l <= CP
          /\ \A k \in 1..l : Piece(u, i)[k] = u[At(i - 1) + k]
          /\ \A k \in Nat \ {0} : k <= l <=> k <= CP /\ At(i - 1) + k <= n
      <4>1. u \in Text /\ LengthOf(Len(u), i) = l
        BY <1>3
      <4>2. /\ Piece(u, i) \in Text /\ Len(Piece(u, i)) = l
            /\ \A k \in 1..l : Piece(u, i)[k] = u[At(i - 1) + k]
        <5> HIDE DEF l
        <5> QED  BY <2>1, <4>1, PieceIs
      <4>3. /\ l \in Nat /\ l <= CP
            /\ \A k \in Nat \ {0} : k <= l <=> k <= CP /\ At(i - 1) + k <= n
        BY <1>2, <2>1, LengthIs
      <4> QED  BY <4>2, <4>3
    <3>2. Min({n, At(i)}) - At(i - 1) = l
      <4>1. n \in Int /\ At(i) \in Int
        BY <1>2, <2>1
      <4>2. Min({n, At(i)}) = IF n <= At(i) THEN n ELSE At(i)
        BY <4>1, MinMax
      <4>3. At(i - 1) < n
        <5>1. Count(n) - 1 \in Nat /\ i - 1 <= Count(n) - 1
          BY <1>5
        <5>2. At(i - 1) <= At(Count(n) - 1) /\ At(Count(n) - 1) \in Nat
          BY <2>1, <5>1, AtIs
        <5> QED  BY <1>2, <1>5, <2>1, <5>2
      <4> QED  BY <1>2, <2>1, <4>2, <4>3 DEF LengthOf
    <3>3. At(i - 1) = (i - 1) * CP /\ At(i) = (i - 1 + 1) * CP
      BY <2>1 DEF At
    <3> DEFINE D == 1..(Min({n, (i - 1 + 1) * CP}) - (i - 1) * CP)
               x(k) == LET pos == (i - 1) * CP + k - 1
                       IN  IF pos >= off /\ pos < off + Len(d) THEN d[pos - off + 1]
                           ELSE IF k <= Len(P) THEN P[k] ELSE Zero
    <3>4. c = [k \in D |-> x(k)]
      BY Zenon DEF NewChunk
    <3>8. D = 1..l
      BY <3>2, <3>3
    <3> HIDE DEF D
    <3>9. c = [k \in 1..l |-> c[k]] /\ \A k \in 1..l : c[k] = x(k)
      <4> HIDE DEF x, c, l
      <4> QED  BY <3>4, <3>8
    <3> HIDE DEF l, c
    <3>5. ASSUME NEW k \in 1..l  PROVE c[k] = Piece(u, i)[k]
      <4> DEFINE j == At(i - 1) + k
      <4>1. k \in Nat \ {0} /\ k <= CP /\ j \in Nat /\ j <= n /\ j \in 1..n
        BY <1>2, <2>1, <3>1
      <4>2. /\ k <= Len(P) <=> j <= size
            /\ j <= size => P[k] = t[j]
        BY <2>1, <4>1, PreservedIs
      <4>3. c[k] = IF j - 1 >= off /\ j - 1 < off + Len(d) THEN d[j - 1 - off + 1]
                   ELSE IF k <= Len(P) THEN P[k] ELSE Zero
        <5>1. c[k] = x(k)
          BY <3>9
        <5>2. At(i - 1) = (i - 1) * CP /\ (i - 1) * CP \in Nat
          BY <2>1, <3>3
        <5>3. k \in Nat /\ off \in Nat /\ Len(d) \in Nat
          BY <1>1, <4>1
        <5> HIDE DEF c, P
        <5> QED  BY <5>1, <5>2, <5>3
      <4>4. Piece(u, i)[k] = u[j]
        BY <3>1
      <4> HIDE DEF j, P
      <4>5. u[j] = IF j > off /\ j <= off + Len(d) THEN d[j - off]
                   ELSE IF j <= size THEN t[j] ELSE Zero
        BY <1>3, <4>1
      <4>6. j - 1 - off + 1 = j - off /\ (j > off <=> j - 1 >= off) /\ (j <= off + Len(d) <=> j - 1 < off + Len(d))
        BY <1>1, <4>1
      <4> QED  BY <4>2, <4>3, <4>4, <4>5, <4>6
    <3>6. c \in Text /\ Len(c) = l
      <4>1. \A k \in 1..l : c[k] \in Byte
        BY <3>1, <3>5, ElementOfSeq DEF Text
      <4> HIDE DEF P
      <4> QED  BY <3>1, <3>9, <4>1, TextIs
    <3>7. c = Piece(u, i)
      BY <3>1, <3>5, <3>6, SameText
    <3> QED  BY <2>3, <3>7 DEF c
  <2> QED  BY <2>2, <2>3
<1>9. NewChunks(off, d) = [i \in 1..Count(n) |-> Piece(u, i)]
  BY <1>7, <1>8
<1>10. Stored(u, NewChunks(off, d))
  BY <1>3, <1>5, <1>6, <1>9, PiecesStored
<1> QED  BY <1>3, <1>10 DEF u, n

\* A part of a part of a text.
LEMMA PartOfPart ==
  ASSUME NEW t \in Text, NEW p \in Text, NEW a \in Nat, a + Len(p) <= Len(t),
         \A k \in 1..Len(p) : p[k] = t[a + k],
         NEW x \in Nat, NEW y \in Nat, x <= y, y <= Len(p)
  PROVE  /\ SubSeq(p, x + 1, y) = SubSeq(t, a + x + 1, a + y)
         /\ SubSeq(p, x + 1, y) \in Text
<1> DEFINE u == SubSeq(p, x + 1, y)
           i == a + x
           j == a + y
           v == SubSeq(t, i + 1, j)
<1>1. Len(p) \in Nat /\ Len(t) \in Nat
  BY LenProperties DEF Text
<1>2. u \in Text /\ Len(u) = y - x /\ \A k \in 1..y - x : u[k] = p[x + k]
  BY PartIs
<1>3. i \in Nat /\ j \in Nat /\ i <= j /\ j <= Len(t) /\ j - i = y - x
  BY <1>1
<1>4. v \in Text /\ Len(v) = y - x /\ \A k \in 1..y - x : v[k] = t[i + k]
  <2> HIDE DEF i, j
  <2> QED  BY <1>3, PartIs
<1> HIDE DEF u, v
<1>5. ASSUME NEW k \in 1..y - x  PROVE u[k] = v[k]
  <2>1. x + k \in 1..Len(p) /\ a + (x + k) = i + k
    BY <1>1
  <2> HIDE DEF i
  <2> QED  BY <1>2, <1>4, <2>1
<1>6. u = v
  BY <1>2, <1>4, <1>5, SameText
<1> QED  BY <1>2, <1>6 DEF u, v

\* A window reads the bytes that it overlaps.
LEMMA RangeReads ==
  ASSUME NEW t, Holds(t), NEW off \in Nat, NEW len \in Nat \ {0}, off < size
  PROVE  ReadRange(off, len) = SubSeq(t, off + 1, Min({off + len, size}))
<1> DEFINE e == off + Min({len, size - off})
           f == off \div CP
           l == Min({Count(e), Len(chunks)})
           m == l - f
           q == [i \in 1..m |->
                   LET g == f + i - 1 IN SubSeq(chunks[g + 1], From(off, g) + 1, Upto(e, g))]
           u == SubSeq(t, off + 1, e)
           o == [i \in 0..m |-> IF i = 0 THEN 0 ELSE EndOf(e, f + i) - off]
<1>1. /\ t \in Text /\ size \in Nat /\ Len(t) = size /\ size > 0
      /\ chunks \in Seq(Text) /\ Len(chunks) = Count(size)
      /\ \A i \in 1..Len(chunks) : /\ chunks[i] \in Text
                                   /\ Len(chunks[i]) = LengthOf(size, i)
                                   /\ \A k \in 1..LengthOf(size, i) : chunks[i][k] = t[At(i - 1) + k]
  BY HoldsIs
<1>2. e \in Nat /\ off < e /\ e <= size /\ e = Min({off + len, size})
  <2> DEFINE a == size - off
             b == off + len
  <2>1. a \in Int /\ b \in Int /\ len \in Int /\ size \in Int
    BY <1>1
  <2>2. len <= a <=> b <= size
    BY <1>1
  <2>3. off + len = b /\ off + a = size
    BY <1>1
  <2> HIDE DEF a, b
  <2>4. Min({len, a}) = (IF len <= a THEN len ELSE a) /\ Min({b, size}) = IF b <= size THEN b ELSE size
    BY <2>1, MinMax
  <2>5. off + Min({len, a}) = Min({b, size})
    BY <2>2, <2>3, <2>4
  <2>6. Min({b, size}) \in Nat /\ off < Min({b, size}) /\ Min({b, size}) <= size
    BY <1>1, <2>3, <2>4
  <2> QED  BY <2>5, <2>6 DEF a, b
<1>3. ReadRange(off, len) = FlattenSeq(q)
  BY Zenon DEF ReadRange
<1> HIDE DEF e
<1>4. l = Count(e) /\ l \in Nat /\ l <= Len(chunks) /\ At(l - 1) < e /\ e <= At(l) /\ l > 0
  <2>1. Count(e) \in Nat /\ Count(e) <= Count(size) /\ Count(size) \in Nat
    BY <1>1, <1>2, CountIs, CountOrder
  <2>2. Count(e) \in Int /\ Len(chunks) \in Int
    BY <1>1, <2>1
  <2>3. l = Count(e)
    BY <1>1, <2>1, <2>2, MinMax
  <2>4. e > 0
    BY <1>2
  <2> QED  BY <1>1, <1>2, <2>1, <2>3, <2>4, CountIs
<1>5. f \in Nat /\ At(f) <= off /\ off < At(f) + CP /\ At(f) \in Nat /\ At(f + 1) = At(f) + CP
  BY DivIs, AtIs
<1> HIDE DEF l, f
<1>6. f < l /\ m \in Nat /\ m > 0
  <2>1. l <= f => At(l) <= At(f)
    BY <1>4, <1>5, AtIs
  <2>2. At(l) \in Nat
    BY <1>4, AtIs
  <2>3. f < l
    BY <1>2, <1>4, <1>5, <2>1, <2>2
  <2> QED  BY <1>4, <1>5, <2>3
<1>7. u \in Text /\ Len(u) = e - off /\ \A k \in 1..e - off : u[k] = t[off + k]
  <2>1. t \in Text /\ e \in Nat /\ off <= e /\ e <= Len(t)
    BY <1>1, <1>2
  <2> QED  BY <2>1, PartIs
<1> DEFINE A(i) == IF off > At(f + i - 1) THEN off ELSE At(f + i - 1)
           B(i) == EndOf(e, f + i)
           W(i) == LET g == f + i - 1 IN SubSeq(chunks[g + 1], From(off, g) + 1, Upto(e, g))
\* One chunk of the window.
<1>8. ASSUME NEW i \in 1..m
      PROVE  /\ off <= A(i) /\ A(i) <= B(i) /\ B(i) <= e /\ A(i) \in Nat /\ B(i) \in Nat
             /\ W(i) = SubSeq(t, A(i) + 1, B(i)) /\ W(i) \in Text
             /\ i = 1 => A(i) = off
             /\ i > 1 => A(i) = B(i - 1)
  <2> DEFINE g == f + i - 1
             a == IF off > At(g) THEN off ELSE At(g)
             b == EndOf(e, f + i)
             p == chunks[f + i]
             x == IF off > At(g) THEN off - At(g) ELSE 0
             y == IF e - At(g) <= Len(p) THEN e - At(g) ELSE Len(p)
  <2>1. /\ g \in Nat /\ f + i \in Nat \ {0} /\ g + 1 = f + i /\ f + i <= l /\ f + i \in 1..Len(chunks) /\ f + i - 1 = g
        /\ f <= g /\ g <= l - 1 /\ l - 1 \in Nat
    <3>1. f \in Nat /\ l \in Nat /\ i \in Nat /\ 1 <= i /\ i <= l - f
      BY <1>4, <1>5, <1>6
    <3>2. l <= Len(chunks) /\ Len(chunks) \in Nat
      BY <1>1, <1>4
    <3> QED  BY <3>1, <3>2
  <2>2. /\ At(g) \in Nat /\ At(f + i) = At(g) + CP /\ At(g) < e /\ CP \in Nat /\ CP >= 1
        /\ (i > 1 => off < At(g)) /\ At(l - 1) \in Nat
    <3>1. At(g) \in Nat /\ At(g + 1) = At(g) + CP /\ At(l - 1) \in Nat /\ At(g) <= At(l - 1)
      BY <2>1, AtIs
    <3>2. i > 1 => At(f) + CP <= At(g)
      <4>1. i > 1 => f + 1 <= g /\ f + 1 \in Nat
        BY <1>5
      <4> HIDE DEF g
      <4> QED  BY <1>5, <2>1, <4>1, AtIs
    <3>3. At(f + i) = At(g) + CP /\ CP \in Nat /\ CP >= 1
      BY <2>1, <3>1, SizeAssumption
    <3> HIDE DEF g
    <3>4. At(g) < e
      BY <1>2, <1>4, <3>1
    <3>5. i > 1 => off < At(g)
      BY <1>5, <3>1, <3>2, <3>3
    <3> QED  BY <3>1, <3>3, <3>4, <3>5
  <2>3. /\ p \in Text /\ Len(p) = LengthOf(size, f + i)
        /\ \A k \in 1..LengthOf(size, f + i) : p[k] = t[At(g) + k]
    BY <1>1, <2>1
  <2>4. LengthOf(size, f + i) = IF size - At(g) <= CP THEN size - At(g) ELSE CP
    <3>1. At(g) < size
      BY <1>1, <1>2, <2>1, <2>2
    <3>2. (f + i) - 1 = g
      BY <1>5
    <3> HIDE DEF g
    <3>3. LengthOf(size, f + i) = IF size <= At(g) THEN 0 ELSE IF size - At(g) <= CP THEN size - At(g) ELSE CP
      BY <3>2 DEF LengthOf
    <3> QED  BY <1>1, <2>2, <3>1, <3>3
  <2>5. From(off, g) = x /\ Upto(e, g) = y
    <3>1. At(g) = g * CP
      BY DEF At
    <3>2. e - At(g) \in Int /\ Len(p) \in Int
      BY <1>1, <1>2, <2>2, <2>3, <2>4
    <3>3. Min({e - At(g), Len(p)}) = y
      BY <3>2, MinMax
    <3>4. Upto(e, g) = Min({e - g * CP, Len(chunks[g + 1])})
      BY Zenon DEF Upto
    <3>5. Upto(e, g) = y
      <4> HIDE DEF g, y
      <4> QED  BY <2>1, <3>1, <3>3, <3>4
    <3>6. From(off, g) = x
      <4> HIDE DEF g
      <4> QED  BY <3>1 DEF From
    <3> QED  BY <3>5, <3>6
  <2>6. /\ x \in Nat /\ y \in Nat /\ x <= y /\ y <= Len(p) /\ At(g) + Len(p) <= size
        /\ At(g) + x = a /\ At(g) + y = b /\ off <= a /\ a <= b /\ b <= e /\ a \in Nat /\ b \in Nat
    <3>1. PICK n : n = Len(p)
      OBVIOUS
    <3>2. n = IF size - At(g) <= CP THEN size - At(g) ELSE CP
      BY <2>3, <2>4, <3>1
    <3>3. i = 1 => g = f
      BY <1>5
    <3>4. off < At(g) + CP
      <4> HIDE DEF g
      <4> QED  BY <1>5, <2>2, <3>3
    <3> DEFINE z == IF e - At(g) <= n THEN e - At(g) ELSE n
    <3>5. y = z
      BY <3>1
    <3>6. b = IF At(g) + CP <= e THEN At(g) + CP ELSE e
      <4> HIDE DEF g
      <4> QED  BY <2>2 DEF EndOf
    <3> HIDE DEF y, b
    <3>7. /\ x \in Nat /\ z \in Nat /\ x <= z /\ z <= n /\ At(g) + n <= size
          /\ At(g) + x = a /\ At(g) + z = b /\ off <= a /\ a <= b /\ b <= e /\ a \in Nat /\ b \in Nat
      <4> DEFINE h == At(g)
      <4>1. /\ h \in Nat /\ e \in Nat /\ size \in Nat /\ CP \in Nat /\ CP >= 1
            /\ h < e /\ off < e /\ e <= size /\ off < h + CP
        BY <1>1, <1>2, <2>2, <3>4
      <4>2. n = (IF size - h <= CP THEN size - h ELSE CP) /\ b = IF h + CP <= e THEN h + CP ELSE e
        BY <3>2, <3>6
      <4>3. /\ x = IF off > h THEN off - h ELSE 0
            /\ a = IF off > h THEN off ELSE h
            /\ z = IF e - h <= n THEN e - h ELSE n
        OBVIOUS
      <4> HIDE DEF h, x, a, z
      <4>4. n \in Nat /\ h + n <= size /\ n <= CP /\ b \in Nat /\ b <= e /\ h + n >= b
        BY <4>1, <4>2
      <4>5. x \in Nat /\ a \in Nat /\ off <= a /\ h + x = a /\ a < e /\ a < h + CP
        BY <4>1, <4>3
      <4>6. z \in Nat /\ z <= n /\ h + z = b
        BY <4>1, <4>2, <4>3
      <4>7. a <= b
        BY <4>1, <4>2, <4>5
      <4>8. x <= z
        BY <4>1, <4>5, <4>6, <4>7
      <4> QED  BY <4>4, <4>5, <4>6, <4>7, <4>8 DEF h
    <3> QED  BY <3>1, <3>5, <3>7
  <2>7. SubSeq(p, x + 1, y) = SubSeq(t, a + 1, b) /\ SubSeq(t, a + 1, b) \in Text
    <3> HIDE DEF g, p, x, y, a, b
    <3>1. SubSeq(p, x + 1, y) = SubSeq(t, At(g) + x + 1, At(g) + y) /\ SubSeq(p, x + 1, y) \in Text
      BY <1>1, <2>2, <2>3, <2>6, PartOfPart
    <3> QED  BY <2>6, <3>1
  <2>8. i = 1 => a = off
    <3>1. i = 1 => g = f
      BY <1>5
    <3> HIDE DEF g
    <3> QED  BY <1>5, <2>2, <3>1
  <2>9. i > 1 => a = EndOf(e, f + (i - 1))
    <3>1. f + (i - 1) = g
      BY <1>5
    <3>2. i > 1 => a = At(g)
      <4> HIDE DEF g
      <4> QED  BY <1>5, <2>2
    <3>3. EndOf(e, g) = At(g)
      <4> HIDE DEF g
      <4> QED  BY <1>2, <2>2 DEF EndOf
    <3> QED  BY <3>1, <3>2, <3>3
  <2>10. SubSeq(chunks[g + 1], From(off, g) + 1, Upto(e, g)) = SubSeq(p, x + 1, y)
    <3> HIDE DEF g, x, y
    <3> QED  BY <2>1, <2>5
  <2>11. W(i) = SubSeq(chunks[g + 1], From(off, g) + 1, Upto(e, g))
    OBVIOUS
  <2>12. A(i) = a /\ B(i) = b /\ B(i - 1) = EndOf(e, f + (i - 1))
    OBVIOUS
  <2> HIDE DEF g, p, x, y, a, b, A, B, W
  <2> QED  BY <2>6, <2>7, <2>8, <2>9, <2>10, <2>11, <2>12
<1>9. q = [i \in 1..m |-> W(i)]
  BY Zenon
<1>10. \A i \in 0..m : o[i] = IF i = 0 THEN 0 ELSE B(i) - off
  OBVIOUS
<1>11. B(m) = e
  <2>1. f + m = l
    BY <1>4, <1>5
  <2>2. EndOf(e, l) = e
    <3>1. At(l) \in Nat
      BY <1>4, AtIs
    <3> QED  BY <1>2, <1>4, <3>1 DEF EndOf
  <2> QED  BY <2>1, <2>2
<1> HIDE DEF m, q, u, o, A, B, W
<1>12. q \in Seq(Text) /\ Len(q) = m /\ \A i \in 1..m : q[i] = W(i)
  BY <1>6, <1>8, <1>9
<1>13. o[0] = 0 /\ o[m] = Len(u)
  BY <1>6, <1>7, <1>10, <1>11
<1>14. ASSUME NEW i \in 0..m  PROVE o[i] \in Nat /\ o[i] <= Len(u)
  <2>1. CASE i = 0
    BY <1>2, <1>6, <1>7, <1>13, <2>1
  <2>2. CASE i # 0
    <3>1. i \in 1..m
      BY <1>6, <2>2
    <3>2. A(i) \in Nat /\ B(i) \in Nat /\ off <= A(i) /\ A(i) <= B(i) /\ B(i) <= e
      BY <1>8, <3>1
    <3>3. o[i] = B(i) - off
      BY <1>10, <2>2
    <3>4. B(i) - off \in Nat /\ B(i) - off <= e - off
      BY <1>2, <3>2
    <3> QED  BY <1>7, <3>3, <3>4
  <2> QED  BY <2>1, <2>2
<1>15. ASSUME NEW i \in 1..m  PROVE o[i - 1] <= o[i] /\ q[i] = SubSeq(u, o[i - 1] + 1, o[i])
  <2> DEFINE x == o[i - 1]
             y == o[i]
  <2>1. i - 1 \in 0..m /\ i \in 0..m /\ i # 0 /\ (i # 1 => i - 1 # 0 /\ i > 1)
    BY <1>6
  <2>2. x \in Nat /\ y \in Nat /\ y <= Len(u)
    BY <1>14, <2>1
  <2>3. off + y = B(i)
    BY <1>8, <1>10, <2>1
  <2>4. off + x = A(i)
    <3>1. CASE i = 1
      <4>1. i - 1 = 0
        BY <3>1
      <4> QED  BY <1>8, <1>13, <3>1, <4>1
    <3>2. CASE i # 1
      <4>1. i - 1 \in 1..m /\ i - 1 # 0 /\ i > 1
        BY <2>1, <3>2
      <4>2. x = B(i - 1) - off /\ B(i - 1) \in Nat
        BY <1>8, <1>10, <2>1, <4>1
      <4>3. A(i) = B(i - 1)
        BY <1>8, <4>1
      <4> QED  BY <4>2, <4>3
    <3> QED  BY <3>1, <3>2
  <2>5. q[i] = SubSeq(t, off + x + 1, off + y)
    BY <1>8, <1>12, <2>3, <2>4
  <2> HIDE DEF x, y
  <2>6. x <= y
    BY <1>8, <2>2, <2>3, <2>4
  <2>7. off + Len(u) <= Len(t) /\ \A k \in 1..Len(u) : u[k] = t[off + k]
    <3>1. off + (e - off) <= size /\ off + (e - off) = e
      BY <1>1, <1>2
    <3>2. off + Len(u) <= Len(t)
      BY <1>1, <1>7, <3>1
    <3>3. \A k \in 1..Len(u) : u[k] = t[off + k]
      BY <1>7
    <3> QED  BY <3>2, <3>3
  <2>8. SubSeq(u, x + 1, y) = SubSeq(t, off + x + 1, off + y)
    <3>1. t \in Text /\ u \in Text
      BY <1>1, <1>7
    <3> QED  BY <2>2, <2>6, <2>7, <3>1, PartOfPart
  <2> QED  BY <2>5, <2>6, <2>8 DEF x, y
<1>16. FlattenSeq(q) = u
  <2>1. /\ u \in Text /\ q \in Seq(Text) /\ o[0] = 0 /\ o[Len(q)] = Len(u)
        /\ \A i \in 0..Len(q) : o[i] \in Nat /\ o[i] <= Len(u)
        /\ \A i \in 1..Len(q) : o[i - 1] <= o[i] /\ q[i] = SubSeq(u, o[i - 1] + 1, o[i])
    BY <1>7, <1>12, <1>13, <1>14, <1>15
  <2> QED  BY <2>1, FlattenCuts
<1> QED  BY <1>2, <1>3, <1>16 DEF u

-----------------------------------------------------------------------------
(***************************************************************************)
(* The file always holds some text                                         *)
(***************************************************************************)
FileInv ==
  /\ \E t : Holds(t)
  /\ before \in 0..(Pool * CP) /\ target \in 0..MaxU /\ growing \in BOOLEAN
  /\ result \in {"Ok", "Full", "Overflow", "Io"}
  /\ growing => size <= target

LEMMA InputIs ==
  \A d \in Inputs : d \in Text
<1> SUFFICES ASSUME NEW n \in 0..MaxLen, NEW d \in [1..n -> Byte]  PROVE d \in Text
  BY DEF Inputs
<1>1. n \in Nat
  BY SizeAssumption
<1>2. d = [k \in 1..n |-> d[k]] /\ \A k \in 1..n : d[k] \in Byte
  OBVIOUS
<1> QED  BY <1>1, <1>2, TextIs

LEMMA HoldsFits ==
  ASSUME NEW t, Holds(t)
  PROVE  size \in 0..(Pool * CP)
<1>1. size \in Nat /\ Len(chunks) \in Nat /\ Len(chunks) <= Pool /\ (size > 0 => Len(chunks) = Count(size))
  BY HoldsIs
<1>2. Pool \in Nat /\ Pool * CP \in Nat /\ At(Pool) = Pool * CP
  BY SizeAssumption, AtIs DEF At
<1>3. CASE size = 0
  BY <1>1, <1>2, <1>3
<1>4. CASE size > 0
  <2> DEFINE c == Count(size)
  <2>1. c \in Nat /\ size <= At(c) /\ c <= Pool
    BY <1>1, <1>4, CountIs
  <2> HIDE DEF c
  <2>2. At(c) <= At(Pool) /\ At(c) \in Nat
    BY <1>2, <2>1, AtIs
  <2> QED  BY <1>1, <1>2, <2>1, <2>2
<1> QED  BY <1>1, <1>3, <1>4

LEMMA InvTypes ==
  FileInv => FileTypeOK
<1> SUFFICES ASSUME FileInv, NEW t, Holds(t)  PROVE FileTypeOK
  BY DEF FileInv
<1>1. size \in 0..(Pool * CP)
  BY HoldsFits
<1>2. Len(chunks) <= Pool /\ \A i \in 1..Len(chunks) : chunks[i] \in Seq(Byte)
  BY HoldsIs DEF Text
<1> QED  BY <1>1, <1>2 DEF FileInv, FileTypeOK

LEMMA InvLengths ==
  FileInv => ChunkLengths
BY HoldsLengths DEF FileInv

LEMMA InvWindows ==
  FileInv => WindowsAgree
<1> SUFFICES ASSUME NEW t, Holds(t), NEW off \in 0..MaxU, NEW len \in 1..MaxU, off < size
             PROVE  ReadRange(off, len) = SubSeq(ReadFile, off + 1, Min({off + len, size}))
  BY DEF FileInv, WindowsAgree
<1>1. off \in Nat /\ len \in Nat \ {0}
  BY SizeAssumption
<1>2. ReadFile = t
  BY HoldsIs
<1> QED  BY <1>1, <1>2, RangeReads

LEMMA InvWrites ==
  FileInv => WritesAreOverlays
<1> SUFFICES ASSUME NEW t, Holds(t), NEW off \in 0..MaxU, NEW d \in Inputs, d # <<>>,
                    ~Overflows(off, Len(d)), WriteAllocates(off, Len(d))
             PROVE  Plain(NewChunks(off, d), NewSize(off, Len(d))) = File!Overlay(ReadFile, off, d)
  BY DEF FileInv, WritesAreOverlays
<1>1. off \in Nat /\ d \in Text
  BY SizeAssumption, InputIs
<1>2. ReadFile = t
  BY HoldsIs
<1>3. Stored(File!Overlay(t, off, d), NewChunks(off, d)) /\ Len(File!Overlay(t, off, d)) = NewSize(off, Len(d))
  BY <1>1, WriteStored
<1>4. Plain(NewChunks(off, d), Len(File!Overlay(t, off, d))) = File!Overlay(t, off, d)
  BY <1>3, StoredReads
<1> QED  BY <1>2, <1>3, <1>4

\* A new file is empty.
LEMMA InitHolds ==
  FileInit => Holds(<<>>)
<1> SUFFICES ASSUME FileInit  PROVE Holds(<<>>)
  OBVIOUS
<1>1. <<>> \in Text /\ Len(<<>>) = 0
  BY DEF Text
<1>2. chunks \in Seq(Text) /\ Len(chunks) = 0 /\ size = 0 /\ 1..0 = {}
  BY DEF FileInit
<1> QED  BY <1>1, <1>2, SizeAssumption DEF Holds, Stored

LEMMA InvInit ==
  FileInit => FileInv /\ File!Init
<1> SUFFICES ASSUME FileInit  PROVE FileInv /\ File!Init
  OBVIOUS
<1>1. Holds(<<>>) /\ ReadFile = <<>>
  BY InitHolds, HoldsIs
<1>2. Pool * CP \in Nat /\ MaxU \in Nat
  BY SizeAssumption
<1>3. before = 0 /\ target = 0 /\ growing = FALSE /\ result = "Ok"
  BY DEF FileInit
<1>4. before \in 0..(Pool * CP) /\ target \in 0..MaxU
  BY <1>2, <1>3
<1> QED  BY <1>1, <1>3, <1>4 DEF FileInv, File!Init

\* A step that leaves the file alone, and one that writes it.
LEMMA KeptFile ==
  ASSUME NEW t, Holds(t), UNCHANGED <<size, chunks>>
  PROVE  Holds(t)'
BY DEF Holds, Stored

LEMMA WrittenFile ==
  ASSUME NEW t, Stored(t, chunks'), Len(t) = size'
  PROVE  Holds(t)'
BY DEF Holds, Stored

LEMMA ReadNext ==
  ASSUME NEW t, Holds(t)'
  PROVE  ReadFile' = t /\ size' = Len(t)
<1>1. Stored(t, chunks') /\ size' = Len(t)
  BY DEF Holds, Stored
<1>2. Plain(chunks', Len(t)) = t
  BY <1>1, StoredReads
<1> QED  BY <1>1, <1>2 DEF ReadFile, Plain

LEMMA WriteKeeps ==
  ASSUME NEW t, Holds(t), NEW off \in Nat, NEW d \in Text, d # <<>>,
         ~Overflows(off, Len(d)), WriteAllocates(off, Len(d)), Written(off, d)
  PROVE  Holds(File!Overlay(t, off, d))' /\ size' = IF off + Len(d) <= size THEN size ELSE off + Len(d)
<1>1. Stored(File!Overlay(t, off, d), NewChunks(off, d)) /\ Len(File!Overlay(t, off, d)) = NewSize(off, Len(d))
  BY WriteStored
<1>2. size' = NewSize(off, Len(d)) /\ chunks' = NewChunks(off, d)
  BY DEF Written
<1>3. size \in Nat /\ Len(d) \in Nat
  BY HoldsIs, LenProperties DEF Text
<1>4. off + Len(d) <= MaxU
  BY <1>3, SizeAssumption DEF Overflows
<1> QED  BY <1>1, <1>2, <1>3, <1>4, NewSizeIs, WrittenFile

\* What every step needs: a text after it, and the other variables in range.
LEMMA InvAfter ==
  ASSUME FileInv, NEW u, Holds(u)', before' \in {before, size}, target' \in 0..MaxU,
         growing' \in BOOLEAN, result' \in {"Ok", "Full", "Overflow", "Io"}, growing' => size' <= target'
  PROVE  FileInv'
BY HoldsFits DEF FileInv

LEMMA Refuses ==
  ASSUME NEW t, Holds(t), NEW error, Refuse(error)
  PROVE  Holds(t)' /\ ReadFile' = ReadFile /\ result' = error
<1>1. Holds(t)' /\ result' = error
  BY KeptFile DEF Refuse
<1> QED  BY <1>1, ReadNext, HoldsIs

\* A call that does not grow the file, refused or done.
LEMMA CallIs ==
  ASSUME FileInv, ~growing, before' = size, UNCHANGED <<target, growing>>, NEW t, Holds(t),
         \/ Refuse("Full") \/ Refuse("Overflow")
         \/ result' = "Ok" /\ \E u : Holds(u)' /\ (File!Becomes(u) => File!Next)
  PROVE  FileInv' /\ [File!Next]_(File!vars)
<1>1. target \in 0..MaxU /\ growing \in BOOLEAN
  BY DEF FileInv
<1>2. ASSUME NEW error \in {"Full", "Overflow"}, Refuse(error)  PROVE FileInv' /\ File!Next
  <2>1. Holds(t)' /\ ReadFile' = ReadFile /\ result' = error
    BY <1>2, Refuses
  <2>2. FileInv'
    BY <1>1, <1>2, <2>1, InvAfter
  <2>3. File!Refused
    BY <1>2, <2>1 DEF File!Refused
  <2> QED  BY <2>2, <2>3 DEF File!Next
<1>3. ASSUME NEW u, Holds(u)', File!Becomes(u) => File!Next, result' = "Ok"
      PROVE  FileInv' /\ File!Next
  <2>1. FileInv'
    BY <1>1, <1>3, InvAfter
  <2>2. ReadFile' = u
    BY <1>3, ReadNext
  <2>3. File!Becomes(u)
    BY <1>3, <2>2 DEF File!Becomes
  <2> QED  BY <1>3, <2>1, <2>3
<1> QED  BY <1>2, <1>3

LEMMA AddIs ==
  ASSUME FileInv, NEW d \in Inputs, AddFile(d)
  PROVE  FileInv' /\ [File!Next]_(File!vars)
<1> DEFINE needed == Max({Count(Len(d)), 1})
<1>1. PICK t : Holds(t)
  BY DEF FileInv
<1>2. before' = size /\ UNCHANGED <<target, growing>> /\ ~growing
  BY DEF AddFile
<1>3. CASE Refuse("Full")
  BY <1>1, <1>2, <1>3, CallIs
<1>4. CASE /\ Allocates(needed - Min({needed, Len(chunks)}))
           /\ size' = Len(d)
           /\ chunks' = [i \in 1..needed |-> SubSeq(d, (i - 1) * CP + 1, Min({i * CP, Len(d)}))]
           /\ result' = "Ok"
  <2>1. d \in Text /\ Len(d) \in Nat /\ Len(chunks) \in Nat /\ Len(chunks) <= Pool
    BY <1>1, HoldsIs, InputIs, LenProperties DEF Text
  <2>2. needed \in Nat
    <3> DEFINE c == Count(Len(d))
    <3>1. c \in Int /\ 1 \in Int /\ c \in Nat
      BY <2>1, CountIs
    <3> HIDE DEF c
    <3>2. Max({c, 1}) = IF c <= 1 THEN 1 ELSE c
      BY <3>1, MinMax
    <3>3. Max({c, 1}) \in Nat
      BY <3>1, <3>2
    <3> QED  BY <3>3 DEF c
  <2> HIDE DEF needed
  <2>3. Min({needed, Len(chunks)}) = IF needed <= Len(chunks) THEN needed ELSE Len(chunks)
    <3>1. needed \in Int /\ Len(chunks) \in Int
      BY <2>1, <2>2
    <3> QED  BY <3>1, MinMax
  <2>4. needed <= Pool
    BY <1>4, <2>1, <2>2, <2>3, SizeAssumption DEF Allocates, Free
  <2>5. Stored(d, chunks')
    BY <1>4, <2>1, <2>2, <2>4, AddStored DEF needed
  <2>6. Holds(d)'
    BY <1>4, <2>5, WrittenFile
  <2>7. File!Becomes(d) => File!Next
    BY DEF File!Next, File!Replace
  <2> QED  BY <1>1, <1>2, <1>4, <2>6, <2>7, CallIs
<1> QED  BY <1>3, <1>4 DEF AddFile

LEMMA WriteIs ==
  ASSUME FileInv, NEW off \in 0..MaxU, NEW d \in Inputs, Write(off, d)
  PROVE  FileInv' /\ [File!Next]_(File!vars)
<1>1. PICK t : Holds(t)
  BY DEF FileInv
<1>2. /\ before' = size /\ UNCHANGED <<target, growing>> /\ ~growing
      /\ d # <<>> /\ d \in Text /\ off \in Nat
  BY SizeAssumption, InputIs DEF Write
<1>3. CASE Refuse("Overflow") \/ Refuse("Full")
  BY <1>1, <1>2, <1>3, CallIs
<1>4. CASE ~Overflows(off, Len(d)) /\ WriteAllocates(off, Len(d)) /\ Written(off, d) /\ result' = "Ok"
  <2>1. Holds(File!Overlay(t, off, d))'
    BY <1>1, <1>2, <1>4, WriteKeeps
  <2>2. ReadFile = t
    BY <1>1, HoldsIs
  <2>3. File!Becomes(File!Overlay(t, off, d)) => File!Next
    BY <1>2, <2>2 DEF File!Next, File!PWrite
  <2> QED  BY <1>1, <1>2, <1>4, <2>1, <2>3, CallIs
<1> QED  BY <1>3, <1>4 DEF Write

LEMMA ShrinkIs ==
  ASSUME FileInv, NEW n \in 0..MaxU, Shrink(n)
  PROVE  FileInv' /\ [File!Next]_(File!vars)
<1>1. PICK t : Holds(t)
  BY DEF FileInv
<1>2. before' = size /\ UNCHANGED <<target, growing>> /\ ~growing /\ n < size /\ n \in Nat
  BY SizeAssumption DEF Shrink
<1>3. CASE Refuse("Full")
  BY <1>1, <1>2, <1>3, CallIs
<1>4. CASE size' = n /\ chunks' = CutChunks(n) /\ result' = "Ok"
  <2>1. Stored(SubSeq(t, 1, n), CutChunks(n)) /\ Len(SubSeq(t, 1, n)) = n
    BY <1>1, <1>2, CutStored
  <2>2. Holds(SubSeq(t, 1, n))'
    BY <1>4, <2>1, WrittenFile
  <2>3. ReadFile = t /\ size = Len(t)
    BY <1>1, HoldsIs
  <2>4. File!Becomes(SubSeq(t, 1, n)) => File!Next
    BY <1>2, <2>3 DEF File!Next, File!Cut
  <2> QED  BY <1>1, <1>2, <1>4, <2>2, <2>4, CallIs
<1> QED  BY <1>3, <1>4 DEF Shrink

LEMMA GrowIs ==
  ASSUME FileInv, NEW n \in 0..MaxU, Grow(n)
  PROVE  FileInv' /\ [File!Next]_(File!vars)
<1>1. PICK t : Holds(t)
  BY DEF FileInv
<1>2. before' = size /\ ~growing /\ n > size
  BY DEF Grow
<1>3. CASE Refuse("Full") /\ UNCHANGED <<target, growing>>
  BY <1>1, <1>2, <1>3, CallIs
<1>4. CASE target' = n /\ growing' = TRUE /\ UNCHANGED <<size, chunks, result>>
  <2>1. Holds(t)' /\ ReadFile = t /\ size = Len(t) /\ size \in Nat
    BY <1>1, <1>4, KeptFile, HoldsIs
  <2>2. ReadFile' = t
    BY <2>1, ReadNext
  <2>3. result \in {"Ok", "Full", "Overflow", "Io"} /\ size <= n
    BY <1>2, <2>1, SizeAssumption DEF FileInv
  <2>4. FileInv'
    BY <1>2, <1>4, <2>1, <2>3, InvAfter
  <2>5. File!Extend(n)
    BY <1>2, <1>4, <2>1, <2>2 DEF File!Extend
  <2> QED  BY <2>4, <2>5 DEF File!Next
<1> QED  BY <1>3, <1>4 DEF Grow

\* A grow that comes back: at its target with Ok, or with an error.
LEMMA GrowEndIs ==
  ASSUME FileInv, growing, Returned, UNCHANGED before, NEW t, Holds(t),
         UNCHANGED <<size, chunks>>, result' \in {"Ok", "Full", "Overflow", "Io"},
         size < target => result' \in {"Full", "Overflow", "Io"},
         ~(size < target) => result' \in {"Ok", "Io"}
  PROVE  FileInv' /\ [File!Next]_(File!vars)
<1>1. Holds(t)' /\ ReadFile = t /\ size = Len(t) /\ size \in Nat
  BY KeptFile, HoldsIs
<1>2. ReadFile' = t
  BY <1>1, ReadNext
<1>3. target \in Nat /\ size <= target /\ 0 \in 0..MaxU
  BY SizeAssumption DEF FileInv
<1>4. growing' = FALSE /\ target' = 0
  BY DEF Returned
<1>5. FileInv'
  BY <1>1, <1>3, <1>4, InvAfter
<1>6. result' \in IF Len(t) = target THEN {"Ok", "Io"} ELSE {"Full", "Overflow", "Io"}
  <2>1. CASE size < target
    <3>1. Len(t) # target
      BY <1>1, <1>3, <2>1
    <3> QED  BY <2>1, <3>1
  <2>2. CASE ~(size < target)
    <3>1. Len(t) = target
      BY <1>1, <1>3, <2>2
    <3> QED  BY <2>2, <3>1
  <2> QED  BY <2>1, <2>2
<1>7. File!Returns
  BY <1>1, <1>2, <1>4, <1>6 DEF File!Returns
<1> QED  BY <1>5, <1>7 DEF File!Next

LEMMA GrowStepIs ==
  ASSUME FileInv, GrowStep
  PROVE  FileInv' /\ [File!Next]_(File!vars)
<1> DEFINE n == Min({Window * CP, target - size})
           z == [i \in 1..n |-> Zero]
<1>1. PICK t : Holds(t)
  BY DEF FileInv
<1>2. /\ ReadFile = t /\ size = Len(t) /\ size \in Nat /\ target \in 0..MaxU /\ target \in Nat
      /\ result \in {"Ok", "Full", "Overflow", "Io"}
  BY <1>1, HoldsIs, SizeAssumption DEF FileInv
<1>3. UNCHANGED before /\ growing /\ size < target
  BY DEF GrowStep, Grows
<1>4. CASE (Refuse("Overflow") \/ Refuse("Full")) /\ Returned
  BY <1>1, <1>3, <1>4, GrowEndIs DEF Refuse
<1>5. CASE /\ ~Overflows(size, n) /\ WriteAllocates(size, n) /\ Written(size, z)
           /\ UNCHANGED <<target, growing, result>>
  <2>1. n \in Nat /\ n > 0 /\ size + n <= target
    <3> DEFINE w == Window * CP
               r == target - size
    <3>1. w \in Int /\ r \in Int /\ w > 0 /\ r > 0
      BY <1>2, <1>3, SizeAssumption
    <3> HIDE DEF w, r
    <3>2. Min({w, r}) = IF w <= r THEN w ELSE r
      BY <3>1, MinMax
    <3>3. Min({w, r}) \in Int /\ Min({w, r}) > 0 /\ Min({w, r}) <= r
      BY <3>1, <3>2
    <3> DEFINE m == Min({w, r})
    <3>4. m = n
      BY DEF w, r
    <3> HIDE DEF m, n
    <3>5. n \in Int /\ n > 0 /\ n <= target - size
      BY <3>3, <3>4 DEF m, r
    <3> QED  BY <1>2, <3>5
  <2> HIDE DEF n
  <2>2. z \in Text /\ Len(z) = n /\ z # <<>>
    <3>1. z = [k \in 1..n |-> z[k]] /\ \A k \in 1..n : z[k] \in Byte
      BY ByteAssumption
    <3> HIDE DEF z
    <3>2. z \in Text /\ Len(z) = n
      BY <2>1, <3>1, TextIs
    <3> QED  BY <2>1, <3>2, EmptySeq
  \* The values now, as constants: they stay what they are after the step.
  <2>3. PICK off, d, k, u : off = size /\ d = z /\ k = n /\ u = File!Overlay(t, off, d)
    OBVIOUS
  <2> HIDE DEF z
  <2>4. off \in Nat /\ d \in Text /\ d # <<>> /\ Len(d) = k /\ k \in Nat
    BY <1>2, <2>1, <2>2, <2>3
  <2>5. Holds(u)' /\ size' = IF off + Len(d) <= size THEN size ELSE off + Len(d)
    <3>1. ~Overflows(off, Len(d)) /\ WriteAllocates(off, Len(d)) /\ Written(off, d)
      BY <1>5, <2>2, <2>3
    <3> QED  BY <1>1, <2>3, <2>4, <3>1, WriteKeeps
  <2>6. size' <= target'
    <3>1. off + Len(d) = size + n
      BY <2>2, <2>3
    <3> QED  BY <1>2, <1>5, <2>1, <2>5, <3>1
  <2>7. ReadFile' = u
    BY <2>5, ReadNext
  <2>8. FileInv'
    BY <1>2, <1>3, <1>5, <2>5, <2>6, InvAfter DEF FileInv
  <2>9. k \in 0..MaxU
    BY <1>2, <2>1, <2>3, SizeAssumption
  <2>10. File!Lengthen(k)
    <3>1. u = File!Overlay(t, Len(t), [i \in 1..k |-> Zero])
      BY <1>2, <2>3 DEF z
    <3> QED  BY <1>2, <1>3, <1>5, <2>1, <2>3, <2>7, <3>1 DEF File!Lengthen
  <2> QED  BY <2>8, <2>9, <2>10 DEF File!Next
<1> QED  BY <1>4, <1>5 DEF GrowStep

\* Every step keeps the invariant and is one of the abstract file.
LEMMA InvNext ==
  FileInv /\ [FileNext]_fileVars => FileInv' /\ [File!Next]_(File!vars)
<1> SUFFICES ASSUME FileInv, [FileNext]_fileVars  PROVE FileInv' /\ [File!Next]_(File!vars)
  OBVIOUS
<1>1. PICK t : Holds(t)
  BY DEF FileInv
<1>2. CASE GrowReturns
  BY <1>1, <1>2, GrowEndIs DEF GrowReturns, Grows
<1>3. CASE GrowFails
  BY <1>1, <1>3, GrowEndIs DEF GrowFails, Refuse
<1>4. CASE UNCHANGED fileVars
  <2>1. UNCHANGED <<size, chunks>> /\ UNCHANGED <<target, growing, result, before>>
    BY <1>4 DEF fileVars
  <2>2. Holds(t)' /\ ReadFile = t
    BY <1>1, <2>1, KeptFile, HoldsIs
  <2>3. ReadFile' = t
    BY <2>2, ReadNext
  <2>4. FileInv'
    BY <2>1, <2>2, InvAfter DEF FileInv
  <2> QED  BY <2>1, <2>2, <2>3, <2>4 DEF File!vars
<1> QED  BY <1>2, <1>3, <1>4, AddIs, WriteIs, ShrinkIs, GrowIs, GrowStepIs DEF FileNext

LEMMA FileInvariant ==
  FileSpec => []FileInv
BY InvInit, InvNext, PTL DEF FileSpec

\* The types, and the file fits the vault: add_file, write_file_range and
\* truncate_file.
THEOREM FileTypes == FileSpec => []FileTypeOK
BY FileInvariant, InvTypes, PTL

\* Whatever writes, holes, cuts and growths led here, every chunk but the last
\* is full and the last holds the rest.
THEOREM Lengths == FileSpec => []ChunkLengths
BY FileInvariant, InvLengths, PTL

\* read_file_range returns exactly the bytes of the window.
THEOREM Windows == FileSpec => []WindowsAgree
BY FileInvariant, InvWindows, PTL

\* A write_file_range that is accepted does to the bytes of the file what
\* pwrite does: it keeps the others, fills a hole with zeros, never wraps.
THEOREM Writes == FileSpec => []WritesAreOverlays
BY FileInvariant, InvWrites, PTL

\* The chunked file implements a string of bytes: each call of add_file,
\* write_file_range and truncate_file, done, refused or broken off, has on
\* what read_file returns one of the effects that FileText allows.
THEOREM FileImplementation == FileSpec => ImplementsText
BY FileInvariant, InvInit, InvNext, PTL DEF FileSpec, ImplementsText, File!Spec
=============================================================================
