----------------------------- MODULE LibraryProofs -----------------------------
(***************************************************************************)
(* Theorems about Library, for every set of names, folders and sources,    *)
(* every size of the vault, and every number of operations and writes.     *)
(***************************************************************************)
EXTENDS Library, NaturalsInduction, WellFoundedInduction, FiniteSetTheorems,
        SequenceTheorems, TLAPS

(***************************************************************************)
(* Induction, over sets instead of formulas                                *)
(***************************************************************************)
LEMMA LeastNat ==
  ASSUME NEW T, T \subseteq Nat, T # {}
  PROVE  \E x \in T : \A y \in T : x <= y
<1> DEFINE R == OpToRel(<, Nat)
<1>1. R = {ss \in Nat \X Nat : ss[1] < ss[2]}  BY Zenon DEF OpToRel
<1>2. IsWellFoundedOn(R, Nat)  BY Zenon, NatLessThanWellFounded
<1> HIDE DEF R
<1>3. PICK x \in T : \A y \in T : ~(<<y, x>> \in R)  BY <1>2, WFMin
<1>4. \A y \in T : ~(y < x)  BY <1>1, <1>3
<1> QED  BY <1>3, <1>4

LEMMA Induction ==
  ASSUME NEW T, 0 \in T, \A n \in Nat : n \in T => n + 1 \in T
  PROVE  Nat \subseteq T
<1> SUFFICES ASSUME ~(Nat \subseteq T) PROVE FALSE  OBVIOUS
<1> DEFINE U == Nat \ T
<1>1. U # {} /\ U \subseteq Nat  OBVIOUS
<1>2. PICK x \in U : \A y \in U : x <= y
  <2> HIDE DEF U
  <2> QED  BY <1>1, LeastNat
<1>3. x # 0 /\ x - 1 \in Nat /\ x - 1 \in T  BY <1>2
<1> QED  BY <1>2, <1>3

\* A set of subsets of D is all of them, if s is in it whenever all that s
\* becomes by losing one element are.
LEMMA SubsetInduction ==
  ASSUME NEW D, IsFiniteSet(D), NEW T,
         \A s \in SUBSET D : (\A x \in s : s \ {x} \in T) => s \in T
  PROVE  SUBSET D \subseteq T
<1> SUFFICES ASSUME ~(SUBSET D \subseteq T) PROVE FALSE  OBVIOUS
<1> DEFINE U == {Cardinality(s) : s \in (SUBSET D) \ T}
<1>1. \A s \in SUBSET D : IsFiniteSet(s) /\ Cardinality(s) \in Nat  BY FS_Subset, FS_CardinalityType
<1>2. U # {} /\ U \subseteq Nat
  <2>1. PICK s : s \in (SUBSET D) \ T  OBVIOUS
  <2>2. Cardinality(s) \in U  BY <2>1
  <2> QED  BY <1>1, <2>2
<1>3. PICK n \in U : \A m \in U : n <= m
  <2> HIDE DEF U
  <2> QED  BY <1>2, LeastNat
<1>4. PICK s \in (SUBSET D) \ T : n = Cardinality(s)  BY <1>3
<1>5. \A x \in s : s \ {x} \in T
  <2> SUFFICES ASSUME NEW x \in s, s \ {x} \notin T PROVE FALSE  OBVIOUS
  <2>1. Cardinality(s \ {x}) = Cardinality(s) - 1  BY <1>1, FS_RemoveElement
  <2>2. Cardinality(s \ {x}) \in U  OBVIOUS
  <2>3. n <= Cardinality(s \ {x})  BY <1>3, <2>2
  <2>4. n \in Nat  BY <1>1, <1>4
  <2> QED  BY <1>4, <2>1, <2>3, <2>4
<1> QED  BY <1>4, <1>5

(***************************************************************************)
(* Sums over finite sets: g[s] is the sum of w[x] for the x in s           *)
(***************************************************************************)
OneOf(s) == CHOOSE x \in s : TRUE
Adds(g, w, E) ==
  /\ g = [s \in E |-> g[s]]
  /\ \A s \in E : g[s] = IF s = {} THEN 0 ELSE w[OneOf(s)] + g[s \ {OneOf(s)}]

LEMMA AnyIs == \A s : s # {} => OneOf(s) \in s
BY DEF OneOf

LEMMA AddsExists ==
  ASSUME NEW D, IsFiniteSet(D), NEW w
  PROVE  \E g : Adds(g, w, SUBSET D)
<1> DEFINE Small(n) == {s \in SUBSET D : Cardinality(s) <= n}
           T == {n \in Nat : \E g : Adds(g, w, Small(n))}
<1>0. \A s \in SUBSET D : IsFiniteSet(s) /\ Cardinality(s) \in Nat /\ Cardinality(s) <= Cardinality(D)
  BY FS_Subset, FS_CardinalityType
<1>1. 0 \in T
  <2> DEFINE g == [s \in Small(0) |-> 0]
  <2>1. \A s \in Small(0) : s = {}  BY <1>0, FS_EmptySet
  <2>2. Adds(g, w, Small(0))  BY <2>1 DEF Adds
  <2> QED  BY <2>2
<1>2. ASSUME NEW n \in Nat, n \in T  PROVE n + 1 \in T
  <2>1. PICK g : Adds(g, w, Small(n))  BY <1>2
  <2> DEFINE h == [s \in Small(n + 1) |-> IF s = {} THEN 0 ELSE w[OneOf(s)] + g[s \ {OneOf(s)}]]
  <2>2. ASSUME NEW s \in Small(n)  PROVE s \in Small(n + 1) /\ g[s] = h[s]
    <3>1. s \in Small(n + 1)  BY <1>0
    <3>2. g[s] = IF s = {} THEN 0 ELSE w[OneOf(s)] + g[s \ {OneOf(s)}]  BY <2>1 DEF Adds
    <3> QED  BY <3>1, <3>2
  <2>3. ASSUME NEW s \in Small(n + 1), s # {}  PROVE s \ {OneOf(s)} \in Small(n)
    <3>1. OneOf(s) \in s  BY <2>3, AnyIs
    <3>2. Cardinality(s \ {OneOf(s)}) = Cardinality(s) - 1  BY <1>0, <3>1, FS_RemoveElement
    <3> QED  BY <1>0, <3>2
  <2>4. ASSUME NEW s \in Small(n + 1)
        PROVE  h[s] = IF s = {} THEN 0 ELSE w[OneOf(s)] + h[s \ {OneOf(s)}]
    <3>1. CASE s = {}  BY <2>4, <3>1
    <3>2. CASE s # {}
      <4>1. g[s \ {OneOf(s)}] = h[s \ {OneOf(s)}]  BY <2>2, <2>3, <3>2
      <4>2. h[s] = w[OneOf(s)] + g[s \ {OneOf(s)}]  BY <2>4, <3>2
      <4> QED  BY <3>2, <4>1, <4>2
    <3> QED  BY <3>1, <3>2
  <2>5. h = [s \in Small(n + 1) |-> h[s]]  OBVIOUS
  <2>6. Adds(h, w, Small(n + 1))
    <3> HIDE DEF h, Small
    <3> QED  BY <2>4, <2>5 DEF Adds
  <2> HIDE DEF h
  <2>7. \E f : Adds(f, w, Small(n + 1))  BY <2>6
  <2> HIDE DEF Small
  <2> QED  BY <2>7
<1>3. Nat \subseteq T
  <2> HIDE DEF T
  <2> QED  BY <1>1, <1>2, Induction
<1>4. Small(Cardinality(D)) = SUBSET D  BY <1>0
<1>5. Cardinality(D) \in T  BY <1>3, FS_CardinalityType
<1> QED  BY <1>4, <1>5

Weighs(g, w, D) == IsFiniteSet(D) /\ (\A x \in D : w[x] \in Nat) /\ Adds(g, w, SUBSET D)

LEMMA SumType ==
  ASSUME NEW D, NEW w, NEW g, Weighs(g, w, D)
  PROVE  \A s \in SUBSET D : g[s] \in Nat
<1> DEFINE T == {s \in SUBSET D : g[s] \in Nat}
<1>1. ASSUME NEW s \in SUBSET D, \A x \in s : s \ {x} \in T  PROVE s \in T
  <2>1. CASE s = {}
    <3>1. g[s] = 0  BY <2>1 DEF Weighs, Adds
    <3> QED  BY <3>1
  <2>2. CASE s # {}
    <3>1. OneOf(s) \in s  BY <2>2, AnyIs
    <3>2. g[s] = w[OneOf(s)] + g[s \ {OneOf(s)}]  BY <2>2 DEF Weighs, Adds
    <3>3. w[OneOf(s)] \in Nat  BY <3>1 DEF Weighs
    <3>4. g[s \ {OneOf(s)}] \in Nat  BY <1>1, <3>1
    <3> QED  BY <3>2, <3>3, <3>4
  <2> QED  BY <2>1, <2>2
<1>2. SUBSET D \subseteq T
  <2> HIDE DEF T
  <2> QED  BY <1>1, SubsetInduction DEF Weighs
<1> QED  BY <1>2

\* Any element may be counted first.
Picks(g, w, D) == \A s \in SUBSET D : \A x \in s : g[s] = w[x] + g[s \ {x}]

LEMMA SumPick ==
  ASSUME NEW D, NEW w, NEW g, Weighs(g, w, D)
  PROVE  Picks(g, w, D)
<1> DEFINE T == {s \in SUBSET D : \A x \in s : g[s] = w[x] + g[s \ {x}]}
<1>1. ASSUME NEW s \in SUBSET D, \A x \in s : s \ {x} \in T, NEW x \in s
      PROVE  g[s] = w[x] + g[s \ {x}]
  <2> DEFINE a == OneOf(s)
  <2>1. a \in s /\ s # {}  BY AnyIs
  <2>2. g[s] = w[a] + g[s \ {a}]  BY <2>1 DEF Weighs, Adds
  <2> HIDE DEF a
  <2>3. CASE x = a  BY <2>2, <2>3
  <2>4. CASE x # a
    <3>1. g[s \ {a}] = w[x] + g[(s \ {a}) \ {x}]  BY <1>1, <2>1, <2>4
    <3>2. g[s \ {x}] = w[a] + g[(s \ {x}) \ {a}]  BY <1>1, <2>1, <2>4
    <3> DEFINE z == g[(s \ {x}) \ {a}]
    <3>3. (s \ {a}) \ {x} = (s \ {x}) \ {a}  OBVIOUS
    <3>4. w[a] \in Nat /\ w[x] \in Nat  BY <2>1 DEF Weighs
    <3>5. z \in Nat  BY SumType
    <3>6. g[s] = w[a] + (w[x] + z) /\ g[s \ {x}] = w[a] + z  BY <2>2, <3>1, <3>2, <3>3
    <3> HIDE DEF z
    <3> QED  BY <3>4, <3>5, <3>6
  <2> QED  BY <2>3, <2>4
<1>2. ASSUME NEW s \in SUBSET D, \A x \in s : s \ {x} \in T  PROVE s \in T  BY <1>1, <1>2
<1>3. SUBSET D \subseteq T
  <2> HIDE DEF T
  <2> QED  BY <1>2, SubsetInduction DEF Weighs
<1> QED  BY <1>3 DEF Picks

\* The sum over a part is no larger.
LEMMA SumPart ==
  ASSUME NEW D, NEW w, NEW g, Weighs(g, w, D), NEW t \in SUBSET D
  PROVE  \A s \in SUBSET D : t \subseteq s => g[t] <= g[s]
<1> DEFINE T == {s \in SUBSET D : t \subseteq s => g[t] <= g[s]}
<1>1. ASSUME NEW s \in SUBSET D, \A x \in s : s \ {x} \in T  PROVE s \in T
  <2> SUFFICES ASSUME t \subseteq s  PROVE g[t] <= g[s]  OBVIOUS
  <2>1. CASE s = t  BY <2>1, SumType
  <2>2. CASE s # t
    <3>1. PICK x \in s : x \notin t  BY <2>2
    <3>2. g[s] = w[x] + g[s \ {x}]  BY SumPick DEF Picks
    <3>3. g[t] <= g[s \ {x}]  BY <1>1, <3>1
    <3>4. w[x] \in Nat /\ g[t] \in Nat /\ g[s \ {x}] \in Nat  BY SumType DEF Weighs
    <3> QED  BY <3>2, <3>3, <3>4
  <2> QED  BY <2>1, <2>2
<1>2. SUBSET D \subseteq T
  <2> HIDE DEF T
  <2> QED  BY <1>1, SubsetInduction DEF Weighs
<1> QED  BY <1>2

\* Elements that correspond, and weigh the same, have the same sum.
Image(m, D) == {m[x] : x \in D}
Carries(m, D, w, E, u) ==
  /\ \A x \in D : m[x] \in E /\ u[m[x]] = w[x]
  /\ \A x, y \in D : m[x] = m[y] => x = y

LEMMA SumMoved ==
  ASSUME NEW D, NEW w, NEW g, Weighs(g, w, D), NEW E, NEW u, NEW h, Weighs(h, u, E),
         NEW m, Carries(m, D, w, E, u)
  PROVE  h[Image(m, D)] = g[D]
<1> DEFINE I(s) == {m[x] : x \in s}
           T == {s \in SUBSET D : h[I(s)] = g[s]}
<1>0. /\ \A x \in D : m[x] \in E /\ u[m[x]] = w[x]
      /\ \A x, y \in D : m[x] = m[y] => x = y
  BY DEF Carries
<1>9. Picks(g, w, D) /\ Picks(h, u, E)  BY SumPick, Zenon
<1>1. ASSUME NEW s \in SUBSET D, \A x \in s : s \ {x} \in T  PROVE s \in T
  <2>1. CASE s = {}
    <3>1. I(s) = {}  BY <2>1
    <3> QED  BY <2>1, <3>1 DEF Weighs, Adds
  <2>2. CASE s # {}
    <3>1. PICK x : x \in s  BY <2>2
    <3>2. g[s] = w[x] + g[s \ {x}]  BY <3>1, <1>9 DEF Picks
    <3>3. I(s) \ {m[x]} = I(s \ {x}) /\ I(s) \in SUBSET E /\ m[x] \in I(s)  BY <1>0, <3>1
    <3>4. h[I(s)] = u[m[x]] + h[I(s) \ {m[x]}]
      <4> HIDE DEF I
      <4> QED  BY <3>3, <1>9, Zenon DEF Picks
    <3>5. h[I(s \ {x})] = g[s \ {x}]  BY <1>1, <3>1
    <3>6. u[m[x]] = w[x]  BY <1>0, <3>1
    <3> HIDE DEF I
    <3>7. h[I(s)] = g[s]  BY <3>2, <3>3, <3>4, <3>5, <3>6
    <3> QED  BY <3>7
  <2> QED  BY <2>1, <2>2
<1>2. SUBSET D \subseteq T
  <2> HIDE DEF T
  <2> QED  BY <1>1, SubsetInduction DEF Weighs
<1>3. h[I(D)] = g[D]  BY <1>2
<1> QED  BY <1>3, Zenon DEF Image

(***************************************************************************)
(* Chunks in use                                                           *)
(***************************************************************************)
LEMMA ChunksForType ==
  \A n \in Nat : /\ ChunksFor(n) \in Nat /\ n <= 2 * ChunksFor(n) /\ 2 * ChunksFor(n) <= n + 1
                 /\ \A m \in Nat : n <= m => ChunksFor(n) <= ChunksFor(m)
BY DEF ChunksFor, ChunkUnits

LEMMA NamesFinite == IsFiniteSet(Names)
BY LibraryAssumption, FS_Product, FS_AddElement DEF Names

Weights(v) == [n \in DOMAIN v.files |-> ChunksFor(Len(v.files[n]))]

LEMMA UsedIs ==
  ASSUME NEW v, IsMap(v.files, Texts)
  PROVE  \E g : Weighs(g, Weights(v), DOMAIN v.files) /\ UsedChunks(v) = g[DOMAIN v.files]
<1> DEFINE D == DOMAIN v.files
           w == Weights(v)
           Same(g) == g = [s \in SUBSET D |->
                             IF s = {} THEN 0
                             ELSE LET x == CHOOSE x \in s : TRUE
                                  IN  ChunksFor(Len(v.files[x])) + g[s \ {x}]]
           g == CHOOSE g : Same(g)
<1>1. IsFiniteSet(D)  BY NamesFinite, FS_Subset DEF IsMap
<1>2. \A x \in D : w[x] \in Nat /\ w[x] = ChunksFor(Len(v.files[x]))
  BY ChunksForType, LenProperties DEF Weights, IsMap, Texts
<1>3. UsedChunks(v) = g[D]  BY Zenon DEF UsedChunks, MapThenSumSet, MapThenFoldSet
<1>4. \A h : Adds(h, w, SUBSET D) <=> Same(h)
  <2> TAKE h
  <2>1. \A s \in SUBSET D : s # {} => w[OneOf(s)] = ChunksFor(Len(v.files[OneOf(s)]))  BY <1>2, AnyIs
  <2> HIDE DEF w, D
  <2> QED  BY <2>1 DEF Adds, OneOf
<1>5. \E h : Same(h)
  <2> HIDE DEF Same
  <2> QED  BY <1>1, <1>4, AddsExists
<1>6. Same(g)
  <2> HIDE DEF Same
  <2> QED  BY <1>5
<1>7. Adds(g, w, SUBSET D)
  <2> HIDE DEF Same, g
  <2> QED  BY <1>4, <1>6
<1> HIDE DEF g
<1> QED  BY <1>1, <1>2, <1>3, <1>7 DEF Weighs

LEMMA UsedType ==
  ASSUME NEW v, IsMap(v.files, Texts)
  PROVE  UsedChunks(v) \in Nat
<1>1. PICK g : Weighs(g, Weights(v), DOMAIN v.files) /\ UsedChunks(v) = g[DOMAIN v.files]  BY UsedIs
<1>2. \A s \in SUBSET DOMAIN v.files : g[s] \in Nat  BY <1>1, SumType, Zenon
<1> QED  BY <1>1, <1>2

\* Where each file of u is in v, with a content that takes as many chunks.
Sits(u, v, m) ==
  /\ \A n \in DOMAIN u.files :
       m[n] \in DOMAIN v.files /\ ChunksFor(Len(v.files[m[n]])) = ChunksFor(Len(u.files[n]))
  /\ \A n, k \in DOMAIN u.files : m[n] = m[k] => n = k

Covers(u, m, S) == Image(m, DOMAIN u.files) = S

LEMMA UsedMoved ==
  ASSUME NEW u, IsMap(u.files, Texts), NEW v, IsMap(v.files, Texts), NEW m, Sits(u, v, m)
  PROVE  /\ UsedChunks(u) <= UsedChunks(v)
         /\ Covers(u, m, DOMAIN v.files) => UsedChunks(u) = UsedChunks(v)
         /\ \A n \in DOMAIN v.files :
              Covers(u, m, DOMAIN v.files \ {n}) => UsedChunks(v) = ChunksFor(Len(v.files[n])) + UsedChunks(u)
<1> DEFINE D == DOMAIN u.files
           E == DOMAIN v.files
           w == Weights(u)
           z == Weights(v)
           I == Image(m, D)
<1>1. PICK g : Weighs(g, w, D) /\ UsedChunks(u) = g[D]  BY UsedIs
<1>2. PICK h : Weighs(h, z, E) /\ UsedChunks(v) = h[E]  BY UsedIs
<1>3. Carries(m, D, w, E, z) /\ \A x \in E : z[x] = ChunksFor(Len(v.files[x]))
  BY DEF Sits, Weights, Carries
<1>4. I \subseteq E  BY <1>3 DEF Carries, Image
<1> HIDE DEF w, z, D, E
<1>5. h[I] = g[D]  BY <1>1, <1>2, <1>3, SumMoved
<1>6. \A s \in SUBSET E : s \subseteq E => h[s] <= h[E]  BY <1>2, SumPart
<1>7. Picks(h, z, E)  BY <1>2, SumPick, Zenon
<1> HIDE DEF I
<1>8. UsedChunks(u) <= UsedChunks(v)  BY <1>1, <1>2, <1>4, <1>5, <1>6
<1>9. I = E => UsedChunks(u) = UsedChunks(v)  BY <1>1, <1>2, <1>5
<1>10. ASSUME NEW n \in E, I = E \ {n}  PROVE UsedChunks(v) = ChunksFor(Len(v.files[n])) + UsedChunks(u)
  <2>1. h[E] = z[n] + h[E \ {n}]  BY <1>7 DEF Picks
  <2> QED  BY <1>1, <1>2, <1>3, <1>5, <1>10, <2>1
<1> QED  BY <1>8, <1>9, <1>10, Zenon DEF D, E, I, Covers

(***************************************************************************)
(* The calls of the engine                                                 *)
(***************************************************************************)
Shape(v) ==
  /\ v = [files |-> v.files, dirs |-> v.dirs]
  /\ IsMap(v.files, Texts) /\ v.dirs \subseteq Folders

LEMMA VaultOKIs == \A v : VaultOK(v) <=> Shape(v) /\ UsedChunks(v) < Chunks
BY DEF VaultOK, Shape

LEMMA WithIs ==
  ASSUME NEW v, Shape(v), NEW n \in Names, NEW data \in Texts
  PROVE  /\ Shape(With(v, n, data)) /\ With(v, n, data).dirs = v.dirs
         /\ DOMAIN With(v, n, data).files = DOMAIN v.files \cup {n}
         /\ With(v, n, data).files[n] = data
         /\ \A m \in DOMAIN v.files \ {n} : With(v, n, data).files[m] = v.files[m]
<1> DEFINE f == [m \in DOMAIN v.files \cup {n} |-> IF m = n THEN data ELSE v.files[m]]
<1>1. IsMap(f, Texts)  BY DEF Shape, IsMap
<1>2. DOMAIN f = DOMAIN v.files \cup {n} /\ f[n] = data /\ \A m \in DOMAIN v.files \ {n} : f[m] = v.files[m]  OBVIOUS
<1>3. With(v, n, data) = [v EXCEPT !.files = f]  BY Zenon DEF With
<1> HIDE DEF f
<1>4. With(v, n, data) = [files |-> f, dirs |-> v.dirs]  BY <1>3 DEF Shape
<1> QED  BY <1>1, <1>2, <1>4 DEF Shape

LEMMA WithoutIs ==
  ASSUME NEW v, Shape(v), NEW S
  PROVE  /\ Shape(Without(v, S)) /\ Without(v, S).dirs = v.dirs
         /\ DOMAIN Without(v, S).files = DOMAIN v.files \ S
         /\ \A m \in DOMAIN v.files \ S : Without(v, S).files[m] = v.files[m]
<1> DEFINE f == [m \in DOMAIN v.files \ S |-> v.files[m]]
<1>1. IsMap(f, Texts)  BY DEF Shape, IsMap
<1>2. DOMAIN f = DOMAIN v.files \ S /\ \A m \in DOMAIN v.files \ S : f[m] = v.files[m]  OBVIOUS
<1>3. Without(v, S) = [v EXCEPT !.files = f]  BY Zenon DEF Without, Restrict
<1> HIDE DEF f
<1>4. Without(v, S) = [files |-> f, dirs |-> v.dirs]  BY <1>3 DEF Shape
<1> QED  BY <1>1, <1>2, <1>4 DEF Shape

\* What the other files take.
Rest(v, n) == UsedChunks(Without(v, {n}))

LEMMA RestSame ==
  ASSUME NEW u, Shape(u), NEW v, Shape(v), NEW n, DOMAIN u.files \ {n} = DOMAIN v.files \ {n},
         \A k \in DOMAIN v.files \ {n} : u.files[k] = v.files[k]
  PROVE  Rest(u, n) = Rest(v, n)
<1> DEFINE a == Without(u, {n})
           b == Without(v, {n})
           m == [k \in DOMAIN v.files \ {n} |-> k]
<1>1. /\ IsMap(a.files, Texts) /\ IsMap(b.files, Texts)
      /\ DOMAIN a.files = DOMAIN v.files \ {n} /\ DOMAIN b.files = DOMAIN v.files \ {n}
      /\ \A k \in DOMAIN v.files \ {n} : a.files[k] = b.files[k]
  BY WithoutIs DEF Shape
<1> HIDE DEF a, b
<1>2. Sits(a, b, m)  BY <1>1 DEF Sits
<1>3. Covers(a, m, DOMAIN b.files)  BY <1>1 DEF Covers, Image
<1> HIDE DEF m
<1> QED  BY <1>1, <1>2, <1>3, UsedMoved DEF Rest, a, b

LEMMA RestIs ==
  ASSUME NEW v, Shape(v), NEW n
  PROVE  /\ Rest(v, n) \in Nat /\ Rest(v, n) <= UsedChunks(v)
         /\ n \in DOMAIN v.files => UsedChunks(v) = ChunksFor(Len(v.files[n])) + Rest(v, n)
         /\ n \notin DOMAIN v.files => UsedChunks(v) = Rest(v, n)
<1> DEFINE a == Without(v, {n})
           m == [k \in DOMAIN v.files \ {n} |-> k]
<1>1. /\ IsMap(a.files, Texts) /\ IsMap(v.files, Texts)
      /\ DOMAIN a.files = DOMAIN v.files \ {n}
      /\ \A k \in DOMAIN v.files \ {n} : a.files[k] = v.files[k]
  BY WithoutIs DEF Shape
<1> HIDE DEF a
<1>2. Sits(a, v, m)  BY <1>1 DEF Sits
<1>3. Covers(a, m, DOMAIN v.files \ {n})  BY <1>1 DEF Covers, Image
<1> HIDE DEF m
<1>4. UsedChunks(a) \in Nat  BY <1>1, UsedType
<1>5. n \notin DOMAIN v.files => DOMAIN v.files = DOMAIN v.files \ {n}  OBVIOUS
<1> QED  BY <1>1, <1>2, <1>3, <1>4, <1>5, UsedMoved DEF Rest, a

LEMMA UsedWith ==
  ASSUME NEW v, Shape(v), NEW n \in Names, NEW data \in Texts
  PROVE  /\ Rest(With(v, n, data), n) = Rest(v, n)
         /\ UsedChunks(With(v, n, data)) = ChunksFor(Len(data)) + Rest(v, n)
<1> DEFINE u == With(v, n, data)
<1>1. /\ Shape(u) /\ n \in DOMAIN u.files /\ u.files[n] = data /\ DOMAIN u.files \ {n} = DOMAIN v.files \ {n}
      /\ \A k \in DOMAIN v.files \ {n} : u.files[k] = v.files[k]
  BY WithIs
<1> HIDE DEF u
<1>2. Rest(u, n) = Rest(v, n)  BY <1>1, RestSame
<1> QED  BY <1>1, <1>2, RestIs DEF u

\* The folders take no chunks.
LEMMA UsedSame ==
  ASSUME NEW u, IsMap(u.files, Texts), NEW v, IsMap(v.files, Texts), u.files = v.files
  PROVE  UsedChunks(u) = UsedChunks(v)
<1> DEFINE m == [k \in DOMAIN v.files |-> k]
<1>1. Sits(u, v, m) /\ Covers(u, m, DOMAIN v.files)  BY DEF Sits, Covers, Image
<1> QED  BY <1>1, UsedMoved

LEMMA WithoutOK ==
  ASSUME NEW v, VaultOK(v), NEW S
  PROVE  VaultOK(Without(v, S))
<1> DEFINE u == Without(v, S)
           m == [k \in DOMAIN v.files |-> k]
<1>1. Shape(v)  BY VaultOKIs
<1>2. /\ Shape(u) /\ DOMAIN u.files = DOMAIN v.files \ S
      /\ \A k \in DOMAIN v.files \ S : u.files[k] = v.files[k]
  BY <1>1, WithoutIs
<1>3. IsMap(u.files, Texts) /\ IsMap(v.files, Texts)  BY <1>1, <1>2 DEF Shape
<1> HIDE DEF u
<1>4. Sits(u, v, m)  BY <1>2 DEF Sits
<1>5. UsedChunks(u) <= UsedChunks(v)  BY <1>3, <1>4, UsedMoved
<1>6. UsedChunks(u) \in Nat /\ UsedChunks(v) \in Nat /\ Chunks \in Nat  BY <1>3, UsedType, LibraryAssumption
<1>7. UsedChunks(v) < Chunks  BY VaultOKIs
<1>8. UsedChunks(u) < Chunks  BY <1>5, <1>6, <1>7
<1> QED  BY <1>2, <1>8, VaultOKIs DEF u

\* With n holding data, which takes as many chunks as there are for it.
LEMMA WithOK ==
  ASSUME NEW v, VaultOK(v), NEW n \in Names, NEW data \in Texts,
         ChunksFor(Len(data)) + Rest(v, n) < Chunks
  PROVE  VaultOK(With(v, n, data))
<1>1. Shape(v)  BY VaultOKIs
<1>2. Shape(With(v, n, data))  BY <1>1, WithIs
<1>3. UsedChunks(With(v, n, data)) = ChunksFor(Len(data)) + Rest(v, n)  BY <1>1, UsedWith
<1> QED  BY <1>2, <1>3, VaultOKIs

LEMMA UsedNow ==
  ASSUME NEW v, VaultOK(v), NEW n
  PROVE  /\ Shape(v) /\ Rest(v, n) \in Nat /\ UsedChunks(v) \in Nat /\ Chunks \in Nat
         /\ UsedChunks(v) < Chunks /\ Rest(v, n) < Chunks
         /\ n \in DOMAIN v.files =>
              /\ v.files[n] \in Texts /\ Len(v.files[n]) \in Nat /\ ChunksFor(Len(v.files[n])) \in Nat
              /\ UsedChunks(v) = ChunksFor(Len(v.files[n])) + Rest(v, n)
         /\ n \notin DOMAIN v.files => UsedChunks(v) = Rest(v, n)
<1>1. Shape(v) /\ UsedChunks(v) < Chunks  BY VaultOKIs
<1>2. /\ Rest(v, n) \in Nat /\ Rest(v, n) <= UsedChunks(v)
      /\ n \in DOMAIN v.files => UsedChunks(v) = ChunksFor(Len(v.files[n])) + Rest(v, n)
      /\ n \notin DOMAIN v.files => UsedChunks(v) = Rest(v, n)
  BY <1>1, RestIs
<1>3. UsedChunks(v) \in Nat /\ Chunks \in Nat  BY <1>1, UsedType, LibraryAssumption DEF Shape
<1>4. n \in DOMAIN v.files => v.files[n] \in Texts  BY <1>1 DEF Shape, IsMap
<1>5. \A t \in Texts : Len(t) \in Nat /\ ChunksFor(Len(t)) \in Nat  BY ChunksForType, LenProperties DEF Texts
<1> QED  BY <1>1, <1>2, <1>3, <1>4, <1>5

LEMMA NothingType == <<>> \in Texts /\ Len(<<>>) = 0 /\ ChunksFor(0) = 0
BY DEF Texts, ChunksFor, ChunkUnits

LEMMA CreatesOK ==
  ASSUME NEW v, VaultOK(v), NEW n \in Names \ DOMAIN v.files
  PROVE  VaultOK(Creates(v, n))
<1>1. ChunksFor(Len(<<>>)) + Rest(v, n) < Chunks  BY UsedNow, NothingType
<1> QED  BY <1>1, WithOK, NothingType DEF Creates

LEMMA RenamesOK ==
  ASSUME NEW v, VaultOK(v), NEW a \in DOMAIN v.files, NEW b \in Names \ DOMAIN v.files
  PROVE  VaultOK(Renames(v, a, b))
<1> DEFINE u == Without(v, {a})
<1>1. VaultOK(u)  BY WithoutOK
<1>2. Shape(v)  BY VaultOKIs
<1>3. b \notin DOMAIN u.files  BY <1>2, WithoutIs
<1>4. UsedChunks(u) = Rest(v, a)  BY DEF Rest
<1> HIDE DEF u
<1>5. Rest(u, b) = Rest(v, a)  BY <1>1, <1>3, <1>4, UsedNow
<1>6. v.files[a] \in Texts /\ ChunksFor(Len(v.files[a])) + Rest(u, b) < Chunks  BY <1>5, UsedNow
<1> QED  BY <1>1, <1>6, WithOK DEF Renames, u

LEMMA CreatesFolderIs ==
  ASSUME NEW v, VaultOK(v), NEW d \in Folders
  PROVE  VaultOK(CreatesFolder(v, d)) /\ CreatesFolder(v, d).files = v.files
<1> DEFINE u == CreatesFolder(v, d)
<1>1. Shape(v) /\ UsedChunks(v) < Chunks  BY VaultOKIs
<1>2. u = [v EXCEPT !.dirs = v.dirs \cup {d}]  BY Zenon DEF CreatesFolder
<1>3. u = [files |-> v.files, dirs |-> v.dirs \cup {d}]  BY <1>1, <1>2 DEF Shape
<1> HIDE DEF u
<1>4. u.files = v.files /\ Shape(u)  BY <1>1, <1>3 DEF Shape
<1>5. UsedChunks(u) = UsedChunks(v)  BY <1>1, <1>4, UsedSame DEF Shape
<1> QED  BY <1>1, <1>4, <1>5, VaultOKIs DEF u

LEMMA DeletesFolderIs ==
  ASSUME NEW v, VaultOK(v), NEW d
  PROVE  /\ VaultOK(DeletesFolder(v, d))
         /\ DOMAIN DeletesFolder(v, d).files = DOMAIN v.files \ InFolder(v, d)
         /\ \A n \in DOMAIN v.files \ InFolder(v, d) : DeletesFolder(v, d).files[n] = v.files[n]
<1> DEFINE w == Without(v, InFolder(v, d))
           u == DeletesFolder(v, d)
<1>1. VaultOK(w)  BY WithoutOK
<1>2. /\ Shape(w) /\ UsedChunks(w) < Chunks
      /\ DOMAIN w.files = DOMAIN v.files \ InFolder(v, d)
      /\ \A n \in DOMAIN v.files \ InFolder(v, d) : w.files[n] = v.files[n]
  BY <1>1, WithoutIs, VaultOKIs
<1>3. u = [w EXCEPT !.dirs = w.dirs \ {d}]  BY Zenon DEF DeletesFolder
<1> HIDE DEF w, u
<1>4. u = [files |-> w.files, dirs |-> w.dirs \ {d}]  BY <1>2, <1>3 DEF Shape
<1>5. u.files = w.files /\ Shape(u)  BY <1>2, <1>4 DEF Shape
<1>6. UsedChunks(u) = UsedChunks(w)  BY <1>2, <1>5, UsedSame DEF Shape
<1> QED  BY <1>2, <1>5, <1>6, VaultOKIs DEF u

\* Renaming a folder moves its files, no two to the same name.
LEMMA RenamesFolderIs ==
  ASSUME NEW v, VaultOK(v), NEW d \in Folders, NEW e \in Folders, MayRenameFolder(v, d, e)
  PROVE  /\ VaultOK(RenamesFolder(v, d, e))
         /\ \A n \in DOMAIN v.files :
              /\ Moved(n, d, e) \in DOMAIN RenamesFolder(v, d, e).files
              /\ RenamesFolder(v, d, e).files[Moved(n, d, e)] = v.files[n]
<1> DEFINE u == RenamesFolder(v, d, e)
           D == DOMAIN v.files
           From(k) == CHOOSE n \in D : Moved(n, d, e) = k
           f == [k \in {Moved(n, d, e) : n \in D} |-> v.files[From(k)]]
           ds == IF d \in v.dirs THEN (v.dirs \ {d}) \cup {e} ELSE v.dirs
<1>1. Shape(v) /\ UsedChunks(v) < Chunks  BY VaultOKIs
<1>2. \A n \in D : n \in Names /\ Moved(n, d, e) \in Names  BY <1>1 DEF Shape, IsMap, Names, Moved
<1>3. \A n, k \in D : Moved(n, d, e) = Moved(k, d, e) => n = k
  <2> SUFFICES ASSUME NEW n \in D, NEW k \in D, Moved(n, d, e) = Moved(k, d, e)  PROVE n = k  OBVIOUS
  <2>1. n = <<n[1], n[2]>> /\ k = <<k[1], k[2]>>  BY <1>2 DEF Names
  <2>2. CASE n[1] = d /\ k[1] = d  BY <2>1, <2>2 DEF Moved
  <2>3. CASE n[1] = d /\ k[1] # d
    <3>1. <<e, n[2]>> = k  BY <2>3 DEF Moved
    <3>2. <<e, n[2]>> \notin D  BY <2>3 DEF MayRenameFolder, InFolder
    <3> QED  BY <3>1, <3>2
  <2>4. CASE n[1] # d /\ k[1] = d
    <3>1. <<e, k[2]>> = n  BY <2>4 DEF Moved
    <3>2. <<e, k[2]>> \notin D  BY <2>4 DEF MayRenameFolder, InFolder
    <3> QED  BY <3>1, <3>2
  <2>5. CASE n[1] # d /\ k[1] # d  BY <2>5 DEF Moved
  <2> QED  BY <2>2, <2>3, <2>4, <2>5
<1>4. \A n \in D : From(Moved(n, d, e)) = n  BY <1>3
<1>5. u = [files |-> f, dirs |-> ds]  BY Zenon DEF RenamesFolder
<1> HIDE DEF From
<1>6. \A n \in D : Moved(n, d, e) \in DOMAIN f /\ f[Moved(n, d, e)] = v.files[n]  BY <1>4
<1>7. DOMAIN f = {Moved(n, d, e) : n \in D}  OBVIOUS
<1>8. IsMap(f, Texts)
  <2>1. ASSUME NEW k \in DOMAIN f  PROVE k \in Names /\ f[k] \in Texts
    <3>1. PICK n \in D : k = Moved(n, d, e)  BY <1>7
    <3>2. f[k] = v.files[n]  BY <1>6, <3>1
    <3>3. v.files[n] \in Texts  BY <1>1 DEF Shape, IsMap
    <3> QED  BY <1>2, <3>1, <3>2, <3>3
  <2>2. f = [k \in DOMAIN f |-> f[k]]  OBVIOUS
  <2> HIDE DEF f
  <2> QED  BY <2>1, <2>2 DEF IsMap
<1>9. ds \subseteq Folders  BY <1>1 DEF Shape
<1> HIDE DEF f, ds, u
<1>10. Shape(u) /\ u.files = f  BY <1>5, <1>8, <1>9 DEF Shape
<1>11. UsedChunks(u) <= UsedChunks(v)
  <2> DEFINE m == [k \in DOMAIN f |-> From(k)]
  <2>1. \A k \in DOMAIN f : m[k] \in D /\ f[k] = v.files[m[k]] /\ k = Moved(m[k], d, e)
    BY <1>4, <1>6, <1>7
  <2> HIDE DEF m
  <2>2. Sits(u, v, m)  BY <1>10, <2>1 DEF Sits
  <2> QED  BY <1>1, <1>10, <2>2, UsedMoved DEF Shape
<1>12. UsedChunks(u) < Chunks  BY <1>1, <1>10, <1>11, UsedType, LibraryAssumption DEF Shape
<1> QED  BY <1>6, <1>10, <1>12, VaultOKIs DEF u

(***************************************************************************)
(* Pieces and overlays                                                     *)
(***************************************************************************)
LEMMA MinMax ==
  ASSUME NEW a \in Int, NEW b \in Int
  PROVE  /\ Min({a, b}) = IF a <= b THEN a ELSE b
         /\ Max({a, b}) = IF a <= b THEN b ELSE a
BY DEF Min, Max

LEMMA PartIs ==
  ASSUME NEW t \in Texts, NEW i \in Nat, NEW j \in Nat, 1 <= i, i <= j + 1, j <= Len(t)
  PROVE  /\ SubSeq(t, i, j) \in Texts /\ Len(SubSeq(t, i, j)) = j - i + 1
         /\ \A k \in 1..j - i + 1 : SubSeq(t, i, j)[k] = t[i + k - 1]
BY SubSeqProperties DEF Texts

LEMMA JoinIs ==
  ASSUME NEW s \in Texts, NEW t \in Texts
  PROVE  /\ s \o t \in Texts /\ Len(s \o t) = Len(s) + Len(t) /\ Len(s) \in Nat /\ Len(t) \in Nat
         /\ \A i \in 1..Len(s) + Len(t) : (s \o t)[i] = IF i <= Len(s) THEN s[i] ELSE t[i - Len(s)]
BY ConcatProperties, LenProperties DEF Texts

LEMMA SameText ==
  ASSUME NEW s \in Texts, NEW t \in Texts, Len(s) = Len(t), \A i \in 1..Len(t) : s[i] = t[i]
  PROVE  s = t
BY SeqEqual DEF Texts

LEMMA HalfIs == \A m, n \in Nat : m <= n => m \div 2 \in Nat /\ m \div 2 <= ChunksFor(n)
BY DEF ChunksFor, ChunkUnits

\* What the next window of t is.
LEMMA PieceIs ==
  ASSUME NEW t \in Texts, NEW off \in Nat
  PROVE  /\ Piece(t, off) \in Texts
         /\ Len(t) <= off => Piece(t, off) = <<>>
         /\ off < Len(t) =>
              /\ Len(Piece(t, off)) = IF off + 2 <= Len(t) THEN 2 ELSE 1
              /\ SubSeq(t, 1, off) \o Piece(t, off) = SubSeq(t, 1, off + Len(Piece(t, off)))
<1>0. Len(t) \in Nat  BY LenProperties DEF Texts
<1>1. Min({off + Window, Len(t)}) = IF off + 2 <= Len(t) THEN off + 2 ELSE Len(t)
  BY <1>0, MinMax DEF Window
<1>2. CASE Len(t) <= off
  <2>1. Piece(t, off) = SubSeq(t, off + 1, Len(t))  BY <1>0, <1>1, <1>2 DEF Piece
  <2>2. SubSeq(t, off + 1, Len(t)) = <<>>  BY <1>0, <1>2 DEF Texts
  <2>3. Piece(t, off) = <<>> /\ Piece(t, off) \in Texts  BY <2>1, <2>2, NothingType
  <2>4. ~(off < Len(t))  BY <1>0, <1>2
  <2> QED  BY <2>3, <2>4
<1>3. CASE off < Len(t)
  <2> DEFINE k == IF off + 2 <= Len(t) THEN 2 ELSE 1
             w == SubSeq(t, off + 1, off + k)
             a == SubSeq(t, 1, off)
             b == SubSeq(t, 1, off + k)
  <2>1. Min({off + Window, Len(t)}) = off + k /\ k \in Nat /\ off + k <= Len(t)  BY <1>0, <1>1, <1>3
  <2>2. Piece(t, off) = w  BY <2>1 DEF Piece
  <2> HIDE DEF k
  <2>3. w \in Texts /\ Len(w) = k /\ \A j \in 1..k : w[j] = t[off + j]
    <3> DEFINE i == off + 1
               e == off + k
    <3>1. /\ i \in Nat /\ e \in Nat /\ 1 <= i /\ i <= e + 1 /\ e <= Len(t) /\ e - i + 1 = k
          /\ \A j \in 1..k : i + j - 1 = off + j
      BY <1>0, <2>1
    <3> HIDE DEF i, e
    <3>2. /\ SubSeq(t, i, e) \in Texts /\ Len(SubSeq(t, i, e)) = e - i + 1
          /\ \A j \in 1..e - i + 1 : SubSeq(t, i, e)[j] = t[i + j - 1]
      BY <3>1, PartIs
    <3> QED  BY <3>1, <3>2 DEF i, e
  <2>4. a \in Texts /\ Len(a) = off /\ \A j \in 1..off : a[j] = t[j]  BY <1>0, <1>3, PartIs
  <2>5. b \in Texts /\ Len(b) = off + k /\ \A j \in 1..off + k : b[j] = t[j]
    <3> DEFINE e == off + k
    <3>1. e \in Nat /\ e <= Len(t)  BY <2>1
    <3> HIDE DEF e
    <3>2. SubSeq(t, 1, e) \in Texts /\ Len(SubSeq(t, 1, e)) = e /\ \A j \in 1..e : SubSeq(t, 1, e)[j] = t[j]
      BY <1>0, <3>1, PartIs
    <3> QED  BY <3>2 DEF e
  <2> HIDE DEF w, a, b
  <2>6. a \o w = b
    <3>1. /\ a \o w \in Texts /\ Len(a \o w) = off + k
          /\ \A i \in 1..off + k : (a \o w)[i] = IF i <= off THEN a[i] ELSE w[i - off]
      BY <2>3, <2>4, JoinIs
    <3>2. \A i \in 1..off + k : (a \o w)[i] = b[i]
      <4> TAKE i \in 1..off + k
      <4>1. CASE i <= off  BY <2>1, <2>4, <2>5, <3>1, <4>1
      <4>2. CASE ~(i <= off)
        <5>1. i - off \in 1..k /\ off + (i - off) = i  BY <2>1, <4>2
        <5> QED  BY <2>3, <2>5, <3>1, <4>2, <5>1
      <4> QED  BY <4>1, <4>2
    <3> QED  BY <2>5, <3>1, <3>2, SameText
  <2> QED  BY <1>0, <1>3, <2>2, <2>3, <2>6 DEF k, a, b
<1> QED  BY <1>0, <1>2, <1>3

LEMMA OverlayIs ==
  ASSUME NEW old \in Texts, NEW off \in Nat, off <= Len(old), NEW data \in Texts
  PROVE  /\ Overlay(old, off, data) \in Texts
         /\ Len(Overlay(old, off, data)) = IF off + Len(data) <= Len(old) THEN Len(old) ELSE off + Len(data)
<1> DEFINE a == SubSeq(old, 1, off)
           b == SubSeq(old, off + Len(data) + 1, Len(old))
           k == IF off + Len(data) <= Len(old) THEN Len(old) - (off + Len(data)) ELSE 0
<1>0. Len(old) \in Nat /\ Len(data) \in Nat  BY LenProperties DEF Texts
<1>1. a \in Texts /\ Len(a) = off  BY <1>0, PartIs
<1>2. b \in Texts /\ Len(b) = k
  <2>1. CASE off + Len(data) <= Len(old)
    <3> DEFINE i == off + Len(data) + 1
               e == Len(old)
    <3>1. i \in Nat /\ e \in Nat /\ 1 <= i /\ i <= e + 1 /\ e <= Len(old) /\ k = e - i + 1  BY <1>0, <2>1
    <3> HIDE DEF i, e, k
    <3>2. SubSeq(old, i, e) \in Texts /\ Len(SubSeq(old, i, e)) = e - i + 1  BY <3>1, PartIs
    <3> QED  BY <3>1, <3>2 DEF i, e
  <2>2. CASE ~(off + Len(data) <= Len(old))
    <3>1. b = <<>>  BY <1>0, <2>2 DEF Texts
    <3> QED  BY <2>2, <3>1, NothingType
  <2> QED  BY <2>1, <2>2
<1>3. Overlay(old, off, data) = (a \o data) \o b  BY DEF Overlay
<1> HIDE DEF a, b
<1>4. a \o data \in Texts /\ Len(a \o data) = off + Len(data)  BY <1>1, JoinIs
<1>5. (a \o data) \o b \in Texts /\ Len((a \o data) \o b) = (off + Len(data)) + k
  <2> DEFINE c == a \o data
  <2> HIDE DEF c, k
  <2>1. c \in Texts /\ Len(c) = off + Len(data)  BY <1>4 DEF c
  <2>2. c \o b \in Texts /\ Len(c \o b) = Len(c) + Len(b)  BY <1>2, <2>1, JoinIs
  <2> QED  BY <1>2, <2>1, <2>2 DEF c
<1>6. Overlay(old, off, data) \in Texts /\ Len(Overlay(old, off, data)) = (off + Len(data)) + k
  BY <1>3, <1>5, Zenon
<1>7. (off + Len(data)) + k = IF off + Len(data) <= Len(old) THEN Len(old) ELSE off + Len(data)
  <2> DEFINE x == off + Len(data)
             y == Len(old)
  <2>1. x \in Nat /\ y \in Nat /\ k = IF x <= y THEN y - x ELSE 0  BY <1>0
  <2> HIDE DEF x, y, k
  <2>2. x + k = IF x <= y THEN y ELSE x  BY <2>1
  <2> QED  BY <2>2 DEF x, y
<1> QED  BY <1>6, <1>7, Zenon

\* A write that finds room leaves no more chunks in use than there are.
LEMMA WritesOK ==
  ASSUME NEW v, VaultOK(v), NEW n \in DOMAIN v.files, NEW off \in Nat, off <= Len(v.files[n]),
         NEW data \in Texts, HasRoomFor(v, n, off, data)
  PROVE  VaultOK(Writes(v, n, off, data))
<1> DEFINE old == v.files[n]
           new == Overlay(old, off, data)
<1>0. n \in Names  BY VaultOKIs DEF Shape, IsMap
<1>1. /\ Shape(v) /\ old \in Texts /\ Len(old) \in Nat /\ Chunks \in Nat /\ Rest(v, n) \in Nat
      /\ ChunksFor(Len(old)) \in Nat
      /\ UsedChunks(v) = ChunksFor(Len(old)) + Rest(v, n)
  BY UsedNow
<1>2. Len(data) \in Nat  BY LenProperties DEF Texts
<1>3. new \in Texts /\ Len(new) = Max({off + Len(data), Len(old)})
  <2>1. new \in Texts /\ Len(new) = IF off + Len(data) <= Len(old) THEN Len(old) ELSE off + Len(data)
    BY <1>1, OverlayIs
  <2> DEFINE i == off + Len(data)
             j == Len(old)
  <2>2. i \in Int /\ j \in Int  BY <1>1, <1>2
  <2>3. Max({i, j}) = IF i <= j THEN j ELSE i
    <3> HIDE DEF i, j
    <3> QED  BY <2>2, MinMax
  <2> QED  BY <2>1, <2>3
<1>4. ChunksFor(Len(new)) - off \div 2 <= Chunks - 1 - UsedChunks(v)
  BY <1>3 DEF HasRoomFor, FreeChunks, ChunkUnits
<1>5. Writes(v, n, off, data) = With(v, n, new)  BY DEF Writes
<1>6. Len(new) \in Nat  BY <1>3, LenProperties DEF Texts
<1> HIDE DEF old, new
<1>7. off \div 2 <= ChunksFor(Len(old)) /\ off \div 2 \in Nat
  <2>1. off <= Len(old)  BY DEF old
  <2> QED  BY <1>1, <2>1, HalfIs
<1>8. ChunksFor(Len(new)) \in Nat  BY <1>6, ChunksForType
<1>9. ChunksFor(Len(new)) + Rest(v, n) < Chunks  BY <1>1, <1>4, <1>7, <1>8
<1> QED  BY <1>0, <1>3, <1>5, <1>9, WithOK

(***************************************************************************)
(* The invariant                                                           *)
(***************************************************************************)
\* The contents in D are in the vault v, each under a name that is not in S.
Kept(v, S, D) == \A data \in D : \E n \in DOMAIN v.files \ S : v.files[n] = data

\* The name whose file the operation is about to write or to remove.
AtRisk == IF op.pc \in {"saving", "copying", "verifying", "cleaning"} THEN {op.name} ELSE {}

\* Whichever of the two the medium turns out to hold.
Held == Kept(vault, AtRisk, doomed) /\ Kept(other, AtRisk, doomed)

Engine ==
  /\ ~poisoned => other = vault
  /\ op.pc \in {"saving", "copying", "verifying", "checking"} => ~poisoned
  /\ op.pc = "idle" => op = Idle

\* The source of an import: as long as its time is the one noted at the
\* beginning, its size is too, and what has been read is what it holds.
Source(i) ==
  /\ op.mtime <= inodes[i].mtime
  /\ op.mtime = inodes[i].mtime =>
       Len(inodes[i].data) = op.size /\ op.data = SubSeq(inodes[i].data, 1, op.off)

Working == {"copying", "verifying", "cleaning", "checking", "erasing", "unlinking"}

Copies ==
  /\ \A p \in Sources : disk[p] <= stamp
  /\ op.pc \in Working => op.inode \in Inodes /\ op.inode <= stamp /\ op.todo # <<>>
  /\ op.pc \in {"copying", "verifying", "checking"} => op.name \in DOMAIN vault.files /\ Source(op.inode)
  /\ op.pc \in {"verifying", "checking"} => op.off = op.size
  /\ op.pc = "checking" => vault.files[op.name] = op.data
  /\ op.pc = "next" => op.off = 0 /\ op.data = <<>>

\* What the application shows is the vault v; while a file is edited; while
\* files are imported, none of which it shows yet.
Viewed(v, sel, sh, half) == half \/ sh = NoContent \/ (sel # NoName /\ sh = v.files[sel])

Matches(v, fs, ds, sel, sh, old, half) ==
  /\ DOMAIN fs = DOMAIN v.files /\ ds = FoldersOf(v)
  /\ sel \in DOMAIN fs \cup {NoName}
  /\ old \/ fs = Listed(v)
  /\ Viewed(v, sel, sh, half)

Edits(v, fs, ds, sel, n) ==
  DOMAIN fs = DOMAIN v.files /\ ds = FoldersOf(v) /\ n = sel /\ sel \in DOMAIN fs

Imports(v, fs, ds, sel, sh, half, reserved) ==
  /\ DOMAIN fs \subseteq DOMAIN v.files /\ DOMAIN fs \subseteq reserved /\ ds = FoldersOf(v)
  /\ sel \in DOMAIN fs \cup {NoName}
  /\ Viewed(v, sel, sh, half)

RootNames == {Root} \X Leaves

Shows ==
  /\ op.pc = "idle" => Matches(vault, files, folders, selected, shown, stale, torn)
  /\ op.pc = "saving" => Edits(vault, files, folders, selected, op.name)
  /\ op.pc \notin {"idle", "saving"} => Imports(vault, files, folders, selected, shown, torn, op.reserved)
  /\ op.pc \in {"copying", "verifying", "cleaning"} => op.name \in RootNames \ DOMAIN files

\* There is room for the whole of what is being written.
Room(size) == ChunksFor(size) <= Chunks - 1 - Rest(vault, op.name)

Even(n) == n % 2 = 0

Fits ==
  /\ op.pc = "saving" =>
       /\ Len(vault.files[op.name]) = op.off
       /\ op.off <= Len(op.data) /\ (Even(op.off) \/ op.off = Len(op.data))
       /\ ~stale => Room(Len(op.data))
  /\ op.pc = "copying" =>
       /\ Len(vault.files[op.name]) = op.off
       /\ op.size <= Len(inodes[op.inode].data) /\ op.off <= Len(inodes[op.inode].data)
       /\ Even(op.off) \/ op.size <= op.off
       /\ Room(op.size)
  /\ ~full

Inductive == TypeOK /\ Held /\ Engine /\ Copies /\ Shows /\ Fits

(***************************************************************************)
(* Names, lists and folders                                                *)
(***************************************************************************)
LEMMA NamesAre ==
  /\ NoName \notin Names /\ RootNames \subseteq Names
  /\ \A n \in Names : n = <<n[1], n[2]>> /\ n[1] \in Folders \cup {Root} /\ n[2] \in Leaves
  /\ \A d \in Folders \cup {Root}, k \in Leaves : <<d, k>> \in Names
<1>1. 0 \notin Leaves  BY LibraryAssumption, FS_CardinalityType
<1>2. NoName \notin Names  BY <1>1 DEF Names, NoName
<1>3. \A n \in Names : n = <<n[1], n[2]>> /\ n[1] \in Folders \cup {Root} /\ n[2] \in Leaves  BY DEF Names
<1>4. \A d \in Folders \cup {Root}, k \in Leaves : <<d, k>> \in Names  BY DEF Names
<1>5. RootNames \subseteq Names  BY DEF Names, RootNames
<1> QED  BY <1>2, <1>3, <1>4, <1>5

LEMMA UniqueNameIs ==
  ASSUME NEW R, FreeLeaves(R) # {}
  PROVE  UniqueName(R) \in RootNames \ R
<1> DEFINE F == FreeLeaves(R)
<1>1. F \subseteq Nat /\ F \subseteq Leaves /\ \A k \in F : <<Root, k>> \notin R
  BY LibraryAssumption, FS_CardinalityType DEF FreeLeaves
<1> HIDE DEF F
<1>2. F # {}  BY DEF F
<1>3. \E x \in F : \A y \in F : x <= y  BY <1>1, <1>2, LeastNat
<1>4. Min(F) \in F  BY <1>3 DEF Min
<1> QED  BY <1>1, <1>4 DEF F, UniqueName, RootNames

LEMMA ListedIs ==
  ASSUME NEW v, Shape(v)
  PROVE  /\ IsMap(Listed(v), Nat) /\ DOMAIN Listed(v) = DOMAIN v.files
         /\ \A n \in DOMAIN v.files : Listed(v)[n] = Len(v.files[n])
         /\ FoldersOf(v) \subseteq Folders
<1>1. \A n \in DOMAIN v.files : Len(v.files[n]) \in Nat  BY LenProperties DEF Shape, IsMap, Texts
<1>2. FoldersOf(v) \subseteq Folders
  <2>1. \A n \in DOMAIN v.files \ InFolder(v, Root) : n[1] \in Folders
    BY NamesAre DEF Shape, IsMap, InFolder
  <2> QED  BY <2>1 DEF FoldersOf, Shape
<1> QED  BY <1>1, <1>2 DEF Shape, IsMap, Listed

\* Only files outside the folders come and go: the folders are the same.
LEMMA FoldersSame ==
  ASSUME NEW u, NEW v, u.dirs = v.dirs, NEW S, S \subseteq RootNames, DOMAIN u.files \ S = DOMAIN v.files \ S
  PROVE  FoldersOf(u) = FoldersOf(v)
<1>1. \A n \in S : n[1] = Root  BY DEF RootNames
<1>2. DOMAIN u.files \ InFolder(u, Root) = DOMAIN v.files \ InFolder(v, Root)  BY <1>1 DEF InFolder
<1> QED  BY <1>2 DEF FoldersOf

(***************************************************************************)
(* Calls of the engine                                                     *)
(***************************************************************************)
LEMMA CallKeeps ==
  ASSUME VaultOK(vault), VaultOK(other), poisoned \in BOOLEAN, ~poisoned => other = vault,
         NEW v, VaultOK(v), Succeeds(v) \/ Errs(v)
  PROVE  /\ VaultOK(vault)' /\ VaultOK(other)' /\ (poisoned \in BOOLEAN)' /\ (~poisoned => other = vault)'
         /\ \A S, D : Kept(vault, S, D) /\ Kept(other, S, D) /\ Kept(v, S, D) =>
              Kept(vault', S, D) /\ Kept(other', S, D)
         /\ vault' \in {vault, v}
<1>1. CASE Succeeds(v)  BY <1>1 DEF Succeeds, VaultOK
<1>2. CASE Errs(v)  BY <1>2 DEF Errs, VaultOK
<1> QED  BY <1>1, <1>2

LEMMA KeptPart ==
  ASSUME NEW v, NEW S, NEW D, Kept(v, S, D), NEW E, E \subseteq D, NEW R, R \subseteq S
  PROVE  Kept(v, R, E)
BY DEF Kept

\* What u keeps of v, what it holds under the same names included.
LEMMA KeptAlong ==
  ASSUME NEW v, NEW S, NEW D, Kept(v, S, D), NEW u, DOMAIN v.files \ S \subseteq DOMAIN u.files,
         \A n \in DOMAIN v.files \ S : u.files[n] = v.files[n]
  PROVE  Kept(u, S, D)
BY DEF Kept

(***************************************************************************)
(* The invariant holds initially                                           *)
(***************************************************************************)
LEMMA IdleIs ==
  /\ Idle \in Operations /\ Idle.pc = "idle" /\ Idle.name = NoName /\ Idle.off = 0 /\ Idle.data = <<>>
  /\ Idle.erase = FALSE /\ Idle.todo = <<>> /\ Idle.reserved = {} /\ Idle.inode = NoInode
  /\ Idle.size = 0 /\ Idle.mtime = 0
<1>1. <<>> \in Texts /\ <<>> \in Seq(Sources)  BY NothingType
<1> QED  BY <1>1 DEF Idle, Operations, Phases

LEMMA InitInductive == Init => Inductive
<1> SUFFICES ASSUME Init PROVE Inductive  OBVIOUS
<1> DEFINE n == <<Root, 1>>
           c == <<1>>
           N == Cardinality(Sources)
<1>1. /\ N \in Nat /\ MaxStamp \in Nat /\ N < MaxStamp /\ MaxOps \in Nat /\ MaxSize \in Nat
      /\ Chunks \in Nat /\ 2 <= Chunks /\ 1 \in Leaves
  BY LibraryAssumption, FS_CardinalityType
<1>2. n \in Names  BY <1>1, NamesAre
<1>3. c \in Texts /\ Len(c) = 1 /\ ChunksFor(1) = 1  BY <1>1 DEF Texts, Units, Damaged, ChunksFor, ChunkUnits
<1>4. Shape(vault) /\ DOMAIN vault.files = {n} /\ vault.files[n] = c
  BY <1>2, <1>3 DEF Init, Shape, IsMap
<1>5. VaultOK(vault)
  <2> DEFINE e == Without(vault, {n})
  <2>1. Shape(e) /\ DOMAIN e.files = {}  BY <1>4, WithoutIs
  <2> HIDE DEF e
  <2>2. UsedChunks(e) = 0
    <3>1. PICK g : Weighs(g, Weights(e), DOMAIN e.files) /\ UsedChunks(e) = g[DOMAIN e.files]
      BY <2>1, UsedIs DEF Shape
    <3> QED  BY <2>1, <3>1 DEF Weighs, Adds
  <2>3. Rest(vault, n) = 0  BY <2>2 DEF Rest, e
  <2>4. UsedChunks(vault) = 1
    <3> HIDE DEF n, c
    <3>1. UsedChunks(vault) = ChunksFor(Len(vault.files[n])) + Rest(vault, n)  BY <1>4, RestIs
    <3> QED  BY <1>3, <1>4, <2>3, <3>1
  <2> QED  BY <1>1, <1>4, <2>4, VaultOKIs
<1>6. PICK f \in Bijection(Sources, 1..N) :
        /\ disk = f
        /\ inodes = [i \in Inodes |-> IF i \in {f[p] : p \in Sources}
                                        THEN [data |-> [k \in 1..MaxSize |-> i + 1], mtime |-> 0]
                                        ELSE [data |-> <<>>, mtime |-> 0]]
  BY DEF Init
<1>7. f \in [Sources -> 1..N]  BY DEF Bijection, Injection
<1>8. disk \in [Sources -> Inodes \cup {NoInode}] /\ \A p \in Sources : disk[p] <= stamp
  BY <1>1, <1>6, <1>7 DEF Inodes, Init
<1>9. inodes \in [Inodes -> [data : Texts, mtime : Nat]]
  <2>1. ASSUME NEW i \in Inodes  PROVE inodes[i] \in [data : Texts, mtime : Nat]
    <3>1. CASE i \in {f[p] : p \in Sources}
      <4>1. i \in 1..N  BY <1>7, <3>1
      <4>2. i + 1 \in Units  BY <1>1, <4>1 DEF Units, Damaged
      <4>3. [k \in 1..MaxSize |-> i + 1] \in Texts  BY <1>1, <4>2 DEF Texts
      <4>4. inodes[i] = [data |-> [k \in 1..MaxSize |-> i + 1], mtime |-> 0]  BY <1>6, <3>1, Zenon
      <4> QED  BY <4>3, <4>4
    <3>2. CASE i \notin {f[p] : p \in Sources}
      <4>1. inodes[i] = [data |-> <<>>, mtime |-> 0]  BY <1>6, <3>2, Zenon
      <4> QED  BY <4>1, NothingType
    <3> QED  BY <3>1, <3>2
  <2>2. inodes = [i \in Inodes |-> inodes[i]]  BY <1>6
  <2> QED  BY <2>1, <2>2
<1>10. /\ other = vault /\ poisoned = FALSE /\ files = Listed(vault) /\ folders = FoldersOf(vault)
       /\ selected = NoName /\ shown = NoContent /\ op = Idle /\ ops = 0 /\ stamp = N + 1
       /\ stale = FALSE /\ torn = FALSE /\ full = FALSE /\ doomed = {}
  BY DEF Init
<1>11. IsMap(files, Nat) /\ folders \subseteq Folders /\ DOMAIN files = DOMAIN vault.files
  BY <1>4, <1>10, ListedIs
<1>12. TypeOK
  <2>1. VaultOK(other)  BY <1>5, <1>10
  <2>2. stamp \in 1..MaxStamp /\ ops \in 0..MaxOps /\ op \in Operations  BY <1>1, <1>10, IdleIs
  <2>3. poisoned \in BOOLEAN /\ stale \in BOOLEAN /\ torn \in BOOLEAN /\ full \in BOOLEAN /\ doomed \subseteq Texts
    BY <1>10
  <2>4. selected \in Names \cup {NoName}  BY <1>10
  <2> HIDE DEF N, n, c
  <2> QED  BY <1>5, <1>8, <1>9, <1>11, <2>1, <2>2, <2>3, <2>4 DEF TypeOK
<1>13. Held /\ Engine  BY <1>10, IdleIs DEF Held, Kept, Engine
<1>14. Copies  BY <1>8, <1>10, IdleIs DEF Copies, Working
<1>15. Shows  BY <1>10, <1>11, IdleIs DEF Shows, Matches, Viewed
<1>16. Fits  BY <1>10, IdleIs DEF Fits
<1> QED  BY <1>12, <1>13, <1>14, <1>15, <1>16 DEF Inductive

(***************************************************************************)
(* Operations of one call                                                  *)
(***************************************************************************)
Stamps == stamp' = stamp \/ (stamp < MaxStamp /\ stamp' = stamp + 1)

LEMMA StampsIs ==
  ASSUME Inductive, Stamps
  PROVE  /\ stamp' \in 1..MaxStamp /\ stamp <= stamp'
         /\ \A p \in Sources : disk[p] <= stamp /\ disk[p] <= stamp'
<1>1. /\ stamp \in 1..MaxStamp /\ MaxStamp \in Nat /\ \A p \in Sources : disk[p] <= stamp /\ disk[p] \in Nat
  BY LibraryAssumption, FS_CardinalityType DEF Inductive, TypeOK, Copies, Inodes, NoInode
<1> QED  BY <1>1 DEF Stamps

\* A step that ends the operation in progress, or does what there is to do at once.
LEMMA ReturnsKeeps ==
  ASSUME Inductive, op' = Idle, UNCHANGED outside, Stamps, ops' \in 0..MaxOps, doomed' \subseteq doomed,
         torn' \in BOOLEAN, full' = FALSE,
         NEW v, VaultOK(v), Kept(v, {}, doomed'), Succeeds(v) \/ Errs(v),
         IsMap(files', Nat), stale' \in BOOLEAN,
         Matches(vault', files', folders', selected', shown', stale', torn')
  PROVE  Inductive'
<1>1. /\ TypeOK /\ (~poisoned => other = vault)
      /\ Kept(vault, {}, doomed) /\ Kept(other, {}, doomed)
  BY KeptPart DEF Inductive, Held, Engine
<1>2. disk' = disk /\ inodes' = inodes  BY DEF outside
<1>3. /\ VaultOK(vault') /\ VaultOK(other') /\ poisoned' \in BOOLEAN /\ (~poisoned' => other' = vault')
      /\ Kept(vault', {}, doomed') /\ Kept(other', {}, doomed')
  <2>1. Kept(vault, {}, doomed') /\ Kept(other, {}, doomed')  BY <1>1, KeptPart
  <2>2. VaultOK(vault)' /\ VaultOK(other)' /\ (poisoned \in BOOLEAN)' /\ (~poisoned => other = vault)'
        /\ Kept(vault', {}, doomed') /\ Kept(other', {}, doomed')
    BY <1>1, <2>1, CallKeeps DEF TypeOK
  <2> QED  BY <2>2 DEF VaultOK
<1>4. folders' \subseteq Folders /\ selected' \in Names \cup {NoName}
  <2>1. Shape(vault')  BY <1>3, VaultOKIs
  <2> QED  BY <2>1, ListedIs DEF Matches, IsMap
<1>5. TypeOK'
  <2>1. doomed' \subseteq Texts  BY <1>1 DEF TypeOK
  <2>2. VaultOK(vault)' /\ VaultOK(other)'  BY <1>3 DEF VaultOK
  <2> QED  BY <1>1, <1>2, <1>3, <1>4, <2>1, <2>2, StampsIs, IdleIs DEF TypeOK, IsMap
<1>6. Held' /\ Engine'  BY <1>3, IdleIs DEF Held, AtRisk, Engine, Kept
<1>7. Copies'  BY <1>2, StampsIs, IdleIs DEF Copies, Working
<1>8. Shows'  BY IdleIs DEF Shows, Matches, Viewed, FoldersOf, InFolder, Listed
<1>9. Fits'  BY IdleIs DEF Fits
<1> QED  BY <1>5, <1>6, <1>7, <1>8, <1>9 DEF Inductive

LEMMA ActsKeeps ==
  ASSUME Inductive, op.pc = "idle", UNCHANGED <<outside, op, torn, full>>, Stamps,
         ops' \in 0..MaxOps, doomed' \subseteq doomed,
         NEW v, VaultOK(v), Kept(v, {}, doomed'), Succeeds(v) \/ Errs(v),
         IsMap(files', Nat), stale' \in BOOLEAN,
         Matches(vault', files', folders', selected', shown', stale', torn)
  PROVE  Inductive'
<1>1. op' = Idle /\ torn' = torn /\ torn \in BOOLEAN /\ full' = FALSE
  BY DEF Inductive, TypeOK, Engine, Fits
<1> QED  BY <1>1, ReturnsKeeps

\* What an operation of one call finds.
LEMMA Between ==
  ASSUME Inductive, op.pc = "idle"
  PROVE  /\ VaultOK(vault) /\ Shape(vault) /\ IsMap(files, Nat) /\ stale \in BOOLEAN /\ ops \in 0..MaxOps
         /\ Kept(vault, {}, doomed) /\ DOMAIN files = DOMAIN vault.files /\ folders = FoldersOf(vault)
         /\ selected \in DOMAIN files \cup {NoName} /\ NoName \notin DOMAIN files
         /\ Viewed(vault, selected, shown, torn)
         /\ Matches(vault, files, folders, selected, shown, stale, torn)
<1>1. VaultOK(vault) /\ Shape(vault)  BY VaultOKIs DEF Inductive, TypeOK
<1>2. IsMap(files, Nat) /\ stale \in BOOLEAN /\ ops \in 0..MaxOps  BY DEF Inductive, TypeOK
<1>3. NoName \notin DOMAIN files  BY <1>2, NamesAre DEF IsMap
<1>4. Kept(vault, {}, doomed)  BY DEF Inductive, Held, AtRisk
<1>5. Matches(vault, files, folders, selected, shown, stale, torn)  BY DEF Inductive, Shows
<1> QED  BY <1>1, <1>2, <1>3, <1>4, <1>5 DEF Matches

LEMMA BeginsIs == Inductive /\ Begins => op.pc = "idle" /\ ops' \in 0..MaxOps
BY LibraryAssumption DEF Inductive, TypeOK, Begins

\* An operation whose call fails.
LEMMA FailKeeps ==
  ASSUME Inductive, op.pc = "idle", UNCHANGED <<outside, op, torn, full>>, Stamps,
         ops' \in 0..MaxOps, doomed' \subseteq doomed, NEW v, VaultOK(v), Kept(v, {}, doomed'), Fails(v)
  PROVE  Inductive'
<1>1. Errs(v) /\ vault' = vault  BY DEF Fails, Errs
<1>2. files' = files /\ folders' = folders /\ selected' = selected /\ shown' = shown /\ stale' = stale
  BY DEF Fails, view
<1>3. IsMap(files', Nat) /\ stale' \in BOOLEAN  BY <1>2, Between DEF IsMap
<1>4. Matches(vault', files', folders', selected', shown', stale', torn)
  BY <1>1, <1>2, Between DEF Matches, Viewed, FoldersOf, InFolder, Listed
<1> QED  BY <1>1, <1>3, <1>4, ActsKeeps

LEMMA SelectsIs ==
  ASSUME NEW v, NEW fs, DOMAIN fs \subseteq Names, NEW sel, Selects(v, fs, sel),
         NEW half, sel = selected => Viewed(v, sel, shown, half)
  PROVE  selected' = sel /\ Viewed(v, sel, shown', half)
<1>1. CASE sel = selected  BY <1>1 DEF Selects, Viewed
<1>2. CASE sel # selected
  <2>1. shown' \in Loads(v, fs, sel) /\ selected' = sel  BY <1>2 DEF Selects
  <2> QED  BY <2>1, NamesAre DEF Loads, Viewed
<1> QED  BY <1>1, <1>2

LEMMA SelectFileKeeps ==
  ASSUME Inductive, NEW n \in Names, SelectFile(n)
  PROVE  Inductive'
<1>1. /\ op.pc = "idle" /\ n \in DOMAIN files /\ Selects(vault, files, n)
      /\ vault' = vault /\ other' = other /\ poisoned' = poisoned
      /\ UNCHANGED <<outside, files, folders, op, ops, stale, torn, full, doomed>> /\ Stamps
  BY DEF SelectFile, engine, history, Stamps
<1>2. Errs(vault)  BY <1>1 DEF Errs
<1>3. selected' = n /\ Viewed(vault, n, shown', torn)  BY <1>1, Between, SelectsIs DEF IsMap
<1>4. Matches(vault', files', folders', selected', shown', stale', torn)
  BY <1>1, <1>3, Between DEF Matches, Viewed, FoldersOf, InFolder, Listed
<1>5. IsMap(files', Nat) /\ stale' \in BOOLEAN /\ ops' \in 0..MaxOps  BY <1>1, Between DEF IsMap
<1>6. Kept(vault, {}, doomed') /\ doomed' \subseteq doomed  BY <1>1, Between DEF Kept
<1> QED  BY <1>1, <1>2, <1>4, <1>5, <1>6, Between, ActsKeeps

LEMMA CreatesIs ==
  ASSUME NEW v, VaultOK(v), NEW n \in Names \ DOMAIN v.files
  PROVE  /\ VaultOK(Creates(v, n)) /\ Creates(v, n).dirs = v.dirs
         /\ DOMAIN Creates(v, n).files = DOMAIN v.files \cup {n} /\ Creates(v, n).files[n] = <<>>
         /\ \A k \in DOMAIN v.files : Creates(v, n).files[k] = v.files[k]
<1>1. Shape(v)  BY VaultOKIs
<1>2. /\ With(v, n, <<>>).dirs = v.dirs
      /\ DOMAIN With(v, n, <<>>).files = DOMAIN v.files \cup {n} /\ With(v, n, <<>>).files[n] = <<>>
      /\ \A k \in DOMAIN v.files \ {n} : With(v, n, <<>>).files[k] = v.files[k]
  BY <1>1, WithIs, NothingType
<1> QED  BY <1>2, CreatesOK DEF Creates

LEMMA NewNoteKeeps ==
  ASSUME Inductive, NewNote
  PROVE  Inductive'
<1> DEFINE n == UniqueName(DOMAIN files)
           v == Creates(vault, n)
<1>1. /\ Begins /\ FreeLeaves(DOMAIN files) # {}
      /\ \/ /\ Succeeds(v) /\ files' = Listed(v) /\ stale' = FALSE /\ Selects(v, Listed(v), n)
            /\ folders' = folders
         \/ Fails(v)
      /\ UNCHANGED <<outside, op, torn, full>> /\ Stamps /\ doomed' = doomed
  BY DEF NewNote, Lists, Stamps
<1>2. op.pc = "idle" /\ ops' \in 0..MaxOps  BY <1>1, BeginsIs
<1>3. n \in RootNames \ DOMAIN files  BY <1>1, UniqueNameIs
<1>4. n \in Names \ DOMAIN vault.files  BY <1>2, <1>3, Between, NamesAre
<1> HIDE DEF n
<1>5. /\ VaultOK(v) /\ v.dirs = vault.dirs /\ DOMAIN v.files = DOMAIN vault.files \cup {n}
      /\ \A k \in DOMAIN vault.files : v.files[k] = vault.files[k]
  BY <1>2, <1>4, Between, CreatesIs
<1> HIDE DEF v
<1>6. Kept(v, {}, doomed')  BY <1>1, <1>2, <1>5, Between, KeptAlong
<1>7. CASE Fails(v)  BY <1>1, <1>2, <1>5, <1>6, <1>7, FailKeeps
<1>8. CASE Succeeds(v) /\ files' = Listed(v) /\ stale' = FALSE /\ Selects(v, Listed(v), n) /\ folders' = folders
  <2>1. Shape(v) /\ vault' = v  BY <1>5, <1>8, VaultOKIs DEF Succeeds
  <2>2. IsMap(Listed(v), Nat) /\ DOMAIN Listed(v) = DOMAIN v.files  BY <2>1, ListedIs
  <2>3. n # selected  BY <1>2, <1>3, Between, NamesAre
  <2>4. selected' = n /\ Viewed(v, n, shown', torn)  BY <1>8, <2>2, <2>3, SelectsIs DEF IsMap
  <2>5. folders = FoldersOf(v)
    <3>1. {n} \subseteq RootNames /\ DOMAIN v.files \ {n} = DOMAIN vault.files \ {n}  BY <1>3, <1>5
    <3> QED  BY <1>2, <1>5, <3>1, Between, FoldersSame
  <2>6. Matches(v, files', folders', selected', shown', stale', torn)
    BY <1>5, <1>8, <2>2, <2>4, <2>5 DEF Matches
  <2> QED  BY <1>1, <1>2, <1>5, <1>6, <1>8, <2>1, <2>2, <2>6, ActsKeeps
<1> QED  BY <1>1, <1>7, <1>8

LEMMA DeleteFileKeeps ==
  ASSUME Inductive, NEW n \in Names, DeleteFile(n)
  PROVE  Inductive'
<1> DEFINE v == Deletes(vault, n)
           sel == IF selected = n THEN NoName ELSE selected
<1>1. /\ Begins /\ n \in DOMAIN files \cap DOMAIN vault.files
      /\ \/ /\ Succeeds(v) /\ files' = Listed(v) /\ stale' = FALSE /\ folders' = FoldersOf(v)
            /\ Selects(v, files, sel)
         \/ Fails(v)
      /\ UNCHANGED <<outside, op, torn, full>> /\ Stamps /\ doomed' = doomed \ {vault.files[n]}
  BY DEF DeleteFile, Lists, Stamps
<1>2. op.pc = "idle" /\ ops' \in 0..MaxOps  BY <1>1, BeginsIs
<1>3. /\ VaultOK(v) /\ DOMAIN v.files = DOMAIN vault.files \ {n}
      /\ \A k \in DOMAIN vault.files \ {n} : v.files[k] = vault.files[k]
  BY <1>2, Between, WithoutOK, WithoutIs DEF Deletes
<1> HIDE DEF v
<1>4. Kept(v, {}, doomed')  BY <1>1, <1>2, <1>3, Between DEF Kept
<1>5. CASE Fails(v)  BY <1>1, <1>2, <1>3, <1>4, <1>5, FailKeeps
<1>6. CASE /\ Succeeds(v) /\ files' = Listed(v) /\ stale' = FALSE /\ folders' = FoldersOf(v)
           /\ Selects(v, files, sel)
  <2>1. Shape(v) /\ vault' = v  BY <1>3, <1>6, VaultOKIs DEF Succeeds
  <2>2. IsMap(Listed(v), Nat) /\ DOMAIN Listed(v) = DOMAIN v.files  BY <2>1, ListedIs
  <2>3. sel = selected => Viewed(v, sel, shown, torn)  BY <1>1, <1>2, <1>3, Between DEF Viewed
  <2>4. sel \in DOMAIN v.files \cup {NoName}  BY <1>2, <1>3, Between
  <2> HIDE DEF sel
  <2>5. selected' = sel /\ Viewed(v, sel, shown', torn)  BY <1>2, <1>6, <2>3, Between, SelectsIs DEF IsMap
  <2>6. Matches(v, files', folders', selected', shown', stale', torn)
    BY <1>6, <2>2, <2>4, <2>5 DEF Matches
  <2> QED  BY <1>1, <1>2, <1>3, <1>4, <1>6, <2>1, <2>2, <2>6, ActsKeeps
<1> QED  BY <1>1, <1>5, <1>6

LEMMA RenamesIs ==
  ASSUME NEW v, VaultOK(v), NEW a \in DOMAIN v.files, NEW b \in Names \ DOMAIN v.files
  PROVE  /\ VaultOK(Renames(v, a, b)) /\ Renames(v, a, b).dirs = v.dirs
         /\ DOMAIN Renames(v, a, b).files = (DOMAIN v.files \ {a}) \cup {b}
         /\ Renames(v, a, b).files[b] = v.files[a]
         /\ \A k \in DOMAIN v.files \ {a} : Renames(v, a, b).files[k] = v.files[k]
         /\ \A D : Kept(v, {}, D) => Kept(Renames(v, a, b), {}, D)
         /\ a[1] = b[1] => FoldersOf(Renames(v, a, b)) = FoldersOf(v)
<1> DEFINE w == Without(v, {a})
           u == Renames(v, a, b)
<1>1. Shape(v) /\ v.files[a] \in Texts  BY VaultOKIs DEF Shape, IsMap
<1>2. /\ Shape(w) /\ w.dirs = v.dirs /\ DOMAIN w.files = DOMAIN v.files \ {a}
      /\ \A k \in DOMAIN v.files \ {a} : w.files[k] = v.files[k]
  BY <1>1, WithoutIs
<1>3. u = With(w, b, v.files[a])  BY DEF Renames
<1>4. VaultOK(u)  BY RenamesOK
<1> HIDE DEF w, u
<1>5. /\ u.dirs = w.dirs /\ DOMAIN u.files = DOMAIN w.files \cup {b} /\ u.files[b] = v.files[a]
      /\ \A k \in DOMAIN w.files \ {b} : u.files[k] = w.files[k]
  BY <1>1, <1>2, <1>3, WithIs
<1>6. /\ u.dirs = v.dirs /\ DOMAIN u.files = (DOMAIN v.files \ {a}) \cup {b}
      /\ \A k \in DOMAIN v.files \ {a} : u.files[k] = v.files[k]
  BY <1>2, <1>5
<1>7. \A D : Kept(v, {}, D) => Kept(u, {}, D)  BY <1>5, <1>6 DEF Kept
<1>8. ASSUME a[1] = b[1]  PROVE FoldersOf(u) = FoldersOf(v)
  <2>1. {k[1] : k \in DOMAIN u.files \ InFolder(u, Root)} = {k[1] : k \in DOMAIN v.files \ InFolder(v, Root)}
    BY <1>6, <1>8 DEF InFolder
  <2> QED  BY <1>6, <2>1 DEF FoldersOf
<1> QED  BY <1>4, <1>5, <1>6, <1>7, <1>8 DEF u

LEMMA RenameFileKeeps ==
  ASSUME Inductive, NEW n \in Names, NEW k \in Leaves, RenameFile(n, k)
  PROVE  Inductive'
<1> DEFINE m == <<n[1], k>>
           v == Renames(vault, n, m)
           sel == IF selected = n THEN m ELSE selected
<1>1. /\ Begins /\ n \in DOMAIN files \cap DOMAIN vault.files /\ m # n /\ m \notin DOMAIN files
      /\ \/ /\ Succeeds(v) /\ files' = Listed(v) /\ stale' = FALSE /\ folders' = folders
            /\ Selects(v, Listed(v), sel)
         \/ Fails(v)
      /\ UNCHANGED <<outside, op, torn, full>> /\ Stamps /\ doomed' = doomed
  BY DEF RenameFile, Lists, Stamps
<1>2. op.pc = "idle" /\ ops' \in 0..MaxOps  BY <1>1, BeginsIs
<1>3. m \in Names \ DOMAIN vault.files /\ n[1] = m[1]  BY <1>1, <1>2, Between, NamesAre
<1> HIDE DEF m
<1>4. /\ VaultOK(v) /\ DOMAIN v.files = (DOMAIN vault.files \ {n}) \cup {m} /\ v.files[m] = vault.files[n]
      /\ \A j \in DOMAIN vault.files \ {n} : v.files[j] = vault.files[j]
      /\ Kept(v, {}, doomed) /\ FoldersOf(v) = FoldersOf(vault)
  BY <1>1, <1>2, <1>3, Between, RenamesIs
<1> HIDE DEF v
<1>5. Kept(v, {}, doomed')  BY <1>1, <1>4 DEF Kept
<1>6. CASE Fails(v)  BY <1>1, <1>2, <1>4, <1>5, <1>6, FailKeeps
<1>7. CASE /\ Succeeds(v) /\ files' = Listed(v) /\ stale' = FALSE /\ folders' = folders
           /\ Selects(v, Listed(v), sel)
  <2>1. Shape(v) /\ vault' = v  BY <1>4, <1>7, VaultOKIs DEF Succeeds
  <2>2. IsMap(Listed(v), Nat) /\ DOMAIN Listed(v) = DOMAIN v.files  BY <2>1, ListedIs
  <2>3. sel = selected => Viewed(v, sel, shown, torn)  BY <1>1, <1>2, <1>4, Between DEF Viewed
  <2>4. sel \in DOMAIN v.files \cup {NoName}  BY <1>2, <1>4, Between
  <2> HIDE DEF sel
  <2>5. selected' = sel /\ Viewed(v, sel, shown', torn)  BY <1>7, <2>2, <2>3, SelectsIs DEF IsMap
  <2>6. Matches(v, files', folders', selected', shown', stale', torn)
    BY <1>2, <1>4, <1>7, <2>2, <2>4, <2>5, Between DEF Matches
  <2> QED  BY <1>1, <1>2, <1>4, <1>5, <1>7, <2>1, <2>2, <2>6, ActsKeeps
<1> QED  BY <1>1, <1>6, <1>7

LEMMA MoveFileKeeps ==
  ASSUME Inductive, NEW n \in Names, NEW d \in Folders \cup {Root}, MoveFile(n, d)
  PROVE  Inductive'
<1> DEFINE m == <<d, n[2]>>
           v == Renames(vault, n, m)
           sel == IF selected = n THEN m ELSE selected
<1>1. /\ Begins /\ n \in DOMAIN files \cap DOMAIN vault.files /\ m # n /\ m \notin DOMAIN files
      /\ \/ /\ Succeeds(v) /\ files' = Listed(v) /\ stale' = FALSE /\ folders' = FoldersOf(v)
            /\ Selects(v, files, sel)
         \/ Fails(v)
      /\ UNCHANGED <<outside, op, torn, full>> /\ Stamps /\ doomed' = doomed
  BY DEF MoveFile, Lists, Stamps
<1>2. op.pc = "idle" /\ ops' \in 0..MaxOps  BY <1>1, BeginsIs
<1>3. m \in Names \ DOMAIN vault.files  BY <1>1, <1>2, Between, NamesAre
<1> HIDE DEF m
<1>4. /\ VaultOK(v) /\ DOMAIN v.files = (DOMAIN vault.files \ {n}) \cup {m} /\ v.files[m] = vault.files[n]
      /\ \A j \in DOMAIN vault.files \ {n} : v.files[j] = vault.files[j]
      /\ Kept(v, {}, doomed)
  BY <1>1, <1>2, <1>3, Between, RenamesIs
<1> HIDE DEF v
<1>5. Kept(v, {}, doomed')  BY <1>1, <1>4 DEF Kept
<1>6. CASE Fails(v)  BY <1>1, <1>2, <1>4, <1>5, <1>6, FailKeeps
<1>7. CASE /\ Succeeds(v) /\ files' = Listed(v) /\ stale' = FALSE /\ folders' = FoldersOf(v)
           /\ Selects(v, files, sel)
  <2>1. Shape(v) /\ vault' = v  BY <1>4, <1>7, VaultOKIs DEF Succeeds
  <2>2. IsMap(Listed(v), Nat) /\ DOMAIN Listed(v) = DOMAIN v.files  BY <2>1, ListedIs
  <2>3. sel = selected => Viewed(v, sel, shown, torn)  BY <1>1, <1>2, <1>4, Between DEF Viewed
  <2>4. sel \in DOMAIN v.files \cup {NoName}  BY <1>2, <1>4, Between
  <2> HIDE DEF sel
  <2>5. selected' = sel /\ Viewed(v, sel, shown', torn)  BY <1>2, <1>7, <2>3, Between, SelectsIs DEF IsMap
  <2>6. Matches(v, files', folders', selected', shown', stale', torn)
    BY <1>7, <2>2, <2>4, <2>5 DEF Matches
  <2> QED  BY <1>1, <1>2, <1>4, <1>5, <1>7, <2>1, <2>2, <2>6, ActsKeeps
<1> QED  BY <1>1, <1>6, <1>7

LEMMA CreateFolderKeeps ==
  ASSUME Inductive, NEW d \in Folders, CreateFolder(d)
  PROVE  Inductive'
<1> DEFINE v == CreatesFolder(vault, d)
<1>1. /\ Begins
      /\ \/ Succeeds(v) /\ folders' = FoldersOf(v) /\ UNCHANGED <<files, selected, shown, stale>>
         \/ Fails(v)
      /\ UNCHANGED <<outside, op, torn, full>> /\ Stamps /\ doomed' = doomed
  BY DEF CreateFolder, Stamps
<1>2. op.pc = "idle" /\ ops' \in 0..MaxOps  BY <1>1, BeginsIs
<1>3. VaultOK(v) /\ v.files = vault.files  BY <1>2, Between, CreatesFolderIs
<1> HIDE DEF v
<1>4. Kept(v, {}, doomed')  BY <1>1, <1>2, <1>3, Between DEF Kept
<1>5. CASE Fails(v)  BY <1>1, <1>2, <1>3, <1>4, <1>5, FailKeeps
<1>6. CASE Succeeds(v) /\ folders' = FoldersOf(v) /\ UNCHANGED <<files, selected, shown, stale>>
  <2>1. vault' = v  BY <1>6 DEF Succeeds
  <2>2. Matches(v, files', folders', selected', shown', stale', torn)
    BY <1>2, <1>3, <1>6, Between DEF Matches, Viewed, Listed
  <2>3. IsMap(files', Nat) /\ stale' \in BOOLEAN  BY <1>2, <1>6, Between DEF IsMap
  <2> QED  BY <1>1, <1>2, <1>3, <1>4, <1>6, <2>1, <2>2, <2>3, ActsKeeps
<1> QED  BY <1>1, <1>5, <1>6

LEMMA DeleteFolderKeeps ==
  ASSUME Inductive, NEW d \in Folders, DeleteFolder(d)
  PROVE  Inductive'
<1> DEFINE v == DeletesFolder(vault, d)
           F == InFolder(vault, d)
           sel == IF selected[1] = d THEN NoName ELSE selected
<1>1. /\ Begins
      /\ \/ /\ Succeeds(v) /\ files' = Listed(v) /\ stale' = FALSE /\ folders' = FoldersOf(v)
            /\ Selects(v, files, sel)
         \/ Fails(v)
      /\ UNCHANGED <<outside, op, torn, full>> /\ Stamps /\ doomed' = doomed \ {vault.files[n] : n \in F}
  BY DEF DeleteFolder, Lists, Stamps
<1>2. op.pc = "idle" /\ ops' \in 0..MaxOps  BY <1>1, BeginsIs
<1>3. /\ VaultOK(v) /\ DOMAIN v.files = DOMAIN vault.files \ F
      /\ \A k \in DOMAIN vault.files \ F : v.files[k] = vault.files[k]
  BY <1>2, Between, DeletesFolderIs
<1>4. \A n \in DOMAIN vault.files \ F : n[1] # d  BY DEF InFolder
<1>5. \A n \in F : n[1] = d  BY DEF InFolder
<1> HIDE DEF v, F
<1>6. Kept(v, {}, doomed')  BY <1>1, <1>2, <1>3, Between DEF Kept
<1>7. CASE Fails(v)  BY <1>1, <1>2, <1>3, <1>6, <1>7, FailKeeps
<1>8. CASE /\ Succeeds(v) /\ files' = Listed(v) /\ stale' = FALSE /\ folders' = FoldersOf(v)
           /\ Selects(v, files, sel)
  <2>1. Shape(v) /\ vault' = v  BY <1>3, <1>8, VaultOKIs DEF Succeeds
  <2>2. IsMap(Listed(v), Nat) /\ DOMAIN Listed(v) = DOMAIN v.files  BY <2>1, ListedIs
  <2>3. sel \in DOMAIN v.files \cup {NoName}  BY <1>2, <1>3, <1>5, Between
  <2>4. sel = selected => Viewed(v, sel, shown, torn)  BY <1>2, <1>3, <2>3, Between DEF Viewed
  <2> HIDE DEF sel
  <2>5. selected' = sel /\ Viewed(v, sel, shown', torn)  BY <1>2, <1>8, <2>4, Between, SelectsIs DEF IsMap
  <2>6. Matches(v, files', folders', selected', shown', stale', torn)
    BY <1>8, <2>2, <2>3, <2>5 DEF Matches
  <2> QED  BY <1>1, <1>2, <1>3, <1>6, <1>8, <2>1, <2>2, <2>6, ActsKeeps
<1> QED  BY <1>1, <1>7, <1>8

LEMMA RenameFolderKeeps ==
  ASSUME Inductive, NEW d \in Folders, NEW e \in Folders, RenameFolder(d, e)
  PROVE  Inductive'
<1> DEFINE v == RenamesFolder(vault, d, e)
<1>1. /\ Begins /\ MayRenameFolder(vault, d, e)
      /\ \/ /\ Succeeds(v) /\ files' = Listed(v) /\ stale' = FALSE /\ folders' = FoldersOf(v)
            /\ Selects(v, files, NoName)
         \/ Fails(v)
      /\ UNCHANGED <<outside, op, torn, full>> /\ Stamps /\ doomed' = doomed
  BY DEF RenameFolder, Lists, Stamps
<1>2. op.pc = "idle" /\ ops' \in 0..MaxOps  BY <1>1, BeginsIs
<1>3. /\ VaultOK(v)
      /\ \A n \in DOMAIN vault.files :
           Moved(n, d, e) \in DOMAIN v.files /\ v.files[Moved(n, d, e)] = vault.files[n]
  BY <1>1, <1>2, Between, RenamesFolderIs
<1> HIDE DEF v
<1>4. Kept(v, {}, doomed')  BY <1>1, <1>2, <1>3, Between DEF Kept
<1>5. CASE Fails(v)  BY <1>1, <1>2, <1>3, <1>4, <1>5, FailKeeps
<1>6. CASE /\ Succeeds(v) /\ files' = Listed(v) /\ stale' = FALSE /\ folders' = FoldersOf(v)
           /\ Selects(v, files, NoName)
  <2>1. Shape(v) /\ vault' = v  BY <1>3, <1>6, VaultOKIs DEF Succeeds
  <2>2. IsMap(Listed(v), Nat) /\ DOMAIN Listed(v) = DOMAIN v.files  BY <2>1, ListedIs
  <2>3. NoName = selected => Viewed(v, NoName, shown, torn)  BY <1>2, Between DEF Viewed
  <2>4. selected' = NoName /\ Viewed(v, NoName, shown', torn)  BY <1>2, <1>6, <2>3, Between, SelectsIs DEF IsMap
  <2>5. Matches(v, files', folders', selected', shown', stale', torn)
    BY <1>6, <2>2, <2>4 DEF Matches
  <2> QED  BY <1>1, <1>2, <1>3, <1>4, <1>6, <2>1, <2>2, <2>5, ActsKeeps
<1> QED  BY <1>1, <1>5, <1>6

(***************************************************************************)
(* Other programs, and the end of the process                              *)
(***************************************************************************)
LEMMA SameEngine ==
  ASSUME vault' = vault, other' = other, poisoned' = poisoned
  PROVE  /\ VaultOK(vault)' <=> VaultOK(vault)
         /\ VaultOK(other)' <=> VaultOK(other)
         /\ \A n : Rest(vault', n) = Rest(vault, n)
BY DEF VaultOK, Rest

LEMMA OutsideKeeps ==
  ASSUME Inductive, UNCHANGED <<engine, view, op, ops, history>>, stamp' \in 1..MaxStamp, stamp <= stamp',
         disk' \in [Sources -> Inodes \cup {NoInode}], inodes' \in [Inodes -> [data : Texts, mtime : Nat]],
         \A p \in Sources : disk'[p] <= stamp',
         \A i \in Inodes : \/ stamp < i \/ inodes'[i] = inodes[i]
                           \/ /\ inodes'[i].mtime = inodes[i].mtime + 1
                              /\ Len(inodes[i].data) <= Len(inodes'[i].data)
  PROVE  Inductive'
<1>1. /\ vault' = vault /\ other' = other /\ poisoned' = poisoned
      /\ files' = files /\ folders' = folders /\ selected' = selected /\ shown' = shown
      /\ op' = op /\ ops' = ops /\ stale' = stale /\ torn' = torn /\ full' = full /\ doomed' = doomed
  BY DEF engine, view, history
<1>2. TypeOK  BY DEF Inductive
<1>3. TypeOK'  BY <1>1, <1>2, SameEngine DEF TypeOK, IsMap
<1>4. Held' /\ Engine'  BY <1>1 DEF Inductive, Held, Engine, AtRisk, Kept
<1>5. Shows'  BY <1>1 DEF Inductive, Shows, Matches, Edits, Imports, Viewed, FoldersOf, InFolder, Listed
<1> DEFINE i == op.inode
           a == inodes[i]
           b == inodes'[i]
<1>6. /\ op.pc \in Working => i \in Inodes /\ i <= stamp /\ op.todo # <<>>
      /\ op.pc \in {"copying", "verifying", "checking"} => op.name \in DOMAIN vault.files /\ Source(i)
      /\ op.pc \in {"verifying", "checking"} => op.off = op.size
      /\ op.pc = "checking" => vault.files[op.name] = op.data
      /\ op.pc = "next" => op.off = 0 /\ op.data = <<>>
  BY DEF Inductive, Copies
<1>7. op.pc \in Working =>
        /\ a \in [data : Texts, mtime : Nat] /\ b \in [data : Texts, mtime : Nat]
        /\ b = a \/ (b.mtime = a.mtime + 1 /\ Len(a.data) <= Len(b.data))
  <2> SUFFICES ASSUME op.pc \in Working
               PROVE  /\ a \in [data : Texts, mtime : Nat] /\ b \in [data : Texts, mtime : Nat]
                      /\ b = a \/ (b.mtime = a.mtime + 1 /\ Len(a.data) <= Len(b.data))
    OBVIOUS
  <2>1. i \in Inodes /\ i <= stamp /\ i \in Nat /\ stamp \in Nat
    BY <1>2, <1>6, LibraryAssumption, FS_CardinalityType DEF TypeOK, Inodes
  <2>2. ~(stamp < i)  BY <2>1
  <2>3. a \in [data : Texts, mtime : Nat]  BY <1>2, <2>1 DEF TypeOK
  <2>4. b \in [data : Texts, mtime : Nat]  BY <2>1
  <2> QED  BY <2>1, <2>2, <2>3, <2>4
<1>8. op.mtime \in Nat /\ op.size \in Nat /\ op.off \in Nat  BY <1>2 DEF TypeOK, Operations
<1>9. op.pc \in {"copying", "verifying", "checking"} => Source(i)'
  <2> SUFFICES ASSUME op.pc \in {"copying", "verifying", "checking"}  PROVE Source(i)'  OBVIOUS
  <2>1. /\ op.mtime <= a.mtime /\ a.mtime \in Nat
        /\ op.mtime = a.mtime => Len(a.data) = op.size /\ op.data = SubSeq(a.data, 1, op.off)
        /\ b = a \/ b.mtime = a.mtime + 1
    BY <1>6, <1>7 DEF Source, Working
  <2> HIDE DEF a, b
  <2>2. /\ op.mtime <= b.mtime
        /\ op.mtime = b.mtime => Len(b.data) = op.size /\ op.data = SubSeq(b.data, 1, op.off)
    BY <1>8, <2>1
  <2> QED  BY <1>1, <2>2 DEF Source, b, i
<1>10. Copies'
  <2> HIDE DEF a, b
  <2>1. op'.pc \in {"copying", "verifying", "checking"} => op'.name \in DOMAIN vault'.files /\ Source(op.inode)'
    BY <1>1, <1>6, <1>9
  <2>2. /\ op'.pc \in Working => op'.inode \in Inodes /\ op'.inode <= stamp' /\ op'.todo # <<>>
        /\ op'.pc \in {"verifying", "checking"} => op'.off = op'.size
        /\ op'.pc = "checking" => vault'.files[op'.name] = op'.data
        /\ op'.pc = "next" => op'.off = 0 /\ op'.data = <<>>
    <3>1. op.pc \in Working => op.inode <= stamp'
      <4>1. op.pc \in Working => op.inode \in Nat /\ stamp \in Nat /\ op.inode <= stamp
        BY <1>2, <1>6, LibraryAssumption, FS_CardinalityType DEF TypeOK, Inodes
      <4> QED  BY <4>1
    <3> QED  BY <1>1, <1>6, <3>1
  <2> QED  BY <2>1, <2>2 DEF Copies
<1>11. op.pc = "copying" => op.size <= Len(b.data) /\ op.off <= Len(b.data)
  <2> SUFFICES ASSUME op.pc = "copying"  PROVE op.size <= Len(b.data) /\ op.off <= Len(b.data)  OBVIOUS
  <2>1. op.size <= Len(a.data) /\ op.off <= Len(a.data)  BY DEF Inductive, Fits
  <2>2. Len(a.data) \in Nat /\ Len(b.data) \in Nat /\ (b = a \/ Len(a.data) <= Len(b.data))
    BY <1>7, LenProperties DEF Working, Texts
  <2> HIDE DEF a, b
  <2> QED  BY <1>8, <2>1, <2>2
<1>12. Fits'
  <2> HIDE DEF a
  <2> QED  BY <1>1, <1>11, SameEngine DEF Inductive, Fits, Room
<1> QED  BY <1>3, <1>4, <1>5, <1>10, <1>12 DEF Inductive

LEMMA InodesAre ==
  ASSUME Inductive, stamp < MaxStamp
  PROVE  /\ stamp \in Nat /\ MaxStamp \in Nat /\ stamp + 1 \in Inodes /\ stamp + 1 \in Units
         /\ stamp + 1 \in 1..MaxStamp /\ stamp <= stamp + 1
<1>1. stamp \in 1..MaxStamp /\ MaxStamp \in Nat /\ Cardinality(Sources) \in Nat
  BY LibraryAssumption, FS_CardinalityType DEF Inductive, TypeOK
<1> QED  BY <1>1 DEF Inodes, Units, Damaged

LEMMA OthersWriteKeeps ==
  ASSUME Inductive, NEW p \in Sources, NEW k \in 1..MaxSize, OthersWrite(p, k)
  PROVE  Inductive'
<1> DEFINE i == disk[p]
           old == inodes[i].data
           new == [data |-> Overlay(old, k - 1, <<stamp + 1>>), mtime |-> inodes[i].mtime + 1]
<1>1. /\ stamp < MaxStamp /\ i # NoInode /\ k <= Len(old) + 1 /\ stamp' = stamp + 1
      /\ inodes' = [inodes EXCEPT ![i] = new] /\ disk' = disk
      /\ UNCHANGED <<engine, view, op, ops, history>>
  BY DEF OthersWrite
<1>2. stamp' \in 1..MaxStamp /\ stamp <= stamp'  BY <1>1, InodesAre
<1>3. /\ disk \in [Sources -> Inodes \cup {NoInode}] /\ inodes \in [Inodes -> [data : Texts, mtime : Nat]]
      /\ \A s \in Sources : disk[s] <= stamp
  BY DEF Inductive, TypeOK, Copies
<1>4. i \in Inodes /\ old \in Texts /\ inodes[i].mtime \in Nat /\ Len(old) \in Nat
  BY <1>1, <1>3, LenProperties DEF Texts
<1>5. <<stamp + 1>> \in Texts  BY <1>1, InodesAre DEF Texts
<1>6. k - 1 \in Nat /\ k - 1 <= Len(old)  BY <1>1, <1>4, LibraryAssumption
<1> DEFINE j == k - 1
           t == <<stamp + 1>>
<1>7. Overlay(old, j, t) \in Texts /\ Len(old) <= Len(Overlay(old, j, t))
  <2> HIDE DEF j, old, t
  <2>1. /\ Overlay(old, j, t) \in Texts
        /\ Len(Overlay(old, j, t)) = IF j + Len(t) <= Len(old) THEN Len(old) ELSE j + Len(t)
    BY <1>4, <1>5, <1>6, OverlayIs DEF j, t
  <2>2. Len(t) \in Nat /\ j \in Nat  BY <1>5, <1>6, LenProperties DEF j, t, Texts
  <2> QED  BY <1>4, <2>1, <2>2
<1>8. new \in [data : Texts, mtime : Nat] /\ new.mtime = inodes[i].mtime + 1 /\ Len(old) <= Len(new.data)
  BY <1>4, <1>7
<1> HIDE DEF new
<1>9. inodes' \in [Inodes -> [data : Texts, mtime : Nat]]  BY <1>1, <1>3, <1>4, <1>8
<1>10. \A q \in Inodes : inodes'[q] = inodes[q] \/ (/\ inodes'[q].mtime = inodes[q].mtime + 1
                                                    /\ Len(inodes[q].data) <= Len(inodes'[q].data))
  BY <1>1, <1>3, <1>4, <1>8
<1>11. \A s \in Sources : disk'[s] <= stamp'
  <2>1. \A s \in Sources : disk[s] \in Nat  BY <1>3, LibraryAssumption, FS_CardinalityType DEF Inodes, NoInode
  <2> QED  BY <1>1, <1>3, <2>1, InodesAre
<1> QED  BY <1>1, <1>2, <1>3, <1>9, <1>10, <1>11, OutsideKeeps

LEMMA OthersReplaceKeeps ==
  ASSUME Inductive, NEW p \in Sources, OthersReplace(p)
  PROVE  Inductive'
<1> DEFINE i == stamp + 1
           new == [data |-> [k \in 1..MaxSize |-> i], mtime |-> 0]
<1>1. /\ stamp < MaxStamp /\ stamp' = i /\ disk' = [disk EXCEPT ![p] = i] /\ inodes' = [inodes EXCEPT ![i] = new]
      /\ UNCHANGED <<engine, view, op, ops, history>>
  BY DEF OthersReplace
<1>2. i \in Inodes /\ i \in Units /\ i \in 1..MaxStamp /\ stamp <= i /\ stamp < i /\ stamp \in Nat  BY <1>1, InodesAre
<1>3. /\ disk \in [Sources -> Inodes \cup {NoInode}] /\ inodes \in [Inodes -> [data : Texts, mtime : Nat]]
      /\ \A s \in Sources : disk[s] <= stamp
  BY DEF Inductive, TypeOK, Copies
<1>4. new \in [data : Texts, mtime : Nat]  BY <1>2, LibraryAssumption DEF Texts
<1>5. \A s \in Sources : disk[s] \in Nat  BY <1>3, LibraryAssumption, FS_CardinalityType DEF Inodes, NoInode
<1> HIDE DEF new, i
<1>6. disk' \in [Sources -> Inodes \cup {NoInode}] /\ inodes' \in [Inodes -> [data : Texts, mtime : Nat]]
  BY <1>1, <1>2, <1>3, <1>4
<1>7. \A q \in Inodes : stamp < q \/ inodes'[q] = inodes[q]  BY <1>1, <1>2, <1>3
<1>8. \A s \in Sources : disk'[s] <= stamp'
  <2> TAKE s \in Sources
  <2>1. CASE s = p  BY <1>1, <1>2, <1>3, <2>1
  <2>2. CASE s # p
    <3>1. disk'[s] = disk[s]  BY <1>1, <1>3, <2>2
    <3> QED  BY <1>1, <1>2, <1>3, <1>5, <3>1
  <2> QED  BY <2>1, <2>2
<1> QED  BY <1>1, <1>2, <1>6, <1>7, <1>8, OutsideKeeps

LEMMA ReopensKeeps ==
  ASSUME Inductive, Reopens
  PROVE  Inductive'
<1>1. /\ vault' \in {vault, other} /\ other' = vault' /\ poisoned' = FALSE
      /\ files' = Listed(vault') /\ folders' = FoldersOf(vault') /\ stale' = FALSE /\ torn' = FALSE
      /\ selected' = NoName /\ shown' = NoContent /\ op' = Idle
      /\ disk' = disk /\ inodes' = inodes /\ ops' = ops /\ stamp' = stamp /\ full' = full /\ doomed' = doomed
  BY DEF Reopens, outside
<1>2. TypeOK /\ Kept(vault, AtRisk, doomed) /\ Kept(other, AtRisk, doomed) /\ ~full
      /\ \A p \in Sources : disk[p] <= stamp
  BY DEF Inductive, Held, Fits, Copies
<1>3. VaultOK(vault') /\ Kept(vault', {}, doomed)
  <2>1. Kept(vault, {}, doomed) /\ Kept(other, {}, doomed)  BY <1>2, KeptPart
  <2>2. VaultOK(vault) /\ VaultOK(other)  BY <1>2 DEF TypeOK
  <2>3. CASE vault' = vault  BY <2>1, <2>2, <2>3 DEF Kept, VaultOK
  <2>4. CASE vault' = other  BY <2>1, <2>2, <2>4 DEF Kept, VaultOK
  <2> QED  BY <1>1, <2>3, <2>4
<1>4. /\ Shape(vault') /\ IsMap(files', Nat) /\ DOMAIN files' = DOMAIN vault'.files /\ folders' \subseteq Folders
  BY <1>1, <1>3, VaultOKIs, ListedIs
<1>5. VaultOK(vault)' /\ VaultOK(other)'  BY <1>1, <1>3 DEF VaultOK
<1>6. TypeOK'  BY <1>1, <1>2, <1>4, <1>5, IdleIs DEF TypeOK, IsMap
<1>7. Held' /\ Engine'  BY <1>1, <1>3, IdleIs DEF Held, Engine, AtRisk, Kept
<1>8. Copies' /\ Fits'  BY <1>1, <1>2, IdleIs DEF Copies, Fits, Working
<1>9. Shows'  BY <1>1, <1>4, IdleIs DEF Shows, Matches, Viewed, Listed, FoldersOf, InFolder
<1> QED  BY <1>6, <1>7, <1>8, <1>9 DEF Inductive

(***************************************************************************)
(* The operation in progress                                               *)
(***************************************************************************)
LEMMA ProceedsIs ==
  ASSUME op \in Operations, op.todo # <<>>, Proceeds
  PROVE  /\ op' \in Operations /\ op'.pc = "next" /\ op'.name = op.name /\ op'.reserved = op.reserved
         /\ op'.todo = Tail(op.todo) /\ op'.off = 0 /\ op'.data = <<>>
<1> DEFINE td == Tail(op.todo)
           nothing == <<>>
<1>1. td \in Seq(Sources)  BY HeadTailProperties DEF Operations
<1>2. nothing \in Texts /\ NoInode \in Inodes \cup {NoInode} /\ 0 \in Nat  BY NothingType
<1>3. op' = [op EXCEPT !.pc = "next", !.todo = td, !.inode = NoInode, !.data = nothing, !.off = 0]
  BY DEF Proceeds
<1> HIDE DEF td, nothing
<1>4. op' \in Operations  BY <1>1, <1>2, <1>3 DEF Operations, Phases
<1>5. op'.pc = "next" /\ op'.name = op.name /\ op'.reserved = op.reserved /\ op'.todo = td
      /\ op'.off = 0 /\ op'.data = nothing
  BY <1>3 DEF Operations
<1> QED  BY <1>4, <1>5 DEF td, nothing

(***************************************************************************)
(* Writing at the end of a file                                            *)
(***************************************************************************)
\* The window at the end of the file finds room, if there is for the whole.
LEMMA RoomEnough ==
  ASSUME NEW v, VaultOK(v), NEW n \in DOMAIN v.files, NEW off \in Nat, Len(v.files[n]) = off, Even(off),
         NEW w \in Texts, NEW size \in Nat, off + Len(w) <= size, ChunksFor(size) <= Chunks - 1 - Rest(v, n)
  PROVE  HasRoomFor(v, n, off, w)
<1>1. /\ Chunks \in Nat /\ Rest(v, n) \in Nat /\ UsedChunks(v) = ChunksFor(off) + Rest(v, n)
  BY UsedNow
<1>2. Len(w) \in Nat  BY LenProperties DEF Texts
<1> DEFINE k == off + Len(w)
<1>3. k \in Nat /\ off <= k  BY <1>2
<1>4. Max({k, off}) = k
  <2> HIDE DEF k
  <2>1. Max({k, off}) = IF k <= off THEN off ELSE k
    <3>1. k \in Int /\ off \in Int  BY <1>3
    <3> QED  BY <3>1, MinMax
  <2> QED  BY <1>3, <2>1
<1>5. ChunksFor(off) = off \div 2  BY DEF ChunksFor, ChunkUnits, Even
<1>6. ChunksFor(k) <= ChunksFor(size) /\ ChunksFor(k) \in Nat /\ ChunksFor(size) \in Nat
  <2> HIDE DEF k
  <2> QED  BY <1>3, ChunksForType DEF k
<1>7. off \div 2 \in Nat  BY HalfIs
<1>8. ChunksFor(k) - off \div 2 <= Chunks - 1 - UsedChunks(v)
  <2> HIDE DEF k
  <2> QED  BY <1>1, <1>5, <1>6, <1>7
<1>9. ChunksFor(Max({off + Len(w), Len(v.files[n])})) - off \div ChunkUnits <= Chunks - 1 - UsedChunks(v)
  BY <1>4, <1>8 DEF ChunkUnits
<1> QED  BY <1>9 DEF HasRoomFor, FreeChunks

\* u and v differ in the files named in S only.
Only(u, v, S) ==
  /\ u.dirs = v.dirs /\ DOMAIN u.files \ S = DOMAIN v.files \ S
  /\ \A k \in DOMAIN v.files \ S : u.files[k] = v.files[k]

\* u is v with k units in the file n.
Written(u, v, n, k) ==
  /\ VaultOK(u) /\ Only(u, v, {n}) /\ DOMAIN u.files = DOMAIN v.files
  /\ Len(u.files[n]) = k /\ Rest(u, n) = Rest(v, n)

LEMMA WritesIs ==
  ASSUME NEW v, VaultOK(v), NEW n \in DOMAIN v.files, NEW off \in Nat, Len(v.files[n]) = off,
         NEW w \in Texts, HasRoomFor(v, n, off, w)
  PROVE  Written(Writes(v, n, off, w), v, n, off + Len(w))
<1> DEFINE new == Overlay(v.files[n], off, w)
           u == Writes(v, n, off, w)
<1>1. VaultOK(u)  BY WritesOK
<1>2. Shape(v) /\ n \in Names /\ v.files[n] \in Texts  BY VaultOKIs DEF Shape, IsMap
<1>3. Len(w) \in Nat  BY LenProperties DEF Texts
<1>4. new \in Texts /\ Len(new) = IF off + Len(w) <= off THEN off ELSE off + Len(w)  BY <1>2, OverlayIs
<1>5. Len(new) = off + Len(w)  BY <1>3, <1>4
<1>6. u = With(v, n, new)  BY DEF Writes
<1> HIDE DEF new, u
<1>7. /\ u.dirs = v.dirs /\ DOMAIN u.files = DOMAIN v.files \cup {n} /\ u.files[n] = new
      /\ \A m \in DOMAIN v.files \ {n} : u.files[m] = v.files[m]
  BY <1>2, <1>4, <1>6, WithIs
<1>8. Rest(u, n) = Rest(v, n)  BY <1>2, <1>4, <1>6, UsedWith
<1>9. Written(u, v, n, off + Len(w))  BY <1>1, <1>5, <1>7, <1>8 DEF Only, Written
<1> QED  BY <1>9 DEF u

LEMMA OnlyKept ==
  ASSUME NEW u, NEW v, NEW S, Only(u, v, S), NEW D, Kept(v, S, D)
  PROVE  Kept(u, S, D)
BY DEF Only, Kept

LEMMA EvenIs == \A n \in Nat : Even(n) => Even(n + 2)
BY DEF Even

(***************************************************************************)
(* The editor                                                              *)
(***************************************************************************)
LEMMA SaveBeginsKeeps ==
  ASSUME Inductive, NEW size \in 0..MaxSize, SaveBegins(size)
  PROVE  Inductive'
<1> DEFINE n == selected
           v == Truncates(vault, n, 0)
           t == [k \in 1..size |-> stamp + 1]
<1>1. /\ Begins /\ n \in DOMAIN files \cap DOMAIN vault.files /\ stamp < MaxStamp
      /\ size <= Free(vault) + files[n] /\ stamp' = stamp + 1
      /\ \/ Succeeds(v) /\ op' = [Idle EXCEPT !.pc = "saving", !.name = n, !.data = t]
         \/ Errs(v) /\ UNCHANGED op
      /\ doomed' = doomed \ {vault.files[n]}
      /\ UNCHANGED <<outside, view, stale, torn, full>>
  BY DEF SaveBegins
<1>2. op.pc = "idle" /\ ops' \in 0..MaxOps /\ Stamps  BY <1>1, BeginsIs DEF Stamps
<1>3. VaultOK(vault) /\ Shape(vault) /\ n \in Names /\ n \in DOMAIN vault.files
  BY <1>1, <1>2, Between DEF Shape, IsMap
<1>4. v = With(vault, n, <<>>)
  <2>1. \A s \in Texts : SubSeq(s, 1, 0) = <<>>  BY DEF Texts
  <2>2. vault.files[n] \in Texts  BY <1>3 DEF Shape, IsMap
  <2> QED  BY <2>1, <2>2 DEF Truncates
<1>5. /\ VaultOK(v) /\ Only(v, vault, {n}) /\ DOMAIN v.files = DOMAIN vault.files /\ v.files[n] = <<>>
      /\ Rest(v, n) = Rest(vault, n)
  <2>1. ChunksFor(Len(<<>>)) + Rest(vault, n) < Chunks  BY <1>3, UsedNow, NothingType
  <2>2. VaultOK(With(vault, n, <<>>))  BY <1>3, <2>1, NothingType, WithOK
  <2>3. Rest(With(vault, n, <<>>), n) = Rest(vault, n)  BY <1>3, NothingType, UsedWith
  <2>4. /\ With(vault, n, <<>>).dirs = vault.dirs
        /\ DOMAIN With(vault, n, <<>>).files = DOMAIN vault.files \cup {n}
        /\ With(vault, n, <<>>).files[n] = <<>>
        /\ \A m \in DOMAIN vault.files \ {n} : With(vault, n, <<>>).files[m] = vault.files[m]
    BY <1>3, NothingType, WithIs
  <2> HIDE DEF v
  <2> QED  BY <1>3, <1>4, <2>2, <2>3, <2>4 DEF Only
<1> HIDE DEF v
<1>6. Kept(v, {n}, doomed') /\ Kept(v, {}, doomed')
  <2>1. Kept(vault, {n}, doomed')  BY <1>1, <1>2, Between DEF Kept
  <2> QED  BY <1>5, <2>1, OnlyKept, KeptPart
<1>7. CASE Errs(v) /\ UNCHANGED op
  <2>1. Fails(v)  BY <1>1, <1>7 DEF Fails
  <2> QED  BY <1>1, <1>2, <1>5, <1>6, <1>7, <2>1, FailKeeps
<1>8. CASE Succeeds(v) /\ op' = [Idle EXCEPT !.pc = "saving", !.name = n, !.data = t]
  <2>1. ~poisoned /\ poisoned' = poisoned /\ vault' = v /\ other' = v  BY <1>8 DEF Succeeds
  <2>2. /\ disk' = disk /\ inodes' = inodes /\ files' = files /\ folders' = folders /\ selected' = selected
        /\ shown' = shown /\ stale' = stale /\ torn' = torn /\ full' = full
    BY <1>1 DEF outside, view
  <2>3. TypeOK /\ ~full /\ stamp \in Nat /\ stamp + 1 \in Units /\ MaxSize \in Nat /\ size \in Nat
    BY <1>1, InodesAre, LibraryAssumption DEF Inductive, Fits
  <2>4. t \in Texts /\ Len(t) = size  BY <2>3 DEF Texts
  <2> HIDE DEF t
  <2>5. op' \in Operations /\ op'.pc = "saving" /\ op'.name = n /\ op'.data = t /\ op'.off = 0
    BY <1>3, <1>8, <2>4, IdleIs DEF Operations, Phases
  <2>6. VaultOK(vault)' /\ VaultOK(other)'  BY <1>5, <2>1 DEF VaultOK
  <2>7. doomed' \subseteq Texts  BY <1>1, <2>3 DEF TypeOK
  <2>8. TypeOK'  BY <1>2, <2>1, <2>2, <2>3, <2>5, <2>6, <2>7, StampsIs DEF TypeOK, IsMap
  <2>9. Held' /\ Engine'  BY <1>6, <2>1, <2>5 DEF Held, Engine, AtRisk, Kept
  <2>10. Copies'  BY <1>2, <2>2, <2>5, StampsIs DEF Copies, Working
  <2>11. Shows'
    <3>1. FoldersOf(v) = FoldersOf(vault)
      <4>1. v.dirs = vault.dirs /\ {} \subseteq RootNames /\ DOMAIN v.files \ {} = DOMAIN vault.files \ {}
        BY <1>5 DEF Only
      <4> QED  BY <4>1, FoldersSame
    <3>2. Edits(v, files, folders, selected, n)  BY <1>1, <1>2, <1>5, <3>1, Between DEF Edits
    <3> QED  BY <2>1, <2>2, <2>5, <3>2 DEF Shows, Edits, FoldersOf, InFolder
  <2>12. ~stale => ChunksFor(size) <= Chunks - 1 - Rest(v, n)
    <3> SUFFICES ASSUME ~stale  PROVE ChunksFor(size) <= Chunks - 1 - Rest(v, n)  OBVIOUS
    <3> DEFINE l == Len(vault.files[n])
    <3>1. files[n] = l  BY <1>2, <1>3, Between, ListedIs DEF Matches
    <3>2. /\ l \in Nat /\ ChunksFor(l) \in Nat /\ Rest(vault, n) \in Nat /\ Chunks \in Nat
          /\ UsedChunks(vault) = ChunksFor(l) + Rest(vault, n)
      BY <1>3, UsedNow
    <3> HIDE DEF l
    <3>3. l <= 2 * ChunksFor(l) /\ 2 * ChunksFor(size) <= size + 1 /\ ChunksFor(size) \in Nat
      BY <2>3, <3>2, ChunksForType
    <3>4. size <= 2 * (Chunks - 1 - UsedChunks(vault)) + l
      BY <1>1, <3>1 DEF Free, FreeChunks, ChunkUnits
    <3> QED  BY <1>5, <2>3, <3>2, <3>3, <3>4
  <2>13. Fits'
    <3>1. Even(0)  BY DEF Even
    <3>2. Len(v.files[n]) = 0 /\ 0 <= Len(t)  BY <1>5, <2>3, <2>4, NothingType
    <3>3. ~stale => ChunksFor(Len(t)) <= Chunks - 1 - Rest(v, n)  BY <2>4, <2>12
    <3>4. ~full'  BY <2>2, <2>3
    <3>5. vault'.files[op'.name] = v.files[n] /\ Rest(vault', op'.name) = Rest(v, n)  BY <2>1, <2>5
    <3> QED  BY <2>2, <2>5, <3>1, <3>2, <3>3, <3>4, <3>5 DEF Fits, Room
  <2> QED  BY <2>8, <2>9, <2>10, <2>11, <2>13 DEF Inductive
<1> QED  BY <1>1, <1>7, <1>8

\* What a step of the editor finds.
LEMMA Saving ==
  ASSUME Inductive, op.pc = "saving"
  PROVE  /\ VaultOK(vault) /\ Shape(vault) /\ IsMap(files, Nat) /\ stale \in BOOLEAN /\ torn \in BOOLEAN
         /\ ops \in 0..MaxOps /\ ~full /\ ~poisoned /\ other = vault
         /\ op \in Operations /\ op.data \in Texts /\ op.off \in Nat /\ Len(op.data) \in Nat
         /\ Kept(vault, {op.name}, doomed) /\ Kept(vault, {}, doomed)
         /\ Edits(vault, files, folders, selected, op.name)
         /\ op.name \in DOMAIN vault.files /\ op.name \in Names
         /\ Len(vault.files[op.name]) = op.off /\ op.off <= Len(op.data)
         /\ Even(op.off) \/ op.off = Len(op.data)
         /\ ~stale => Room(Len(op.data))
<1>1. VaultOK(vault) /\ Shape(vault)  BY VaultOKIs DEF Inductive, TypeOK
<1>2. /\ IsMap(files, Nat) /\ stale \in BOOLEAN /\ torn \in BOOLEAN /\ ops \in 0..MaxOps /\ op \in Operations
  BY DEF Inductive, TypeOK
<1>3. ~poisoned /\ other = vault  BY DEF Inductive, Engine
<1>4. op.data \in Texts /\ op.off \in Nat  BY <1>2 DEF Operations
<1>5. Len(op.data) \in Nat  BY <1>4, LenProperties DEF Texts
<1>6. Kept(vault, {op.name}, doomed) /\ Kept(vault, {}, doomed)
  <2>1. Kept(vault, {op.name}, doomed)  BY DEF Inductive, Held, AtRisk
  <2> QED  BY <2>1, KeptPart
<1>7. Edits(vault, files, folders, selected, op.name)  BY DEF Inductive, Shows
<1>8. op.name \in DOMAIN vault.files /\ op.name \in Names  BY <1>2, <1>7 DEF Edits, IsMap
<1>9. /\ Len(vault.files[op.name]) = op.off /\ op.off <= Len(op.data)
      /\ Even(op.off) \/ op.off = Len(op.data)
      /\ ~stale => Room(Len(op.data))
      /\ ~full
  BY DEF Inductive, Fits
<1> QED  BY <1>1, <1>2, <1>3, <1>4, <1>5, <1>6, <1>7, <1>8, <1>9

LEMMA SaveWritesKeeps ==
  ASSUME Inductive, SaveWrites
  PROVE  Inductive'
<1> DEFINE n == op.name
           off == op.off
           w == Piece(op.data, off)
           v == Writes(vault, n, off, w)
           fits == HasRoomFor(vault, n, off, w)
<1>1. /\ op.pc = "saving" /\ off < Len(op.data)
      /\ \/ /\ fits /\ Succeeds(v) /\ op' = [op EXCEPT !.off = @ + Len(w)]
            /\ UNCHANGED <<stale, torn, full>>
         \/ /\ IF fits THEN Errs(v) ELSE UNCHANGED engine
            /\ op' = Idle /\ full' = (full \/ (~fits /\ ~stale)) /\ stale' = TRUE /\ torn' = TRUE
      /\ UNCHANGED outside /\ UNCHANGED view /\ ops' = ops /\ stamp' = stamp /\ doomed' = doomed
  BY DEF SaveWrites
<1>2. /\ VaultOK(vault) /\ n \in DOMAIN vault.files /\ off \in Nat /\ Len(vault.files[n]) = off
      /\ op.data \in Texts /\ Len(op.data) \in Nat /\ ~full /\ ~poisoned /\ Even(off)
      /\ Edits(vault, files, folders, selected, n)
  BY <1>1, Saving
<1>3. w \in Texts /\ Len(w) = IF off + 2 <= Len(op.data) THEN 2 ELSE 1  BY <1>1, <1>2, PieceIs
<1>4. Len(w) \in {1, 2} /\ off + Len(w) <= Len(op.data) /\ off + Len(w) \in Nat
  BY <1>1, <1>2, <1>3
<1>5. ~stale => fits
  <2> HIDE DEF w
  <2>1. ~stale => ChunksFor(Len(op.data)) <= Chunks - 1 - Rest(vault, n)  BY <1>1, Saving DEF Room
  <2> QED  BY <1>2, <1>3, <1>4, <2>1, RoomEnough
<1>6. fits => /\ VaultOK(v) /\ Only(v, vault, {n}) /\ DOMAIN v.files = DOMAIN vault.files
              /\ Len(v.files[n]) = off + Len(w) /\ Rest(v, n) = Rest(vault, n)
  <2> HIDE DEF w
  <2> SUFFICES ASSUME fits  PROVE /\ VaultOK(v) /\ Only(v, vault, {n}) /\ DOMAIN v.files = DOMAIN vault.files
                                  /\ Len(v.files[n]) = off + Len(w) /\ Rest(v, n) = Rest(vault, n)
    OBVIOUS
  <2>1. VaultOK(vault) /\ n \in DOMAIN vault.files /\ off \in Nat /\ Len(vault.files[n]) = off /\ w \in Texts
    BY <1>2, <1>3
  <2> HIDE DEF n, off
  <2>2. Written(v, vault, n, off + Len(w))  BY <2>1, WritesIs
  <2> HIDE DEF v
  <2> QED  BY <2>2 DEF Written
<1>7. /\ disk' = disk /\ inodes' = inodes /\ files' = files /\ folders' = folders /\ selected' = selected
      /\ shown' = shown
  BY <1>1 DEF outside, view
<1>8. Stamps  BY <1>1 DEF Stamps
<1> HIDE DEF v, w, fits
<1>9. CASE fits /\ Succeeds(v) /\ op' = [op EXCEPT !.off = @ + Len(w)] /\ UNCHANGED <<stale, torn, full>>
  <2>1. ~poisoned /\ poisoned' = poisoned /\ vault' = v /\ other' = v  BY <1>9 DEF Succeeds
  <2>2. /\ op \in Operations /\ op' \in Operations /\ op'.pc = "saving" /\ op'.name = n /\ op'.data = op.data
        /\ op'.off = off + Len(w)
    <3>1. op \in Operations /\ off + Len(w) \in Nat  BY <1>1, <1>4, Saving
    <3>2. op' = [op EXCEPT !.off = off + Len(w)]  BY <1>9
    <3> QED  BY <1>1, <3>1, <3>2 DEF Operations
  <2>3. VaultOK(vault)' /\ VaultOK(other)'  BY <1>6, <1>9, <2>1 DEF VaultOK
  <2>4. TypeOK'  BY <1>1, <1>7, <1>9, <2>1, <2>2, <2>3 DEF Inductive, TypeOK, IsMap
  <2>5. Kept(v, {n}, doomed)  BY <1>1, <1>6, <1>9, Saving, OnlyKept
  <2>6. Held' /\ Engine'  BY <1>1, <2>1, <2>2, <2>5 DEF Held, Engine, AtRisk, Kept
  <2>7. Copies'  BY <1>7, <1>8, <2>2, StampsIs DEF Copies, Working
  <2>8. Shows'
    <3>1. FoldersOf(v) = FoldersOf(vault)
      <4>1. v.dirs = vault.dirs /\ {} \subseteq RootNames /\ DOMAIN v.files \ {} = DOMAIN vault.files \ {}
        BY <1>6, <1>9 DEF Only
      <4> QED  BY <4>1, FoldersSame
    <3>2. Edits(v, files, folders, selected, n)  BY <1>2, <1>6, <1>9, <3>1 DEF Edits
    <3> QED  BY <1>7, <2>1, <2>2, <3>2 DEF Shows, Edits, FoldersOf, InFolder
  <2>9. Fits'
    <3>1. Even(off + Len(w)) \/ off + Len(w) = Len(op.data)
      <4>1. CASE off + 2 <= Len(op.data)  BY <1>2, <1>3, <4>1, EvenIs
      <4>2. CASE ~(off + 2 <= Len(op.data))  BY <1>1, <1>2, <1>3, <4>2
      <4> QED  BY <4>1, <4>2
    <3>2. ~stale => ChunksFor(Len(op.data)) <= Chunks - 1 - Rest(v, n)
      BY <1>1, <1>6, <1>9, Saving DEF Room
    <3>3. vault'.files[op'.name] = v.files[n] /\ Rest(vault', op'.name) = Rest(v, n)  BY <2>1, <2>2
    <3> QED  BY <1>2, <1>4, <1>6, <1>9, <2>2, <3>1, <3>2, <3>3 DEF Fits, Room
  <2> QED  BY <2>4, <2>6, <2>7, <2>8, <2>9 DEF Inductive
<1>10. CASE /\ IF fits THEN Errs(v) ELSE UNCHANGED engine
            /\ op' = Idle /\ full' = (full \/ (~fits /\ ~stale)) /\ stale' = TRUE /\ torn' = TRUE
  <2>1. full' = FALSE  BY <1>2, <1>5, <1>10
  <2>2. PICK u : VaultOK(u) /\ Errs(u) /\ Kept(u, {}, doomed)
    <3>1. CASE fits
      <4>1. Kept(v, {n}, doomed)  BY <1>1, <1>6, <3>1, Saving, OnlyKept
      <4> QED  BY <1>6, <1>10, <3>1, <4>1, KeptPart
    <3>2. CASE ~fits
      <4>1. Errs(vault)  BY <1>10, <3>2 DEF Errs, engine
      <4> QED  BY <1>1, <4>1, Saving
    <3> QED  BY <3>1, <3>2
  <2>3. vault' = vault  BY <2>2 DEF Errs
  <2>4. Matches(vault', files', folders', selected', shown', stale', torn')
    BY <1>2, <1>7, <1>10, <2>3 DEF Edits, Matches, Viewed, FoldersOf, InFolder
  <2>5. IsMap(files', Nat) /\ ops' \in 0..MaxOps  BY <1>1, <1>7, Saving DEF IsMap
  <2>6. Kept(u, {}, doomed') /\ doomed' \subseteq doomed  BY <1>1, <2>2 DEF Kept
  <2> QED  BY <1>1, <1>8, <1>10, <2>1, <2>2, <2>4, <2>5, <2>6, ReturnsKeeps
<1> QED  BY <1>1, <1>9, <1>10

LEMMA SaveEndsKeeps ==
  ASSUME Inductive, SaveEnds
  PROVE  Inductive'
<1>1. /\ op.pc = "saving" /\ op' = Idle /\ files' = Listed(vault) /\ stale' = FALSE
      /\ shown' \in Loads(vault, Listed(vault), selected)
      /\ vault' = vault /\ other' = other /\ poisoned' = poisoned /\ UNCHANGED outside
      /\ folders' = folders /\ selected' = selected /\ ops' = ops /\ Stamps
      /\ torn' = torn /\ full' = full /\ doomed' = doomed
  BY DEF SaveEnds, Lists, engine, Stamps
<1>2. /\ VaultOK(vault) /\ Shape(vault) /\ Edits(vault, files, folders, selected, op.name) /\ ~full
      /\ torn \in BOOLEAN /\ ops \in 0..MaxOps /\ Kept(vault, {}, doomed) /\ IsMap(files, Nat)
      /\ NoName \notin Names
  BY <1>1, Saving, NamesAre
<1>3. IsMap(Listed(vault), Nat) /\ DOMAIN Listed(vault) = DOMAIN vault.files  BY <1>2, ListedIs
<1>4. Viewed(vault, selected, shown', torn)
  <2>1. selected \in DOMAIN Listed(vault) /\ selected # NoName  BY <1>2, <1>3 DEF Edits, IsMap
  <2> QED  BY <1>1, <2>1 DEF Loads, Viewed
<1>5. Matches(vault, Listed(vault), folders, selected, shown', FALSE, torn)
  BY <1>2, <1>3, <1>4 DEF Edits, Matches
<1>6. Errs(vault)  BY <1>1 DEF Errs
<1>7. full' = FALSE  BY <1>1, <1>2 DEF Inductive, TypeOK
<1>8. Matches(vault', files', folders', selected', shown', stale', torn')  BY <1>1, <1>5
<1> QED  BY <1>1, <1>2, <1>3, <1>6, <1>7, <1>8, ReturnsKeeps

(***************************************************************************)
(* Imports                                                                 *)
(***************************************************************************)
\* A step of an import: the engine is called to lead the vault to v, in which
\* no file differs but those named in S, which the application does not show.
ImportStep(v, S) ==
  /\ op.pc \notin {"idle", "saving"} /\ op'.pc \notin {"idle", "saving"}
  /\ op' \in Operations /\ op.reserved \subseteq op'.reserved
  /\ UNCHANGED <<view, ops, stamp, stale, torn>> /\ full' = FALSE /\ doomed' \subseteq Texts
  /\ disk' \in [Sources -> Inodes \cup {NoInode}] /\ inodes' \in [Inodes -> [data : Texts, mtime : Nat]]
  /\ \A p \in Sources : disk'[p] <= stamp
  /\ VaultOK(v) /\ (Succeeds(v) \/ Errs(v))
  /\ S \subseteq RootNames \ DOMAIN files /\ Only(v, vault, S)

LEMMA ImportTypes ==
  ASSUME Inductive, NEW v, NEW S, ImportStep(v, S)
  PROVE  /\ TypeOK' /\ (~poisoned => other = vault)'
         /\ Imports(vault', files', folders', selected', shown', torn', op'.reserved)
         /\ vault' \in {vault, v} /\ \A p \in Sources : disk'[p] <= stamp'
         /\ files' = files
         /\ \A R, D : Kept(vault, R, D) /\ Kept(other, R, D) /\ Kept(v, R, D) =>
              Kept(vault', R, D) /\ Kept(other', R, D)
<1>1. /\ files' = files /\ folders' = folders /\ selected' = selected /\ shown' = shown
      /\ ops' = ops /\ stamp' = stamp /\ stale' = stale /\ torn' = torn
  BY DEF ImportStep, view
<1>2. TypeOK /\ (~poisoned => other = vault) /\ Imports(vault, files, folders, selected, shown, torn, op.reserved)
  BY DEF Inductive, Engine, Shows, ImportStep
<1>3. /\ VaultOK(vault)' /\ VaultOK(other)' /\ (poisoned \in BOOLEAN)' /\ (~poisoned => other = vault)'
      /\ \A R, D : Kept(vault, R, D) /\ Kept(other, R, D) /\ Kept(v, R, D) =>
           Kept(vault', R, D) /\ Kept(other', R, D)
      /\ vault' \in {vault, v}
  BY <1>2, CallKeeps DEF ImportStep, TypeOK
<1>4. TypeOK'  BY <1>1, <1>2, <1>3 DEF ImportStep, TypeOK, IsMap
<1>5. Imports(vault', files', folders', selected', shown', torn', op'.reserved)
  <2>1. /\ S \subseteq RootNames \ DOMAIN files /\ Only(v, vault, S) /\ op.reserved \subseteq op'.reserved
    BY DEF ImportStep
  <2>2. /\ FoldersOf(v) = FoldersOf(vault) /\ DOMAIN files \subseteq DOMAIN v.files
        /\ \A n \in DOMAIN files : v.files[n] = vault.files[n]
    <3>1. v.dirs = vault.dirs /\ S \subseteq RootNames /\ DOMAIN v.files \ S = DOMAIN vault.files \ S
      BY <2>1 DEF Only
    <3>2. FoldersOf(v) = FoldersOf(vault)  BY <3>1, FoldersSame
    <3>3. DOMAIN files \subseteq DOMAIN vault.files \ S  BY <1>2, <2>1 DEF Imports
    <3> QED  BY <2>1, <3>1, <3>2, <3>3 DEF Only
  <2>3. Imports(v, files, folders, selected, shown, torn, op'.reserved)
    BY <1>2, <2>1, <2>2 DEF Imports, Viewed
  <2>4. Imports(vault, files, folders, selected, shown, torn, op'.reserved)
    BY <1>2, <2>1 DEF Imports
  <2>5. CASE vault' = v  BY <1>1, <2>3, <2>5 DEF Imports, Viewed, FoldersOf, InFolder
  <2>6. CASE vault' = vault  BY <1>1, <2>4, <2>6 DEF Imports, Viewed, FoldersOf, InFolder
  <2> QED  BY <1>3, <2>5, <2>6
<1>6. \A p \in Sources : disk'[p] <= stamp'  BY <1>1 DEF ImportStep
<1> QED  BY <1>1, <1>3, <1>4, <1>5, <1>6

\* A step after which no file of the vault is about to be written or removed.
LEMMA NextKeeps ==
  ASSUME Inductive, NEW v, NEW S, ImportStep(v, S),
         Kept(vault, {}, doomed'), Kept(other, {}, doomed'), Kept(v, {}, doomed'),
         op'.pc \in {"next", "erasing", "unlinking"},
         op'.pc = "next" => op'.off = 0 /\ op'.data = <<>>,
         op'.pc # "next" => op'.inode \in Inodes /\ op'.inode <= stamp /\ op'.todo # <<>>
  PROVE  Inductive'
<1>1. /\ TypeOK' /\ (~poisoned => other = vault)'
      /\ Imports(vault', files', folders', selected', shown', torn', op'.reserved)
      /\ \A p \in Sources : disk'[p] <= stamp'
      /\ Kept(vault', {}, doomed') /\ Kept(other', {}, doomed')
  BY ImportTypes
<1>2. stamp' = stamp /\ full' = FALSE  BY DEF ImportStep
<1>3. Held'  BY <1>1 DEF Held, AtRisk, Kept
<1>4. Engine'  BY <1>1 DEF Engine
<1>5. Copies'  BY <1>1, <1>2 DEF Copies, Working
<1>6. Shows'  BY <1>1 DEF Shows, Imports, Viewed, FoldersOf, InFolder
<1>7. Fits'  BY <1>2 DEF Fits
<1> QED  BY <1>1, <1>3, <1>4, <1>5, <1>6, <1>7 DEF Inductive

\* A step that leads to the removal of the partial copy.
LEMMA CleaningKeeps ==
  ASSUME Inductive, NEW v, NEW S, ImportStep(v, S), op.pc \in {"copying", "verifying"},
         op' = [op EXCEPT !.pc = "cleaning"], doomed' = doomed, Kept(v, {op.name}, doomed)
  PROVE  Inductive'
<1>1. /\ op \in Operations /\ op.name \in RootNames \ DOMAIN files
      /\ Kept(vault, {op.name}, doomed) /\ Kept(other, {op.name}, doomed)
      /\ op.inode \in Inodes /\ op.inode <= stamp /\ op.todo # <<>>
  BY DEF Inductive, TypeOK, Shows, Held, AtRisk, Copies, Working
<1>2. /\ op'.pc = "cleaning" /\ op'.name = op.name /\ op'.inode = op.inode /\ op'.todo = op.todo
  BY <1>1 DEF Operations
<1>3. /\ TypeOK' /\ (~poisoned => other = vault)'
      /\ Imports(vault', files', folders', selected', shown', torn', op'.reserved)
      /\ \A p \in Sources : disk'[p] <= stamp'
      /\ Kept(vault', {op.name}, doomed) /\ Kept(other', {op.name}, doomed) /\ files' = files
  BY <1>1, ImportTypes
<1>4. stamp' = stamp /\ full' = FALSE  BY DEF ImportStep
<1>5. Held'  BY <1>2, <1>3 DEF Held, AtRisk, Kept
<1>6. Engine'  BY <1>2, <1>3 DEF Engine
<1>7. Copies'  BY <1>1, <1>2, <1>3, <1>4 DEF Copies, Working
<1>8. Shows'  BY <1>1, <1>2, <1>3 DEF Shows, Imports, Viewed, FoldersOf, InFolder
<1>9. Fits'  BY <1>2, <1>4 DEF Fits
<1> QED  BY <1>3, <1>5, <1>6, <1>7, <1>8, <1>9 DEF Inductive

\* What a step of an import finds.
LEMMA Importing ==
  ASSUME Inductive, op.pc \notin {"idle", "saving"}
  PROVE  /\ VaultOK(vault) /\ Shape(vault) /\ op \in Operations /\ full = FALSE /\ doomed \subseteq Texts
         /\ disk \in [Sources -> Inodes \cup {NoInode}] /\ inodes \in [Inodes -> [data : Texts, mtime : Nat]]
         /\ \A p \in Sources : disk[p] <= stamp
         /\ Kept(vault, {}, doomed) /\ Kept(other, {}, doomed)
         /\ Only(vault, vault, {}) /\ DOMAIN files \subseteq op.reserved
         /\ op.pc \in Working => op.inode \in Inodes /\ op.inode <= stamp /\ op.todo # <<>>
<1>1. VaultOK(vault) /\ Shape(vault)  BY VaultOKIs DEF Inductive, TypeOK
<1>2. /\ op \in Operations /\ full = FALSE /\ doomed \subseteq Texts
      /\ disk \in [Sources -> Inodes \cup {NoInode}] /\ inodes \in [Inodes -> [data : Texts, mtime : Nat]]
  BY DEF Inductive, TypeOK, Fits
<1>3. Kept(vault, {}, doomed) /\ Kept(other, {}, doomed)
  <2>1. Kept(vault, AtRisk, doomed) /\ Kept(other, AtRisk, doomed)  BY DEF Inductive, Held
  <2> QED  BY <2>1, KeptPart
<1>4. Only(vault, vault, {})  BY DEF Only
<1>5. DOMAIN files \subseteq op.reserved  BY DEF Inductive, Shows, Imports
<1>6. /\ \A p \in Sources : disk[p] <= stamp
      /\ op.pc \in Working => op.inode \in Inodes /\ op.inode <= stamp /\ op.todo # <<>>
  BY DEF Inductive, Copies
<1> QED  BY <1>1, <1>2, <1>3, <1>4, <1>5, <1>6

LEMMA ImportBeginsKeeps ==
  ASSUME Inductive, NEW batch \in Batches, NEW erase \in BOOLEAN, ImportBegins(batch, erase)
  PROVE  Inductive'
<1> DEFINE R == DOMAIN files
<1>1. /\ Begins /\ op' = [Idle EXCEPT !.pc = "next", !.todo = batch, !.reserved = R, !.erase = erase]
      /\ vault' = vault /\ other' = other /\ poisoned' = poisoned
      /\ disk' = disk /\ inodes' = inodes /\ stamp' = stamp
      /\ files' = files /\ folders' = folders /\ selected' = selected /\ shown' = shown
      /\ stale' = stale /\ torn' = torn /\ full' = full /\ doomed' = doomed
  BY DEF ImportBegins, engine, outside, view, history
<1>2. op.pc = "idle" /\ ops' \in 0..MaxOps  BY <1>1, BeginsIs
<1>3. batch \in Seq(Sources)
  <2>1. \A p, q \in Sources : <<p>> \in Seq(Sources) /\ <<p, q>> \in Seq(Sources)  OBVIOUS
  <2>2. (\E p \in Sources : batch = <<p>>) \/ (\E p, q \in Sources : batch = <<p, q>>)  BY DEF Batches
  <2> QED  BY <2>1, <2>2
<1>4. R \subseteq Names  BY <1>2, Between DEF IsMap
<1> HIDE DEF R
<1>5. op' \in Operations /\ op'.pc = "next" /\ op'.reserved = R /\ op'.off = 0 /\ op'.data = <<>>
  BY <1>1, <1>3, <1>4, IdleIs DEF Operations, Phases
<1>6. TypeOK'  BY <1>1, <1>2, <1>5, SameEngine DEF Inductive, TypeOK, IsMap
<1>7. Held'  BY <1>1, <1>2, <1>5 DEF Inductive, Held, AtRisk, Kept
<1>8. Engine'  BY <1>1, <1>5 DEF Inductive, Engine
<1>9. Copies'  BY <1>1, <1>5 DEF Inductive, Copies, Working
<1>10. Imports(vault, files, folders, selected, shown, torn, R)  BY <1>2, Between DEF Imports, R
<1>11. Shows'  BY <1>1, <1>5, <1>10 DEF Shows, Imports, Viewed, FoldersOf, InFolder
<1>12. Fits'  BY <1>1, <1>5 DEF Inductive, Fits
<1> QED  BY <1>6, <1>7, <1>8, <1>9, <1>11, <1>12 DEF Inductive

LEMMA ImportOpensKeeps ==
  ASSUME Inductive, ImportOpens
  PROVE  Inductive'
<1> DEFINE i == disk[Head(op.todo)]
           n == UniqueName(op.reserved)
           v == Creates(vault, n)
           td == Tail(op.todo)
           R == op.reserved \cup {n}
           reserving == [op EXCEPT !.reserved = R]
           sz == Len(inodes[i].data)
           mt == inodes[i].mtime
<1>1. /\ op.pc = "next" /\ op.todo # <<>>
      /\ \/ op' = [op EXCEPT !.todo = td] /\ UNCHANGED engine
         \/ /\ FreeLeaves(op.reserved) # {}
            /\ \/ /\ i # NoInode /\ sz <= Free(vault) /\ n \notin DOMAIN vault.files
                  /\ \/ /\ Succeeds(v)
                        /\ op' = [reserving EXCEPT !.pc = "copying", !.name = n, !.inode = i,
                                     !.size = sz, !.mtime = mt]
                     \/ Errs(v) /\ op' = [reserving EXCEPT !.todo = td]
               \/ op' = [reserving EXCEPT !.todo = td] /\ UNCHANGED engine
      /\ UNCHANGED <<view, ops, stamp, stale, torn>> /\ full' = full /\ doomed' = doomed
      /\ disk' = disk /\ inodes' = inodes
  BY Zenon DEF ImportOpens, outside, history
<1>2. /\ VaultOK(vault) /\ Shape(vault) /\ op \in Operations /\ full = FALSE /\ doomed \subseteq Texts
      /\ disk \in [Sources -> Inodes \cup {NoInode}] /\ inodes \in [Inodes -> [data : Texts, mtime : Nat]]
      /\ \A p \in Sources : disk[p] <= stamp
      /\ Kept(vault, {}, doomed) /\ Kept(other, {}, doomed)
      /\ Only(vault, vault, {}) /\ DOMAIN files \subseteq op.reserved
      /\ op.off = 0 /\ op.data = <<>>
  BY <1>1, Importing DEF Inductive, Copies
<1>3. Head(op.todo) \in Sources /\ td \in Seq(Sources) /\ op.reserved \subseteq Names
  BY <1>1, <1>2, HeadTailProperties DEF Operations
<1>4. i \in Inodes \cup {NoInode} /\ i <= stamp  BY <1>2, <1>3
<1>5. i # NoInode => inodes[i].data \in Texts /\ sz \in Nat /\ mt \in Nat
  BY <1>2, <1>4, LenProperties DEF Texts
<1>6. Errs(vault) \/ ~ UNCHANGED engine  BY DEF Errs, engine
<1>7. FreeLeaves(op.reserved) # {} => n \in RootNames \ op.reserved  BY UniqueNameIs
<1> HIDE DEF i, n, td, sz, mt
<1>8. CASE op' = [op EXCEPT !.todo = td] /\ UNCHANGED engine
  <2>1. op' \in Operations /\ op'.pc = "next" /\ op'.off = 0 /\ op'.data = <<>> /\ op'.reserved = op.reserved
    BY <1>1, <1>2, <1>3, <1>8 DEF Operations
  <2>2. ImportStep(vault, {})  BY <1>1, <1>2, <1>6, <1>8, <2>1 DEF ImportStep
  <2> QED  BY <1>1, <1>2, <2>1, <2>2, NextKeeps
<1>9. ASSUME FreeLeaves(op.reserved) # {}, NEW u, VaultOK(u), Only(u, vault, {n}), Kept(u, {}, doomed), Errs(u),
             op' = [reserving EXCEPT !.todo = td]
      PROVE  Inductive'
  <2>1. R \subseteq Names /\ op.reserved \subseteq R /\ {n} \subseteq RootNames \ DOMAIN files
    BY <1>2, <1>3, <1>7, <1>9, NamesAre
  <2> HIDE DEF R
  <2>2. op' \in Operations /\ op'.pc = "next" /\ op'.off = 0 /\ op'.data = <<>> /\ op'.reserved = R
    BY <1>1, <1>2, <1>3, <1>9, <2>1 DEF Operations
  <2>3. ImportStep(u, {n})  BY <1>1, <1>2, <1>9, <2>1, <2>2 DEF ImportStep
  <2> QED  BY <1>1, <1>2, <1>9, <2>2, <2>3, NextKeeps
<1>10. FreeLeaves(op.reserved) # {} /\ n \notin DOMAIN vault.files =>
         /\ VaultOK(v) /\ Only(v, vault, {n}) /\ Kept(v, {}, doomed) /\ Kept(v, {n}, doomed)
         /\ n \in DOMAIN v.files /\ v.files[n] = <<>> /\ v.dirs = vault.dirs
  <2> SUFFICES ASSUME FreeLeaves(op.reserved) # {}, n \notin DOMAIN vault.files
               PROVE  /\ VaultOK(v) /\ Only(v, vault, {n}) /\ Kept(v, {}, doomed) /\ Kept(v, {n}, doomed)
                      /\ n \in DOMAIN v.files /\ v.files[n] = <<>> /\ v.dirs = vault.dirs
    OBVIOUS
  <2>1. n \in Names \ DOMAIN vault.files  BY <1>7, NamesAre
  <2>2. /\ VaultOK(v) /\ v.dirs = vault.dirs
        /\ DOMAIN v.files = DOMAIN vault.files \cup {n} /\ v.files[n] = <<>>
        /\ \A k \in DOMAIN vault.files : v.files[k] = vault.files[k]
    BY <1>2, <2>1, CreatesIs
  <2> HIDE DEF v
  <2>3. Only(v, vault, {n})  BY <2>2 DEF Only
  <2>4. Kept(v, {n}, doomed) /\ Kept(v, {}, doomed)  BY <1>2, <2>1, <2>2 DEF Kept
  <2> QED  BY <2>2, <2>3, <2>4
<1>11. CASE /\ FreeLeaves(op.reserved) # {} /\ i # NoInode /\ sz <= Free(vault) /\ n \notin DOMAIN vault.files
            /\ Succeeds(v)
            /\ op' = [reserving EXCEPT !.pc = "copying", !.name = n, !.inode = i, !.size = sz, !.mtime = mt]
  <2>1. R \subseteq Names /\ op.reserved \subseteq R /\ {n} \subseteq RootNames \ DOMAIN files /\ n \in Names
    BY <1>2, <1>3, <1>7, <1>11, NamesAre
  <2>2. i \in Inodes /\ sz \in Nat /\ mt \in Nat  BY <1>4, <1>5, <1>11
  <2> HIDE DEF R
  <2>3. /\ op' \in Operations /\ op'.pc = "copying" /\ op'.name = n /\ op'.inode = i /\ op'.size = sz
        /\ op'.mtime = mt /\ op'.off = 0 /\ op'.data = <<>> /\ op'.reserved = R /\ op'.todo = op.todo
    BY <1>2, <1>11, <2>1, <2>2 DEF Operations, Phases
  <2>4. /\ VaultOK(v) /\ Only(v, vault, {n}) /\ Kept(v, {n}, doomed) /\ n \in DOMAIN v.files /\ v.files[n] = <<>>
    BY <1>10, <1>11
  <2> HIDE DEF v
  <2>5. ImportStep(v, {n})  BY <1>1, <1>2, <1>11, <2>1, <2>3, <2>4 DEF ImportStep
  <2>6. /\ TypeOK' /\ (~poisoned => other = vault)'
        /\ Imports(vault', files', folders', selected', shown', torn', op'.reserved)
        /\ files' = files /\ stamp' = stamp
    BY <1>1, <2>5, ImportTypes
  <2>7. vault' = v /\ other' = v /\ ~poisoned'  BY <1>11 DEF Succeeds
  <2>8. Held'  BY <1>1, <2>3, <2>4, <2>7 DEF Held, AtRisk, Kept
  <2>9. Engine'  BY <2>3, <2>7 DEF Engine
  <2>10. Copies'
    <3>1. inodes[i].data \in Texts /\ Len(inodes[i].data) = sz /\ inodes[i].mtime = mt
      BY <1>5, <1>11 DEF sz, mt
    <3>2. SubSeq(inodes[i].data, 1, 0) = <<>>  BY <3>1 DEF Texts
    <3>3. Source(op.inode)'  BY <1>1, <2>2, <2>3, <3>1, <3>2 DEF Source
    <3> QED  BY <1>1, <1>2, <1>4, <2>2, <2>3, <2>4, <2>6, <2>7, <3>3 DEF Copies, Working
  <2>11. Shows'  BY <2>1, <2>3, <2>6 DEF Shows, Imports, Viewed, FoldersOf, InFolder
  <2>12. Fits'
    <3>1. /\ Chunks \in Nat /\ UsedChunks(vault) \in Nat /\ UsedChunks(vault) = Rest(vault, n)
      BY <1>2, <1>11, UsedNow
    <3>2. Rest(v, n) = Rest(vault, n)
      <4>1. Shape(v) /\ Shape(vault)  BY <1>2, <2>4, VaultOKIs
      <4> QED  BY <2>4, <4>1, RestSame DEF Only
    <3>3. 2 * ChunksFor(sz) <= sz + 1 /\ ChunksFor(sz) \in Nat  BY <2>2, ChunksForType
    <3>4. sz <= 2 * (Chunks - 1 - UsedChunks(vault))  BY <1>11 DEF Free, FreeChunks, ChunkUnits
    <3>5. ChunksFor(sz) <= Chunks - 1 - Rest(v, n)  BY <2>2, <3>1, <3>2, <3>3, <3>4
    <3>6. vault'.files[op'.name] = <<>> /\ Rest(vault', op'.name) = Rest(v, n)  BY <2>3, <2>4, <2>7
    <3>7. Even(0)  BY DEF Even
    <3>8. inodes'[op'.inode] = inodes[i] /\ Len(inodes[i].data) = sz  BY <1>1, <2>3 DEF sz
    <3>9. ~full'  BY <1>1, <1>2
    <3> QED  BY <2>2, <2>3, <3>5, <3>6, <3>7, <3>8, <3>9, NothingType DEF Fits, Room
  <2> QED  BY <2>6, <2>8, <2>9, <2>10, <2>11, <2>12 DEF Inductive
<1>12. CASE /\ FreeLeaves(op.reserved) # {} /\ n \notin DOMAIN vault.files
            /\ Errs(v) /\ op' = [reserving EXCEPT !.todo = td]
  BY <1>9, <1>10, <1>12
<1>13. CASE FreeLeaves(op.reserved) # {} /\ op' = [reserving EXCEPT !.todo = td] /\ UNCHANGED engine
  <2>1. Only(vault, vault, {n})  BY DEF Only
  <2> QED  BY <1>2, <1>6, <1>9, <1>13, <2>1
<1> QED  BY <1>1, <1>8, <1>11, <1>12, <1>13

\* What a step that copies finds.
LEMMA Copying ==
  ASSUME Inductive, op.pc = "copying"
  PROVE  /\ ~poisoned /\ op.name \in DOMAIN vault.files /\ op.name \in RootNames \ DOMAIN files
         /\ Kept(vault, {op.name}, doomed)
         /\ op.off \in Nat /\ op.size \in Nat /\ op.data \in Texts
         /\ inodes[op.inode].data \in Texts /\ Len(inodes[op.inode].data) \in Nat
         /\ Len(vault.files[op.name]) = op.off
         /\ op.size <= Len(inodes[op.inode].data) /\ op.off <= Len(inodes[op.inode].data)
         /\ Even(op.off) \/ op.size <= op.off
         /\ ChunksFor(op.size) <= Chunks - 1 - Rest(vault, op.name)
         /\ Source(op.inode)
<1>1. /\ op.inode \in Inodes /\ op \in Operations /\ inodes \in [Inodes -> [data : Texts, mtime : Nat]]
  BY Importing DEF Working
<1>2. inodes[op.inode].data \in Texts /\ Len(inodes[op.inode].data) \in Nat
  BY <1>1, LenProperties DEF Texts
<1>3. op.off \in Nat /\ op.size \in Nat /\ op.data \in Texts  BY <1>1 DEF Operations
<1>4. ~poisoned  BY DEF Inductive, Engine
<1>5. op.name \in DOMAIN vault.files /\ Source(op.inode)  BY DEF Inductive, Copies
<1>6. op.name \in RootNames \ DOMAIN files  BY DEF Inductive, Shows
<1>7. Kept(vault, {op.name}, doomed)  BY DEF Inductive, Held, AtRisk
<1>8. /\ Len(vault.files[op.name]) = op.off
      /\ op.size <= Len(inodes[op.inode].data) /\ op.off <= Len(inodes[op.inode].data)
      /\ Even(op.off) \/ op.size <= op.off
      /\ ChunksFor(op.size) <= Chunks - 1 - Rest(vault, op.name)
  BY DEF Inductive, Fits, Room
<1> QED  BY <1>2, <1>3, <1>4, <1>5, <1>6, <1>7, <1>8

\* A damaged window is as long as what was to be written.
LEMMA DamageIs ==
  ASSUME NEW w \in Texts, NEW s \in {w, [k \in 1..Len(w) |-> Damaged]}
  PROVE  /\ s \in Texts /\ Len(s) = Len(w)
         /\ \A v, n, off : HasRoomFor(v, n, off, w) => HasRoomFor(v, n, off, s)
<1>1. Len(w) \in Nat  BY LenProperties DEF Texts
<1>2. Damaged \in Units  BY LibraryAssumption DEF Units, Damaged
<1>3. [k \in 1..Len(w) |-> Damaged] \in Texts /\ Len([k \in 1..Len(w) |-> Damaged]) = Len(w)
  BY <1>1, <1>2 DEF Texts
<1>4. s \in Texts /\ Len(s) = Len(w)  BY <1>3
<1> HIDE DEF Damaged
<1> QED  BY <1>4 DEF HasRoomFor

LEMMA ImportCopiesKeeps ==
  ASSUME Inductive, ImportCopies
  PROVE  Inductive'
<1> DEFINE n == op.name
           off == op.off
           t == inodes[op.inode].data
           w == Piece(t, off)
           fits == HasRoomFor(vault, n, off, w)
<1>1. /\ op.pc = "copying" /\ w # <<>>
      /\ \/ /\ fits
            /\ \E s \in {w, [k \in 1..Len(w) |-> Damaged]} : Succeeds(Writes(vault, n, off, s))
            /\ op' = [op EXCEPT !.off = @ + Len(w), !.data = @ \o w]
            /\ full' = full
         \/ /\ IF fits THEN Errs(Writes(vault, n, off, w)) ELSE UNCHANGED engine
            /\ op' = [op EXCEPT !.pc = "cleaning"]
            /\ full' = (full \/ (~fits /\ off + Len(w) <= op.size))
      /\ UNCHANGED <<view, ops, stamp, stale, torn>> /\ doomed' = doomed
      /\ disk' = disk /\ inodes' = inodes
  BY DEF ImportCopies, outside
<1>2. /\ VaultOK(vault) /\ op \in Operations /\ full = FALSE /\ doomed \subseteq Texts
      /\ disk \in [Sources -> Inodes \cup {NoInode}] /\ inodes \in [Inodes -> [data : Texts, mtime : Nat]]
      /\ \A p \in Sources : disk[p] <= stamp
      /\ op.inode \in Inodes /\ op.inode <= stamp /\ op.todo # <<>>
  BY <1>1, Importing DEF Working
<1>3. /\ ~poisoned /\ n \in DOMAIN vault.files /\ n \in RootNames \ DOMAIN files
      /\ Kept(vault, {n}, doomed)
      /\ off \in Nat /\ op.size \in Nat /\ op.data \in Texts /\ t \in Texts /\ Len(t) \in Nat
      /\ Len(vault.files[n]) = off /\ op.size <= Len(t) /\ off <= Len(t)
      /\ Even(off) \/ op.size <= off
      /\ ChunksFor(op.size) <= Chunks - 1 - Rest(vault, n)
      /\ Source(op.inode)
  BY <1>1, Copying
<1>4. /\ off < Len(t) /\ w \in Texts /\ Len(w) = (IF off + 2 <= Len(t) THEN 2 ELSE 1)
      /\ SubSeq(t, 1, off) \o w = SubSeq(t, 1, off + Len(w))
  <2>1. off < Len(t) \/ Len(t) <= off  BY <1>3
  <2> QED  BY <1>1, <1>3, <2>1, PieceIs
<1>5. Len(w) \in {1, 2} /\ off + Len(w) <= Len(t) /\ off + Len(w) \in Nat /\ off < off + Len(w)
  <2>1. Len(t) \in Nat /\ off \in Nat /\ off < Len(t) /\ Len(w) = (IF off + 2 <= Len(t) THEN 2 ELSE 1)
    BY <1>3, <1>4
  <2> HIDE DEF w, t, off
  <2> QED  BY <2>1
<1> HIDE DEF w, t
<1>6. \A s \in {w, [k \in 1..Len(w) |-> Damaged]} :
        fits => Written(Writes(vault, n, off, s), vault, n, off + Len(w))
  <2>1. VaultOK(vault) /\ n \in DOMAIN vault.files /\ off \in Nat /\ Len(vault.files[n]) = off
    BY <1>2, <1>3
  <2> HIDE DEF n, off
  <2>2. \A s \in Texts : HasRoomFor(vault, n, off, s) =>
          Written(Writes(vault, n, off, s), vault, n, off + Len(s))
    BY <2>1, WritesIs
  <2> QED  BY <1>4, <2>2, DamageIs DEF fits
<1>7. off + Len(w) <= op.size => fits
  <2> SUFFICES ASSUME off + Len(w) <= op.size PROVE fits  OBVIOUS
  <2>1. Even(off)
    <3>1. off \in Nat /\ op.size \in Nat /\ off + Len(w) \in Nat /\ off < off + Len(w)  BY <1>3, <1>5
    <3>2. ~(op.size <= off)
      <4> HIDE DEF off
      <4> QED  BY <3>1
    <3> QED  BY <1>3, <3>2
  <2> HIDE DEF n, off
  <2> QED  BY <1>2, <1>3, <1>4, <2>1, RoomEnough
<1> HIDE DEF fits
<1>8. CASE /\ fits
           /\ \E s \in {w, [k \in 1..Len(w) |-> Damaged]} : Succeeds(Writes(vault, n, off, s))
           /\ op' = [op EXCEPT !.off = @ + Len(w), !.data = @ \o w]
           /\ full' = full
  <2>1. PICK v : /\ Succeeds(v) /\ VaultOK(v) /\ Only(v, vault, {n}) /\ DOMAIN v.files = DOMAIN vault.files
                 /\ Len(v.files[n]) = off + Len(w) /\ Rest(v, n) = Rest(vault, n)
    BY <1>6, <1>8 DEF Written
  <2> DEFINE o == off + Len(w)
             d == op.data \o w
  <2>2. o \in Nat /\ d \in Texts  BY <1>3, <1>4, <1>5, JoinIs
  <2>3. op' = [op EXCEPT !.off = o, !.data = d]  BY <1>8
  <2> HIDE DEF o, d
  <2>4. /\ op' \in Operations /\ op'.pc = "copying" /\ op'.name = n /\ op'.inode = op.inode
        /\ op'.size = op.size /\ op'.mtime = op.mtime /\ op'.off = o /\ op'.data = d
        /\ op'.reserved = op.reserved /\ op'.todo = op.todo
    BY <1>1, <1>2, <2>2, <2>3 DEF Operations
  <2>5. ImportStep(v, {n})
    <3>1. {n} \subseteq RootNames \ DOMAIN files  BY <1>3
    <3> QED  BY <1>1, <1>2, <1>8, <2>1, <2>4, <3>1 DEF ImportStep
  <2>6. /\ TypeOK' /\ (~poisoned => other = vault)'
        /\ Imports(vault', files', folders', selected', shown', torn', op'.reserved)
        /\ files' = files /\ stamp' = stamp
    BY <1>1, <2>5, ImportTypes
  <2>7. vault' = v /\ other' = v /\ ~poisoned'  BY <2>1 DEF Succeeds
  <2>8. Kept(v, {n}, doomed)  BY <1>3, <2>1, OnlyKept
  <2>9. Held'  BY <1>1, <2>4, <2>7, <2>8 DEF Held, AtRisk, Kept
  <2>10. Engine'  BY <2>4, <2>7 DEF Engine
  <2>11. Copies'
    <3>1. Source(op.inode)'
      <4>1. op.mtime = inodes[op.inode].mtime => d = SubSeq(t, 1, o)
        BY <1>3, <1>4 DEF Source, o, d, t
      <4> QED  BY <1>1, <1>3, <2>4, <4>1 DEF Source, t
    <3> QED  BY <1>1, <1>2, <1>3, <2>1, <2>4, <2>6, <2>7, <3>1 DEF Copies, Working
  <2>12. Shows'  BY <1>3, <2>4, <2>6 DEF Shows, Imports, Viewed, FoldersOf, InFolder
  <2>13. Fits'
    <3>1. Even(o) \/ op.size <= o
      <4>1. CASE op.size <= off  BY <1>3, <1>5, <4>1 DEF o
      <4>2. CASE ~(op.size <= off) /\ off + 2 <= Len(t)  BY <1>3, <1>4, <4>2, EvenIs DEF o
      <4>3. CASE ~(off + 2 <= Len(t))  BY <1>3, <1>4, <4>3 DEF o
      <4> QED  BY <4>1, <4>2, <4>3
    <3>2. Len(vault'.files[op'.name]) = o /\ Rest(vault', op'.name) = Rest(vault, n)  BY <2>1, <2>4, <2>7 DEF o
    <3>3. inodes'[op'.inode].data = t /\ o <= Len(t)  BY <1>1, <1>5, <2>4 DEF o, t
    <3>4. ~full'  BY <1>2, <1>8
    <3> QED  BY <1>3, <2>4, <3>1, <3>2, <3>3, <3>4 DEF Fits, Room
  <2> QED  BY <2>6, <2>9, <2>10, <2>11, <2>12, <2>13 DEF Inductive
<1>9. CASE /\ IF fits THEN Errs(Writes(vault, n, off, w)) ELSE UNCHANGED engine
           /\ op' = [op EXCEPT !.pc = "cleaning"]
           /\ full' = (full \/ (~fits /\ off + Len(w) <= op.size))
  <2>1. full' = FALSE  BY <1>2, <1>7, <1>9
  <2>2. PICK v : Errs(v) /\ VaultOK(v) /\ Only(v, vault, {n})
    <3>1. CASE fits  BY <1>6, <1>9, <3>1 DEF Written
    <3>2. CASE ~fits
      <4>1. Errs(vault)  BY <1>9, <3>2 DEF Errs, engine
      <4>2. Only(vault, vault, {n})  BY DEF Only
      <4> QED  BY <1>2, <4>1, <4>2
    <3> QED  BY <3>1, <3>2
  <2>3. op' \in Operations /\ op'.pc = "cleaning" /\ op'.reserved = op.reserved
    BY <1>2, <1>9 DEF Operations, Phases
  <2>4. ImportStep(v, {n})
    <3>1. {n} \subseteq RootNames \ DOMAIN files  BY <1>3
    <3> QED  BY <1>1, <1>2, <2>1, <2>2, <2>3, <3>1 DEF ImportStep
  <2>5. Kept(v, {n}, doomed)  BY <1>3, <2>2, OnlyKept
  <2> QED  BY <1>1, <1>9, <2>4, <2>5, CleaningKeeps
<1> QED  BY <1>1, <1>8, <1>9

LEMMA ImportMeasuresKeeps ==
  ASSUME Inductive, ImportMeasures
  PROVE  Inductive'
<1> DEFINE t == inodes[op.inode].data
<1>1. /\ op.pc = "copying"
      /\ \/ op' = [op EXCEPT !.pc = "cleaning"]
         \/ op' = [op EXCEPT !.pc = "verifying"] /\ Piece(t, op.off) = <<>> /\ op.off = op.size
      /\ UNCHANGED engine /\ UNCHANGED <<view, ops, stamp, stale, torn>>
      /\ full' = full /\ doomed' = doomed /\ disk' = disk /\ inodes' = inodes
  BY DEF ImportMeasures, outside, history
<1>2. /\ VaultOK(vault) /\ op \in Operations /\ full = FALSE /\ doomed \subseteq Texts
      /\ disk \in [Sources -> Inodes \cup {NoInode}] /\ inodes \in [Inodes -> [data : Texts, mtime : Nat]]
      /\ \A p \in Sources : disk[p] <= stamp
      /\ op.inode \in Inodes /\ op.inode <= stamp /\ op.todo # <<>> /\ Only(vault, vault, {})
  BY <1>1, Importing DEF Working
<1>3. /\ ~poisoned /\ op.name \in DOMAIN vault.files /\ op.name \in RootNames \ DOMAIN files
      /\ Kept(vault, {op.name}, doomed) /\ Source(op.inode)
  BY <1>1, Copying
<1>4. Errs(vault)  BY <1>1 DEF Errs, engine
<1>5. CASE op' = [op EXCEPT !.pc = "cleaning"]
  <2>1. op' \in Operations /\ op'.pc = "cleaning" /\ op'.reserved = op.reserved
    BY <1>2, <1>5 DEF Operations, Phases
  <2>2. ImportStep(vault, {})  BY <1>1, <1>2, <1>4, <2>1 DEF ImportStep
  <2> QED  BY <1>1, <1>3, <1>5, <2>2, CleaningKeeps
<1>6. CASE op' = [op EXCEPT !.pc = "verifying"] /\ Piece(t, op.off) = <<>> /\ op.off = op.size
  <2>1. /\ op' \in Operations /\ op'.pc = "verifying" /\ op'.name = op.name /\ op'.inode = op.inode
        /\ op'.size = op.size /\ op'.mtime = op.mtime /\ op'.off = op.off /\ op'.data = op.data
        /\ op'.reserved = op.reserved /\ op'.todo = op.todo
    BY <1>2, <1>6 DEF Operations, Phases
  <2>2. ImportStep(vault, {})  BY <1>1, <1>2, <1>4, <2>1 DEF ImportStep
  <2>3. /\ TypeOK' /\ (~poisoned => other = vault)'
        /\ Imports(vault', files', folders', selected', shown', torn', op'.reserved)
        /\ files' = files /\ stamp' = stamp
    BY <1>1, <2>2, ImportTypes
  <2>4. vault' = vault /\ other' = other /\ poisoned' = poisoned  BY <1>1 DEF engine
  <2>5. Held'  BY <1>1, <2>1, <2>4 DEF Inductive, Held, AtRisk, Kept
  <2>6. Engine'  BY <1>3, <2>1, <2>3, <2>4 DEF Engine
  <2>7. Copies'  BY <1>1, <1>2, <1>3, <1>6, <2>1, <2>3, <2>4 DEF Copies, Working, Source
  <2>8. Shows'  BY <1>3, <2>1, <2>3 DEF Shows, Imports, Viewed, FoldersOf, InFolder
  <2>9. Fits'  BY <1>1, <1>2, <2>1 DEF Fits
  <2> QED  BY <2>3, <2>5, <2>6, <2>7, <2>8, <2>9 DEF Inductive
<1> QED  BY <1>1, <1>5, <1>6

\* What a step on a finished copy, still open or not, finds.
LEMMA Copied ==
  ASSUME Inductive, op.pc \in {"verifying", "checking"}
  PROVE  /\ ~poisoned /\ other = vault /\ op.name \in DOMAIN vault.files /\ Source(op.inode) /\ op.off = op.size
         /\ op.pc = "verifying" => op.name \in RootNames \ DOMAIN files /\ Kept(vault, {op.name}, doomed)
         /\ op.pc = "checking" => vault.files[op.name] = op.data
BY DEF Inductive, Engine, Copies, Shows, Held, AtRisk

\* A step of an import that touches neither the vault nor the disk, and goes on.
LEMMA StaysKeeps ==
  ASSUME Inductive, op.pc \notin {"idle", "saving"}, op.todo # <<>>, Proceeds,
         UNCHANGED <<engine, view, ops, stamp, history>>,
         disk' \in [Sources -> Inodes \cup {NoInode}], inodes' \in [Inodes -> [data : Texts, mtime : Nat]],
         \A p \in Sources : disk'[p] <= stamp
  PROVE  Inductive'
<1>1. /\ VaultOK(vault) /\ op \in Operations /\ full = FALSE /\ doomed \subseteq Texts
      /\ Kept(vault, {}, doomed) /\ Kept(other, {}, doomed) /\ Only(vault, vault, {})
  BY Importing
<1>2. /\ op' \in Operations /\ op'.pc = "next" /\ op'.reserved = op.reserved /\ op'.off = 0 /\ op'.data = <<>>
  BY <1>1, ProceedsIs
<1>3. doomed' = doomed /\ full' = full /\ Errs(vault) /\ UNCHANGED <<view, ops, stamp, stale, torn>>
  BY DEF Errs, engine, history
<1>4. ImportStep(vault, {})  BY <1>1, <1>2, <1>3 DEF ImportStep
<1> QED  BY <1>1, <1>2, <1>3, <1>4, NextKeeps

LEMMA ImportVerifiesKeeps ==
  ASSUME Inductive, ImportVerifies
  PROVE  Inductive'
<1>1. /\ op.pc = "verifying"
      /\ \/ vault.files[op.name] = op.data /\ op' = [op EXCEPT !.pc = "checking"]
         \/ Proceeds
         \/ op' = [op EXCEPT !.pc = "cleaning"]
      /\ UNCHANGED <<engine, view, ops, stamp, history>> /\ UNCHANGED engine
      /\ UNCHANGED <<view, ops, stamp, stale, torn>>
      /\ full' = full /\ doomed' = doomed /\ disk' = disk /\ inodes' = inodes
  BY DEF ImportVerifies, outside, history
<1>2. /\ VaultOK(vault) /\ op \in Operations /\ full = FALSE /\ doomed \subseteq Texts
      /\ disk \in [Sources -> Inodes \cup {NoInode}] /\ inodes \in [Inodes -> [data : Texts, mtime : Nat]]
      /\ \A p \in Sources : disk[p] <= stamp
      /\ op.inode \in Inodes /\ op.inode <= stamp /\ op.todo # <<>> /\ Only(vault, vault, {})
      /\ Kept(vault, {}, doomed) /\ Kept(other, {}, doomed)
  BY <1>1, Importing DEF Working
<1>3. /\ ~poisoned /\ other = vault /\ op.name \in DOMAIN vault.files /\ op.off = op.size
      /\ op.name \in RootNames \ DOMAIN files
      /\ Kept(vault, {op.name}, doomed) /\ Source(op.inode)
  BY <1>1, Copied
<1>4. Errs(vault)  BY <1>1 DEF Errs, engine
<1>5. CASE op' = [op EXCEPT !.pc = "cleaning"]
  <2>1. op' \in Operations /\ op'.pc = "cleaning" /\ op'.reserved = op.reserved
    BY <1>2, <1>5 DEF Operations, Phases
  <2>2. ImportStep(vault, {})  BY <1>1, <1>2, <1>4, <2>1 DEF ImportStep
  <2> QED  BY <1>1, <1>3, <1>5, <2>2, CleaningKeeps
<1>6. CASE Proceeds
  <2>1. op.pc \notin {"idle", "saving"}  BY <1>1
  <2> QED  BY <1>1, <1>2, <1>6, <2>1, StaysKeeps
<1>7. CASE vault.files[op.name] = op.data /\ op' = [op EXCEPT !.pc = "checking"]
  <2>1. /\ op' \in Operations /\ op'.pc = "checking" /\ op'.name = op.name /\ op'.inode = op.inode
        /\ op'.size = op.size /\ op'.mtime = op.mtime /\ op'.off = op.off /\ op'.data = op.data
        /\ op'.reserved = op.reserved /\ op'.todo = op.todo
    BY <1>2, <1>7 DEF Operations, Phases
  <2>2. ImportStep(vault, {})  BY <1>1, <1>2, <1>4, <2>1 DEF ImportStep
  <2>3. /\ TypeOK' /\ (~poisoned => other = vault)'
        /\ Imports(vault', files', folders', selected', shown', torn', op'.reserved)
        /\ files' = files /\ stamp' = stamp
    BY <1>1, <2>2, ImportTypes
  <2>4. vault' = vault /\ other' = other /\ poisoned' = poisoned  BY <1>1 DEF engine
  <2>5. Held'  BY <1>1, <1>2, <2>1, <2>4 DEF Held, AtRisk, Kept
  <2>6. Engine'  BY <1>3, <2>1, <2>3, <2>4 DEF Engine
  <2>7. Copies'  BY <1>1, <1>2, <1>3, <1>7, <2>1, <2>3, <2>4 DEF Copies, Working, Source
  <2>8. Shows'  BY <2>1, <2>3 DEF Shows, Imports, Viewed, FoldersOf, InFolder
  <2>9. Fits'  BY <1>1, <1>2, <2>1 DEF Fits
  <2> QED  BY <2>3, <2>5, <2>6, <2>7, <2>8, <2>9 DEF Inductive
<1> QED  BY <1>1, <1>5, <1>6, <1>7

\* What is removed is the partial copy, never one of what has been erased.
LEMMA ImportCleansKeeps ==
  ASSUME Inductive, ImportCleans
  PROVE  Inductive'
<1> DEFINE n == op.name
           v == Deletes(vault, n)
<1>1. /\ op.pc = "cleaning" /\ (Succeeds(v) \/ Errs(v)) /\ Proceeds
      /\ UNCHANGED <<view, ops, stamp, stale, torn>>
      /\ full' = full /\ doomed' = doomed /\ disk' = disk /\ inodes' = inodes
  BY DEF ImportCleans, outside, history
<1>2. /\ VaultOK(vault) /\ Shape(vault) /\ op \in Operations /\ full = FALSE /\ doomed \subseteq Texts
      /\ disk \in [Sources -> Inodes \cup {NoInode}] /\ inodes \in [Inodes -> [data : Texts, mtime : Nat]]
      /\ \A p \in Sources : disk[p] <= stamp
      /\ op.todo # <<>> /\ Kept(vault, {}, doomed) /\ Kept(other, {}, doomed)
  BY <1>1, Importing DEF Working
<1>3. n \in RootNames \ DOMAIN files /\ Kept(vault, {n}, doomed)
  BY <1>1 DEF Inductive, Shows, Held, AtRisk
<1>4. /\ VaultOK(v) /\ v.dirs = vault.dirs /\ DOMAIN v.files = DOMAIN vault.files \ {n}
      /\ \A k \in DOMAIN vault.files \ {n} : v.files[k] = vault.files[k]
  BY <1>2, WithoutOK, WithoutIs DEF Deletes
<1> HIDE DEF v, n
<1>5. Kept(v, {}, doomed)  BY <1>3, <1>4 DEF Kept
<1>6. Only(v, vault, {n})  BY <1>4 DEF Only
<1>7. /\ op' \in Operations /\ op'.pc = "next" /\ op'.reserved = op.reserved /\ op'.off = 0 /\ op'.data = <<>>
  BY <1>1, <1>2, ProceedsIs
<1>8. ImportStep(v, {n})
  <2>1. {n} \subseteq RootNames \ DOMAIN files  BY <1>3
  <2> QED  BY <1>1, <1>2, <1>4, <1>6, <1>7, <2>1 DEF ImportStep
<1> QED  BY <1>1, <1>2, <1>5, <1>7, <1>8, NextKeeps

LEMMA ImportEndsKeeps ==
  ASSUME Inductive, ImportEnds
  PROVE  Inductive'
<1>1. /\ op.pc = "next" /\ op' = Idle /\ files' = Listed(vault) /\ stale' = FALSE
      /\ vault' = vault /\ other' = other /\ poisoned' = poisoned /\ UNCHANGED outside
      /\ folders' = folders /\ selected' = selected /\ shown' = shown /\ ops' = ops /\ Stamps
      /\ torn' = torn /\ full' = full /\ doomed' = doomed
  BY DEF ImportEnds, Lists, engine, Stamps
<1>2. /\ VaultOK(vault) /\ Shape(vault) /\ full = FALSE /\ Kept(vault, {}, doomed)
      /\ Imports(vault, files, folders, selected, shown, torn, op.reserved)
      /\ torn \in BOOLEAN /\ ops \in 0..MaxOps
  BY <1>1, Importing DEF Inductive, Shows, TypeOK
<1>3. IsMap(Listed(vault), Nat) /\ DOMAIN Listed(vault) = DOMAIN vault.files  BY <1>2, ListedIs
<1>4. Matches(vault, Listed(vault), folders, selected, shown, FALSE, torn)
  BY <1>2, <1>3 DEF Imports, Matches
<1>5. Errs(vault)  BY <1>1 DEF Errs
<1>6. Matches(vault', files', folders', selected', shown', stale', torn')  BY <1>1, <1>4
<1> QED  BY <1>1, <1>2, <1>3, <1>5, <1>6, ReturnsKeeps

(***************************************************************************)
(* Erasing the originals                                                   *)
(***************************************************************************)
\* The original is what the copy was read from: the time it was written has not
\* changed, so neither has its content, all of which has been read and is, as
\* the verification has just found, what the vault holds.
LEMMA EraseChecksKeeps ==
  ASSUME Inductive, EraseChecks
  PROVE  Inductive'
<1> DEFINE i == op.inode
           d == inodes[i].data
<1>1. /\ op.pc = "checking"
      /\ \/ /\ disk[Head(op.todo)] = i /\ Len(d) = op.size /\ inodes[i].mtime = op.mtime
            /\ op' = [op EXCEPT !.pc = "erasing"] /\ doomed' = doomed \cup {d}
         \/ Proceeds /\ UNCHANGED <<engine, view, ops, stamp, history>>
      /\ UNCHANGED engine /\ UNCHANGED <<view, ops, stamp, stale, torn>>
      /\ full' = full /\ disk' = disk /\ inodes' = inodes
  BY Zenon DEF EraseChecks, outside, history
<1>2. /\ VaultOK(vault) /\ op \in Operations /\ full = FALSE /\ doomed \subseteq Texts
      /\ disk \in [Sources -> Inodes \cup {NoInode}] /\ inodes \in [Inodes -> [data : Texts, mtime : Nat]]
      /\ \A p \in Sources : disk[p] <= stamp
      /\ i \in Inodes /\ i <= stamp /\ op.todo # <<>> /\ Only(vault, vault, {})
      /\ Kept(vault, {}, doomed) /\ Kept(other, {}, doomed)
  BY <1>1, Importing DEF Working
<1>3. CASE Proceeds /\ UNCHANGED <<engine, view, ops, stamp, history>>
  <2>1. op.pc \notin {"idle", "saving"}  BY <1>1
  <2> QED  BY <1>1, <1>2, <1>3, <2>1, StaysKeeps
<1>4. CASE /\ Len(d) = op.size /\ inodes[i].mtime = op.mtime
           /\ op' = [op EXCEPT !.pc = "erasing"] /\ doomed' = doomed \cup {d}
  <2>1. /\ other = vault /\ op.name \in DOMAIN vault.files /\ Source(i) /\ op.off = op.size
        /\ vault.files[op.name] = op.data
    BY <1>1, Copied
  <2>2. d \in Texts  BY <1>2
  <2>3. vault.files[op.name] = d
    <3>1. op.data = SubSeq(d, 1, Len(d))  BY <1>4, <2>1 DEF Source
    <3>2. SubSeq(d, 1, Len(d)) = d
      <4> DEFINE a == SubSeq(d, 1, Len(d))
      <4>1. Len(d) \in Nat  BY <2>2, LenProperties DEF Texts
      <4> HIDE DEF d
      <4>2. a \in Texts /\ Len(a) = Len(d) /\ \A k \in 1..Len(d) : a[k] = d[k]
        BY <2>2, <4>1, PartIs
      <4> HIDE DEF a
      <4>3. a = d  BY <2>2, <4>2, SameText
      <4> QED  BY <4>3 DEF a
    <3> QED  BY <2>1, <3>1, <3>2
  <2> HIDE DEF d
  <2>4. Kept(vault, {}, doomed') /\ Kept(other, {}, doomed')  BY <1>2, <1>4, <2>1, <2>3 DEF Kept
  <2>5. /\ op' \in Operations /\ op'.pc = "erasing" /\ op'.reserved = op.reserved /\ op'.todo = op.todo
        /\ op'.inode = i
    BY <1>2, <1>4 DEF Operations, Phases
  <2>6. ImportStep(vault, {})
    <3>1. Errs(vault) /\ doomed' \subseteq Texts  BY <1>1, <1>2, <1>4, <2>2 DEF Errs, engine
    <3> QED  BY <1>1, <1>2, <2>5, <3>1 DEF ImportStep
  <2> QED  BY <1>2, <2>4, <2>5, <2>6, NextKeeps
<1> QED  BY <1>1, <1>3, <1>4

LEMMA EraseOverwritesKeeps ==
  ASSUME Inductive, EraseOverwrites
  PROVE  Inductive'
<1> DEFINE z == [k \in 1..op.size |-> Garbage]
           m == inodes[op.inode].mtime + 1
<1>1. /\ op.pc = "erasing"
      /\ inodes' = [inodes EXCEPT ![op.inode] = [data |-> z, mtime |-> m]]
      /\ op' = [op EXCEPT !.pc = "unlinking"] \/ Proceeds
      /\ UNCHANGED <<engine, view, ops, stamp, history>> /\ UNCHANGED engine
      /\ UNCHANGED <<view, ops, stamp, stale, torn>>
      /\ full' = full /\ doomed' = doomed /\ disk' = disk
  BY DEF EraseOverwrites, history
<1>2. /\ VaultOK(vault) /\ op \in Operations /\ full = FALSE /\ doomed \subseteq Texts
      /\ disk \in [Sources -> Inodes \cup {NoInode}] /\ inodes \in [Inodes -> [data : Texts, mtime : Nat]]
      /\ \A p \in Sources : disk[p] <= stamp
      /\ op.inode \in Inodes /\ op.inode <= stamp /\ op.todo # <<>> /\ Only(vault, vault, {})
      /\ Kept(vault, {}, doomed) /\ Kept(other, {}, doomed)
  BY <1>1, Importing DEF Working
<1>3. z \in Texts /\ m \in Nat
  <2>1. op.size \in Nat /\ m \in Nat  BY <1>2 DEF Operations
  <2>2. Garbage \in Units  BY LibraryAssumption DEF Garbage, Units, Damaged
  <2> QED  BY <2>1, <2>2 DEF Texts
<1> HIDE DEF z, m
<1>4. inodes' \in [Inodes -> [data : Texts, mtime : Nat]]  BY <1>1, <1>2, <1>3
<1>5. CASE Proceeds
  <2>1. op.pc \notin {"idle", "saving"}  BY <1>1
  <2> QED  BY <1>1, <1>2, <1>4, <1>5, <2>1, StaysKeeps
<1>6. CASE op' = [op EXCEPT !.pc = "unlinking"]
  <2>1. /\ op' \in Operations /\ op'.pc = "unlinking" /\ op'.reserved = op.reserved /\ op'.todo = op.todo
        /\ op'.inode = op.inode
    BY <1>2, <1>6 DEF Operations, Phases
  <2>2. ImportStep(vault, {})
    <3>1. Errs(vault)  BY <1>1 DEF Errs, engine
    <3> QED  BY <1>1, <1>2, <1>4, <2>1, <3>1 DEF ImportStep
  <2> QED  BY <1>1, <1>2, <2>1, <2>2, NextKeeps
<1> QED  BY <1>1, <1>5, <1>6

LEMMA EraseUnlinksKeeps ==
  ASSUME Inductive, EraseUnlinks
  PROVE  Inductive'
<1> DEFINE p == Head(op.todo)
<1>1. /\ op.pc = "unlinking" /\ disk' \in {disk, [disk EXCEPT ![p] = NoInode]} /\ Proceeds
      /\ UNCHANGED <<engine, view, ops, stamp, history>> /\ inodes' = inodes
  BY DEF EraseUnlinks
<1>2. /\ disk \in [Sources -> Inodes \cup {NoInode}] /\ inodes \in [Inodes -> [data : Texts, mtime : Nat]]
      /\ \A q \in Sources : disk[q] <= stamp
      /\ op.todo # <<>>
  BY <1>1, Importing DEF Working
<1>3. NoInode <= stamp /\ NoInode \in Inodes \cup {NoInode}
  BY LibraryAssumption DEF Inductive, TypeOK, NoInode
<1> HIDE DEF p
<1>4. disk' \in [Sources -> Inodes \cup {NoInode}] /\ \A q \in Sources : disk'[q] <= stamp
  BY <1>1, <1>2, <1>3
<1>5. op.pc \notin {"idle", "saving"}  BY <1>1
<1> QED  BY <1>1, <1>2, <1>4, <1>5, StaysKeeps

(***************************************************************************)
(* The invariant                                                           *)
(***************************************************************************)
LEMMA RenameKeeps == Inductive /\ Rename => Inductive'
BY NewNoteKeeps, RenameFileKeeps, MoveFileKeeps, CreateFolderKeeps, RenameFolderKeeps DEF Rename

LEMMA EditKeeps == Inductive /\ Edit => Inductive'
BY SaveBeginsKeeps, SaveWritesKeeps, SaveEndsKeeps DEF Edit

LEMMA ImportKeeps == Inductive /\ Import => Inductive'
BY ImportBeginsKeeps, ImportOpensKeeps, ImportCopiesKeeps, ImportMeasuresKeeps, ImportVerifiesKeeps,
   ImportCleansKeeps, ImportEndsKeeps DEF Import

LEMMA EraseKeeps == Inductive /\ Erase => Inductive'
BY EraseChecksKeeps, EraseOverwritesKeeps, EraseUnlinksKeeps DEF Erase

LEMMA StutterKeeps == Inductive /\ UNCHANGED vars => Inductive'
<1> SUFFICES ASSUME Inductive, UNCHANGED vars PROVE Inductive'  OBVIOUS
<1>1. /\ vault' = vault /\ other' = other /\ poisoned' = poisoned /\ disk' = disk /\ inodes' = inodes
      /\ files' = files /\ folders' = folders /\ selected' = selected /\ shown' = shown
      /\ op' = op /\ ops' = ops /\ stamp' = stamp
      /\ stale' = stale /\ torn' = torn /\ full' = full /\ doomed' = doomed
  BY DEF vars, engine, outside, view, history
<1>2. TypeOK'  BY <1>1, SameEngine DEF Inductive, TypeOK, IsMap
<1>3. Held' /\ Engine' /\ Copies'
  BY <1>1 DEF Inductive, Held, AtRisk, Kept, Engine, Copies, Working, Source
<1>4. Shows'
  BY <1>1 DEF Inductive, Shows, Matches, Edits, Imports, Viewed, FoldersOf, InFolder, Listed
<1>5. Fits'  BY <1>1, SameEngine DEF Inductive, Fits, Room
<1> QED  BY <1>2, <1>3, <1>4, <1>5 DEF Inductive

LEMMA StepKeeps == Inductive /\ [Next]_vars => Inductive'
<1> SUFFICES ASSUME Inductive, [Next]_vars PROVE Inductive'  OBVIOUS
<1>1. CASE Rename  BY <1>1, RenameKeeps
<1>2. CASE Edit  BY <1>2, EditKeeps
<1>3. CASE Import  BY <1>3, ImportKeeps
<1>4. CASE Erase  BY <1>4, EraseKeeps
<1>5. CASE \E n \in Names : SelectFile(n) \/ DeleteFile(n)  BY <1>5, SelectFileKeeps, DeleteFileKeeps
<1>6. CASE \E d \in Folders : DeleteFolder(d)  BY <1>6, DeleteFolderKeeps
<1>7. CASE \E p \in Sources : OthersReplace(p) \/ \E k \in 1..MaxSize : OthersWrite(p, k)
  BY <1>7, OthersReplaceKeeps, OthersWriteKeeps
<1>8. CASE Reopens  BY <1>8, ReopensKeeps
<1>9. CASE UNCHANGED vars  BY <1>9, StutterKeeps
<1> QED  BY <1>1, <1>2, <1>3, <1>4, <1>5, <1>6, <1>7, <1>8, <1>9 DEF Next

\* At every moment: the vault, and whatever it may turn out to hold once it is
\* opened again, have every content an original had when it was about to be
\* erased, under a name the operation in progress does not write to; a copy is
\* what was read of its source, as long as the source has kept its time; the
\* lists are behind the vault in no more than the operation in progress; and
\* what that operation has still to write has room.
THEOREM LibraryInvariant == Spec => []Inductive
<1>1. Init => Inductive  BY InitInductive
<1>2. Inductive /\ [Next]_vars => Inductive'  BY StepKeeps
<1> QED  BY <1>1, <1>2, PTL DEF Spec

\* The variables keep their types, and no vault ever uses more chunks than it has.
THEOREM TypeCorrect == Spec => []TypeOK
<1>1. Inductive => TypeOK  BY DEF Inductive
<1> QED  BY <1>1, LibraryInvariant, PTL

\* What an original held when the application decided to erase it (secureShred
\* after importOne) is in the vault, until the user deletes or edits it there.
THEOREM ErasedStored == Spec => []ErasedIsStored
<1>1. Inductive => ErasedIsStored  BY DEF Inductive, Held, Kept, ErasedIsStored
<1> QED  BY <1>1, LibraryInvariant, PTL

\* No import or edit that passed its check of the free space (importOne,
\* saveText) is refused half way for lack of room, unless the sizes it was
\* checked with were old or the source has grown.
THEOREM Preflight == Spec => []PreflightSuffices
<1>1. Inductive => PreflightSuffices  BY DEF Inductive, Fits, PreflightSuffices
<1> QED  BY <1>1, LibraryInvariant, PTL

\* Between operations the lists, the selection and the viewer are the vault's.
THEOREM View == Spec => []ViewMatches
<1>1. Inductive => ViewMatches  BY DEF Inductive, Shows, Matches, Viewed, ViewMatches
<1> QED  BY <1>1, LibraryInvariant, PTL

(***************************************************************************)
(* What a step may not do                                                  *)
(***************************************************************************)
Survives(u) == \A n \in DOMAIN vault.files : \E m \in DOMAIN u.files : u.files[m] = vault.files[n]

Spared(u, S) == \A n \in DOMAIN vault.files \ S : n \in DOMAIN u.files /\ u.files[n] = vault.files[n]

LEMMA RenameSpares ==
  ASSUME Inductive, Rename
  PROVE  Survives(vault')
<1>1. Survives(vault)  BY DEF Survives
<1>2. op.pc = "idle"
  BY DEF Rename, NewNote, RenameFile, MoveFile, CreateFolder, RenameFolder, Begins
<1>3. VaultOK(vault) /\ DOMAIN files = DOMAIN vault.files /\ NoName \notin DOMAIN files
  BY <1>2, Between
<1>4. \A v : (Succeeds(v) \/ Fails(v)) /\ Survives(v) => Survives(vault')
  BY <1>1 DEF Succeeds, Fails, Errs
<1>5. ASSUME NEW a \in DOMAIN vault.files, NEW b \in Names \ DOMAIN files  PROVE Survives(Renames(vault, a, b))
  <2> DEFINE v == Renames(vault, a, b)
  <2>1. /\ DOMAIN v.files = (DOMAIN vault.files \ {a}) \cup {b} /\ v.files[b] = vault.files[a]
        /\ \A k \in DOMAIN vault.files \ {a} : v.files[k] = vault.files[k]
    BY <1>3, RenamesIs
  <2> HIDE DEF v
  <2>2. Survives(v)  BY <2>1 DEF Survives
  <2> QED  BY <2>2 DEF v
<1>6. CASE NewNote
  <2> DEFINE n == UniqueName(DOMAIN files)
             v == Creates(vault, n)
  <2>1. FreeLeaves(DOMAIN files) # {} /\ (Succeeds(v) \/ Fails(v))  BY <1>6 DEF NewNote
  <2>2. n \in Names \ DOMAIN vault.files  BY <1>3, <2>1, UniqueNameIs, NamesAre
  <2> HIDE DEF n
  <2>3. /\ DOMAIN v.files = DOMAIN vault.files \cup {n}
        /\ \A k \in DOMAIN vault.files : v.files[k] = vault.files[k]
    BY <1>3, <2>2, CreatesIs
  <2> HIDE DEF v
  <2>4. Survives(v)  BY <2>3 DEF Survives
  <2> QED  BY <1>4, <2>1, <2>4
<1>7. ASSUME NEW n \in Names, NEW k \in Leaves, RenameFile(n, k)  PROVE Survives(vault')
  <2> DEFINE m == <<n[1], k>>
  <2>1. n \in DOMAIN vault.files /\ m \notin DOMAIN files /\ (Succeeds(Renames(vault, n, m)) \/ Fails(Renames(vault, n, m)))
    BY <1>7 DEF RenameFile
  <2>2. m \in Names  BY NamesAre
  <2> HIDE DEF m
  <2> QED  BY <1>4, <1>5, <2>1, <2>2
<1>8. ASSUME NEW n \in Names, NEW d \in Folders \cup {Root}, MoveFile(n, d)  PROVE Survives(vault')
  <2> DEFINE m == <<d, n[2]>>
  <2>1. n \in DOMAIN vault.files /\ m \notin DOMAIN files /\ (Succeeds(Renames(vault, n, m)) \/ Fails(Renames(vault, n, m)))
    BY <1>8 DEF MoveFile
  <2>2. m \in Names  BY NamesAre
  <2> HIDE DEF m
  <2> QED  BY <1>4, <1>5, <2>1, <2>2
<1>9. ASSUME NEW d \in Folders, CreateFolder(d)  PROVE Survives(vault')
  <2> DEFINE v == CreatesFolder(vault, d)
  <2>1. Succeeds(v) \/ Fails(v)  BY <1>9 DEF CreateFolder
  <2>2. v.files = vault.files  BY <1>3, CreatesFolderIs
  <2> HIDE DEF v
  <2>3. Survives(v)  BY <2>2 DEF Survives
  <2> QED  BY <1>4, <2>1, <2>3
<1>10. ASSUME NEW d \in Folders, NEW e \in Folders, RenameFolder(d, e)  PROVE Survives(vault')
  <2> DEFINE v == RenamesFolder(vault, d, e)
  <2>1. MayRenameFolder(vault, d, e) /\ (Succeeds(v) \/ Fails(v))  BY <1>10 DEF RenameFolder
  <2>2. \A n \in DOMAIN vault.files : /\ Moved(n, d, e) \in DOMAIN v.files
                                      /\ v.files[Moved(n, d, e)] = vault.files[n]
    BY <1>3, <2>1, RenamesFolderIs
  <2> HIDE DEF v
  <2>3. Survives(v)  BY <2>2 DEF Survives
  <2> QED  BY <1>4, <2>1, <2>3
<1> QED  BY <1>6, <1>7, <1>8, <1>9, <1>10 DEF Rename

LEMMA WithSpares ==
  ASSUME Inductive, NEW n, NEW data
  PROVE  Spared(With(vault, n, data), {n})
<1> DEFINE f == [m \in DOMAIN vault.files \cup {n} |-> IF m = n THEN data ELSE vault.files[m]]
<1>1. \A k \in DOMAIN vault.files \ {n} : k \in DOMAIN f /\ f[k] = vault.files[k]  OBVIOUS
<1>2. With(vault, n, data) = [vault EXCEPT !.files = f]  BY Zenon DEF With
<1> HIDE DEF f
<1>3. Shape(vault)  BY VaultOKIs DEF Inductive, TypeOK
<1>4. With(vault, n, data).files = f  BY <1>2, <1>3 DEF Shape
<1> QED  BY <1>1, <1>4 DEF Spared

LEMMA ImportSpares ==
  ASSUME Inductive, Import \/ Erase
  PROVE  Spared(vault', {op.name})
<1>1. Spared(vault, {op.name})  BY DEF Spared
<1>2. \A v : (Succeeds(v) \/ Errs(v)) /\ Spared(v, {op.name}) => Spared(vault', {op.name})
  BY <1>1 DEF Succeeds, Errs
<1>3. CASE ImportOpens
  <2> DEFINE n == UniqueName(op.reserved)
  <2>1. \/ vault' = vault
        \/ n \notin DOMAIN vault.files /\ (Succeeds(Creates(vault, n)) \/ Errs(Creates(vault, n)))
    BY <1>3, Zenon DEF ImportOpens, engine
  <2> HIDE DEF n
  <2>2. n \notin DOMAIN vault.files => Spared(Creates(vault, n), {op.name})
    <3>1. Spared(Creates(vault, n), {n})  BY WithSpares DEF Creates
    <3> QED  BY <3>1 DEF Spared
  <2> QED  BY <1>1, <1>2, <2>1, <2>2
<1>4. CASE ImportCopies
  <2> DEFINE n == op.name
             w == Piece(inodes[op.inode].data, op.off)
  <2>1. vault' = vault \/ \E s : Succeeds(Writes(vault, n, op.off, s)) \/ Errs(Writes(vault, n, op.off, s))
    BY <1>4 DEF ImportCopies, engine
  <2>2. \A s : Spared(Writes(vault, n, op.off, s), {n})  BY WithSpares DEF Writes
  <2> QED  BY <1>1, <1>2, <2>1, <2>2
<1>5. CASE ImportCleans
  <2> DEFINE v == Deletes(vault, op.name)
  <2>1. Succeeds(v) \/ Errs(v)  BY <1>5 DEF ImportCleans
  <2>2. Shape(vault)  BY VaultOKIs DEF Inductive, TypeOK
  <2>3. Spared(v, {op.name})  BY <2>2, WithoutIs DEF Deletes, Spared
  <2> HIDE DEF v
  <2> QED  BY <1>2, <2>1, <2>3
<1>6. CASE vault' = vault  BY <1>1, <1>6
<1>7. Import => ImportOpens \/ ImportCopies \/ ImportCleans \/ vault' = vault
  <2>1. \A batch, erase : ImportBegins(batch, erase) => vault' = vault  BY DEF ImportBegins, engine
  <2>2. ImportMeasures \/ ImportVerifies \/ ImportEnds => vault' = vault
    BY DEF ImportMeasures, ImportVerifies, ImportEnds, engine
  <2> QED  BY <2>1, <2>2 DEF Import
<1>8. Erase => vault' = vault
  <2>1. EraseChecks => vault' = vault  BY DEF EraseChecks, engine
  <2>2. EraseOverwrites \/ EraseUnlinks => vault' = vault  BY DEF EraseOverwrites, EraseUnlinks, engine
  <2> QED  BY <2>1, <2>2 DEF Erase
<1> QED  BY <1>3, <1>4, <1>5, <1>6, <1>7, <1>8

\* No import, rename, move or new note takes the place of another file: the
\* engine's rename replaces, and it is the lists alone that say a name is free.
THEOREM NothingReplaced == Spec => NothingOverwritten
<1> DEFINE A == /\ Rename => \A n \in DOMAIN vault.files :
                     \E m \in DOMAIN vault'.files : vault'.files[m] = vault.files[n]
                /\ Import \/ Erase => \A n \in DOMAIN vault.files \ {op.name} :
                     n \in DOMAIN vault'.files /\ vault'.files[n] = vault.files[n]
<1>1. Inductive => A
  <2>1. Inductive /\ Rename => Survives(vault')  BY RenameSpares
  <2>2. Inductive /\ (Import \/ Erase) => Spared(vault', {op.name})  BY ImportSpares
  <2> QED  BY <2>1, <2>2 DEF Survives, Spared
<1>2. Inductive /\ [Next]_vars => [A]_vars  BY <1>1
<1> HIDE DEF A
<1>3. Spec => [][A]_vars  BY <1>2, LibraryInvariant, PTL DEF Spec
<1> QED  BY <1>3 DEF NothingOverwritten, A
=============================================================================
