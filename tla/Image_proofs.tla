----------------------------- MODULE Image_proofs -----------------------------
(***************************************************************************)
(* How a slice becomes memory, for every slice, address space and size.    *)
(* Placement: free_list against the bitmaps, the binary search against the *)
(* base, and from both what reserve returns.  Loader: what the two files   *)
(* hold at every moment, also when compress.py is killed, and from that    *)
(* what the loader has mapped.                                             *)
(***************************************************************************)
EXTENDS Placement, Loader, TLAPS, NaturalsInduction, WellFoundedInduction,
        FiniteSetTheorems

(***************************************************************************)
(* Numbers and sorting.                                                    *)
(***************************************************************************)
(* A nonempty set of naturals has a least element. *)
LEMMA NatLeast ==
  ASSUME NEW T \in SUBSET Nat, T # {}
  PROVE  \E x \in T : \A y \in T : x <= y
<1>1. PICK x \in T : \A y \in T : ~ (<<y, x>> \in OpToRel(<, Nat))
  BY NatLessThanWellFounded, WFMin
<1>2. ASSUME NEW y \in T, y < x  PROVE FALSE
  <2>1. <<y, x>> \in OpToRel(<, Nat)
    BY <1>2 DEF OpToRel
  <2> QED  BY <1>1, <2>1
<1> QED  BY <1>2

(* A bounded one has a greatest element. *)
LEMMA NatGreatest ==
  ASSUME NEW T \in SUBSET Nat, T # {}, NEW N \in Nat, \A x \in T : x <= N
  PROVE  \E x \in T : \A y \in T : y <= x
<1> DEFINE Far == {n \in Nat : \A x \in T : x <= n}
<1>1. N \in Far
  OBVIOUS
<1>2. PICK g \in Far : \A y \in Far : g <= y
  <2> HIDE DEF Far
  <2>1. Far \in SUBSET Nat
    BY DEF Far
  <2> QED  BY <1>1, <2>1, NatLeast
<1>3. CASE g \in T
  BY <1>3
<1>4. CASE g \notin T
  <2>1. PICK x \in T : TRUE
    OBVIOUS
  <2>2. g > 0 /\ g - 1 \in Nat
    BY <1>4, <2>1
  <2>3. g - 1 \in Far
    BY <1>4, <2>2
  <2> QED  BY <1>2, <2>2, <2>3
<1> QED  BY <1>3, <1>4

(* Induction, of a set: the induction below chooses the set of the numbers  *)
(* for which its claim holds.                                               *)
LEMMA SetInduction ==
  ASSUME NEW T, 0 \in T, \A n \in Nat : n \in T => n + 1 \in T
  PROVE  Nat \subseteq T
<1>1. SUFFICES ASSUME Nat \ T # {}  PROVE FALSE
  OBVIOUS
<1>2. PICK x \in Nat \ T : \A y \in Nat \ T : x <= y
  BY <1>1, NatLeast
<1>3. x # 0 /\ x - 1 \in Nat
  BY <1>2
<1>4. x - 1 \in T
  BY <1>2, <1>3
<1>5. (x - 1) + 1 = x
  BY <1>2
<1> QED  BY <1>2, <1>3, <1>4, <1>5

LEMMA MaxIs ==
  ASSUME NEW T \in SUBSET Nat, T # {}, NEW N \in Nat, \A x \in T : x <= N
  PROVE  Max(T) \in T /\ \A y \in T : y <= Max(T)
<1>1. \E x \in T : \A y \in T : x >= y
  <2>1. PICK x \in T : \A y \in T : y <= x
    BY NatGreatest
  <2> QED  BY <2>1
<1>2. Max(T) \in T /\ \A y \in T : Max(T) >= y
  BY <1>1 DEF Max
<1> QED  BY <1>2

LEMMA MinIs ==
  ASSUME NEW T \in SUBSET Nat, T # {}
  PROVE  Min(T) \in T /\ \A y \in T : Min(T) <= y
<1>1. \E x \in T : \A y \in T : x =< y
  BY NatLeast
<1> QED  BY <1>1 DEF Min

\* f lists the ranges of Q in the order of their addresses.
Lists(f, Q, n) ==
    /\ Range(f) = Q
    /\ \A i, j \in 1 .. n : i < j => f[i][1] < f[j][1]

(* Ranges that begin at different addresses can be listed. *)
LEMMA Sorting ==
  ASSUME NEW N \in Nat, NEW R \in SUBSET ((0 .. N) \X (0 .. N)),
         \A q, r \in R : q[1] = r[1] => q = r
  PROVE  /\ Cardinality(R) \in Nat
         /\ \E f \in [1 .. Cardinality(R) -> R] : Lists(f, R, Cardinality(R))
<1>1. IsFiniteSet(R)
  <2>1. IsFiniteSet(0 .. N)
    BY FS_Interval
  <2>2. IsFiniteSet((0 .. N) \X (0 .. N))
    BY <2>1, FS_Product
  <2> QED  BY <2>2, FS_Subset
<1> DEFINE Listed(Q, n) == \E f \in [1 .. n -> Q] : Lists(f, Q, n)
           Sorts == {n \in Nat : \A Q \in SUBSET R :
                        Cardinality(Q) = n => Listed(Q, n)}
<1>2. 0 \in Sorts
  <2>1. ASSUME NEW Q \in SUBSET R, Cardinality(Q) = 0  PROVE Listed(Q, 0)
    <3>1. Q = {}
      <4>1. IsFiniteSet(Q)
        BY <1>1, FS_Subset
      <4> QED  BY <2>1, <4>1, FS_EmptySet
    <3> DEFINE f == [i \in 1 .. 0 |-> 0]
    <3>2. f \in [1 .. 0 -> Q] /\ DOMAIN f = {}
      OBVIOUS
    <3>3. Range(f) = Q
      BY <3>1, <3>2 DEF Range
    <3>4. Lists(f, Q, 0)
      BY <3>3 DEF Lists
    <3> QED  BY <3>2, <3>4
  <2> QED  BY <2>1
<1>3. ASSUME NEW n \in Nat, n \in Sorts  PROVE n + 1 \in Sorts
  <2>1. ASSUME NEW Q \in SUBSET R, Cardinality(Q) = n + 1
        PROVE  Listed(Q, n + 1)
    <3>1. IsFiniteSet(Q)
      BY <1>1, FS_Subset
    <3>2. Q # {}
      BY <2>1, <3>1, FS_EmptySet
    <3>3. PICK r \in Q : \A q \in Q : q[1] <= r[1]
      <4> DEFINE T == {q[1] : q \in Q}
      <4>1. T \in SUBSET Nat /\ T # {} /\ \A x \in T : x <= N
        BY <3>2
      <4>2. \E x \in T : \A y \in T : y <= x
        <5> HIDE DEF T
        <5> QED  BY <4>1, NatGreatest
      <4> QED  BY <4>2
    <3>4. Cardinality(Q \ {r}) = n
      <4>1. Cardinality(Q \ {r}) = Cardinality(Q) - 1
        BY <3>1, FS_RemoveElement, Zenon
      <4> QED  BY <2>1, <4>1
    <3>5. PICK f \in [1 .. n -> Q \ {r}] : Lists(f, Q \ {r}, n)
      BY <1>3, <3>4
    <3> DEFINE g == [i \in 1 .. n + 1 |-> IF i <= n THEN f[i] ELSE r]
    <3>6. g \in [1 .. n + 1 -> Q]
      OBVIOUS
    <3>7. ASSUME NEW q \in Q  PROVE \E i \in 1 .. n + 1 : g[i] = q
      <4>1. CASE q = r
        <5>1. n + 1 \in 1 .. n + 1 /\ g[n + 1] = r
          OBVIOUS
        <5> QED  BY <4>1, <5>1
      <4>2. CASE q # r
        <5>1. PICK i \in 1 .. n : f[i] = q
          BY <3>5, <4>2 DEF Lists, Range
        <5>2. i \in 1 .. n + 1 /\ g[i] = q
          BY <5>1
        <5> QED  BY <5>2
      <4> QED  BY <4>1, <4>2
    <3>8. Range(g) = Q
      <4> HIDE DEF g
      <4> QED  BY <3>6, <3>7 DEF Range
    <3>9. ASSUME NEW i \in 1 .. n + 1, NEW j \in 1 .. n + 1, i < j
          PROVE  g[i][1] < g[j][1]
      <4>1. i \in 1 .. n /\ g[i] = f[i] /\ f[i] \in Q \ {r}
        BY <3>9
      <4>2. CASE j <= n
        <5>1. j \in 1 .. n /\ g[j] = f[j]
          BY <4>2
        <5> QED  BY <3>5, <3>9, <4>1, <5>1 DEF Lists
      <4>3. CASE j > n
        <5>1. g[j] = r
          BY <4>3
        <5>2. f[i][1] <= r[1] /\ f[i][1] # r[1]
          BY <3>3, <4>1
        <5>3. f[i][1] \in Nat /\ r[1] \in Nat
          BY <4>1
        <5> QED  BY <4>1, <5>1, <5>2, <5>3
      <4> QED  BY <4>2, <4>3
    <3>10. Lists(g, Q, n + 1)
      <4> HIDE DEF g
      <4> QED  BY <3>8, <3>9 DEF Lists
    <3> HIDE DEF g
    <3> QED  BY <3>6, <3>10
  <2> HIDE DEF Listed
  <2> QED  BY <2>1
<1>4. Nat \subseteq Sorts
  <2> HIDE DEF Sorts
  <2> QED  BY <1>2, <1>3, SetInduction
<1>5. Cardinality(R) \in Nat
  BY <1>1, FS_CardinalityType
<1> QED  BY <1>4, <1>5

(***************************************************************************)
(* free_list and the bitmaps.                                              *)
(***************************************************************************)
Even(a) == a % 2 = 0

\* Bytes of a slice: some, not before the first page, and not without end.
BytesOk(bytes) ==
    /\ bytes \in SUBSET Nat /\ bytes # {}
    /\ \A b \in bytes : First <= b
    /\ \E n \in Nat : \A b \in bytes : b <= n

\* Even ranges, apart from each other, in the order of their addresses.
ListOk(list) ==
    /\ list \in Seq(Nat \X Nat)
    /\ \A i \in 1 .. Len(list) :
          /\ Even(list[i][1]) /\ Even(list[i][2])
          /\ First <= list[i][1] /\ list[i][1] <= list[i][2]
    /\ \A i, j \in 1 .. Len(list) : i < j => list[i][2] < list[j][1]

\* No byte of a range is used, and a used byte follows it.
ListFree(list, bytes) ==
    \A i \in 1 .. Len(list) :
        /\ list[i][2] <= Max(bytes)
        /\ \A a \in Nat : list[i][1] <= a /\ a < list[i][2] => a \notin bytes

\* What no byte of a .. z - 1 is used.
Unused(a, z, bytes) == \A x \in Nat : a <= x /\ x < z => x \notin bytes

\* What is free in front of the last used byte lies in one of the ranges.
ListComplete(list, bytes) ==
    \A a, z \in Nat :
        /\ Even(a) /\ Even(z) /\ First <= a /\ a < z /\ z <= Max(bytes)
        /\ Unused(a, z, bytes)
        => \E i \in 1 .. Len(list) : list[i][1] <= a /\ z <= list[i][2]

FreeOk(list, bytes) ==
    ListOk(list) /\ ListFree(list, bytes) /\ ListComplete(list, bytes)

LEMMA FirstIs == First \in Nat
BY PlacementAssumption DEF First

LEMMA LastByte ==
  ASSUME NEW bytes, BytesOk(bytes)
  PROVE  /\ Max(bytes) \in bytes /\ Max(bytes) \in Nat
         /\ \A b \in bytes : b <= Max(bytes)
<1>1. PICK n \in Nat : \A b \in bytes : b <= n
  BY DEF BytesOk
<1>2. Max(bytes) \in bytes /\ \A b \in bytes : b <= Max(bytes)
  BY <1>1, MaxIs DEF BytesOk
<1> QED  BY <1>2 DEF BytesOk

(* Rounding. *)
LEMMA Rounded ==
  ASSUME NEW a \in Nat
  PROVE  /\ UpToEven(a) \in Nat /\ Even(UpToEven(a))
         /\ a <= UpToEven(a) /\ UpToEven(a) <= a + 1
         /\ \A x \in Nat : Even(x) /\ a <= x => UpToEven(a) <= x
         /\ DownToEven(a) \in Nat /\ Even(DownToEven(a))
         /\ DownToEven(a) <= a /\ a <= DownToEven(a) + 1
         /\ \A x \in Nat : Even(x) /\ x <= a => x <= DownToEven(a)
BY DEF UpToEven, DownToEven, Even

(* The limit of the beginnings of holes. *)
LEMMA LimitIs ==
  ASSUME NEW bytes, BytesOk(bytes)
  PROVE  /\ Max(bytes \cup {First}) \in Nat
         /\ Max(bytes) <= Max(bytes \cup {First})
<1>1. BytesOk(bytes \cup {First})
  <2>1. PICK n \in Nat : \A b \in bytes : b <= n
    BY DEF BytesOk
  <2>2. \A b \in bytes \cup {First} : b <= n + First
    BY <2>1, FirstIs DEF BytesOk
  <2>3. n + First \in Nat
    BY FirstIs
  <2> QED  BY <2>2, <2>3, FirstIs DEF BytesOk
<1> QED  BY <1>1, LastByte

(* What a hole is. *)
LEMMA HoleIs ==
  ASSUME NEW bytes, BytesOk(bytes), NEW h \in Holes(bytes)
  PROVE  /\ h[1] \in Nat /\ h[2] \in Nat /\ h[1] < h[2] /\ First <= h[1]
         /\ h[2] \in bytes /\ (h[1] = First \/ h[1] - 1 \in bytes)
         /\ \A a \in Nat : h[1] <= a /\ a < h[2] => a \notin bytes
<1>1. /\ h \in (First .. Max(bytes \cup {First})) \X bytes /\ h[1] < h[2]
      /\ h[1] = First \/ h[1] - 1 \in bytes
      /\ \A a \in h[1] .. h[2] - 1 : a \notin bytes
  BY DEF Holes
<1>2. h[1] \in First .. Max(bytes \cup {First}) /\ h[2] \in bytes
  BY <1>1
<1>3. h[1] \in Nat /\ First <= h[1] /\ h[2] \in Nat
  <2>1. h[2] \in Nat
    BY <1>2 DEF BytesOk
  <2>2. Max(bytes \cup {First}) \in Nat
    BY LimitIs
  <2> DEFINE m == Max(bytes \cup {First})
  <2>3. h[1] \in First .. m /\ m \in Nat
    BY <1>2, <2>2
  <2> HIDE DEF m
  <2> QED  BY <2>1, <2>3, FirstIs
<1>4. ASSUME NEW a \in Nat, h[1] <= a, a < h[2]  PROVE a \in h[1] .. h[2] - 1
  BY <1>3, <1>4
<1> QED  BY <1>1, <1>2, <1>3, <1>4

(* Two holes are one, or a used byte lies between them. *)
LEMMA HolesApart ==
  ASSUME NEW bytes, BytesOk(bytes),
         NEW g \in Holes(bytes), NEW h \in Holes(bytes)
  PROVE  (g[1] = h[1] /\ g[2] = h[2]) \/ g[2] < h[1] \/ h[2] < g[1]
<1>1. /\ g[1] \in Nat /\ g[2] \in Nat /\ g[1] < g[2] /\ First <= g[1]
      /\ g[2] \in bytes /\ (g[1] = First \/ g[1] - 1 \in bytes)
      /\ \A a \in Nat : g[1] <= a /\ a < g[2] => a \notin bytes
  BY HoleIs
<1>2. /\ h[1] \in Nat /\ h[2] \in Nat /\ h[1] < h[2] /\ First <= h[1]
      /\ h[2] \in bytes /\ (h[1] = First \/ h[1] - 1 \in bytes)
      /\ \A a \in Nat : h[1] <= a /\ a < h[2] => a \notin bytes
  BY HoleIs
<1>3. CASE g[1] = h[1]
  BY <1>1, <1>2, <1>3
<1>4. CASE g[1] < h[1]
  <2>1. h[1] - 1 \in bytes /\ h[1] - 1 \in Nat /\ g[1] <= h[1] - 1
    BY <1>1, <1>2, <1>4, FirstIs
  <2> QED  BY <1>1, <1>2, <2>1
<1>5. CASE h[1] < g[1]
  <2>1. g[1] - 1 \in bytes /\ g[1] - 1 \in Nat /\ h[1] <= g[1] - 1
    BY <1>1, <1>2, <1>5, FirstIs
  <2> QED  BY <1>1, <1>2, <2>1
<1> QED  BY <1>1, <1>2, <1>3, <1>4, <1>5

(* What a range is. *)
LEMMA RangeIs ==
  ASSUME NEW bytes, BytesOk(bytes), NEW r \in Ranges(bytes)
  PROVE  /\ r \in (0 .. Max(bytes)) \X (0 .. Max(bytes))
         /\ Even(r[1]) /\ Even(r[2]) /\ First <= r[1] /\ r[1] < r[2]
         /\ \E h \in Holes(bytes) : r = <<UpToEven(h[1]), DownToEven(h[2])>>
         /\ \A a \in Nat : r[1] <= a /\ a < r[2] => a \notin bytes
<1>1. PICK h \in Holes(bytes) :
         r = <<UpToEven(h[1]), DownToEven(h[2])>> /\ r[1] < r[2]
  BY DEF Ranges
<1>2. /\ h[1] \in Nat /\ h[2] \in Nat /\ h[1] < h[2] /\ First <= h[1]
      /\ h[2] \in bytes
      /\ \A a \in Nat : h[1] <= a /\ a < h[2] => a \notin bytes
  BY HoleIs
<1>3. /\ r[1] \in Nat /\ r[2] \in Nat /\ Even(r[1]) /\ Even(r[2])
      /\ h[1] <= r[1] /\ r[2] <= h[2]
  <2>1. r[1] = UpToEven(h[1]) /\ r[2] = DownToEven(h[2])
    BY <1>1
  <2>2. r[1] \in Nat /\ Even(r[1]) /\ h[1] <= r[1]
    BY <1>2, <2>1, Rounded
  <2>3. r[2] \in Nat /\ Even(r[2]) /\ r[2] <= h[2]
    BY <1>2, <2>1, Rounded
  <2> QED  BY <2>2, <2>3
<1>4. h[2] <= Max(bytes) /\ Max(bytes) \in Nat
  BY <1>2, LastByte
<1>5. r[1] \in 0 .. Max(bytes) /\ r[2] \in 0 .. Max(bytes)
  BY <1>1, <1>2, <1>3, <1>4
<1>6. r = <<r[1], r[2]>>
  BY <1>1
<1>7. First <= r[1] /\ \A a \in Nat : r[1] <= a /\ a < r[2] => a \notin bytes
  BY <1>2, <1>3, FirstIs
<1> QED  BY <1>1, <1>3, <1>5, <1>6, <1>7

LEMMA RangesApart ==
  ASSUME NEW bytes, BytesOk(bytes),
         NEW q \in Ranges(bytes), NEW r \in Ranges(bytes), q[1] <= r[1]
  PROVE  q = r \/ q[2] < r[1]
<1>1. PICK g \in Holes(bytes) : q = <<UpToEven(g[1]), DownToEven(g[2])>>
  BY RangeIs
<1>2. PICK h \in Holes(bytes) : r = <<UpToEven(h[1]), DownToEven(h[2])>>
  BY RangeIs
<1>3. (g[1] = h[1] /\ g[2] = h[2]) \/ g[2] < h[1] \/ h[2] < g[1]
  BY HolesApart
<1>4. /\ g[1] \in Nat /\ g[2] \in Nat /\ h[1] \in Nat /\ h[2] \in Nat
      /\ g[1] < g[2] /\ h[1] < h[2]
  BY HoleIs
<1>5. q[1] = UpToEven(g[1]) /\ r[1] = UpToEven(h[1])
      /\ q[2] = DownToEven(g[2]) /\ r[2] = DownToEven(h[2])
  BY <1>1, <1>2
<1>6. q[1] \in Nat /\ g[1] <= q[1] /\ r[1] \in Nat /\ h[1] <= r[1]
  <2>1. UpToEven(g[1]) \in Nat /\ g[1] <= UpToEven(g[1])
    BY <1>4, Rounded, Zenon
  <2>2. UpToEven(h[1]) \in Nat /\ h[1] <= UpToEven(h[1])
    BY <1>4, Rounded, Zenon
  <2> QED  BY <1>5, <2>1, <2>2, Zenon
<1>7. q[2] \in Nat /\ q[2] <= g[2] /\ r[2] \in Nat /\ r[2] <= h[2]
  <2>1. DownToEven(g[2]) \in Nat /\ DownToEven(g[2]) <= g[2]
    BY <1>4, Rounded, Zenon
  <2>2. DownToEven(h[2]) \in Nat /\ DownToEven(h[2]) <= h[2]
    BY <1>4, Rounded, Zenon
  <2> QED  BY <1>5, <2>1, <2>2, Zenon
<1>8. CASE g[1] = h[1] /\ g[2] = h[2]
  BY <1>1, <1>2, <1>8
<1>9. CASE g[2] < h[1]
  BY <1>4, <1>6, <1>7, <1>9
<1>10. CASE h[2] < g[1]
  <2>1. r[1] < r[2]
    BY RangeIs
  <2> QED  BY <1>4, <1>6, <1>7, <1>10, <2>1
<1> QED  BY <1>3, <1>8, <1>9, <1>10

(* A free piece in front of the last used byte lies in a hole. *)
LEMMA HoleAround ==
  ASSUME NEW bytes, BytesOk(bytes), NEW a \in Nat, NEW z \in Nat,
         First <= a, a < z, z <= Max(bytes), Unused(a, z, bytes)
  PROVE  \E h \in Holes(bytes) : h[1] <= a /\ z <= h[2]
<1>1. Max(bytes) \in bytes /\ Max(bytes) \in Nat /\ bytes \in SUBSET Nat
      /\ \A b \in bytes : First <= b
  BY LastByte DEF BytesOk
<1>2. PICK x \in bytes : z <= x /\ \A y \in bytes : z <= y => x <= y
  <2> DEFINE T == {y \in bytes : z <= y}
  <2>1. T \in SUBSET Nat /\ T # {}
    BY <1>1
  <2>2. \E x \in T : \A y \in T : x <= y
    <3> HIDE DEF T
    <3> QED  BY <2>1, NatLeast
  <2> QED  BY <2>2
<1>3. PICK b \in Nat : /\ First <= b /\ b <= a /\ (b = First \/ b - 1 \in bytes)
                       /\ \A y \in bytes : y < a => y < b
  <2> DEFINE T == {y \in bytes : y < a}
  <2>1. CASE T = {}
    <3>1. /\ First \in Nat /\ First <= First /\ First <= a
          /\ \A y \in bytes : y < a => y < First
      BY <2>1, FirstIs
    <3> QED  BY <3>1
  <2>2. CASE T # {}
    <3>1. T \in SUBSET Nat /\ \A y \in T : y <= a
      <4>1. ASSUME NEW y \in T  PROVE y \in Nat /\ y <= a
        <5>1. y \in Nat /\ y < a
          BY <1>1
        <5> QED  BY <5>1
      <4> QED  BY <4>1
    <3>2. \E g \in T : \A y \in T : y <= g
      <4> HIDE DEF T
      <4> QED  BY <2>2, <3>1, NatGreatest
    <3>3. PICK g \in bytes : g < a /\ \A y \in bytes : y < a => y <= g
      BY <3>2
    <3>4. g \in Nat /\ First <= g
      BY <1>1
    <3>5. /\ g + 1 \in Nat /\ First <= g + 1 /\ g + 1 <= a
          /\ (g + 1) - 1 \in bytes /\ \A y \in bytes : y < a => y < g + 1
      BY <1>1, <3>3, <3>4, FirstIs
    <3> QED  BY <3>5
  <2> QED  BY <2>1, <2>2
<1>4. x \in Nat /\ x <= Max(bytes)
  BY <1>1, LastByte
<1>5. ASSUME NEW y \in b .. x - 1  PROVE y \notin bytes
  <2>1. y \in Nat /\ b <= y /\ y < x
    BY <1>3, <1>4
  <2>2. CASE y < a
    BY <1>3, <2>1, <2>2
  <2>3. CASE a <= y /\ y < z
    BY <2>1, <2>3 DEF Unused
  <2>4. CASE z <= y
    BY <1>2, <1>4, <2>1, <2>4
  <2> QED  BY <2>1, <2>2, <2>3, <2>4
<1>6. b \in First .. Max(bytes \cup {First})
  BY <1>1, <1>3, LimitIs, FirstIs
<1>7. b < x
  BY <1>2, <1>3, <1>4
<1>8. <<b, x>> \in Holes(bytes)
  <2>1. <<b, x>>[1] = b /\ <<b, x>>[2] = x
    OBVIOUS
  <2>2. <<b, x>> \in (First .. Max(bytes \cup {First})) \X bytes
    BY <1>6
  <2> QED  BY <1>3, <1>5, <1>7, <2>1, <2>2 DEF Holes
<1> QED  BY <1>2, <1>3, <1>8

(* make_free_list makes a list of everything that is free. *)
LEMMA FreeListIs ==
  ASSUME NEW bytes, BytesOk(bytes)
  PROVE  FreeOk(make_free_list(bytes), bytes)
<1> DEFINE R == Ranges(bytes)
           n == Cardinality(R)
           m == Max(bytes)
           list == make_free_list(bytes)
<1>1. m \in Nat
  BY LastByte
<1>2. ASSUME NEW r \in R
      PROVE  /\ r \in (0 .. m) \X (0 .. m) /\ r[1] \in 0 .. m /\ r[2] \in 0 .. m
             /\ Even(r[1]) /\ Even(r[2]) /\ First <= r[1] /\ r[1] < r[2]
             /\ \A a \in Nat : r[1] <= a /\ a < r[2] => a \notin bytes
  <2>1. r \in (0 .. m) \X (0 .. m)
    BY RangeIs
  <2> QED  BY <2>1, RangeIs
<1>3. ASSUME NEW q \in R, NEW r \in R, q[1] <= r[1]
      PROVE  q = r \/ q[2] < r[1]
  BY <1>3, RangesApart
<1> HIDE DEF R, m
<1>4. ASSUME NEW q \in R, NEW r \in R, q[1] = r[1]  PROVE q = r
  <2>1. q[1] <= r[1] /\ q[1] < q[2] /\ q[1] \in Nat /\ q[2] \in Nat
    BY <1>1, <1>2, <1>4
  <2>2. q = r \/ q[2] < r[1]
    BY <1>3, <2>1
  <2> QED  BY <1>4, <2>1, <2>2
<1>5. R \in SUBSET ((0 .. m) \X (0 .. m))
  BY <1>2
<1>6. n \in Nat /\ \E f \in [1 .. n -> R] : Lists(f, R, n)
  BY <1>1, <1>4, <1>5, Sorting
<1>7. list \in [1 .. n -> R] /\ Lists(list, R, n)
  <2>1. list = CHOOSE f \in [1 .. n -> R] : Lists(f, R, n)
    BY DEF make_free_list, Lists, R
  <2> HIDE DEF list, n
  <2> QED  BY <1>6, <2>1
<1> HIDE DEF list, n
<1>8. list \in Seq(Nat \X Nat) /\ Len(list) = n
  <2>1. R \subseteq Nat \X Nat
    BY <1>1, <1>5
  <2>2. list \in [1 .. n -> Nat \X Nat]
    BY <1>7, <2>1
  <2> QED  BY <1>6, <2>2
<1>9. ASSUME NEW i \in 1 .. n
      PROVE  /\ list[i] \in R /\ list[i][1] \in Nat /\ list[i][2] \in Nat
             /\ Even(list[i][1]) /\ Even(list[i][2])
             /\ First <= list[i][1] /\ list[i][1] < list[i][2]
             /\ list[i][2] <= m
             /\ \A a \in Nat : list[i][1] <= a /\ a < list[i][2]
                                  => a \notin bytes
  <2>1. list[i] \in R
    BY <1>7
  <2> QED  BY <1>1, <1>2, <2>1
<1>10. ListOk(list)
  <2>1. ASSUME NEW i \in 1 .. n, NEW j \in 1 .. n, i < j
        PROVE  list[i][2] < list[j][1]
    <3>1. list[i][1] < list[j][1]
      BY <1>7, <2>1 DEF Lists
    <3>2. list[i] # list[j] /\ list[i][1] <= list[j][1]
      BY <1>9, <3>1
    <3>3. list[i] \in R /\ list[j] \in R
      BY <1>9
    <3>4. list[i] = list[j] \/ list[i][2] < list[j][1]
      BY <1>3, <3>2, <3>3
    <3> QED  BY <3>2, <3>4
  <2>2. ASSUME NEW i \in 1 .. n
        PROVE  /\ Even(list[i][1]) /\ Even(list[i][2])
               /\ First <= list[i][1] /\ list[i][1] <= list[i][2]
    <3>1. /\ Even(list[i][1]) /\ Even(list[i][2]) /\ First <= list[i][1]
          /\ list[i][1] < list[i][2] /\ list[i][1] \in Nat /\ list[i][2] \in Nat
      BY <1>9
    <3> QED  BY <3>1
  <2> QED  BY <1>8, <2>1, <2>2 DEF ListOk
<1>11. ListFree(list, bytes)
  BY <1>8, <1>9 DEF ListFree, m
<1>12. ListComplete(list, bytes)
  <2> SUFFICES ASSUME NEW a \in Nat, NEW z \in Nat, Even(a), Even(z),
                      First <= a, a < z, z <= Max(bytes), Unused(a, z, bytes)
               PROVE  \E i \in 1 .. n : list[i][1] <= a /\ z <= list[i][2]
    BY <1>8 DEF ListComplete
  <2>1. PICK h \in Holes(bytes) : h[1] <= a /\ z <= h[2]
    BY HoleAround
  <2>2. h[1] \in Nat /\ h[2] \in Nat
    BY HoleIs
  <2> DEFINE r == <<UpToEven(h[1]), DownToEven(h[2])>>
  <2>3. r[1] <= a /\ r[1] \in Nat
    BY <2>1, <2>2, Rounded
  <2>4. z <= r[2] /\ r[2] \in Nat
    BY <2>1, <2>2, Rounded
  <2>5. r \in R
    BY <2>3, <2>4 DEF R, Ranges
  <2> HIDE DEF r
  <2>6. PICK i \in 1 .. n : list[i] = r
    BY <1>7, <2>5 DEF Lists, Range
  <2> QED  BY <2>3, <2>4, <2>6
<1> QED  BY <1>10, <1>11, <1>12 DEF FreeOk, list

(***************************************************************************)
(* The inductive invariant.                                                *)
(***************************************************************************)
Requested == [base : Nat, size : {NearSize, FarSize}]

Placings == [base : Nat, addr : Nat, size : {NearSize, FarSize}]

Types ==
    /\ BytesOk(logged) /\ BytesOk(used) /\ logged \subseteq used
    /\ sites \in Seq(Nat) /\ entry \in logged
    /\ \A i \in 1 .. Len(sites) : sites[i] \in logged
    /\ pc \in {"mark", "bounds", "search", "failed", "done"}
    /\ todo \in Seq(Requested) /\ s \in Nat /\ e \in Nat
    /\ placed \in Seq(Placings)

\* What is placed is reached from a used byte, which is in no range.
BasesUsed == \A i \in 1 .. Len(todo) : todo[i].base \in logged

\* The bitmaps have the calls and what was placed.
Marked ==
    /\ pc # "mark" =>
          \A x \in Nat, j \in 1 .. Len(sites) :
              sites[j] <= x /\ x < sites[j] + 4 => x \in used
    /\ pc = "mark" => placed = <<>>
    /\ \A x \in Nat, i \in 1 .. Len(placed) :
          placed[i].addr <= x /\ x < placed[i].addr + placed[i].size
              => x \in used

\* free_list says what is free.
ListIsFree == pc # "mark" => FreeOk(free, used)

\* The ranges up to s end at the base or before, those from e on begin behind.
Searched(list, at) ==
    /\ s < e /\ e <= Len(list) + 1
    /\ s > 0 => list[s][2] <= at
    /\ e <= Len(list) => at < list[e][1]

SearchOk == pc = "search" => todo # <<>> /\ Searched(free, Base)

Inv ==
    /\ Types /\ BasesUsed /\ Marked /\ ListIsFree /\ SearchOk
    /\ CodeInHoles /\ StackOnOwnPages /\ FailsOnlyWithoutRoom

(* A block of code. *)
LEMMA BytesAre ==
  ASSUME NEW a \in Nat, NEW n \in Nat
  PROVE  /\ Bytes(a, n) \subseteq Nat
         /\ \A x : x \in Bytes(a, n) <=> x \in Nat /\ a <= x /\ x < a + n
BY DEF Bytes

LEMMA Sizes ==
  ASSUME NEW w \in {NearSize, FarSize}
  PROVE  w \in Nat /\ w > 0 /\ Even(w)
BY PlacementAssumption DEF Even

LEMMA InitInv == Init => Inv
<1> SUFFICES ASSUME Init  PROVE Inv
  OBVIOUS
<1>1. PICK shape \in Shapes :
         /\ \E runs \in SUBSET {a \in Addresses(shape.lastPn) :
                                   a % shape.grain = 0} :
               logged = UNION {Bytes(a, shape.grain) : a \in runs}
         /\ sites \in [1 .. shape.sites -> Code(shape.lastPn)]
         /\ entry \in Code(shape.lastPn)
  BY DEF Init
<1>2. PICK runs \in SUBSET Addresses(shape.lastPn) :
         logged = UNION {Bytes(a, shape.grain) : a \in runs}
  BY <1>1
<1>3. shape.lastPn \in Nat /\ shape.sites \in Nat /\ shape.grain \in Nat
  BY PlacementAssumption
<1> DEFINE n == (shape.lastPn + 1) * PageSize - 1
           g == shape.grain
<1>4. n \in Int /\ Addresses(shape.lastPn) = First .. n
  BY <1>3, PlacementAssumption DEF Addresses
<1> HIDE DEF n
<1>5. Code(shape.lastPn) \subseteq Nat
  BY <1>4, FirstIs DEF Code
<1>6. /\ sites \in Seq(Nat) /\ entry \in Nat
      /\ \A i \in 1 .. Len(sites) : sites[i] \in Nat
  BY <1>1, <1>3, <1>5
<1>7. ASSUME NEW b \in logged  PROVE b \in Nat /\ First <= b /\ b <= n + g
  <2>1. PICK a \in runs : b \in Bytes(a, g)
    BY <1>2
  <2>2. a \in Nat /\ First <= a /\ a <= n
    BY <1>4, FirstIs
  <2>3. b \in Nat /\ a <= b /\ b < a + g
    BY <1>3, <2>1, <2>2, BytesAre
  <2> QED  BY <1>3, <1>4, <2>2, <2>3, FirstIs
<1>8. ASSUME NEW a \in Nat, Bytes(a, 2) \subseteq logged  PROVE a \in logged
  BY <1>8 DEF Bytes
<1>9. entry \in logged /\ \A i \in 1 .. Len(sites) : sites[i] \in logged
  BY <1>6, <1>8 DEF Init
<1>10. BytesOk(logged)
  <2>1. n + g \in Nat
    <3>1. entry \in Nat /\ entry <= n + g
      BY <1>7, <1>9
    <3> QED  BY <1>3, <1>4, <3>1
  <2> QED  BY <1>7, <1>9, <2>1 DEF BytesOk
<1>11. Types
  BY <1>6, <1>9, <1>10 DEF Init, Types
<1>12. BasesUsed /\ Marked /\ ListIsFree /\ SearchOk
  BY DEF Init, BasesUsed, Marked, ListIsFree, SearchOk
<1>13. CodeInHoles /\ StackOnOwnPages /\ FailsOnlyWithoutRoom
  BY DEF Init, CodeInHoles, StackOnOwnPages, FailsOnlyWithoutRoom
<1> QED  BY <1>11, <1>12, <1>13 DEF Inv

(***************************************************************************)
(* The steps.                                                              *)
(***************************************************************************)
LEMMA MarkInv == Inv /\ Mark => Inv'
<1> SUFFICES ASSUME Inv, Mark  PROVE Inv'
  OBVIOUS
<1>1. /\ pc = "mark" /\ used' = MarkSites /\ free' = make_free_list(used')
      /\ todo' = Requests /\ pc' = "bounds"
      /\ UNCHANGED <<logged, sites, entry, s, e, placed, stack>>
  BY DEF Mark
<1>2. Types
  BY DEF Inv
<1>3. ASSUME NEW i \in 1 .. Len(sites)  PROVE sites[i] \in Nat /\ sites[i] \in used
  BY <1>2 DEF Types
<1>4. ASSUME NEW x
      PROVE  x \in used' <=> \/ x \in used
                             \/ /\ x \in Nat
                                /\ \E i \in 1 .. Len(sites) :
                                      sites[i] <= x /\ x < sites[i] + 4
  <2>1. ASSUME NEW i \in 1 .. Len(sites)
        PROVE  x \in Bytes(sites[i], 4) <=>
                   x \in Nat /\ sites[i] <= x /\ x < sites[i] + 4
    BY <1>3, BytesAre
  <2>2. x \in used' <=> x \in used \/ \E i \in 1 .. Len(sites) :
                                         x \in Bytes(sites[i], 4)
    BY <1>1 DEF MarkSites
  <2> QED  BY <2>1, <2>2
<1>5. BytesOk(used')
  <2>1. BytesOk(used)
    BY <1>2 DEF Types
  <2>2. PICK n \in Nat : \A b \in used : b <= n
    BY <2>1 DEF BytesOk
  <2>3. ASSUME NEW x \in used'  PROVE x \in Nat /\ First <= x /\ x <= n + 4
    <3>1. CASE x \in used
      BY <2>1, <2>2, <3>1, FirstIs DEF BytesOk
    <3>2. CASE x \notin used
      <4>1. PICK i \in 1 .. Len(sites) : sites[i] <= x /\ x < sites[i] + 4
        BY <1>4, <3>2
      <4>2. x \in Nat /\ sites[i] \in Nat /\ sites[i] <= n /\ First <= sites[i]
        BY <1>3, <1>4, <2>1, <2>2, <3>2 DEF BytesOk
      <4> QED  BY <4>1, <4>2, FirstIs
    <3> QED  BY <3>1, <3>2
  <2>4. used' # {} /\ used' \in SUBSET Nat
    BY <1>4, <2>1, <2>3 DEF BytesOk
  <2>5. n + 4 \in Nat
    OBVIOUS
  <2> QED  BY <2>3, <2>4, <2>5 DEF BytesOk
<1>6. logged' \subseteq used' /\ BytesOk(logged')
  BY <1>1, <1>2, <1>4 DEF Types
<1>7. todo' \in Seq(Requested) /\ \A i \in 1 .. Len(todo') : todo'[i].base \in logged
  <2>1. Len(sites) \in Nat /\ entry \in Nat
    BY <1>2 DEF Types, BytesOk
  <2>2. ASSUME NEW i \in 1 .. Len(sites) + 2
        PROVE  Requests[i] \in Requested /\ Requests[i].base \in logged
    <3>1. CASE i <= Len(sites)
      <4>1. i \in 1 .. Len(sites)
        BY <2>1, <3>1
      <4>2. Requests[i] = [base |-> sites[i], size |-> NearSize]
        BY <3>1 DEF Requests
      <4>3. sites[i] \in Nat /\ sites[i] \in logged
        BY <1>2, <1>3, <4>1 DEF Types
      <4> QED  BY <4>2, <4>3 DEF Requested
    <3>2. CASE ~(i <= Len(sites))
      <4>1. PICK w \in {NearSize, FarSize} : Requests[i] = [base |-> entry, size |-> w]
        BY <3>2 DEF Requests
      <4>2. entry \in logged
        BY <1>2 DEF Types
      <4> QED  BY <2>1, <4>1, <4>2 DEF Requested
    <3> QED  BY <3>1, <3>2
  <2>3. Requests = [i \in 1 .. Len(sites) + 2 |-> Requests[i]]
    BY DEF Requests
  <2>4. Len(sites) + 2 \in Nat
    BY <2>1
  <2>5. Requests \in [1 .. Len(sites) + 2 -> Requested]
    BY <2>2, <2>3
  <2>6. Requests \in Seq(Requested) /\ Len(Requests) = Len(sites) + 2
    BY <2>4, <2>5
  <2> QED  BY <1>1, <2>2, <2>6
<1>8. Types' /\ BasesUsed'
  BY <1>1, <1>2, <1>5, <1>6, <1>7 DEF Types, BasesUsed
<1>9. Marked'
  <2>1. placed = <<>>
    BY <1>1 DEF Inv, Marked
  <2>2. \A x \in Nat, j \in 1 .. Len(sites) :
              sites[j] <= x /\ x < sites[j] + 4 => x \in used'
    BY <1>4
  <2> QED  BY <1>1, <2>1, <2>2 DEF Marked
<1>10. ListIsFree'
  BY <1>1, <1>5, FreeListIs DEF ListIsFree
<1>11. placed' = <<>>
  BY <1>1 DEF Inv, Marked
<1>12. (SearchOk /\ CodeInHoles /\ StackOnOwnPages /\ FailsOnlyWithoutRoom)'
  BY <1>1, <1>11 DEF SearchOk, CodeInHoles, StackOnOwnPages,
                     FailsOnlyWithoutRoom
<1> QED  BY <1>8, <1>9, <1>10, <1>12 DEF Inv

(* Page numbers. *)
LEMMA PageIs ==
  ASSUME NEW b \in Nat
  PROVE  b \div PageSize \in Nat /\ b \div PageSize <= b
<1>1. PageSize \in Nat /\ PageSize > 0
  BY PlacementAssumption
<1> DEFINE q == b \div PageSize
<1>2. q \in Int /\ PageSize * q <= b /\ b < PageSize * q + PageSize
  BY <1>1
<1> HIDE DEF q
<1>3. q >= 0
  BY <1>1, <1>2
<1>4. q <= PageSize * q
  BY <1>1, <1>2, <1>3
<1>5. PageSize * q \in Int
  BY <1>1, <1>2
<1>6. q <= b
  BY <1>2, <1>4, <1>5
<1> QED  BY <1>2, <1>3, <1>6 DEF q

LEMMA PagesAre ==
  ASSUME NEW bytes, BytesOk(bytes)
  PROVE  /\ Pages(bytes) \in SUBSET Nat /\ Pages(bytes) # {}
         /\ \E n \in Nat : \A p \in Pages(bytes) : p <= n
<1>1. PICK n \in Nat : \A b \in bytes : b <= n
  BY DEF BytesOk
<1>2. bytes \in SUBSET Nat /\ bytes # {}
  BY DEF BytesOk
<1>3. ASSUME NEW p \in Pages(bytes)  PROVE p \in Nat /\ p <= n
  <2>1. PICK b \in bytes : p = b \div PageSize
    BY DEF Pages
  <2>2. b \in Nat /\ b <= n
    BY <1>1, <1>2
  <2>3. p \in Nat /\ p <= b
    BY <2>1, <2>2, PageIs
  <2> QED  BY <2>2, <2>3
<1>4. Pages(bytes) # {}
  BY <1>2 DEF Pages
<1> QED  BY <1>3, <1>4

(* Every candidate lies in a range. *)
LEMMA CandidateIn ==
  ASSUME NEW list, NEW bytes, BytesOk(bytes), FreeOk(list, bytes),
         NEW w \in {NearSize, FarSize}, NEW a \in Candidates(bytes, w)
  PROVE  /\ a \in Nat
         /\ \E i \in 1 .. Len(list) : list[i][1] <= a /\ a + w <= list[i][2]
<1> DEFINE m == Max(Pages(bytes))
           limit == (m + 1) * PageSize - 1
<1>1. m \in Nat
  <2>1. PICK n \in Nat : \A p \in Pages(bytes) : p <= n
    BY PagesAre
  <2>2. m \in Pages(bytes)
    BY <2>1, PagesAre, MaxIs
  <2> QED  BY <2>2, PagesAre
<1>2. a \in First .. limit /\ Even(a)
  BY DEF Candidates, Code, Addresses, Even
<1>3. a + w <= Max(bytes) /\ Bytes(a, w) \cap bytes = {}
  BY DEF Candidates
<1>4. limit \in Int
  BY <1>1, PlacementAssumption
<1> HIDE DEF m, limit
<1>5. a \in Nat /\ First <= a
  BY <1>2, <1>4, FirstIs
<1>6. w \in Nat /\ w > 0 /\ Even(w)
  BY Sizes
<1>7. a + w \in Nat /\ Even(a + w) /\ a < a + w
  BY <1>2, <1>5, <1>6 DEF Even
<1>8. Unused(a, a + w, bytes)
  <2>1. ASSUME NEW x \in Nat, a <= x, x < a + w  PROVE x \notin bytes
    <3>1. x \in Bytes(a, w)
      BY <1>5, <1>6, <2>1, BytesAre
    <3> QED  BY <1>3, <3>1
  <2> QED  BY <2>1 DEF Unused
<1> DEFINE z == a + w
<1>9. /\ z \in Nat /\ Even(z) /\ a < z /\ z <= Max(bytes)
      /\ Unused(a, z, bytes)
  BY <1>3, <1>7, <1>8
<1> HIDE DEF z
<1>10. \E i \in 1 .. Len(list) : list[i][1] <= a /\ z <= list[i][2]
  BY <1>2, <1>5, <1>9 DEF FreeOk, ListComplete
<1> QED  BY <1>5, <1>10 DEF z

(* No range has a used byte in it. *)
LEMMA BaseOutside ==
  ASSUME NEW list, NEW bytes, FreeOk(list, bytes), NEW at \in Nat,
         at \in bytes, NEW i \in 1 .. Len(list)
  PROVE  /\ list[i][1] \in Nat /\ list[i][2] \in Nat
         /\ list[i][1] <= list[i][2]
         /\ at < list[i][1] \/ list[i][2] <= at
<1>1. list \in Seq(Nat \X Nat)
  BY DEF FreeOk, ListOk
<1>2. list[i] \in Nat \X Nat
  BY <1>1
<1>3. list[i][1] \in Nat /\ list[i][2] \in Nat
  BY <1>2
<1>4. list[i][1] <= list[i][2]
  BY DEF FreeOk, ListOk
<1>5. ~(list[i][1] <= at /\ at < list[i][2])
  BY DEF FreeOk, ListFree
<1> QED  BY <1>3, <1>4, <1>5

(* The call that is served. *)
LEMMA RequestIs ==
  ASSUME Inv, todo # <<>>
  PROVE  /\ Base \in Nat /\ Base \in used /\ Wanted \in {NearSize, FarSize}
         /\ Tail(todo) \in Seq(Requested)
         /\ \A i \in 1 .. Len(Tail(todo)) : Tail(todo)[i].base \in logged
<1>1. todo \in Seq(Requested) /\ logged \subseteq used
      /\ \A i \in 1 .. Len(todo) : todo[i].base \in logged
  BY DEF Inv, Types, BasesUsed
<1>2. Head(todo) = todo[1] /\ 1 \in 1 .. Len(todo) /\ todo[1] \in Requested
  BY <1>1
<1>3. /\ Tail(todo) \in Seq(Requested) /\ Len(Tail(todo)) = Len(todo) - 1
      /\ \A i \in 1 .. Len(Tail(todo)) : Tail(todo)[i] = todo[i + 1]
  BY <1>1
<1>4. \A i \in 1 .. Len(Tail(todo)) : i + 1 \in 1 .. Len(todo)
  BY <1>1, <1>3
<1>5. Base = todo[1].base /\ Wanted = todo[1].size
  BY <1>2 DEF Base, Wanted
<1>6. Base \in Nat /\ Wanted \in {NearSize, FarSize}
  BY <1>2, <1>5 DEF Requested
<1>7. Base \in used
  BY <1>1, <1>2, <1>5
<1> QED  BY <1>1, <1>3, <1>4, <1>6, <1>7

LEMMA SkipInv == Inv /\ Skip => Inv'
<1> SUFFICES ASSUME Inv, Skip  PROVE Inv'
  OBVIOUS
<1>1. /\ pc = "bounds" /\ todo # <<>> /\ todo' = Tail(todo)
      /\ UNCHANGED <<logged, used, sites, entry, pc, free, s, e, placed, stack>>
  BY DEF Skip
<1>2. Types' /\ BasesUsed'
  BY <1>1, RequestIs DEF Inv, Types, BasesUsed
<1>3. (Marked /\ ListIsFree /\ CodeInHoles)'
  BY <1>1 DEF Inv, Marked, ListIsFree, CodeInHoles
<1>4. (SearchOk /\ StackOnOwnPages /\ FailsOnlyWithoutRoom)'
  BY <1>1 DEF SearchOk, StackOnOwnPages, FailsOnlyWithoutRoom
<1> QED  BY <1>2, <1>3, <1>4 DEF Inv

(* reserve gives up where no range is wide enough. *)
LEMMA GivesUp ==
  ASSUME Inv, todo # <<>>, pc # "mark",
         \A i \in 1 .. Len(free) : ~(free[i][1] + Wanted <= free[i][2]),
         pc' = "failed",
         UNCHANGED <<logged, used, sites, entry, todo, free, s, e, placed,
                     stack>>
  PROVE  Inv'
<1>1. Types' /\ BasesUsed'
  BY DEF Inv, Types, BasesUsed
<1>2. (Marked /\ ListIsFree /\ CodeInHoles)'
  BY DEF Inv, Marked, ListIsFree, CodeInHoles
<1>3. (SearchOk /\ StackOnOwnPages)'
  BY DEF SearchOk, StackOnOwnPages
<1>4. BytesOk(used) /\ FreeOk(free, used)
  BY DEF Inv, Types, ListIsFree
<1>5. Wanted \in {NearSize, FarSize}
  BY RequestIs
<1>6. ASSUME NEW a \in Candidates(used, Wanted)  PROVE FALSE
  <2>1. a \in Nat
    BY <1>4, <1>5, CandidateIn
  <2>2. PICK i \in 1 .. Len(free) : free[i][1] <= a /\ a + Wanted <= free[i][2]
    BY <1>4, <1>5, CandidateIn
  <2>3. free[i][1] \in Nat /\ free[i][2] \in Nat
    <3>1. free \in Seq(Nat \X Nat)
      BY <1>4 DEF FreeOk, ListOk
    <3>2. free[i] \in Nat \X Nat
      BY <3>1
    <3> QED  BY <3>2
  <2>4. Wanted \in Nat
    BY <1>5, Sizes
  <2>5. free[i][1] + Wanted <= free[i][2]
    BY <2>1, <2>2, <2>3, <2>4
  <2> QED  BY <2>5
<1>7. Candidates(used, Wanted) = {}
  BY <1>6
<1>8. Candidates(used, Wanted)' = Candidates(used, Wanted)
  BY DEF Candidates, Wanted
<1>9. FailsOnlyWithoutRoom'
  BY <1>7, <1>8 DEF FailsOnlyWithoutRoom
<1> QED  BY <1>1, <1>2, <1>3, <1>9 DEF Inv

LEMMA NoListInv == Inv /\ NoList => Inv'
<1> SUFFICES ASSUME Inv, NoList  PROVE Inv'
  OBVIOUS
<1>1. Len(free) = 0
  BY DEF NoList
<1>2. \A i \in 1 .. Len(free) : ~(free[i][1] + Wanted <= free[i][2])
  BY <1>1
<1> QED  BY <1>2, GivesUp DEF NoList

(* The search goes on. *)
LEMMA SearchInv ==
  ASSUME Inv, pc \in {"bounds", "search"}, todo # <<>>, pc' = "search",
         s' \in Nat, e' \in Nat, Searched(free, Base)',
         UNCHANGED <<logged, used, sites, entry, todo, free, placed, stack>>
  PROVE  Inv'
<1>1. Types' /\ BasesUsed'
  BY DEF Inv, Types, BasesUsed
<1>2. (Marked /\ ListIsFree /\ CodeInHoles)'
  BY DEF Inv, Marked, ListIsFree, CodeInHoles
<1>3. (SearchOk /\ StackOnOwnPages /\ FailsOnlyWithoutRoom)'
  BY DEF SearchOk, StackOnOwnPages, FailsOnlyWithoutRoom
<1> QED  BY <1>1, <1>2, <1>3 DEF Inv

LEMMA BoundsInv == Inv /\ Bounds => Inv'
<1> SUFFICES ASSUME Inv, Bounds  PROVE Inv'
  OBVIOUS
<1>1. /\ pc = "bounds" /\ todo # <<>> /\ free # <<>> /\ pc' = "search"
      /\ UNCHANGED <<logged, used, sites, entry, todo, free, placed, stack>>
  BY DEF Bounds
<1> DEFINE n == Len(free)
<1>2. FreeOk(free, used) /\ Base \in Nat /\ Base \in used
  BY <1>1, RequestIs DEF Inv, ListIsFree
<1>3. free \in Seq(Nat \X Nat)
  BY <1>2 DEF FreeOk, ListOk
<1>4. n \in Nat /\ n >= 1 /\ 1 \in 1 .. n /\ n \in 1 .. n
  BY <1>1, <1>3
<1>5. /\ free[1][1] \in Nat /\ free[1][2] \in Nat /\ free[1][1] <= free[1][2]
      /\ Base < free[1][1] \/ free[1][2] <= Base
      /\ free[n][1] \in Nat /\ free[n][2] \in Nat /\ free[n][1] <= free[n][2]
      /\ Base < free[n][1] \/ free[n][2] <= Base
  BY <1>2, <1>4, BaseOutside
<1>6. Last(free) = free[n]
  BY DEF Last
<1>7. Base' = Base
  BY <1>1 DEF Base
<1>8. CASE Base < free[1][1] /\ s' = 0 /\ e' = 1
  <2>1. s' \in Nat /\ e' \in Nat /\ Searched(free, Base)'
    BY <1>1, <1>4, <1>7, <1>8 DEF Searched
  <2> QED  BY <1>1, <2>1, SearchInv
<1>9. CASE Base >= free[n][2] /\ s' = n /\ e' = n + 1
  <2>1. s' \in Nat /\ e' \in Nat /\ Searched(free, Base)'
    BY <1>1, <1>2, <1>4, <1>5, <1>7, <1>9 DEF Searched
  <2> QED  BY <1>1, <2>1, SearchInv
<1>10. CASE /\ ~(Base < free[1][1]) /\ ~(Base >= free[n][2])
            /\ s' = 1 /\ e' = n
  <2>1. free[1][2] <= Base /\ Base < free[n][1]
    BY <1>2, <1>5, <1>10
  <2>2. n # 1
    BY <1>2, <1>5, <2>1
  <2>3. s' \in Nat /\ e' \in Nat /\ Searched(free, Base)'
    BY <1>1, <1>4, <1>7, <1>10, <2>1, <2>2 DEF Searched
  <2> QED  BY <1>1, <2>3, SearchInv
<1>11. \/ Base < free[1][1] /\ s' = 0 /\ e' = 1
       \/ Base >= free[n][2] /\ s' = n /\ e' = n + 1
       \/ /\ ~(Base < free[1][1]) /\ ~(Base >= free[n][2])
          /\ s' = 1 /\ e' = n
  <2>1. \/ Base < free[1][1] /\ s' = 0 /\ e' = 1
        \/ /\ Base >= free[1][1] /\ Base >= Last(free)[2]
           /\ s' = Len(free) /\ e' = Len(free) + 1
        \/ /\ ~(Base < free[1][1])
           /\ ~(Base >= free[1][1] /\ Base >= Last(free)[2])
           /\ s' = 1 /\ e' = Len(free)
    <3> HIDE DEF n
    <3> USE DEF Bounds
    <3>1. CASE Base < free[1][1]
      BY <1>2, <1>5, <3>1
    <3>2. CASE Base >= free[1][1] /\ Base >= Last(free)[2]
      <4>1. ~(Base < free[1][1])
        BY <1>2, <1>5, <3>2
      <4> QED  BY <3>2, <4>1
    <3>3. CASE /\ ~(Base < free[1][1])
               /\ ~(Base >= free[1][1] /\ Base >= Last(free)[2])
      BY <3>3
    <3> QED  BY <3>1, <3>2, <3>3
  <2> QED  BY <1>2, <1>5, <1>6, <2>1
<1> QED  BY <1>8, <1>9, <1>10, <1>11

LEMMA BinarySearchInv == Inv /\ BinarySearch => Inv'
<1> SUFFICES ASSUME Inv, BinarySearch  PROVE Inv'
  OBVIOUS
<1>1. /\ pc = "search" /\ s + 1 < e
      /\ UNCHANGED <<logged, used, sites, entry, pc, todo, free, placed, stack>>
      /\ \/ free[Middle][2] <= Base /\ s' = Middle /\ e' = e
         \/ Base < free[Middle][1] /\ s' = s /\ e' = Middle
         \/ s' = s /\ e' = e
  <2>1. pc = "search" /\ s + 1 < e
    BY DEF BinarySearch
  <2>2. todo # <<>> /\ Searched(free, Base) /\ s \in Nat /\ e \in Nat
    BY <2>1 DEF Inv, SearchOk, Types
  <2>3. Base \in Nat /\ Base \in used /\ FreeOk(free, used)
    BY <2>1, <2>2, RequestIs DEF Inv, ListIsFree
  <2>4. Middle \in 1 .. Len(free)
    <3>1. free \in Seq(Nat \X Nat)
      BY <2>3 DEF FreeOk, ListOk
    <3>2. Len(free) \in Nat
      BY <3>1
    <3>3. e <= Len(free) + 1
      BY <2>2 DEF Searched
    <3>4. Middle \in Nat /\ s < Middle /\ Middle < e
      BY <2>1, <2>2 DEF Middle
    <3> QED  BY <2>2, <3>2, <3>3, <3>4
  <2>5. free[Middle][1] \in Nat
    BY <2>3, <2>4, BaseOutside
  <2> QED  BY <2>3, <2>5 DEF BinarySearch
<1>2. todo # <<>> /\ Searched(free, Base) /\ s \in Nat /\ e \in Nat
  BY <1>1 DEF Inv, SearchOk, Types
<1>3. Middle \in Nat /\ s < Middle /\ Middle < e
  BY <1>1, <1>2 DEF Middle
<1>4. Len(free) \in Nat
  <2>1. free \in Seq(Nat \X Nat)
    BY <1>1 DEF Inv, ListIsFree, FreeOk, ListOk
  <2> QED  BY <2>1
<1>5. Base' = Base
  BY <1>1 DEF Base
<1>6. s' \in Nat /\ e' \in Nat /\ Searched(free, Base)'
  BY <1>1, <1>2, <1>3, <1>4, <1>5 DEF Searched
<1> QED  BY <1>1, <1>2, <1>6, SearchInv

(* The search has ended: every range is on one side of the base. *)
LEMMA SearchEnded ==
  ASSUME Inv, pc = "search", s + 1 >= e
  PROVE  /\ todo # <<>> /\ s \in Nat /\ e = s + 1 /\ Len(free) \in Nat
         /\ e <= Len(free) + 1
         /\ \A i \in 1 .. Len(free) :
               /\ free[i][1] \in Nat /\ free[i][2] \in Nat
               /\ free[i][1] <= free[i][2]
               /\ i <= s => free[i][2] <= Base
               /\ i >= e => Base < free[i][1]
         /\ \A i, j \in 1 .. Len(free) : i < j => free[i][2] < free[j][1]
<1>1. todo # <<>> /\ Searched(free, Base) /\ s \in Nat /\ e \in Nat
  BY DEF Inv, SearchOk, Types
<1>2. Base \in Nat /\ Base \in used /\ FreeOk(free, used)
  BY <1>1, RequestIs DEF Inv, ListIsFree
<1>3. e = s + 1
  BY <1>1 DEF Searched
<1>4. Len(free) \in Nat /\ e <= Len(free) + 1
  <2>1. free \in Seq(Nat \X Nat)
    BY <1>2 DEF FreeOk, ListOk
  <2> QED  BY <1>1, <2>1 DEF Searched
<1>5. \A i, j \in 1 .. Len(free) : i < j => free[i][2] < free[j][1]
  BY <1>2 DEF FreeOk, ListOk
<1>6. ASSUME NEW i \in 1 .. Len(free)
      PROVE  /\ free[i][1] \in Nat /\ free[i][2] \in Nat
             /\ free[i][1] <= free[i][2]
  BY <1>2, BaseOutside
<1>7. ASSUME NEW i \in 1 .. Len(free), i <= s  PROVE free[i][2] <= Base
  <2>1. s \in 1 .. Len(free) /\ free[s][2] <= Base
    BY <1>1, <1>3, <1>4, <1>7 DEF Searched
  <2>2. CASE i = s
    BY <2>1, <2>2
  <2>3. CASE i < s
    <3>1. free[i][2] < free[s][1]
      BY <1>5, <2>1, <2>3
    <3>2. /\ free[i][2] \in Nat /\ free[s][1] \in Nat /\ free[s][2] \in Nat
          /\ free[s][1] <= free[s][2]
      BY <1>6, <2>1
    <3> QED  BY <1>2, <2>1, <3>1, <3>2
  <2> QED  BY <1>1, <1>7, <2>2, <2>3
<1>8. ASSUME NEW i \in 1 .. Len(free), i >= e  PROVE Base < free[i][1]
  <2>1. e \in 1 .. Len(free) /\ Base < free[e][1]
    BY <1>1, <1>3, <1>4, <1>8 DEF Searched
  <2>2. CASE i = e
    BY <2>1, <2>2
  <2>3. CASE e < i
    <3>1. free[e][2] < free[i][1]
      BY <1>5, <2>1, <2>3
    <3>2. /\ free[i][1] \in Nat /\ free[e][1] \in Nat /\ free[e][2] \in Nat
          /\ free[e][1] <= free[e][2]
      BY <1>6, <2>1
    <3> QED  BY <1>2, <2>1, <3>1, <3>2
  <2> QED  BY <1>1, <1>8, <2>2, <2>3
<1> QED  BY <1>1, <1>3, <1>4, <1>5, <1>6, <1>7, <1>8

LEMMA FailInv == Inv /\ Fail => Inv'
<1> SUFFICES ASSUME Inv, Fail  PROVE Inv'
  OBVIOUS
<1>1. /\ pc = "search" /\ s + 1 >= e /\ Below \cup Above = {} /\ pc' = "failed"
      /\ UNCHANGED <<logged, used, sites, entry, todo, free, s, e, placed,
                     stack>>
  BY DEF Fail
<1>2. todo # <<>> /\ s \in Nat /\ e = s + 1 /\ Len(free) \in Nat
  BY <1>1, SearchEnded
<1>3. ASSUME NEW i \in 1 .. Len(free)
      PROVE  ~(free[i][1] + Wanted <= free[i][2])
  <2>1. i \in 1 .. s \/ i >= e
    BY <1>2
  <2>2. ~Fits(i)
    BY <1>1, <2>1 DEF Below, Above
  <2> QED  BY <2>2 DEF Fits
<1> QED  BY <1>1, <1>2, <1>3, GivesUp

LEMMA ReservePageInv == Inv /\ ReservePage => Inv'
<1> SUFFICES ASSUME Inv, ReservePage  PROVE Inv'
  OBVIOUS
<1>1. /\ pc = "bounds" /\ pc' = "done" /\ stack' = reserve_page(Pages(used))
      /\ UNCHANGED <<logged, used, sites, entry, todo, free, s, e, placed>>
  BY DEF ReservePage
<1>2. Types' /\ BasesUsed'
  BY <1>1 DEF Inv, Types, BasesUsed
<1>3. (Marked /\ ListIsFree /\ CodeInHoles)'
  BY <1>1 DEF Inv, Marked, ListIsFree, CodeInHoles
<1>4. (SearchOk /\ FailsOnlyWithoutRoom)'
  BY <1>1 DEF SearchOk, FailsOnlyWithoutRoom
<1> DEFINE pages == Pages(used)
           T == {p \in {FirstPn} \cup {q + 1 : q \in pages} :
                    \A x \in p .. p + StackPages - 1 : x \notin pages}
<1>5. pages \in SUBSET Nat /\ pages # {}
      /\ \E n \in Nat : \A p \in pages : p <= n
  BY PagesAre DEF Inv, Types
<1>6. stack' = Min(T)
  BY <1>1 DEF reserve_page
<1>7. T \in SUBSET Nat /\ T # {}
  <2>1. Max(pages) \in pages /\ \A p \in pages : p <= Max(pages)
    <3> HIDE DEF pages
    <3> QED  BY <1>5, MaxIs
  <2> DEFINE m == Max(pages)
  <2>2. m \in Nat /\ m \in pages /\ \A p \in pages : p <= m
    BY <1>5, <2>1
  <2> HIDE DEF m, pages
  <2>3. StackPages \in Nat
    BY PlacementAssumption
  <2>4. \A x \in m + 1 .. m + 1 + StackPages - 1 : x \notin pages
    BY <1>5, <2>2, <2>3
  <2>5. m + 1 \in T
    BY <2>2, <2>4
  <2>6. T \in SUBSET Nat
    BY <1>5, PlacementAssumption
  <2> QED  BY <2>5, <2>6
<1>8. Min(T) \in T
  <2> HIDE DEF T
  <2> QED  BY <1>7, MinIs
<1>9. \A x \in stack' .. stack' + StackPages - 1 : x \notin pages
  <2> HIDE DEF pages
  <2> QED  BY <1>6, <1>8
<1>10. StackOnOwnPages'
  BY <1>1, <1>9 DEF StackOnOwnPages
<1> QED  BY <1>2, <1>3, <1>4, <1>10 DEF Inv

\* How far a range is from the base.
Distance(i) == IF i <= s THEN Base - free[i][2] ELSE free[i][1] - Base

(* reserve takes a range that is wide enough, and the nearest of those. *)
LEMMA ChosenIs ==
  ASSUME Inv, pc = "search", s + 1 >= e, Below \cup Above # {}
  PROVE  /\ Chosen \in 1 .. Len(free) /\ Fits(Chosen)
         /\ \A i \in 1 .. Len(free) : Fits(i) => Distance(Chosen) <= Distance(i)
<1>1. /\ s \in Nat /\ e = s + 1 /\ Len(free) \in Nat /\ e <= Len(free) + 1
      /\ todo # <<>>
  BY SearchEnded
<1>2. ASSUME NEW i \in 1 .. Len(free)
      PROVE  /\ free[i][1] \in Nat /\ free[i][2] \in Nat
             /\ free[i][1] <= free[i][2]
             /\ i <= s => free[i][2] <= Base
             /\ i >= e => Base < free[i][1]
  BY SearchEnded
<1>3. \A i, j \in 1 .. Len(free) : i < j => free[i][2] < free[j][1]
  BY SearchEnded
<1>4. Base \in Nat
  BY <1>1, RequestIs
<1>5. ASSUME NEW i \in 1 .. Len(free)  PROVE Distance(i) \in Int
  <2>1. free[i][1] \in Nat /\ free[i][2] \in Nat
    BY <1>2
  <2> QED  BY <1>4, <2>1 DEF Distance
<1> DEFINE b == Max(Below)
           a == Min(Above)
<1>6. ASSUME Below # {}
      PROVE  /\ b \in Below /\ b \in 1 .. s /\ b \in 1 .. Len(free) /\ Fits(b)
             /\ Distance(b) = Base - free[b][2]
             /\ \A i \in Below : Distance(b) <= Distance(i)
  <2>1. Below \in SUBSET Nat /\ \A i \in Below : i <= s
    BY <1>1 DEF Below
  <2>2. b \in Below /\ \A i \in Below : i <= b
    BY <1>1, <1>6, <2>1, MaxIs
  <2>3. ASSUME NEW i \in Below  PROVE i \in 1 .. s /\ i \in 1 .. Len(free) /\ Fits(i)
    BY <1>1 DEF Below
  <2> HIDE DEF b
  <2>4. ASSUME NEW i \in Below  PROVE Distance(b) <= Distance(i)
    <3>1. i \in 1 .. s /\ i \in 1 .. Len(free) /\ b \in 1 .. s
          /\ b \in 1 .. Len(free) /\ i <= b
      BY <2>2, <2>3
    <3>2. Distance(b) = Base - free[b][2] /\ Distance(i) = Base - free[i][2]
      BY <1>1, <3>1 DEF Distance
    <3>3. /\ free[i][2] \in Nat /\ free[b][1] \in Nat /\ free[b][2] \in Nat
          /\ free[b][1] <= free[b][2]
      BY <1>2, <3>1
    <3>4. i = b \/ free[i][2] < free[b][1]
      BY <1>1, <1>3, <3>1
    <3> QED  BY <1>4, <3>2, <3>3, <3>4
  <2>5. Distance(b) = Base - free[b][2]
    BY <1>1, <2>2, <2>3 DEF Distance
  <2> QED  BY <2>2, <2>3, <2>4, <2>5
<1>7. ASSUME Above # {}
      PROVE  /\ a \in Above /\ a \in 1 .. Len(free) /\ a >= e /\ Fits(a)
             /\ Distance(a) = free[a][1] - Base
             /\ \A i \in Above : Distance(a) <= Distance(i)
  <2>1. Above \in SUBSET Nat
    BY <1>1 DEF Above
  <2>2. a \in Above /\ \A i \in Above : a <= i
    BY <1>7, <2>1, MinIs
  <2>3. ASSUME NEW i \in Above  PROVE i \in 1 .. Len(free) /\ i >= e /\ Fits(i)
    BY DEF Above
  <2> HIDE DEF a
  <2>4. ASSUME NEW i \in Above  PROVE Distance(a) <= Distance(i)
    <3>1. i \in 1 .. Len(free) /\ i >= e /\ a \in 1 .. Len(free) /\ a >= e
          /\ a <= i
      BY <2>2, <2>3
    <3>2. Distance(a) = free[a][1] - Base /\ Distance(i) = free[i][1] - Base
      BY <1>1, <3>1 DEF Distance
    <3>3. /\ free[i][1] \in Nat /\ free[a][1] \in Nat /\ free[a][2] \in Nat
          /\ free[a][1] <= free[a][2]
      BY <1>2, <3>1
    <3>4. i = a \/ free[a][2] < free[i][1]
      BY <1>1, <1>3, <3>1
    <3> QED  BY <1>4, <3>2, <3>3, <3>4
  <2>5. Distance(a) = free[a][1] - Base
    BY <1>1, <2>2, <2>3 DEF Distance
  <2> QED  BY <2>2, <2>3, <2>4, <2>5
<1>8. ASSUME NEW i \in 1 .. Len(free), Fits(i)  PROVE i \in Below \/ i \in Above
  BY <1>1, <1>8 DEF Below, Above
<1>9. CASE Below # {} /\ Above # {}
  <2>1. BelowIsNearer(b, a) <=> Distance(b) < Distance(a)
    BY <1>6, <1>7, <1>9 DEF BelowIsNearer
  <2>2. Chosen = IF Distance(b) < Distance(a) THEN b ELSE a
    BY <1>9, <2>1 DEF Chosen
  <2>3. Distance(a) \in Int /\ Distance(b) \in Int
    BY <1>5, <1>6, <1>7, <1>9
  <2>4. Chosen \in 1 .. Len(free) /\ Fits(Chosen)
    BY <1>6, <1>7, <1>9, <2>2
  <2>5. ASSUME NEW i \in 1 .. Len(free), Fits(i)
        PROVE  Distance(Chosen) <= Distance(i)
    <3>1. Distance(Chosen) <= Distance(a) /\ Distance(Chosen) <= Distance(b)
      BY <2>2, <2>3
    <3>2. Distance(b) <= Distance(i) \/ Distance(a) <= Distance(i)
      BY <1>6, <1>7, <1>8, <1>9, <2>5
    <3>3. Distance(i) \in Int /\ Distance(Chosen) \in Int
      BY <1>5, <2>4
    <3> QED  BY <2>3, <3>1, <3>2, <3>3
  <2> QED  BY <2>4, <2>5
<1>10. CASE Below # {} /\ Above = {}
  <2>1. Chosen = b
    BY <1>10 DEF Chosen
  <2> QED  BY <1>6, <1>8, <1>10, <2>1
<1>11. CASE Below = {} /\ Above # {}
  <2>1. Chosen = a
    BY <1>11 DEF Chosen
  <2> QED  BY <1>7, <1>8, <1>11, <2>1
<1> QED  BY <1>9, <1>10, <1>11

(* A byte in front of a block, and one behind it. *)
LEMMA InFront ==
  \A a, b, l, c \in Nat : b < l /\ l < c /\ c <= a => ~(a <= b)
OBVIOUS

LEMMA AtBack ==
  \A z, b, l, c \in Nat : z <= c /\ c < l /\ l <= b => ~(b < z)
OBVIOUS

(* A block put at an end of a range: what is left is still what is free. *)
LEMMA Shrunk ==
  ASSUME NEW list, NEW bytes, BytesOk(bytes), FreeOk(list, bytes),
         NEW k \in 1 .. Len(list), NEW w \in Nat, w > 0, NEW a \in Nat,
         NEW x \in Nat, NEW y \in Nat, Even(x), Even(y), x <= y,
         \/ a = list[k][1] /\ x = a + w /\ y = list[k][2]
         \/ a + w = list[k][2] /\ x = list[k][1] /\ y = a
  PROVE  /\ BytesOk(bytes \cup Bytes(a, w))
         /\ FreeOk([list EXCEPT ![k] = <<x, y>>], bytes \cup Bytes(a, w))
<1> DEFINE new == [list EXCEPT ![k] = <<x, y>>]
           more == bytes \cup Bytes(a, w)
           m == Max(bytes)
<1>1. list \in Seq(Nat \X Nat) /\ bytes \in SUBSET Nat
  BY DEF FreeOk, ListOk, BytesOk
<1>2. ASSUME NEW i \in 1 .. Len(list)
      PROVE  /\ list[i][1] \in Nat /\ list[i][2] \in Nat
             /\ Even(list[i][1]) /\ Even(list[i][2])
             /\ First <= list[i][1] /\ list[i][1] <= list[i][2]
             /\ list[i][2] <= m
             /\ \A b \in Nat : list[i][1] <= b /\ b < list[i][2] => b \notin bytes
  <2>1. list[i] \in Nat \X Nat
    BY <1>1
  <2> QED  BY <2>1 DEF FreeOk, ListOk, ListFree
<1>3. m \in Nat /\ m \in bytes /\ \A b \in bytes : b <= m /\ First <= b
  BY LastByte DEF BytesOk
<1>4. /\ list[k][1] <= x /\ y <= list[k][2] /\ list[k][1] <= a
      /\ a + w <= list[k][2]
  BY <1>2
<1>5. ASSUME NEW b
      PROVE  b \in more <=> b \in bytes \/ (b \in Nat /\ a <= b /\ b < a + w)
  BY BytesAre
<1>6. more \in SUBSET Nat /\ m \in more /\ \A b \in more : b <= m /\ First <= b
  <2>1. ASSUME NEW b \in more  PROVE b \in Nat /\ b <= m /\ First <= b
    <3>1. CASE b \in bytes
      BY <1>1, <1>3, <3>1
    <3>2. CASE b \in Nat /\ a <= b /\ b < a + w
      <4>1. /\ list[k][1] \in Nat /\ list[k][2] \in Nat /\ First <= list[k][1]
            /\ list[k][2] <= m
        BY <1>2
      <4> QED  BY <1>3, <1>4, <3>2, <4>1, FirstIs
    <3> QED  BY <1>5, <3>1, <3>2
  <2> QED  BY <1>3, <2>1
<1> HIDE DEF more, m, new
<1>7. BytesOk(more)
  BY <1>3, <1>6 DEF BytesOk
<1>8. Max(more) = m
  <2>1. Max(more) \in more /\ Max(more) \in Nat /\ m <= Max(more)
    BY <1>6, <1>7, LastByte
  <2>2. Max(more) <= m
    BY <1>6, <2>1
  <2> QED  BY <1>3, <2>1, <2>2
<1>9. /\ new \in Seq(Nat \X Nat) /\ Len(new) = Len(list)
      /\ new[k] = <<x, y>> /\ \A i \in 1 .. Len(list) : i # k => new[i] = list[i]
  <2>1. <<x, y>> \in Nat \X Nat
    OBVIOUS
  <2> QED  BY <1>1, <2>1 DEF new
<1>10. ASSUME NEW i \in 1 .. Len(list)
       PROVE  /\ new[i][1] \in Nat /\ new[i][2] \in Nat
              /\ Even(new[i][1]) /\ Even(new[i][2])
              /\ list[i][1] <= new[i][1] /\ new[i][1] <= new[i][2]
              /\ new[i][2] <= list[i][2]
  <2>1. CASE i = k
    BY <1>4, <1>9, <2>1
  <2>2. CASE i # k
    <3>1. new[i] = list[i]
      BY <1>9, <2>2
    <3>2. /\ list[i][1] \in Nat /\ list[i][2] \in Nat
          /\ Even(list[i][1]) /\ Even(list[i][2]) /\ list[i][1] <= list[i][2]
      BY <1>2
    <3>3. \A c \in Nat : c <= c
      OBVIOUS
    <3> QED  BY <3>1, <3>2, <3>3, Zenon
  <2> QED  BY <2>1, <2>2
<1>11. \A i, j \in 1 .. Len(list) : i < j => list[i][2] < list[j][1]
  BY DEF FreeOk, ListOk
<1>12. ListOk(new)
  <2>1. ASSUME NEW i \in 1 .. Len(list), NEW j \in 1 .. Len(list), i < j
        PROVE  new[i][2] < new[j][1]
    <3>1. list[i][2] < list[j][1]
      BY <1>11, <2>1
    <3>2. new[i][2] <= list[i][2] /\ list[j][1] <= new[j][1]
          /\ list[i][2] \in Nat /\ list[j][1] \in Nat
          /\ new[i][2] \in Nat /\ new[j][1] \in Nat
      BY <1>2, <1>10
    <3>3. \A c, d, f, g \in Nat : c <= d /\ d < f /\ f <= g => c < g
      OBVIOUS
    <3> QED  BY <3>1, <3>2, <3>3, Zenon
  <2>2. ASSUME NEW i \in 1 .. Len(list)  PROVE First <= new[i][1]
    <3>1. First <= list[i][1] /\ list[i][1] <= new[i][1] /\ list[i][1] \in Nat
          /\ new[i][1] \in Nat
      BY <1>2, <1>10
    <3> QED  BY <3>1, FirstIs
  <2> QED  BY <1>9, <1>10, <2>1, <2>2 DEF ListOk
<1>13. ListFree(new, more)
  <2>1. ASSUME NEW i \in 1 .. Len(list)  PROVE new[i][2] <= m
    <3>1. new[i][2] \in Nat /\ list[i][2] \in Nat /\ new[i][2] <= list[i][2]
          /\ list[i][2] <= m
      BY <1>2, <1>10
    <3> QED  BY <1>3, <3>1
  <2>2. ASSUME NEW i \in 1 .. Len(list), NEW b \in Nat,
               new[i][1] <= b, b < new[i][2]
        PROVE  b \notin more
    <3>1. list[i][1] <= b /\ b < list[i][2]
      <4>1. list[i][1] <= new[i][1] /\ new[i][2] <= list[i][2]
            /\ list[i][1] \in Nat /\ new[i][1] \in Nat
            /\ list[i][2] \in Nat /\ new[i][2] \in Nat
        BY <1>2, <1>10
      <4>2. \A l, n \in Nat : l <= n /\ n <= b => l <= b
        OBVIOUS
      <4>3. \A l, n \in Nat : b < l /\ l <= n => b < n
        OBVIOUS
      <4>4. list[i][1] <= b
        BY <2>2, <4>1, <4>2, Zenon
      <4>5. b < list[i][2]
        BY <2>2, <4>1, <4>3, Zenon
      <4> QED  BY <4>4, <4>5, Zenon
    <3>2. b \notin bytes
      BY <1>2, <3>1
    <3>3. ~(a <= b /\ b < a + w)
      <4>1. CASE i = k
        BY <1>9, <2>2, <4>1
      <4>2. CASE i < k
        <5>1. list[i][2] < list[k][1]
          BY <1>11, <4>2
        <5>2. list[i][2] \in Nat /\ list[k][1] \in Nat
          BY <1>2
        <5>3. ~(a <= b)
          BY <1>4, <3>1, <5>1, <5>2, InFront, Zenon
        <5> QED  BY <5>3
      <4>3. CASE i > k
        <5>1. list[k][2] < list[i][1]
          BY <1>11, <4>3
        <5>2. list[k][2] \in Nat /\ list[i][1] \in Nat
          BY <1>2
        <5>3. a + w \in Nat
          OBVIOUS
        <5>4. ~(b < a + w)
          BY <1>4, <3>1, <5>1, <5>2, <5>3, AtBack, Zenon
        <5> QED  BY <5>4
      <4> QED  BY <4>1, <4>2, <4>3
    <3> QED  BY <1>5, <3>2, <3>3
  <2> QED  BY <1>8, <1>9, <2>1, <2>2 DEF ListFree
<1>14. ListComplete(new, more)
  <2> SUFFICES ASSUME NEW p \in Nat, NEW z \in Nat, Even(p), Even(z),
                      First <= p, p < z, z <= m, Unused(p, z, more)
               PROVE  \E i \in 1 .. Len(list) : new[i][1] <= p /\ z <= new[i][2]
    BY <1>8, <1>9 DEF ListComplete
  <2>1. Unused(p, z, bytes)
    BY <1>5 DEF Unused
  <2>2. PICK i \in 1 .. Len(list) : list[i][1] <= p /\ z <= list[i][2]
    BY <2>1 DEF FreeOk, ListComplete, m
  <2>3. CASE i # k
    BY <1>9, <2>2, <2>3
  <2>4. CASE i = k
    <3>1. p \notin more /\ z - 1 \notin more /\ z - 1 \in Nat
      <4>1. z - 1 \in Nat /\ p <= p /\ p <= z - 1 /\ z - 1 < z
        OBVIOUS
      <4>2. \A q \in Nat : p <= q /\ q < z => q \notin more
        BY DEF Unused
      <4> QED  BY <4>1, <4>2, Zenon
    <3>2. ~(a <= p /\ p < a + w) /\ ~(a <= z - 1 /\ z - 1 < a + w)
      BY <1>5, <3>1
    <3>3. x <= p /\ z <= y
      <4>1. list[k][1] \in Nat /\ list[k][2] \in Nat
        BY <1>2
      <4>2. list[k][1] <= p /\ z <= list[k][2]
        BY <2>2, <2>4
      <4>3. CASE a = list[k][1] /\ x = a + w /\ y = list[k][2]
        BY <3>2, <4>1, <4>2, <4>3
      <4>4. CASE a + w = list[k][2] /\ x = list[k][1] /\ y = a
        BY <3>2, <4>1, <4>2, <4>4
      <4> QED  BY <4>3, <4>4
    <3>4. new[k][1] <= p /\ z <= new[k][2]
      BY <1>9, <3>3
    <3> QED  BY <3>4
  <2> QED  BY <2>3, <2>4
<1> QED  BY <1>7, <1>12, <1>13, <1>14 DEF FreeOk, new, more

(* What Place does. *)
LEMMA PlaceIs ==
  ASSUME Inv, Place
  PROVE  /\ pc = "search" /\ pc' = "bounds" /\ todo # <<>> /\ todo' = Tail(todo)
         /\ UNCHANGED <<logged, sites, entry, s, e, stack>>
         /\ \E a \in Nat :
               /\ Even(a)
               /\ placed' = Append(placed, [base |-> Base, addr |-> a,
                                            size |-> Wanted])
               /\ used' = used \cup Bytes(a, Wanted)
               /\ \A x \in Nat : a <= x /\ x < a + Wanted => x \notin used
               /\ Gap(a, Wanted, Base) = Distance(Chosen)
         /\ BytesOk(used') /\ FreeOk(free', used')
<1> DEFINE k == Chosen
           w == Wanted
           a == IF free[k][1] > Base THEN free[k][1] ELSE free[k][2] - w
<1>1. /\ pc = "search" /\ pc' = "bounds" /\ todo' = Tail(todo)
      /\ s + 1 >= e /\ Below \cup Above # {}
      /\ UNCHANGED <<logged, sites, entry, s, e, stack>>
      /\ placed' = Append(placed, [base |-> Base, addr |-> a, size |-> w])
      /\ used' = used \cup Bytes(a, w)
      /\ free' = Rest(k)
  BY DEF Place, put
<1>2. k \in 1 .. Len(free) /\ Fits(k)
  BY <1>1, ChosenIs
<1>3. todo # <<>> /\ s \in Nat /\ e = s + 1 /\ Len(free) \in Nat
  BY <1>1, SearchEnded
<1>4. /\ Base \in Nat /\ w \in Nat /\ w > 0 /\ Even(w)
      /\ BytesOk(used) /\ FreeOk(free, used)
  <2>1. Base \in Nat /\ w \in {NearSize, FarSize}
    BY <1>3, RequestIs
  <2>2. w \in Nat /\ w > 0 /\ Even(w)
    BY <2>1, Sizes
  <2> QED  BY <1>1, <2>1, <2>2 DEF Inv, Types, ListIsFree
<1>5. /\ free[k][1] \in Nat /\ free[k][2] \in Nat
      /\ free[k][1] <= free[k][2]
      /\ k <= s => free[k][2] <= Base
      /\ k >= e => Base < free[k][1]
  BY <1>1, <1>2, SearchEnded
<1>6. /\ Even(free[k][1]) /\ Even(free[k][2])
      /\ \A x \in Nat : free[k][1] <= x /\ x < free[k][2] => x \notin used
  BY <1>2, <1>4 DEF FreeOk, ListOk, ListFree
<1>7. free[k][1] + w <= free[k][2]
  BY <1>2 DEF Fits
<1>8. free \in Seq(Nat \X Nat) /\ free[k] \in Nat \X Nat
  BY <1>2, <1>4 DEF FreeOk, ListOk
<1>9. CASE free[k][1] > Base
  <2>1. a = free[k][1]
    BY <1>9
  <2>2. free' = [free EXCEPT ![k] = <<free[k][1] + w, free[k][2]>>]
    BY <1>1, <1>9 DEF Rest
  <2> DEFINE x == free[k][1] + w
             y == free[k][2]
  <2>3. x \in Nat /\ y \in Nat /\ Even(x) /\ Even(y) /\ x <= y /\ x = a + w
        /\ a \in Nat /\ Even(a)
    BY <1>4, <1>5, <1>6, <1>7, <2>1 DEF Even
  <2>4. Gap(a, w, Base) = Distance(k)
    <3>1. ~(k <= s)
      BY <1>3, <1>4, <1>5, <1>9
    <3> QED  BY <1>9, <2>1, <3>1 DEF Gap, Distance
  <2>5. \A z \in Nat : a <= z /\ z < a + w => z \notin used
    BY <1>4, <1>5, <1>6, <1>7, <2>1
  <2>6. y = free[k][2]
    OBVIOUS
  <2> HIDE DEF x, a, k, w
  <2>7. BytesOk(used \cup Bytes(a, w))
        /\ FreeOk([free EXCEPT ![k] = <<x, y>>], used \cup Bytes(a, w))
    <3> HIDE DEF y
    <3> QED  BY <1>2, <1>4, <2>1, <2>3, <2>6, Shrunk
  <2>8. BytesOk(used') /\ FreeOk(free', used')
    BY <1>1, <2>2, <2>7 DEF x, y
  <2> QED  BY <1>1, <1>3, <2>3, <2>4, <2>5, <2>8 DEF k, w
<1>10. CASE ~(free[k][1] > Base)
  <2>1. a = free[k][2] - w
    BY <1>10
  <2>2. free' = [free EXCEPT ![k] = <<free[k][1], free[k][2] - w>>]
    BY <1>1, <1>10 DEF Rest
  <2> DEFINE x == free[k][1]
             y == free[k][2] - w
  <2>3. x \in Nat /\ y \in Nat /\ Even(x) /\ Even(y) /\ x <= y /\ y = a
        /\ a \in Nat /\ Even(a) /\ a + w = free[k][2]
    BY <1>4, <1>5, <1>6, <1>7, <2>1 DEF Even
  <2>4. Gap(a, w, Base) = Distance(k)
    <3>1. k <= s
      BY <1>2, <1>3, <1>4, <1>5, <1>10
    <3>2. ~(a > Base)
      BY <1>4, <1>5, <2>3, <3>1
    <3> QED  BY <2>3, <3>1, <3>2 DEF Gap, Distance
  <2>5. \A z \in Nat : a <= z /\ z < a + w => z \notin used
    BY <1>4, <1>5, <1>6, <1>7, <2>1
  <2>6. x = free[k][1]
    OBVIOUS
  <2> HIDE DEF y, a, k, w
  <2>7. BytesOk(used \cup Bytes(a, w))
        /\ FreeOk([free EXCEPT ![k] = <<x, y>>], used \cup Bytes(a, w))
    <3> HIDE DEF x
    <3> QED  BY <1>2, <1>4, <2>1, <2>3, <2>6, Shrunk
  <2>8. BytesOk(used') /\ FreeOk(free', used')
    BY <1>1, <2>2, <2>7 DEF x, y
  <2> QED  BY <1>1, <1>3, <2>3, <2>4, <2>5, <2>8 DEF k, w
<1> QED  BY <1>9, <1>10

LEMMA PlaceInv == Inv /\ Place => Inv'
<1> SUFFICES ASSUME Inv, Place  PROVE Inv'
  OBVIOUS
<1>1. /\ pc = "search" /\ pc' = "bounds" /\ todo # <<>> /\ todo' = Tail(todo)
      /\ UNCHANGED <<logged, sites, entry, s, e, stack>>
      /\ BytesOk(used') /\ FreeOk(free', used')
  BY PlaceIs
<1> DEFINE w == Wanted
           n == Len(placed)
<1>2. PICK a \in Nat :
         /\ Even(a)
         /\ placed' = Append(placed, [base |-> Base, addr |-> a, size |-> w])
         /\ used' = used \cup Bytes(a, w)
         /\ \A x \in Nat : a <= x /\ x < a + w => x \notin used
  BY PlaceIs
<1>3. Base \in Nat /\ w \in {NearSize, FarSize} /\ w \in Nat
  <2>1. Base \in Nat /\ w \in {NearSize, FarSize}
    BY <1>1, RequestIs
  <2> QED  BY <2>1, Sizes
<1> DEFINE new == [base |-> Base, addr |-> a, size |-> w]
<1>4. new \in Placings /\ new.addr = a /\ new.size = w
  BY <1>3 DEF Placings
<1>5. placed \in Seq(Placings) /\ n \in Nat
  BY DEF Inv, Types
<1>6. ASSUME NEW x  PROVE x \in Bytes(a, w) <=> x \in Nat /\ a <= x /\ x < a + w
  BY <1>3, BytesAre
<1> HIDE DEF w, new
<1>7. /\ placed' \in Seq(Placings) /\ Len(placed') = n + 1
      /\ placed'[n + 1] = new /\ \A i \in 1 .. n : placed'[i] = placed[i]
  <2>1. placed' = Append(placed, new)
    BY <1>2 DEF new
  <2> QED  BY <1>4, <1>5, <2>1
<1>8. ASSUME NEW i \in 1 .. n + 1
      PROVE  \/ i \in 1 .. n /\ placed'[i] = placed[i]
             \/ i = n + 1 /\ placed'[i] = new
  <2>1. CASE i \in 1 .. n
    BY <1>7, <2>1
  <2>2. CASE i \notin 1 .. n
    <3>1. i = n + 1
      BY <1>5, <2>2
    <3> QED  BY <1>7, <3>1
  <2> QED  BY <2>1, <2>2
<1>9. Types'
  BY <1>1, <1>2, <1>7, RequestIs DEF Inv, Types
<1>10. BasesUsed'
  BY <1>1, RequestIs DEF BasesUsed
<1>11. Marked'
  <2>1. \A x \in Nat, j \in 1 .. Len(sites) :
           sites[j] <= x /\ x < sites[j] + 4 => x \in used'
    BY <1>1, <1>2 DEF Inv, Marked
  <2>2. ASSUME NEW x \in Nat, NEW i \in 1 .. Len(placed'),
               placed'[i].addr <= x, x < placed'[i].addr + placed'[i].size
        PROVE  x \in used'
    <3>1. CASE i \in 1 .. n /\ placed'[i] = placed[i]
      BY <1>2, <2>2, <3>1 DEF Inv, Marked
    <3>2. CASE placed'[i] = new
      BY <1>2, <1>4, <1>6, <2>2, <3>2
    <3> QED  BY <1>7, <1>8, <3>1, <3>2
  <2> QED  BY <1>1, <2>1, <2>2 DEF Marked
<1>12. ListIsFree'
  BY <1>1 DEF ListIsFree
<1>13. (SearchOk /\ StackOnOwnPages /\ FailsOnlyWithoutRoom)'
  BY <1>1 DEF SearchOk, StackOnOwnPages, FailsOnlyWithoutRoom
<1>14. CodeInHoles'
  <2>1. Block(new) = Bytes(a, w)
    BY <1>4 DEF Block
  <2>2. ASSUME NEW i \in 1 .. n
        PROVE  Block(placed[i]) \subseteq used
    <3>1. placed[i] \in Placings
      BY <1>5
    <3>2. placed[i].addr \in Nat /\ placed[i].size \in {NearSize, FarSize}
      BY <3>1 DEF Placings
    <3>3. placed[i].size \in Nat
      BY <3>2, Sizes
    <3>4. ASSUME NEW x \in Block(placed[i])  PROVE x \in used
      <4>1. x \in Nat /\ placed[i].addr <= x
            /\ x < placed[i].addr + placed[i].size
        BY <3>2, <3>3, <3>4, BytesAre DEF Block
      <4> QED  BY <4>1 DEF Inv, Marked
    <3> QED  BY <3>4
  <2>3. Block(new) \cap used = {}
    BY <1>2, <1>6, <2>1
  <2>4. logged \subseteq used
    BY DEF Inv, Types
  <2>5. ASSUME NEW j \in 1 .. Len(sites)  PROVE Bytes(sites[j], 4) \subseteq used
    <3>1. sites[j] \in Nat
      BY DEF Inv, Types
    <3>2. ASSUME NEW x \in Bytes(sites[j], 4)  PROVE x \in used
      <4>1. x \in Nat /\ sites[j] <= x /\ x < sites[j] + 4
        BY <3>1, BytesAre
      <4> QED  BY <1>1, <4>1 DEF Inv, Marked
    <3> QED  BY <3>2
  <2>6. ASSUME NEW i \in 1 .. n + 1
        PROVE  /\ placed'[i].addr % 2 = 0
               /\ Block(placed'[i]) \cap logged = {}
               /\ \A j \in 1 .. Len(sites) :
                     Block(placed'[i]) \cap Bytes(sites[j], 4) = {}
    <3>1. CASE i \in 1 .. n /\ placed'[i] = placed[i]
      BY <3>1 DEF Inv, CodeInHoles
    <3>2. CASE placed'[i] = new
      <4>1. placed'[i].addr % 2 = 0
        BY <1>2, <1>4, <3>2 DEF Even
      <4> QED  BY <2>3, <2>4, <2>5, <3>2, <4>1
    <3> QED  BY <1>8, <3>1, <3>2
  <2>7. ASSUME NEW i \in 1 .. n + 1, NEW j \in 1 .. n + 1, i # j
        PROVE  Block(placed'[i]) \cap Block(placed'[j]) = {}
    <3>1. CASE i \in 1 .. n /\ j \in 1 .. n
      <4>1. placed'[i] = placed[i] /\ placed'[j] = placed[j]
        BY <1>7, <3>1
      <4> QED  BY <2>7, <3>1, <4>1 DEF Inv, CodeInHoles
    <3>2. CASE i \in 1 .. n /\ j = n + 1
      <4>1. placed'[i] = placed[i] /\ placed'[j] = new
        BY <1>7, <3>2
      <4> QED  BY <2>2, <2>3, <3>2, <4>1
    <3>3. CASE i = n + 1 /\ j \in 1 .. n
      <4>1. placed'[i] = new /\ placed'[j] = placed[j]
        BY <1>7, <3>3
      <4> QED  BY <2>2, <2>3, <3>3, <4>1
    <3> QED  BY <1>8, <2>7, <3>1, <3>2, <3>3
  <2>8. ASSUME NEW p  PROVE Block(p)' = Block(p)
    BY DEF Block
  <2> QED  BY <1>1, <1>7, <2>6, <2>7 DEF CodeInHoles
<1> QED  BY <1>9, <1>10, <1>11, <1>12, <1>13, <1>14 DEF Inv

LEMMA NextInv == Inv /\ [Next]_vars => Inv'
<1> SUFFICES ASSUME Inv, [Next]_vars  PROVE Inv'
  OBVIOUS
<1>1. CASE UNCHANGED vars
  <2>1. UNCHANGED <<logged, used, sites, entry, pc, todo, free, s, e, placed,
                    stack>>
    BY <1>1 DEF vars
  <2>2. Types' /\ BasesUsed'
    BY <2>1 DEF Inv, Types, BasesUsed
  <2>3. (Marked /\ ListIsFree /\ CodeInHoles)'
    BY <2>1 DEF Inv, Marked, ListIsFree, CodeInHoles
  <2>4. (SearchOk /\ StackOnOwnPages)'
    BY <2>1 DEF Inv, SearchOk, StackOnOwnPages, Searched, Base
  <2>5. FailsOnlyWithoutRoom'
    BY <2>1 DEF Inv, FailsOnlyWithoutRoom, Candidates, Wanted
  <2> QED  BY <2>2, <2>3, <2>4, <2>5 DEF Inv
<1>2. CASE Terminated
  <2>1. UNCHANGED vars
    BY <1>2 DEF Terminated
  <2> QED  BY <1>1, <2>1
<1> QED  BY <1>1, <1>2, MarkInv, SkipInv, NoListInv, BoundsInv, BinarySearchInv,
            PlaceInv, FailInv, ReservePageInv DEF Next

(***************************************************************************)
(* The code that replaces the calls lies at even addresses, apart from the *)
(* slice, from the calls and from each other; the replay stack has pages   *)
(* of its own; and reserve gives up only where there is no place in front  *)
(* of the last used byte.  For any slice and any sizes.                    *)
(***************************************************************************)
THEOREM CodeIsPlacedApart == Spec => []PlacementInv
<1>1. Inv => PlacementInv
  BY DEF Inv, PlacementInv
<1> QED  BY InitInv, NextInv, <1>1, PTL DEF Spec

(* A place that a step returns is the nearest one. *)
LEMMA PlaceNearest ==
  ASSUME Inv, Place
  PROVE  LET p == Last(placed') IN
         \A a \in Candidates(used, p.size) :
             Gap(p.addr, p.size, p.base) <= Gap(a, p.size, p.base)
<1> DEFINE p == Last(placed')
<1>1. pc = "search" /\ todo # <<>> /\ s + 1 >= e /\ Below \cup Above # {}
  BY PlaceIs DEF Place
<1>2. PICK b \in Nat :
         /\ placed' = Append(placed, [base |-> Base, addr |-> b,
                                      size |-> Wanted])
         /\ Gap(b, Wanted, Base) = Distance(Chosen)
  BY PlaceIs
<1>3. Base \in Nat /\ Wanted \in {NearSize, FarSize} /\ Wanted \in Nat
  <2>1. Base \in Nat /\ Wanted \in {NearSize, FarSize}
    BY <1>1, RequestIs
  <2> QED  BY <2>1, Sizes
<1>4. p.base = Base /\ p.addr = b /\ p.size = Wanted
  <2>1. placed \in Seq(Placings)
    BY DEF Inv, Types
  <2> DEFINE new == [base |-> Base, addr |-> b, size |-> Wanted]
  <2>2. new \in Placings
    BY <1>3 DEF Placings
  <2>3. placed' = Append(placed, new)
    BY <1>2
  <2>4. new.base = Base /\ new.addr = b /\ new.size = Wanted
    OBVIOUS
  <2> HIDE DEF new
  <2>5. p = new
    BY <2>1, <2>2, <2>3 DEF Last
  <2> QED  BY <2>4, <2>5
<1> HIDE DEF p
<1>5. ASSUME NEW a \in Candidates(used, Wanted)
      PROVE  Distance(Chosen) <= Gap(a, Wanted, Base)
  <2>1. BytesOk(used) /\ FreeOk(free, used)
    BY <1>1 DEF Inv, Types, ListIsFree
  <2>2. a \in Nat
    BY <1>3, <2>1, CandidateIn
  <2>3. PICK i \in 1 .. Len(free) : free[i][1] <= a /\ a + Wanted <= free[i][2]
    BY <1>3, <2>1, CandidateIn
  <2>4. /\ s \in Nat /\ e = s + 1
        /\ free[i][1] \in Nat /\ free[i][2] \in Nat
        /\ i <= s => free[i][2] <= Base
        /\ i >= e => Base < free[i][1]
    BY <1>1, SearchEnded
  <2>5. Fits(i)
    BY <1>3, <2>2, <2>3, <2>4 DEF Fits
  <2>6. Distance(Chosen) <= Distance(i)
    BY <1>1, <2>5, ChosenIs
  <2>7. Distance(i) <= Gap(a, Wanted, Base)
    <3>1. CASE i <= s
      BY <1>3, <2>2, <2>3, <2>4, <3>1 DEF Distance, Gap
    <3>2. CASE ~(i <= s)
      BY <1>3, <2>2, <2>3, <2>4, <3>2 DEF Distance, Gap
    <3> QED  BY <3>1, <3>2
  <2>8. Gap(a, Wanted, Base) \in Int /\ Distance(i) \in Int
    <3>1. Gap(a, Wanted, Base) \in Int
      BY <1>3, <2>2 DEF Gap
    <3>2. Distance(i) \in Int
      BY <1>3, <2>4 DEF Distance
    <3> QED  BY <3>1, <3>2
  <2>9. Distance(Chosen) \in Int
    <3>1. Chosen \in 1 .. Len(free)
      BY <1>1, ChosenIs
    <3>2. free[Chosen][1] \in Nat /\ free[Chosen][2] \in Nat
      BY <1>1, <3>1, SearchEnded
    <3> QED  BY <1>3, <3>2 DEF Distance
  <2> QED  BY <2>6, <2>7, <2>8, <2>9
<1> QED  BY <1>2, <1>4, <1>5 DEF p

(***************************************************************************)
(* reserve returns the place nearest to its base of all that the bitmaps   *)
(* leave in front of the last used byte: free_list, which it keeps by      *)
(* hand, never hides one, and the binary search never skips one.           *)
(***************************************************************************)
THEOREM PlacesAreNearest == Spec => NearestPlace
<1>1. Inv /\ [Next]_vars =>
        [placed' # placed =>
           LET p == Last(placed') IN
           \A a \in Candidates(used, p.size) :
               Gap(p.addr, p.size, p.base) <= Gap(a, p.size, p.base)]_vars
  <2> SUFFICES ASSUME Inv, [Next]_vars, placed' # placed
               PROVE  LET p == Last(placed') IN
                      \A a \in Candidates(used, p.size) :
                          Gap(p.addr, p.size, p.base)
                             <= Gap(a, p.size, p.base)
    OBVIOUS
  <2>1. Place
    BY DEF Next, vars, Mark, Skip, NoList, Bounds, BinarySearch, Fail,
           ReservePage, Terminated
  <2> QED  BY <2>1, PlaceNearest
<1> QED  BY InitInv, NextInv, <1>1, PTL DEF Spec, NearestPlace


(***************************************************************************)
(* The loader: lists in the order of a key.                                *)
(***************************************************************************)
\* f lists S in the order of the keys.
Ordered(f, S, key, n) ==
    /\ \A i, j \in 1 .. n : i < j => key[f[i]] < key[f[j]]
    /\ Range(f) = S

(* A finite set whose elements have different keys can be listed. *)
LEMMA Listing ==
  ASSUME NEW R, IsFiniteSet(R), NEW key \in [R -> Nat],
         \A q, r \in R : key[q] = key[r] => q = r
  PROVE  /\ Cardinality(R) \in Nat
         /\ \E f \in [1 .. Cardinality(R) -> R] :
                Ordered(f, R, key, Cardinality(R))
<1> DEFINE Listed(Q, n) == \E f \in [1 .. n -> Q] : Ordered(f, Q, key, n)
           Sorts == {n \in Nat : \A Q \in SUBSET R :
                        Cardinality(Q) = n => Listed(Q, n)}
<1>2. 0 \in Sorts
  <2>1. ASSUME NEW Q \in SUBSET R, Cardinality(Q) = 0  PROVE Listed(Q, 0)
    <3>1. Q = {}
      <4>1. IsFiniteSet(Q)
        BY FS_Subset
      <4> QED  BY <2>1, <4>1, FS_EmptySet
    <3> DEFINE f == [i \in 1 .. 0 |-> 0]
    <3>2. f \in [1 .. 0 -> Q] /\ DOMAIN f = {}
      OBVIOUS
    <3>3. Range(f) = Q
      BY <3>1, <3>2 DEF Range
    <3>4. Ordered(f, Q, key, 0)
      BY <3>3 DEF Ordered
    <3> QED  BY <3>2, <3>4
  <2> QED  BY <2>1
<1>3. ASSUME NEW n \in Nat, n \in Sorts  PROVE n + 1 \in Sorts
  <2>1. ASSUME NEW Q \in SUBSET R, Cardinality(Q) = n + 1
        PROVE  Listed(Q, n + 1)
    <3>1. IsFiniteSet(Q)
      BY FS_Subset
    <3>2. Q # {}
      BY <2>1, <3>1, FS_EmptySet
    <3>3. PICK r \in Q : \A q \in Q : key[r] <= key[q]
      <4> DEFINE T == {key[q] : q \in Q}
      <4>1. T \in SUBSET Nat /\ T # {}
        BY <3>2
      <4>2. \E x \in T : \A y \in T : x <= y
        <5> HIDE DEF T
        <5> QED  BY <4>1, NatLeast
      <4> QED  BY <4>2
    <3>4. Cardinality(Q \ {r}) = n
      <4>1. Cardinality(Q \ {r}) = Cardinality(Q) - 1
        BY <3>1, FS_RemoveElement, Zenon
      <4> QED  BY <2>1, <4>1
    <3>5. PICK f \in [1 .. n -> Q \ {r}] : Ordered(f, Q \ {r}, key, n)
      BY <1>3, <3>4
    <3> DEFINE g == [i \in 1 .. n + 1 |-> IF i = 1 THEN r ELSE f[i - 1]]
    <3>6. g \in [1 .. n + 1 -> Q]
      OBVIOUS
    <3>7. ASSUME NEW q \in Q  PROVE \E i \in 1 .. n + 1 : g[i] = q
      <4>1. CASE q = r
        <5>1. 1 \in 1 .. n + 1 /\ g[1] = r
          OBVIOUS
        <5> QED  BY <4>1, <5>1
      <4>2. CASE q # r
        <5>1. PICK i \in 1 .. n : f[i] = q
          BY <3>5, <4>2 DEF Ordered, Range
        <5>2. i + 1 \in 1 .. n + 1 /\ g[i + 1] = q
          BY <5>1
        <5> QED  BY <5>2
      <4> QED  BY <4>1, <4>2
    <3>8. Range(g) = Q
      <4> HIDE DEF g
      <4> QED  BY <3>6, <3>7 DEF Range
    <3>9. ASSUME NEW i \in 1 .. n + 1, NEW j \in 1 .. n + 1, i < j
          PROVE  key[g[i]] < key[g[j]]
      <4>1. /\ j - 1 \in 1 .. n /\ g[j] = f[j - 1] /\ f[j - 1] \in Q \ {r}
            /\ f[j - 1] \in R /\ r \in R
        BY <3>9
      <4>2. CASE i = 1
        <5>1. g[i] = r
          BY <4>2
        <5>2. key[r] <= key[f[j - 1]] /\ key[r] # key[f[j - 1]]
          BY <3>3, <4>1
        <5>3. key[r] \in Nat /\ key[f[j - 1]] \in Nat
          BY <4>1
        <5> QED  BY <4>1, <5>1, <5>2, <5>3
      <4>3. CASE i # 1
        <5>1. i - 1 \in 1 .. n /\ g[i] = f[i - 1] /\ i - 1 < j - 1
          BY <3>9, <4>3
        <5> QED  BY <3>5, <4>1, <5>1 DEF Ordered
      <4> QED  BY <4>2, <4>3
    <3>10. Ordered(g, Q, key, n + 1)
      <4> HIDE DEF g
      <4> QED  BY <3>8, <3>9 DEF Ordered
    <3> HIDE DEF g
    <3> QED  BY <3>6, <3>10
  <2> HIDE DEF Listed
  <2> QED  BY <2>1
<1>4. Nat \subseteq Sorts
  <2> HIDE DEF Sorts
  <2> QED  BY <1>2, <1>3, SetInduction
<1>5. Cardinality(R) \in Nat
  BY FS_CardinalityType
<1> QED  BY <1>4, <1>5

\* How many elements come before x.
KeyRank(x, S, key) == Cardinality({y \in S : key[y] < key[x]})

(* In a list in order, as many elements are less as are in front. *)
Ranked(f, S, key, n) == \A i \in 1 .. n : KeyRank(f[i], S, key) = i - 1

LEMMA RankIs ==
  ASSUME NEW R, NEW key, NEW n, NEW f, Ordered(f, R, key, n),
         n \in Nat, key \in [R -> Nat], f \in [1 .. n -> R]
  PROVE  Ranked(f, R, key, n)
<1> SUFFICES ASSUME NEW i \in 1 .. n  PROVE KeyRank(f[i], R, key) = i - 1
  BY DEF Ranked
<1> DEFINE B == {y \in R : key[y] < key[f[i]]}
           g == [j \in 1 .. i - 1 |-> f[j]]
<1>1. ASSUME NEW j \in 1 .. n, NEW k \in 1 .. n, j < k  PROVE key[f[j]] < key[f[k]]
  BY <1>1 DEF Ordered
<1>2. ASSUME NEW j \in 1 .. n  PROVE f[j] \in R /\ key[f[j]] \in Nat
  OBVIOUS
<1>3. i - 1 \in Nat /\ \A j \in 1 .. i - 1 : j \in 1 .. n /\ j < i
  OBVIOUS
<1>4. g \in [1 .. i - 1 -> B]
  BY <1>1, <1>2, <1>3
<1>5. ASSUME NEW j \in 1 .. i - 1, NEW k \in 1 .. i - 1, g[j] = g[k]  PROVE j = k
  <2>1. j \in 1 .. n /\ k \in 1 .. n /\ f[j] = f[k]
    BY <1>3, <1>5
  <2>2. ~(key[f[j]] < key[f[k]]) /\ ~(key[f[k]] < key[f[j]])
    BY <1>2, <2>1
  <2>3. ~(j < k) /\ ~(k < j)
    BY <1>1, <2>1, <2>2
  <2> QED  BY <2>1, <2>3
<1>6. ASSUME NEW y \in B  PROVE \E j \in 1 .. i - 1 : g[j] = y
  <2>1. y \in R /\ key[y] < key[f[i]]
    OBVIOUS
  <2>2. PICK j \in 1 .. n : f[j] = y
    BY <2>1 DEF Ordered, Range
  <2>3. j # i
    BY <1>2, <2>1, <2>2
  <2>4. ~(i < j)
    BY <1>1, <1>2, <2>1, <2>2
  <2>5. j \in 1 .. i - 1
    BY <2>3, <2>4
  <2> QED  BY <2>2, <2>5
<1> HIDE DEF g, B
<1>7. ExistsBijection(1 .. i - 1, B)
  <2>1. g \in Bijection(1 .. i - 1, B)
    BY <1>4, <1>5, <1>6 DEF Bijection, Injection, Surjection, IsInjective
  <2> QED  BY <2>1 DEF ExistsBijection
<1>8. IsFiniteSet(1 .. i - 1) /\ Cardinality(1 .. i - 1) = i - 1
  <2>1. 1 \in Int /\ i - 1 \in Int /\ (1 > i - 1 => i - 1 = 0)
    OBVIOUS
  <2>2. (i - 1) - 1 + 1 = i - 1
    OBVIOUS
  <2> QED  BY <2>1, <2>2, FS_Interval
<1>9. Cardinality(B) = i - 1
  BY <1>7, <1>8, FS_Bijection
<1> QED  BY <1>9 DEF B, KeyRank

(* What InOrder lists. *)
LEMMA InOrderIs ==
  ASSUME NEW R, IsFiniteSet(R), NEW key \in [R -> Nat],
         \A q, r \in R : key[q] = key[r] => q = r
  PROVE  /\ Cardinality(R) \in Nat
         /\ InOrder(R, key) \in [1 .. Cardinality(R) -> R]
         /\ Ordered(InOrder(R, key), R, key, Cardinality(R))
<1> DEFINE n == Cardinality(R)
<1>1. n \in Nat
  BY Listing
<1>2. PICK f \in [1 .. n -> R] : Ordered(f, R, key, n)
  BY Listing
<1> HIDE DEF n
<1>3. ASSUME NEW i \in 1 .. n  PROVE KeyRank(f[i], R, key) = i - 1
  <2>1. Ranked(f, R, key, n)
    BY <1>1, <1>2, RankIs
  <2> QED  BY <2>1 DEF Ranked
<1>4. InOrder(R, key) = [i \in 1 .. n |-> CHOOSE x \in R : KeyRank(x, R, key) = i - 1]
  BY DEF InOrder, KeyRank, n
<1>5. ASSUME NEW i \in 1 .. n  PROVE (CHOOSE x \in R : KeyRank(x, R, key) = i - 1) = f[i]
  <2>1. ASSUME NEW x \in R, KeyRank(x, R, key) = i - 1  PROVE x = f[i]
    <3>1. PICK j \in 1 .. n : f[j] = x
      BY <1>2 DEF Ordered, Range
    <3>2. KeyRank(x, R, key) = j - 1
      BY <1>3, <3>1
    <3>3. j = i
      BY <2>1, <3>2
    <3> QED  BY <3>1, <3>3
  <2>2. f[i] \in R /\ KeyRank(f[i], R, key) = i - 1
    BY <1>3
  <2> QED  BY <2>1, <2>2
<1>6. InOrder(R, key) = f
  BY <1>4, <1>5
<1> QED  BY <1>1, <1>2, <1>6 DEF n

(* Values that follow each other: from the first, each by a step. *)
LEMMA Steps ==
  ASSUME NEW N \in Nat, NEW V, NEW v0 \in V, NEW G \in [1 .. N -> [V -> V]]
  PROVE  \E h \in [0 .. N -> V] :
            h[0] = v0 /\ \A k \in 1 .. N : h[k] = G[k][h[k - 1]]
<1> DEFINE Meets(h, n) == h[0] = v0 /\ \A k \in 1 .. n : h[k] = G[k][h[k - 1]]
           Begun == {n \in Nat : n <= N => \E h \in [0 .. n -> V] : Meets(h, n)}
<1>1. 0 \in Begun
  <2>1. [k \in 0 .. 0 |-> v0] \in [0 .. 0 -> V]
    OBVIOUS
  <2>2. Meets([k \in 0 .. 0 |-> v0], 0)
    OBVIOUS
  <2> QED  BY <2>1, <2>2
<1>2. ASSUME NEW n \in Nat, n \in Begun  PROVE n + 1 \in Begun
  <2> SUFFICES ASSUME n + 1 <= N
               PROVE  \E h \in [0 .. n + 1 -> V] : Meets(h, n + 1)
    <3> HIDE DEF Meets
    <3> QED  OBVIOUS
  <2>1. PICK h \in [0 .. n -> V] : Meets(h, n)
    BY <1>2
  <2> DEFINE g == [k \in 0 .. n + 1 |-> IF k <= n THEN h[k] ELSE G[n + 1][h[n]]]
  <2>2. h[n] \in V
    OBVIOUS
  <2>3. G[n + 1][h[n]] \in V
    BY <2>2
  <2>4. g \in [0 .. n + 1 -> V]
    BY <2>3
  <2>5. g[0] = v0
    BY <2>1
  <2>6. ASSUME NEW k \in 1 .. n + 1  PROVE g[k] = G[k][g[k - 1]]
    <3>1. CASE k = n + 1
      <4>1. g[k] = G[n + 1][h[n]] /\ g[k - 1] = h[n]
        BY <3>1
      <4> QED  BY <3>1, <4>1
    <3>2. CASE k # n + 1
      <4>1. k \in 1 .. n /\ k - 1 <= n /\ k - 1 \in Nat
        BY <3>2
      <4>2. h[k] = G[k][h[k - 1]]
        BY <2>1, <4>1
      <4>3. g[k] = h[k] /\ g[k - 1] = h[k - 1]
        BY <4>1
      <4> QED  BY <4>2, <4>3
    <3> QED  BY <3>1, <3>2
  <2>7. Meets(g, n + 1)
    BY <2>5, <2>6
  <2> HIDE DEF Meets, g
  <2> QED  BY <2>4, <2>7
<1>3. Nat \subseteq Begun
  <2> HIDE DEF Begun
  <2> QED  BY <1>1, <1>2, SetInduction
<1>4. N \in Begun
  BY <1>3
<1> QED  BY <1>4

(* The same, as one formula for all sets of values. *)
StepsIn(M, V) ==
  \A v0 \in V : \A F \in [1 .. M -> [V -> V]] :
     \E h \in [0 .. M -> V] :
        h[0] = v0 /\ \A k \in 1 .. M : h[k] = F[k][h[k - 1]]

LEMMA StepsAll == \A M \in Nat : \A V : StepsIn(M, V)
  BY Steps DEF StepsIn

(* Induction up to a bound. *)
LEMMA BoundedInduction ==
  ASSUME NEW N \in Nat, NEW T, 0 \in T,
         \A k \in 1 .. N : k - 1 \in T => k \in T
  PROVE  0 .. N \subseteq T
<1> DEFINE U == {n \in Nat : n <= N => n \in T}
<1>1. 0 \in U
  OBVIOUS
<1>2. ASSUME NEW n \in Nat, n \in U  PROVE n + 1 \in U
  <2>1. CASE n + 1 <= N
    <3>1. n + 1 \in 1 .. N /\ (n + 1) - 1 = n /\ n \in T
      BY <1>2, <2>1
    <3> QED  BY <3>1
  <2> QED  BY <2>1
<1>3. Nat \subseteq U
  <2> HIDE DEF U
  <2> QED  BY <1>1, <1>2, SetInduction
<1> QED  BY <1>3

(***************************************************************************)
(* The lengths of compressed pages.                                        *)
(***************************************************************************)
Givens ==
    /\ image \subseteq Pn /\ image # {}
    /\ length \in [image -> Lengths] /\ share \in Shares

\* The limits of compress.py fit each other and the buffer of the loader.
Limits ==
    /\ MaxRatio < 100 /\ MaxLength <= BufSize
    /\ PageUnits * MaxRatio <= 100 * BufSize

\* Some successive pages of the slice.
Run(ps) ==
    /\ ps \in Seq(image) /\ ps # <<>>
    /\ \A i \in 1 .. Len(ps) : ps[i] = ps[1] + i - 1

LEMMA GivensAre ==
  ASSUME Givens
  PROVE  /\ image \subseteq Nat /\ IsFiniteSet(image)
         /\ \A p \in image : length[p] \in Nat /\ share < length[p]
         /\ share \in Nat
<1> USE LoaderAssumption DEF Givens
<1>1. image \subseteq Nat
  OBVIOUS
<1>2. IsFiniteSet(image)
  <2>1. IsFiniteSet(Pn) /\ image \in SUBSET Pn
    OBVIOUS
  <2> QED  BY <2>1, FS_Subset
<1>3. share \in Nat
  OBVIOUS
<1>4. ASSUME NEW p \in image  PROVE length[p] \in Nat /\ share < length[p]
  <2>1. length[p] \in Lengths
    OBVIOUS
  <2> QED  BY <2>1
<1> QED  BY <1>1, <1>2, <1>3, <1>4

LEMMA UnitsAre ==
  /\ PageUnits \in Nat /\ PageUnits > 0 /\ MaxRatio \in Nat
  /\ MaxLength \in Nat /\ BufSize \in Nat /\ PageUnits * MaxRatio \in Nat
  BY LoaderAssumption

(* Length adds up what each page adds. *)
LEMMA LengthSums ==
  ASSUME Givens, NEW ps \in Seq(image)
  PROVE  \E h \in [0 .. Len(ps) -> Int] :
            /\ h[0] = share
            /\ \A n \in 1 .. Len(ps) : h[n] = h[n - 1] + length[ps[n]] - share
            /\ Length(ps) = h[Len(ps)]
<1> DEFINE N == Len(ps)
           G == [n \in 1 .. N |-> [x \in Int |-> x + length[ps[n]] - share]]
           Body(g) == [n \in 0 .. N |->
                IF n = 0 THEN share ELSE g[n - 1] + length[ps[n]] - share]
           sum == CHOOSE g : g = Body(g)
<1>1. N \in Nat /\ share \in Int
  BY GivensAre
<1>2. ASSUME NEW n \in 1 .. N  PROVE length[ps[n]] \in Int
  <2>1. ps[n] \in image
    OBVIOUS
  <2> QED  BY <2>1, GivensAre
<1>3. G \in [1 .. N -> [Int -> Int]]
  BY <1>1, <1>2
<1>4. PICK h \in [0 .. N -> Int] :
        h[0] = share /\ \A n \in 1 .. N : h[n] = G[n][h[n - 1]]
  <2> HIDE DEF G, N, Body, sum
  <2>1. StepsIn(N, Int)
    BY <1>1, StepsAll
  <2> QED  BY <1>1, <1>3, <2>1, Zenon DEF StepsIn
<1>5. ASSUME NEW n \in 1 .. N  PROVE h[n] = h[n - 1] + length[ps[n]] - share
  <2>1. n - 1 \in 0 .. N /\ h[n - 1] \in Int
    BY <1>1
  <2> QED  BY <1>4, <2>1
<1>6. h = Body(h)
  <2>1. ASSUME NEW n \in 0 .. N  PROVE h[n] = Body(h)[n]
    <3>1. CASE n = 0
      BY <1>4, <3>1
    <3>2. CASE n # 0
      <4>1. n \in 1 .. N
        BY <1>1, <3>2
      <4> QED  BY <1>5, <3>2, <4>1
    <3> QED  BY <3>1, <3>2
  <2>2. h = [n \in 0 .. N |-> h[n]]
    OBVIOUS
  <2> QED  BY <2>1, <2>2
<1>7. sum = Body(sum)
  <2> HIDE DEF Body
  <2> QED  BY <1>6
<1>8. Length(ps) = sum[N]
  BY DEF Length
<1> HIDE DEF sum
<1>9. sum[0] = share
  <2>1. 0 \in 0 .. N
    BY <1>1
  <2> QED  BY <1>7, <2>1
<1>10. ASSUME NEW n \in 1 .. N
       PROVE  sum[n] = sum[n - 1] + length[ps[n]] - share
  <2>1. n \in 0 .. N /\ n # 0
    BY <1>1
  <2> QED  BY <1>7, <2>1
<1> DEFINE Ints == {n \in 0 .. N : sum[n] \in Int}
<1>11. 0 .. N \subseteq Ints
  <2>1. 0 \in Ints
    BY <1>1, <1>9
  <2>2. ASSUME NEW n \in 1 .. N, n - 1 \in Ints  PROVE n \in Ints
    BY <1>1, <1>2, <1>10, <2>2
  <2> HIDE DEF Ints, N
  <2> QED  BY <1>1, <2>1, <2>2, BoundedInduction
<1>12. sum \in [0 .. N -> Int]
  <2>1. sum = [n \in 0 .. N |-> sum[n]]
    BY <1>7
  <2> QED  BY <1>11, <2>1
<1> QED  BY <1>8, <1>9, <1>10, <1>12

(* A compressed chunk is not empty, and shorter than what it is made of if  *)
(* each of its pages is.                                                    *)
LEMMA LengthIs ==
  ASSUME Givens, NEW ps \in Seq(image), ps # <<>>
  PROVE  /\ Length(ps) \in Nat \ {0}
         /\ Len(ps) = 1 => Length(ps) = length[ps[1]]
         /\ (\A i \in 1 .. Len(ps) : PacksWell(ps[i]))
               => 100 * Length(ps) <= Len(ps) * (PageUnits * MaxRatio)
<1> DEFINE N == Len(ps)
           K == PageUnits * MaxRatio
<1>1. N \in Nat /\ N >= 1 /\ K \in Nat /\ share \in Nat
  BY GivensAre, UnitsAre
<1>2. PICK h \in [0 .. N -> Int] :
            /\ h[0] = share
            /\ \A n \in 1 .. N : h[n] = h[n - 1] + length[ps[n]] - share
            /\ Length(ps) = h[N]
  BY LengthSums
<1>3. ASSUME NEW n \in 1 .. N
      PROVE  /\ length[ps[n]] \in Nat /\ share < length[ps[n]]
             /\ PacksWell(ps[n]) => length[ps[n]] * 100 <= K
             /\ n - 1 \in 0 .. N /\ h[n - 1] \in Int /\ h[n] \in Int
             /\ h[n] = h[n - 1] + length[ps[n]] - share
  <2>1. ps[n] \in image
    OBVIOUS
  <2>2. length[ps[n]] \in Nat /\ share < length[ps[n]]
    BY <2>1, GivensAre
  <2>3. n - 1 \in 0 .. N /\ n \in 0 .. N
    BY <1>1
  <2>4. h[n - 1] \in Int /\ h[n] \in Int
    BY <2>3
  <2>5. PacksWell(ps[n]) => length[ps[n]] * 100 <= K
    BY DEF PacksWell
  <2> QED  BY <1>2, <2>2, <2>3, <2>4, <2>5
<1> HIDE DEF N, K
<1>4. Length(ps) \in Nat \ {0}
  <2> DEFINE T == {n \in 0 .. N : n >= 1 => h[n] >= 1 + share}
  <2>0. 0 \in T
    BY <1>1
  <2>1. ASSUME NEW n \in 1 .. N, n - 1 \in T  PROVE n \in T
    <3>1. CASE n = 1
      <4>1. h[n - 1] = share
        BY <1>2, <3>1
      <4>2. h[n] = length[ps[n]]
        BY <1>1, <1>3, <4>1
      <4>3. length[ps[n]] \in Nat /\ share < length[ps[n]]
        BY <1>3
      <4>4. h[n] >= 1 + share
        BY <1>1, <4>2, <4>3
      <4> QED  BY <1>1, <4>4
    <3>2. CASE n # 1
      <4>1. h[n - 1] >= 1 + share
        BY <1>1, <2>1, <3>2
      <4>2. \A x, y \in Int : x >= 1 + share /\ share < y
                                => x + y - share >= 1 + share
        BY <1>1
      <4>3. h[n - 1] + length[ps[n]] - share >= 1 + share
        <5>1. h[n - 1] \in Int /\ length[ps[n]] \in Int /\ share < length[ps[n]]
          BY <1>3
        <5> QED  BY <4>1, <4>2, <5>1, Zenon
      <4>4. h[n] >= 1 + share
        BY <1>3, <4>3
      <4> QED  BY <1>1, <4>4
    <3> QED  BY <3>1, <3>2
  <2>2. 0 .. N \subseteq T
    <3> HIDE DEF T
    <3> QED  BY <1>1, <2>0, <2>1, BoundedInduction
  <2>3. N \in 0 .. N
    BY <1>1
  <2>4. h[N] >= 1 + share /\ h[N] \in Int
    BY <1>1, <2>2, <2>3
  <2> QED  BY <1>1, <1>2, <2>4
<1>5. N = 1 => Length(ps) = length[ps[1]]
  BY <1>1, <1>2, <1>3
<1>6. ASSUME \A i \in 1 .. N : PacksWell(ps[i])
      PROVE  100 * Length(ps) <= N * K
  <2> DEFINE T == {n \in 0 .. N : n >= 1 => 100 * h[n] <= n * K}
  <2>0. 0 \in T
    BY <1>1
  <2>1. ASSUME NEW n \in 1 .. N, n - 1 \in T  PROVE n \in T
    <3>1. length[ps[n]] * 100 <= K
      BY <1>3, <1>6
    <3>2. CASE n = 1
      <4>1. h[n - 1] = share
        BY <1>2, <3>2
      <4>2. h[n] = length[ps[n]]
        BY <1>1, <1>3, <4>1
      <4>3. 100 * h[n] <= K
        BY <1>1, <1>3, <3>1, <4>2
      <4>4. n * K = K
        BY <1>1, <3>2
      <4> QED  BY <1>1, <4>3, <4>4
    <3>3. CASE n # 1
      <4>1. 100 * h[n - 1] <= (n - 1) * K
        BY <1>1, <2>1, <3>3
      <4>2. (n - 1) * K + K = n * K /\ (n - 1) * K \in Int /\ n * K \in Int
        BY <1>1
      <4>3. \A x, y, z \in Int : 100 * x <= z /\ y * 100 <= K
                                   => 100 * (x + y - share) <= z + K
        BY <1>1
      <4>4. 100 * h[n] <= (n - 1) * K + K
        <5>1. h[n - 1] \in Int /\ length[ps[n]] \in Int
              /\ h[n] = h[n - 1] + length[ps[n]] - share
          BY <1>3
        <5>2. 100 * (h[n - 1] + length[ps[n]] - share) <= (n - 1) * K + K
          BY <3>1, <4>1, <4>2, <4>3, <5>1, Zenon
        <5> QED  BY <5>1, <5>2
      <4>5. 100 * h[n] <= n * K
        BY <4>2, <4>4
      <4> QED  BY <1>1, <4>5
    <3> QED  BY <3>2, <3>3
  <2>2. 0 .. N \subseteq T
    <3> HIDE DEF T
    <3> QED  BY <1>1, <2>0, <2>1, BoundedInduction
  <2>3. N \in 0 .. N
    BY <1>1
  <2> QED  BY <1>1, <1>2, <2>2, <2>3
<1> QED  BY <1>4, <1>5, <1>6 DEF N, K

(***************************************************************************)
(* Pages in order.                                                         *)
(***************************************************************************)
LEMMA SortedIs ==
  ASSUME NEW S \in SUBSET Nat, IsFiniteSet(S)
  PROVE  /\ Cardinality(S) \in Nat
         /\ Sorted(S) \in [1 .. Cardinality(S) -> S]
         /\ Sorted(S) \in Seq(S) /\ Len(Sorted(S)) = Cardinality(S)
         /\ \A i, j \in 1 .. Cardinality(S) : i < j => Sorted(S)[i] < Sorted(S)[j]
         /\ \A p \in S : \E i \in 1 .. Cardinality(S) : Sorted(S)[i] = p
<1> DEFINE key == [p \in S |-> p]
           n == Cardinality(S)
           f == InOrder(S, key)
<1>1. key \in [S -> Nat] /\ \A q, r \in S : key[q] = key[r] => q = r
  OBVIOUS
<1>2. n \in Nat /\ f \in [1 .. n -> S] /\ Ordered(f, S, key, n)
  <2> HIDE DEF key
  <2> QED  BY <1>1, InOrderIs
<1>3. Sorted(S) = f
  BY DEF Sorted
<1> HIDE DEF f, n
<1>4. f \in Seq(S) /\ Len(f) = n
  BY <1>2
<1>5. ASSUME NEW i \in 1 .. n, NEW j \in 1 .. n, i < j  PROVE f[i] < f[j]
  <2>1. key[f[i]] < key[f[j]]
    BY <1>2, <1>5 DEF Ordered
  <2>2. f[i] \in S /\ f[j] \in S
    BY <1>2
  <2> QED  BY <2>1, <2>2
<1>6. ASSUME NEW p \in S  PROVE \E i \in 1 .. n : f[i] = p
  BY <1>2 DEF Ordered, Range
<1> QED  BY <1>2, <1>3, <1>4, <1>5, <1>6 DEF n

(* A finite set of numbers has a greatest one. *)
LEMMA Greatest ==
  ASSUME NEW S \in SUBSET Nat, IsFiniteSet(S), S # {}
  PROVE  \E g \in S : \A p \in S : p <= g
<1> DEFINE f == Sorted(S)
           n == Cardinality(S)
<1>1. /\ n \in Nat /\ f \in [1 .. n -> S]
      /\ \A i, j \in 1 .. n : i < j => f[i] < f[j]
      /\ \A p \in S : \E i \in 1 .. n : f[i] = p
  BY SortedIs
<1> HIDE DEF f, n
<1>2. n \in 1 .. n /\ f[n] \in S
  <2>1. PICK p \in S : TRUE
    OBVIOUS
  <2>2. PICK i \in 1 .. n : f[i] = p
    BY <1>1
  <2>3. n \in 1 .. n
    BY <1>1
  <2> QED  BY <1>1, <2>3
<1>3. ASSUME NEW p \in S  PROVE p <= f[n]
  <2>1. PICK i \in 1 .. n : f[i] = p
    BY <1>1
  <2>2. i < n \/ i = n
    BY <1>1
  <2>3. i < n => p < f[n]
    BY <1>1, <1>2, <2>1
  <2>4. p \in Nat /\ f[n] \in Nat
    BY <1>2
  <2> QED  BY <2>1, <2>2, <2>3, <2>4
<1> QED  BY <1>2, <1>3

\* How many pages of S lie in front of p.
Ahead(S, p) == Cardinality({q \in S : q < p})

(* That is where p is in the list. *)
LEMMA Rank ==
  ASSUME NEW S \in SUBSET Nat, IsFiniteSet(S), NEW p \in S
  PROVE  /\ Ahead(S, p) \in Nat /\ Ahead(S, p) + 1 <= Cardinality(S)
         /\ Sorted(S)[Ahead(S, p) + 1] = p
<1> DEFINE f == Sorted(S)
           n == Cardinality(S)
           Q == {q \in S : q < p}
<1>1. /\ n \in Nat /\ f \in [1 .. n -> S]
      /\ \A i, j \in 1 .. n : i < j => f[i] < f[j]
      /\ \A q \in S : \E i \in 1 .. n : f[i] = q
  BY SortedIs
<1> HIDE DEF f, n
<1>2. PICK i \in 1 .. n : f[i] = p
  BY <1>1
<1> DEFINE g == [k \in 1 .. i - 1 |-> f[k]]
<1>3. ASSUME NEW k \in 1 .. i - 1  PROVE k \in 1 .. n /\ f[k] \in Q
  <2>1. k \in 1 .. n /\ k < i
    BY <1>1, <1>2
  <2>2. f[k] < f[i] /\ f[k] \in S
    BY <1>1, <1>2, <2>1
  <2> QED  BY <1>2, <2>1, <2>2
<1>4. g \in [1 .. i - 1 -> Q]
  BY <1>3
<1>5. ASSUME NEW q \in Q  PROVE \E k \in 1 .. i - 1 : g[k] = q
  <2>1. PICK k \in 1 .. n : f[k] = q
    BY <1>1
  <2>2. k < i \/ k = i \/ i < k
    BY <1>1
  <2>3. ~(i < k)
    <3>1. SUFFICES ASSUME i < k  PROVE FALSE
      OBVIOUS
    <3>2. p < q
      BY <1>1, <1>2, <2>1, <3>1
    <3> QED  BY <3>2
  <2>4. k # i
    BY <1>2, <2>1
  <2>5. k \in 1 .. i - 1
    BY <1>1, <2>2, <2>3, <2>4
  <2> QED  BY <2>1, <2>5
<1>6. ASSUME NEW k \in 1 .. i - 1, NEW m \in 1 .. i - 1, g[k] = g[m]
      PROVE  k = m
  <2>1. k \in 1 .. n /\ m \in 1 .. n /\ f[k] = f[m] /\ f[k] \in Nat
    BY <1>3, <1>6
  <2>2. k < m \/ k = m \/ m < k
    BY <1>1
  <2>3. ~(k < m) /\ ~(m < k)
    BY <1>1, <2>1
  <2> QED  BY <2>2, <2>3
<1>7. g \in Bijection(1 .. i - 1, Q)
  <2> HIDE DEF g, Q
  <2> QED  BY <1>4, <1>5, <1>6
           DEF Bijection, Injection, Surjection, IsInjective
<1>8. i - 1 \in Nat
  BY <1>1
<1>9. Cardinality(Q) = i - 1
  <2> HIDE DEF g, Q
  <2>1. ExistsBijection(1 .. i - 1, Q)
    BY <1>7 DEF ExistsBijection
  <2> QED  BY <1>8, <2>1, FS_CountingElements
<1>10. Ahead(S, p) = i - 1
  BY <1>9 DEF Ahead
<1> QED  BY <1>1, <1>2, <1>8, <1>10 DEF f, n

(* Along a run the places follow each other. *)
LEMMA RankOfRun ==
  ASSUME NEW S \in SUBSET Nat, IsFiniteSet(S), NEW r \in S, NEW k \in Nat,
         k >= 1, r .. r + k - 1 \subseteq S
  PROVE  /\ Ahead(S, r) \in Nat /\ Ahead(S, r) + k <= Cardinality(S)
         /\ Sorted(S)[Ahead(S, r) + k] = r + k - 1
<1> DEFINE p == r + k - 1
           Q == {q \in S : q < p}
           A == {q \in S : q < r}
           B == r .. p - 1
<1>1. r \in Nat /\ p \in Nat /\ r <= p /\ p \in r .. p
  OBVIOUS
<1>2. p \in S
  BY <1>1
<1>3. Q = A \cup B
  <2>1. ASSUME NEW q \in B  PROVE q \in Q
    <3>1. q \in r .. p /\ q < p
      BY <1>1
    <3> QED  BY <3>1
  <2>2. ASSUME NEW q \in Q  PROVE q \in A \cup B
    <3>1. q \in Nat /\ q \in S /\ q < p
      OBVIOUS
    <3> QED  BY <1>1, <3>1
  <2>3. A \subseteq Q
    <3>1. ASSUME NEW q \in A  PROVE q \in S /\ q < p
      <4>1. q \in Nat /\ q \in S /\ q < r
        OBVIOUS
      <4> QED  BY <1>1, <4>1
    <3> QED  BY <3>1
  <2> QED  BY <2>1, <2>2, <2>3
<1>4. A \cap B = {}
  BY <1>1
<1>5. IsFiniteSet(A) /\ Cardinality(A) \in Nat
  <2>1. A \in SUBSET S
    OBVIOUS
  <2>2. IsFiniteSet(A)
    <3> HIDE DEF A
    <3> QED  BY <2>1, FS_Subset
  <2> HIDE DEF A
  <2> QED  BY <2>2, FS_CardinalityType
<1>6. IsFiniteSet(B) /\ Cardinality(B) = k - 1
  <2>1. IsFiniteSet(B) /\ Cardinality(B) = IF r > p - 1 THEN 0 ELSE (p - 1) - r + 1
    <3>1. r \in Int /\ p - 1 \in Int
      BY <1>1
    <3> HIDE DEF p
    <3> QED  BY <3>1, FS_Interval
  <2> QED  BY <1>1, <2>1
<1>7. Cardinality(Q) = Cardinality(A) + Cardinality(B) - Cardinality({})
  <2> HIDE DEF A, B, Q
  <2>1. Cardinality(A \cup B) = Cardinality(A) + Cardinality(B) - Cardinality(A \cap B)
    BY <1>5, <1>6, FS_Union
  <2> QED  BY <1>3, <1>4, <2>1
<1>8. Cardinality({}) = 0
  BY FS_EmptySet
<1>9. Ahead(S, p) = Ahead(S, r) + k - 1 /\ Ahead(S, r) \in Nat
  BY <1>5, <1>6, <1>7, <1>8 DEF Ahead
<1>10. Ahead(S, p) + 1 <= Cardinality(S) /\ Sorted(S)[Ahead(S, p) + 1] = p
  <2> HIDE DEF p
  <2> QED  BY <1>2, Rank
<1>11. Ahead(S, p) + 1 = Ahead(S, r) + k
  BY <1>9
<1> QED  BY <1>9, <1>10, <1>11

(* The run of pages that begins at r. *)
LEMMA RunFromIs ==
  ASSUME Givens, NEW r \in image
  PROVE  /\ RunFrom(r) \in Nat \ {0}
         /\ r .. r + RunFrom(r) - 1 \subseteq image
         /\ \A p \in image : r <= p /\ r .. p \subseteq image
                                => p \in r .. r + RunFrom(r) - 1
<1> DEFINE T == {q \in image : q >= r /\ r .. q \subseteq image}
<1>1. image \subseteq Nat /\ IsFiniteSet(image) /\ r \in Nat
  BY GivensAre
<1>2. T \in SUBSET Nat /\ T \in SUBSET image
  BY <1>1
<1>3. r \in T
  <2>1. r .. r = {r}
    BY <1>1
  <2> QED  BY <1>1, <2>1
<1>4. IsFiniteSet(T)
  <2> HIDE DEF T
  <2> QED  BY <1>1, <1>2, FS_Subset
<1>5. PICK g \in T : \A p \in T : p <= g
  <2> HIDE DEF T
  <2> QED  BY <1>2, <1>3, <1>4, Greatest
<1>6. g \in Nat /\ g \in image /\ r <= g /\ r .. g \subseteq image
  BY <1>1
<1>7. T = r .. g
  <2>1. ASSUME NEW q \in r .. g  PROVE q \in T
    <3>1. r .. q \subseteq r .. g /\ q \in Nat /\ q >= r
      BY <1>1, <1>6
    <3> QED  BY <1>6, <3>1
  <2>2. ASSUME NEW q \in T  PROVE q \in r .. g
    <3>1. q <= g /\ q >= r /\ q \in Nat
      BY <1>2, <1>5
    <3> QED  BY <1>1, <1>6, <3>1
  <2> QED  BY <2>1, <2>2
<1>8. Cardinality(r .. g) = g - r + 1
  <2>1. Cardinality(r .. g) = IF r > g THEN 0 ELSE g - r + 1
    BY <1>1, <1>6, FS_Interval
  <2> QED  BY <1>1, <1>6, <2>1
<1>9. RunFrom(r) = g - r + 1
  BY <1>7, <1>8 DEF RunFrom
<1>10. r + RunFrom(r) - 1 = g
  BY <1>1, <1>6, <1>9
<1>11. ASSUME NEW p \in image, r <= p, r .. p \subseteq image  PROVE p \in r .. g
  <2>1. p \in T
    BY <1>1, <1>11
  <2> QED  BY <1>7, <2>1
<1> QED  BY <1>1, <1>6, <1>9, <1>10, <1>11

(* Every page belongs to a run. *)
LEMMA RunAround ==
  ASSUME Givens, NEW p \in image
  PROVE  \E r \in image : r - 1 \notin image /\ r <= p /\ r .. p \subseteq image
<1> DEFINE T == {r \in image : r <= p /\ r .. p \subseteq image}
<1>1. image \subseteq Nat /\ p \in Nat
  BY GivensAre
<1>2. T \in SUBSET Nat
  BY <1>1
<1>3. p \in T
  <2>1. p .. p = {p}
    BY <1>1
  <2> QED  BY <1>1, <2>1
<1>4. PICK r \in T : \A q \in T : r <= q
  <2> HIDE DEF T
  <2> QED  BY <1>2, <1>3, NatLeast
<1>5. r \in Nat /\ r <= p /\ r .. p \subseteq image
  BY <1>1
<1>6. ASSUME r - 1 \in image  PROVE FALSE
  <2>1. r - 1 \in Nat /\ r - 1 <= p
    BY <1>1, <1>5, <1>6
  <2>2. ASSUME NEW q \in r - 1 .. p  PROVE q \in image
    <3>1. q = r - 1 \/ q \in r .. p
      BY <1>1, <1>5
    <3> QED  BY <1>5, <1>6, <3>1
  <2>3. r - 1 \in T
    BY <1>6, <2>1, <2>2
  <2>4. r <= r - 1
    BY <1>4, <2>3
  <2> QED  BY <1>5, <2>4
<1> QED  BY <1>5, <1>6

(***************************************************************************)
(* The inductive invariant.                                                *)
(***************************************************************************)
Unit == [zip : BOOLEAN, of : Seq(image), at : Nat]

LineSet == [addr : Nat, offset : Nat, size : Nat \ {0}, length : Nat \ {0}]

LinePages(line) == line.addr .. line.addr + line.size - 1

PagesOf(line) == [i \in 1 .. line.size |-> line.addr + i - 1]

\* The data a line describes.
UnitsOf(line) == IF Plain(line) THEN Raw(PagesOf(line))
                                ELSE Compressed(PagesOf(line))

\* What is there of it, when the dump may have been cut.
DataOk(line, data) ==
    \A k \in 1 .. line.length :
        line.offset + k <= Len(data) => data[line.offset + k] = UnitsOf(line)[k]

LineOk(line) ==
    /\ line \in LineSet /\ LinePages(line) \subseteq image
    /\ ~Plain(line) => /\ line.length = Length(PagesOf(line))
                       /\ line.length <= BufSize

Lines ==
    /\ cfg.lines \in Seq(LineSet)
    /\ \A i \in 1 .. Len(cfg.lines) : LineOk(cfg.lines[i])

Data == \A i \in 1 .. Len(cfg.lines) : DataOk(cfg.lines[i], dump)

\* Lines describe different pages.
Apart(l, m) == l.addr + l.size <= m.addr \/ m.addr + m.size <= l.addr

LinesApart ==
    \A i, j \in 1 .. Len(cfg.lines) : i # j => Apart(cfg.lines[i], cfg.lines[j])

\* They are written in the order of the dump.
OffsetsGrow ==
    \A i, j \in 1 .. Len(cfg.lines) :
        i < j => cfg.lines[i].offset < cfg.lines[j].offset

Described(p) == \E i \in 1 .. Len(cfg.lines) : p \in LinePages(cfg.lines[i])

\* A configuration that main accepts describes all of the slice.
Complete == ParseOk => \A p \in image : Described(p)

InChunks(chunks, p) ==
    \E i \in 1 .. Len(chunks) : \E k \in 1 .. Len(chunks[i]) : chunks[i][k] = p

\* Chunks are runs, one after another.
Chunks(chunks) ==
    /\ chunks \in Seq(Seq(image))
    /\ \A i \in 1 .. Len(chunks) : Run(chunks[i])
    /\ \A i, j \in 1 .. Len(chunks) :
          i < j => chunks[i][1] + Len(chunks[i]) <= chunks[j][1]

\* Which pages are compressed, and how far they are joined.
Packed ==
    /\ Chunks(comp) /\ Chunks(uncomp)
    /\ \A p \in image : InChunks(comp, p) => PacksWell(p)
    /\ \A p \in image : InChunks(uncomp, p) => ~PacksWell(p)
    /\ \A i \in 1 .. Len(comp) :
          Len(comp[i]) = 1 \/ Length(comp[i]) <= MaxLength

Packing ==
    phase = "pack" =>
    /\ Packed
    /\ unpacked \in Seq(image)
    /\ \A i, j \in 1 .. Len(unpacked) : i < j => unpacked[i] < unpacked[j]
    /\ \A p \in image : InChunks(comp, p) \/ InChunks(uncomp, p)
          => \A i \in 1 .. Len(unpacked) : p < unpacked[i]
    /\ \A p \in image : \/ InChunks(comp, p) \/ InChunks(uncomp, p)
                        \/ \E i \in 1 .. Len(unpacked) : unpacked[i] = p

Writing ==
    phase = "write" =>
    /\ Packed
    /\ cfg.entry = FALSE
    /\ cfg.num = Len(cfg.lines) + Len(comp) + Len(uncomp)
    /\ \A p \in image :
          Described(p) \/ InChunks(comp, p) \/ InChunks(uncomp, p)
    /\ \A p \in image :
          Described(p) => ~InChunks(comp, p) /\ ~InChunks(uncomp, p)

\* Until it is closed, the whole dump is there.
DumpWhole ==
    phase \in {"write", "close"} =>
        \A i \in 1 .. Len(cfg.lines) :
            cfg.lines[i].offset + cfg.lines[i].length <= Len(dump)

Loaded(line) == \A p \in LinePages(line) : mem[p] = p

Mapping ==
    /\ phase \in {"place", "map", "running"} => ParseOk
    /\ phase \in {"place", "map"} =>
          /\ mcs \in Seq(LineSet)
          /\ \A i \in 1 .. Len(mcs) : \E j \in 1 .. Len(cfg.lines) :
                mcs[i] = cfg.lines[j]
    /\ phase = "place" =>
          /\ \A j \in 1 .. Len(cfg.lines) : \E i \in 1 .. Len(mcs) :
                mcs[i] = cfg.lines[j]
          /\ \A i, j \in 1 .. Len(mcs) : i < j => mcs[i].addr < mcs[j].addr
    /\ phase = "map" =>
          \A j \in 1 .. Len(cfg.lines) :
              \/ Loaded(cfg.lines[j])
              \/ \E i \in 1 .. Len(mcs) : mcs[i] = cfg.lines[j]
    /\ phase = "running" =>
          \A j \in 1 .. Len(cfg.lines) : Loaded(cfg.lines[j])

\* The loader's own pages are apart from all lines.
Placed ==
    phase \in {"map", "running"} =>
        /\ base \in Nat /\ ClBase <= base /\ base + TotalPages <= ClTop
        /\ \A p \in base .. base + TotalPages - 1 : ~Described(p)
        /\ \A p \in base .. base + TotalPages - 1 :
              mem[p] = IF p < base + ClPages THEN Cl ELSE Mc

Shape ==
    /\ phase \in {"dump", "pack", "write", "close", "parse", "place", "map",
                  "running", "failed"}
    /\ cfg \in [num : Nat, lines : Seq(LineSet), entry : BOOLEAN]
    /\ dump \in Seq(Unit)
    /\ mem \in [Pn -> Pn \cup {Nothing, Cl, Mc}]
    /\ fault \in BOOLEAN
    /\ phase = "dump" => comp = <<>> /\ uncomp = <<>>

LInv ==
    /\ Givens /\ Shape /\ Lines /\ Data /\ LinesApart /\ OffsetsGrow /\ Complete
    /\ Packing /\ Writing /\ DumpWhole /\ Mapping /\ Placed

LEMMA LoaderInitInv == LoaderInit => LInv
<1> SUFFICES ASSUME LoaderInit  PROVE LInv
  OBVIOUS
<1> USE LoaderAssumption DEF LoaderInit
<1>1. Givens
  <2>1. image \subseteq Pn /\ Cardinality(image) \in 1 .. MaxImage
    OBVIOUS
  <2>2. image # {}
    <3>1. Cardinality({}) = 0
      BY FS_EmptySet
    <3>2. Cardinality(image) # 0
      BY <2>1
    <3> QED  BY <3>1, <3>2
  <2> QED  BY <2>1, <2>2 DEF Givens
<1>2. cfg.lines = <<>> /\ cfg.num = 0 /\ cfg.entry = FALSE /\ Len(cfg.lines) = 0
  BY DEF NoFile
<1>3. Shape
  <2>1. cfg \in [num : Nat, lines : Seq(LineSet), entry : BOOLEAN]
    BY DEF NoFile
  <2>2. mem \in [Pn -> Pn \cup {Nothing, Cl, Mc}]
    OBVIOUS
  <2>3. phase = "dump" /\ comp = <<>> /\ uncomp = <<>> /\ fault = FALSE
    OBVIOUS
  <2>4. dump \in Seq(Unit)
    OBVIOUS
  <2> HIDE DEF LoaderInit
  <2> QED  BY <2>1, <2>2, <2>3, <2>4 DEF Shape
<1>4. ~ParseOk /\ phase = "dump"
  BY <1>2 DEF ParseOk
<1>5. Lines /\ Data /\ LinesApart /\ OffsetsGrow
  <2>1. cfg.lines \in Seq(LineSet)
    BY <1>2
  <2> QED  BY <1>2, <2>1 DEF Lines, Data, LinesApart, OffsetsGrow
<1> HIDE DEF LoaderInit
<1>6. Complete /\ Packing /\ Writing /\ DumpWhole /\ Mapping /\ Placed
  BY <1>4 DEF Complete, Packing, Writing, DumpWhole, Mapping, Placed
<1> QED  BY <1>1, <1>3, <1>5, <1>6 DEF LInv

(***************************************************************************)
(* Units of pages.                                                         *)
(***************************************************************************)
LEMMA DivIs ==
  ASSUME NEW P \in Nat, P > 0, NEW q \in Nat, NEW r \in 0 .. P - 1, NEW x \in Nat,
         x = P * q + r
  PROVE  x \div P = q /\ x % P = r
<1> DEFINE u == x \div P
           v == x % P
<1>1. u \in Int /\ v \in 0 .. P - 1 /\ x = P * u + v
  OBVIOUS
<1> HIDE DEF u, v
<1>2. ASSUME NEW a \in Int, NEW b \in Int, a < b  PROVE P * a + P <= P * b
  <2>1. P * b = P * a + P * (b - a)
    BY <1>2
  <2>2. P * (b - a) >= P
    <3>1. b - a \in Nat /\ b - a >= 1
      BY <1>2
    <3> DEFINE d == b - a
    <3>2. d \in Nat /\ d >= 1
      BY <3>1
    <3> HIDE DEF d
    <3>3. P * d >= P
      BY <3>2
    <3> QED  BY <3>3 DEF d
  <2>3. P * a \in Int /\ P * (b - a) \in Int
    BY <1>2
  <2> QED  BY <2>1, <2>2, <2>3
<1>3. P * u \in Int /\ P * q \in Int
  BY <1>1
<1>4. ~(u < q)
  <2>1. SUFFICES ASSUME u < q  PROVE FALSE
    OBVIOUS
  <2>2. P * u + P <= P * q
    BY <1>1, <1>2, <2>1
  <2> QED  BY <1>1, <1>3, <2>2
<1>5. ~(q < u)
  <2>1. SUFFICES ASSUME q < u  PROVE FALSE
    OBVIOUS
  <2>2. P * q + P <= P * u
    BY <1>1, <1>2, <2>1
  <2> QED  BY <1>1, <1>3, <2>2
<1>6. u = q
  BY <1>1, <1>4, <1>5
<1>7. v = r
  BY <1>1, <1>3, <1>6
<1> QED  BY <1>6, <1>7 DEF u, v

(* Whole pages in front of a place do not change where it is in its page. *)
LEMMA DivShift ==
  ASSUME NEW P \in Nat, P > 0, NEW a \in Nat, NEW x \in Nat
  PROVE  /\ x \div P \in Nat /\ x % P \in 0 .. P - 1
         /\ x = P * (x \div P) + (x % P)
         /\ (P * a + x) \div P = a + (x \div P)
         /\ (P * a + x) % P = x % P
<1> DEFINE u == x \div P
           v == x % P
<1>1. u \in Int /\ v \in 0 .. P - 1 /\ x = P * u + v
  OBVIOUS
<1> HIDE DEF u, v
<1>2. u \in Nat
  <2>1. SUFFICES ASSUME u <= -1  PROVE FALSE
    BY <1>1
  <2>2. P * u <= -P
    <3>1. P * u = -(P * (-u))
      BY <1>1
    <3> DEFINE d == -u
    <3>2. d \in Nat /\ d >= 1
      BY <1>1, <2>1
    <3> HIDE DEF d
    <3>3. P * d >= P /\ P * d \in Int
      BY <3>2
    <3>4. P * (-u) >= P /\ P * (-u) \in Int
      BY <3>3 DEF d
    <3> QED  BY <3>1, <3>4
  <2>3. P * u \in Int
    BY <1>1
  <2> QED  BY <1>1, <2>2, <2>3
<1>3. P * (a + u) = P * a + P * u /\ P * a \in Nat /\ P * u \in Nat
  BY <1>2
<1>4. P * a + x = P * (a + u) + v /\ P * a + x \in Nat /\ a + u \in Nat
  BY <1>1, <1>2, <1>3
<1>5. (P * a + x) \div P = a + u /\ (P * a + x) % P = v
  <2> DEFINE y == P * a + x
             b == a + u
  <2>1. y \in Nat /\ b \in Nat /\ y = P * b + v
    BY <1>4
  <2> HIDE DEF y, b
  <2>2. y \div P = b /\ y % P = v
    BY <1>1, <2>1, DivIs
  <2> QED  BY <2>2 DEF y, b
<1> QED  BY <1>1, <1>2, <1>5 DEF u, v

(* A place in n pages is a page and a place in it. *)
LEMMA PlaceIn ==
  ASSUME NEW n \in Nat, NEW k \in 1 .. n * PageUnits
  PROVE  /\ n * PageUnits \in Nat /\ k - 1 \in Nat
         /\ (k - 1) \div PageUnits + 1 \in 1 .. n
         /\ (k - 1) % PageUnits \in 0 .. PageUnits - 1
<1> DEFINE P == PageUnits
           x == k - 1
           u == x \div P
           v == x % P
<1>1. P \in Nat /\ P > 0
  BY UnitsAre
<1>2. n * P \in Nat
  BY <1>1
<1>3. x \in Nat /\ x < n * P
  BY <1>2
<1> HIDE DEF x
<1>4. u \in Nat /\ v \in 0 .. P - 1 /\ x = P * u + v
  <2>1. 0 \in Nat
    OBVIOUS
  <2> HIDE DEF P
  <2> QED  BY <1>1, <1>3, <2>1, DivShift
<1> HIDE DEF u, v, P
<1>5. u < n
  <2>1. SUFFICES ASSUME n <= u  PROVE FALSE
    BY <1>4
  <2>2. P * u = n * P + P * (u - n)
    BY <1>1, <1>4
  <2>3. P * (u - n) \in Nat
    <3>1. u - n \in Nat
      BY <1>4, <2>1
    <3> QED  BY <1>1, <3>1
  <2> QED  BY <1>1, <1>2, <1>3, <1>4, <2>2, <2>3
<1>6. u + 1 \in 1 .. n
  BY <1>4, <1>5
<1> QED  BY <1>2, <1>3, <1>4, <1>6 DEF u, v, x, P

LEMMA RawIs ==
  ASSUME NEW ps \in Seq(image)
  PROVE  /\ Raw(ps) \in Seq(Unit) /\ Len(Raw(ps)) = Len(ps) * PageUnits
         /\ Len(ps) * PageUnits \in Nat
         /\ \A k \in 1 .. Len(ps) * PageUnits :
               Raw(ps)[k] = [zip |-> FALSE,
                             of |-> <<ps[((k - 1) \div PageUnits) + 1]>>,
                             at |-> ((k - 1) % PageUnits) + 1]
<1> DEFINE n == Len(ps) * PageUnits
           U(k) == [zip |-> FALSE, of |-> <<ps[((k - 1) \div PageUnits) + 1]>>,
                    at |-> ((k - 1) % PageUnits) + 1]
<1>1. n \in Nat
  BY UnitsAre
<1>2. ASSUME NEW k \in 1 .. n  PROVE U(k) \in Unit
  <2>1. Len(ps) \in Nat
    OBVIOUS
  <2>2. /\ (k - 1) \div PageUnits + 1 \in 1 .. Len(ps)
        /\ (k - 1) % PageUnits \in 0 .. PageUnits - 1
    BY <2>1, PlaceIn
  <2> DEFINE i == (k - 1) \div PageUnits + 1
             v == (k - 1) % PageUnits
  <2>3. i \in 1 .. Len(ps) /\ v \in 0 .. PageUnits - 1
    BY <2>2
  <2> HIDE DEF i, v
  <2>4. ps[i] \in image
    BY <2>3
  <2>5. <<ps[i]>> \in Seq(image) /\ v + 1 \in Nat
    BY <2>3, <2>4, UnitsAre
  <2>6. [zip |-> FALSE, of |-> <<ps[i]>>, at |-> v + 1] \in Unit
    BY <2>5 DEF Unit
  <2> QED  BY <2>6 DEF i, v
<1>3. Raw(ps) = [k \in 1 .. n |-> U(k)]
  BY DEF Raw
<1> HIDE DEF n, U
<1>4. Raw(ps) \in Seq(Unit) /\ Len(Raw(ps)) = n
  BY <1>1, <1>2, <1>3
<1>5. \A k \in 1 .. n : Raw(ps)[k] = U(k)
  BY <1>3
<1> QED  BY <1>1, <1>4, <1>5 DEF n, U

LEMMA CompressedIs ==
  ASSUME Givens, NEW ps \in Seq(image), ps # <<>>
  PROVE  /\ Compressed(ps) \in Seq(Unit) /\ Len(Compressed(ps)) = Length(ps)
         /\ \A k \in 1 .. Length(ps) :
               Compressed(ps)[k] = [zip |-> TRUE, of |-> ps, at |-> k]
<1>1. Length(ps) \in Nat
  BY LengthIs
<1> DEFINE n == Length(ps)
<1>2. Compressed(ps) = [k \in 1 .. n |-> [zip |-> TRUE, of |-> ps, at |-> k]]
  BY DEF Compressed
<1> HIDE DEF n
<1>3. n \in Nat
  BY <1>1 DEF n
<1>4. ASSUME NEW k \in 1 .. n  PROVE [zip |-> TRUE, of |-> ps, at |-> k] \in Unit
  BY <1>3 DEF Unit
<1>5. Compressed(ps) \in Seq(Unit) /\ Len(Compressed(ps)) = n
  BY <1>2, <1>3, <1>4
<1> QED  BY <1>2, <1>3, <1>5 DEF n

(* What depends on the slice only stays as it is. *)
LEMMA SameLength ==
  ASSUME UNCHANGED given, NEW ps
  PROVE  Length(ps)' = Length(ps)
  BY DEF given, Length

LEMMA SameUnits ==
  ASSUME UNCHANGED given, NEW line
  PROVE  UnitsOf(line)' = UnitsOf(line)
<1>1. Compressed(PagesOf(line))' = Compressed(PagesOf(line))
  <2> DEFINE ps == PagesOf(line)
  <2>1. Length(ps)' = Length(ps)
    BY SameLength
  <2>2. ps' = ps
    BY DEF PagesOf
  <2> HIDE DEF ps
  <2>3. Compressed(ps)' = Compressed(ps)
    BY <2>1, <2>2 DEF Compressed
  <2> QED  BY <2>3 DEF ps
<1> QED  BY <1>1 DEF UnitsOf

LEMMA SameLine ==
  ASSUME UNCHANGED given, NEW line
  PROVE  LineOk(line)' <=> LineOk(line)
<1>1. Length(PagesOf(line))' = Length(PagesOf(line))
  <2> DEFINE ps == PagesOf(line)
  <2>1. Length(ps)' = Length(ps)
    BY SameLength
  <2> QED  BY <2>1
<1>2. image' = image
  BY DEF given
<1> QED  BY <1>1, <1>2 DEF LineOk

LEMMA SameData ==
  ASSUME UNCHANGED given, NEW line, NEW data
  PROVE  DataOk(line, data)' <=> DataOk(line, data)
<1>1. UnitsOf(line)' = UnitsOf(line)
  BY SameUnits
<1> QED  BY <1>1 DEF DataOk

LEMMA SameGivens ==
  ASSUME UNCHANGED given
  PROVE  /\ Givens' = Givens /\ image' = image /\ length' = length
         /\ share' = share /\ Unit' = Unit
  BY DEF given, Givens, Unit

(* As long as nobody writes the files, they stay good. *)
LEMMA SameFiles ==
  ASSUME LInv, UNCHANGED given, UNCHANGED files
  PROVE  (Givens /\ Lines /\ Data /\ LinesApart /\ OffsetsGrow /\ Complete)'
<1>1. cfg' = cfg /\ dump' = dump /\ image' = image
  BY DEF files, given
<1>2. Givens'
  BY SameGivens DEF LInv
<1>3. Lines'
  BY <1>1, SameLine DEF LInv, Lines
<1>4. Data'
  BY <1>1, SameData DEF LInv, Data
<1>5. LinesApart' /\ OffsetsGrow'
  BY <1>1 DEF LInv, LinesApart, OffsetsGrow
<1>6. Complete'
  BY <1>1 DEF LInv, Complete, ParseOk, Described
<1> QED  BY <1>2, <1>3, <1>4, <1>5, <1>6

(***************************************************************************)
(* PageMap.dump.                                                           *)
(***************************************************************************)
Starts == {p \in image : p - 1 \notin image}

\* The line of the run that begins at r.
RunLine(r) ==
    [addr |-> r, size |-> RunFrom(r), offset |-> PageUnits * Ahead(image, r),
     length |-> PageUnits * RunFrom(r)]

LEMMA StartsAre ==
  ASSUME Givens
  PROVE  /\ Starts \in SUBSET Nat /\ Starts \subseteq image /\ IsFiniteSet(Starts)
         /\ Len(RunStarts) = Cardinality(Starts) /\ Len(RunStarts) \in Nat
         /\ \A i \in 1 .. Len(RunStarts) :
               RunStarts[i] \in Starts /\ RunStarts[i] \in Nat
         /\ \A i, j \in 1 .. Len(RunStarts) : i < j => RunStarts[i] < RunStarts[j]
         /\ \A p \in Starts : \E i \in 1 .. Len(RunStarts) : RunStarts[i] = p
<1>1. image \subseteq Nat /\ IsFiniteSet(image)
  BY GivensAre
<1>2. Starts \in SUBSET image /\ Starts \in SUBSET Nat
  BY <1>1 DEF Starts
<1>3. IsFiniteSet(Starts)
  BY <1>1, <1>2, FS_Subset
<1>4. RunStarts = Sorted(Starts)
  BY DEF RunStarts, Starts
<1>5. /\ Cardinality(Starts) \in Nat
      /\ RunStarts \in [1 .. Cardinality(Starts) -> Starts]
      /\ Len(RunStarts) = Cardinality(Starts)
      /\ \A i, j \in 1 .. Cardinality(Starts) :
            i < j => RunStarts[i] < RunStarts[j]
      /\ \A p \in Starts : \E i \in 1 .. Cardinality(Starts) : RunStarts[i] = p
  BY <1>2, <1>3, <1>4, SortedIs
<1>6. ASSUME NEW i \in 1 .. Len(RunStarts)
      PROVE  RunStarts[i] \in Starts /\ RunStarts[i] \in Nat
  BY <1>2, <1>5
<1> QED  BY <1>2, <1>3, <1>5, <1>6

LEMMA RunLineIs ==
  ASSUME Givens, NEW r \in image
  PROVE  /\ RunLine(r) \in LineSet /\ Plain(RunLine(r)) /\ LineOk(RunLine(r))
         /\ RunLine(r).addr = r /\ RunLine(r).size = RunFrom(r)
         /\ RunLine(r).offset = PageUnits * Ahead(image, r)
<1> DEFINE m == RunFrom(r)
           a == Ahead(image, r)
<1>1. r \in Nat /\ image \in SUBSET Nat /\ IsFiniteSet(image)
  BY GivensAre
<1>2. m \in Nat \ {0} /\ r .. r + m - 1 \subseteq image
  BY RunFromIs
<1>3. a \in Nat
  BY <1>1, Rank
<1>4. RunLine(r) = [addr |-> r, size |-> m, offset |-> PageUnits * a,
                    length |-> PageUnits * m]
  BY DEF RunLine
<1> HIDE DEF m, a
<1>5. PageUnits * a \in Nat /\ PageUnits * m \in Nat \ {0}
      /\ PageUnits * m = m * PageUnits
  BY <1>2, <1>3, UnitsAre
<1>6. RunLine(r) \in LineSet
  BY <1>1, <1>2, <1>4, <1>5 DEF LineSet
<1>7. Plain(RunLine(r))
  BY <1>4, <1>5 DEF Plain
<1>8. LinePages(RunLine(r)) \subseteq image
  BY <1>2, <1>4 DEF LinePages
<1> QED  BY <1>4, <1>6, <1>7, <1>8 DEF LineOk, m, a

(* The data of a run is where its line says. *)
LEMMA RunLineData ==
  ASSUME Givens, NEW r \in image
  PROVE  DataOk(RunLine(r), Raw(Sorted(image)))
<1> DEFINE m == RunFrom(r)
           a == Ahead(image, r)
           line == RunLine(r)
           f == Sorted(image)
           P == PageUnits
<1>1. r \in Nat /\ image \in SUBSET Nat /\ IsFiniteSet(image)
  BY GivensAre
<1>2. m \in Nat /\ m >= 1 /\ r .. r + m - 1 \subseteq image
  BY RunFromIs
<1>3. a \in Nat
  BY <1>1, Rank
<1>4. line = [addr |-> r, size |-> m, offset |-> P * a, length |-> P * m]
  BY DEF RunLine
<1>5. Plain(line) /\ LineOk(line)
  BY RunLineIs
<1>6. f \in Seq(image)
  BY <1>1, SortedIs
<1>7. P \in Nat /\ P > 0
  BY UnitsAre
<1> DEFINE ps == PagesOf(line)
<1>8. ps = [i \in 1 .. m |-> r + i - 1]
  BY <1>4 DEF PagesOf
<1>9. ps \in Seq(image) /\ Len(ps) = m
  <2>1. ASSUME NEW i \in 1 .. m  PROVE r + i - 1 \in image
    <3>1. r + i - 1 \in r .. r + m - 1
      BY <1>1, <1>2
    <3> QED  BY <1>2, <3>1
  <2> HIDE DEF ps, m
  <2> QED  BY <1>2, <1>8, <2>1
<1>10. UnitsOf(line) = Raw(ps)
  BY <1>5 DEF UnitsOf
<1>11. SUFFICES ASSUME NEW k \in 1 .. P * m, P * a + k <= Len(Raw(f))
                PROVE  Raw(f)[P * a + k] = Raw(ps)[k]
  <2> HIDE DEF ps, f, m, a, line, P
  <2>1. line.length = P * m /\ line.offset = P * a
    BY <1>4
  <2>2. DataOk(line, Raw(f))
    BY <1>10, <1>11, <2>1 DEF DataOk
  <2> QED  BY <2>2 DEF line, f
<1> HIDE DEF m, a, f, line, ps, P
<1>12. P * a \in Nat /\ P * m \in Nat /\ P * m = m * P
  BY <1>2, <1>3, <1>7
<1> DEFINE x == k - 1
           u == x \div P
           v == x % P
<1>13. x \in Nat /\ k = x + 1
  BY <1>12
<1>14. u + 1 \in 1 .. m
  <2>1. k \in 1 .. m * P
    BY <1>12
  <2> QED  BY <1>2, <2>1, PlaceIn DEF P
<1>15. (P * a + x) \div P = a + u /\ (P * a + x) % P = v /\ u \in Nat
  <2> HIDE DEF x
  <2> QED  BY <1>3, <1>7, <1>13, DivShift
<1>16. (P * a + k) - 1 = P * a + x
  BY <1>12, <1>13
<1>17. P * a + k \in 1 .. Len(f) * P
  <2>1. Len(Raw(f)) = Len(f) * P /\ Len(f) * P \in Nat
    BY <1>6, RawIs DEF P
  <2> QED  BY <1>11, <1>12, <2>1
<1>18. Raw(f)[P * a + k] =
         [zip |-> FALSE, of |-> <<f[(((P * a + k) - 1) \div P) + 1]>>,
          at |-> (((P * a + k) - 1) % P) + 1]
  BY <1>6, <1>17, RawIs DEF P
<1>19. Raw(f)[P * a + k] = [zip |-> FALSE, of |-> <<f[a + u + 1]>>, at |-> v + 1]
  <2> HIDE DEF u, v, x
  <2> QED  BY <1>15, <1>16, <1>18
<1>20. k \in 1 .. Len(ps) * P
  BY <1>9, <1>12
<1>21. Raw(ps)[k] = [zip |-> FALSE, of |-> <<ps[u + 1]>>, at |-> v + 1]
  BY <1>9, <1>20, RawIs DEF P
<1> HIDE DEF u, v, x
<1>22. ps[u + 1] = r + (u + 1) - 1
  BY <1>8, <1>14
<1>23. f[a + u + 1] = r + (u + 1) - 1
  <2> DEFINE w == u + 1
  <2>1. w \in Nat /\ w >= 1 /\ w <= m
    BY <1>2, <1>14
  <2> HIDE DEF w
  <2>2. r .. r + w - 1 \subseteq image
    <3>1. r .. r + w - 1 \subseteq r .. r + m - 1
      BY <1>1, <1>2, <2>1
    <3> QED  BY <1>2, <3>1
  <2>3. Sorted(image)[Ahead(image, r) + w] = r + w - 1
    BY <1>1, <2>1, <2>2, RankOfRun
  <2>4. f[a + w] = r + w - 1
    BY <2>3 DEF f, a
  <2>5. a + u + 1 = a + w
    BY <1>3, <1>15 DEF w
  <2> QED  BY <2>4, <2>5 DEF w
<1> QED  BY <1>19, <1>21, <1>22, <1>23

(* Runs do not meet, and their data is in the order of their pages. *)
LEMMA RunsApart ==
  ASSUME Givens, NEW q \in Starts, NEW r \in Starts, q < r
  PROVE  /\ q + RunFrom(q) <= r
         /\ PageUnits * Ahead(image, q) < PageUnits * Ahead(image, r)
<1>1. /\ image \in SUBSET Nat /\ IsFiniteSet(image) /\ q \in image /\ r \in image
      /\ q \in Nat /\ r \in Nat /\ r - 1 \notin image
  BY GivensAre DEF Starts
<1> DEFINE m == RunFrom(q)
<1>2. m \in Nat \ {0} /\ q .. q + m - 1 \subseteq image
  BY <1>1, RunFromIs
<1> HIDE DEF m
<1>3. q + m <= r
  <2>1. SUFFICES ASSUME ~(q + m <= r)  PROVE FALSE
    OBVIOUS
  <2>2. r - 1 \in q .. q + m - 1
    BY <1>1, <1>2, <2>1
  <2> QED  BY <1>1, <1>2, <2>2
<1> DEFINE a == Ahead(image, q)
           b == Ahead(image, r)
           f == Sorted(image)
           n == Cardinality(image)
<1>4. /\ a \in Nat /\ b \in Nat /\ a + 1 <= n /\ b + 1 <= n
      /\ f[a + 1] = q /\ f[b + 1] = r
  BY <1>1, Rank
<1>5. n \in Nat /\ \A i, j \in 1 .. n : i < j => f[i] < f[j]
  BY <1>1, SortedIs
<1> HIDE DEF a, b, f, n
<1>6. a < b
  <2>1. SUFFICES ASSUME b < a  PROVE FALSE
    BY <1>1, <1>4
  <2>2. a + 1 \in 1 .. n /\ b + 1 \in 1 .. n /\ b + 1 < a + 1
    BY <1>4, <1>5, <2>1
  <2>3. r < q
    BY <1>4, <1>5, <2>2
  <2> QED  BY <1>1, <2>3
<1>7. PageUnits * a < PageUnits * b
  BY <1>4, <1>6, UnitsAre
<1> QED  BY <1>3, <1>7 DEF m, a, b

LEMMA DumpPagesInv == LInv /\ DumpPages => LInv'
<1> SUFFICES ASSUME LInv, DumpPages  PROVE LInv'
  OBVIOUS
<1> DEFINE st == RunStarts
           N == Len(st)
           f == Sorted(image)
<1>1. Givens /\ UNCHANGED given
  BY DEF LInv, DumpPages
<1>2. /\ Starts \subseteq image /\ N \in Nat
      /\ \A i \in 1 .. N : st[i] \in Starts /\ st[i] \in Nat
      /\ \A i, j \in 1 .. N : i < j => st[i] < st[j]
      /\ \A p \in Starts : \E i \in 1 .. N : st[i] = p
  BY <1>1, StartsAre
<1>3. cfg' = [num |-> N, entry |-> TRUE, lines |-> [i \in 1 .. N |-> RunLine(st[i])]]
  BY DEF DumpPages, RunLine, Ahead
<1>4. dump' = Raw(f) /\ phase' \in {"pack", "parse"}
      /\ (phase' = "pack" => unpacked' = f)
  BY DEF DumpPages
<1>5. comp' = <<>> /\ uncomp' = <<>>
  BY DEF LInv, Shape, DumpPages
<1>6. mem' = mem /\ fault' = fault
  BY DEF DumpPages, loading
<1>7. f \in Seq(image) /\ Cardinality(image) \in Nat /\ Len(f) = Cardinality(image)
      /\ (\A i, j \in 1 .. Cardinality(image) : i < j => f[i] < f[j])
      /\ \A p \in image : \E i \in 1 .. Cardinality(image) : f[i] = p
  <2>1. image \in SUBSET Nat /\ IsFiniteSet(image)
    BY <1>1, GivensAre
  <2> QED  BY <2>1, SortedIs
<1> HIDE DEF st, N, f
<1>8. cfg'.num = N /\ cfg'.entry = TRUE /\ cfg'.lines = [i \in 1 .. N |-> RunLine(st[i])]
  BY <1>3
<1>9. ASSUME NEW i \in 1 .. N
      PROVE  /\ cfg'.lines[i] = RunLine(st[i]) /\ st[i] \in image
             /\ RunLine(st[i]) \in LineSet /\ LineOk(RunLine(st[i]))
             /\ DataOk(RunLine(st[i]), Raw(f))
             /\ cfg'.lines[i].addr = st[i] /\ cfg'.lines[i].size = RunFrom(st[i])
             /\ cfg'.lines[i].offset = PageUnits * Ahead(image, st[i])
  <2>1. cfg'.lines[i] = RunLine(st[i]) /\ st[i] \in image
    BY <1>2, <1>8
  <2> QED  BY <1>1, <2>1, RunLineIs, RunLineData DEF f
<1>10. cfg'.lines \in Seq(LineSet) /\ Len(cfg'.lines) = N
  BY <1>2, <1>8, <1>9
<1>11. Givens' /\ image' = image /\ Unit' = Unit
  BY <1>1, SameGivens
<1>12. Shape'
  <2>1. cfg' \in [num : Nat, lines : Seq(LineSet), entry : BOOLEAN]
    BY <1>2, <1>3, <1>8, <1>10
  <2>2. dump' \in Seq(Unit)
    BY <1>4, <1>7, RawIs
  <2>3. mem' \in [Pn -> Pn \cup {Nothing, Cl, Mc}] /\ fault' \in BOOLEAN
    BY <1>6 DEF LInv, Shape, Nothing, Cl, Mc
  <2> QED  BY <1>4, <1>5, <1>11, <2>1, <2>2, <2>3 DEF Shape, LineSet, Nothing, Cl, Mc
<1>13. Lines'
  <2>1. ASSUME NEW i \in 1 .. N  PROVE LineOk(cfg.lines[i])'
    BY <1>1, <1>9, SameLine
  <2> QED  BY <1>10, <2>1 DEF Lines, LineSet
<1>14. Data'
  <2>1. ASSUME NEW i \in 1 .. N  PROVE DataOk(cfg.lines[i], dump)'
    BY <1>1, <1>4, <1>9, SameData
  <2> QED  BY <1>10, <2>1 DEF Data
<1>15. ASSUME NEW i \in 1 .. N, NEW j \in 1 .. N, i < j
       PROVE  /\ cfg'.lines[i].addr + cfg'.lines[i].size <= cfg'.lines[j].addr
              /\ cfg'.lines[i].offset < cfg'.lines[j].offset
  <2>1. st[i] \in Starts /\ st[j] \in Starts /\ st[i] < st[j]
    BY <1>2, <1>15
  <2>2. /\ st[i] + RunFrom(st[i]) <= st[j]
        /\ PageUnits * Ahead(image, st[i]) < PageUnits * Ahead(image, st[j])
    BY <1>1, <2>1, RunsApart
  <2> QED  BY <1>9, <2>2
<1>16. LinesApart' /\ OffsetsGrow'
  <2>1. ASSUME NEW i \in 1 .. N, NEW j \in 1 .. N, i # j
        PROVE  Apart(cfg'.lines[i], cfg'.lines[j])
    <3>1. i < j \/ j < i
      BY <1>2, <2>1
    <3> QED  BY <1>15, <3>1 DEF Apart
  <2>2. \A l, m : Apart(l, m)' <=> Apart(l, m)
    BY DEF Apart
  <2> QED  BY <1>10, <1>15, <2>1, <2>2 DEF LinesApart, OffsetsGrow
<1>17. Complete'
  <2> SUFFICES ASSUME NEW p \in image  PROVE \E i \in 1 .. N : p \in LinePages(cfg'.lines[i])
    BY <1>10, <1>11 DEF Complete, Described, LinePages
  <2>1. PICK r \in image : r - 1 \notin image /\ r <= p /\ r .. p \subseteq image
    BY <1>1, RunAround
  <2>2. p \in r .. r + RunFrom(r) - 1
    BY <1>1, <2>1, RunFromIs
  <2>3. r \in Starts
    BY <2>1 DEF Starts
  <2>4. PICK i \in 1 .. N : st[i] = r
    BY <1>2, <2>3
  <2>5. p \in LinePages(cfg'.lines[i])
    BY <1>9, <2>2, <2>4 DEF LinePages
  <2> QED  BY <2>5
<1>18. Packing'
  <2> SUFFICES ASSUME phase' = "pack"  PROVE Packing'
    BY DEF Packing
  <2>1. unpacked' = f
    BY <1>4
  <2>2. \A p : ~InChunks(<<>>, p)
    BY DEF InChunks
  <2>3. Chunks(<<>>)'
    BY DEF Chunks
  <2>4. Packed'
    BY <1>5, <2>2, <2>3 DEF Packed, InChunks, Chunks
  <2> QED  BY <1>5, <1>7, <1>11, <2>1, <2>2, <2>4 DEF Packing, InChunks
<1>19. Writing' /\ DumpWhole' /\ Mapping' /\ Placed'
  BY <1>4 DEF Writing, DumpWhole, Mapping, Placed
<1> QED  BY <1>11, <1>12, <1>13, <1>14, <1>16, <1>17, <1>18, <1>19 DEF LInv

(***************************************************************************)
(* compress.py: chunks.                                                    *)
(***************************************************************************)
LEMMA RunIs ==
  ASSUME Givens, NEW ps, Run(ps)
  PROVE  /\ ps \in Seq(image) /\ Len(ps) \in Nat /\ Len(ps) >= 1
         /\ ps[1] \in Nat /\ ps[1] \in image
         /\ \A i \in 1 .. Len(ps) : ps[i] = ps[1] + i - 1 /\ ps[i] \in image
         /\ ps[1] + Len(ps) - 1 = ps[Len(ps)]
<1>1. image \subseteq Nat
  BY GivensAre
<1>2. ps \in Seq(image) /\ ps # <<>>
  BY DEF Run
<1>3. Len(ps) \in Nat /\ Len(ps) >= 1
  BY <1>2
<1>4. \A i \in 1 .. Len(ps) : ps[i] \in image
  BY <1>2
<1>5. 1 \in 1 .. Len(ps) /\ Len(ps) \in 1 .. Len(ps)
  BY <1>3
<1> QED  BY <1>1, <1>2, <1>3, <1>4, <1>5 DEF Run

(* A page is appended behind all others, to a run it continues. *)
LEMMA ExtendIs ==
  ASSUME Givens, NEW chunks, Chunks(chunks), NEW p \in image,
         \A q \in image : InChunks(chunks, q) => q < p, NEW joins \in BOOLEAN
  PROVE  /\ Chunks(Extend(chunks, p, joins))
         /\ \A q : InChunks(Extend(chunks, p, joins), q)
                      <=> InChunks(chunks, q) \/ q = p
         /\ \A i \in 1 .. Len(Extend(chunks, p, joins)) :
               \/ i \in 1 .. Len(chunks) /\ Extend(chunks, p, joins)[i] = chunks[i]
               \/ Extend(chunks, p, joins)[i] = <<p>>
               \/ /\ joins /\ chunks # <<>>
                  /\ Extend(chunks, p, joins)[i] = Append(Last(chunks), p)
<1> DEFINE n == Len(chunks)
           new == Extend(chunks, p, joins)
           c == chunks[n]
<1>1. /\ image \subseteq Nat /\ p \in Nat /\ chunks \in Seq(Seq(image)) /\ n \in Nat
      /\ \A i, j \in 1 .. n : i < j => chunks[i][1] + Len(chunks[i]) <= chunks[j][1]
  BY GivensAre DEF Chunks
<1>2. ASSUME NEW i \in 1 .. n
      PROVE  /\ Run(chunks[i]) /\ chunks[i] \in Seq(image)
             /\ Len(chunks[i]) \in Nat /\ Len(chunks[i]) >= 1
             /\ chunks[i][1] \in Nat /\ chunks[i][1] + Len(chunks[i]) <= p
  <2>1. Run(chunks[i])
    BY DEF Chunks
  <2>2. /\ chunks[i] \in Seq(image) /\ Len(chunks[i]) \in Nat /\ Len(chunks[i]) >= 1
        /\ chunks[i][1] \in Nat
        /\ chunks[i][1] + Len(chunks[i]) - 1 = chunks[i][Len(chunks[i])]
        /\ chunks[i][Len(chunks[i])] \in image
    <3>1. Len(chunks[i]) \in 1 .. Len(chunks[i])
      BY <2>1, RunIs
    <3> QED  BY <2>1, <3>1, RunIs
  <2>3. InChunks(chunks, chunks[i][Len(chunks[i])])
    <3>1. Len(chunks[i]) \in 1 .. Len(chunks[i])
      BY <2>2
    <3> QED  BY <3>1 DEF InChunks
  <2>4. chunks[i][Len(chunks[i])] < p
    BY <2>2, <2>3
  <2>5. chunks[i][1] + Len(chunks[i]) <= p
    <3> DEFINE x == chunks[i][1]
               k == Len(chunks[i])
    <3>1. x \in Nat /\ k \in Nat /\ x + k - 1 < p
      BY <2>2, <2>4
    <3> HIDE DEF x, k
    <3>2. x + k <= p
      BY <1>1, <3>1
    <3> QED  BY <3>2 DEF x, k
  <2> QED  BY <2>1, <2>2, <2>5
<1>3. CASE chunks # <<>> /\ Last(chunks)[1] + Len(Last(chunks)) >= p /\ joins
  <2>1. n \in 1 .. n /\ Last(chunks) = c
    BY <1>1, <1>3 DEF Last
  <2>2. new = [chunks EXCEPT ![n] = Append(@, p)]
    BY <1>3 DEF Extend
  <2>3. Run(c) /\ c \in Seq(image) /\ Len(c) \in Nat /\ Len(c) >= 1 /\ c[1] \in Nat
        /\ c[1] + Len(c) <= p
    BY <1>2, <2>1
  <2>4. c[1] + Len(c) = p
    BY <1>1, <1>3, <2>1, <2>3
  <2> DEFINE d == Append(c, p)
  <2>5. d \in Seq(image) /\ Len(d) = Len(c) + 1 /\ d[Len(c) + 1] = p
        /\ \A k \in 1 .. Len(c) : d[k] = c[k]
    BY <2>3
  <2>6. new \in Seq(Seq(image)) /\ Len(new) = n /\ new[n] = d
        /\ \A i \in 1 .. n : i # n => new[i] = chunks[i]
    <3> HIDE DEF d
    <3>1. new = [chunks EXCEPT ![n] = d]
      BY <2>2 DEF d
    <3> HIDE DEF new, n
    <3> QED  BY <1>1, <2>1, <2>5, <3>1 DEF n
  <2> HIDE DEF d, new, n, c
  <2>7. d[1] = c[1] /\ 1 \in 1 .. Len(c)
    BY <2>3, <2>5
  <2>8. Run(d)
    <3>1. ASSUME NEW k \in 1 .. Len(d)  PROVE d[k] = d[1] + k - 1
      <4>1. k \in 1 .. Len(c) \/ k = Len(c) + 1
        BY <2>3, <2>5
      <4>2. CASE k \in 1 .. Len(c)
        <5>1. c[k] = c[1] + k - 1
          BY <2>3, <4>2 DEF Run
        <5> QED  BY <2>5, <2>7, <4>2, <5>1
      <4>3. CASE k = Len(c) + 1
        BY <1>1, <2>3, <2>4, <2>5, <2>7, <4>3
      <4> QED  BY <4>1, <4>2, <4>3
    <3>2. d # <<>>
      BY <2>3, <2>5
    <3> QED  BY <2>5, <3>1, <3>2 DEF Run
  <2>9. ASSUME NEW i \in 1 .. n
        PROVE  Run(new[i]) /\ new[i][1] = chunks[i][1]
               /\ (i # n => new[i] = chunks[i])
    <3>1. CASE i = n
      BY <2>6, <2>7, <2>8, <3>1 DEF c
    <3>2. CASE i # n
      BY <1>2, <2>6, <3>2
    <3> QED  BY <3>1, <3>2
  <2>10. Chunks(new)
    <3>1. ASSUME NEW i \in 1 .. n, NEW j \in 1 .. n, i < j
          PROVE  new[i][1] + Len(new[i]) <= new[j][1]
      <4>1. i # n
        BY <1>1, <3>1
      <4> QED  BY <1>1, <2>9, <3>1, <4>1
    <3> QED  BY <2>6, <2>9, <3>1 DEF Chunks
  <2>11. ASSUME NEW q  PROVE InChunks(new, q) <=> InChunks(chunks, q) \/ q = p
    <3>1. ASSUME InChunks(new, q)  PROVE InChunks(chunks, q) \/ q = p
      <4>1. PICK i \in 1 .. n : \E k \in 1 .. Len(new[i]) : new[i][k] = q
        BY <2>6, <3>1 DEF InChunks
      <4>2. PICK k \in 1 .. Len(new[i]) : new[i][k] = q
        BY <4>1
      <4>3. CASE i = n
        <5>1. k \in 1 .. Len(c) \/ k = Len(c) + 1
          BY <2>3, <2>5, <2>6, <4>3
        <5>2. CASE k = Len(c) + 1
          BY <2>5, <2>6, <4>2, <4>3, <5>2
        <5>3. CASE k \in 1 .. Len(c)
          <6>1. chunks[i][k] = q /\ k \in 1 .. Len(chunks[i])
            BY <2>5, <2>6, <4>2, <4>3, <5>3 DEF c
          <6> QED  BY <6>1 DEF InChunks, n
        <5> QED  BY <5>1, <5>2, <5>3
      <4>4. CASE i # n
        <5>1. chunks[i][k] = q /\ k \in 1 .. Len(chunks[i])
          BY <2>6, <4>2, <4>4
        <5> QED  BY <5>1 DEF InChunks, n
      <4> QED  BY <4>3, <4>4
    <3>2. ASSUME InChunks(chunks, q)  PROVE InChunks(new, q)
      <4>1. PICK i \in 1 .. n : \E k \in 1 .. Len(chunks[i]) : chunks[i][k] = q
        BY <3>2 DEF InChunks, n
      <4>2. PICK k \in 1 .. Len(chunks[i]) : chunks[i][k] = q
        BY <4>1
      <4>3. new[i][k] = q /\ k \in 1 .. Len(new[i])
        <5>1. CASE i = n
          <6>1. k \in 1 .. Len(c) /\ c[k] = q
            BY <4>2, <5>1 DEF c
          <6>2. k \in 1 .. Len(d) /\ d[k] = q
            BY <2>3, <2>5, <6>1
          <6> QED  BY <2>6, <5>1, <6>2
        <5>2. CASE i # n
          BY <2>6, <4>2, <5>2
        <5> QED  BY <5>1, <5>2
      <4> QED  BY <2>6, <4>3 DEF InChunks
    <3>3. InChunks(new, p)
      <4>1. Len(c) + 1 \in 1 .. Len(new[n]) /\ new[n][Len(c) + 1] = p
        BY <2>3, <2>5, <2>6
      <4> QED  BY <2>1, <2>6, <4>1 DEF InChunks
    <3> QED  BY <3>1, <3>2, <3>3
  <2>12. ASSUME NEW i \in 1 .. Len(new)
         PROVE  \/ i \in 1 .. n /\ new[i] = chunks[i]
                \/ new[i] = <<p>>
                \/ joins /\ chunks # <<>> /\ new[i] = Append(Last(chunks), p)
    <3>1. CASE i = n
      BY <1>3, <2>1, <2>6, <3>1 DEF d
    <3>2. CASE i # n
      BY <2>6, <3>2
    <3> QED  BY <3>1, <3>2
  <2> QED  BY <2>10, <2>11, <2>12 DEF new, n
<1>4. CASE ~(chunks # <<>> /\ Last(chunks)[1] + Len(Last(chunks)) >= p /\ joins)
  <2>1. new = Append(chunks, <<p>>)
    BY <1>4 DEF Extend
  <2>2. <<p>> \in Seq(image) /\ Len(<<p>>) = 1 /\ <<p>>[1] = p /\ <<p>> # <<>>
    OBVIOUS
  <2>3. new \in Seq(Seq(image)) /\ Len(new) = n + 1 /\ new[n + 1] = <<p>>
        /\ \A i \in 1 .. n : new[i] = chunks[i]
    BY <1>1, <2>1, <2>2
  <2> HIDE DEF new, n
  <2>4. Run(<<p>>)
    <3>1. ASSUME NEW k \in 1 .. Len(<<p>>)  PROVE <<p>>[k] = <<p>>[1] + k - 1
      <4>1. k = 1
        BY <2>2
      <4> QED  BY <1>1, <4>1
    <3> QED  BY <2>2, <3>1 DEF Run
  <2>5. ASSUME NEW i \in 1 .. n + 1
        PROVE  (i \in 1 .. n /\ new[i] = chunks[i]) \/ (i = n + 1 /\ new[i] = <<p>>)
    BY <1>1, <2>3
  <2>6. Chunks(new)
    <3>1. ASSUME NEW i \in 1 .. n + 1  PROVE Run(new[i])
      BY <1>2, <2>4, <2>5
    <3>2. ASSUME NEW i \in 1 .. n + 1, NEW j \in 1 .. n + 1, i < j
          PROVE  new[i][1] + Len(new[i]) <= new[j][1]
      <4>1. i \in 1 .. n /\ new[i] = chunks[i]
        <5>1. \A x, y \in 1 .. n + 1 : x < y => x \in 1 .. n
          BY <1>1
        <5>2. i \in 1 .. n
          BY <3>2, <5>1
        <5> QED  BY <2>3, <5>2
      <4>2. CASE j \in 1 .. n
        BY <1>1, <2>3, <3>2, <4>1, <4>2
      <4>3. CASE j = n + 1
        <5>1. new[j][1] = p
          BY <2>2, <2>3, <4>3
        <5> QED  BY <1>2, <4>1, <5>1
      <4> QED  BY <2>5, <4>2, <4>3
    <3> QED  BY <2>3, <3>1, <3>2 DEF Chunks
  <2>7. ASSUME NEW q  PROVE InChunks(new, q) <=> InChunks(chunks, q) \/ q = p
    <3>1. ASSUME InChunks(new, q)  PROVE InChunks(chunks, q) \/ q = p
      <4>1. PICK i \in 1 .. n + 1 : \E k \in 1 .. Len(new[i]) : new[i][k] = q
        BY <2>3, <3>1 DEF InChunks
      <4>2. PICK k \in 1 .. Len(new[i]) : new[i][k] = q
        BY <4>1
      <4>3. CASE i \in 1 .. n /\ new[i] = chunks[i]
        BY <4>2, <4>3 DEF InChunks, n
      <4>4. CASE new[i] = <<p>>
        <5>1. k = 1
          BY <2>2, <4>2, <4>4
        <5> QED  BY <2>2, <4>2, <4>4, <5>1
      <4> QED  BY <2>5, <4>3, <4>4
    <3>2. ASSUME InChunks(chunks, q)  PROVE InChunks(new, q)
      <4>1. PICK i \in 1 .. n : \E k \in 1 .. Len(chunks[i]) : chunks[i][k] = q
        BY <3>2 DEF InChunks, n
      <4>2. new[i] = chunks[i] /\ i \in 1 .. n + 1
        BY <1>1, <2>3
      <4> QED  BY <2>3, <4>1, <4>2 DEF InChunks
    <3>3. InChunks(new, p)
      <4>1. n + 1 \in 1 .. Len(new) /\ 1 \in 1 .. Len(new[n + 1]) /\ new[n + 1][1] = p
        BY <1>1, <2>2, <2>3
      <4> QED  BY <4>1 DEF InChunks
    <3> QED  BY <3>1, <3>2, <3>3
  <2> QED  BY <2>3, <2>5, <2>6, <2>7 DEF new, n
<1> QED  BY <1>3, <1>4

LEMMA SameChunks ==
  ASSUME UNCHANGED given
  PROVE  /\ \A x : Chunks(x)' <=> Chunks(x)
         /\ \A p : PacksWell(p)' <=> PacksWell(p)
         /\ \A x, p : InChunks(x, p)' <=> InChunks(x, p)
         /\ \A x : Length(x)' = Length(x)
<1>1. \A x : Length(x)' = Length(x)
  BY SameLength
<1>2. image' = image /\ length' = length
  BY DEF given
<1>3. \A x : Chunks(x)' <=> Chunks(x)
  BY <1>2 DEF Chunks, Run
<1>4. \A p : PacksWell(p)' <=> PacksWell(p)
  BY <1>2 DEF PacksWell
<1>5. \A x, p : InChunks(x, p)' <=> InChunks(x, p)
  BY DEF InChunks
<1> QED  BY <1>1, <1>3, <1>4, <1>5

LEMMA SamePacked ==
  ASSUME UNCHANGED given, UNCHANGED <<comp, uncomp>>, Packed
  PROVE  Packed'
<1>1. image' = image
  BY DEF given
<1>2. comp' = comp /\ uncomp' = uncomp
  OBVIOUS
<1>3. Chunks(comp)' /\ Chunks(uncomp)'
  BY <1>2, SameChunks DEF Packed
<1>4. (\A p \in image : InChunks(comp, p) => PacksWell(p))'
  BY <1>1, <1>2, SameChunks DEF Packed
<1>5. (\A p \in image : InChunks(uncomp, p) => ~PacksWell(p))'
  BY <1>1, <1>2, SameChunks DEF Packed
<1>6. (\A i \in 1 .. Len(comp) : Len(comp[i]) = 1 \/ Length(comp[i]) <= MaxLength)'
  BY <1>2, SameChunks DEF Packed
<1> QED  BY <1>3, <1>4, <1>5, <1>6 DEF Packed

LEMMA PackPageInv == LInv /\ PackPage => LInv'
<1> SUFFICES ASSUME LInv, PackPage  PROVE LInv'
  OBVIOUS
<1>1. /\ UNCHANGED given /\ UNCHANGED files /\ UNCHANGED loading
      /\ phase = "pack" /\ phase' = "pack" /\ fault' = fault
      /\ unpacked # <<>> /\ unpacked' = Tail(unpacked)
  BY DEF PackPage
<1>2. Givens /\ image' = image /\ Unit' = Unit
  BY <1>1, SameGivens DEF LInv
<1>3. (Givens /\ Lines /\ Data /\ LinesApart /\ OffsetsGrow /\ Complete)'
  BY <1>1, SameFiles
<1>4. Shape'
  BY <1>1, <1>2 DEF LInv, Shape, files, loading, LineSet, Nothing, Cl, Mc
<1>5. Packing'
  <2> DEFINE p == Head(unpacked)
             n == Len(unpacked)
  <2>1. /\ Packed /\ unpacked \in Seq(image) /\ n \in Nat /\ n >= 1
        /\ \A i, j \in 1 .. n : i < j => unpacked[i] < unpacked[j]
        /\ \A q \in image : InChunks(comp, q) \/ InChunks(uncomp, q)
              => \A i \in 1 .. n : q < unpacked[i]
        /\ \A q \in image : \/ InChunks(comp, q) \/ InChunks(uncomp, q)
                            \/ \E i \in 1 .. n : unpacked[i] = q
    BY <1>1 DEF LInv, Packing
  <2>2. p \in image /\ p = unpacked[1] /\ 1 \in 1 .. n
    BY <2>1
  <2>3. /\ unpacked' \in Seq(image) /\ Len(unpacked') = n - 1
        /\ \A i \in 1 .. n - 1 : unpacked'[i] = unpacked[i + 1]
    BY <1>1, <2>1
  <2>4. \A q \in image : InChunks(comp, q) => q < p
    BY <2>1, <2>2
  <2>5. \A q \in image : InChunks(uncomp, q) => q < p
    BY <2>1, <2>2
  <2>6. ASSUME NEW i \in 1 .. n - 1
        PROVE  i + 1 \in 1 .. n /\ p < unpacked'[i] /\ unpacked'[i] = unpacked[i + 1]
    <3>1. i + 1 \in 1 .. n /\ 1 < i + 1
      BY <2>1
    <3> QED  BY <2>1, <2>2, <2>3, <3>1
  <2> HIDE DEF p, n
  <2>7. (\A i, j \in 1 .. Len(unpacked) : i < j => unpacked[i] < unpacked[j])'
    <3>1. ASSUME NEW i \in 1 .. n - 1, NEW j \in 1 .. n - 1, i < j
          PROVE  unpacked'[i] < unpacked'[j]
      <4>1. i + 1 < j + 1 /\ i + 1 \in 1 .. n /\ j + 1 \in 1 .. n
        BY <2>1, <2>6, <3>1
      <4> QED  BY <2>1, <2>6, <4>1
    <3> QED  BY <2>3, <3>1
  <2>8. SUFFICES /\ Packed'
                 /\ \A q \in image : InChunks(comp, q)' \/ InChunks(uncomp, q)'
                        <=> InChunks(comp, q) \/ InChunks(uncomp, q) \/ q = p
    <3>1. (\A q \in image : InChunks(comp, q) \/ InChunks(uncomp, q)
              => \A i \in 1 .. Len(unpacked) : q < unpacked[i])'
      <4> SUFFICES ASSUME NEW q \in image,
                          InChunks(comp, q)' \/ InChunks(uncomp, q)',
                          NEW i \in 1 .. n - 1
                   PROVE  q < unpacked'[i]
        BY <1>2, <2>3
      <4>1. InChunks(comp, q) \/ InChunks(uncomp, q) \/ q = p
        BY <2>8
      <4> QED  BY <2>1, <2>6, <4>1
    <3>2. (\A q \in image : \/ InChunks(comp, q) \/ InChunks(uncomp, q)
                            \/ \E i \in 1 .. Len(unpacked) : unpacked[i] = q)'
      <4> SUFFICES ASSUME NEW q \in image,
                          ~(InChunks(comp, q)' \/ InChunks(uncomp, q)')
                   PROVE  \E i \in 1 .. n - 1 : unpacked'[i] = q
        BY <1>2, <2>3
      <4>1. q # p /\ ~InChunks(comp, q) /\ ~InChunks(uncomp, q)
        BY <2>8
      <4>2. PICK j \in 1 .. n : unpacked[j] = q
        BY <2>1, <4>1
      <4>3. j # 1
        BY <2>2, <4>1, <4>2
      <4>4. j - 1 \in 1 .. n - 1 /\ (j - 1) + 1 = j
        BY <2>1, <4>3
      <4>5. unpacked'[j - 1] = q
        BY <2>6, <4>2, <4>4
      <4> QED  BY <4>4, <4>5
    <3> QED  BY <1>2, <2>3, <2>7, <2>8, <3>1, <3>2 DEF Packing
  <2>9. CASE PacksWell(p) /\ uncomp' = uncomp
             /\ comp' = Extend(comp, p, comp # <<>> /\ JoinsLast(p))
    <3> DEFINE joins == comp # <<>> /\ JoinsLast(p)
    <3>1. joins \in BOOLEAN
      OBVIOUS
    <3>2. comp' = Extend(comp, p, joins)
      BY <2>9
    <3>3. joins => Length(Append(Last(comp), p)) <= MaxLength
      BY DEF JoinsLast
    <3> HIDE DEF joins
    <3>4. /\ Chunks(comp') /\ \A q : InChunks(comp', q) <=> InChunks(comp, q) \/ q = p
          /\ \A i \in 1 .. Len(comp') :
               \/ i \in 1 .. Len(comp) /\ comp'[i] = comp[i]
               \/ comp'[i] = <<p>>
               \/ joins /\ comp # <<>> /\ comp'[i] = Append(Last(comp), p)
      BY <1>2, <2>1, <2>2, <2>4, <3>1, <3>2, ExtendIs DEF Packed
    <3>5. \A q : InChunks(comp, q)' <=> InChunks(comp, q) \/ q = p
      BY <1>1, <3>4, SameChunks
    <3>6. \A q : InChunks(uncomp, q)' <=> InChunks(uncomp, q)
      BY <1>1, <2>9, SameChunks
    <3>7. Chunks(comp)' /\ Chunks(uncomp)'
      BY <1>1, <2>1, <2>9, <3>4, SameChunks DEF Packed
    <3>8. (\A q \in image : InChunks(comp, q) => PacksWell(q))'
      BY <1>1, <1>2, <2>1, <2>9, <3>5, SameChunks DEF Packed
    <3>9. (\A q \in image : InChunks(uncomp, q) => ~PacksWell(q))'
      BY <1>1, <1>2, <2>1, <3>6, SameChunks DEF Packed
    <3>10. (\A i \in 1 .. Len(comp) : Len(comp[i]) = 1 \/ Length(comp[i]) <= MaxLength)'
      <4> SUFFICES ASSUME NEW i \in 1 .. Len(comp')
                   PROVE  Len(comp'[i]) = 1 \/ Length(comp'[i]) <= MaxLength
        BY <1>1, SameChunks
      <4>1. CASE i \in 1 .. Len(comp) /\ comp'[i] = comp[i]
        BY <2>1, <4>1 DEF Packed
      <4>2. CASE comp'[i] = <<p>>
        BY <4>2
      <4>3. CASE joins /\ comp'[i] = Append(Last(comp), p)
        BY <3>3, <4>3
      <4> QED  BY <3>4, <4>1, <4>2, <4>3
    <3> QED  BY <3>5, <3>6, <3>7, <3>8, <3>9, <3>10 DEF Packed
  <2>10. CASE ~PacksWell(p) /\ comp' = comp /\ uncomp' = Extend(uncomp, p, TRUE)
    <3>4. Chunks(uncomp') /\ \A q : InChunks(uncomp', q) <=> InChunks(uncomp, q) \/ q = p
      <4> DEFINE joins == TRUE
      <4>1. joins \in BOOLEAN /\ uncomp' = Extend(uncomp, p, joins)
        BY <2>10
      <4> HIDE DEF joins
      <4> QED  BY <1>2, <2>1, <2>2, <2>5, <4>1, ExtendIs DEF Packed
    <3>5. \A q : InChunks(uncomp, q)' <=> InChunks(uncomp, q) \/ q = p
      BY <1>1, <3>4, SameChunks
    <3>6. \A q : InChunks(comp, q)' <=> InChunks(comp, q)
      BY <1>1, <2>10, SameChunks
    <3>7. Chunks(comp)' /\ Chunks(uncomp)'
      BY <1>1, <2>1, <2>10, <3>4, SameChunks DEF Packed
    <3>8. (\A q \in image : InChunks(comp, q) => PacksWell(q))'
      BY <1>1, <1>2, <2>1, <3>6, SameChunks DEF Packed
    <3>9. (\A q \in image : InChunks(uncomp, q) => ~PacksWell(q))'
      BY <1>1, <1>2, <2>1, <2>10, <3>5, SameChunks DEF Packed
    <3>10. (\A i \in 1 .. Len(comp) : Len(comp[i]) = 1 \/ Length(comp[i]) <= MaxLength)'
      BY <1>1, <2>1, <2>10, SameChunks DEF Packed
    <3> QED  BY <3>5, <3>6, <3>7, <3>8, <3>9, <3>10 DEF Packed
  <2> QED  BY <2>9, <2>10 DEF PackPage, p
<1>6. Writing' /\ DumpWhole' /\ Mapping' /\ Placed'
  BY <1>1 DEF Writing, DumpWhole, Mapping, Placed
<1> QED  BY <1>3, <1>4, <1>5, <1>6 DEF LInv

LEMMA OpenPackedInv == LInv /\ OpenPacked => LInv'
<1> SUFFICES ASSUME LInv, OpenPacked  PROVE LInv'
  OBVIOUS
<1>1. /\ UNCHANGED given /\ UNCHANGED packing /\ UNCHANGED loading
      /\ phase = "pack" /\ phase' = "write" /\ fault' = fault /\ unpacked = <<>>
      /\ cfg' = [NoFile EXCEPT !.num = Len(comp) + Len(uncomp)] /\ dump' = <<>>
      /\ comp' = comp /\ uncomp' = uncomp
  BY DEF OpenPacked, packing
<1>2. Givens /\ image' = image /\ Unit' = Unit /\ Givens'
  BY <1>1, SameGivens DEF LInv
<1>3. Packed /\ \A q \in image : InChunks(comp, q) \/ InChunks(uncomp, q)
  BY <1>1 DEF LInv, Packing
<1>4. Len(comp) \in Nat /\ Len(uncomp) \in Nat
  BY <1>3 DEF Packed, Chunks
<1>5. /\ cfg' = [num |-> Len(comp) + Len(uncomp), lines |-> <<>>, entry |-> FALSE]
      /\ cfg'.num = Len(comp) + Len(uncomp) /\ cfg'.lines = <<>>
      /\ cfg'.entry = FALSE /\ Len(cfg'.lines) = 0
  BY <1>1 DEF NoFile
<1>6. Shape'
  <2>1. cfg' \in [num : Nat, lines : Seq(LineSet), entry : BOOLEAN]
    BY <1>4, <1>5
  <2>2. dump' \in Seq(Unit)
    BY <1>1
  <2>3. mem' \in [Pn -> Pn \cup {Nothing, Cl, Mc}] /\ fault' \in BOOLEAN
    BY <1>1 DEF LInv, Shape, loading, Nothing, Cl, Mc
  <2> QED  BY <1>1, <1>2, <2>1, <2>2, <2>3 DEF Shape, LineSet, Nothing, Cl, Mc
<1>7. Lines' /\ Data' /\ LinesApart' /\ OffsetsGrow'
  <2>1. cfg'.lines \in Seq(LineSet)
    BY <1>5
  <2> QED  BY <1>5, <2>1 DEF Lines, Data, LinesApart, OffsetsGrow, LineSet
<1>8. ~ParseOk'
  BY <1>5 DEF ParseOk
<1>9. \A q : ~Described(q)'
  BY <1>5 DEF Described
<1>10. Packed'
  BY <1>1, <1>3, SamePacked
<1>11. Writing'
  <2>1. \A q : (InChunks(comp, q)' <=> InChunks(comp, q))
               /\ (InChunks(uncomp, q)' <=> InChunks(uncomp, q))
    BY <1>1, SameChunks
  <2>2. cfg'.num = Len(cfg'.lines) + Len(comp') + Len(uncomp')
    BY <1>1, <1>4, <1>5
  <2> QED  BY <1>2, <1>3, <1>5, <1>9, <1>10, <2>1, <2>2 DEF Writing
<1>12. DumpWhole'
  BY <1>5 DEF DumpWhole
<1>13. Complete' /\ Packing' /\ Mapping' /\ Placed'
  BY <1>1, <1>8 DEF Complete, Packing, Mapping, Placed
<1> QED  BY <1>2, <1>6, <1>7, <1>11, <1>12, <1>13 DEF LInv

LEMMA WriteEntryInv == LInv /\ WriteEntry => LInv'
<1> SUFFICES ASSUME LInv, WriteEntry  PROVE LInv'
  OBVIOUS
<1>1. /\ UNCHANGED given /\ UNCHANGED packing /\ UNCHANGED loading
      /\ phase = "write" /\ phase' = "close" /\ fault' = fault /\ dump' = dump
      /\ cfg' = [cfg EXCEPT !.entry = TRUE] /\ comp \o uncomp = <<>>
  BY DEF WriteEntry
<1>2. Givens /\ image' = image /\ Unit' = Unit /\ Givens'
  BY <1>1, SameGivens DEF LInv
<1>3. cfg \in [num : Nat, lines : Seq(LineSet), entry : BOOLEAN]
  BY DEF LInv, Shape
<1>4. /\ cfg' \in [num : Nat, lines : Seq(LineSet), entry : BOOLEAN]
      /\ cfg'.lines = cfg.lines /\ cfg'.num = cfg.num
  BY <1>1, <1>3
<1>5. Shape'
  <2>1. mem' \in [Pn -> Pn \cup {Nothing, Cl, Mc}] /\ fault' \in BOOLEAN
    BY <1>1 DEF LInv, Shape, loading, Nothing, Cl, Mc
  <2>2. dump' \in Seq(Unit)
    BY <1>1 DEF LInv, Shape
  <2> QED  BY <1>1, <1>2, <1>4, <2>1, <2>2 DEF Shape, LineSet, Nothing, Cl, Mc
<1>6. Lines'
  BY <1>1, <1>4, SameLine DEF LInv, Lines
<1>7. Data'
  BY <1>1, <1>4, SameData DEF LInv, Data
<1>8. LinesApart' /\ OffsetsGrow' /\ DumpWhole'
  BY <1>1, <1>4 DEF LInv, LinesApart, OffsetsGrow, DumpWhole, Apart
<1>9. Complete'
  <2>1. Packed /\ \A p \in image : Described(p) \/ InChunks(comp, p) \/ InChunks(uncomp, p)
    BY <1>1 DEF LInv, Writing
  <2>2. comp \in Seq(Seq(image)) /\ uncomp \in Seq(Seq(image))
    BY <2>1 DEF Packed, Chunks
  <2>3. Len(comp) = 0 /\ Len(uncomp) = 0
    BY <1>1, <2>2
  <2>4. \A p : ~InChunks(comp, p) /\ ~InChunks(uncomp, p)
    BY <2>3 DEF InChunks
  <2>5. \A p \in image : Described(p)
    BY <2>1, <2>4
  <2> QED  BY <1>2, <1>4, <2>5 DEF Complete, Described, LinePages
<1>10. Packing' /\ Writing' /\ Mapping' /\ Placed'
  BY <1>1 DEF Packing, Writing, Mapping, Placed
<1> QED  BY <1>2, <1>5, <1>6, <1>7, <1>8, <1>9, <1>10 DEF LInv

LEMMA ClosePackedInv == LInv /\ ClosePacked => LInv'
<1> SUFFICES ASSUME LInv, ClosePacked  PROVE LInv'
  OBVIOUS
<1>1. /\ UNCHANGED given /\ UNCHANGED files /\ UNCHANGED loading
      /\ phase = "close" /\ phase' = "parse" /\ fault' = fault
  BY DEF ClosePacked
<1>2. image' = image /\ Unit' = Unit
  BY <1>1, SameGivens
<1>3. (Givens /\ Lines /\ Data /\ LinesApart /\ OffsetsGrow /\ Complete)'
  BY <1>1, SameFiles
<1>4. Shape'
  BY <1>1, <1>2 DEF LInv, Shape, files, loading, LineSet, Nothing, Cl, Mc
<1>5. Packing' /\ Writing' /\ DumpWhole' /\ Mapping' /\ Placed'
  BY <1>1 DEF Packing, Writing, DumpWhole, Mapping, Placed
<1> QED  BY <1>3, <1>4, <1>5 DEF LInv

LEMMA KillPackerInv == LInv /\ KillPacker => LInv'
<1> SUFFICES ASSUME LInv, KillPacker  PROVE LInv'
  OBVIOUS
<1>1. PICK k \in 0 .. Len(cfg.lines), u \in KeptUnits :
          /\ cfg' = [num |-> cfg.num, lines |-> SubSeq(cfg.lines, 1, k),
                     entry |-> cfg.entry /\ k = Len(cfg.lines)]
          /\ dump' = SubSeq(dump, 1, u)
  BY DEF KillPacker
<1>2. /\ UNCHANGED given /\ UNCHANGED loading /\ phase' = "parse" /\ fault' = TRUE
  BY DEF KillPacker
<1>3. Givens' /\ image' = image /\ Unit' = Unit
  BY <1>2, SameGivens DEF LInv
<1>4. /\ cfg \in [num : Nat, lines : Seq(LineSet), entry : BOOLEAN]
      /\ dump \in Seq(Unit)
  BY DEF LInv, Shape
<1>5. k \in Nat /\ k <= Len(cfg.lines) /\ Len(cfg.lines) \in Nat
  BY <1>4
<1>6. u \in 0 .. Len(dump) /\ Len(dump) \in Nat
  BY <1>4 DEF KeptUnits
<1>7. /\ cfg'.num = cfg.num /\ cfg'.lines = SubSeq(cfg.lines, 1, k)
      /\ cfg'.entry = (cfg.entry /\ k = Len(cfg.lines))
  BY <1>1
<1>8. /\ cfg'.lines \in Seq(LineSet) /\ Len(cfg'.lines) = k
      /\ \A i \in 1 .. k : cfg'.lines[i] = cfg.lines[i] /\ i \in 1 .. Len(cfg.lines)
  BY <1>4, <1>5, <1>7
<1>9. /\ dump' \in Seq(Unit) /\ Len(dump') = u
      /\ \A i \in 1 .. u : dump'[i] = dump[i]
  BY <1>1, <1>4, <1>6
<1>10. Shape'
  <2>1. cfg' \in [num : Nat, lines : Seq(LineSet), entry : BOOLEAN]
    <3>1. (cfg.entry /\ k = Len(cfg.lines)) \in BOOLEAN
      OBVIOUS
    <3> QED  BY <1>1, <1>4, <1>7, <1>8, <3>1
  <2>2. mem' \in [Pn -> Pn \cup {Nothing, Cl, Mc}] /\ fault' \in BOOLEAN
    BY <1>2 DEF LInv, Shape, loading, Nothing, Cl, Mc
  <2> QED  BY <1>2, <1>3, <1>9, <2>1, <2>2 DEF Shape, LineSet, Nothing, Cl, Mc
<1>11. Lines'
  BY <1>2, <1>8, SameLine DEF LInv, Lines, LineSet
<1>12. Data'
  <2>1. ASSUME NEW i \in 1 .. k  PROVE DataOk(cfg.lines[i], dump)'
    <3>1. PICK line : line = cfg.lines[i]
      OBVIOUS
    <3>2. LineOk(line) /\ DataOk(line, dump)
      BY <1>8, <3>1 DEF LInv, Lines, Data
    <3>3. line.offset \in Nat /\ line.length \in Nat
      BY <3>2 DEF LineOk, LineSet
    <3>4. PICK data : data = dump'
      OBVIOUS
    <3>5. DataOk(line, data)
      <4> SUFFICES ASSUME NEW m \in 1 .. line.length, line.offset + m <= Len(data)
                   PROVE  data[line.offset + m] = UnitsOf(line)[m]
        BY DEF DataOk
      <4>1. line.offset + m \in 1 .. u
        BY <1>6, <1>9, <3>3, <3>4
      <4>2. line.offset + m <= Len(dump)
        BY <1>6, <3>3, <4>1
      <4> QED  BY <1>9, <3>2, <3>4, <4>1, <4>2 DEF DataOk
    <3>6. DataOk(line, data)'
      BY <1>2, <3>5, SameData
    <3>7. cfg'.lines[i] = line
      BY <1>8, <3>1
    <3> QED  BY <3>4, <3>6, <3>7
  <2> QED  BY <1>8, <2>1 DEF Data
<1>13. LinesApart' /\ OffsetsGrow'
  BY <1>8 DEF LInv, LinesApart, OffsetsGrow, Apart
<1>14. Complete'
  <2> SUFFICES ASSUME ParseOk'  PROVE \A p \in image : Described(p)'
    BY <1>3 DEF Complete
  <2>1. cfg.entry /\ k = Len(cfg.lines) /\ k = cfg.num
    BY <1>7, <1>8 DEF ParseOk
  <2>2. ParseOk
    BY <2>1 DEF ParseOk
  <2>3. \A p \in image : Described(p)
    BY <2>2 DEF LInv, Complete
  <2> QED  BY <1>8, <2>1, <2>3 DEF Described, LinePages
<1>15. Packing' /\ Writing' /\ DumpWhole' /\ Mapping' /\ Placed'
  BY <1>2 DEF Packing, Writing, DumpWhole, Mapping, Placed
<1> QED  BY <1>3, <1>10, <1>11, <1>12, <1>13, <1>14, <1>15 DEF LInv


(***************************************************************************)
(* compress.py: the files.                                                 *)
(***************************************************************************)
(* The line of a run describes its pages. *)
LEMMA LineOfRun ==
  ASSUME Givens, NEW ps, Run(ps), NEW offset, NEW len,
         NEW line, line = Line(ps, offset, len)
  PROVE  /\ PagesOf(line) = ps
         /\ \A p : p \in LinePages(line) <=> \E k \in 1 .. Len(ps) : ps[k] = p
         /\ LinePages(line) \subseteq image
<1>1. /\ ps \in Seq(image) /\ Len(ps) \in Nat /\ Len(ps) >= 1 /\ ps[1] \in Nat
      /\ \A i \in 1 .. Len(ps) : ps[i] = ps[1] + i - 1 /\ ps[i] \in image
  BY RunIs
<1>2. line.addr = ps[1] /\ line.size = Len(ps)
  BY DEF Line
<1>3. PagesOf(line) = ps
  <2>1. PagesOf(line) = [i \in 1 .. Len(ps) |-> ps[1] + i - 1]
    BY <1>2 DEF PagesOf
  <2>2. ps = [i \in 1 .. Len(ps) |-> ps[i]]
    BY <1>1
  <2> QED  BY <1>1, <2>1, <2>2
<1>4. LinePages(line) = ps[1] .. ps[1] + Len(ps) - 1
  BY <1>2 DEF LinePages
<1>5. ASSUME NEW p \in LinePages(line)  PROVE \E k \in 1 .. Len(ps) : ps[k] = p
  <2>1. p - ps[1] + 1 \in 1 .. Len(ps) /\ ps[1] + (p - ps[1] + 1) - 1 = p
    BY <1>1, <1>4
  <2>2. ps[p - ps[1] + 1] = p
    BY <1>1, <2>1
  <2> QED  BY <2>1, <2>2
<1>6. ASSUME NEW k \in 1 .. Len(ps)  PROVE ps[k] \in LinePages(line)
  <2>1. ps[1] + k - 1 \in ps[1] .. ps[1] + Len(ps) - 1
    BY <1>1
  <2> QED  BY <1>1, <1>4, <2>1
<1> QED  BY <1>1, <1>3, <1>5, <1>6

(* What is left when the first chunk is written. *)
LEMMA TailOfChunks ==
  ASSUME Givens, NEW chunks, Chunks(chunks), chunks # <<>>
  PROVE  /\ Chunks(Tail(chunks)) /\ Run(chunks[1]) /\ Len(chunks) \in Nat
         /\ 1 \in 1 .. Len(chunks)
         /\ Len(Tail(chunks)) = Len(chunks) - 1
         /\ \A i \in 1 .. Len(Tail(chunks)) :
               i + 1 \in 1 .. Len(chunks) /\ Tail(chunks)[i] = chunks[i + 1]
         /\ \A p : InChunks(chunks, p) <=>
               \/ InChunks(Tail(chunks), p)
               \/ \E k \in 1 .. Len(chunks[1]) : chunks[1][k] = p
         /\ \A k \in 1 .. Len(chunks[1]) : ~InChunks(Tail(chunks), chunks[1][k])
<1> DEFINE n == Len(chunks)
           t == Tail(chunks)
           c == chunks[1]
<1>1. chunks \in Seq(Seq(image)) /\ n \in Nat /\ n >= 1 /\ 1 \in 1 .. n
  BY DEF Chunks
<1>2. /\ t \in Seq(Seq(image)) /\ Len(t) = n - 1
      /\ \A i \in 1 .. n - 1 : t[i] = chunks[i + 1]
  BY <1>1
<1>3. ASSUME NEW i \in 1 .. n - 1  PROVE i + 1 \in 1 .. n /\ t[i] = chunks[i + 1]
  BY <1>1, <1>2
<1>4. ASSUME NEW i \in 1 .. n
      PROVE  /\ Run(chunks[i]) /\ Len(chunks[i]) \in Nat /\ chunks[i][1] \in Nat
             /\ \A k \in 1 .. Len(chunks[i]) : chunks[i][k] = chunks[i][1] + k - 1
  <2>1. Run(chunks[i])
    BY DEF Chunks
  <2> QED  BY <2>1, RunIs
<1>5. \A i, j \in 1 .. n : i < j => chunks[i][1] + Len(chunks[i]) <= chunks[j][1]
  BY DEF Chunks
<1> HIDE DEF n, t, c
<1>6. Chunks(t)
  <2>1. ASSUME NEW i \in 1 .. n - 1, NEW j \in 1 .. n - 1, i < j
        PROVE  t[i][1] + Len(t[i]) <= t[j][1]
    <3>1. i + 1 \in 1 .. n /\ j + 1 \in 1 .. n /\ i + 1 < j + 1
      BY <1>1, <1>3, <2>1
    <3> QED  BY <1>3, <1>5, <3>1
  <2>2. ASSUME NEW i \in 1 .. n - 1  PROVE Run(t[i])
    BY <1>3, <1>4
  <2> QED  BY <1>2, <2>1, <2>2 DEF Chunks
<1>7. ASSUME NEW p, InChunks(chunks, p)
      PROVE  InChunks(t, p) \/ \E k \in 1 .. Len(c) : c[k] = p
  <2>1. PICK i \in 1 .. n : \E k \in 1 .. Len(chunks[i]) : chunks[i][k] = p
    BY <1>7 DEF InChunks, n
  <2>2. CASE i = 1
    BY <2>1, <2>2 DEF c
  <2>3. CASE i # 1
    <3>1. i - 1 \in 1 .. n - 1 /\ (i - 1) + 1 = i
      BY <1>1, <2>3
    <3>2. t[i - 1] = chunks[i]
      BY <1>3, <3>1
    <3> QED  BY <1>2, <2>1, <3>1, <3>2 DEF InChunks
  <2> QED  BY <2>2, <2>3
<1>8. ASSUME NEW p, InChunks(t, p)  PROVE InChunks(chunks, p)
  <2>1. PICK i \in 1 .. n - 1 : \E k \in 1 .. Len(t[i]) : t[i][k] = p
    BY <1>2, <1>8 DEF InChunks
  <2> QED  BY <1>3, <2>1 DEF InChunks, n
<1>9. ASSUME NEW p, NEW k \in 1 .. Len(c), c[k] = p  PROVE InChunks(chunks, p)
  BY <1>1, <1>9 DEF InChunks, c, n
<1>10. ASSUME NEW k \in 1 .. Len(c), InChunks(t, c[k])  PROVE FALSE
  <2>1. PICK i \in 1 .. n - 1 : \E m \in 1 .. Len(t[i]) : t[i][m] = c[k]
    BY <1>2, <1>10 DEF InChunks
  <2>2. PICK m \in 1 .. Len(t[i]) : t[i][m] = c[k]
    BY <2>1
  <2>3. i + 1 \in 1 .. n /\ t[i] = chunks[i + 1] /\ 1 < i + 1
    BY <1>1, <1>3
  <2> DEFINE x == chunks[i + 1][1]
             y == chunks[1][1]
             l == Len(chunks[1])
  <2>4. y + l <= x
    BY <1>1, <1>5, <2>3
  <2>5. x \in Nat /\ y \in Nat /\ l \in Nat
    BY <1>1, <1>4, <2>3
  <2>6. k \in 1 .. l /\ c[k] = y + k - 1
    BY <1>1, <1>4 DEF c
  <2>7. m \in 1 .. Len(chunks[i + 1]) /\ t[i][m] = x + m - 1
    BY <1>4, <2>3
  <2>8. Len(chunks[i + 1]) \in Nat
    BY <1>4, <2>3
  <2> HIDE DEF x, y, l
  <2>9. y + k - 1 = x + m - 1
    BY <2>2, <2>6, <2>7
  <2>10. m \in Nat /\ m >= 1 /\ k \in Nat /\ k <= l
    BY <2>5, <2>6, <2>7, <2>8
  <2> QED  BY <2>4, <2>5, <2>9, <2>10
<1> QED  BY <1>1, <1>2, <1>3, <1>4, <1>6, <1>7, <1>8, <1>9, <1>10 DEF n, t, c

(* Lines that share no page are apart. *)
LEMMA ApartIs ==
  ASSUME NEW l \in LineSet, NEW m \in LineSet
  PROVE  /\ Apart(l, m) <=> LinePages(l) \cap LinePages(m) = {}
         /\ l.addr \in LinePages(l)
<1> DEFINE a == l.addr
           b == l.size
           c == m.addr
           d == m.size
<1>1. a \in Nat /\ b \in Nat \ {0} /\ c \in Nat /\ d \in Nat \ {0}
  BY DEF LineSet
<1>2. LinePages(l) = a .. a + b - 1 /\ LinePages(m) = c .. c + d - 1
  BY DEF LinePages
<1>3. Apart(l, m) <=> a + b <= c \/ c + d <= a
  BY DEF Apart
<1> HIDE DEF a, b, c, d
<1>4. ASSUME a + b <= c \/ c + d <= a
      PROVE  (a .. a + b - 1) \cap (c .. c + d - 1) = {}
  BY <1>1, <1>4
<1>5. ASSUME ~(a + b <= c \/ c + d <= a)
      PROVE  (a .. a + b - 1) \cap (c .. c + d - 1) # {}
  <2>1. CASE a <= c
    <3>1. c \in a .. a + b - 1 /\ c \in c .. c + d - 1
      BY <1>1, <1>5, <2>1
    <3> QED  BY <3>1
  <2>2. CASE c < a
    <3>1. a \in a .. a + b - 1 /\ a \in c .. c + d - 1
      BY <1>1, <1>5, <2>2
    <3> QED  BY <3>1
  <2> QED  BY <1>1, <2>1, <2>2
<1>6. a \in a .. a + b - 1
  BY <1>1
<1> QED  BY <1>2, <1>3, <1>4, <1>5, <1>6 DEF a
(* A place in the dump, which may grow. *)
LEMMA WithinDump ==
  ASSUME NEW D \in Nat, NEW L \in Nat
  PROVE  \A o, n : o \in Nat /\ n \in Nat /\ n >= 1 /\ o + n <= D =>
            /\ o < D /\ o + n <= D + L
            /\ \A k \in 1 .. n : o + k \in 1 .. D /\ o + k <= D
OBVIOUS

(* Two lists, one behind the other. *)
LEMMA Joined ==
  ASSUME NEW S, NEW d \in Seq(S), NEW u \in Seq(S)
  PROVE  /\ d \o u \in Seq(S) /\ Len(d \o u) = Len(d) + Len(u)
         /\ \A i \in 1 .. Len(d) : (d \o u)[i] = d[i]
         /\ \A i \in 1 .. Len(u) : (d \o u)[Len(d) + i] = u[i]
OBVIOUS

(* A line that is appended with its data. *)
LEMMA WrittenIs ==
  ASSUME LInv, phase = "write", UNCHANGED given,
         NEW line, LineOk(line), NEW units \in Seq(Unit), units = UnitsOf(line),
         Len(units) = line.length, line.offset = Len(dump),
         \A p \in LinePages(line) : ~Described(p),
         cfg' = [cfg EXCEPT !.lines = Append(@, line)], dump' = dump \o units
  PROVE  /\ Lines' /\ Data' /\ LinesApart' /\ OffsetsGrow' /\ DumpWhole'
         /\ cfg' \in [num : Nat, lines : Seq(LineSet), entry : BOOLEAN]
         /\ dump' \in Seq(Unit)
         /\ cfg'.num = cfg.num /\ cfg'.entry = cfg.entry
         /\ Len(cfg'.lines) = Len(cfg.lines) + 1
         /\ \A p : Described(p)' <=> Described(p) \/ p \in LinePages(line)
<1> DEFINE N == Len(cfg.lines)
           D == Len(dump)
           L == Len(units)
<1>1. /\ cfg \in [num : Nat, lines : Seq(LineSet), entry : BOOLEAN]
      /\ dump \in Seq(Unit) /\ N \in Nat /\ D \in Nat /\ L \in Nat
  BY DEF LInv, Shape
<1>2. /\ line \in LineSet /\ line.offset \in Nat /\ line.length \in Nat
      /\ line.length >= 1
  BY DEF LineOk, LineSet
<1>3. /\ cfg' \in [num : Nat, lines : Seq(LineSet), entry : BOOLEAN]
      /\ cfg'.num = cfg.num /\ cfg'.entry = cfg.entry
      /\ cfg'.lines = Append(cfg.lines, line)
  <2>1. Append(cfg.lines, line) \in Seq(LineSet)
    BY <1>1, <1>2
  <2>2. cfg' = [num |-> cfg.num, lines |-> Append(cfg.lines, line),
                entry |-> cfg.entry]
    BY <1>1
  <2> QED  BY <1>1, <2>1, <2>2
<1>4. /\ Len(cfg'.lines) = N + 1 /\ cfg'.lines[N + 1] = line
      /\ \A i \in 1 .. N : cfg'.lines[i] = cfg.lines[i]
      /\ cfg'.lines \in Seq(LineSet)
  BY <1>1, <1>2, <1>3
<1>5. /\ dump' \in Seq(Unit) /\ Len(dump') = D + L
      /\ \A i \in 1 .. D : dump'[i] = dump[i]
      /\ \A i \in 1 .. L : dump'[D + i] = units[i]
  <2>1. PICK d : d = dump
    OBVIOUS
  <2>2. d \in Seq(Unit) /\ Len(d) = D /\ dump' = d \o units
    BY <1>1, <2>1
  <2>3. /\ d \o units \in Seq(Unit) /\ Len(d \o units) = D + L
        /\ \A i \in 1 .. D : (d \o units)[i] = d[i]
        /\ \A i \in 1 .. L : (d \o units)[D + i] = units[i]
    <3> HIDE DEF D
    <3> QED  BY <2>2, Joined
  <2> QED  BY <2>1, <2>2, <2>3
<1> HIDE DEF N, D, L
<1>6. ASSUME NEW i \in 1 .. N + 1
      PROVE  (i \in 1 .. N /\ cfg'.lines[i] = cfg.lines[i])
             \/ (i = N + 1 /\ cfg'.lines[i] = line)
  BY <1>1, <1>4
<1>7. ASSUME NEW i \in 1 .. N
      PROVE  /\ LineOk(cfg.lines[i]) /\ cfg.lines[i] \in LineSet
             /\ DataOk(cfg.lines[i], dump)
             /\ cfg.lines[i].offset \in Nat /\ cfg.lines[i].length \in Nat
             /\ cfg.lines[i].length >= 1
             /\ cfg.lines[i].offset + cfg.lines[i].length <= D
  <2>1. LineOk(cfg.lines[i]) /\ DataOk(cfg.lines[i], dump)
    BY DEF LInv, Lines, Data, N
  <2>2. cfg.lines[i].offset + cfg.lines[i].length <= D
    BY DEF LInv, DumpWhole, N, D
  <2>3. PICK x : x = cfg.lines[i]
    OBVIOUS
  <2>4. x \in LineSet
    BY <2>1, <2>3 DEF LineOk
  <2>5. x.offset \in Nat /\ x.length \in Nat /\ x.length >= 1
    BY <2>4 DEF LineSet
  <2> QED  BY <2>1, <2>2, <2>3, <2>4, <2>5
<1> DEFINE InDump(o, n, d) == o \in Nat /\ n \in Nat /\ n >= 1 /\ o + n <= d
<1>8. \A o, n : InDump(o, n, D) =>
         /\ o < D /\ o + n <= D + L
         /\ \A k \in 1 .. n : o + k \in 1 .. D /\ o + k <= D
  <2>1. D \in Nat /\ L \in Nat
    BY <1>1
  <2> QED  BY <2>1, WithinDump DEF InDump
<1>9. ASSUME NEW i \in 1 .. N  PROVE InDump(cfg.lines[i].offset, cfg.lines[i].length, D)
  BY <1>7
<1> HIDE DEF InDump
<1>10. Lines'
  <2>1. ASSUME NEW i \in 1 .. N + 1  PROVE LineOk(cfg.lines[i])'
    <3>1. PICK x : x = cfg'.lines[i]
      OBVIOUS
    <3>2. LineOk(x)
      BY <1>6, <1>7, <3>1
    <3>3. LineOk(x)'
      BY <3>2, SameLine
    <3> QED  BY <3>1, <3>3
  <2> QED  BY <1>4, <2>1 DEF Lines, LineSet
<1>11. Data'
  <2>1. ASSUME NEW i \in 1 .. N + 1  PROVE DataOk(cfg.lines[i], dump)'
    <3>1. PICK x : x = cfg'.lines[i]
      OBVIOUS
    <3>2. PICK data : data = dump'
      OBVIOUS
    <3>3. DataOk(x, data)
      <4>1. CASE i \in 1 .. N /\ x = cfg.lines[i]
        <5> SUFFICES ASSUME NEW k \in 1 .. x.length, x.offset + k <= Len(data)
                     PROVE  data[x.offset + k] = UnitsOf(x)[k]
          BY DEF DataOk
        <5>1. x.offset + k \in 1 .. D /\ x.offset + k <= D
          BY <1>8, <1>9, <4>1, Zenon
        <5>2. dump[x.offset + k] = UnitsOf(x)[k]
          BY <1>7, <4>1, <5>1 DEF DataOk, D
        <5> QED  BY <1>5, <3>2, <5>1, <5>2
      <4>2. CASE x = line
        <5> SUFFICES ASSUME NEW k \in 1 .. L
                     PROVE  data[D + k] = UnitsOf(line)[k]
          BY <4>2 DEF DataOk, D, L
        <5> QED  BY <1>5, <3>2
      <4> QED  BY <1>6, <3>1, <4>1, <4>2
    <3>4. DataOk(x, data)'
      BY <3>3, SameData
    <3> QED  BY <3>1, <3>2, <3>4
  <2> QED  BY <1>4, <2>1 DEF Data
<1>12. ASSUME NEW i \in 1 .. N
       PROVE  Apart(cfg.lines[i], line) /\ Apart(line, cfg.lines[i])
  <2>1. LinePages(cfg.lines[i]) \cap LinePages(line) = {}
    BY DEF Described, N
  <2>2. PICK x : x = cfg.lines[i]
    OBVIOUS
  <2>3. x \in LineSet /\ LinePages(x) \cap LinePages(line) = {}
    BY <1>7, <2>1, <2>2
  <2>4. Apart(x, line)
    BY <1>2, <2>3, ApartIs
  <2>5. Apart(line, x)
    BY <2>4 DEF Apart
  <2> QED  BY <2>2, <2>4, <2>5
<1>13. LinesApart'
  <2>1. ASSUME NEW i \in 1 .. N + 1, NEW j \in 1 .. N + 1, i # j
        PROVE  Apart(cfg'.lines[i], cfg'.lines[j])
    <3>1. CASE i \in 1 .. N /\ j \in 1 .. N
      BY <1>4, <2>1, <3>1 DEF LInv, LinesApart, N
    <3>2. CASE i \in 1 .. N /\ j = N + 1
      BY <1>4, <1>12, <3>2
    <3>3. CASE i = N + 1 /\ j \in 1 .. N
      BY <1>4, <1>12, <3>3
    <3> QED  BY <1>6, <2>1, <3>1, <3>2, <3>3
  <2>2. \A l, m : Apart(l, m)' <=> Apart(l, m)
    BY DEF Apart
  <2> QED  BY <1>4, <2>1, <2>2 DEF LinesApart
<1>14. OffsetsGrow'
  <2>1. ASSUME NEW i \in 1 .. N + 1, NEW j \in 1 .. N + 1, i < j
        PROVE  cfg'.lines[i].offset < cfg'.lines[j].offset
    <3>1. i \in 1 .. N /\ cfg'.lines[i] = cfg.lines[i]
      BY <1>1, <1>4, <2>1
    <3>2. CASE j \in 1 .. N
      BY <1>4, <2>1, <3>1, <3>2 DEF LInv, OffsetsGrow, N
    <3>3. CASE j = N + 1
      <4>1. cfg'.lines[j].offset = D
        BY <1>4, <3>3 DEF D
      <4>2. cfg.lines[i].offset < D
        BY <1>8, <1>9, <3>1, Zenon
      <4> QED  BY <3>1, <4>1, <4>2
    <3> QED  BY <1>6, <3>2, <3>3
  <2> QED  BY <1>4, <2>1 DEF OffsetsGrow
<1>15. DumpWhole'
  <2>1. ASSUME NEW i \in 1 .. N + 1
        PROVE  cfg'.lines[i].offset + cfg'.lines[i].length <= D + L
    <3>1. CASE i \in 1 .. N /\ cfg'.lines[i] = cfg.lines[i]
      <4>1. cfg.lines[i].offset + cfg.lines[i].length <= D + L
        BY <1>8, <1>9, <3>1, Zenon
      <4> QED  BY <3>1, <4>1
    <3>2. CASE cfg'.lines[i] = line
      <4>1. line.offset = D /\ line.length = L
        BY DEF D, L
      <4>2. D + L <= D + L
        BY <1>1
      <4> QED  BY <3>2, <4>1, <4>2
    <3> QED  BY <1>6, <3>1, <3>2
  <2> QED  BY <1>4, <1>5, <2>1 DEF DumpWhole
<1>16. ASSUME NEW p
       PROVE  Described(p)' <=> Described(p) \/ p \in LinePages(line)
  <2>1. Described(p)' <=> \E i \in 1 .. N + 1 : p \in LinePages(cfg'.lines[i])
    BY <1>4 DEF Described, LinePages
  <2>2. Described(p) <=> \E i \in 1 .. N : p \in LinePages(cfg.lines[i])
    BY DEF Described, N
  <2>3. N + 1 \in 1 .. N + 1 /\ \A i \in 1 .. N : i \in 1 .. N + 1
    BY <1>1
  <2> QED  BY <1>4, <1>6, <2>1, <2>2, <2>3
<1> QED  BY <1>3, <1>4, <1>5, <1>10, <1>11, <1>13, <1>14, <1>15, <1>16 DEF N

(* The line of a compressed chunk; this is where the limits count. *)
LEMMA CompressedLine ==
  ASSUME Givens, Limits, NEW ps, Run(ps), NEW offset \in Nat,
         \A i \in 1 .. Len(ps) : PacksWell(ps[i]),
         Len(ps) = 1 \/ Length(ps) <= MaxLength,
         NEW line, line = Line(ps, offset, Len(Compressed(ps)))
  PROVE  /\ LineOk(line) /\ line.offset = offset /\ line.length = Length(ps)
         /\ UnitsOf(line) = Compressed(ps) /\ Compressed(ps) \in Seq(Unit)
         /\ Len(Compressed(ps)) = Length(ps)
<1> DEFINE n == Len(ps)
           l == Length(ps)
           K == PageUnits * MaxRatio
<1>1. ps \in Seq(image) /\ ps # <<>> /\ n \in Nat /\ n >= 1 /\ ps[1] \in Nat
  <2>1. ps \in Seq(image) /\ n \in Nat /\ n >= 1 /\ ps[1] \in Nat
    BY RunIs
  <2> QED  BY <2>1
<1>2. l \in Nat \ {0} /\ (n = 1 => l = length[ps[1]]) /\ 100 * l <= n * K
  BY <1>1, LengthIs
<1>3. Compressed(ps) \in Seq(Unit) /\ Len(Compressed(ps)) = l
  BY <1>1, CompressedIs
<1>4. PagesOf(line) = ps /\ LinePages(line) \subseteq image
  BY LineOfRun
<1>5. line = [addr |-> ps[1], offset |-> offset, size |-> n, length |-> l]
  BY <1>3 DEF Line
<1>6. l <= BufSize
  <2>1. CASE n = 1
    <3>1. 1 \in 1 .. Len(ps) /\ PacksWell(ps[1])
      BY <2>1
    <3>2. length[ps[1]] * 100 <= K
      BY <3>1 DEF PacksWell
    <3>3. l * 100 <= K
      BY <1>2, <2>1, <3>2
    <3>4. K <= 100 * BufSize /\ K \in Nat /\ BufSize \in Nat
      BY UnitsAre DEF Limits
    <3> HIDE DEF l, K
    <3> QED  BY <1>2, <3>3, <3>4
  <2>2. CASE l <= MaxLength
    <3> HIDE DEF l
    <3> QED  BY <1>2, <2>2, UnitsAre DEF Limits
  <2> QED  BY <2>1, <2>2
<1> HIDE DEF n, l
<1>7. l # n * PageUnits
  <2>1. SUFFICES ASSUME l = n * PageUnits  PROVE FALSE
    OBVIOUS
  <2>2. 100 * (n * PageUnits) <= n * (PageUnits * MaxRatio)
    BY <1>2, <2>1
  <2> DEFINE x == n * PageUnits
  <2>3. x \in Nat /\ x > 0
    BY <1>1, UnitsAre
  <2>4. n * (PageUnits * MaxRatio) = x * MaxRatio
    BY <1>1, UnitsAre
  <2> HIDE DEF x
  <2>5. 100 * x <= x * MaxRatio
    BY <2>2, <2>4 DEF x
  <2>6. MaxRatio \in Nat /\ MaxRatio <= 99
    BY UnitsAre DEF Limits
  <2>7. x * MaxRatio <= x * 99
    <3>1. x * 99 = x * MaxRatio + x * (99 - MaxRatio)
      BY <2>3, <2>6
    <3>2. 99 - MaxRatio \in Nat
      BY <2>6
    <3>3. x * (99 - MaxRatio) \in Nat /\ x * MaxRatio \in Nat
      BY <2>3, <2>6, <3>2
    <3> QED  BY <3>1, <3>3
  <2>8. x * MaxRatio \in Nat
    BY <2>3, <2>6
  <2> QED  BY <2>3, <2>5, <2>7, <2>8
<1>8. ~Plain(line)
  BY <1>5, <1>7 DEF Plain
<1>9. line \in LineSet
  BY <1>1, <1>2, <1>5 DEF LineSet
<1>10. LineOk(line)
  BY <1>4, <1>5, <1>6, <1>8, <1>9 DEF LineOk, l
<1>11. UnitsOf(line) = Compressed(ps)
  BY <1>4, <1>8 DEF UnitsOf
<1> QED  BY <1>3, <1>5, <1>10, <1>11 DEF l

LEMMA RawLine ==
  ASSUME Givens, NEW ps, Run(ps), NEW offset \in Nat,
         NEW line, line = Line(ps, offset, Len(Raw(ps)))
  PROVE  /\ LineOk(line) /\ line.offset = offset
         /\ line.length = Len(Raw(ps))
         /\ UnitsOf(line) = Raw(ps) /\ Raw(ps) \in Seq(Unit)
<1>1. ps \in Seq(image) /\ Len(ps) \in Nat /\ Len(ps) >= 1 /\ ps[1] \in Nat
  BY RunIs
<1>2. Raw(ps) \in Seq(Unit) /\ Len(Raw(ps)) = Len(ps) * PageUnits
  BY <1>1, RawIs
<1>3. PagesOf(line) = ps /\ LinePages(line) \subseteq image
  BY LineOfRun
<1>4. line = [addr |-> ps[1], offset |-> offset, size |-> Len(ps),
              length |-> Len(ps) * PageUnits]
  BY <1>2 DEF Line
<1>5. Plain(line)
  BY <1>4 DEF Plain
<1>6. Len(ps) * PageUnits \in Nat \ {0}
  BY <1>1, UnitsAre
<1>7. line \in LineSet
  BY <1>1, <1>4, <1>6 DEF LineSet
<1> QED  BY <1>2, <1>3, <1>4, <1>5, <1>7 DEF LineOk, UnitsOf

LEMMA WriteChunkInv == LInv /\ WriteChunk /\ Limits => LInv'
<1> SUFFICES ASSUME LInv, WriteChunk, Limits  PROVE LInv'
  OBVIOUS
<1>1. /\ UNCHANGED given /\ UNCHANGED loading /\ phase = "write"
      /\ phase' = "write" /\ fault' = fault /\ comp \o uncomp # <<>>
  BY DEF WriteChunk
<1>2. Givens /\ image' = image /\ Unit' = Unit /\ Givens'
  BY <1>1, SameGivens DEF LInv
<1>3. /\ Packed /\ cfg.entry = FALSE
      /\ cfg.num = Len(cfg.lines) + Len(comp) + Len(uncomp)
      /\ \A p \in image : Described(p) \/ InChunks(comp, p) \/ InChunks(uncomp, p)
      /\ \A p \in image : Described(p) => ~InChunks(comp, p) /\ ~InChunks(uncomp, p)
  BY <1>1 DEF LInv, Writing
<1>4. Chunks(comp) /\ Chunks(uncomp)
  BY <1>3 DEF Packed
<1>5. Len(dump) \in Nat /\ Len(cfg.lines) \in Nat
      /\ Len(comp) \in Nat /\ Len(uncomp) \in Nat
  BY <1>4 DEF LInv, Shape, Chunks
<1> DEFINE Still(p) == InChunks(comp, p)' \/ InChunks(uncomp, p)'
           Was(p) == InChunks(comp, p) \/ InChunks(uncomp, p)
<1>6. SUFFICES ASSUME NEW line, LineOk(line), NEW units \in Seq(Unit),
                      units = UnitsOf(line), Len(units) = line.length,
                      line.offset = Len(dump),
                      cfg' = [cfg EXCEPT !.lines = Append(@, line)],
                      dump' = dump \o units, Packed',
                      \A p \in LinePages(line) : Was(p) /\ ~Still(p),
                      \A p : Was(p) <=> Still(p) \/ p \in LinePages(line),
                      Len(comp') + Len(uncomp') = Len(comp) + Len(uncomp) - 1,
                      Len(comp') \in Nat, Len(uncomp') \in Nat
               PROVE  LInv'
  <2>1. ASSUME NEW ps, NEW units, Run(ps),
               cfg' = [cfg EXCEPT !.lines = Append(@, Line(ps, Len(dump), Len(units)))],
               dump' = dump \o units, units \in Seq(Unit),
               LineOk(Line(ps, Len(dump), Len(units))),
               units = UnitsOf(Line(ps, Len(dump), Len(units))), Packed',
               \A k \in 1 .. Len(ps) : ~Still(ps[k]),
               \A p : Was(p) <=> Still(p) \/ \E k \in 1 .. Len(ps) : ps[k] = p,
               Len(comp') + Len(uncomp') = Len(comp) + Len(uncomp) - 1,
               Len(comp') \in Nat, Len(uncomp') \in Nat
        PROVE  LInv'
    <3>1. PICK line : line = Line(ps, Len(dump), Len(units))
      OBVIOUS
    <3>2. \A p : p \in LinePages(line) <=> \E k \in 1 .. Len(ps) : ps[k] = p
      <4>1. PICK offset, len : offset = Len(dump) /\ len = Len(units)
        OBVIOUS
      <4>2. line = Line(ps, offset, len)
        BY <3>1, <4>1
      <4> QED  BY <1>2, <2>1, <4>2, LineOfRun
    <3>3. line.offset = Len(dump) /\ line.length = Len(units)
      BY <3>1 DEF Line
    <3>4. \A p : Was(p) <=> Still(p) \/ p \in LinePages(line)
      <4> HIDE DEF Was, Still
      <4> QED  BY <2>1, <3>2
    <3>5. \A p \in LinePages(line) : Was(p) /\ ~Still(p)
      <4> HIDE DEF Was, Still
      <4> QED  BY <2>1, <3>2, <3>4
    <3> HIDE DEF Was, Still
    <3> QED  BY <1>6, <2>1, <3>1, <3>3, <3>4, <3>5
  <2>2. CASE CompressedNext
    <3>1. uncomp = <<>> /\ comp # <<>>
      <4>1. uncomp = <<>>
        BY <2>2 DEF CompressedNext
      <4>2. comp \in Seq(Seq(image))
        BY <1>4 DEF Chunks
      <4> QED  BY <1>1, <4>1, <4>2
    <3>2. /\ Written(comp[1], Compressed(comp[1]))
          /\ comp' = Tail(comp) /\ uncomp' = uncomp
      BY <2>2 DEF WriteChunk
    <3>3. PICK c : c = comp
      OBVIOUS
    <3>4. Chunks(c) /\ c # <<>>
      BY <1>4, <3>1, <3>3
    <3>5. /\ Chunks(Tail(c)) /\ Run(c[1]) /\ 1 \in 1 .. Len(c)
          /\ Len(Tail(c)) = Len(c) - 1
          /\ \A i \in 1 .. Len(Tail(c)) :
                i + 1 \in 1 .. Len(c) /\ Tail(c)[i] = c[i + 1]
          /\ \A p : InChunks(c, p) <=>
                InChunks(Tail(c), p) \/ \E k \in 1 .. Len(c[1]) : c[1][k] = p
          /\ \A k \in 1 .. Len(c[1]) : ~InChunks(Tail(c), c[1][k])
      BY <1>2, <3>4, TailOfChunks
    <3>6. PICK ps : ps = c[1]
      OBVIOUS
    <3>7. PICK units : units = Compressed(ps)
      OBVIOUS
    <3>8. /\ cfg' = [cfg EXCEPT !.lines = Append(@, Line(ps, Len(dump), Len(units)))]
          /\ dump' = dump \o units
      BY <3>2, <3>3, <3>6, <3>7 DEF Written
    <3>9. \A q : InChunks(comp, q)' <=> InChunks(Tail(c), q)
      BY <1>1, <3>2, <3>3, SameChunks
    <3>10. \A q : ~InChunks(uncomp, q) /\ ~InChunks(uncomp, q)'
      <4>1. Len(uncomp) = 0 /\ Len(uncomp') = 0
        BY <3>1, <3>2
      <4> QED  BY <4>1 DEF InChunks
    <3>11. \A k \in 1 .. Len(ps) : ~Still(ps[k])
      BY <3>5, <3>6, <3>9, <3>10
    <3>12. \A p : Was(p) <=> Still(p) \/ \E k \in 1 .. Len(ps) : ps[k] = p
      BY <3>3, <3>5, <3>6, <3>9, <3>10
    <3>13. Packed'
      <4>1. Chunks(comp)' /\ Chunks(uncomp)'
        BY <1>1, <1>4, <3>2, <3>3, <3>5, SameChunks
      <4>2. (\A p \in image : InChunks(comp, p) => PacksWell(p))'
        BY <1>1, <1>2, <1>3, <3>3, <3>5, <3>9, SameChunks DEF Packed
      <4>3. (\A p \in image : InChunks(uncomp, p) => ~PacksWell(p))'
        BY <3>10
      <4>4. (\A i \in 1 .. Len(comp) : Len(comp[i]) = 1 \/ Length(comp[i]) <= MaxLength)'
        <5> SUFFICES ASSUME NEW i \in 1 .. Len(Tail(c))
                     PROVE  Len(Tail(c)[i]) = 1 \/ Length(Tail(c)[i]) <= MaxLength
          BY <1>1, <3>2, <3>3, SameChunks
        <5>1. \A j \in 1 .. Len(c) : Len(c[j]) = 1 \/ Length(c[j]) <= MaxLength
          BY <1>3, <3>3 DEF Packed
        <5> QED  BY <3>5, <5>1
      <4> QED  BY <4>1, <4>2, <4>3, <4>4 DEF Packed
    <3>14. /\ LineOk(Line(ps, Len(dump), Len(units)))
           /\ units = UnitsOf(Line(ps, Len(dump), Len(units)))
           /\ units \in Seq(Unit)
      <4>1. PICK offset \in Nat : offset = Len(dump)
        BY <1>5
      <4>2. \A i \in 1 .. Len(ps) : PacksWell(ps[i])
        <5>1. \A i \in 1 .. Len(ps) : InChunks(comp, ps[i]) /\ ps[i] \in image
          <6>1. \A i \in 1 .. Len(ps) : ps[i] \in image
            BY <1>2, <3>5, <3>6, RunIs
          <6> QED  BY <3>3, <3>5, <3>6, <6>1
        <5> QED  BY <1>3, <5>1 DEF Packed
      <4>3. Len(ps) = 1 \/ Length(ps) <= MaxLength
        BY <1>3, <3>3, <3>5, <3>6 DEF Packed
      <4>4. PICK line : line = Line(ps, offset, Len(Compressed(ps)))
        OBVIOUS
      <4>5. LineOk(line) /\ UnitsOf(line) = Compressed(ps) /\ Compressed(ps) \in Seq(Unit)
        BY <1>2, <3>5, <3>6, <4>2, <4>3, <4>4, CompressedLine
      <4>6. line = Line(ps, Len(dump), Len(units))
        BY <3>7, <4>1, <4>4
      <4> QED  BY <3>7, <4>5, <4>6
    <3>15. /\ Len(comp') + Len(uncomp') = Len(comp) + Len(uncomp) - 1
           /\ Len(comp') \in Nat /\ Len(uncomp') \in Nat
      <4>1. Len(uncomp) = 0 /\ Len(uncomp') = 0
        BY <3>1, <3>2
      <4>2. Len(comp') = Len(comp) - 1 /\ Len(comp) >= 1
        BY <1>5, <3>2, <3>3, <3>5
      <4> QED  BY <1>5, <4>1, <4>2
    <3>16. Run(ps)
      BY <3>5, <3>6
    <3> HIDE DEF Still, Was
    <3> QED  BY <2>1, <3>8, <3>11, <3>12, <3>13, <3>14, <3>15, <3>16
  <2>3. CASE ~CompressedNext
    <3>1. uncomp # <<>>
      BY <2>3 DEF CompressedNext
    <3>2. /\ Written(uncomp[1], Raw(uncomp[1]))
          /\ uncomp' = Tail(uncomp) /\ comp' = comp
      BY <2>3 DEF WriteChunk
    <3>3. PICK c : c = uncomp
      OBVIOUS
    <3>4. Chunks(c) /\ c # <<>>
      BY <1>4, <3>1, <3>3
    <3>5. /\ Chunks(Tail(c)) /\ Run(c[1]) /\ 1 \in 1 .. Len(c)
          /\ Len(Tail(c)) = Len(c) - 1
          /\ \A p : InChunks(c, p) <=>
                InChunks(Tail(c), p) \/ \E k \in 1 .. Len(c[1]) : c[1][k] = p
          /\ \A k \in 1 .. Len(c[1]) : ~InChunks(Tail(c), c[1][k])
      BY <1>2, <3>4, TailOfChunks
    <3>6. PICK ps : ps = c[1]
      OBVIOUS
    <3>7. PICK units : units = Raw(ps)
      OBVIOUS
    <3>8. /\ cfg' = [cfg EXCEPT !.lines = Append(@, Line(ps, Len(dump), Len(units)))]
          /\ dump' = dump \o units
      BY <3>2, <3>3, <3>6, <3>7 DEF Written
    <3>9. \A q : InChunks(uncomp, q)' <=> InChunks(Tail(c), q)
      BY <1>1, <3>2, <3>3, SameChunks
    <3>10. \A q : InChunks(comp, q)' <=> InChunks(comp, q)
      BY <1>1, <3>2, SameChunks
    <3>11. \A k \in 1 .. Len(ps) : ~Still(ps[k])
      <4>1. ASSUME NEW k \in 1 .. Len(ps)  PROVE ~InChunks(comp, ps[k])
        <5>1. InChunks(uncomp, ps[k]) /\ ps[k] \in image
          <6>1. ps[k] \in image
            BY <1>2, <3>5, <3>6, RunIs
          <6> QED  BY <3>3, <3>5, <3>6, <6>1
        <5> QED  BY <1>3, <5>1 DEF Packed
      <4> QED  BY <3>5, <3>6, <3>9, <3>10, <4>1
    <3>12. \A p : Was(p) <=> Still(p) \/ \E k \in 1 .. Len(ps) : ps[k] = p
      BY <3>3, <3>5, <3>6, <3>9, <3>10
    <3>13. Packed'
      <4>1. Chunks(comp)' /\ Chunks(uncomp)'
        BY <1>1, <1>4, <3>2, <3>3, <3>5, SameChunks
      <4>2. (\A p \in image : InChunks(comp, p) => PacksWell(p))'
        BY <1>1, <1>2, <1>3, <3>10, SameChunks DEF Packed
      <4>3. (\A p \in image : InChunks(uncomp, p) => ~PacksWell(p))'
        BY <1>1, <1>2, <1>3, <3>3, <3>5, <3>9, SameChunks DEF Packed
      <4>4. (\A i \in 1 .. Len(comp) : Len(comp[i]) = 1 \/ Length(comp[i]) <= MaxLength)'
        BY <1>1, <1>3, <3>2, SameChunks DEF Packed
      <4> QED  BY <4>1, <4>2, <4>3, <4>4 DEF Packed
    <3>14. /\ LineOk(Line(ps, Len(dump), Len(units)))
           /\ units = UnitsOf(Line(ps, Len(dump), Len(units)))
           /\ units \in Seq(Unit)
      <4>1. PICK offset \in Nat : offset = Len(dump)
        BY <1>5
      <4>2. PICK line : line = Line(ps, offset, Len(Raw(ps)))
        OBVIOUS
      <4>3. LineOk(line) /\ UnitsOf(line) = Raw(ps) /\ Raw(ps) \in Seq(Unit)
        BY <1>2, <3>5, <3>6, <4>2, RawLine
      <4>4. line = Line(ps, Len(dump), Len(units))
        BY <3>7, <4>1, <4>2
      <4> QED  BY <3>7, <4>3, <4>4
    <3>15. /\ Len(comp') + Len(uncomp') = Len(comp) + Len(uncomp) - 1
           /\ Len(comp') \in Nat /\ Len(uncomp') \in Nat
      <4>1. Len(comp') = Len(comp)
        BY <3>2
      <4>2. Len(uncomp') = Len(uncomp) - 1 /\ Len(uncomp) >= 1
        BY <1>5, <3>2, <3>3, <3>5
      <4> QED  BY <1>5, <4>1, <4>2
    <3>16. Run(ps)
      BY <3>5, <3>6
    <3> HIDE DEF Still, Was
    <3> QED  BY <2>1, <3>8, <3>11, <3>12, <3>13, <3>14, <3>15, <3>16
  <2> QED  BY <2>2, <2>3
<1>7. \A p \in LinePages(line) : ~Described(p)
  <2>1. \A p \in LinePages(line) : p \in image
    BY <1>6 DEF LineOk
  <2> QED  BY <1>3, <1>6, <2>1
<1>8. /\ Lines' /\ Data' /\ LinesApart' /\ OffsetsGrow' /\ DumpWhole'
      /\ cfg' \in [num : Nat, lines : Seq(LineSet), entry : BOOLEAN]
      /\ dump' \in Seq(Unit)
      /\ cfg'.num = cfg.num /\ cfg'.entry = cfg.entry
      /\ Len(cfg'.lines) = Len(cfg.lines) + 1
      /\ \A p : Described(p)' <=> Described(p) \/ p \in LinePages(line)
  BY <1>1, <1>6, <1>7, WrittenIs
<1>9. Shape'
  <2>1. mem' \in [Pn -> Pn \cup {Nothing, Cl, Mc}] /\ fault' \in BOOLEAN
    BY <1>1 DEF LInv, Shape, loading, Nothing, Cl, Mc
  <2> QED  BY <1>1, <1>2, <1>8, <2>1 DEF Shape, LineSet, Nothing, Cl, Mc
<1>10. Writing'
  <2>1. cfg'.num = Len(cfg'.lines) + Len(comp') + Len(uncomp')
    <3>1. \A a, b, c, d, n \in Nat : d + n = b + c - 1 => a + b + c = (a + 1) + d + n
      OBVIOUS
    <3>2. /\ Len(cfg.lines) \in Nat /\ Len(comp) \in Nat /\ Len(uncomp) \in Nat
          /\ Len(comp') \in Nat /\ Len(uncomp') \in Nat
          /\ Len(comp') + Len(uncomp') = Len(comp) + Len(uncomp) - 1
      BY <1>5, <1>6
    <3>3. Len(cfg.lines) + Len(comp) + Len(uncomp)
            = (Len(cfg.lines) + 1) + Len(comp') + Len(uncomp')
      BY <3>1, <3>2
    <3> QED  BY <1>3, <1>8, <3>3
  <2>2. ASSUME NEW p \in image
        PROVE  Described(p)' \/ InChunks(comp, p)' \/ InChunks(uncomp, p)'
    BY <1>3, <1>6, <1>8
  <2>3. ASSUME NEW p \in image, Described(p)'
        PROVE  ~InChunks(comp, p)' /\ ~InChunks(uncomp, p)'
    BY <1>3, <1>6, <1>8, <2>3
  <2>4. cfg'.entry = FALSE
    BY <1>3, <1>8
  <2>5. (\A p \in image : Described(p) \/ InChunks(comp, p) \/ InChunks(uncomp, p))'
    BY <1>2, <2>2
  <2>6. (\A p \in image : Described(p) => ~InChunks(comp, p) /\ ~InChunks(uncomp, p))'
    BY <1>2, <2>3
  <2> QED  BY <1>6, <2>1, <2>4, <2>5, <2>6 DEF Writing
<1>11. ~ParseOk'
  BY <1>3, <1>8 DEF ParseOk
<1>12. Complete' /\ Packing' /\ Mapping' /\ Placed'
  BY <1>1, <1>11 DEF Complete, Packing, Mapping, Placed
<1> QED  BY <1>2, <1>8, <1>9, <1>10, <1>12 DEF LInv

(***************************************************************************)
(* main: sorting the configurations and finding a place.                   *)
(***************************************************************************)
LEMMA ByKey ==
  ASSUME NEW ls \in Seq(LineSet), NEW key \in [Range(ls) -> Nat],
         \A q, r \in Range(ls) : key[q] = key[r] => q = r
  PROVE  /\ InOrder(Range(ls), key) \in Seq(LineSet)
         /\ \A i \in 1 .. Len(InOrder(Range(ls), key)) :
               \E j \in 1 .. Len(ls) : InOrder(Range(ls), key)[i] = ls[j]
         /\ \A j \in 1 .. Len(ls) :
               \E i \in 1 .. Len(InOrder(Range(ls), key)) :
                  InOrder(Range(ls), key)[i] = ls[j]
         /\ \A i, j \in 1 .. Len(InOrder(Range(ls), key)) :
               i < j => key[InOrder(Range(ls), key)[i]]
                           < key[InOrder(Range(ls), key)[j]]
<1> DEFINE R == Range(ls)
           n == Cardinality(R)
           f == InOrder(R, key)
           D == 1 .. Len(ls)
<1>1. D = DOMAIN ls /\ Len(ls) \in Nat /\ R = {ls[i] : i \in D} /\ R \subseteq LineSet
  BY DEF Range
<1>2. IsFiniteSet(R)
  <2>1. IsFiniteSet(D)
    <3>1. 1 \in Int /\ Len(ls) \in Int
      BY <1>1
    <3> QED  BY <3>1, FS_Interval
  <2>2. ls \in [D -> R] /\ \A x \in R : \E i \in D : ls[i] = x
    BY <1>1
  <2> HIDE DEF D, R
  <2>3. ls \in Surjection(D, R)
    BY <2>2 DEF Surjection
  <2> QED  BY <2>1, <2>3, FS_Surjection
<1>3. n \in Nat /\ f \in [1 .. n -> R] /\ Ordered(f, R, key, n)
  BY <1>2, InOrderIs
<1> HIDE DEF R, n, f, D
<1>4. f \in Seq(LineSet) /\ Len(f) = n /\ DOMAIN f = 1 .. n
  BY <1>1, <1>3
<1>5. ASSUME NEW i \in 1 .. n  PROVE \E j \in D : f[i] = ls[j]
  <2>1. f[i] \in R
    BY <1>3
  <2> QED  BY <1>1, <2>1
<1>6. ASSUME NEW j \in D  PROVE \E i \in 1 .. n : f[i] = ls[j]
  <2>1. ls[j] \in Range(f)
    BY <1>1, <1>3 DEF Ordered
  <2> QED  BY <1>4, <2>1 DEF Range
<1>7. ASSUME NEW i \in 1 .. n, NEW j \in 1 .. n, i < j
      PROVE  key[f[i]] < key[f[j]]
  BY <1>3, <1>7 DEF Ordered
<1> QED  BY <1>4, <1>5, <1>6, <1>7 DEF R, f, D

LEMMA ByAddrIs ==
  ASSUME NEW ls \in Seq(LineSet),
         \A i, j \in 1 .. Len(ls) : ls[i].addr = ls[j].addr => ls[i] = ls[j]
  PROVE  /\ ByAddr(ls) \in Seq(LineSet)
         /\ \A i \in 1 .. Len(ByAddr(ls)) : \E j \in 1 .. Len(ls) : ByAddr(ls)[i] = ls[j]
         /\ \A j \in 1 .. Len(ls) : \E i \in 1 .. Len(ByAddr(ls)) : ByAddr(ls)[i] = ls[j]
         /\ \A i, j \in 1 .. Len(ByAddr(ls)) :
               i < j => ByAddr(ls)[i].addr < ByAddr(ls)[j].addr
<1> DEFINE key == [line \in Range(ls) |-> line.addr]
           f == InOrder(Range(ls), key)
<1>1. /\ Range(ls) \subseteq LineSet /\ DOMAIN ls = 1 .. Len(ls)
      /\ Range(ls) = {ls[i] : i \in 1 .. Len(ls)}
  BY DEF Range
<1>2. key \in [Range(ls) -> Nat]
  BY <1>1 DEF LineSet
<1>3. \A q, r \in Range(ls) : key[q] = key[r] => q = r
  BY <1>1
<1>4. /\ f \in Seq(LineSet)
      /\ \A i \in 1 .. Len(f) : \E j \in 1 .. Len(ls) : f[i] = ls[j]
      /\ \A j \in 1 .. Len(ls) : \E i \in 1 .. Len(f) : f[i] = ls[j]
      /\ \A i, j \in 1 .. Len(f) : i < j => key[f[i]] < key[f[j]]
  <2> HIDE DEF key
  <2> QED  BY <1>2, <1>3, ByKey
<1>5. ByAddr(ls) = f
  BY DEF ByAddr
<1> HIDE DEF f
<1>6. ASSUME NEW i \in 1 .. Len(f)  PROVE key[f[i]] = f[i].addr
  <2>1. f[i] \in Range(ls)
    BY <1>1, <1>4
  <2> QED  BY <2>1
<1> HIDE DEF key
<1> QED  BY <1>4, <1>5, <1>6

LEMMA ByOffsetIs ==
  ASSUME NEW ls \in Seq(LineSet),
         \A i, j \in 1 .. Len(ls) : ls[i].offset = ls[j].offset => ls[i] = ls[j]
  PROVE  /\ ByOffset(ls) \in Seq(LineSet)
         /\ \A i \in 1 .. Len(ByOffset(ls)) :
               \E j \in 1 .. Len(ls) : ByOffset(ls)[i] = ls[j]
         /\ \A j \in 1 .. Len(ls) :
               \E i \in 1 .. Len(ByOffset(ls)) : ByOffset(ls)[i] = ls[j]
<1> DEFINE key == [line \in Range(ls) |-> line.offset]
<1>1. /\ Range(ls) \subseteq LineSet
      /\ Range(ls) = {ls[i] : i \in 1 .. Len(ls)}
  BY DEF Range
<1>2. key \in [Range(ls) -> Nat]
  BY <1>1 DEF LineSet
<1>3. \A q, r \in Range(ls) : key[q] = key[r] => q = r
  BY <1>1
<1>4. ByOffset(ls) = InOrder(Range(ls), key)
  BY DEF ByOffset
<1> DEFINE f == InOrder(Range(ls), key)
<1>5. /\ f \in Seq(LineSet)
      /\ \A i \in 1 .. Len(f) : \E j \in 1 .. Len(ls) : f[i] = ls[j]
      /\ \A j \in 1 .. Len(ls) : \E i \in 1 .. Len(f) : f[i] = ls[j]
  <2> HIDE DEF key
  <2> QED  BY <1>2, <1>3, ByKey
<1> HIDE DEF f
<1> QED  BY <1>4, <1>5 DEF f

LEMMA ParseCfgsInv == LInv /\ ParseCfgs => LInv'
<1> SUFFICES ASSUME LInv, ParseCfgs  PROVE LInv'
  OBVIOUS
<1>1. /\ UNCHANGED given /\ UNCHANGED files /\ phase = "parse"
      /\ phase' \in {"place", "failed"} /\ fault' = fault /\ mem' = mem
      /\ (phase' = "place" => ParseOk /\ mcs' = ByAddr(cfg.lines))
  BY DEF ParseCfgs
<1>2. image' = image /\ Unit' = Unit /\ cfg' = cfg /\ dump' = dump
  BY <1>1, SameGivens DEF files
<1>3. (Givens /\ Lines /\ Data /\ LinesApart /\ OffsetsGrow /\ Complete)'
  BY <1>1, SameFiles
<1>4. Shape'
  BY <1>1, <1>2 DEF LInv, Shape, LineSet, Nothing, Cl, Mc
<1>5. Mapping'
  <2> SUFFICES ASSUME phase' = "place"  PROVE Mapping'
    BY <1>1 DEF Mapping
  <2>1. ParseOk' /\ mcs' = ByAddr(cfg.lines)
    BY <1>1, <1>2 DEF ParseOk
  <2>2. PICK ls : ls = cfg.lines
    OBVIOUS
  <2>3. ls \in Seq(LineSet)
    BY <2>2 DEF LInv, Lines
  <2>4. ASSUME NEW i \in 1 .. Len(ls), NEW j \in 1 .. Len(ls), ls[i].addr = ls[j].addr
        PROVE  ls[i] = ls[j]
    <3>1. SUFFICES ASSUME i # j  PROVE FALSE
      OBVIOUS
    <3>2. Apart(ls[i], ls[j])
      BY <2>2, <3>1 DEF LInv, LinesApart
    <3>3. ls[i] \in LineSet /\ ls[j] \in LineSet
      BY <2>3
    <3>4. ls[i].addr \in Nat /\ ls[i].size \in Nat \ {0} /\ ls[j].size \in Nat \ {0}
      BY <3>3 DEF LineSet
    <3> QED  BY <2>4, <3>2, <3>4 DEF Apart
  <2>5. /\ mcs' \in Seq(LineSet)
        /\ \A i \in 1 .. Len(mcs') : \E j \in 1 .. Len(ls) : mcs'[i] = ls[j]
        /\ \A j \in 1 .. Len(ls) : \E i \in 1 .. Len(mcs') : mcs'[i] = ls[j]
        /\ \A i, j \in 1 .. Len(mcs') : i < j => mcs'[i].addr < mcs'[j].addr
    BY <2>1, <2>2, <2>3, <2>4, ByAddrIs
  <2> QED  BY <1>2, <2>1, <2>2, <2>5 DEF Mapping, LineSet
<1>6. Packing' /\ Writing' /\ DumpWhole' /\ Placed'
  BY <1>1 DEF Packing, Writing, DumpWhole, Placed
<1> QED  BY <1>3, <1>4, <1>5, <1>6 DEF LInv

LEMMA TotalIs ==
  ASSUME cfg.num \in Nat
  PROVE  TotalPages \in Nat /\ ClPages \in Nat /\ TotalPages >= ClPages /\ ClPages >= 1
<1> DEFINE x == cfg.num * CfgSize + StackSize + PageUnits - 1
<1>1. /\ CfgSize \in Nat /\ StackSize \in Nat /\ StackSize >= 1
      /\ ClPages \in Nat /\ ClPages >= 1 /\ PageUnits \in Nat /\ PageUnits > 0
  BY LoaderAssumption
<1>2. cfg.num * CfgSize \in Nat
  BY <1>1
<1>3. x \in Nat
  BY <1>1, <1>2
<1>4. TotalPages = ClPages + (x \div PageUnits)
  BY DEF TotalPages, PagesFor
<1> HIDE DEF x
<1>5. x \div PageUnits \in Nat
  <2>1. PICK y \in Nat : y = x
    BY <1>3
  <2>2. 0 \in Nat
    OBVIOUS
  <2>3. y \div PageUnits \in Nat
    BY <1>1, <2>2, DivShift
  <2> QED  BY <2>1, <2>3
<1> QED  BY <1>1, <1>4, <1>5

(* The place that is found is in front of none of its pages' lines. *)
LEMMA BumpIs ==
  ASSUME NEW ls \in Seq(LineSet), cfg.num \in Nat,
         \A i, j \in 1 .. Len(ls) : i < j => ls[i].addr + ls[i].size <= ls[j].addr
  PROVE  /\ Bump(ls) \in Nat /\ ClBase <= Bump(ls)
         /\ \A i \in 1 .. Len(ls) : ~Overlaps(Bump(ls), ls[i])
<1> DEFINE N == Len(ls)
           Behind(b, line) == IF Overlaps(b, line) THEN line.addr + line.size ELSE b
           Body(g) == [n \in 0 .. N |->
                IF n = 0 THEN ClBase ELSE Behind(g[n - 1], ls[n])]
           G == [n \in 1 .. N |-> [b \in Nat |-> Behind(b, ls[n])]]
           found == CHOOSE g : g = Body(g)
<1>1. N \in Nat /\ ClBase \in Nat
  BY LoaderAssumption
<1>2. ASSUME NEW n \in 1 .. N
      PROVE  ls[n].addr \in Nat /\ ls[n].size \in Nat /\ ls[n].size >= 1
  <2>1. ls[n] \in LineSet
    OBVIOUS
  <2>2. \A x \in LineSet : x.addr \in Nat /\ x.size \in Nat /\ x.size >= 1
    BY DEF LineSet
  <2> HIDE DEF Body, G, found, N
  <2> QED  BY <2>1, <2>2
<1>3. ASSUME NEW n \in 1 .. N, NEW b \in Nat  PROVE Behind(b, ls[n]) \in Nat
  <2>1. ls[n].addr + ls[n].size \in Nat
    BY <1>2
  <2> QED  BY <2>1
<1>4. G \in [1 .. N -> [Nat -> Nat]]
  <2> HIDE DEF Behind, N
  <2> QED  BY <1>3
<1>5. PICK h \in [0 .. N -> Nat] :
        h[0] = ClBase /\ \A n \in 1 .. N : h[n] = G[n][h[n - 1]]
  <2> HIDE DEF G, N, Body, found
  <2>1. StepsIn(N, Nat)
    BY <1>1, StepsAll
  <2> QED  BY <1>1, <1>4, <2>1, Zenon DEF StepsIn
<1>6. ASSUME NEW n \in 1 .. N
      PROVE  h[n] = Behind(h[n - 1], ls[n]) /\ h[n - 1] \in Nat /\ h[n] \in Nat
  <2>1. n - 1 \in 0 .. N /\ h[n - 1] \in Nat /\ n \in 0 .. N
    BY <1>1
  <2> HIDE DEF Behind
  <2> QED  BY <1>5, <2>1
<1>7. h = Body(h)
  <2> HIDE DEF Behind
  <2>1. ASSUME NEW n \in 0 .. N  PROVE h[n] = Body(h)[n]
    <3>1. CASE n = 0
      BY <1>5, <3>1
    <3>2. CASE n # 0
      <4>1. n \in 1 .. N
        BY <1>1, <3>2
      <4> QED  BY <1>6, <3>2, <4>1
    <3> QED  BY <3>1, <3>2
  <2>2. h = [n \in 0 .. N |-> h[n]]
    OBVIOUS
  <2> QED  BY <2>1, <2>2
<1>8. found = Body(found)
  <2> HIDE DEF Body
  <2> QED  BY <1>7
<1>9. Bump(ls) = found[N]
  BY DEF Bump
<1> HIDE DEF found
<1>10. found[0] = ClBase
  <2>1. 0 \in 0 .. N
    BY <1>1
  <2> HIDE DEF Behind
  <2> QED  BY <1>8, <2>1
<1>11. ASSUME NEW n \in 1 .. N  PROVE found[n] = Behind(found[n - 1], ls[n])
  <2>1. n \in 0 .. N /\ n # 0
    BY <1>1
  <2> HIDE DEF Behind
  <2> QED  BY <1>8, <2>1
<1> DEFINE Clear == {n \in 0 .. N :
               /\ found[n] \in Nat /\ ClBase <= found[n]
               /\ \A i \in 1 .. n : ~Overlaps(found[n], ls[i])}
<1>12. 0 .. N \subseteq Clear
  <2>1. 0 \in Clear
    BY <1>1, <1>10
  <2>2. ASSUME NEW n \in 1 .. N, n - 1 \in Clear  PROVE n \in Clear
    <3>1. PICK b \in Nat : b = found[n - 1]
      BY <2>2
    <3>2. ClBase <= b /\ \A i \in 1 .. n - 1 : ~Overlaps(b, ls[i])
      BY <2>2, <3>1
    <3>3. found[n] = Behind(b, ls[n]) /\ n \in 0 .. N
      BY <1>1, <1>11, <3>1
    <3>4. CASE Overlaps(b, ls[n])
      <4>1. PICK z : z = ls[n].addr + ls[n].size
        OBVIOUS
      <4>2. found[n] = z /\ z \in Nat
        BY <1>2, <3>3, <3>4, <4>1
      <4>3. ClBase <= z
        <5>1. b < z
          BY <3>4, <4>1 DEF Overlaps
        <5> QED  BY <1>1, <3>2, <4>2, <5>1
      <4>4. ASSUME NEW i \in 1 .. n  PROVE ~Overlaps(z, ls[i])
        <5>1. i \in 1 .. N /\ (i < n \/ i = n)
          BY <1>1
        <5>2. ls[i].addr + ls[i].size <= z
          <6>1. CASE i = n
            BY <4>1, <4>2, <6>1
          <6>2. CASE i < n
            <7>1. ls[i].addr + ls[i].size <= ls[n].addr
              BY <5>1, <6>2
            <7>2. \A x, y, d \in Nat : x <= y => x <= y + d
              OBVIOUS
            <7>3. /\ ls[i].addr + ls[i].size \in Nat /\ ls[n].addr \in Nat
                  /\ ls[n].size \in Nat
              BY <1>2, <5>1
            <7>4. ls[i].addr + ls[i].size <= ls[n].addr + ls[n].size
              BY <7>1, <7>2, <7>3, Zenon
            <7> QED  BY <4>1, <7>4
          <6> QED  BY <5>1, <6>1, <6>2
        <5>3. ls[i].addr + ls[i].size \in Nat
          BY <1>2, <5>1
        <5> QED  BY <4>2, <5>2, <5>3 DEF Overlaps
      <4> QED  BY <3>3, <4>2, <4>3, <4>4
    <3>5. CASE ~Overlaps(b, ls[n])
      <4>1. found[n] = b
        BY <3>3, <3>5
      <4>2. ASSUME NEW i \in 1 .. n  PROVE ~Overlaps(b, ls[i])
        <5>1. i \in 1 .. n - 1 \/ i = n
          BY <1>1
        <5> QED  BY <3>2, <3>5, <5>1
      <4> QED  BY <3>2, <3>3, <4>1, <4>2
    <3> QED  BY <3>4, <3>5
  <2> HIDE DEF Clear, N
  <2> QED  BY <1>1, <2>1, <2>2, BoundedInduction
<1>13. N \in Clear
  BY <1>1, <1>12
<1> QED  BY <1>9, <1>13

LEMMA MapLoaderInv == LInv /\ MapLoader => LInv'
<1> SUFFICES ASSUME LInv, MapLoader  PROVE LInv'
  OBVIOUS
<1>1. /\ UNCHANGED given /\ UNCHANGED files /\ phase = "place" /\ fault' = fault
      /\ phase' \in {"map", "failed"}
  BY DEF MapLoader
<1>2. image' = image /\ Unit' = Unit /\ cfg' = cfg /\ dump' = dump
  BY <1>1, SameGivens DEF files
<1>3. (Givens /\ Lines /\ Data /\ LinesApart /\ OffsetsGrow /\ Complete)'
  BY <1>1, SameFiles
<1>4. Packing' /\ Writing' /\ DumpWhole'
  BY <1>1 DEF Packing, Writing, DumpWhole
<1>5. CASE phase' = "failed"
  <2>1. mem' = mem
    BY <1>5 DEF MapLoader, loading
  <2>2. Shape'
    BY <1>1, <1>2, <2>1 DEF LInv, Shape, LineSet, Nothing, Cl, Mc
  <2>3. Mapping' /\ Placed'
    BY <1>5 DEF Mapping, Placed
  <2> QED  BY <1>3, <1>4, <2>2, <2>3 DEF LInv
<1>6. CASE phase' = "map"
  <2> DEFINE ls == cfg.lines
             N == Len(mcs)
             T == TotalPages
  <2>1. /\ FoundBase + T <= ClTop /\ base' = FoundBase /\ mcs' = ByOffset(mcs)
        /\ mem' = [p \in Pn |->
                      CASE p \in base' .. base' + ClPages - 1 -> Cl
                        [] p \in base' + ClPages .. base' + T - 1 -> Mc
                        [] OTHER -> mem[p]]
    BY <1>6 DEF MapLoader
  <2>2. /\ ParseOk /\ mcs \in Seq(LineSet)
        /\ \A i \in 1 .. N : \E j \in 1 .. Len(ls) : mcs[i] = ls[j]
        /\ \A j \in 1 .. Len(ls) : \E i \in 1 .. N : mcs[i] = ls[j]
        /\ \A i, j \in 1 .. N : i < j => mcs[i].addr < mcs[j].addr
    BY <1>1 DEF LInv, Mapping
  <2>3. /\ \A i, j \in 1 .. Len(ls) : i # j => Apart(ls[i], ls[j])
        /\ \A i, j \in 1 .. Len(ls) : i < j => ls[i].offset < ls[j].offset
        /\ ls \in Seq(LineSet) /\ Len(ls) \in Nat /\ N \in Nat
    BY <2>2 DEF LInv, LinesApart, OffsetsGrow, Lines
  <2>4. T \in Nat /\ ClPages \in Nat /\ T >= ClPages /\ ClPages >= 1
    <3>1. cfg.num \in Nat
      BY DEF LInv, Shape
    <3> QED  BY <3>1, TotalIs
  <2> HIDE DEF ls, N, T
  <2>5. ASSUME NEW x \in LineSet
        PROVE  /\ x.addr \in Nat /\ x.size \in Nat /\ x.size >= 1 /\ x.offset \in Nat
    BY DEF LineSet
  <2>6. ASSUME NEW i \in 1 .. N, NEW j \in 1 .. N, i < j
        PROVE  mcs[i].addr + mcs[i].size <= mcs[j].addr
    <3>1. PICK k \in 1 .. Len(ls) : mcs[i] = ls[k]
      BY <2>2
    <3>2. PICK l \in 1 .. Len(ls) : mcs[j] = ls[l]
      BY <2>2
    <3>3. PICK x \in LineSet, y \in LineSet : x = mcs[i] /\ y = mcs[j]
      BY <2>3, <3>1, <3>2
    <3>4. x.addr < y.addr
      BY <2>2, <2>6, <3>3
    <3>5. Apart(x, y)
      <4>1. k # l
        BY <2>5, <3>1, <3>2, <3>3, <3>4
      <4> QED  BY <2>3, <3>1, <3>2, <3>3, <4>1
    <3>6. x.addr + x.size <= y.addr
      BY <2>5, <3>4, <3>5 DEF Apart
    <3> QED  BY <3>3, <3>6
  <2>7. ASSUME NEW i \in 1 .. N, NEW j \in 1 .. N, mcs[i].offset = mcs[j].offset
        PROVE  mcs[i] = mcs[j]
    <3>1. PICK k \in 1 .. Len(ls) : mcs[i] = ls[k]
      BY <2>2
    <3>2. PICK l \in 1 .. Len(ls) : mcs[j] = ls[l]
      BY <2>2
    <3>3. k < l \/ k = l \/ l < k
      BY <2>3
    <3>4. ls[k] \in LineSet
      BY <2>3
    <3>5. ls[k].offset \in Nat
      BY <2>5, <3>4
    <3>6. ~(k < l) /\ ~(l < k)
      BY <2>3, <2>7, <3>1, <3>2, <3>5
    <3> QED  BY <3>1, <3>2, <3>3, <3>6
  <2>8. /\ mcs' \in Seq(LineSet)
        /\ \A i \in 1 .. Len(mcs') : \E j \in 1 .. N : mcs'[i] = mcs[j]
        /\ \A j \in 1 .. N : \E i \in 1 .. Len(mcs') : mcs'[i] = mcs[j]
    <3>1. PICK f \in Seq(LineSet) : f = mcs
      BY <2>2
    <3>2. \A i, j \in 1 .. Len(f) : f[i].offset = f[j].offset => f[i] = f[j]
      BY <2>7, <3>1 DEF N
    <3>3. mcs' = ByOffset(f)
      BY <2>1, <3>1
    <3>4. /\ ByOffset(f) \in Seq(LineSet)
          /\ \A i \in 1 .. Len(ByOffset(f)) :
                \E j \in 1 .. Len(f) : ByOffset(f)[i] = f[j]
          /\ \A j \in 1 .. Len(f) :
                \E i \in 1 .. Len(ByOffset(f)) : ByOffset(f)[i] = f[j]
      BY <3>2, ByOffsetIs
    <3> QED  BY <3>1, <3>3, <3>4 DEF N
  <2>9. /\ FoundBase \in Nat /\ ClBase <= FoundBase
        /\ \A i \in 1 .. N : ~Overlaps(FoundBase, mcs[i])
    <3>1. PICK f \in Seq(LineSet) : f = mcs
      BY <2>2
    <3>2. \A i, j \in 1 .. Len(f) : i < j => f[i].addr + f[i].size <= f[j].addr
      BY <2>6, <3>1 DEF N
    <3>3. cfg.num \in Nat
      BY DEF LInv, Shape
    <3>4. /\ Bump(f) \in Nat /\ ClBase <= Bump(f)
          /\ \A i \in 1 .. Len(f) : ~Overlaps(Bump(f), f[i])
      BY <3>2, <3>3, BumpIs
    <3> QED  BY <3>1, <3>4 DEF FoundBase, N
  <2>10. PICK b \in Nat : b = FoundBase
    BY <2>9
  <2>11. base' = b /\ ClBase <= b /\ b + T <= ClTop
    BY <2>1, <2>9, <2>10
  <2>12. mem' = [p \in Pn |->
                      CASE p \in b .. b + ClPages - 1 -> Cl
                        [] p \in b + ClPages .. b + T - 1 -> Mc
                        [] OTHER -> mem[p]]
    BY <2>1, <2>11
  <2>13. mem' \in [Pn -> Pn \cup {Nothing, Cl, Mc}]
    <3>1. mem \in [Pn -> Pn \cup {Nothing, Cl, Mc}]
      BY DEF LInv, Shape
    <3> HIDE DEF Cl, Mc, Nothing
    <3> QED  BY <2>12, <3>1
  <2>14. Shape'
    BY <1>1, <1>2, <1>6, <2>13 DEF LInv, Shape, LineSet, Nothing, Cl, Mc
  <2>15. ParseOk' /\ TotalPages' = T
    BY <1>2, <2>2 DEF ParseOk, TotalPages, T
  <2>16. Mapping'
    <3>1. ASSUME NEW i \in 1 .. Len(mcs')
          PROVE  \E j \in 1 .. Len(ls) : mcs'[i] = ls[j]
      BY <2>2, <2>8
    <3>2. ASSUME NEW j \in 1 .. Len(ls)
          PROVE  \E i \in 1 .. Len(mcs') : mcs'[i] = ls[j]
      BY <2>2, <2>8
    <3>3. cfg'.lines = ls
      BY <1>2 DEF ls
    <3> QED  BY <1>6, <2>8, <2>15, <3>1, <3>2, <3>3 DEF Mapping, LineSet
  <2>17. ASSUME NEW p \in b .. b + T - 1  PROVE ~Described(p)'
    <3>1. SUFFICES ASSUME NEW j \in 1 .. Len(ls), p \in LinePages(ls[j])  PROVE FALSE
      BY <1>2 DEF Described, LinePages, ls
    <3>2. PICK i \in 1 .. N : mcs[i] = ls[j]
      BY <2>2
    <3>3. PICK x \in LineSet : x = ls[j]
      BY <2>3
    <3>4. ~(b + T > x.addr /\ b < x.addr + x.size)
      BY <2>9, <2>10, <3>2, <3>3 DEF Overlaps, T
    <3>5. p \in x.addr .. x.addr + x.size - 1
      BY <3>1, <3>3 DEF LinePages
    <3>6. x.addr \in Nat /\ x.size \in Nat
      BY <2>5
    <3> QED  BY <2>4, <3>4, <3>5, <3>6
  <2>18. ASSUME NEW p \in b .. b + T - 1
         PROVE  mem'[p] = IF p < b + ClPages THEN Cl ELSE Mc
    <3>1. ClBase \in Nat /\ ClTop \in Nat /\ ClBase .. ClTop - 1 \subseteq Pn
      BY LoaderAssumption
    <3>2. p \in Pn
      <4>1. p \in ClBase .. ClTop - 1
        BY <2>4, <2>11, <3>1
      <4> QED  BY <3>1, <4>1
    <3>3. CASE p < b + ClPages
      <4>1. p \in b .. b + ClPages - 1
        BY <2>4, <3>3
      <4>2. p \notin b + ClPages .. b + T - 1
        BY <2>4, <3>3
      <4> HIDE DEF Cl, Mc
      <4> QED  BY <2>12, <3>2, <3>3, <4>1, <4>2
    <3>4. CASE ~(p < b + ClPages)
      <4>1. p \notin b .. b + ClPages - 1
        BY <2>4, <3>4
      <4>2. p \in b + ClPages .. b + T - 1
        BY <2>4, <3>4
      <4> HIDE DEF Cl, Mc
      <4> QED  BY <2>12, <3>2, <3>4, <4>1, <4>2
    <3> QED  BY <3>3, <3>4
  <2>19. Placed'
    BY <2>11, <2>15, <2>17, <2>18 DEF Placed, Cl, Mc
  <2> QED  BY <1>3, <1>4, <2>14, <2>16, <2>19 DEF LInv
<1> QED  BY <1>1, <1>5, <1>6

LEMMA MmapFailsInv == LInv /\ MmapFails => LInv'
<1> SUFFICES ASSUME LInv, MmapFails  PROVE LInv'
  OBVIOUS
<1>1. /\ UNCHANGED given /\ UNCHANGED files /\ UNCHANGED loading
      /\ phase' = "failed" /\ fault' = TRUE
  BY DEF MmapFails
<1>2. image' = image /\ Unit' = Unit
  BY <1>1, SameGivens
<1>3. (Givens /\ Lines /\ Data /\ LinesApart /\ OffsetsGrow /\ Complete)'
  BY <1>1, SameFiles
<1>4. Shape'
  BY <1>1, <1>2 DEF LInv, Shape, files, loading, LineSet, Nothing, Cl, Mc
<1>5. Packing' /\ Writing' /\ DumpWhole' /\ Mapping' /\ Placed'
  BY <1>1 DEF Packing, Writing, DumpWhole, Mapping, Placed
<1> QED  BY <1>3, <1>4, <1>5 DEF LInv

LEMMA BeginExecutionInv == LInv /\ BeginExecution => LInv'
<1> SUFFICES ASSUME LInv, BeginExecution  PROVE LInv'
  OBVIOUS
<1>1. /\ UNCHANGED given /\ UNCHANGED files /\ UNCHANGED loading
      /\ phase = "map" /\ phase' = "running" /\ fault' = fault /\ mcs = <<>>
  BY DEF BeginExecution
<1>2. /\ image' = image /\ Unit' = Unit /\ cfg' = cfg /\ mem' = mem /\ base' = base
  BY <1>1, SameGivens DEF files, loading
<1>3. (Givens /\ Lines /\ Data /\ LinesApart /\ OffsetsGrow /\ Complete)'
  BY <1>1, SameFiles
<1>4. Shape'
  BY <1>1, <1>2 DEF LInv, Shape, files, loading, LineSet, Nothing, Cl, Mc
<1>5. Packing' /\ Writing' /\ DumpWhole'
  BY <1>1 DEF Packing, Writing, DumpWhole
<1>6. Mapping'
  <2>1. ParseOk' /\ \A j \in 1 .. Len(cfg.lines) : Loaded(cfg.lines[j])
    <3>1. Len(mcs) = 0
      BY <1>1
    <3> QED  BY <1>1, <1>2, <3>1 DEF LInv, Mapping, ParseOk
  <2> QED  BY <1>1, <1>2, <2>1 DEF Mapping, Loaded, LinePages
<1>7. Placed'
  <2>1. TotalPages' = TotalPages
    BY <1>2 DEF TotalPages
  <2> QED  BY <1>1, <1>2, <2>1 DEF LInv, Placed, Described, LinePages, Cl, Mc
<1> QED  BY <1>3, <1>4, <1>5, <1>6, <1>7 DEF LInv

(***************************************************************************)
(* map_pages.                                                              *)
(***************************************************************************)
(* A line whose pages get their own data. *)
LEMMA MapsLine ==
  ASSUME LInv, phase = "map", phase' = "map", mcs # <<>>, UNCHANGED given,
         UNCHANGED files, fault' = fault, base' = base, mcs' = Tail(mcs),
         NEW data, mem' = MapAt(mcs[1], data),
         \A i \in 1 .. mcs[1].size : data[i] = mcs[1].addr + i - 1
  PROVE  LInv'
<1>2. image' = image /\ Unit' = Unit /\ cfg' = cfg /\ dump' = dump
  BY SameGivens DEF files
<1>3. (Givens /\ Lines /\ Data /\ LinesApart /\ OffsetsGrow /\ Complete)'
  BY SameFiles
<1>4. Packing' /\ Writing' /\ DumpWhole'
  BY DEF Packing, Writing, DumpWhole
<1> DEFINE ls == cfg.lines
           N == Len(mcs)
<1>5. /\ ParseOk /\ mcs \in Seq(LineSet) /\ N \in Nat /\ N >= 1 /\ 1 \in 1 .. N
      /\ \A i \in 1 .. N : \E j \in 1 .. Len(ls) : mcs[i] = ls[j]
      /\ \A j \in 1 .. Len(ls) :
            Loaded(ls[j]) \/ \E i \in 1 .. N : mcs[i] = ls[j]
  BY DEF LInv, Mapping
<1>6. /\ mcs' \in Seq(LineSet) /\ Len(mcs') = N - 1
      /\ \A i \in 1 .. N - 1 : mcs'[i] = mcs[i + 1]
  BY <1>5
<1> HIDE DEF ls, N
<1>7. PICK j0 \in 1 .. Len(ls) : mcs[1] = ls[j0]
  BY <1>5
<1>8. PICK line : line = mcs[1]
  OBVIOUS
<1>9. /\ line \in LineSet /\ LinePages(line) \subseteq image
      /\ \A p \in LinePages(line) : Described(p)
  BY <1>7, <1>8 DEF LInv, Lines, LineOk, Described, ls
<1>10. /\ line.addr \in Nat /\ line.size \in Nat
       /\ LinePages(line) = line.addr .. line.addr + line.size - 1
  BY <1>9 DEF LineSet, LinePages
<1>11. image \subseteq Pn /\ mem \in [Pn -> Pn \cup {Nothing, Cl, Mc}]
  BY DEF LInv, Givens, Shape
<1>12. ASSUME NEW p \in LinePages(line)  PROVE mem'[p] = p /\ p \in Pn
  <2>1. p \in Pn /\ p - line.addr + 1 \in 1 .. line.size
    BY <1>9, <1>10, <1>11
  <2>2. data[p - line.addr + 1] = line.addr + (p - line.addr + 1) - 1
    BY <1>8, <2>1
  <2>3. line.addr + (p - line.addr + 1) - 1 = p
    BY <1>10
  <2>4. mem'[p] = data[p - line.addr + 1]
    BY <1>8, <1>10, <2>1 DEF MapAt
  <2> QED  BY <2>1, <2>2, <2>3, <2>4
<1>13. ASSUME NEW p \in Pn, p \notin LinePages(line)  PROVE mem'[p] = mem[p]
  BY <1>8, <1>10, <1>13 DEF MapAt
<1>14. mem' \in [Pn -> Pn \cup {Nothing, Cl, Mc}]
  <2>1. mem' = [p \in Pn |-> mem'[p]]
    BY DEF MapAt
  <2>2. \A p \in Pn : mem'[p] \in Pn \cup {Nothing, Cl, Mc}
    BY <1>11, <1>12, <1>13
  <2> QED  BY <2>1, <2>2
<1>15. Shape'
  BY <1>2, <1>14 DEF LInv, Shape, LineSet, Nothing, Cl, Mc
<1>16. Mapping'
  <2>1. ASSUME NEW i \in 1 .. Len(mcs')
        PROVE  \E j \in 1 .. Len(ls) : mcs'[i] = ls[j]
    <3>1. i + 1 \in 1 .. N /\ mcs'[i] = mcs[i + 1]
      BY <1>5, <1>6
    <3> QED  BY <1>5, <3>1
  <2>2. ASSUME NEW j \in 1 .. Len(ls),
               ~ \E i \in 1 .. Len(mcs') : mcs'[i] = ls[j],
               NEW p \in LinePages(ls[j])
        PROVE  mem'[p] = p
    <3>1. CASE p \in LinePages(line)
      BY <1>12, <3>1
    <3>2. CASE p \notin LinePages(line)
      <4>1. ~ \E i \in 1 .. N : mcs[i] = ls[j]
        <5>1. SUFFICES ASSUME NEW i \in 1 .. N, mcs[i] = ls[j]  PROVE FALSE
          OBVIOUS
        <5>2. i # 1
          BY <1>8, <2>2, <3>2, <5>1
        <5>3. i - 1 \in 1 .. N - 1 /\ (i - 1) + 1 = i
          BY <1>5, <5>2
        <5>4. mcs'[i - 1] = ls[j]
          BY <1>6, <5>1, <5>3
        <5> QED  BY <1>6, <2>2, <5>3, <5>4
      <4>2. mem[p] = p
        BY <1>5, <2>2, <4>1 DEF Loaded
      <4>3. p \in Pn
        <5>1. LineOk(ls[j])
          BY DEF LInv, Lines, ls
        <5> QED  BY <1>11, <2>2, <5>1 DEF LineOk
      <4> QED  BY <1>13, <3>2, <4>2, <4>3
    <3> QED  BY <3>1, <3>2
  <2>3. cfg'.lines = ls /\ ParseOk'
    BY <1>2, <1>5 DEF ls, ParseOk
  <2>4. ASSUME NEW j \in 1 .. Len(ls)
        PROVE  Loaded(cfg.lines[j])' \/ \E i \in 1 .. Len(mcs') : mcs'[i] = ls[j]
    BY <2>2, <2>3 DEF Loaded, LinePages
  <2> QED  BY <1>6, <2>1, <2>3, <2>4 DEF Mapping, LineSet
<1>17. Placed'
  <2>1. TotalPages' = TotalPages
    BY <1>2 DEF TotalPages
  <2>2. /\ base \in Nat /\ ClBase <= base /\ base + TotalPages <= ClTop
        /\ \A p \in base .. base + TotalPages - 1 : ~Described(p)
        /\ \A p \in base .. base + TotalPages - 1 :
              mem[p] = IF p < base + ClPages THEN Cl ELSE Mc
    BY DEF LInv, Placed
  <2>3. \A p : Described(p)' <=> Described(p)
    BY <1>2 DEF Described, LinePages
  <2>4. ASSUME NEW p \in base .. base + TotalPages - 1  PROVE mem'[p] = mem[p]
    <3>1. p \notin LinePages(line)
      BY <1>9, <2>2
    <3>2. p \in Pn
      <4>1. ClBase \in Nat /\ ClTop \in Nat /\ ClBase .. ClTop - 1 \subseteq Pn
        BY LoaderAssumption
      <4>2. TotalPages \in Nat
        BY TotalIs DEF LInv, Shape
      <4>3. p \in ClBase .. ClTop - 1
        BY <2>2, <4>1, <4>2
      <4> QED  BY <4>1, <4>3
    <3> QED  BY <1>13, <3>1, <3>2
  <2> QED  BY <2>1, <2>2, <2>3, <2>4 DEF Placed, Cl, Mc
<1> QED  BY <1>3, <1>4, <1>15, <1>16, <1>17 DEF LInv

(* The configuration is refused in the middle. *)
LEMMA StopsInv ==
  ASSUME LInv, UNCHANGED given, UNCHANGED files, mem' = mem, fault' = fault,
         phase' = "failed"
  PROVE  LInv'
<1>1. image' = image /\ Unit' = Unit
  BY SameGivens
<1>2. (Givens /\ Lines /\ Data /\ LinesApart /\ OffsetsGrow /\ Complete)'
  BY SameFiles
<1>3. Shape'
  BY <1>1 DEF LInv, Shape, files, LineSet, Nothing, Cl, Mc
<1>4. Packing' /\ Writing' /\ DumpWhole' /\ Mapping' /\ Placed'
  BY DEF Packing, Writing, DumpWhole, Mapping, Placed
<1> QED  BY <1>2, <1>3, <1>4 DEF LInv

(* The pages of a line that is good. *)
LEMMA PagesOfLine ==
  ASSUME Givens, NEW line, LineOk(line)
  PROVE  /\ PagesOf(line) \in Seq(image) /\ Len(PagesOf(line)) = line.size
         /\ \A i \in 1 .. line.size : PagesOf(line)[i] = line.addr + i - 1
         /\ line.addr \in Nat /\ line.size \in Nat /\ line.size >= 1
         /\ line.offset \in Nat /\ line.length \in Nat /\ line.length >= 1
<1>1. /\ line.addr \in Nat /\ line.size \in Nat /\ line.size >= 1
      /\ line.offset \in Nat /\ line.length \in Nat /\ line.length >= 1
  BY DEF LineOk, LineSet
<1>2. ASSUME NEW i \in 1 .. line.size  PROVE line.addr + i - 1 \in image
  <2>1. line.addr + i - 1 \in LinePages(line)
    BY <1>1 DEF LinePages
  <2> QED  BY <2>1 DEF LineOk
<1>3. PagesOf(line) = [i \in 1 .. line.size |-> line.addr + i - 1]
  BY DEF PagesOf
<1> QED  BY <1>1, <1>2, <1>3

(* The place of a unit behind the units before it. *)
LEMMA PlaceOf ==
  ASSUME NEW b \in Nat, NEW x \in Nat, NEW t \in Nat, NEW d \in Nat, b + t <= d,
         NEW k \in Nat, x + k \in 1 .. t, k >= 1
  PROVE  /\ b + (x + k) = (b + x) + k
         /\ (b + x) + k <= d /\ (b + x) + k \in Nat /\ (b + x) + k >= 1
OBVIOUS

(* A page of the dump. *)
LEMMA PageAtIs ==
  ASSUME Givens, NEW line, LineOk(line), Plain(line), dump \in Seq(Unit),
         DataOk(line, dump), line.offset + line.length <= Len(dump),
         NEW i \in 1 .. line.size
  PROVE  PageAt(line.offset + (i - 1) * PageUnits) = line.addr + i - 1
<1> DEFINE P == PageUnits
           ps == PagesOf(line)
           x == (i - 1) * P
           p == line.addr + i - 1
           m == line.size
<1>1. /\ ps \in Seq(image) /\ Len(ps) = m /\ ps[i] = p
      /\ line.addr \in Nat /\ m \in Nat /\ m >= 1
      /\ line.offset \in Nat /\ line.length \in Nat /\ line.length >= 1
  BY PagesOfLine
<1>2. P \in Nat /\ P > 0 /\ i - 1 \in Nat /\ i \in Nat /\ i <= m
  BY <1>1, UnitsAre
<1>3. line.length = m * P
  BY DEF Plain
<1>4. UnitsOf(line) = Raw(ps)
  BY DEF UnitsOf
<1>5. p \in image
  BY <1>1
<1> HIDE DEF P, ps, p, m
<1>6. /\ x \in Nat /\ x = P * (i - 1) /\ x + P = i * P /\ m * P = i * P + (m - i) * P
      /\ (m - i) * P \in Nat /\ i * P \in Nat /\ m * P \in Nat
  <2>1. m - i \in Nat
    BY <1>1, <1>2
  <2>2. (m - i) * P \in Nat
    BY <1>2, <2>1
  <2>3. m * P = i * P + (m - i) * P
    BY <1>1, <1>2
  <2>4. x \in Nat /\ x = P * (i - 1) /\ x + P = i * P /\ i * P \in Nat /\ m * P \in Nat
    BY <1>1, <1>2
  <2> QED  BY <2>2, <2>3, <2>4
<1> DEFINE o == line.offset + x
           units == SubSeq(dump, o + 1, o + P)
<1> HIDE DEF x
<1>7. ASSUME NEW k \in 1 .. P
      PROVE  /\ x + k \in 1 .. m * P /\ line.offset + (x + k) = o + k
             /\ o + k <= Len(dump) /\ o + k \in Nat /\ o + k >= 1
  <2>1. x + k \in 1 .. m * P
    BY <1>2, <1>6
  <2>2. line.offset + m * P <= Len(dump)
    BY <1>3
  <2>3. Len(dump) \in Nat
    OBVIOUS
  <2>4. line.offset \in Nat /\ x \in Nat /\ P \in Nat /\ m * P \in Nat
    BY <1>1, <1>2, <1>6
  <2> QED  BY <2>1, <2>2, <2>3, <2>4, PlaceOf
<1>8. ASSUME NEW k \in 1 .. P
      PROVE  dump[o + k] = [zip |-> FALSE, of |-> <<p>>, at |-> k]
  <2>1. dump[o + k] = Raw(ps)[x + k]
    <3>1. x + k \in 1 .. line.length
      BY <1>3, <1>7
    <3>2. line.offset + (x + k) <= Len(dump)
      BY <1>7
    <3>3. dump[line.offset + (x + k)] = UnitsOf(line)[x + k]
      BY <3>1, <3>2 DEF DataOk
    <3> QED  BY <1>4, <1>7, <3>3
  <2>2. Raw(ps)[x + k] = [zip |-> FALSE,
                          of |-> <<ps[(((x + k) - 1) \div P) + 1]>>,
                          at |-> (((x + k) - 1) % P) + 1]
    <3>1. x + k \in 1 .. Len(ps) * PageUnits
      BY <1>1, <1>7 DEF P
    <3> QED  BY <1>1, <3>1, RawIs DEF P
  <2>3. ((x + k) - 1) \div P = i - 1 /\ ((x + k) - 1) % P = k - 1
    <3> DEFINE y == (x + k) - 1
               q == i - 1
               r == k - 1
    <3>1. y \in Nat /\ q \in Nat /\ r \in 0 .. P - 1 /\ y = P * q + r
      BY <1>2, <1>6
    <3> HIDE DEF y, q, r
    <3>2. y \div P = q /\ y % P = r
      BY <1>2, <3>1, DivIs
    <3> QED  BY <3>2 DEF y, q, r
  <2>4. (i - 1) + 1 = i /\ (k - 1) + 1 = k
    BY <1>2
  <2> QED  BY <1>1, <2>1, <2>2, <2>3, <2>4
<1>9. /\ units \in Seq(Unit) /\ Len(units) = P
      /\ \A k \in 1 .. P : units[k] = [zip |-> FALSE, of |-> <<p>>, at |-> k]
  <2>1. o \in Nat /\ o + P \in Nat /\ o + P <= Len(dump)
    <3>1. P \in 1 .. P
      BY <1>2
    <3>2. o + P <= Len(dump)
      BY <1>7, <3>1
    <3>3. o \in Nat
      BY <1>1, <1>6
    <3> QED  BY <1>2, <3>2, <3>3
  <2> HIDE DEF o
  <2>2. (o + P) - (o + 1) + 1 = P
    BY <1>2, <2>1
  <2>3. o + 1 \in Nat /\ o + 1 >= 1
    BY <2>1
  <2>4. Len(units) = P /\ units \in Seq(Unit)
    BY <1>2, <2>1, <2>2, <2>3
  <2>5. ASSUME NEW k \in 1 .. P  PROVE units[k] = dump[o + k]
    <3>1. units[k] = dump[(o + 1) + k - 1]
      BY <1>2, <2>1, <2>2, <2>3
    <3>2. (o + 1) + k - 1 = o + k
      BY <2>1
    <3> QED  BY <3>1, <3>2
  <2> QED  BY <1>8, <2>4, <2>5 DEF o
<1>10. /\ Raw(<<p>>) \in Seq(Unit) /\ Len(Raw(<<p>>)) = P
       /\ \A k \in 1 .. P : Raw(<<p>>)[k] = [zip |-> FALSE, of |-> <<p>>, at |-> k]
  <2>1. <<p>> \in Seq(image) /\ Len(<<p>>) = 1 /\ <<p>>[1] = p
    BY <1>5
  <2> DEFINE s1 == <<p>>
  <2>2. s1 \in Seq(image) /\ Len(s1) * PageUnits = P /\ s1[1] = p
    BY <1>2, <2>1 DEF P
  <2> HIDE DEF s1
  <2>3. Raw(s1) \in Seq(Unit) /\ Len(Raw(s1)) = P
    BY <2>2, RawIs
  <2>4. ASSUME NEW k \in 1 .. P
        PROVE  Raw(s1)[k] = [zip |-> FALSE, of |-> <<p>>, at |-> k]
    <3>1. Raw(s1)[k] = [zip |-> FALSE, of |-> <<s1[((k - 1) \div P) + 1]>>,
                        at |-> ((k - 1) % P) + 1]
      BY <2>2, RawIs DEF P
    <3>2. (k - 1) \div P = 0 /\ (k - 1) % P = k - 1
      <4> DEFINE r == k - 1
                 q == 0
      <4>1. r \in 0 .. P - 1 /\ r \in Nat /\ q \in Nat /\ r = P * q + r
        BY <1>2
      <4> HIDE DEF r, q
      <4>2. r \div P = q /\ r % P = r
        BY <1>2, <4>1, DivIs
      <4> QED  BY <4>2 DEF r, q
    <3>3. (k - 1) + 1 = k
      BY <1>2
    <3>4. s1[((k - 1) \div P) + 1] = p
      <4>1. ((k - 1) \div P) + 1 = 1
        BY <3>2
      <4> QED  BY <2>2, <4>1
    <3>5. ((k - 1) % P) + 1 = k
      BY <3>2, <3>3
    <3> QED  BY <3>1, <3>4, <3>5, Zenon
  <2> QED  BY <2>3, <2>4 DEF s1
<1>11. PageAt(o) = IF units = Raw(units[1].of) THEN units[1].of[1] ELSE Garbage
  BY DEF PageAt, P
<1> HIDE DEF units
<1>12. units[1].of = <<p>>
  BY <1>2, <1>9
<1>13. units = Raw(<<p>>)
  <2>1. units = [k \in 1 .. P |-> units[k]]
    BY <1>9
  <2> DEFINE v == Raw(<<p>>)
  <2>2. v \in Seq(Unit) /\ Len(v) = P
    BY <1>10
  <2>3. \A k \in 1 .. P : v[k] = units[k]
    BY <1>9, <1>10
  <2> HIDE DEF v
  <2>4. v = [k \in 1 .. P |-> v[k]]
    BY <2>2
  <2>5. v = units
    BY <2>1, <2>3, <2>4
  <2> QED  BY <2>5 DEF v
<1>14. PageAt(o) = p
  BY <1>11, <1>12, <1>13
<1> QED  BY <1>14 DEF o, x, P, p

(* What is read for a compressed line. *)
LEMMA ReadAtIs ==
  ASSUME Givens, NEW line, LineOk(line), ~Plain(line), dump \in Seq(Unit),
         DataOk(line, dump), ReadsAll(line)
  PROVE  Decompressed(ReadAt(line), line.size) = PagesOf(line)
<1> DEFINE o == line.offset
           l == line.length
           ps == PagesOf(line)
           units == ReadAt(line)
<1>1. /\ ps \in Seq(image) /\ Len(ps) = line.size /\ line.size \in Nat
      /\ line.size >= 1 /\ o \in Nat /\ l \in Nat /\ l >= 1
  BY PagesOfLine
<1>2. ps # <<>>
  BY <1>1
<1>3. l = Length(ps) /\ UnitsOf(line) = Compressed(ps)
  BY DEF LineOk, UnitsOf
<1>4. /\ Compressed(ps) \in Seq(Unit) /\ Len(Compressed(ps)) = l
      /\ \A k \in 1 .. l : Compressed(ps)[k] = [zip |-> TRUE, of |-> ps, at |-> k]
  <2> HIDE DEF ps
  <2> QED  BY <1>1, <1>2, <1>3, CompressedIs
<1>5. o + l <= Len(dump) /\ Len(dump) \in Nat
  BY DEF ReadsAll
<1>6. Min({o + l, Len(dump)}) = o + l
  <2> DEFINE z == o + l
             n == Len(dump)
             Least(y) == \A w \in {z, n} : y <= w
  <2>1. z \in Nat /\ n \in Nat /\ z <= n
    BY <1>1, <1>5
  <2> HIDE DEF z, n
  <2>2. z \in {z, n} /\ Least(z)
    BY <2>1
  <2>3. \A y \in {z, n} : Least(y) => y = z
    BY <2>1
  <2>4. Min({z, n}) = CHOOSE y \in {z, n} : Least(y)
    BY DEF Min
  <2> HIDE DEF Least
  <2>5. Min({z, n}) = z
    BY <2>2, <2>3, <2>4
  <2> QED  BY <2>5 DEF z, n
<1>7. units = SubSeq(dump, o + 1, o + l)
  BY <1>6 DEF ReadAt
<1>8. DataOk(line, dump)
  OBVIOUS
<1>9. \A k \in 1 .. l : o + k <= Len(dump) => dump[o + k] = Compressed(ps)[k]
  BY <1>3, <1>8 DEF DataOk
<1> HIDE DEF units, ps, o, l
<1>10. /\ units \in Seq(Unit) /\ Len(units) = l
       /\ \A k \in 1 .. l : units[k] = dump[o + k]
  <2>1. (o + l) - (o + 1) + 1 = l /\ o + l \in Nat
    BY <1>1
  <2>2. o + 1 \in Nat /\ o + 1 >= 1
    BY <1>1
  <2>3. Len(units) = l /\ units \in Seq(Unit)
    BY <1>1, <1>5, <1>7, <2>1, <2>2
  <2>4. ASSUME NEW k \in 1 .. l  PROVE units[k] = dump[o + k]
    <3>1. units[k] = dump[(o + 1) + k - 1]
      BY <1>1, <1>5, <1>7, <2>1, <2>2
    <3>2. (o + 1) + k - 1 = o + k
      BY <1>1
    <3> QED  BY <3>1, <3>2
  <2> QED  BY <2>3, <2>4
<1>11. \A k \in 1 .. l : units[k] = Compressed(ps)[k]
  <2>1. ASSUME NEW k \in 1 .. l  PROVE o + k <= Len(dump)
    BY <1>1, <1>5
  <2> QED  BY <1>9, <1>10, <2>1
<1>12. units = Compressed(ps)
  <2> DEFINE v == Compressed(ps)
  <2>1. v \in Seq(Unit) /\ Len(v) = l /\ \A k \in 1 .. l : units[k] = v[k]
    BY <1>4, <1>11
  <2> HIDE DEF v
  <2>2. v = [k \in 1 .. l |-> v[k]] /\ units = [k \in 1 .. l |-> units[k]]
    BY <1>10, <2>1
  <2>3. v = units
    BY <2>1, <2>2
  <2> QED  BY <2>3 DEF v
<1>13. units # <<>> /\ units[1].of = ps
  <2>1. 1 \in 1 .. l
    BY <1>1
  <2> QED  BY <1>4, <1>10, <1>11, <2>1
<1>14. Len(ps) <= line.size
  BY <1>1
<1>15. Decompressed(units, line.size) = ps
  BY <1>12, <1>13, <1>14 DEF Decompressed
<1> QED  BY <1>15 DEF units, ps

(* The next line is one of the file's. *)
LEMMA NextLine ==
  ASSUME LInv, phase = "map", mcs # <<>>
  PROVE  /\ Givens /\ LineOk(mcs[1]) /\ DataOk(mcs[1], dump) /\ dump \in Seq(Unit)
<1>1. /\ mcs \in Seq(LineSet)
      /\ \A i \in 1 .. Len(mcs) : \E j \in 1 .. Len(cfg.lines) : mcs[i] = cfg.lines[j]
  BY DEF LInv, Mapping
<1>2. 1 \in 1 .. Len(mcs)
  BY <1>1
<1>3. PICK j \in 1 .. Len(cfg.lines) : mcs[1] = cfg.lines[j]
  BY <1>1, <1>2
<1> QED  BY <1>3 DEF LInv, Lines, Data, Shape

LEMMA MapFileInv == LInv /\ MapFile => LInv'
<1> SUFFICES ASSUME LInv, MapFile  PROVE LInv'
  OBVIOUS
<1>1. /\ UNCHANGED given /\ UNCHANGED files /\ phase = "map" /\ fault' = fault
      /\ base' = base /\ mcs # <<>> /\ Plain(mcs[1])
  BY DEF MapFile
<1>2. CASE CanMapFile(mcs[1])
  <2>1. mem' = MapAt(mcs[1], FilePages(mcs[1])) /\ mcs' = Tail(mcs) /\ phase' = "map"
    BY <1>1, <1>2 DEF MapFile
  <2>2. PICK line : line = mcs[1]
    OBVIOUS
  <2>3. PICK data : data = FilePages(mcs[1])
    OBVIOUS
  <2>4. /\ Givens /\ LineOk(line) /\ DataOk(line, dump) /\ dump \in Seq(Unit)
        /\ Plain(line)
    BY <1>1, <2>2, NextLine
  <2>5. line.offset + line.length <= Len(dump)
    BY <1>2, <2>2 DEF CanMapFile
  <2>6. ASSUME NEW i \in 1 .. line.size  PROVE data[i] = line.addr + i - 1
    <3>1. data[i] = PageAt(line.offset + (i - 1) * PageUnits)
      BY <2>2, <2>3 DEF FilePages
    <3>2. PageAt(line.offset + (i - 1) * PageUnits) = line.addr + i - 1
      BY <2>4, <2>5, PageAtIs
    <3> QED  BY <3>1, <3>2
  <2>7. mem' = MapAt(mcs[1], data)
    BY <2>1, <2>3
  <2>8. \A i \in 1 .. mcs[1].size : data[i] = mcs[1].addr + i - 1
    BY <2>2, <2>6
  <2> QED  BY <1>1, <2>1, <2>7, <2>8, MapsLine
<1>3. CASE ~CanMapFile(mcs[1])
  <2>1. phase' = "failed" /\ mem' = mem
    BY <1>3 DEF MapFile
  <2> QED  BY <1>1, <2>1, StopsInv
<1> QED  BY <1>2, <1>3

LEMMA MapCompressedInv == LInv /\ MapCompressed => LInv'
<1> SUFFICES ASSUME LInv, MapCompressed  PROVE LInv'
  OBVIOUS
<1>1. /\ UNCHANGED given /\ UNCHANGED files /\ phase = "map" /\ fault' = fault
      /\ base' = base /\ mcs # <<>> /\ ~Plain(mcs[1])
  BY DEF MapCompressed
<1>2. CASE ReadsAll(mcs[1])
  <2>1. /\ mem' = MapAt(mcs[1], Decompressed(ReadAt(mcs[1]), mcs[1].size))
        /\ mcs' = Tail(mcs) /\ phase' = AfterRead(mcs[1])
    BY <1>2 DEF MapCompressed
  <2>2. PICK line : line = mcs[1]
    OBVIOUS
  <2>3. /\ Givens /\ LineOk(line) /\ DataOk(line, dump) /\ dump \in Seq(Unit)
        /\ ~Plain(line) /\ ReadsAll(line)
    BY <1>1, <1>2, <2>2, NextLine
  <2>4. phase' = "map"
    BY <2>1, <2>2, <2>3 DEF AfterRead, LineOk
  <2>5. Decompressed(ReadAt(line), line.size) = PagesOf(line)
    BY <2>3, ReadAtIs
  <2>6. PICK data : data = PagesOf(line)
    OBVIOUS
  <2>7. mem' = MapAt(mcs[1], data)
    BY <2>1, <2>2, <2>5, <2>6
  <2>8. \A i \in 1 .. mcs[1].size : data[i] = mcs[1].addr + i - 1
    BY <2>2, <2>3, <2>6, PagesOfLine
  <2> QED  BY <1>1, <2>1, <2>4, <2>7, <2>8, MapsLine
<1>3. CASE ~ReadsAll(mcs[1])
  <2>1. phase' = "failed" /\ mem' = mem
    BY <1>3 DEF MapCompressed
  <2> QED  BY <1>1, <2>1, StopsInv
<1> QED  BY <1>2, <1>3

LEMMA LoaderStutter == LInv /\ UNCHANGED loaderVars => LInv'
<1> SUFFICES ASSUME LInv, UNCHANGED loaderVars  PROVE LInv'
  OBVIOUS
<1>1. /\ UNCHANGED given /\ UNCHANGED files /\ UNCHANGED loading /\ UNCHANGED packing
      /\ phase' = phase /\ fault' = fault
  BY DEF loaderVars
<1>2. /\ image' = image /\ Unit' = Unit /\ cfg' = cfg /\ dump' = dump
      /\ mem' = mem /\ base' = base /\ mcs' = mcs
      /\ comp' = comp /\ uncomp' = uncomp /\ unpacked' = unpacked
  BY <1>1, SameGivens DEF files, loading, packing
<1>3. (Givens /\ Lines /\ Data /\ LinesApart /\ OffsetsGrow /\ Complete)'
  BY <1>1, SameFiles
<1>4. Shape'
  BY <1>1, <1>2 DEF LInv, Shape, LineSet, Nothing, Cl, Mc
<1>5. Packed => Packed'
  BY <1>1, <1>2, SamePacked
<1>6. \A p : /\ InChunks(comp, p)' <=> InChunks(comp, p)
             /\ InChunks(uncomp, p)' <=> InChunks(uncomp, p)
             /\ Described(p)' <=> Described(p)
  BY <1>2 DEF InChunks, Described, LinePages
<1>7. Packing'
  <2>1. Packing
    BY DEF LInv
  <2> QED  BY <1>1, <1>2, <1>5, <1>6, <2>1 DEF Packing
<1>8. Writing'
  <2>1. Writing
    BY DEF LInv
  <2> QED  BY <1>1, <1>2, <1>5, <1>6, <2>1 DEF Writing
<1>9. DumpWhole'
  BY <1>1, <1>2 DEF LInv, DumpWhole
<1>10. Mapping'
  BY <1>1, <1>2 DEF LInv, Mapping, ParseOk, Loaded, LinePages, LineSet
<1>11. Placed'
  <2>1. TotalPages' = TotalPages
    BY <1>2 DEF TotalPages
  <2> QED  BY <1>1, <1>2, <1>6, <2>1 DEF LInv, Placed, Cl, Mc
<1> QED  BY <1>3, <1>4, <1>7, <1>8, <1>9, <1>10, <1>11 DEF LInv

LEMMA LoaderNextInv == Limits /\ LInv /\ [LoaderNext]_loaderVars => LInv'
  BY DumpPagesInv, PackPageInv, OpenPackedInv, WriteChunkInv, WriteEntryInv,
     ClosePackedInv, KillPackerInv, ParseCfgsInv, MapLoaderInv, MapFileInv,
     MapCompressedInv, BeginExecutionInv, MmapFailsInv, LoaderStutter
     DEF LoaderNext, Compress, Load

LEMMA LoaderInvHolds == LInv => LoaderInv
<1> SUFFICES ASSUME LInv  PROVE LoaderInv
  OBVIOUS
<1>1. LoaderTypeOK
  <2>1. image \subseteq Pn /\ fault \in BOOLEAN
    BY DEF LInv, Givens, Shape
  <2>2. phase \in {"dump", "pack", "write", "close", "parse", "place", "map",
                   "running", "failed"}
    BY DEF LInv, Shape
  <2>3. \A p \in Pn : mem[p] \in Pn \cup {Nothing, Cl, Mc}
    BY DEF LInv, Shape
  <2>4. \A i, j \in 1 .. Len(cfg.lines) :
          i # j => \/ cfg.lines[i].addr + cfg.lines[i].size <= cfg.lines[j].addr
                   \/ cfg.lines[j].addr + cfg.lines[j].size <= cfg.lines[i].addr
    BY DEF LInv, LinesApart, Apart
  <2> QED  BY <2>1, <2>2, <2>3, <2>4 DEF LoaderTypeOK
<1>2. LoaderKeepsItself
  <2>1. CASE phase \in {"map", "running"}
    <3>1. /\ base \in Nat /\ ClBase <= base /\ base + TotalPages <= ClTop
          /\ \A p \in base .. base + TotalPages - 1 :
                mem[p] = IF p < base + ClPages THEN Cl ELSE Mc
      BY <2>1 DEF LInv, Placed
    <3>2. LoaderPages = base .. base + TotalPages - 1
      BY <2>1 DEF LoaderPages
    <3>3. TotalPages \in Nat /\ ClBase \in Nat /\ ClTop \in Nat
      BY TotalIs, LoaderAssumption DEF LInv, Shape
    <3>4. base .. base + TotalPages - 1 \subseteq ClBase .. ClTop - 1
      BY <3>1, <3>3
    <3> QED  BY <3>1, <3>2, <3>4 DEF LoaderKeepsItself
  <2>2. CASE phase \notin {"map", "running"}
    BY <2>2 DEF LoaderKeepsItself, LoaderPages
  <2> QED  BY <2>1, <2>2
<1>3. ChunkFitsBuffer
  BY DEF LInv, Shape, ChunkFitsBuffer
<1> QED  BY <1>1, <1>2, <1>3 DEF LoaderInv

LEMMA LoadedHolds == LInv => LoadedIsImage
<1> SUFFICES ASSUME LInv, phase = "running", NEW p \in image  PROVE mem[p] = p
  BY DEF LoadedIsImage
<1>1. ParseOk /\ \A j \in 1 .. Len(cfg.lines) : Loaded(cfg.lines[j])
  BY DEF LInv, Mapping
<1>2. Described(p)
  BY <1>1 DEF LInv, Complete
<1> QED  BY <1>1, <1>2 DEF Described, Loaded

(***************************************************************************)
(* The loader survives its own work (found_base in ckpt/main.c and         *)
(* map_pages in ckpt/cl.c), lines never describe a page twice, and no      *)
(* chunk of compress.py overruns the buffer, for every slice, address      *)
(* space and size, whatever is killed or refused on the way, as long as    *)
(* --max-ratio and --max-length fit CL_BUF_SIZE.                           *)
(***************************************************************************)
THEOREM LoaderSurvives == Limits => (LoaderSpec => []LoaderInv)
<1> SUFFICES ASSUME Limits  PROVE LoaderSpec => []LoaderInv
  OBVIOUS
<1>1. LoaderInit => LInv
  BY LoaderInitInv
<1>2. LInv /\ [LoaderNext]_loaderVars => LInv'
  BY LoaderNextInv
<1>3. LInv => LoaderInv
  BY LoaderInvHolds
<1> QED  BY <1>1, <1>2, <1>3, PTL DEF LoaderSpec

(***************************************************************************)
(* A program that is started finds each page of its slice where it was,    *)
(* with its own data, whether compress.py packed the dump or not, and also *)
(* when it was killed before its files were closed: a configuration that   *)
(* main accepts is complete, and a dump that is too short is noticed       *)
(* before the start (map_pages in ckpt/cl.c).                              *)
(***************************************************************************)
THEOREM SliceIsLoaded == Limits => (LoaderSpec => []LoadedIsImage)
<1> SUFFICES ASSUME Limits  PROVE LoaderSpec => []LoadedIsImage
  OBVIOUS
<1>1. LoaderInit => LInv
  BY LoaderInitInv
<1>2. LInv /\ [LoaderNext]_loaderVars => LInv'
  BY LoaderNextInv
<1>3. LInv => LoadedIsImage
  BY LoadedHolds
<1> QED  BY <1>1, <1>2, <1>3, PTL DEF LoaderSpec
=============================================================================
