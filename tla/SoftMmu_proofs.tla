--------------------------- MODULE SoftMmu_proofs ---------------------------
(***************************************************************************)
(* TLB and walk against the meaning of the page table, for any depth and   *)
(* fan of the tables, any TLB and any number of address spaces.            *)
(***************************************************************************)
EXTENDS SoftMmu, TLAPS, NaturalsInduction, WellFoundedInduction

(***************************************************************************)
(* Recursion over the naturals.                                            *)
(***************************************************************************)
(* A nonempty set of naturals has a least element. *)
LEMMA NatLeast ==
  ASSUME NEW T \in SUBSET Nat, T # {}
  PROVE  \E x \in T : \A y \in T : x <= y
<1>1. PICK x \in T : \A y \in T : ~ (<<y, x>> \in OpToRel(<, Nat))
  BY NatLessThanWellFounded, WFMin
<1>2. ASSUME NEW y \in T, y < x  PROVE FALSE
  <2>1. <<y, x>> \in OpToRel(<, Nat)
    BY <1>2 DEF OpToRel
  <2> QED  BY <1>1, <2>1
<1> QED  BY <1>2

(* Induction, of a set: the inductions below choose the set of the numbers  *)
(* for which their claim holds.                                             *)
LEMMA SetInduction ==
  ASSUME NEW T, 0 \in T, \A n \in Nat : n \in T => n + 1 \in T
  PROVE  Nat \subseteq T
<1>1. SUFFICES ASSUME Nat \ T # {}  PROVE FALSE
  OBVIOUS
<1>2. PICK x \in Nat \ T : \A y \in Nat \ T : x <= y
  BY <1>1, NatLeast
<1>3. x # 0 /\ x - 1 \in Nat
  BY <1>2
<1>4. x - 1 \in T
  BY <1>2, <1>3
<1>5. (x - 1) + 1 = x
  BY <1>2
<1> QED  BY <1>2, <1>3, <1>4, <1>5

\* f begins with base and goes on as the step function G says.
Follows(f, base, G) == f[0] = base /\ \A n \in Nat : f[n + 1] = G[n][f[n]]

(* A step function G defines a sequence of values from its first one on. *)
LEMMA Recursion ==
  ASSUME NEW V, NEW base \in V, NEW G \in [Nat -> [V -> V]]
  PROVE  \E f \in [Nat -> V] : Follows(f, base, G)
<1> DEFINE Meets(h, n) == h[0] = base /\ \A k \in 0 .. n - 1 :
                             h[k + 1] = G[k][h[k]]
           Begun == {n \in Nat : \E h \in [0 .. n -> V] : Meets(h, n)}
<1>1. 0 \in Begun
  <2>1. [k \in 0 .. 0 |-> base] \in [0 .. 0 -> V]
    OBVIOUS
  <2>2. Meets([k \in 0 .. 0 |-> base], 0)
    OBVIOUS
  <2> QED  BY <2>1, <2>2
<1>2. ASSUME NEW n \in Nat, n \in Begun  PROVE n + 1 \in Begun
  <2>1. PICK h \in [0 .. n -> V] : Meets(h, n)
    BY <1>2
  <2> DEFINE g == [k \in 0 .. n + 1 |-> IF k <= n THEN h[k] ELSE G[n][h[n]]]
  <2>2. h[n] \in V
    OBVIOUS
  <2>3. G[n][h[n]] \in V
    BY <2>2
  <2>4. g \in [0 .. n + 1 -> V]
    BY <2>3
  <2>5. g[0] = base
    BY <2>1
  <2>6. ASSUME NEW k \in 0 .. (n + 1) - 1  PROVE g[k + 1] = G[k][g[k]]
    <3>1. CASE k = n
      <4>1. g[k + 1] = G[n][h[n]] /\ g[k] = h[n]
        BY <3>1
      <4> QED  BY <3>1, <4>1
    <3>2. CASE k # n
      <4>1. k \in 0 .. n - 1 /\ k + 1 <= n
        BY <3>2
      <4>2. h[k + 1] = G[k][h[k]]
        BY <2>1, <4>1
      <4>3. g[k + 1] = h[k + 1] /\ g[k] = h[k]
        BY <4>1
      <4> QED  BY <4>2, <4>3
    <3> QED  BY <3>1, <3>2
  <2>7. Meets(g, n + 1)
    BY <2>5, <2>6
  <2> HIDE DEF Meets, g
  <2> QED  BY <2>4, <2>7
<1>3. Nat \subseteq Begun
  <2> HIDE DEF Begun
  <2> QED  BY <1>1, <1>2, SetInduction
<1>4. ASSUME NEW n \in Nat, NEW h \in [0 .. n -> V], Meets(h, n),
             NEW m \in Nat, NEW g \in [0 .. m -> V], Meets(g, m), n <= m
      PROVE  h[n] = g[n]
  <2> DEFINE Same == {k \in Nat : k <= n => h[k] = g[k]}
  <2>1. 0 \in Same
    BY <1>4
  <2>2. ASSUME NEW k \in Nat, k \in Same  PROVE k + 1 \in Same
    <3>1. CASE k + 1 <= n
      <4>1. k \in 0 .. n - 1 /\ k \in 0 .. m - 1 /\ h[k] = g[k]
        BY <1>4, <2>2, <3>1
      <4>2. h[k + 1] = G[k][h[k]] /\ g[k + 1] = G[k][g[k]]
        BY <1>4, <4>1
      <4> QED  BY <4>1, <4>2
    <3> QED  BY <3>1
  <2>3. Nat \subseteq Same
    <3> HIDE DEF Same
    <3> QED  BY <2>1, <2>2, SetInduction
  <2>4. n \in Same
    BY <2>3
  <2> QED  BY <2>4
<1> DEFINE H(n) == CHOOSE h \in [0 .. n -> V] : Meets(h, n)
           f == [n \in Nat |-> H(n)[n]]
<1>5. ASSUME NEW n \in Nat  PROVE H(n) \in [0 .. n -> V] /\ Meets(H(n), n)
  <2>1. \E h \in [0 .. n -> V] : Meets(h, n)
    BY <1>3
  <2> HIDE DEF Meets
  <2> QED  BY <2>1
<1>6. f \in [Nat -> V]
  <2>1. ASSUME NEW n \in Nat  PROVE H(n)[n] \in V
    <3> HIDE DEF H, Meets
    <3> QED  BY <1>5
  <2> HIDE DEF H
  <2> QED  BY <2>1
<1>7. f[0] = base
  <2>1. Meets(H(0), 0)
    <3> HIDE DEF H, Meets
    <3> QED  BY <1>5
  <2> HIDE DEF H
  <2> QED  BY <2>1
<1>8. ASSUME NEW n \in Nat  PROVE f[n + 1] = G[n][f[n]]
  <2>1. H(n + 1) \in [0 .. n + 1 -> V] /\ Meets(H(n + 1), n + 1)
    <3> HIDE DEF H, Meets
    <3> QED  BY <1>5
  <2>2. H(n + 1)[n + 1] = G[n][H(n + 1)[n]]
    <3> HIDE DEF H
    <3> QED  BY <2>1
  <2>3. H(n)[n] = H(n + 1)[n]
    <3> HIDE DEF H, Meets
    <3>1. n + 1 \in Nat /\ n <= n + 1
      OBVIOUS
    <3>2. H(n) \in [0 .. n -> V] /\ Meets(H(n), n)
      BY <1>5
    <3> QED  BY <1>4, <2>1, <3>1, <3>2
  <2> HIDE DEF H
  <2> QED  BY <2>2, <2>3
<1> HIDE DEF f
<1> QED  BY <1>6, <1>7, <1>8 DEF Follows

(* Span is what its equation says, and positive. *)
LEMMA SpanIs ==
  /\ Span[0] = 1
  /\ \A l \in Nat : Span[l + 1] = Fan * Span[l]
  /\ \A l \in Nat : Span[l] \in Nat \ {0}
<1> USE SoftMmuAssumption
<1> DEFINE G == [n \in Nat |-> [x \in Nat |-> Fan * x]]
           Body(g) == [l \in Nat |-> IF l = 0 THEN 1 ELSE Fan * g[l - 1]]
<1>1. G \in [Nat -> [Nat -> Nat]]
  OBVIOUS
<1>2. PICK f \in [Nat -> Nat] : Follows(f, 1, G)
  <2>1. 1 \in Nat
    OBVIOUS
  <2> HIDE DEF G
  <2> QED  BY <1>1, <2>1, Recursion
<1>3. f[0] = 1 /\ \A n \in Nat : f[n + 1] = Fan * f[n]
  BY <1>2 DEF Follows
<1>4. f = Body(f)
  <2>1. ASSUME NEW l \in Nat  PROVE f[l] = Body(f)[l]
    <3>1. CASE l = 0
      BY <1>3, <3>1
    <3>2. CASE l # 0
      <4>1. l - 1 \in Nat /\ (l - 1) + 1 = l
        BY <3>2
      <4>2. f[l] = Fan * f[l - 1]
        BY <1>3, <4>1
      <4> QED  BY <3>2, <4>2
    <3> QED  BY <3>1, <3>2
  <2>2. f = [l \in Nat |-> f[l]]
    OBVIOUS
  <2> QED  BY <2>1, <2>2
<1>5. Span = CHOOSE g : g = Body(g)
  BY DEF Span
<1>6. Span = Body(Span)
  <2> HIDE DEF Body
  <2> QED  BY <1>4, <1>5
<1>7. Span[0] = 1
  BY <1>6
<1>8. ASSUME NEW l \in Nat  PROVE Span[l + 1] = Fan * Span[l]
  <2>1. l + 1 \in Nat /\ l + 1 # 0 /\ (l + 1) - 1 = l
    OBVIOUS
  <2> QED  BY <1>6, <2>1
<1> DEFINE Good == {l \in Nat : Span[l] \in Nat \ {0}}
<1>9. Nat \subseteq Good
  <2>1. 0 \in Good
    BY <1>7
  <2>2. ASSUME NEW l \in Nat, l \in Good  PROVE l + 1 \in Good
    <3>1. Fan * Span[l] \in Nat \ {0}
      BY <2>2
    <3> QED  BY <1>8, <3>1
  <2> HIDE DEF Good
  <2> QED  BY <2>1, <2>2, SetInduction
<1> QED  BY <1>7, <1>8, <1>9

(***************************************************************************)
(* The meaning of a page table.                                            *)
(***************************************************************************)
Perms == SUBSET {"R", "W", "X", "U"}

Memories == [Ram -> [0 .. Fan - 1 -> PteSet]]

\* What a page can be mapped to: nothing has W without R.
Leaves == {x \in [frame : Int, perm : Perms, ad : SUBSET {"A", "D"}] :
              "W" \in x.perm => "R" \in x.perm}

\* One level of LeafFrom, over the one below.
LevelOf(m, vpn, l, below) ==
    [f \in Frames |->
        IF f \notin Ram THEN Unmapped
        ELSE LET pte == m[f][Index(vpn, l)] IN
             IF Pointer(pte)
             THEN IF pte.v /\ l > 0 THEN below[pte.ppn] ELSE Unmapped
             ELSE IF LeafOk(pte, l)
                  THEN [frame |-> pte.ppn + (vpn % Span[l]),
                        perm |-> pte.perm, ad |-> pte.ad]
                  ELSE Unmapped]

(* The index of a PTE is one of its table. *)
LEMMA IndexIn ==
  ASSUME NEW vpn \in Vpns, NEW l \in Nat
  PROVE  Index(vpn, l) \in 0 .. Fan - 1 /\ vpn \in Nat /\ vpn % Span[l] \in Nat
<1>1. Span[l] \in Nat \ {0} /\ Fan \in Nat \ {0}
  BY SpanIs, SoftMmuAssumption
<1>2. vpn \in Nat
  <2>1. Levels \in Nat /\ Span[Levels] \in Nat
    BY SpanIs, SoftMmuAssumption
  <2> QED  BY <2>1 DEF Vpns
<1>3. vpn \div Span[l] \in Int /\ vpn % Span[l] \in Nat
  BY <1>1, <1>2
<1> QED  BY <1>1, <1>2, <1>3 DEF Index

(* A level maps every page to something that can be mapped. *)
LEMMA LevelType ==
  ASSUME NEW m \in Memories, NEW vpn \in Vpns, NEW l \in Nat, NEW below,
         l > 0 => below \in [Frames -> Leaves]
  PROVE  LevelOf(m, vpn, l, below) \in [Frames -> Leaves]
<1>1. Unmapped \in Leaves
  BY DEF Unmapped, Leaves, Perms
<1>2. ASSUME NEW f \in Frames  PROVE LevelOf(m, vpn, l, below)[f] \in Leaves
  <2>1. CASE f \notin Ram
    BY <1>1, <2>1 DEF LevelOf
  <2>2. CASE f \in Ram
    <3> DEFINE pte == m[f][Index(vpn, l)]
    <3>1. pte \in PteSet
      BY <2>2, IndexIn DEF Memories
    <3>2. /\ pte.v \in BOOLEAN /\ pte.perm \in Perms
          /\ pte.ad \in SUBSET {"A", "D"} /\ pte.ppn \in Frames
      <4> HIDE DEF pte
      <4> QED  BY <3>1 DEF PteSet, Perms
    <3>3. LevelOf(m, vpn, l, below)[f] =
            IF Pointer(pte)
            THEN IF pte.v /\ l > 0 THEN below[pte.ppn] ELSE Unmapped
            ELSE IF LeafOk(pte, l)
                 THEN [frame |-> pte.ppn + (vpn % Span[l]),
                       perm |-> pte.perm, ad |-> pte.ad]
                 ELSE Unmapped
      BY <2>2 DEF LevelOf
    <3> HIDE DEF pte
    <3>4. CASE Pointer(pte)
      BY <1>1, <3>2, <3>3, <3>4
    <3>5. CASE ~Pointer(pte) /\ LeafOk(pte, l)
      <4>1. pte.ppn + (vpn % Span[l]) \in Int
        <5>1. pte.ppn \in Int
          BY <3>2, SoftMmuAssumption DEF Frames
        <5>2. vpn % Span[l] \in Int
          BY IndexIn
        <5> QED  BY <5>1, <5>2
      <4>2. "W" \in pte.perm => "R" \in pte.perm
        BY <3>5 DEF LeafOk
      <4> QED  BY <3>2, <3>3, <3>5, <4>1, <4>2 DEF Leaves
    <3>6. CASE ~Pointer(pte) /\ ~LeafOk(pte, l)
      BY <1>1, <3>3, <3>6
    <3> QED  BY <3>4, <3>5, <3>6
  <2> QED  BY <2>1, <2>2
<1>3. LevelOf(m, vpn, l, below)
        = [f \in Frames |-> LevelOf(m, vpn, l, below)[f]]
  BY DEF LevelOf
<1> QED  BY <1>2, <1>3

(* LeafFrom meets its equation, level by level. *)
LEMMA LeafFromIs ==
  ASSUME NEW m \in Memories, NEW vpn \in Vpns, NEW l \in Nat
  PROVE  /\ LeafFrom(m, vpn)[l]
              = LevelOf(m, vpn, l, LeafFrom(m, vpn)[l - 1])
         /\ LeafFrom(m, vpn)[l] \in [Frames -> Leaves]
<1> DEFINE V == [Frames -> Leaves]
           Body(g) == [k \in Nat |-> LevelOf(m, vpn, k, g[k - 1])]
           lowest == LevelOf(m, vpn, 0, 0)
           G == [n \in Nat |-> [g \in V |-> LevelOf(m, vpn, n + 1, g)]]
<1>1. lowest \in V
  BY LevelType
<1>2. G \in [Nat -> [V -> V]]
  <2>1. ASSUME NEW n \in Nat, NEW g \in V
        PROVE  LevelOf(m, vpn, n + 1, g) \in V
    <3>1. n + 1 \in Nat
      OBVIOUS
    <3> QED  BY <3>1, LevelType
  <2> HIDE DEF V
  <2> QED  BY <2>1
<1>3. PICK f \in [Nat -> V] : Follows(f, lowest, G)
  <2> HIDE DEF V, lowest, G
  <2> QED  BY <1>1, <1>2, Recursion
<1>4. LevelOf(m, vpn, 0, f[0 - 1]) = lowest
  BY DEF LevelOf
<1>5. ASSUME NEW n \in Nat
      PROVE  f[n + 1] = LevelOf(m, vpn, n + 1, f[n])
  <2>1. f[n] \in V /\ f[n + 1] = G[n][f[n]]
    <3> HIDE DEF V, lowest, G
    <3> QED  BY <1>3 DEF Follows
  <2> HIDE DEF V
  <2> QED  BY <2>1
<1>6. f = Body(f)
  <2>1. ASSUME NEW k \in Nat  PROVE f[k] = LevelOf(m, vpn, k, f[k - 1])
    <3>1. CASE k = 0
      <4> HIDE DEF lowest
      <4> QED  BY <1>3, <1>4, <3>1 DEF Follows
    <3>2. CASE k # 0
      <4>1. k - 1 \in Nat /\ (k - 1) + 1 = k
        BY <3>2
      <4> QED  BY <1>5, <4>1
    <3> QED  BY <3>1, <3>2
  <2>2. f = [k \in Nat |-> f[k]]
    <3> HIDE DEF V
    <3> QED  OBVIOUS
  <2> HIDE DEF V
  <2> QED  BY <2>1, <2>2
<1>7. LeafFrom(m, vpn) = CHOOSE g : g = Body(g)
  BY DEF LeafFrom, LevelOf
<1>8. LeafFrom(m, vpn) = Body(LeafFrom(m, vpn))
  <2> HIDE DEF Body
  <2> QED  BY <1>6, <1>7
<1> DEFINE F == LeafFrom(m, vpn)
           Good == {k \in Nat : F[k] \in V}
<1>9. ASSUME NEW k \in Nat  PROVE F[k] = LevelOf(m, vpn, k, F[k - 1])
  BY <1>8
<1>10. Nat \subseteq Good
  <2>1. 0 \in Good
    <3>1. F[0] = LevelOf(m, vpn, 0, F[0 - 1])
      BY <1>9
    <3> HIDE DEF F
    <3> QED  BY <3>1, LevelType
  <2>2. ASSUME NEW k \in Nat, k \in Good  PROVE k + 1 \in Good
    <3>1. F[k + 1] = LevelOf(m, vpn, k + 1, F[(k + 1) - 1])
      <4> HIDE DEF F
      <4> QED  BY <1>9
    <3>2. F[(k + 1) - 1] = F[k] /\ F[k] \in V /\ k + 1 \in Nat
      <4>1. (k + 1) - 1 = k
        OBVIOUS
      <4> HIDE DEF F
      <4> QED  BY <2>2, <4>1
    <3> HIDE DEF F
    <3>3. LevelOf(m, vpn, k + 1, F[(k + 1) - 1]) \in V
      BY <3>2, LevelType
    <3> QED  BY <3>1, <3>2, <3>3
  <2> HIDE DEF Good
  <2> QED  BY <2>1, <2>2, SetInduction
<1> HIDE DEF F
<1>11. F[l] = LevelOf(m, vpn, l, F[l - 1]) /\ F[l] \in V
  BY <1>9, <1>10
<1> QED  BY <1>11 DEF F

(* What a table means, where it is not for another table to say. *)
LEMMA LeafCases ==
  ASSUME NEW m \in Memories, NEW vpn \in Vpns, NEW l \in Nat,
         NEW f \in Frames, NEW pte, pte = m[f][Index(vpn, l)]
  PROVE  /\ LeafFrom(m, vpn)[l][f] \in Leaves
         /\ f \notin Ram => LeafFrom(m, vpn)[l][f] = Unmapped
         /\ f \in Ram /\ Pointer(pte) /\ ~(pte.v /\ l > 0) =>
               LeafFrom(m, vpn)[l][f] = Unmapped
         /\ f \in Ram /\ ~Pointer(pte) /\ LeafOk(pte, l) =>
               LeafFrom(m, vpn)[l][f] =
                  [frame |-> pte.ppn + (vpn % Span[l]),
                   perm |-> pte.perm, ad |-> pte.ad]
         /\ f \in Ram /\ ~Pointer(pte) /\ ~LeafOk(pte, l) =>
               LeafFrom(m, vpn)[l][f] = Unmapped
<1> DEFINE F == LeafFrom(m, vpn)
<1>1. F[l] = LevelOf(m, vpn, l, F[l - 1]) /\ F[l] \in [Frames -> Leaves]
  BY LeafFromIs
<1>2. LevelOf(m, vpn, l, F[l - 1])[f] =
        IF f \notin Ram THEN Unmapped
        ELSE IF Pointer(pte)
        THEN IF pte.v /\ l > 0 THEN F[l - 1][pte.ppn] ELSE Unmapped
        ELSE IF LeafOk(pte, l)
             THEN [frame |-> pte.ppn + (vpn % Span[l]),
                   perm |-> pte.perm, ad |-> pte.ad]
             ELSE Unmapped
  <2> HIDE DEF F
  <2> QED  BY DEF LevelOf
<1>3. F[l][f] \in Leaves
  BY <1>1
<1> HIDE DEF F
<1>4. /\ F[l][f] \in Leaves
      /\ f \notin Ram => F[l][f] = Unmapped
      /\ f \in Ram /\ Pointer(pte) /\ ~(pte.v /\ l > 0) => F[l][f] = Unmapped
      /\ f \in Ram /\ ~Pointer(pte) /\ LeafOk(pte, l) =>
            F[l][f] = [frame |-> pte.ppn + (vpn % Span[l]),
                       perm |-> pte.perm, ad |-> pte.ad]
      /\ f \in Ram /\ ~Pointer(pte) /\ ~LeafOk(pte, l) => F[l][f] = Unmapped
  BY <1>1, <1>2, <1>3
<1> QED  BY <1>4 DEF F

(* A valid pointer means what the table it points to means one level below. *)
LEMMA LeafBehind ==
  ASSUME NEW m \in Memories, NEW vpn \in Vpns, NEW l \in Nat, l > 0,
         NEW f \in Ram, NEW pte, pte = m[f][Index(vpn, l)],
         Pointer(pte), pte.v
  PROVE  LeafFrom(m, vpn)[l][f] = LeafFrom(m, vpn)[l - 1][pte.ppn]
<1>1. f \in Frames
  BY SoftMmuAssumption
<1> DEFINE F == LeafFrom(m, vpn)
<1>2. F[l] = LevelOf(m, vpn, l, F[l - 1])
  BY LeafFromIs
<1> HIDE DEF F
<1>3. LevelOf(m, vpn, l, F[l - 1])[f] = F[l - 1][pte.ppn]
  BY <1>1 DEF LevelOf
<1>4. F[l][f] = F[l - 1][pte.ppn]
  BY <1>2, <1>3
<1> QED  BY <1>4 DEF F

(* Without memory, or where a PTE is zero, nothing is mapped. *)
LEMMA LeafNone ==
  ASSUME NEW m \in Memories, NEW vpn \in Vpns, NEW l \in Nat,
         NEW f \in Frames,
         f \in Ram => /\ Pointer(m[f][Index(vpn, l)])
                      /\ ~m[f][Index(vpn, l)].v
  PROVE  LeafFrom(m, vpn)[l][f] = Unmapped
<1> DEFINE pte == m[f][Index(vpn, l)]
<1>1. pte = m[f][Index(vpn, l)]
  OBVIOUS
<1>2. f \in Ram => Pointer(pte) /\ ~pte.v
  OBVIOUS
<1> HIDE DEF pte
<1> QED  BY <1>1, <1>2, LeafCases

\* Two memories with the same tables, but for the flags A and D.
SameTables(m, n) ==
    \A f \in Ram, i \in 0 .. Fan - 1 :
        /\ m[f][i].v = n[f][i].v /\ m[f][i].perm = n[f][i].perm
        /\ m[f][i].ppn = n[f][i].ppn

(* Flags change nothing of where and how a page is mapped. *)
LEMMA SameLeaf ==
  ASSUME NEW m \in Memories, NEW n \in Memories, SameTables(m, n),
         NEW vpn \in Vpns, NEW l \in Nat, NEW f \in Frames
  PROVE  /\ LeafFrom(m, vpn)[l][f].frame = LeafFrom(n, vpn)[l][f].frame
         /\ LeafFrom(m, vpn)[l][f].perm = LeafFrom(n, vpn)[l][f].perm
<1> DEFINE A == LeafFrom(m, vpn)
           B == LeafFrom(n, vpn)
           Same == {k \in Nat : \A g \in Frames : /\ A[k][g].frame = B[k][g].frame
                                                  /\ A[k][g].perm = B[k][g].perm}
<1>1. ASSUME NEW k \in Nat, k > 0 => k - 1 \in Same  PROVE k \in Same
  <2>1. ASSUME NEW g \in Frames
        PROVE  A[k][g].frame = B[k][g].frame /\ A[k][g].perm = B[k][g].perm
    <3> DEFINE p == m[g][Index(vpn, k)]
               q == n[g][Index(vpn, k)]
    <3>1. CASE g \notin Ram
      <4>1. A[k][g] = Unmapped /\ B[k][g] = Unmapped
        BY <3>1, LeafCases
      <4> QED  BY <4>1
    <3>2. CASE g \in Ram
      <4>1. p \in PteSet /\ p.v = q.v /\ p.perm = q.perm /\ p.ppn = q.ppn
        BY <3>2, IndexIn DEF Memories, SameTables
      <4>2. /\ Pointer(p) <=> Pointer(q)
            /\ LeafOk(p, k) <=> LeafOk(q, k)
            /\ p.ppn \in Frames
        <5> HIDE DEF p, q
        <5> QED  BY <4>1 DEF Pointer, LeafOk, PteSet
      <4>3. CASE Pointer(p) /\ p.v /\ k > 0
        <5>1. /\ A[k][g] = A[k - 1][p.ppn] /\ B[k][g] = B[k - 1][q.ppn]
          <6>1. p = m[g][Index(vpn, k)] /\ q = n[g][Index(vpn, k)]
            OBVIOUS
          <6>2. g \in Frames /\ g \in Ram
            BY <3>2
          <6> HIDE DEF p, q
          <6>3. Pointer(q) /\ q.v
            BY <4>1, <4>2, <4>3
          <6>4. A[k][g] = A[k - 1][p.ppn]
            BY <4>3, <6>1, <6>2, LeafBehind
          <6>5. B[k][g] = B[k - 1][q.ppn]
            BY <4>3, <6>1, <6>2, <6>3, LeafBehind
          <6> QED  BY <6>4, <6>5
        <5>2. k - 1 \in Same
          BY <1>1, <4>3
        <5> HIDE DEF A, B, p, q
        <5> QED  BY <4>1, <4>2, <5>1, <5>2
      <4>4. CASE Pointer(p) /\ ~(p.v /\ k > 0)
        <5>1. A[k][g] = Unmapped
          BY <3>2, <4>4, LeafCases
        <5>2. Pointer(q) /\ ~(q.v /\ k > 0)
          <6> HIDE DEF p, q
          <6> QED  BY <4>1, <4>2, <4>4
        <5>3. B[k][g] = Unmapped
          BY <3>2, <5>2, LeafCases
        <5> QED  BY <5>1, <5>3
      <4>5. CASE ~Pointer(p) /\ LeafOk(p, k)
        <5>1. A[k][g] = [frame |-> p.ppn + (vpn % Span[k]),
                         perm |-> p.perm, ad |-> p.ad]
          BY <3>2, <4>5, LeafCases
        <5>2. B[k][g] = [frame |-> q.ppn + (vpn % Span[k]),
                         perm |-> q.perm, ad |-> q.ad]
          BY <3>2, <4>2, <4>5, LeafCases
        <5> HIDE DEF A, B, p, q
        <5> QED  BY <4>1, <5>1, <5>2
      <4>6. CASE ~Pointer(p) /\ ~LeafOk(p, k)
        <5>1. A[k][g] = Unmapped
          BY <3>2, <4>6, LeafCases
        <5>2. B[k][g] = Unmapped
          BY <3>2, <4>2, <4>6, LeafCases
        <5> QED  BY <5>1, <5>2
      <4> HIDE DEF A, B, p, q
      <4> QED  BY <4>3, <4>4, <4>5, <4>6
    <3> QED  BY <3>1, <3>2
  <2> HIDE DEF A, B
  <2> QED  BY <2>1
<1>2. Nat \subseteq Same
  <2>1. 0 \in Same
    <3> HIDE DEF Same
    <3> QED  BY <1>1
  <2>2. ASSUME NEW k \in Nat, k \in Same  PROVE k + 1 \in Same
    <3>1. (k + 1) - 1 = k /\ k + 1 \in Nat
      OBVIOUS
    <3> HIDE DEF Same
    <3> QED  BY <1>1, <2>2, <3>1
  <2> HIDE DEF Same
  <2> QED  BY <2>1, <2>2, SetInduction
<1>3. l \in Same
  <2> HIDE DEF Same
  <2> QED  BY <1>2
<1> HIDE DEF A, B
<1>4. A[l][f].frame = B[l][f].frame /\ A[l][f].perm = B[l][f].perm
  BY <1>3
<1> QED  BY <1>4 DEF A, B

Mappings == {x \in [frame : Int, perm : Perms] :
                "W" \in x.perm => "R" \in x.perm}

(* The constants that occur everywhere. *)
LEMMA Basics ==
  /\ Levels \in Nat /\ Levels - 1 \in Nat /\ Levels - 1 > 0
  /\ \A a \in Asids : Root(a) \in Frames
  /\ {0, 1, 2, 4, 5, 6} \subseteq Frames /\ Frames \subseteq Nat
  /\ 0 \notin Ram /\ Ram \subseteq Frames
  /\ -1 \notin Ram
  /\ {0, 1} \subseteq 0 .. Fan - 1
BY SoftMmuAssumption DEF Root, Frames

(* Every page has a mapping, and flags do not change it. *)
LEMMA MappingIs ==
  ASSUME NEW m \in Memories, NEW a \in Asids, NEW vpn \in Vpns
  PROVE  /\ Mapping(m, a, vpn) \in Mappings
         /\ \A n \in Memories :
               SameTables(m, n) => Mapping(m, a, vpn) = Mapping(n, a, vpn)
<1>1. Levels - 1 \in Nat /\ Root(a) \in Frames
  BY Basics
<1>2. Meaning(m, Root(a), vpn) \in Leaves
  BY <1>1, LeafCases DEF Meaning
<1>3. Mapping(m, a, vpn) = [frame |-> Meaning(m, Root(a), vpn).frame,
                            perm |-> Meaning(m, Root(a), vpn).perm]
  BY DEF Mapping
<1>4. Mapping(m, a, vpn) \in Mappings
  BY <1>2, <1>3 DEF Leaves, Mappings
<1>5. ASSUME NEW n \in Memories, SameTables(m, n)
      PROVE  Mapping(m, a, vpn) = Mapping(n, a, vpn)
  <2>1. /\ Meaning(m, Root(a), vpn).frame = Meaning(n, Root(a), vpn).frame
        /\ Meaning(m, Root(a), vpn).perm = Meaning(n, Root(a), vpn).perm
    BY <1>1, <1>5, SameLeaf DEF Meaning
  <2> QED  BY <2>1 DEF Mapping
<1> QED  BY <1>4, <1>5

(***************************************************************************)
(* The invariant.                                                          *)
(***************************************************************************)
\* Guests whose tables the walk reads as the architecture does: no invalid
\* PTE that points somewhere, no pointer in the last level.
TablesTidy == Guests \subseteq SUBSET (Doings \ {"invalid", "loop"})

\* Guests that need no rights but those of their mode, and no two pages at once.
AccessesTidy ==
    Guests \subseteq SUBSET (Doings \ {"invalid", "loop", "mprv", "cross"})

Entries == [pdid : {0}, asid : 0 .. AsidLimit, vpn : Vpns,
            ptel : 0 .. Levels - 1, perm : Perms, ad : SUBSET {"A", "D"},
            ppn : Frames]

Accs == [at : {"translate", "walk"}, op : Accesses, vpn : Vpns,
         atZero : BOOLEAN, crosses : BOOLEAN,
         level : Below \cup 0 .. Levels - 1, table : Frames]

Results == [how : {"ok", "fault", "silent"}, op : Accesses, vpn : Vpns,
            frame : Int, crosses : BOOLEAN, paged : BOOLEAN]

Types ==
    /\ guest \in Guests
    /\ mem \in Memories
    /\ sptbr \in [asid : Asids, root : Frames]
    /\ status \in Statuses
    /\ tlb \in [{"i", "d"} -> [0 .. TlbSize - 1 -> Entries]]
    /\ acc = Idle \/ acc \in Accs
    /\ res = NoResult \/ res \in Results
    /\ past \in [Asids \X Vpns -> SUBSET Mappings]
    /\ writes \in 0 .. MaxWrites

\* The processor uses the table of its address space.
RootOfSpace == sptbr.root = Root(sptbr.asid)

\* Pages that cross are fetched by guests that have such instructions.
CrossesKnown ==
    /\ acc \in Accs /\ acc.crosses => "cross" \in guest
    /\ res \in Results /\ res.crosses => "cross" \in guest

\* The only pointers are those from the root to the second table; all other
\* PTEs without rights are zero.
Tree ==
    \A f \in Ram, i \in 0 .. Fan - 1 :
        Pointer(mem[f][i]) =>
            \/ ~mem[f][i].v /\ mem[f][i].ppn = 0
            \/ f = 1 /\ mem[f][i].v /\ mem[f][i].ppn = 2

\* What a page is mapped to is recorded.
PastNow == \A a \in Asids, v \in Vpns : Mapping(mem, a, v) \in past[<<a, v>>]

\* A used entry is of a page that is marked accessed.
EntriesAccessed ==
    \A w \in {"i", "d"}, i \in 0 .. TlbSize - 1 :
        tlb[w][i] # EmptyEntry => "A" \in tlb[w][i].ad

\* The page means what the rest of the table, from where the walk is, says it
\* means, whatever flags are set; or the walk has left the table by a zero PTE.
OnPath ==
    acc \in Accs /\ acc.at = "walk" =>
        \/ /\ acc.level \in Below /\ acc.table = 0
           /\ Meaning(mem, sptbr.root, acc.vpn) = Unmapped
        \/ /\ acc.level \in 0 .. Levels - 1
           /\ acc.table = 1 => acc.level > 0
           /\ \A m \in Memories : SameTables(m, mem) =>
                 Meaning(m, sptbr.root, acc.vpn)
                     = LeafFrom(m, acc.vpn)[acc.level][acc.table]

Inv ==
    /\ Types /\ RootOfSpace /\ CrossesKnown /\ Tree /\ PastNow
    /\ EntriesWereMapped /\ EntriesAccessed /\ OnPath /\ AccessedTracked

(* The PTEs and the tables the guest writes. *)
LEMMA GuestWrites ==
  ASSUME TablesTidy, guest \in Guests
  PROVE  /\ BootTable \in Memories
         /\ \A f \in Ram, i \in 0 .. Fan - 1 :
               Pointer(BootTable[f][i]) =>
                  \/ ~BootTable[f][i].v /\ BootTable[f][i].ppn = 0
                  \/ f = 1 /\ BootTable[f][i].v /\ BootTable[f][i].ppn = 2
         /\ GuestPtes \subseteq PteSet
         /\ \A p \in GuestPtes : Pointer(p) => ~p.v /\ p.ppn = 0
<1>1. "invalid" \notin guest /\ "loop" \notin guest
  BY DEF TablesTidy
<1>2. ASSUME NEW v \in BOOLEAN, NEW perm \in Perms, NEW ppn \in Frames
      PROVE  Pte(v, perm, ppn) \in PteSet
  BY DEF Pte, PteSet, Perms
<1>3. {0, 2, 4, 5, 6} \subseteq Frames
  BY Basics
<1>4. GuestPtes \subseteq PteSet
  <2>1. /\ Pte(TRUE, {"R", "W", "X", "U"}, 5) \in PteSet
        /\ Pte(TRUE, {"R", "U"}, 4) \in PteSet
        /\ Pte(TRUE, {"X"}, 4) \in PteSet
        /\ Pte(TRUE, {"W"}, 4) \in PteSet
        /\ Pte(TRUE, {"R", "W"}, 4) \in PteSet
        /\ Pte(TRUE, {"R", "W", "X", "U"}, 6) \in PteSet
        /\ Pte(TRUE, {"R", "W", "U"}, 0) \in PteSet
    BY <1>2, <1>3 DEF Perms
  <2>2. Zero \in PteSet
    BY <1>2, <1>3 DEF Zero, Perms
  <2> QED  BY <1>1, <2>1, <2>2 DEF GuestPtes
<1>5. ASSUME NEW p \in GuestPtes, Pointer(p)  PROVE ~p.v /\ p.ppn = 0
  BY <1>1, <1>5 DEF GuestPtes, Pte, Zero, Pointer
<1>6. ASSUME NEW f \in Ram, NEW i \in 0 .. Fan - 1
      PROVE  /\ BootTable[f][i] \in PteSet
             /\ Pointer(BootTable[f][i]) =>
                  \/ ~BootTable[f][i].v /\ BootTable[f][i].ppn = 0
                  \/ f = 1 /\ BootTable[f][i].v /\ BootTable[f][i].ppn = 2
  <2>1. \/ f = 1 /\ BootTable[f][i] = Pte(TRUE, {}, 2)
        \/ BootTable[f][i] = Pte(TRUE, {"R", "W", "X", "U"}, 4)
        \/ BootTable[f][i] = Zero
    <3> DEFINE full == Pte(TRUE, {"R", "W", "X", "U"}, 4)
    <3>1. BootTable[f][i] = CASE f = 1 /\ i = 0 -> Pte(TRUE, {}, 2)
                              [] f = 1 /\ i = 1 /\ "super" \in guest -> full
                              [] f = 2 /\ i = 1 -> full
                              [] OTHER -> Zero
      BY DEF BootTable
    <3> HIDE DEF full
    <3>2. \/ f = 1 /\ BootTable[f][i] = Pte(TRUE, {}, 2)
          \/ BootTable[f][i] = full
          \/ BootTable[f][i] = Zero
      <4>1. CASE f = 1 /\ i = 0
        BY <3>1, <4>1
      <4>2. CASE f = 1 /\ i = 1 /\ "super" \in guest
        BY <3>1, <4>2
      <4>3. CASE f = 2 /\ i = 1
        BY <3>1, <4>3
      <4>4. CASE /\ ~(f = 1 /\ i = 0) /\ ~(f = 1 /\ i = 1 /\ "super" \in guest)
                 /\ ~(f = 2 /\ i = 1)
        BY <3>1, <4>4
      <4> QED  BY <4>1, <4>2, <4>3, <4>4
    <3> QED  BY <3>2 DEF full
  <2>2. /\ Pte(TRUE, {}, 2) \in PteSet
        /\ Pte(TRUE, {"R", "W", "X", "U"}, 4) \in PteSet
    BY <1>2, <1>3 DEF Perms
  <2>3. Zero \in PteSet
    BY <1>2, <1>3 DEF Zero, Perms
  <2>4. BootTable[f][i] \in PteSet
    BY <2>1, <2>2, <2>3
  <2> QED  BY <2>1, <2>4 DEF Pte, Zero, Pointer
<1>7. BootTable \in Memories
  <2>1. BootTable = [f \in Ram |-> [i \in 0 .. Fan - 1 |-> BootTable[f][i]]]
    BY DEF BootTable
  <2> QED  BY <1>6, <2>1 DEF Memories
<1> QED  BY <1>4, <1>5, <1>6, <1>7

(* The empty entry is an entry. *)
LEMMA EmptyIsEntry == EmptyEntry \in Entries
<1>1. VpnLimit \in Vpns
  <2>1. Span[Levels] \in Nat \ {0}
    BY SpanIs, Basics
  <2> QED  BY <2>1 DEF Vpns, VpnLimit
<1>2. AsidLimit \in 0 .. AsidLimit /\ PpnLimit \in Frames
  BY SoftMmuAssumption DEF Frames
<1>3. 0 \in 0 .. Levels - 1
  BY Basics
<1> QED  BY <1>1, <1>2, <1>3 DEF EmptyEntry, Entries, Perms

LEMMA InitInv == TablesTidy /\ Init => Inv
<1> SUFFICES ASSUME TablesTidy, Init  PROVE Inv
  OBVIOUS
<1> USE DEF Init
<1>1. mem \in Memories /\ Tree
  BY GuestWrites DEF Tree
<1>2. sptbr \in [asid : Asids, root : Frames] /\ RootOfSpace
  <2> DEFINE a == CHOOSE a \in Asids : \A b \in Asids : a <= b
  <2>1. \E x \in Asids : \A y \in Asids : x <= y
    BY SoftMmuAssumption, NatLeast
  <2>2. a \in Asids
    BY <2>1
  <2>3. sptbr = [asid |-> a, root |-> Root(a)]
    OBVIOUS
  <2> HIDE DEF a, Init
  <2>4. Root(a) \in Frames
    BY <2>2, Basics
  <2> QED  BY <2>2, <2>3, <2>4 DEF RootOfSpace
<1>3. tlb \in [{"i", "d"} -> [0 .. TlbSize - 1 -> Entries]]
  BY EmptyIsEntry
<1>4. past = [p \in Asids \X Vpns |-> {Mapping(mem, p[1], p[2])}]
  BY DEF Now
<1>5. \A a \in Asids, v \in Vpns : past[<<a, v>>] = {Mapping(mem, a, v)}
  BY <1>4
<1>6. past \in [Asids \X Vpns -> SUBSET Mappings]
  <2>1. \A p \in Asids \X Vpns : Mapping(mem, p[1], p[2]) \in Mappings
    BY <1>1, MappingIs
  <2> QED  BY <1>4, <2>1
<1>7. PastNow
  BY <1>5 DEF PastNow
<1>8. writes \in 0 .. MaxWrites
  BY SoftMmuAssumption
<1>9. Types
  BY <1>1, <1>2, <1>3, <1>6, <1>8 DEF Types
<1>10. EntriesWereMapped /\ EntriesAccessed
  BY DEF EntriesWereMapped, EntriesAccessed
<1>11. Idle \notin Accs /\ NoResult \notin Results
  BY DEF Idle, Accs, NoResult, Results
<1>12. AccessedTracked
  BY DEF AccessedTracked, NoResult
<1> QED  BY <1>1, <1>2, <1>7, <1>9, <1>10, <1>11, <1>12
         DEF Inv, CrossesKnown, OnPath

(***************************************************************************)
(* The steps of the guest.                                                 *)
(***************************************************************************)
(* An idle MMU without a result has nothing to show but TLB and tables. *)
LEMMA Resting ==
  ASSUME acc' = Idle, res' = NoResult
  PROVE  CrossesKnown' /\ OnPath' /\ AccessedTracked'
<1>1. Idle \notin Accs /\ NoResult \notin Results
  BY DEF Idle, Accs, NoResult, Results
<1> QED  BY <1>1 DEF CrossesKnown, OnPath, AccessedTracked, NoResult

LEMMA AccessInv == Inv /\ Access => Inv'
<1> SUFFICES ASSUME Inv, Access  PROVE Inv'
  OBVIOUS
<1>1. UNCHANGED <<guest, mem, sptbr, status, tlb, past, writes>>
  BY DEF Access
<1>2. PICK op \in guest \cap Accesses, vpn \in Vpns,
           atZero \in BOOLEAN, crosses \in BOOLEAN :
        /\ crosses => "cross" \in guest
        /\ acc' = [at |-> "translate", op |-> op, vpn |-> vpn,
                   atZero |-> atZero, crosses |-> crosses,
                   level |-> 0, table |-> 0]
  BY DEF Access
<1>3. acc' \in Accs
  <2>1. 0 \in Below \cup 0 .. Levels - 1 /\ 0 \in Frames
    BY Basics
  <2> QED  BY <1>2, <2>1 DEF Accs
<1>4. Types'
  <2>1. Statuses' = Statuses
    BY <1>1 DEF Statuses
  <2> QED  BY <1>1, <1>3, <2>1 DEF Types, Inv, Access
<1>5. CrossesKnown' /\ OnPath' /\ AccessedTracked'
  <2>1. NoResult \notin Results /\ res' = NoResult /\ res'.how # "ok"
    BY DEF NoResult, Results, Access
  <2>2. acc'.at # "walk" /\ acc'.crosses = crosses
    BY <1>2
  <2>3. CrossesKnown'
    BY <1>1, <1>2, <2>1, <2>2 DEF CrossesKnown
  <2>4. OnPath'
    BY <2>2 DEF OnPath
  <2>5. AccessedTracked'
    BY <2>1 DEF AccessedTracked
  <2> QED  BY <2>3, <2>4, <2>5
<1>6. (RootOfSpace /\ Tree /\ PastNow)'
  BY <1>1 DEF Inv, RootOfSpace, Tree, PastNow
<1>7. EntriesWereMapped' /\ EntriesAccessed'
  BY <1>1 DEF Inv, EntriesWereMapped, EntriesAccessed
<1> QED  BY <1>4, <1>5, <1>6, <1>7 DEF Inv

LEMMA WritePteInv == TablesTidy /\ Inv /\ WritePte => Inv'
<1> SUFFICES ASSUME TablesTidy, Inv, WritePte  PROVE Inv'
  OBVIOUS
<1>1. /\ UNCHANGED <<guest, sptbr, status, tlb, acc>>
      /\ acc = Idle /\ res' = NoResult /\ writes' = writes + 1
      /\ writes < MaxWrites
  BY DEF WritePte
<1>2. PICK f \in Ram, i \in 0 .. Fan - 1, pte \in GuestPtes :
         mem' = [mem EXCEPT ![f][i] = pte]
  BY DEF WritePte
<1>3. mem \in Memories /\ past \in [Asids \X Vpns -> SUBSET Mappings]
  BY DEF Inv, Types
<1>4. pte \in PteSet /\ (Pointer(pte) => ~pte.v /\ pte.ppn = 0)
  BY GuestWrites DEF Inv, Types
<1>5. mem' \in Memories
  BY <1>2, <1>3, <1>4 DEF Memories
<1>6. ASSUME NEW p \in Asids \X Vpns
      PROVE  past'[p] = past[p] \cup {Mapping(mem', p[1], p[2])}
  BY DEF WritePte, Now
<1>7. \A p \in Asids \X Vpns : Mapping(mem', p[1], p[2]) \in Mappings
  BY <1>5, MappingIs
<1>8. past' \in [Asids \X Vpns -> SUBSET Mappings]
  <2>1. past' = [p \in Asids \X Vpns |-> past[p] \cup Now(mem')[p]]
    BY DEF WritePte
  <2>2. past' = [p \in Asids \X Vpns |-> past'[p]]
    BY <2>1
  <2>3. \A p \in Asids \X Vpns : past'[p] \in SUBSET Mappings
    BY <1>3, <1>6, <1>7
  <2> QED  BY <2>2, <2>3
<1>9. Types'
  <2>1. Statuses' = Statuses
    BY <1>1 DEF Statuses
  <2>2. writes' \in 0 .. MaxWrites
    BY <1>1, SoftMmuAssumption DEF Inv, Types
  <2> QED  BY <1>1, <1>5, <1>8, <2>1, <2>2 DEF Types, Inv
<1>10. Tree'
  <2>1. ASSUME NEW g \in Ram, NEW j \in 0 .. Fan - 1
        PROVE  mem'[g][j] = IF g = f /\ j = i THEN pte ELSE mem[g][j]
    BY <1>2, <1>3 DEF Memories
  <2> QED  BY <1>4, <2>1 DEF Inv, Tree
<1>11. PastNow'
  <2>1. ASSUME NEW a \in Asids, NEW v \in Vpns
        PROVE  Mapping(mem', a, v) \in past'[<<a, v>>]
    <3>1. <<a, v>> \in Asids \X Vpns /\ <<a, v>>[1] = a /\ <<a, v>>[2] = v
      OBVIOUS
    <3> QED  BY <1>6, <3>1
  <2> QED  BY <2>1 DEF PastNow
<1>12. EntriesWereMapped'
  <2>1. ASSUME NEW w \in {"i", "d"}, NEW k \in 0 .. TlbSize - 1,
               tlb[w][k].asid \in Asids, tlb[w][k] # EmptyEntry
        PROVE  [frame |-> Offset(tlb[w][k].ppn, tlb[w][k].vpn, tlb[w][k].ptel),
                perm |-> tlb[w][k].perm]
                   \in past'[<<tlb[w][k].asid, tlb[w][k].vpn>>]
    <3> DEFINE e == tlb[w][k]
               x == [frame |-> Offset(e.ppn, e.vpn, e.ptel), perm |-> e.perm]
    <3>1. x \in past[<<e.asid, e.vpn>>]
      BY <2>1 DEF Inv, EntriesWereMapped
    <3>2. e \in Entries
      BY DEF Inv, Types
    <3> HIDE DEF x
    <3>3. <<e.asid, e.vpn>> \in Asids \X Vpns
      <4> HIDE DEF e
      <4>1. e.asid \in Asids
        BY <2>1 DEF e
      <4> QED  BY <3>2, <4>1 DEF Entries
    <3> HIDE DEF e
    <3>4. x \in past'[<<e.asid, e.vpn>>]
      BY <1>6, <3>1, <3>3
    <3> QED  BY <3>4 DEF x, e
  <2> QED  BY <1>1, <2>1 DEF EntriesWereMapped
<1>13. EntriesAccessed' /\ RootOfSpace'
  BY <1>1 DEF Inv, EntriesAccessed, RootOfSpace
<1>14. CrossesKnown' /\ OnPath' /\ AccessedTracked'
  BY <1>1, Resting
<1> QED  BY <1>9, <1>10, <1>11, <1>12, <1>13, <1>14 DEF Inv

LEMMA SetStatusInv == Inv /\ SetStatus => Inv'
<1> SUFFICES ASSUME Inv, SetStatus  PROVE Inv'
  OBVIOUS
<1>1. /\ UNCHANGED <<guest, mem, sptbr, tlb, acc, past, writes>>
      /\ acc = Idle /\ res' = NoResult /\ status' \in Statuses
  BY DEF SetStatus
<1>2. Types'
  <2>1. Statuses' = Statuses
    BY <1>1 DEF Statuses
  <2> QED  BY <1>1, <2>1 DEF Types, Inv
<1>3. CrossesKnown' /\ OnPath' /\ AccessedTracked'
  BY <1>1, Resting
<1> QED  BY <1>1, <1>2, <1>3 DEF Inv, RootOfSpace, Tree, PastNow,
                                 EntriesWereMapped, EntriesAccessed

LEMMA SetSptbrInv == Inv /\ SetSptbr => Inv'
<1> SUFFICES ASSUME Inv, SetSptbr  PROVE Inv'
  OBVIOUS
<1>1. /\ UNCHANGED <<guest, mem, status, tlb, acc, past, writes>>
      /\ acc = Idle /\ res' = NoResult
  BY DEF SetSptbr
<1>2. PICK a \in Asids : sptbr' = [asid |-> a, root |-> Root(a)]
  BY DEF SetSptbr
<1>3. Types' /\ RootOfSpace'
  <2>1. Statuses' = Statuses
    BY <1>1 DEF Statuses
  <2>2. Root(a) \in Frames
    BY Basics
  <2>3. sptbr' \in [asid : Asids, root : Frames] /\ RootOfSpace'
    BY <1>2, <2>2 DEF RootOfSpace
  <2> QED  BY <1>1, <2>1, <2>3 DEF Types, Inv
<1>4. CrossesKnown' /\ OnPath' /\ AccessedTracked'
  BY <1>1, Resting
<1> QED  BY <1>1, <1>3, <1>4 DEF Inv, Tree, PastNow,
                                 EntriesWereMapped, EntriesAccessed

LEMMA SfenceVmInv == Inv /\ SfenceVm => Inv'
<1> SUFFICES ASSUME Inv, SfenceVm  PROVE Inv'
  OBVIOUS
<1>1. /\ UNCHANGED <<guest, mem, sptbr, status, acc, writes>>
      /\ acc = Idle /\ res' = NoResult
      /\ tlb' = [w \in {"i", "d"} |-> Flush(tlb[w], 0, sptbr.asid)]
  BY DEF SfenceVm
<1>2. ASSUME NEW w \in {"i", "d"}, NEW i \in 0 .. TlbSize - 1
      PROVE  tlb'[w][i] = EmptyEntry
  <2>1. tlb[w] \in [0 .. TlbSize - 1 -> Entries]
    BY DEF Inv, Types
  <2>2. tlb[w][i].pdid = 0
    BY <2>1 DEF Entries
  <2>3. tlb'[w] = Flush(tlb[w], 0, sptbr.asid)
    BY <1>1
  <2> QED  BY <2>1, <2>2, <2>3 DEF Flush
<1>3. tlb' \in [{"i", "d"} -> [0 .. TlbSize - 1 -> Entries]]
  <2>1. ASSUME NEW w \in {"i", "d"}
        PROVE  Flush(tlb[w], 0, sptbr.asid) \in [0 .. TlbSize - 1 -> Entries]
    <3>1. tlb[w] \in [0 .. TlbSize - 1 -> Entries]
      BY DEF Inv, Types
    <3> QED  BY <3>1, EmptyIsEntry DEF Flush
  <2> QED  BY <1>1, <2>1
<1>4. ASSUME NEW p \in Asids \X Vpns
      PROVE  \/ past'[p] = {Mapping(mem, p[1], p[2])}
             \/ past'[p] = past[p]
  BY DEF SfenceVm, Now
<1>5. mem \in Memories /\ past \in [Asids \X Vpns -> SUBSET Mappings]
  BY DEF Inv, Types
<1>6. past' \in [Asids \X Vpns -> SUBSET Mappings]
  <2>1. past' = [p \in Asids \X Vpns |->
                   IF p[1] = sptbr.asid THEN Now(mem)[p] ELSE past[p]]
    BY DEF SfenceVm
  <2>2. past' = [p \in Asids \X Vpns |-> past'[p]]
    BY <2>1
  <2>3. \A p \in Asids \X Vpns : Mapping(mem, p[1], p[2]) \in Mappings
    BY <1>5, MappingIs
  <2>4. \A p \in Asids \X Vpns : past'[p] \in SUBSET Mappings
    BY <1>4, <1>5, <2>3
  <2> QED  BY <2>2, <2>4
<1>7. PastNow'
  <2>1. ASSUME NEW a \in Asids, NEW v \in Vpns
        PROVE  Mapping(mem, a, v) \in past'[<<a, v>>]
    <3>1. <<a, v>> \in Asids \X Vpns /\ <<a, v>>[1] = a /\ <<a, v>>[2] = v
      OBVIOUS
    <3>2. Mapping(mem, a, v) \in past[<<a, v>>]
      BY DEF Inv, PastNow
    <3> QED  BY <1>4, <3>1, <3>2
  <2> QED  BY <1>1, <2>1 DEF PastNow
<1>8. Types'
  <2>1. Statuses' = Statuses
    BY <1>1 DEF Statuses
  <2> QED  BY <1>1, <1>3, <1>6, <2>1 DEF Types, Inv
<1>9. EntriesWereMapped' /\ EntriesAccessed'
  BY <1>2 DEF EntriesWereMapped, EntriesAccessed, EmptyEntry
<1>10. CrossesKnown' /\ OnPath' /\ AccessedTracked'
  BY <1>1, Resting
<1> QED  BY <1>1, <1>7, <1>8, <1>9, <1>10 DEF Inv, RootOfSpace, Tree

(***************************************************************************)
(* The steps of an access.                                                 *)
(***************************************************************************)
(* How an access ends. *)
LEMMA FinishIs ==
  ASSUME acc \in Accs, NEW frame \in Int, NEW perms, Finish(frame, perms)
  PROVE  /\ acc' = Idle /\ res' \in Results
         /\ res'.op = acc.op /\ res'.vpn = acc.vpn
         /\ res'.crosses = acc.crosses /\ res'.paged = Paged(acc.op)
         /\ res'.how = "ok" =>
               /\ res'.frame = frame /\ FetchedFrames(frame) \subseteq Ram
               /\ \A p \in perms : ~Denied(acc.op, p, Level(acc.op))
         /\ res'.how = "fault" =>
               \/ \E p \in perms : Denied(acc.op, p, Level(acc.op))
               \/ ~(FetchedFrames(frame) \subseteq Ram)
<1>1. ASSUME NEW how \in {"ok", "fault", "silent"}, NEW at \in Int, End(how, at)
      PROVE  /\ acc' = Idle /\ res' \in Results /\ res'.how = how
             /\ res'.op = acc.op /\ res'.vpn = acc.vpn /\ res'.frame = at
             /\ res'.crosses = acc.crosses /\ res'.paged = Paged(acc.op)
  <2>1. Paged(acc.op) \in BOOLEAN
    BY DEF Paged
  <2>2. /\ acc' = Idle
        /\ res' = [how |-> how, op |-> acc.op, vpn |-> acc.vpn, frame |-> at,
                   crosses |-> acc.crosses, paged |-> Paged(acc.op)]
    BY <1>1 DEF End
  <2>3. acc.op \in Accesses /\ acc.vpn \in Vpns /\ acc.crosses \in BOOLEAN
    BY DEF Accs
  <2> QED  BY <2>1, <2>2, <2>3 DEF Results
<1>2. CASE End("silent", 0)
  BY <1>1, <1>2
<1>3. CASE /\ Raise
           /\ \/ \E p \in perms : Denied(acc.op, p, Level(acc.op))
              \/ ~(FetchedFrames(frame) \subseteq Ram)
  <2>1. End("fault", -1) /\ -1 \in Int
    BY <1>3 DEF Raise
  <2>2. /\ acc' = Idle /\ res' \in Results /\ res'.how = "fault"
        /\ res'.op = acc.op /\ res'.vpn = acc.vpn
        /\ res'.crosses = acc.crosses /\ res'.paged = Paged(acc.op)
    BY <1>1, <2>1
  <2> QED  BY <1>3, <2>2
<1>4. CASE /\ End("ok", frame)
           /\ \A p \in perms : ~Denied(acc.op, p, Level(acc.op))
           /\ FetchedFrames(frame) \subseteq Ram
  <2>1. /\ acc' = Idle /\ res' \in Results /\ res'.how = "ok"
        /\ res'.op = acc.op /\ res'.vpn = acc.vpn /\ res'.frame = frame
        /\ res'.crosses = acc.crosses /\ res'.paged = Paged(acc.op)
    BY <1>1, <1>4
  <2> QED  BY <1>4, <2>1
<1> QED  BY <1>2, <1>3, <1>4 DEF Finish

(* Where the walk is when it reads a PTE. *)
LEMMA WalkAt ==
  ASSUME Inv, acc \in Accs, acc.at = "walk", acc.table \in Ram,
         NEW i \in Indices(acc.level)
  PROVE  /\ acc.level \in 0 .. Levels - 1 /\ acc.level \notin Below
         /\ acc.level \in Nat /\ i = Index(acc.vpn, acc.level)
         /\ i \in 0 .. Fan - 1 /\ acc.vpn \in Vpns /\ acc.table \in Frames
         /\ mem[acc.table][i] \in PteSet
         /\ acc.table = 1 => acc.level > 0
         /\ \A m \in Memories : SameTables(m, mem) =>
               Meaning(m, sptbr.root, acc.vpn)
                   = LeafFrom(m, acc.vpn)[acc.level][acc.table]
<1>1. /\ acc.level \in 0 .. Levels - 1
      /\ acc.table = 1 => acc.level > 0
      /\ \A m \in Memories : SameTables(m, mem) =>
            Meaning(m, sptbr.root, acc.vpn)
                = LeafFrom(m, acc.vpn)[acc.level][acc.table]
  BY Basics DEF Inv, OnPath
<1>2. acc.level \in Nat /\ acc.level \notin Below
  BY <1>1, Basics DEF Below
<1>3. i = Index(acc.vpn, acc.level)
  BY <1>2 DEF Indices
<1>4. acc.vpn \in Vpns /\ acc.table \in Frames
  BY DEF Accs
<1>5. i \in 0 .. Fan - 1
  BY <1>2, <1>3, <1>4, IndexIn
<1>6. mem[acc.table][i] \in PteSet
  <2>1. mem \in Memories
    BY DEF Inv, Types
  <2> QED  BY <1>5, <2>1 DEF Memories
<1> QED  BY <1>1, <1>2, <1>3, <1>4, <1>5, <1>6

(* A leaf that the walk accepts is what its page means. *)
LEMMA LeafFound ==
  ASSUME Inv, acc \in Accs, acc.at = "walk", acc.table \in Ram,
         NEW i \in Indices(acc.level), NEW pte, pte = mem[acc.table][i],
         ~Pointer(pte), ~Reserved(pte), ~Misaligned(pte, acc.level)
  PROVE  /\ Offset(pte.ppn, acc.vpn, acc.level) \in Int
         /\ [frame |-> Offset(pte.ppn, acc.vpn, acc.level), perm |-> pte.perm]
               \in past[<<sptbr.asid, acc.vpn>>]
<1> DEFINE m == mem
<1>1. m \in Memories /\ SameTables(m, mem)
  BY DEF Inv, Types, SameTables
<1>2. LeafOk(pte, acc.level)
  BY WalkAt DEF Reserved, Misaligned, LeafOk
<1>3. Meaning(mem, sptbr.root, acc.vpn)
         = LeafFrom(mem, acc.vpn)[acc.level][acc.table]
  BY <1>1, WalkAt
<1>4. LeafFrom(mem, acc.vpn)[acc.level][acc.table]
         = [frame |-> pte.ppn + (acc.vpn % Span[acc.level]),
            perm |-> pte.perm, ad |-> pte.ad]
  BY <1>1, <1>2, WalkAt, LeafCases
<1>5. Offset(pte.ppn, acc.vpn, acc.level)
         = pte.ppn + (acc.vpn % Span[acc.level])
  BY WalkAt DEF Offset
<1>6. pte.ppn \in Int
  <2>1. pte \in PteSet
    BY WalkAt
  <2>2. pte.ppn \in Frames
    BY <2>1 DEF PteSet
  <2> QED  BY <2>2, SoftMmuAssumption DEF Frames
<1>7. Offset(pte.ppn, acc.vpn, acc.level) \in Int
  <2>1. acc.vpn % Span[acc.level] \in Int
    BY WalkAt, IndexIn
  <2> QED  BY <1>5, <1>6, <2>1
<1>8. Mapping(mem, sptbr.asid, acc.vpn)
         = [frame |-> Offset(pte.ppn, acc.vpn, acc.level), perm |-> pte.perm]
  BY <1>3, <1>4, <1>5 DEF Mapping, Inv, RootOfSpace
<1>9. Mapping(mem, sptbr.asid, acc.vpn) \in past[<<sptbr.asid, acc.vpn>>]
  BY WalkAt DEF Inv, PastNow, Types
<1> QED  BY <1>7, <1>8, <1>9

(* Going on to the table behind a pointer, or leaving by a zero PTE. *)
LEMMA FollowInv ==
  ASSUME Inv, acc \in Accs, acc.at = "walk", acc.table \in Ram,
         NEW i \in Indices(acc.level), NEW pte, pte = mem[acc.table][i],
         Pointer(pte), FollowPointer(pte),
         UNCHANGED <<guest, sptbr, status, past, writes>>
  PROVE  Inv'
<1>1. UNCHANGED <<mem, tlb, res>>
  BY DEF FollowPointer
<1>2. /\ acc.level \in 0 .. Levels - 1 /\ acc.level \in Nat
      /\ i = Index(acc.vpn, acc.level) /\ i \in 0 .. Fan - 1
      /\ acc.vpn \in Vpns /\ acc.table \in Frames /\ pte \in PteSet
      /\ acc.table = 1 => acc.level > 0
  BY WalkAt
<1>3. acc' = [acc EXCEPT !.table = pte.ppn, !.level = acc.level - 1]
  <2>1. acc.level # -2
    BY <1>2
  <2> QED  BY <2>1 DEF FollowPointer, Accs
<1>4. /\ acc'.at = "walk" /\ acc'.vpn = acc.vpn /\ acc'.crosses = acc.crosses
      /\ acc'.table = pte.ppn /\ acc'.level = acc.level - 1
      /\ acc' \in Accs
  <2>1. acc.level - 1 \in Below \cup 0 .. Levels - 1
    BY <1>2, Basics DEF Below
  <2>2. pte.ppn \in Frames
    BY <1>2 DEF PteSet
  <2> QED  BY <1>3, <2>1, <2>2 DEF Accs
<1>5. Types'
  <2>1. Statuses' = Statuses
    BY DEF Statuses
  <2> QED  BY <1>1, <1>4, <2>1 DEF Types, Inv
<1>6. \/ ~pte.v /\ pte.ppn = 0
      \/ acc.table = 1 /\ pte.v /\ pte.ppn = 2
  BY <1>2 DEF Inv, Tree
<1>7. ASSUME NEW m \in Memories, SameTables(m, mem)
      PROVE  /\ Meaning(m, sptbr.root, acc.vpn)
                   = LeafFrom(m, acc.vpn)[acc.level][acc.table]
             /\ Pointer(m[acc.table][i]) /\ m[acc.table][i].v = pte.v
             /\ m[acc.table][i].ppn = pte.ppn
  <2>1. /\ m[acc.table][i].v = pte.v /\ m[acc.table][i].perm = pte.perm
        /\ m[acc.table][i].ppn = pte.ppn
    BY <1>2, <1>7 DEF SameTables
  <2>2. Pointer(m[acc.table][i])
    BY <2>1 DEF Pointer
  <2> QED  BY <1>7, <2>1, <2>2, WalkAt
<1>8. OnPath'
  <2>1. CASE ~pte.v /\ pte.ppn = 0
    <3>1. ASSUME NEW m \in Memories, SameTables(m, mem)
          PROVE  Meaning(m, sptbr.root, acc.vpn) = Unmapped
      <4>1. /\ Pointer(m[acc.table][Index(acc.vpn, acc.level)])
            /\ ~m[acc.table][Index(acc.vpn, acc.level)].v
        BY <1>2, <1>7, <2>1, <3>1
      <4>2. LeafFrom(m, acc.vpn)[acc.level][acc.table] = Unmapped
        BY <1>2, <4>1, LeafNone
      <4> QED  BY <1>7, <3>1, <4>2
    <3>2. CASE acc.level = 0
      <4>1. mem \in Memories /\ SameTables(mem, mem)
        BY DEF Inv, Types, SameTables
      <4>2. acc'.level \in Below
        BY <1>4, <3>2 DEF Below
      <4> QED  BY <1>1, <1>4, <2>1, <3>1, <4>1, <4>2 DEF OnPath
    <3>3. CASE acc.level # 0
      <4>1. acc'.level \in 0 .. Levels - 1 /\ acc'.level \in Nat
        BY <1>2, <1>4, <3>3, Basics
      <4>2. acc'.table = 0 /\ 0 \notin Ram /\ 0 \in Frames
        BY <1>4, <2>1, Basics
      <4>3. ASSUME NEW m \in Memories
            PROVE  LeafFrom(m, acc'.vpn)[acc'.level][acc'.table] = Unmapped
        BY <1>2, <1>4, <4>1, <4>2, LeafNone
      <4> QED  BY <1>1, <1>4, <3>1, <4>1, <4>2, <4>3 DEF OnPath
    <3> QED  BY <3>2, <3>3
  <2>2. CASE acc.table = 1 /\ pte.v /\ pte.ppn = 2
    <3>1. acc.level > 0
      BY <1>2, <2>2
    <3>2. acc'.level \in 0 .. Levels - 1 /\ acc'.table = 2
      BY <1>2, <1>4, <2>2, <3>1, Basics
    <3>3. ASSUME NEW m \in Memories, SameTables(m, mem)
          PROVE  Meaning(m, sptbr.root, acc.vpn)
                   = LeafFrom(m, acc.vpn)[acc.level - 1][2]
      <4> DEFINE q == m[acc.table][i]
      <4>1. Pointer(q) /\ q.v /\ q.ppn = 2
        BY <1>7, <2>2, <3>3
      <4>2. q = m[acc.table][Index(acc.vpn, acc.level)]
        BY <1>2
      <4> HIDE DEF q
      <4>3. LeafFrom(m, acc.vpn)[acc.level][acc.table]
              = LeafFrom(m, acc.vpn)[acc.level - 1][q.ppn]
        BY <1>2, <3>1, <4>1, <4>2, LeafBehind
      <4> QED  BY <1>7, <3>3, <4>1, <4>3
    <3> QED  BY <1>1, <1>4, <3>2, <3>3 DEF OnPath
  <2> QED  BY <1>6, <2>1, <2>2
<1>9. CrossesKnown'
  BY <1>1, <1>4 DEF Inv, CrossesKnown
<1>10. (RootOfSpace /\ Tree /\ PastNow)'
  BY <1>1 DEF Inv, RootOfSpace, Tree, PastNow
<1>11. (EntriesWereMapped /\ EntriesAccessed /\ AccessedTracked)'
  BY <1>1 DEF Inv, EntriesWereMapped, EntriesAccessed, AccessedTracked
<1> QED  BY <1>5, <1>8, <1>9, <1>10, <1>11 DEF Inv

(* An access that ends with a fault, or elsewhere than in a page table, and *)
(* changes neither tables nor TLB.                                          *)
LEMMA EndInv ==
  ASSUME Inv, acc \in Accs, acc' = Idle, res' \in Results,
         res'.crosses = acc.crosses,
         ~(res'.how = "ok" /\ res'.paged /\ res'.op \in {"load", "fetch"}),
         UNCHANGED <<guest, mem, sptbr, status, tlb, past, writes>>
  PROVE  Inv'
<1>1. Types'
  <2>1. Statuses' = Statuses
    BY DEF Statuses
  <2> QED  BY <2>1 DEF Types, Inv
<1>2. Idle \notin Accs
  BY DEF Idle, Accs
<1>3. CrossesKnown' /\ OnPath' /\ AccessedTracked'
  <2>1. CrossesKnown'
    BY <1>2 DEF Inv, CrossesKnown
  <2>2. OnPath'
    BY <1>2 DEF OnPath
  <2>3. AccessedTracked'
    BY DEF AccessedTracked
  <2> QED  BY <2>1, <2>2, <2>3
<1>4. (RootOfSpace /\ Tree /\ PastNow)'
  BY DEF Inv, RootOfSpace, Tree, PastNow
<1>5. (EntriesWereMapped /\ EntriesAccessed)'
  BY DEF Inv, EntriesWereMapped, EntriesAccessed
<1> QED  BY <1>1, <1>3, <1>4, <1>5 DEF Inv

(* A fault. *)
LEMMA RaiseIs ==
  ASSUME acc \in Accs, Raise
  PROVE  /\ acc' = Idle /\ res' \in Results /\ res'.how = "fault"
         /\ res'.op = acc.op /\ res'.vpn = acc.vpn
         /\ res'.crosses = acc.crosses /\ res'.paged = Paged(acc.op)
<1>1. Paged(acc.op) \in BOOLEAN
  BY DEF Paged
<1>2. acc.op \in Accesses /\ acc.vpn \in Vpns /\ acc.crosses \in BOOLEAN
  BY DEF Accs
<1> QED  BY <1>1, <1>2 DEF Raise, End, Results

(* Using a leaf: its flags are set, the TLB has an entry for it. *)
LEMMA UseLeafInv ==
  ASSUME Inv, acc \in Accs, acc.at = "walk", acc.table \in Ram,
         NEW i \in Indices(acc.level), NEW pte, pte = mem[acc.table][i],
         ~Pointer(pte), ~Reserved(pte), ~Misaligned(pte, acc.level),
         UseLeaf(i, pte),
         UNCHANGED <<guest, sptbr, status, past, writes>>
  PROVE  Inv'
<1> DEFINE new == NewFlags(pte)
           frame == Offset(pte.ppn, acc.vpn, acc.level)
           entry == [pdid |-> 0, asid |-> sptbr.asid, vpn |-> acc.vpn,
                     ptel |-> acc.level, perm |-> new.perm, ad |-> new.ad,
                     ppn |-> new.ppn]
           w == WhichTlb(acc.op)
           k == Slot(acc.vpn)
<1>1. /\ acc.level \in 0 .. Levels - 1 /\ acc.level \in Nat
      /\ acc.level \notin Below
      /\ i = Index(acc.vpn, acc.level) /\ i \in 0 .. Fan - 1
      /\ acc.vpn \in Vpns /\ acc.table \in Frames /\ pte \in PteSet
  BY WalkAt
<1>2. mem \in Memories /\ sptbr.asid \in Asids /\ sptbr.root = Root(sptbr.asid)
  BY DEF Inv, Types, RootOfSpace
<1>3. /\ new \in PteSet /\ new.v = pte.v /\ new.perm = pte.perm
      /\ new.ppn = pte.ppn /\ "A" \in new.ad
  <2>1. AdFlags(acc.op) \in SUBSET {"A", "D"} /\ "A" \in AdFlags(acc.op)
    BY DEF AdFlags
  <2> QED  BY <1>1, <2>1 DEF NewFlags, PteSet
<1>4. /\ mem' = [mem EXCEPT ![acc.table][i] = new]
      /\ Finish(frame, {new.perm})
      /\ \/ UNCHANGED tlb
         \/ tlb' = [tlb EXCEPT ![w][k] = entry]
  BY DEF UseLeaf, Insert
<1>5. /\ frame \in Int
      /\ [frame |-> frame, perm |-> pte.perm] \in past[<<sptbr.asid, acc.vpn>>]
  BY LeafFound
<1> HIDE DEF new, frame
<1>6. ASSUME NEW g \in Ram, NEW j \in 0 .. Fan - 1
      PROVE  mem'[g][j] = IF g = acc.table /\ j = i THEN new ELSE mem[g][j]
  BY <1>1, <1>2, <1>4 DEF Memories
<1>7. mem' \in Memories
  BY <1>1, <1>2, <1>3, <1>4 DEF Memories
<1>8. SameTables(mem', mem) /\ SameTables(mem, mem')
  BY <1>3, <1>6 DEF SameTables
<1>9. /\ acc' = Idle /\ res' \in Results /\ res'.vpn = acc.vpn
      /\ res'.crosses = acc.crosses
  BY <1>4, <1>5, FinishIs
<1>10. entry \in Entries
  <2>1. sptbr.asid \in 0 .. AsidLimit
    BY <1>2, SoftMmuAssumption
  <2>2. new.perm \in Perms /\ new.ad \in SUBSET {"A", "D"} /\ new.ppn \in Frames
    BY <1>3 DEF PteSet, Perms
  <2> QED  BY <1>1, <2>1, <2>2 DEF Entries
<1>11. w \in {"i", "d"} /\ k \in 0 .. TlbSize - 1
  <2>1. acc.vpn \in Nat
    BY <1>1, IndexIn
  <2> QED  BY <2>1, SoftMmuAssumption DEF WhichTlb, Slot
<1> HIDE DEF w, k
<1>12. tlb \in [{"i", "d"} -> [0 .. TlbSize - 1 -> Entries]]
  BY DEF Inv, Types
<1>13. ASSUME NEW x \in {"i", "d"}, NEW j \in 0 .. TlbSize - 1
       PROVE  tlb'[x][j] = tlb[x][j] \/ tlb'[x][j] = entry
  <2> HIDE DEF entry
  <2> QED  BY <1>4, <1>11, <1>12
<1>14. tlb' \in [{"i", "d"} -> [0 .. TlbSize - 1 -> Entries]]
  <2> HIDE DEF entry
  <2>1. CASE tlb' = [tlb EXCEPT ![w][k] = entry]
    <3> DEFINE row == [tlb[w] EXCEPT ![k] = entry]
    <3>1. tlb[w] \in [0 .. TlbSize - 1 -> Entries]
      BY <1>11, <1>12
    <3>2. row \in [0 .. TlbSize - 1 -> Entries]
      BY <1>10, <3>1
    <3>3. tlb' = [tlb EXCEPT ![w] = row]
      BY <2>1
    <3> HIDE DEF row
    <3> QED  BY <1>11, <1>12, <3>2, <3>3
  <2> QED  BY <1>4, <1>12, <2>1
<1>15. Types'
  <2>1. Statuses' = Statuses
    BY DEF Statuses
  <2> QED  BY <1>7, <1>9, <1>14, <2>1 DEF Types, Inv
<1>16. Tree'
  <2>1. ~Pointer(new)
    BY <1>3 DEF Pointer
  <2>2. ASSUME NEW g \in Ram, NEW j \in 0 .. Fan - 1, Pointer(mem'[g][j])
        PROVE  \/ ~mem'[g][j].v /\ mem'[g][j].ppn = 0
               \/ g = 1 /\ mem'[g][j].v /\ mem'[g][j].ppn = 2
    <3>1. mem'[g][j] = mem[g][j]
      BY <1>6, <2>1, <2>2
    <3> QED  BY <2>2, <3>1 DEF Inv, Tree
  <2> QED  BY <2>2 DEF Tree
<1>17. PastNow'
  <2>1. ASSUME NEW a \in Asids, NEW v \in Vpns
        PROVE  Mapping(mem', a, v) \in past[<<a, v>>]
    <3>1. Mapping(mem', a, v) = Mapping(mem, a, v)
      BY <1>2, <1>7, <1>8, MappingIs
    <3> QED  BY <3>1 DEF Inv, PastNow
  <2> QED  BY <2>1 DEF PastNow
<1>18. EntriesWereMapped'
  <2>1. [frame |-> Offset(entry.ppn, entry.vpn, entry.ptel),
         perm |-> entry.perm] \in past[<<entry.asid, entry.vpn>>]
    BY <1>3, <1>5 DEF frame
  <2>2. ASSUME NEW x \in {"i", "d"}, NEW j \in 0 .. TlbSize - 1,
               tlb'[x][j].asid \in Asids, tlb'[x][j] # EmptyEntry
        PROVE  [frame |-> Offset(tlb'[x][j].ppn, tlb'[x][j].vpn,
                                 tlb'[x][j].ptel),
                perm |-> tlb'[x][j].perm]
                   \in past[<<tlb'[x][j].asid, tlb'[x][j].vpn>>]
    <3> HIDE DEF entry
    <3>1. CASE tlb'[x][j] = entry
      BY <2>1, <3>1
    <3>2. CASE tlb'[x][j] = tlb[x][j]
      BY <2>2, <3>2 DEF Inv, EntriesWereMapped
    <3> QED  BY <1>13, <3>1, <3>2
  <2> QED  BY <2>2 DEF EntriesWereMapped
<1>19. EntriesAccessed'
  <2>1. "A" \in entry.ad
    BY <1>3
  <2> HIDE DEF entry
  <2> QED  BY <1>13, <2>1 DEF Inv, EntriesAccessed
<1>20. CrossesKnown' /\ OnPath'
  <2>1. Idle \notin Accs
    BY DEF Idle, Accs
  <2> QED  BY <1>9, <2>1 DEF Inv, CrossesKnown, OnPath
<1>21. AccessedTracked'
  <2>1. Meaning(mem', sptbr.root, acc.vpn)
          = LeafFrom(mem', acc.vpn)[acc.level][acc.table]
    BY <1>7, <1>8, WalkAt
  <2>2. new = mem'[acc.table][Index(acc.vpn, acc.level)]
    BY <1>1, <1>6
  <2>3. ~Pointer(new) /\ LeafOk(new, acc.level)
    BY <1>1, <1>3 DEF Reserved, Misaligned, LeafOk, Pointer
  <2>4. LeafFrom(mem', acc.vpn)[acc.level][acc.table]
          = [frame |-> new.ppn + (acc.vpn % Span[acc.level]),
             perm |-> new.perm, ad |-> new.ad]
    <3> DEFINE m == mem'
               v == acc.vpn
               l == acc.level
               f == acc.table
    <3>1. /\ m \in Memories /\ v \in Vpns /\ l \in Nat /\ f \in Frames
          /\ f \in Ram /\ new = m[f][Index(v, l)]
          /\ ~Pointer(new) /\ LeafOk(new, l)
      BY <1>1, <1>7, <2>2, <2>3
    <3> HIDE DEF m, v, l, f
    <3>2. LeafFrom(m, v)[l][f] = [frame |-> new.ppn + (v % Span[l]),
                                  perm |-> new.perm, ad |-> new.ad]
      BY <3>1, LeafCases
    <3> QED  BY <3>2 DEF m, v, l, f
  <2>5. "A" \in Meaning(mem', sptbr.root, acc.vpn).ad
    BY <1>3, <2>1, <2>4
  <2> QED  BY <1>9, <2>5 DEF AccessedTracked
<1>22. RootOfSpace'
  BY DEF Inv, RootOfSpace
<1> QED  BY <1>15, <1>16, <1>17, <1>18, <1>19, <1>20, <1>21, <1>22 DEF Inv

(* The walk keeps the invariant. *)
LEMMA WalkInv == Inv /\ Walk => Inv'
<1> SUFFICES ASSUME Inv, Walk  PROVE Inv'
  OBVIOUS
<1>1. /\ acc \in Accs /\ acc.at = "walk"
      /\ UNCHANGED <<guest, sptbr, status, past, writes>>
  BY DEF Walk, Inv, Types, Idle
<1>2. CASE Raise /\ UNCHANGED <<mem, tlb>>
  BY <1>1, <1>2, RaiseIs, EndInv
<1>3. CASE acc.table \in Ram /\ \E i \in Indices(acc.level) :
             /\ Pointer(mem[acc.table][i])
             /\ FollowPointer(mem[acc.table][i])
  BY <1>1, <1>3, FollowInv
<1>4. CASE acc.table \in Ram /\ \E i \in Indices(acc.level) :
             /\ ~Pointer(mem[acc.table][i]) /\ ~Reserved(mem[acc.table][i])
             /\ ~Misaligned(mem[acc.table][i], acc.level)
             /\ UseLeaf(i, mem[acc.table][i])
  BY <1>1, <1>4, UseLeafInv
<1> QED  BY <1>2, <1>3, <1>4 DEF Walk

(* What Translate does: nothing paged, a hit, or the begin of a walk. *)
LEMMA TranslateIs ==
  ASSUME Inv, Translate
  PROVE  /\ acc \in Accs
         /\ UNCHANGED <<guest, mem, sptbr, status, tlb, past, writes>>
         /\ \/ ~Paged(acc.op) /\ Finish(acc.vpn, {})
            \/ /\ Paged(acc.op)
               /\ \E e \in Entries :
                     /\ e = tlb[WhichTlb(acc.op)][Slot(acc.vpn)]
                     /\ e.asid = sptbr.asid /\ e.vpn = acc.vpn
                     /\ ~(AdFlags(acc.op) \subseteq e.ad)
                     /\ Finish(Offset(e.ppn, acc.vpn, e.ptel), {e.perm})
            \/ /\ acc' = [acc EXCEPT !.at = "walk", !.level = Levels - 1,
                                     !.table = sptbr.root]
               /\ UNCHANGED res
<1>1. /\ acc \in Accs /\ acc.at = "translate"
      /\ UNCHANGED <<guest, mem, sptbr, status, tlb, past, writes>>
  BY DEF Translate, Inv, Types, Idle
<1> DEFINE w == WhichTlb(acc.op)
           k == Slot(acc.vpn)
           hit == {e \in Lookup(w, acc.vpn) : UseEntry(e)}
           h == CHOOSE e \in hit : TRUE
<1>2. w \in {"i", "d"} /\ k \in 0 .. TlbSize - 1
  <2>1. acc.vpn \in Nat
    <3>1. acc.vpn \in Vpns /\ 0 \in Nat
      BY <1>1 DEF Accs
    <3> QED  BY <3>1, IndexIn
  <2> QED  BY <2>1, SoftMmuAssumption DEF WhichTlb, Slot
<1>3. tlb[w][k] \in Entries
  <2>1. tlb \in [{"i", "d"} -> [0 .. TlbSize - 1 -> Entries]]
    BY DEF Inv, Types
  <2> HIDE DEF w, k
  <2> QED  BY <1>2, <2>1
<1>4. CASE ~Paged(acc.op)
  BY <1>1, <1>4 DEF Translate
<1>5. CASE Paged(acc.op) /\ hit # {}
  <2>1. h \in hit
    BY <1>5
  <2>2. /\ h = tlb[w][k] /\ h.asid = sptbr.asid /\ h.vpn = acc.vpn
        /\ ~(AdFlags(acc.op) \subseteq h.ad)
    <3>1. h \in Lookup(w, acc.vpn) /\ UseEntry(h)
      <4> HIDE DEF h
      <4> QED  BY <2>1
    <3> HIDE DEF h, hit, w
    <3> QED  BY <3>1 DEF Lookup, UseEntry
  <2>3. Finish(Offset(h.ppn, acc.vpn, h.ptel), {h.perm})
    BY <1>5 DEF Translate
  <2>4. h \in Entries
    BY <1>3, <2>2
  <2> HIDE DEF h, hit
  <2> QED  BY <1>1, <1>5, <2>2, <2>3, <2>4 DEF w, k
<1>6. CASE Paged(acc.op) /\ hit = {}
  BY <1>1, <1>6 DEF Translate
<1> QED  BY <1>4, <1>5, <1>6

(* A frame that an entry gives is a number. *)
LEMMA OffsetIn ==
  ASSUME NEW e \in Entries, NEW vpn \in Vpns
  PROVE  Offset(e.ppn, vpn, e.ptel) \in Int
<1>1. e.ppn \in Int
  <2>1. e.ppn \in Frames
    BY DEF Entries
  <2> QED  BY <2>1, SoftMmuAssumption DEF Frames
<1>2. e.ptel \in Nat
  BY Basics DEF Entries
<1>3. vpn % Span[e.ptel] \in Int
  BY <1>2, IndexIn
<1> QED  BY <1>1, <1>3 DEF Offset

LEMMA TranslateInv == Inv /\ Translate => Inv'
<1> SUFFICES ASSUME Inv, Translate  PROVE Inv'
  OBVIOUS
<1>1. acc \in Accs /\ UNCHANGED <<guest, mem, sptbr, status, tlb, past, writes>>
  BY TranslateIs
<1>2. acc.vpn \in Vpns /\ acc.vpn \in Int
  <2>1. acc.vpn \in Vpns /\ 0 \in Nat
    BY <1>1 DEF Accs
  <2> QED  BY <2>1, IndexIn
<1>3. CASE ~Paged(acc.op) /\ Finish(acc.vpn, {})
  BY <1>1, <1>2, <1>3, FinishIs, EndInv
<1>4. CASE \E e \in Entries :
              /\ e = tlb[WhichTlb(acc.op)][Slot(acc.vpn)]
              /\ e.asid = sptbr.asid /\ e.vpn = acc.vpn
              /\ ~(AdFlags(acc.op) \subseteq e.ad)
              /\ Finish(Offset(e.ppn, acc.vpn, e.ptel), {e.perm})
  <2>1. PICK e \in Entries :
              /\ e = tlb[WhichTlb(acc.op)][Slot(acc.vpn)]
              /\ ~(AdFlags(acc.op) \subseteq e.ad)
              /\ Finish(Offset(e.ppn, acc.vpn, e.ptel), {e.perm})
    BY <1>4
  <2>2. Offset(e.ppn, acc.vpn, e.ptel) \in Int
    BY <1>2, OffsetIn
  <2>3. /\ acc' = Idle /\ res' \in Results /\ res'.crosses = acc.crosses
        /\ res'.op = acc.op
        /\ res'.how = "ok" => ~Denied(acc.op, e.perm, Level(acc.op))
    BY <1>1, <2>1, <2>2, FinishIs
  <2>4. ASSUME res'.how = "ok", res'.op \in {"load", "fetch"}  PROVE FALSE
    <3>1. AdFlags(acc.op) = {"A"}
      BY <2>3, <2>4 DEF AdFlags
    <3>2. "A" \notin e.ad
      BY <2>1, <3>1
    <3>3. WhichTlb(acc.op) \in {"i", "d"} /\ Slot(acc.vpn) \in 0 .. TlbSize - 1
      <4>1. acc.vpn \in Nat
        <5>1. 0 \in Nat
          OBVIOUS
        <5> QED  BY <1>2, <5>1, IndexIn
      <4> QED  BY <4>1, SoftMmuAssumption DEF WhichTlb, Slot
    <3>4. e = EmptyEntry
      BY <2>1, <3>2, <3>3 DEF Inv, EntriesAccessed
    <3>5. e.perm = {}
      BY <3>4 DEF EmptyEntry
    <3>6. ~Denied(acc.op, {}, Level(acc.op)) /\ acc.op \in {"load", "fetch"}
      BY <2>3, <2>4, <3>5
    <3> QED  BY <3>6 DEF Denied, FetchDenied, LoadDenied
  <2> QED  BY <1>1, <2>3, <2>4, EndInv
<1>5. CASE /\ acc' = [acc EXCEPT !.at = "walk", !.level = Levels - 1,
                                 !.table = sptbr.root]
           /\ UNCHANGED res
  <2>1. /\ acc'.at = "walk" /\ acc'.vpn = acc.vpn
        /\ acc'.crosses = acc.crosses /\ acc'.level = Levels - 1
        /\ acc'.table = sptbr.root /\ acc' \in Accs
    <3>1. Levels - 1 \in Below \cup 0 .. Levels - 1
      BY Basics
    <3>2. sptbr.root \in Frames
      BY DEF Inv, Types
    <3> QED  BY <1>1, <1>5, <3>1, <3>2 DEF Accs
  <2>2. Types'
    <3>1. Statuses' = Statuses
      BY <1>1 DEF Statuses
    <3> QED  BY <1>1, <1>5, <2>1, <3>1 DEF Types, Inv
  <2>3. CrossesKnown'
    BY <1>1, <1>5, <2>1 DEF Inv, CrossesKnown
  <2>4. OnPath'
    <3>1. acc'.level \in 0 .. Levels - 1 /\ acc'.level > 0
      BY <2>1, Basics
    <3>2. \A m \in Memories :
             Meaning(m, sptbr.root, acc'.vpn)
                 = LeafFrom(m, acc'.vpn)[acc'.level][acc'.table]
      BY <2>1 DEF Meaning
    <3> QED  BY <1>1, <3>1, <3>2 DEF OnPath
  <2>5. (RootOfSpace /\ Tree /\ PastNow)'
    BY <1>1 DEF Inv, RootOfSpace, Tree, PastNow
  <2>6. (EntriesWereMapped /\ EntriesAccessed /\ AccessedTracked)'
    BY <1>1, <1>5 DEF Inv, EntriesWereMapped, EntriesAccessed, AccessedTracked
  <2> QED  BY <2>2, <2>3, <2>4, <2>5, <2>6 DEF Inv
<1> QED  BY <1>3, <1>4, <1>5, TranslateIs

LEMMA NextInv == TablesTidy /\ Inv /\ [Next]_vars => Inv'
<1> SUFFICES ASSUME TablesTidy, Inv, [Next]_vars  PROVE Inv'
  OBVIOUS
<1>1. CASE Next
  BY <1>1, AccessInv, TranslateInv, WalkInv, WritePteInv, SetStatusInv,
     SetSptbrInv, SfenceVmInv DEF Next
<1>2. CASE UNCHANGED vars
  <2>1. UNCHANGED <<guest, mem, sptbr, status, tlb, acc, res, past, writes>>
    BY <1>2 DEF vars
  <2>2. Types'
    <3>1. Statuses' = Statuses
      BY <2>1 DEF Statuses
    <3> QED  BY <2>1, <3>1 DEF Inv, Types
  <2>3. (CrossesKnown /\ OnPath /\ AccessedTracked)'
    BY <2>1 DEF Inv, CrossesKnown, OnPath, AccessedTracked
  <2>4. (RootOfSpace /\ Tree /\ PastNow)'
    BY <2>1 DEF Inv, RootOfSpace, Tree, PastNow
  <2>5. (EntriesWereMapped /\ EntriesAccessed)'
    BY <2>1 DEF Inv, EntriesWereMapped, EntriesAccessed
  <2> QED  BY <2>2, <2>3, <2>4, <2>5 DEF Inv
<1> QED  BY <1>1, <1>2

LEMMA InvImpliesMmuInv == Inv => MmuInv
<1> SUFFICES ASSUME Inv  PROVE MmuInv
  OBVIOUS
<1>1. TypeOK
  <2>1. ASSUME NEW w \in {"i", "d"}, NEW i \in 0 .. TlbSize - 1
        PROVE  /\ tlb[w][i].asid \in 0 .. AsidLimit /\ tlb[w][i].vpn \in Vpns
               /\ tlb[w][i].ptel \in Below \cup 0 .. Levels - 1
               /\ tlb[w][i].ppn \in Frames
    <3>1. tlb[w][i] \in Entries
      BY DEF Inv, Types
    <3> QED  BY <3>1 DEF Entries
  <2>2. acc.at \in {"idle", "translate", "walk"}
    BY DEF Inv, Types, Accs, Idle
  <2>3. res.how \in {"none", "ok", "fault", "silent"}
    BY DEF Inv, Types, Results, NoResult
  <2> QED  BY <2>1, <2>2, <2>3 DEF TypeOK, Inv, Types, Memories
<1> QED  BY <1>1 DEF MmuInv, Inv

(***************************************************************************)
(* No TLB entry outlives the sfence.vm that was to remove it, and every    *)
(* page that is loaded or fetched from is marked accessed: for every guest *)
(* whose tables have no pointer where the walk does not expect one, any    *)
(* table, TLB, number of address spaces and number of writes.              *)
(***************************************************************************)
THEOREM EntriesAreMapped == TablesTidy => (Spec => []MmuInv)
<1> SUFFICES ASSUME TablesTidy  PROVE Spec => []MmuInv
  OBVIOUS
<1>1. Init => Inv
  BY InitInv
<1>2. Inv /\ [Next]_vars => Inv'
  BY NextInv
<1>3. Inv => MmuInv
  BY InvImpliesMmuInv
<1> QED  BY <1>1, <1>2, <1>3, PTL DEF Spec

(***************************************************************************)
(* Rights.                                                                 *)
(***************************************************************************)
(* What the code denies is what the architecture does not allow, in every  *)
(* mode a guest without MPRV to user mode has.                             *)
LEMMA DeniedIs ==
  ASSUME status \in Statuses, "mprv" \notin guest,
         NEW op \in Accesses, Paged(op),
         NEW perm, "W" \in perm => "R" \in perm
  PROVE  Denied(op, perm, Level(op)) <=> ~Allowed(op, perm)
<1>1. \/ status = Status(U, FALSE, U, FALSE, FALSE, "paged")
      \/ status = Status(S, FALSE, U, FALSE, FALSE, "paged")
      \/ status = Status(S, FALSE, U, TRUE, TRUE, "paged")
      \/ status = Status(S, FALSE, U, FALSE, FALSE, "bare")
      \/ status = Status(M, FALSE, U, FALSE, FALSE, "paged")
      \/ status = Status(M, TRUE, S, FALSE, FALSE, "paged")
  BY DEF Statuses
<1> DEFINE m == status.mode
           mprv == status.mprv
<1>2. /\ m \in {U, S, M} /\ status.mpp \in {U, S}
      /\ mprv \in BOOLEAN /\ status.pum \in BOOLEAN /\ status.mxr \in BOOLEAN
      /\ mprv => m = M /\ status.mpp = S
      /\ m = M => ~status.pum
  <2>1. ASSUME NEW a \in {U, S, M}, NEW b \in BOOLEAN, NEW c \in {U, S},
               NEW d \in BOOLEAN, NEW x \in BOOLEAN, NEW vm,
               status = Status(a, b, c, d, x, vm)
        PROVE  /\ status.mode = a /\ status.mprv = b /\ status.mpp = c
               /\ status.pum = d /\ status.mxr = x
    BY <2>1 DEF Status
  <2>2. TRUE \in BOOLEAN /\ FALSE \in BOOLEAN
    OBVIOUS
  <2>3. U # M /\ S # M
    BY DEF U, S, M
  <2>4. CASE status = Status(U, FALSE, U, FALSE, FALSE, "paged")
    BY <2>1, <2>2, <2>3, <2>4
  <2>5. CASE \/ status = Status(S, FALSE, U, FALSE, FALSE, "paged")
             \/ status = Status(S, FALSE, U, FALSE, FALSE, "bare")
    BY <2>1, <2>2, <2>3, <2>5
  <2>6. CASE status = Status(S, FALSE, U, TRUE, TRUE, "paged")
    BY <2>1, <2>2, <2>3, <2>6
  <2>7. CASE status = Status(M, FALSE, U, FALSE, FALSE, "paged")
    BY <2>1, <2>2, <2>7
  <2>8. CASE status = Status(M, TRUE, S, FALSE, FALSE, "paged")
    BY <2>1, <2>2, <2>8
  <2> QED  BY <1>1, <2>4, <2>5, <2>6, <2>7, <2>8
<1>3. EffectiveMode(op) = IF m = M /\ mprv /\ op # "fetch" THEN S ELSE m
  BY <1>2 DEF EffectiveMode, U, S, M
<1>4. EffectiveMode(op) < M
  BY DEF Paged
<1>5. m = M => mprv /\ op # "fetch" /\ EffectiveMode(op) = S
  BY <1>3, <1>4 DEF M
<1>6. m # M => EffectiveMode(op) = m
  BY <1>3
<1>7. Level(op) = m
  BY <1>2 DEF Level
<1>8. CASE op = "fetch"
  BY <1>2, <1>5, <1>6, <1>7, <1>8 DEF Denied, FetchDenied, Allowed, U, S, M
<1>9. CASE op = "load"
  BY <1>2, <1>5, <1>6, <1>7, <1>9 DEF Denied, LoadDenied, Allowed, U, S, M
<1>10. CASE op = "store"
  BY <1>2, <1>5, <1>6, <1>7, <1>10 DEF Denied, StoreDenied, Allowed, U, S, M
<1>11. CASE op = "amo"
  BY <1>2, <1>5, <1>6, <1>7, <1>11
     DEF Denied, LoadDenied, StoreDenied, Allowed, U, S, M
<1> QED  BY <1>8, <1>9, <1>10, <1>11 DEF Accesses

(* Only tidy guests, and they fetch from one page at a time. *)
LEMMA TidyGuest ==
  ASSUME AccessesTidy, Inv
  PROVE  /\ TablesTidy /\ "mprv" \notin guest
         /\ acc \in Accs => ~acc.crosses
<1>1. TablesTidy
  BY DEF AccessesTidy, TablesTidy
<1>2. "mprv" \notin guest /\ "cross" \notin guest
  BY DEF AccessesTidy, Inv, Types
<1> QED  BY <1>1, <1>2 DEF Inv, CrossesKnown

(* A step that leaves the result alone, or clears it. *)
LEMMA ResultKept ==
  ASSUME \/ res' = NoResult
         \/ UNCHANGED <<res, status, sptbr, past>>
  PROVE  /\ ReachesMappedPage => ReachesMappedPage'
         /\ FaultsOnlyIfDenied => FaultsOnlyIfDenied'
<1>1. CASE res' = NoResult
  BY <1>1 DEF NoResult, ReachesMappedPage, FaultsOnlyIfDenied
<1>2. CASE UNCHANGED <<res, status, sptbr, past>>
  <2>1. ASSUME NEW CONSTANT op, NEW CONSTANT perm
        PROVE  Allowed(op, perm)' <=> Allowed(op, perm)
    BY <1>2 DEF Allowed, EffectiveMode
  <2>2. Reached' = Reached
    BY <1>2 DEF Reached
  <2>3. ReachesMappedPage => ReachesMappedPage'
    BY <1>2, <2>1, <2>2 DEF ReachesMappedPage
  <2>4. FaultsOnlyIfDenied => FaultsOnlyIfDenied'
    BY <1>2, <2>1, <2>2 DEF FaultsOnlyIfDenied
  <2> QED  BY <2>3, <2>4
<1> QED  BY <1>1, <1>2

(* An access that uses what its page is or was mapped to. *)
LEMMA ResultOfMapping ==
  ASSUME Inv, AccessesTidy, acc \in Accs, NEW frame \in Int, NEW perm,
         [frame |-> frame, perm |-> perm] \in past[<<sptbr.asid, acc.vpn>>],
         Finish(frame, {perm}),
         UNCHANGED <<guest, sptbr, status, past>>
  PROVE  ReachesMappedPage' /\ FaultsOnlyIfDenied'
<1>1. /\ res' \in Results /\ res'.op = acc.op /\ res'.vpn = acc.vpn
      /\ res'.crosses = acc.crosses /\ res'.paged = Paged(acc.op)
      /\ res'.how = "ok" =>
            /\ res'.frame = frame /\ FetchedFrames(frame) \subseteq Ram
            /\ ~Denied(acc.op, perm, Level(acc.op))
      /\ res'.how = "fault" =>
            \/ Denied(acc.op, perm, Level(acc.op))
            \/ ~(FetchedFrames(frame) \subseteq Ram)
  BY FinishIs
<1>2. ~acc.crosses /\ "mprv" \notin guest
  BY TidyGuest
<1>3. FetchedFrames(frame) = {frame}
  BY <1>2 DEF FetchedFrames
<1>4. (Reached)' = {<<acc.vpn, res'.frame>>}
  BY <1>1, <1>2 DEF Reached
<1>5. "W" \in perm => "R" \in perm
  <2>1. sptbr.asid \in Asids /\ past \in [Asids \X Vpns -> SUBSET Mappings]
    BY DEF Inv, Types
  <2>2. acc.vpn \in Vpns
    BY DEF Accs
  <2>3. [frame |-> frame, perm |-> perm] \in Mappings
    BY <2>1, <2>2
  <2> QED  BY <2>3 DEF Mappings
<1>6. Paged(acc.op) => (Denied(acc.op, perm, Level(acc.op))
                           <=> ~Allowed(acc.op, perm))
  <2>1. acc.op \in Accesses /\ status \in Statuses
    BY DEF Accs, Inv, Types
  <2> QED  BY <1>2, <1>5, <2>1, DeniedIs
<1>7. ASSUME NEW p  PROVE Allowed(res.op, p)' <=> Allowed(acc.op, p)
  BY <1>1 DEF Allowed, EffectiveMode
<1> DEFINE x == [frame |-> frame, perm |-> perm]
<1>8. x \in past'[<<sptbr'.asid, acc.vpn>>] /\ x.frame = frame /\ x.perm = perm
  OBVIOUS
<1> HIDE DEF x
<1>9. ReachesMappedPage'
  <2> SUFFICES ASSUME res'.how = "ok", res'.paged
               PROVE  \A r \in Reached' :
                         \E m \in past'[<<sptbr'.asid, r[1]>>] :
                            m.frame = r[2] /\ Allowed(res.op, m.perm)'
    BY DEF ReachesMappedPage
  <2>1. Allowed(acc.op, perm) /\ res'.frame = frame
    BY <1>1, <1>6
  <2>2. x.frame = frame /\ Allowed(res.op, x.perm)'
    BY <1>7, <1>8, <2>1
  <2>3. ASSUME NEW r \in Reached'
        PROVE  r[1] = acc.vpn /\ r[2] = frame
    BY <1>4, <2>1
  <2> QED  BY <1>8, <2>2, <2>3
<1>10. FaultsOnlyIfDenied'
  <2> SUFFICES ASSUME res'.how = "fault", res'.paged
               PROVE  \E r \in Reached' :
                         \E m \in past'[<<sptbr'.asid, r[1]>>] :
                            m.frame \notin Ram \/ ~Allowed(res.op, m.perm)'
    BY DEF FaultsOnlyIfDenied
  <2>1. ~Allowed(acc.op, perm) \/ frame \notin Ram
    BY <1>1, <1>3, <1>6
  <2>2. x.frame \notin Ram \/ ~Allowed(res.op, x.perm)'
    BY <1>7, <1>8, <2>1
  <2>3. <<acc.vpn, res'.frame>> \in Reached'
        /\ <<acc.vpn, res'.frame>>[1] = acc.vpn
    BY <1>4
  <2> QED  BY <1>8, <2>2, <2>3
<1> QED  BY <1>9, <1>10

(* A fault of the walk: the page is unmapped. *)
LEMMA ResultOfFault ==
  ASSUME Inv, AccessesTidy, acc \in Accs, Raise,
         UNCHANGED <<guest, sptbr, status, past>>,
         Meaning(mem, sptbr.root, acc.vpn) = Unmapped
  PROVE  ReachesMappedPage' /\ FaultsOnlyIfDenied'
<1>1. res'.how = "fault" /\ res'.vpn = acc.vpn
  BY RaiseIs
<1> DEFINE x == Mapping(mem, sptbr.asid, acc.vpn)
<1>2. x.frame = -1
  BY DEF Mapping, Unmapped, Inv, RootOfSpace
<1>3. x \in past[<<sptbr.asid, acc.vpn>>]
  BY DEF Inv, PastNow, Types, Accs
<1>4. x.frame \notin Ram
  BY <1>2, Basics
<1> HIDE DEF x
<1>5. <<acc.vpn, res'.frame>> \in Reached'
      /\ <<acc.vpn, res'.frame>>[1] = acc.vpn
  BY <1>1 DEF Reached
<1>6. FaultsOnlyIfDenied'
  BY <1>3, <1>4, <1>5 DEF FaultsOnlyIfDenied
<1> QED  BY <1>1, <1>6 DEF ReachesMappedPage

(* The steps of an access, with their results. *)
LEMMA WalkResult ==
  ASSUME Inv, AccessesTidy, Walk
  PROVE  /\ ReachesMappedPage => ReachesMappedPage'
         /\ FaultsOnlyIfDenied => FaultsOnlyIfDenied'
<1>1. /\ acc \in Accs /\ acc.at = "walk"
      /\ UNCHANGED <<guest, sptbr, status, past, writes>>
  BY DEF Walk, Inv, Types, Idle
<1>2. mem \in Memories /\ SameTables(mem, mem)
  BY DEF Inv, Types, SameTables
<1>3. CASE acc.table \notin Ram /\ Raise
  <2>1. Meaning(mem, sptbr.root, acc.vpn) = Unmapped
    <3>1. CASE acc.level \in Below
      BY <1>1, <3>1 DEF Inv, OnPath, Below
    <3>2. CASE acc.level \notin Below
      <4>1. /\ acc.level \in 0 .. Levels - 1
            /\ Meaning(mem, sptbr.root, acc.vpn)
                  = LeafFrom(mem, acc.vpn)[acc.level][acc.table]
        BY <1>1, <1>2, <3>2 DEF Inv, OnPath
      <4>2. acc.level \in Nat /\ acc.vpn \in Vpns /\ acc.table \in Frames
        BY <1>1, <4>1, Basics DEF Accs
      <4>3. LeafFrom(mem, acc.vpn)[acc.level][acc.table] = Unmapped
        BY <1>2, <1>3, <4>2, LeafNone
      <4> QED  BY <4>1, <4>3
    <3> QED  BY <3>1, <3>2
  <2> QED  BY <1>1, <1>3, <2>1, ResultOfFault
<1>4. ASSUME acc.table \in Ram, NEW i \in Indices(acc.level),
             NEW pte, pte = mem[acc.table][i], ~Pointer(pte),
             Reserved(pte) \/ Misaligned(pte, acc.level), Raise
      PROVE  ReachesMappedPage' /\ FaultsOnlyIfDenied'
  <2>1. ~LeafOk(pte, acc.level)
    BY <1>4 DEF LeafOk, Reserved, Misaligned
  <2> DEFINE v == acc.vpn
             l == acc.level
             f == acc.table
  <2>2. /\ v \in Vpns /\ l \in Nat /\ f \in Frames /\ f \in Ram
        /\ pte = mem[f][Index(v, l)]
        /\ Meaning(mem, sptbr.root, v) = LeafFrom(mem, v)[l][f]
    BY <1>1, <1>2, <1>4, WalkAt
  <2>3. ~LeafOk(pte, l)
    BY <2>1
  <2> DEFINE m == mem
  <2>4. m \in Memories /\ pte = m[f][Index(v, l)]
    BY <1>2, <2>2
  <2> HIDE DEF v, l, f, m
  <2>5. LeafFrom(m, v)[l][f] = Unmapped
    BY <1>4, <2>2, <2>3, <2>4, LeafCases
  <2>6. Meaning(mem, sptbr.root, acc.vpn) = Unmapped
    BY <2>2, <2>5 DEF v, m
  <2> QED  BY <1>1, <1>4, <2>6, ResultOfFault
<1>5. ASSUME NEW pte, FollowPointer(pte)
      PROVE  /\ ReachesMappedPage => ReachesMappedPage'
             /\ FaultsOnlyIfDenied => FaultsOnlyIfDenied'
  BY <1>1, <1>5, ResultKept DEF FollowPointer
<1>6. ASSUME acc.table \in Ram, NEW i \in Indices(acc.level),
             NEW pte, pte = mem[acc.table][i], ~Pointer(pte),
             ~Reserved(pte), ~Misaligned(pte, acc.level), UseLeaf(i, pte)
      PROVE  ReachesMappedPage' /\ FaultsOnlyIfDenied'
  <2> DEFINE frame == Offset(pte.ppn, acc.vpn, acc.level)
  <2>1. /\ frame \in Int
        /\ [frame |-> frame, perm |-> pte.perm]
              \in past[<<sptbr.asid, acc.vpn>>]
    BY <1>1, <1>6, LeafFound
  <2>2. NewFlags(pte).perm = pte.perm
    <3>1. pte \in PteSet
      BY <1>1, <1>6, WalkAt
    <3> QED  BY <3>1 DEF NewFlags, PteSet
  <2>3. Finish(frame, {pte.perm})
    BY <1>6, <2>2 DEF UseLeaf
  <2> HIDE DEF frame
  <2> QED  BY <1>1, <2>1, <2>3, ResultOfMapping
<1> QED  BY <1>3, <1>4, <1>5, <1>6 DEF Walk

(* Nobody may do anything with an empty entry. *)
LEMMA EmptyDenies ==
  ASSUME NEW op \in Accesses
  PROVE  Denied(op, {}, Level(op))
BY DEF Denied, FetchDenied, LoadDenied, StoreDenied, Accesses

LEMMA TranslateResult ==
  ASSUME Inv, AccessesTidy, Translate
  PROVE  /\ ReachesMappedPage => ReachesMappedPage'
         /\ AsidLimit \notin Asids =>
               (FaultsOnlyIfDenied => FaultsOnlyIfDenied')
<1>1. acc \in Accs /\ UNCHANGED <<guest, mem, sptbr, status, tlb, past, writes>>
  BY TranslateIs
<1>2. acc.vpn \in Vpns /\ acc.vpn \in Int /\ acc.vpn \in Nat
  <2>1. acc.vpn \in Vpns /\ 0 \in Nat
    BY <1>1 DEF Accs
  <2> QED  BY <2>1, IndexIn
<1>3. CASE ~Paged(acc.op) /\ Finish(acc.vpn, {})
  <2>1. ~res'.paged
    BY <1>1, <1>2, <1>3, FinishIs
  <2> QED  BY <2>1 DEF ReachesMappedPage, FaultsOnlyIfDenied
<1>4. CASE \E e \in Entries :
              /\ e = tlb[WhichTlb(acc.op)][Slot(acc.vpn)]
              /\ e.asid = sptbr.asid /\ e.vpn = acc.vpn
              /\ ~(AdFlags(acc.op) \subseteq e.ad)
              /\ Finish(Offset(e.ppn, acc.vpn, e.ptel), {e.perm})
  <2>1. PICK e \in Entries :
              /\ e = tlb[WhichTlb(acc.op)][Slot(acc.vpn)]
              /\ e.asid = sptbr.asid /\ e.vpn = acc.vpn
              /\ Finish(Offset(e.ppn, acc.vpn, e.ptel), {e.perm})
    BY <1>4
  <2> DEFINE frame == Offset(e.ppn, acc.vpn, e.ptel)
  <2>2. frame \in Int
    BY <1>2, OffsetIn
  <2>3. e.asid \in Asids
    BY <2>1 DEF Inv, Types
  <2>4. CASE e = EmptyEntry
    <3>1. e.perm = {} /\ e.asid = AsidLimit
      BY <2>4 DEF EmptyEntry
    <3>2. AsidLimit \in Asids
      BY <2>3, <3>1
    <3>3. acc.op \in Accesses
      BY <1>1 DEF Accs
    <3>4. res'.how = "ok" => ~Denied(acc.op, e.perm, Level(acc.op))
      BY <1>1, <2>1, <2>2, FinishIs
    <3>5. res'.how # "ok"
      BY <3>1, <3>3, <3>4, EmptyDenies
    <3> QED  BY <3>2, <3>5 DEF ReachesMappedPage
  <2>5. CASE e # EmptyEntry
    <3>1. WhichTlb(acc.op) \in {"i", "d"} /\ Slot(acc.vpn) \in 0 .. TlbSize - 1
      BY <1>2, SoftMmuAssumption DEF WhichTlb, Slot
    <3>2. [frame |-> Offset(e.ppn, e.vpn, e.ptel), perm |-> e.perm]
              \in past[<<e.asid, e.vpn>>]
      BY <2>1, <2>3, <2>5, <3>1 DEF Inv, EntriesWereMapped
    <3>3. [frame |-> frame, perm |-> e.perm] \in past[<<sptbr.asid, acc.vpn>>]
      BY <2>1, <3>2
    <3>4. Finish(frame, {e.perm})
      BY <2>1
    <3> HIDE DEF frame
    <3> QED  BY <1>1, <2>2, <3>3, <3>4, ResultOfMapping
  <2> QED  BY <2>4, <2>5
<1>5. CASE UNCHANGED res
  BY <1>1, <1>5, ResultKept
<1> QED  BY <1>3, <1>4, <1>5, TranslateIs

LEMMA NextResult ==
  ASSUME Inv, AccessesTidy, [Next]_vars
  PROVE  /\ ReachesMappedPage => ReachesMappedPage'
         /\ AsidLimit \notin Asids =>
               (FaultsOnlyIfDenied => FaultsOnlyIfDenied')
<1>1. CASE Access \/ WritePte \/ SetStatus \/ SetSptbr \/ SfenceVm
  <2>1. res' = NoResult
    BY <1>1 DEF Access, WritePte, SetStatus, SetSptbr, SfenceVm
  <2> QED  BY <2>1, ResultKept
<1>2. CASE UNCHANGED vars
  <2>1. UNCHANGED <<res, status, sptbr, past>>
    BY <1>2 DEF vars
  <2> QED  BY <2>1, ResultKept
<1>3. CASE Translate
  BY <1>3, TranslateResult
<1>4. CASE Walk
  BY <1>4, WalkResult
<1> QED  BY <1>1, <1>2, <1>3, <1>4 DEF Next

(***************************************************************************)
(* An access that succeeds reaches a frame its page is or was mapped to    *)
(* since the last sfence.vm, with rights for it: by the TLB or by a walk,  *)
(* in any mode but M with MPRV to U, and for bytes of one page.  With      *)
(* those two, and with unexpected pointers, the code does reach others     *)
(* (counterexamples in README.md), so the condition is the weakest one     *)
(* here.                                                                   *)
(***************************************************************************)
THEOREM AccessesReachMappedPages ==
  AccessesTidy => (Spec => []ReachesMappedPage)
<1> SUFFICES ASSUME AccessesTidy  PROVE Spec => []ReachesMappedPage
  OBVIOUS
<1>1. TablesTidy
  BY DEF AccessesTidy, TablesTidy
<1>2. Init => Inv /\ ReachesMappedPage
  BY <1>1, InitInv DEF Init, NoResult, ReachesMappedPage
<1>3. Inv /\ ReachesMappedPage /\ [Next]_vars => (Inv /\ ReachesMappedPage)'
  BY <1>1, NextInv, NextResult
<1> QED  BY <1>2, <1>3, PTL DEF Spec

(***************************************************************************)
(* An access faults only if its page is or was unmapped, without memory or *)
(* without rights since the last sfence.vm, if no address space has the    *)
(* asid of the TLB's empty entries.                                        *)
(***************************************************************************)
THEOREM FaultsAreDeserved ==
  AccessesTidy /\ AsidLimit \notin Asids => (Spec => []FaultsOnlyIfDenied)
<1> SUFFICES ASSUME AccessesTidy, AsidLimit \notin Asids
             PROVE  Spec => []FaultsOnlyIfDenied
  OBVIOUS
<1>1. TablesTidy
  BY DEF AccessesTidy, TablesTidy
<1>2. Init => Inv /\ FaultsOnlyIfDenied
  BY <1>1, InitInv DEF Init, NoResult, FaultsOnlyIfDenied
<1>3. Inv /\ FaultsOnlyIfDenied /\ [Next]_vars => (Inv /\ FaultsOnlyIfDenied)'
  BY <1>1, NextInv, NextResult
<1> QED  BY <1>2, <1>3, PTL DEF Spec

=============================================================================
