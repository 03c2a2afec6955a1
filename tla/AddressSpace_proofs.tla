------------------------ MODULE AddressSpace_proofs ------------------------
(***************************************************************************)
(* The guest keeps its memory, for every layout of the address space in    *)
(* which the heap stays below the guest's mappings.                        *)
(***************************************************************************)
EXTENDS AddressSpace, TLAPS, NaturalsInduction, WellFoundedInduction

(***************************************************************************)
(* Least and greatest elements.                                            *)
(***************************************************************************)
(* A nonempty set of naturals has a least element. *)
LEMMA NatLeast ==
  ASSUME NEW T \in SUBSET Nat, T # {}
  PROVE  \E x \in T : \A y \in T : x <= y
<1>1. PICK x \in T : \A y \in T : ~ (<<y, x>> \in OpToRel(<, Nat))
  BY NatLessThanWellFounded, WFMin
<1>2. ASSUME NEW y \in T, y < x  PROVE FALSE
  <2>1. <<y, x>> \in OpToRel(<, Nat)
    BY <1>2 DEF OpToRel
  <2> QED  BY <1>1, <2>1
<1> QED  BY <1>2

(* A nonempty set of naturals below a bound has a greatest element: what    *)
(* the inductions along the bitmap descend from.                            *)
LEMMA NatGreatest ==
  ASSUME NEW hi \in Nat, NEW T \in SUBSET (0 .. hi), T # {}
  PROVE  \E x \in T : \A y \in T : y <= x
<1> DEFINE U == {hi - x : x \in T}
<1>1. U \subseteq Nat /\ U # {}
  <2>1. PICK x \in T : TRUE
    OBVIOUS
  <2>2. hi - x \in U
    OBVIOUS
  <2> QED  BY <2>2
<1>2. PICK u \in U : \A v \in U : u <= v
  <2> HIDE DEF U
  <2> QED  BY <1>1, NatLeast
<1>3. PICK x \in T : u = hi - x
  OBVIOUS
<1>4. \A y \in T : hi - x <= hi - y
  BY <1>2, <1>3
<1>5. \A y \in T : y <= x
  BY <1>4
<1> QED  BY <1>5

(***************************************************************************)
(* find_free.                                                              *)
(***************************************************************************)
(* FreeRun(p, end) free pages begin at p, and the next one is used or the   *)
(* end: what the inner loop of find_free counts.                            *)
LEMMA FreeRunCounts ==
  ASSUME NEW end \in Nat, NEW p \in 0 .. end
  PROVE  /\ FreeRun(p, end) \in 0 .. end - p
         /\ \A x \in p .. p + FreeRun(p, end) - 1 : x \notin used
         /\ p + FreeRun(p, end) < end => p + FreeRun(p, end) \in used
<1> DEFINE Body(g) == [q \in p .. end |-> IF q < end /\ q \notin used
                                          THEN 1 + g[q + 1] ELSE 0]
           Stops(q) == {x \in q .. end : x = end \/ x \in used}
           Stop(q) == CHOOSE x \in Stops(q) : \A y \in Stops(q) : x <= y
           Dist == [q \in p .. end |-> Stop(q) - q]
<1>1. ASSUME NEW q \in p .. end
      PROVE  /\ Stop(q) \in q .. end
             /\ Stop(q) = end \/ Stop(q) \in used
             /\ \A y \in Stops(q) : Stop(q) <= y
  <2>1. Stops(q) \in SUBSET Nat /\ Stops(q) # {}
    OBVIOUS
  <2>2. \E x \in Stops(q) : \A y \in Stops(q) : x <= y
    <3> HIDE DEF Stops
    <3> QED  BY <2>1, NatLeast
  <2>3. Stop(q) \in Stops(q) /\ \A y \in Stops(q) : Stop(q) <= y
    <3> HIDE DEF Stops
    <3> QED  BY <2>2
  <2> QED  BY <2>3
<1>2. ASSUME NEW q \in p .. end, q < end, q \notin used
      PROVE  Stop(q) = Stop(q + 1)
  <2>1. Stops(q) = Stops(q + 1)
    BY <1>2
  <2> QED  BY <2>1
<1>3. Dist = Body(Dist)
  <2>1. ASSUME NEW q \in p .. end
        PROVE  Dist[q] = IF q < end /\ q \notin used
                         THEN 1 + Dist[q + 1] ELSE 0
    <3>1. CASE q < end /\ q \notin used
      <4>1. Stop(q) = Stop(q + 1) /\ q + 1 \in p .. end
        BY <1>2, <3>1
      <4>2. Stop(q) \in Int
        BY <1>1
      <4>3. Dist[q] = Stop(q) - q /\ Dist[q + 1] = Stop(q + 1) - (q + 1)
        <5> HIDE DEF Stop
        <5> QED  BY <4>1
      <4> HIDE DEF Dist, Stop
      <4> QED  BY <3>1, <4>1, <4>2, <4>3
    <3>2. CASE ~(q < end /\ q \notin used)
      <4>1. q \in Stops(q)
        BY <3>2
      <4>2. Stop(q) = q
        <5> HIDE DEF Stop
        <5> QED  BY <1>1, <4>1
      <4> QED  BY <3>2, <4>2
    <3> QED  BY <3>1, <3>2
  <2> HIDE DEF Stop, Stops
  <2> QED  BY <2>1
<1> DEFINE Run == CHOOSE g : g = Body(g)
<1>4. Run = Body(Run)
  <2> HIDE DEF Body, Dist
  <2> QED  BY <1>3
<1>5. FreeRun(p, end) = Run[p]
  BY DEF FreeRun, page_present
<1> DEFINE Good(q) == /\ Run[q] \in 0 .. end - q
                      /\ \A x \in q .. q + Run[q] - 1 : x \notin used
                      /\ q + Run[q] < end => q + Run[q] \in used
           Bad == {q \in p .. end : ~Good(q)}
<1>6. ASSUME NEW q \in p .. end, q + 1 \in p .. end => Good(q + 1)
      PROVE  Good(q)
  <2>1. Run[q] = IF q < end /\ q \notin used THEN 1 + Run[q + 1] ELSE 0
    <3> HIDE DEF Run
    <3> QED  BY <1>4
  <2> HIDE DEF Run
  <2>2. CASE q < end /\ q \notin used
    <3>1. Good(q + 1) /\ Run[q] = 1 + Run[q + 1]
      BY <1>6, <2>1, <2>2
    <3> QED  BY <3>1, <2>2
  <2> QED  BY <2>1, <2>2
<1>7. Bad = {}
  <2>1. SUFFICES ASSUME Bad # {}  PROVE FALSE
    OBVIOUS
  <2>2. Bad \in SUBSET (0 .. end)
    OBVIOUS
  <2>3. PICK q \in Bad : \A y \in Bad : y <= q
    <3> HIDE DEF Bad
    <3> QED  BY <2>1, <2>2, NatGreatest
  <2>4. q \in p .. end /\ ~Good(q)
    OBVIOUS
  <2>5. q + 1 \in p .. end => Good(q + 1)
    <3> HIDE DEF Good
    <3> QED  BY <2>3, <2>4
  <2> HIDE DEF Good
  <2> QED  BY <1>6, <2>4, <2>5
<1>8. Good(p)
  <2> HIDE DEF Good
  <2> QED  BY <1>7
<1> QED  BY <1>5, <1>8

(* A free range of len pages with a page to spare, below end. *)
Spare(s, end, len) == s + len < end /\ \A x \in s .. s + len : x \notin used

(* The outer loop: when the run at p is too short, no range that begins in  *)
(* it, or at the used page behind it, is free.                              *)
LEMMA RunTooShort ==
  ASSUME NEW end \in Nat, NEW p \in 0 .. end, NEW len \in Nat \ {0},
         NEW run, run = FreeRun(p, end)
  PROVE  /\ run \in 0 .. end - p
         /\ p < end /\ Fits(run, len) => Spare(p, end, len)
         /\ ~Fits(run, len) =>
               \A s \in p .. p + run : ~Spare(s, end, len)
<1>1. /\ run \in 0 .. end - p
      /\ \A x \in p .. p + run - 1 : x \notin used
      /\ p + run < end => p + run \in used
  BY FreeRunCounts
<1>2. ASSUME ~Fits(run, len), NEW s \in p .. p + run, Spare(s, end, len)
      PROVE  FALSE
  <2>1. p + run \in s .. s + len
    BY <1>1, <1>2 DEF Fits
  <2>2. p + run < end
    BY <1>1, <1>2, <2>1 DEF Spare
  <2> QED  BY <1>1, <1>2, <2>1, <2>2 DEF Spare
<1> QED  BY <1>1, <1>2 DEF Fits, Spare

(* find_free returns the lowest spare range, or 0 if there is none. *)
LEMMA FindFreeIsFirst ==
  ASSUME NEW start \in Nat \ {0}, NEW end \in Nat, start <= end,
         NEW len \in Nat \ {0}
  PROVE  \/ /\ find_free(start, end, len) = 0
            /\ \A s \in start .. end - 1 : ~Spare(s, end, len)
         \/ /\ find_free(start, end, len) \in start .. end - 1
            /\ Spare(find_free(start, end, len), end, len)
            /\ \A s \in start .. find_free(start, end, len) - 1 :
                  ~Spare(s, end, len)
<1> DEFINE Next1(p) == p + FreeRun(p, end) + 1
           Body(g) == [p \in start .. end + 1 |->
                         IF p >= end THEN 0
                         ELSE IF Fits(FreeRun(p, end), len)
                              THEN p ELSE g[Next1(p)]]
           From(p) == {s \in p .. end - 1 : Spare(s, end, len)}
           Lowest(p) == CHOOSE x \in From(p) : \A y \in From(p) : x <= y
           First == [p \in start .. end + 1 |->
                       IF From(p) = {} THEN 0 ELSE Lowest(p)]
<1>1. ASSUME NEW p \in start .. end + 1, From(p) # {}
      PROVE  Lowest(p) \in From(p) /\ \A y \in From(p) : Lowest(p) <= y
  <2>1. From(p) \in SUBSET Nat
    OBVIOUS
  <2>2. \E x \in From(p) : \A y \in From(p) : x <= y
    <3> HIDE DEF From
    <3> QED  BY <1>1, <2>1, NatLeast
  <2> HIDE DEF From
  <2> QED  BY <2>2
<1>2. ASSUME NEW p \in start .. end + 1, p < end
      PROVE  /\ Fits(FreeRun(p, end), len) => p \in From(p)
             /\ ~Fits(FreeRun(p, end), len) => From(p) = From(Next1(p))
             /\ Next1(p) \in p + 1 .. end + 1
  <2> DEFINE run == FreeRun(p, end)
  <2>1. /\ run \in 0 .. end - p
        /\ p < end /\ Fits(run, len) => Spare(p, end, len)
        /\ ~Fits(run, len) => \A s \in p .. p + run : ~Spare(s, end, len)
    <3>1. p \in 0 .. end
      BY <1>2
    <3> QED  BY <3>1, RunTooShort
  <2> HIDE DEF run
  <2> USE DEF run
  <2>2. ASSUME ~Fits(run, len)  PROVE From(p) = From(p + run + 1)
    <3> HIDE DEF run
    <3>1. \A s \in p .. end - 1 : Spare(s, end, len) => s \in p + run + 1 .. end - 1
      BY <2>1, <2>2
    <3>2. \A s \in p + run + 1 .. end - 1 : s \in p .. end - 1
      BY <2>1
    <3> QED  BY <3>1, <3>2
  <2>3. Fits(run, len) => p \in From(p)
    BY <1>2, <2>1
  <2>4. p + run + 1 \in p + 1 .. end + 1
    <3> HIDE DEF run
    <3> QED  BY <2>1
  <2> HIDE DEF From
  <2> QED  BY <2>2, <2>3, <2>4
<1>3. ASSUME NEW p \in start .. end + 1
      PROVE  First[p] = IF p >= end THEN 0
                        ELSE IF Fits(FreeRun(p, end), len)
                             THEN p ELSE First[Next1(p)]
  <2>1. CASE p >= end
    <3>1. From(p) = {}
      BY <2>1
    <3> HIDE DEF From, Lowest
    <3> QED  BY <2>1, <3>1
  <2>2. CASE p < end /\ Fits(FreeRun(p, end), len)
    <3>1. p \in From(p)
      BY <1>2, <2>2
    <3>2. \A y \in From(p) : p <= y
      OBVIOUS
    <3>3. From(p) \subseteq Nat
      OBVIOUS
    <3>4. Lowest(p) = p
      <4> HIDE DEF From, Lowest
      <4> QED  BY <1>1, <3>1, <3>2, <3>3
    <3> HIDE DEF From, Lowest
    <3> QED  BY <2>2, <3>1, <3>4
  <2>3. CASE p < end /\ ~Fits(FreeRun(p, end), len)
    <3>1. From(p) = From(Next1(p)) /\ Next1(p) \in start .. end + 1
      BY <1>2, <2>3
    <3>2. Lowest(p) = Lowest(Next1(p))
      <4> HIDE DEF From, Next1
      <4> QED  BY <3>1
    <3> HIDE DEF From, Lowest, Next1
    <3> QED  BY <2>3, <3>1, <3>2
  <2> HIDE DEF First, Next1
  <2> QED  BY <2>1, <2>2, <2>3
<1>4. First = Body(First)
  <2> HIDE DEF From, Lowest
  <2> QED  BY <1>3
<1> DEFINE Scan == CHOOSE g : g = Body(g)
<1>5. Scan = Body(Scan)
  <2> HIDE DEF Body, First
  <2> QED  BY <1>4
<1>6. find_free(start, end, len) = Scan[start]
  BY DEF find_free
<1> DEFINE Bad == {p \in start .. end + 1 : Scan[p] # First[p]}
<1>7. ASSUME NEW p \in start .. end + 1,
             \A q \in p + 1 .. end + 1 : Scan[q] = First[q]
      PROVE  Scan[p] = First[p]
  <2>1. Scan[p] = IF p >= end THEN 0
                  ELSE IF Fits(FreeRun(p, end), len)
                       THEN p ELSE Scan[Next1(p)]
    <3> HIDE DEF Scan, Next1
    <3> QED  BY <1>5
  <2>2. p < end => Scan[Next1(p)] = First[Next1(p)]
    <3> HIDE DEF Scan, First, Next1
    <3> QED  BY <1>2, <1>7
  <2> HIDE DEF Scan, First, Next1
  <2> QED  BY <1>3, <2>1, <2>2
<1>8. Bad = {}
  <2>1. SUFFICES ASSUME Bad # {}  PROVE FALSE
    OBVIOUS
  <2>2. Bad \in SUBSET (0 .. end + 1) /\ end + 1 \in Nat
    <3> HIDE DEF Scan, First
    <3> QED  OBVIOUS
  <2>3. PICK q \in Bad : \A y \in Bad : y <= q
    <3> HIDE DEF Bad
    <3> QED  BY <2>1, <2>2, NatGreatest
  <2> HIDE DEF Scan, First
  <2>4. \A y \in q + 1 .. end + 1 : y \notin Bad /\ y \in start .. end + 1
    BY <2>3
  <2> QED  BY <1>7, <2>3, <2>4
<1>9. Scan[start] = First[start]
  <2> HIDE DEF Scan, First
  <2> QED  BY <1>8
<1>10. Scan[start] = IF From(start) = {} THEN 0 ELSE Lowest(start)
  <2> HIDE DEF Scan, From, Lowest
  <2> QED  BY <1>9
<1>11. CASE From(start) = {}
  <2>1. Scan[start] = 0
    <3> HIDE DEF Scan, From, Lowest
    <3> QED  BY <1>10, <1>11
  <2> HIDE DEF Scan
  <2> QED  BY <1>6, <1>11, <2>1
<1>12. CASE From(start) # {}
  <2> DEFINE r == Lowest(start)
  <2>1. Scan[start] = r
    <3> HIDE DEF Scan, From, Lowest
    <3> QED  BY <1>10, <1>12
  <2>2. r \in From(start) /\ \A y \in From(start) : r <= y
    BY <1>1, <1>12
  <2> HIDE DEF Scan, r
  <2>3. r \in start .. end - 1 /\ Spare(r, end, len)
    BY <2>2
  <2>4. \A s \in start .. r - 1 : ~Spare(s, end, len)
    BY <2>2, <2>3
  <2> QED  BY <1>6, <2>1, <2>3, <2>4
<1> QED  BY <1>11, <1>12

-----------------------------------------------------------------------------
(***************************************************************************)
(* The invariant.  Apart is what the guest and the host must observe: its  *)
(* break stays below GUEST_MMAP_BASE, and the addresses it asks for do not *)
(* (the README shows what happens otherwise).                              *)
(***************************************************************************)
Apart ==
    /\ MaxBrk <= Unit * GuestBase
    /\ Hints \subseteq GuestBase .. Top

(* Types, and bounds that TypeOK leaves out: no page has an owner yet to come. *)
Bounded ==
    /\ TypeOK
    /\ maps \in Heap .. Heap + MaxMaps
    /\ last \in [len : Nat, ret : Int]
    /\ \A p \in Pages : kernel[p] <= maps

(* The heap is what brk has mapped, whole but for what the guest unmaps     *)
(* with a mapping at 0; behind it, up to the mappings, nothing is mapped,    *)
(* and the guest takes no page of the mappings' part for its heap.           *)
HeapWhole ==
    /\ heap_end <= GuestBase
    /\ \A p \in Pages : kernel[p] = Heap => p \in HeapBegin .. heap_end - 1
    /\ \A p \in HeapBegin .. heap_end - 1 :
          kernel[p] = Heap \/ (p < nought /\ kernel[p] = None)
    /\ \A p \in heap_end .. GuestBase - 1 : kernel[p] = None
    /\ \A p \in Pages : p >= GuestBase => Heap \notin view[p]

(* What the guest may take a page for. *)
Believed(p) == {kernel[p]} \cup IF p >= heap_end THEN {Heap} ELSE {}

Inv ==
    /\ Bounded /\ HeapWhole /\ BitmapAgrees
    /\ GuestKeepsItsMemory /\ FirstFit /\ SliceEndReadable

(* The constants as numbers. *)
LEMMA Layout ==
    /\ Top \in Nat /\ HeapBegin \in Nat /\ GuestBase \in Nat
    /\ StackBegin \in Nat /\ MemoryTop \in Nat /\ HostBase \in Nat
    /\ MaxLen \in Nat /\ MaxBrk \in Nat /\ MaxMaps \in Nat
    /\ 0 < HeapBegin /\ HeapBegin <= GuestBase /\ GuestBase <= StackBegin
    /\ StackBegin < MemoryTop /\ MemoryTop <= HostBase /\ HostBase <= Top
BY AddressSpaceAssumption DEF AddressSpaceAssumption

LEMMA InitInv == Init => Inv
<1> SUFFICES ASSUME Init  PROVE Inv
  OBVIOUS
<1> USE Layout DEF Init, Pages, Unit, None, Elf, Stack, Heap
<1>1. \A p \in Pages : /\ kernel[p] \in {None, Elf, Stack}
                       /\ p \in HeapBegin .. StackBegin - 1 => kernel[p] = None
  BY DEF Boot
<1>2. kernel \in [Pages -> 0 .. Heap + MaxMaps]
  BY <1>1 DEF Boot
<1>3. view \in [Pages -> SUBSET (1 .. Heap + MaxMaps)]
  BY <1>1
<1>4. Bounded
  <2>1. heap_end \in HeapBegin .. Top /\ brk \in 0 .. Unit * heap_end
    OBVIOUS
  <2>2. used \subseteq Pages /\ stores \subseteq Pages /\ crashed \in BOOLEAN
    OBVIOUS
  <2>3. maps \in Heap .. Heap + MaxMaps /\ last \in [len : Nat, ret : Int]
    BY DEF NoCall, MAP_FAILED
  <2>4. \A p \in Pages : kernel[p] <= maps
    BY <1>1
  <2>5. nought \in 0 .. MaxLen
    OBVIOUS
  <2> HIDE DEF Init
  <2> QED  BY <1>2, <1>3, <2>1, <2>2, <2>3, <2>4, <2>5 DEF Bounded, TypeOK
<1>5. HeapWhole
  BY <1>1 DEF HeapWhole
<1>6. BitmapAgrees /\ GuestKeepsItsMemory /\ SliceEndReadable
  BY <1>1 DEF BitmapAgrees, GuestKeepsItsMemory, SliceEndReadable
<1>7. FirstFit
  BY DEF FirstFit, NoCall, MAP_FAILED
<1> QED  BY <1>4, <1>5, <1>6, <1>7 DEF Inv

(***************************************************************************)
(* mmap.                                                                   *)
(***************************************************************************)
(* A page above the heap's part that the bitmap has free is unmapped. *)
LEMMA FreeIsUnmapped ==
  ASSUME Inv, NEW p \in Pages, p >= GuestBase
  PROVE  p \notin used <=> kernel[p] = None
<1>1. kernel[p] # Heap
  BY Layout DEF Inv, HeapWhole, Bounded, TypeOK
<1> QED  BY <1>1 DEF Inv, BitmapAgrees

(* Where the kernel puts a mapping of guest_mmap: pages of the guest above  *)
(* the heap's part, unmapped unless the guest has asked for MAP_FIXED.      *)
LEMMA PlacedApart ==
  ASSUME Inv, Apart, NEW a \in Hints \cup {0}, NEW len \in 1 .. MaxLen,
         NEW fixed \in BOOLEAN, fixed => a # 0, a + len <= HostBase,
         NEW at, at = IF a = 0 THEN find_free(GuestBase, HostBase, len) ELSE a,
         at # 0, NEW b \in Placements(at, len, fixed \/ a = 0)
  PROVE  /\ b \in GuestBase .. Top - len
         /\ Span(b, len) \subseteq Pages
         /\ ~fixed => \A p \in Span(b, len) : kernel[p] = None
         /\ a = 0 => b = at /\ Spare(b, HostBase, len)
                     /\ \A s \in GuestBase .. b - 1 : ~Spare(s, HostBase, len)
<1> USE Layout
<1>1. CASE a = 0
  <2>1. /\ at \in GuestBase .. HostBase - 1
        /\ Spare(at, HostBase, len)
        /\ \A s \in GuestBase .. at - 1 : ~Spare(s, HostBase, len)
    <3>1. GuestBase \in Nat \ {0} /\ HostBase \in Nat /\ GuestBase <= HostBase
          /\ len \in Nat \ {0}
      OBVIOUS
    <3>2. at = find_free(GuestBase, HostBase, len)
      BY <1>1
    <3> HIDE Layout
    <3> QED  BY <3>1, <3>2, FindFreeIsFirst
  <2>2. b = at
    BY <1>1 DEF Placements
  <2>3. \A p \in Span(b, len) : p \in Pages /\ p >= GuestBase /\ p \notin used
    BY <2>1, <2>2 DEF Span, Spare, Pages
  <2>4. \A p \in Span(b, len) : kernel[p] = None
    BY <2>3, FreeIsUnmapped
  <2>5. b + len < HostBase
    BY <2>1, <2>2 DEF Spare
  <2> QED  BY <2>1, <2>2, <2>3, <2>4, <2>5, <1>1
<1>2. CASE a # 0
  <2>1. a \in GuestBase .. Top /\ at = a
    BY <1>2 DEF Apart
  <2>2. CASE fixed \/ \A p \in Span(at, len) : kernel[p] = None
    <3>1. b = at
      BY <2>2 DEF Placements
    <3> QED  BY <1>2, <2>1, <2>2, <3>1 DEF Span, Pages
  <2>3. CASE ~(fixed \/ \A p \in Span(at, len) : kernel[p] = None)
    <3>1. b \in HostBase .. Top - len /\ \A p \in Span(b, len) : kernel[p] = None
      BY <1>2, <2>3 DEF Placements
    <3> QED  BY <1>2, <3>1 DEF Span, Pages
  <2> QED  BY <2>2, <2>3
<1> QED  BY <1>1, <1>2

(* A mapping is made: every part of the invariant but FirstFit. *)
LEMMA MappedInv ==
  ASSUME Inv, Apart, NEW a \in Hints \cup {0}, NEW len \in 1 .. MaxLen,
         NEW fixed \in BOOLEAN, NEW b \in GuestBase .. Top - len,
         maps < Heap + MaxMaps,
         Span(b, len) \subseteq Pages,
         ~fixed => \A p \in Span(b, len) : kernel[p] = None,
         Mapped(a, len, fixed, b), UNCHANGED <<heap, slice>>
  PROVE  /\ Bounded' /\ HeapWhole' /\ BitmapAgrees'
         /\ GuestKeepsItsMemory' /\ SliceEndReadable'
<1> USE Layout DEF None, Elf, Stack, Heap
<1> DEFINE id == maps + 1
<1>1. /\ maps \in Heap .. Heap + MaxMaps - 1 /\ id \in 4 .. Heap + MaxMaps
      /\ maps' = id
  BY DEF Inv, Bounded, Mapped
<1>2. \A p \in Pages : /\ p \in Span(b, len) => kernel'[p] = id
                       /\ p \notin Span(b, len) => kernel'[p] = kernel[p]
  BY DEF Mapped
<1>3. \A p \in Pages :
        /\ p \in Span(b, len) /\ fixed => view'[p] = {id}
        /\ p \in Span(b, len) /\ ~fixed => view'[p] = {id} \cup view[p]
        /\ p \notin Span(b, len) => view'[p] = view[p]
  BY DEF Mapped
<1>4. used' = used \cup Span(b, len)
  BY DEF Mapped, mark_used
<1>5. \A p \in Span(b, len) : p >= GuestBase
  BY DEF Span
<1>6. \A p \in Pages : kernel[p] \in 0 .. Heap + MaxMaps /\ kernel[p] <= maps
  BY DEF Inv, Bounded, TypeOK
<1>7. \A p \in Pages : /\ view[p] \in SUBSET (1 .. Heap + MaxMaps)
                       /\ p >= nought => view[p] \subseteq Believed(p)
                       /\ p >= GuestBase => Heap \notin view[p]
  BY DEF Inv, Bounded, TypeOK, GuestKeepsItsMemory, Believed, HeapWhole
<1> DEFINE held == nought
<1>13. nought' = held /\ held \in 0 .. MaxLen
  BY DEF Mapped, Inv, Bounded, TypeOK
<1>8. Bounded'
  <2>1. kernel' \in [Pages -> 0 .. Heap + MaxMaps]
    <3>1. kernel' = [p \in Pages |-> kernel'[p]]
      BY DEF Mapped
    <3>2. \A p \in Pages : kernel'[p] \in 0 .. Heap + MaxMaps
      BY <1>1, <1>2, <1>6
    <3> QED  BY <3>1, <3>2
  <2>2. view' \in [Pages -> SUBSET (1 .. Heap + MaxMaps)]
    <3>1. view' = [p \in Pages |-> view'[p]]
      BY DEF Mapped
    <3>2. \A p \in Pages : view'[p] \in SUBSET (1 .. Heap + MaxMaps)
      BY <1>1, <1>3, <1>7
    <3> QED  BY <3>1, <3>2
  <2>3. \A p \in Pages : kernel'[p] <= id
    BY <1>1, <1>2, <1>6
  <2>4. last' \in [len : Nat, ret : Int]
    BY DEF Mapped, NoCall, MAP_FAILED
  <2>5. used' \subseteq Pages
    BY <1>4 DEF Inv, Bounded, TypeOK
  <2>6. /\ heap_end' \in HeapBegin .. Top /\ brk' \in 0 .. Unit * heap_end'
        /\ stores' \subseteq Pages /\ crashed' \in BOOLEAN
    BY DEF Inv, Bounded, TypeOK, heap, slice
  <2> QED  BY <1>1, <1>13, <2>1, <2>2, <2>3, <2>4, <2>5, <2>6 DEF Bounded, TypeOK
<1>9. HeapWhole'
  <2>1. heap_end' = heap_end /\ heap_end \in Nat /\ HeapWhole
    BY DEF heap, Inv, Bounded, TypeOK
  <2>2. \A p \in heap_end .. GuestBase - 1 : p \in Pages /\ p \notin Span(b, len)
    BY <2>1, <1>5 DEF Pages
  <2>3. \A p \in heap_end .. GuestBase - 1 : kernel'[p] = None
    BY <1>2, <2>1, <2>2 DEF HeapWhole
  <2>4. \A p \in Pages : kernel'[p] = Heap => p \in HeapBegin .. heap_end - 1
    BY <1>1, <1>2, <1>5, <2>1 DEF HeapWhole
  <2>5. \A p \in HeapBegin .. heap_end - 1 :
          kernel'[p] = Heap \/ (p < held /\ kernel'[p] = None)
    <3> SUFFICES ASSUME NEW p \in HeapBegin .. heap_end - 1
                 PROVE kernel'[p] = Heap \/ (p < held /\ kernel'[p] = None)
      OBVIOUS
    <3>1. p \in Pages /\ p \notin Span(b, len)
      BY <2>1, <1>5 DEF Pages, HeapWhole
    <3> QED  BY <1>2, <2>1, <3>1 DEF HeapWhole
  <2>6. \A p \in Pages : p >= GuestBase => Heap \notin view'[p]
    BY <1>1, <1>3, <1>7
  <2> QED  BY <1>13, <2>1, <2>3, <2>4, <2>5, <2>6 DEF HeapWhole
<1>10. BitmapAgrees'
  BY <1>1, <1>2, <1>4 DEF Inv, BitmapAgrees
<1>11. GuestKeepsItsMemory'
  <2>1. ASSUME NEW p \in Pages, p >= held
        PROVE view'[p] \subseteq {kernel'[p]} \cup IF p >= heap_end THEN {Heap} ELSE {}
    <3>1. CASE p \in Span(b, len) /\ ~fixed
      <4>1. view[p] = {}
        BY <1>5, <1>7, <2>1, <3>1 DEF Believed
      <4> QED  BY <1>2, <1>3, <3>1, <4>1
    <3>2. CASE p \in Span(b, len) /\ fixed
      BY <1>2, <1>3, <3>2
    <3>3. CASE p \notin Span(b, len)
      BY <1>2, <1>3, <1>7, <2>1, <3>3 DEF Believed
    <3> QED  BY <3>1, <3>2, <3>3
  <2> QED  BY <1>13, <2>1 DEF GuestKeepsItsMemory, heap
<1>12. SliceEndReadable'
  BY <1>1, <1>2, <1>13 DEF Inv, SliceEndReadable, slice, Bounded, TypeOK
<1> QED  BY <1>8, <1>9, <1>10, <1>11, <1>12

(* The mapping that guest_mmap makes at an address of its own choice is the *)
(* lowest one with a page to spare, seen in the kernel after it was made.   *)
LEMMA MappedFirst ==
  ASSUME Inv, NEW a \in Hints \cup {0}, NEW len \in 1 .. MaxLen,
         NEW fixed \in BOOLEAN, NEW b \in GuestBase .. Top - len,
         Span(b, len) \subseteq Pages,
         a = 0 => /\ Spare(b, HostBase, len)
                  /\ \A s \in GuestBase .. b - 1 : ~Spare(s, HostBase, len),
         Mapped(a, len, fixed, b)
  PROVE  FirstFit'
<1> USE Layout
<1>1. CASE a # 0
  <2>1. last'.ret = -1
    BY <1>1 DEF Mapped, NoCall, MAP_FAILED
  <2> QED  BY <2>1 DEF FirstFit
<1>2. CASE a = 0
  <2>1. last'.ret = b /\ last'.len = len /\ b > 0 /\ maps' = maps + 1
    BY <1>2 DEF Mapped
  <2> DEFINE fits == {s \in GuestBase .. HostBase - 1 :
                        /\ s + len < HostBase
                        /\ \A p \in s .. s + len :
                              \/ kernel'[p] = None
                              \/ last'.ret > 0 /\ kernel'[p] = maps'}
  <2>2. \A p \in Pages : p >= GuestBase =>
          (p \notin used <=> kernel'[p] = None \/ kernel'[p] = maps')
    <3> SUFFICES ASSUME NEW p \in Pages, p >= GuestBase
                 PROVE p \notin used <=> kernel'[p] = None \/ kernel'[p] = maps'
      OBVIOUS
    <3>1. p \notin used <=> kernel[p] = None
      BY FreeIsUnmapped
    <3>2. kernel[p] # maps + 1
      BY DEF Inv, Bounded, TypeOK, Heap
    <3>3. CASE p \in Span(b, len)
      <4>1. p \notin used
        BY <1>2, <3>3 DEF Spare, Span
      <4> QED  BY <3>3, <4>1 DEF Mapped
    <3>4. CASE p \notin Span(b, len)
      <4>1. kernel'[p] = kernel[p]
        BY <3>4 DEF Mapped
      <4> QED  BY <2>1, <3>1, <3>2, <4>1
    <3> QED  BY <3>3, <3>4
  <2>3. \A s \in GuestBase .. HostBase - 1 :
          s \in fits <=> Spare(s, HostBase, len)
    <3> SUFFICES ASSUME NEW s \in GuestBase .. HostBase - 1
                 PROVE s \in fits <=> Spare(s, HostBase, len)
      OBVIOUS
    <3>1. s + len < HostBase =>
            \A p \in s .. s + len : p \in Pages /\ p >= GuestBase
      BY DEF Pages
    <3> QED  BY <2>1, <2>2, <3>1 DEF Spare
  <2>4. b \in GuestBase .. HostBase - 1 /\ Spare(b, HostBase, len)
    BY <1>2 DEF Spare
  <2>5. b \in fits
    <3> HIDE DEF fits
    <3> QED  BY <2>3, <2>4
  <2>6. \A s \in fits : b <= s
    <3> SUFFICES ASSUME NEW s \in fits, s < b  PROVE FALSE
      BY <2>4
    <3>1. s \in GuestBase .. b - 1
      OBVIOUS
    <3>2. Spare(s, HostBase, len)
      <4>1. s \in GuestBase .. HostBase - 1
        OBVIOUS
      <4> HIDE DEF fits
      <4> QED  BY <2>3, <4>1
    <3> QED  BY <1>2, <3>1, <3>2
  <2>7. b = Min(fits)
    <3>1. fits \subseteq Int
      OBVIOUS
    <3> HIDE DEF fits
    <3>2. Min(fits) \in fits /\ \A y \in fits : Min(fits) <= y
      BY <2>5, <2>6 DEF Min
    <3> DEFINE m == Min(fits)
    <3>3. m \in fits /\ \A y \in fits : m <= y
      BY <3>2
    <3> HIDE DEF m
    <3>4. b \in Int /\ m \in Int /\ b <= m /\ m <= b
      BY <2>5, <2>6, <3>1, <3>3
    <3>5. b = m
      BY <3>4
    <3> QED  BY <3>5 DEF m
  <2>8. fits = {s \in GuestBase .. HostBase - 1 :
                   /\ s + last'.len < HostBase
                   /\ \A p \in s .. s + last'.len :
                         \/ kernel'[p] = None
                         \/ last'.ret > 0 /\ kernel'[p] = maps'}
    BY <2>1
  <2>9. b # 0
    BY <2>1
  <2> HIDE DEF fits
  <2> QED  BY <2>1, <2>7, <2>8, <2>9 DEF FirstFit
<1> QED  BY <1>1, <1>2

(* guest_mmap answers 0 only if no range is free with a page to spare. *)
LEMMA AnswerFirst ==
  ASSUME Inv, NEW len \in 1 .. MaxLen,
         find_free(GuestBase, HostBase, len) = 0, AnswerZero(len)
  PROVE  FirstFit'
<1> USE Layout
<1>1. \A s \in GuestBase .. HostBase - 1 : ~Spare(s, HostBase, len)
  <2>1. GuestBase \in Nat \ {0} /\ HostBase \in Nat /\ GuestBase <= HostBase
        /\ len \in Nat \ {0}
    OBVIOUS
  <2>2. 0 \notin GuestBase .. HostBase - 1
    OBVIOUS
  <2> HIDE Layout
  <2> QED  BY <2>1, <2>2, FindFreeIsFirst
<1>2. last'.ret = 0 /\ last'.len = len /\ kernel' = kernel
  BY DEF AnswerZero, mmu
<1>3. ASSUME NEW s \in GuestBase .. HostBase - 1, s + len < HostBase,
             \A p \in s .. s + len : kernel[p] = None
      PROVE  FALSE
  <2>1. \A p \in s .. s + len : p \in Pages /\ p >= GuestBase
    BY <1>3 DEF Pages
  <2>2. \A p \in s .. s + len : p \notin used
    BY <1>3, <2>1, FreeIsUnmapped
  <2> QED  BY <1>1, <1>3, <2>2 DEF Spare
<1> QED  BY <1>2, <1>3 DEF FirstFit

(* The greater of two numbers. *)
LEMMA MaxOfTwo ==
  ASSUME NEW a \in Nat, NEW b \in Nat
  PROVE  Max({a, b}) \in {a, b} /\ a <= Max({a, b}) /\ b <= Max({a, b})
BY DEF Max

LEMMA RefuseInv ==
  ASSUME Inv, Refuse, UNCHANGED <<heap, slice>>
  PROVE  Inv'
<1>1. /\ kernel' = kernel /\ used' = used /\ view' = view /\ maps' = maps
      /\ nought' = nought /\ last' = NoCall
      /\ brk' = brk /\ heap_end' = heap_end /\ stores' = stores
      /\ dropped' = dropped /\ crashed' = crashed
  BY DEF Refuse, mmu, guest, heap, slice
<1>2. Bounded'
  BY <1>1 DEF Inv, Bounded, TypeOK, NoCall, MAP_FAILED
<1>3. HeapWhole' /\ BitmapAgrees' /\ GuestKeepsItsMemory' /\ SliceEndReadable'
  BY <1>1 DEF Inv, HeapWhole, BitmapAgrees, GuestKeepsItsMemory,
              SliceEndReadable
<1>4. FirstFit'
  BY <1>1 DEF FirstFit, NoCall, MAP_FAILED
<1> QED  BY <1>2, <1>3, <1>4 DEF Inv

(* The answer 0 changes what the guest believes of the pages from 0 on. *)
LEMMA ZeroInv ==
  ASSUME Inv, NEW len \in 1 .. MaxLen, maps < Heap + MaxMaps,
         AnswerZero(len), UNCHANGED <<heap, slice>>, FirstFit'
  PROVE  Inv'
<1> USE Layout DEF Heap
<1> DEFINE more == nought'
<1>1. /\ kernel' = kernel /\ used' = used /\ maps' = maps + 1
      /\ brk' = brk /\ heap_end' = heap_end /\ stores' = stores
      /\ dropped' = dropped /\ crashed' = crashed
      /\ last' \in [len : Nat, ret : Int]
  BY DEF AnswerZero, mmu, heap, slice
<1>2. nought \in 0 .. MaxLen /\ maps \in Heap .. Heap + MaxMaps - 1
      /\ heap_end \in Nat
  BY DEF Inv, Bounded, TypeOK
<1>3. more \in 0 .. MaxLen /\ nought <= more /\ len <= more
  <2>1. nought' = Max({nought, len})
    BY DEF AnswerZero
  <2>2. nought \in Nat /\ len \in Nat
    BY <1>2
  <2> QED  BY <1>2, <2>1, <2>2, MaxOfTwo
<1> HIDE DEF more
<1>4. \A p \in Pages :
        view'[p] = IF p \in Span(0, len) THEN view[p] \cup {maps + 1} ELSE view[p]
  BY <1>1 DEF AnswerZero
<1>5. \A p \in Pages : view[p] \in SUBSET (1 .. Heap + MaxMaps)
  BY DEF Inv, Bounded, TypeOK
<1>6. Bounded'
  <2>1. view' \in [Pages -> SUBSET (1 .. Heap + MaxMaps)]
    <3>1. view' = [p \in Pages |-> view'[p]]
      BY DEF AnswerZero
    <3>2. maps + 1 \in 1 .. Heap + MaxMaps
      BY <1>2
    <3>3. \A p \in Pages : view'[p] \in SUBSET (1 .. Heap + MaxMaps)
      BY <1>4, <1>5, <3>2
    <3> QED  BY <3>1, <3>3
  <2>2. \A p \in Pages : kernel[p] <= maps + 1
    <3>1. \A p \in Pages : kernel[p] \in Int /\ kernel[p] <= maps
      BY DEF Inv, Bounded, TypeOK
    <3> QED  BY <1>2, <3>1
  <2>3. nought' \in 0 .. MaxLen
    BY <1>3 DEF more
  <2> QED  BY <1>1, <1>2, <2>1, <2>2, <2>3 DEF Inv, Bounded, TypeOK
<1>7. HeapWhole'
  <2>1. \A p \in HeapBegin .. heap_end - 1 :
          kernel[p] = Heap \/ (p < more /\ kernel[p] = None)
    BY <1>2, <1>3 DEF Inv, HeapWhole
  <2>2. \A p \in Pages : p >= GuestBase => Heap \notin view'[p]
    <3>1. \A p \in Pages : p >= GuestBase => Heap \notin view[p]
      BY DEF Inv, HeapWhole
    <3>2. maps + 1 # Heap
      BY <1>2
    <3> QED  BY <1>4, <3>1, <3>2
  <2> QED  BY <1>1, <2>1, <2>2 DEF Inv, HeapWhole, more
<1>8. GuestKeepsItsMemory'
  <2>1. \A p \in Pages : p >= more => p >= nought /\ view'[p] = view[p]
    <3> SUFFICES ASSUME NEW p \in Pages, p >= more
                 PROVE  p >= nought /\ view'[p] = view[p]
      OBVIOUS
    <3>1. p \in Nat /\ p >= nought /\ p >= len
      BY <1>2, <1>3 DEF Pages
    <3>2. p \notin Span(0, len)
      BY <3>1 DEF Span
    <3> QED  BY <1>4, <3>1, <3>2
  <2> QED  BY <1>1, <2>1 DEF Inv, GuestKeepsItsMemory, more
<1>9. SliceEndReadable'
  <2>1. \A p \in MemoryTop .. nought - 1 : p \in MemoryTop .. more - 1
    BY <1>2, <1>3
  <2> QED  BY <1>1, <2>1 DEF Inv, SliceEndReadable, more
<1>10. BitmapAgrees'
  BY <1>1 DEF Inv, BitmapAgrees
<1> QED  BY <1>6, <1>7, <1>8, <1>9, <1>10 DEF Inv

LEMMA MmapInv == Inv /\ Apart /\ Mmap => Inv'
<1> SUFFICES ASSUME Inv, Apart, Mmap  PROVE Inv'
  OBVIOUS
<1>1. PICK a \in Hints \cup {0}, len \in 1 .. MaxLen, fixed \in BOOLEAN :
        /\ fixed => a # 0
        /\ guest_mmap(a, len, fixed)
  BY DEF Mmap
<1>2. maps < Heap + MaxMaps /\ UNCHANGED <<heap, slice>>
  BY DEF Mmap
<1>3. len \in Nat \ {0} /\ MAP_FAILED \in Int /\ a \in Nat
  BY Layout, AddressSpaceAssumption DEF MAP_FAILED, AddressSpaceAssumption
<1> DEFINE at == IF a = 0 THEN find_free(GuestBase, HostBase, len) ELSE a
<1>4. CASE Refuse
  BY <1>2, <1>4, RefuseInv
<1>5. CASE at = 0 /\ AnswerZero(len)
  <2>1. find_free(GuestBase, HostBase, len) = 0
    BY <1>5
  <2>2. FirstFit'
    BY <1>5, <2>1, AnswerFirst
  <2> QED  BY <1>2, <1>3, <1>5, <2>2, ZeroInv
<1>6. CASE /\ a + len <= HostBase /\ at # 0
           /\ \E b \in Placements(at, len, fixed \/ a = 0) :
                Mapped(a, len, fixed, b)
  <2>1. PICK b \in Placements(at, len, fixed \/ a = 0) :
          Mapped(a, len, fixed, b)
    BY <1>6
  <2>2. /\ b \in GuestBase .. Top - len
        /\ Span(b, len) \subseteq Pages
        /\ ~fixed => \A p \in Span(b, len) : kernel[p] = None
        /\ a = 0 => /\ b = at /\ Spare(b, HostBase, len)
                    /\ \A s \in GuestBase .. b - 1 : ~Spare(s, HostBase, len)
    <3>1. at = IF a = 0 THEN find_free(GuestBase, HostBase, len) ELSE a
      OBVIOUS
    <3> HIDE DEF at
    <3> QED  BY <1>1, <1>6, <3>1, PlacedApart
  <2> HIDE DEF at
  <2>3. /\ Bounded' /\ HeapWhole' /\ BitmapAgrees'
        /\ GuestKeepsItsMemory' /\ SliceEndReadable'
    BY <1>2, <2>1, <2>2, MappedInv
  <2>4. FirstFit'
    BY <2>1, <2>2, MappedFirst
  <2> QED  BY <2>3, <2>4 DEF Inv
<1>7. HostBase \in Nat
  BY Layout
<1> QED  BY <1>1, <1>3, <1>4, <1>5, <1>6, <1>7 DEF guest_mmap

(***************************************************************************)
(* munmap, brk and the accesses.                                           *)
(***************************************************************************)
LEMMA MunmapInv == Inv /\ Munmap => Inv'
<1> SUFFICES ASSUME Inv, Munmap  PROVE Inv'
  OBVIOUS
<1> USE Layout DEF None, Elf, Stack, Heap
<1>1. PICK a \in Pages, len \in 1 .. MaxLen :
        /\ Span(a, len) \subseteq Pages
        /\ \A p \in Span(a, len) : Maps(p) # {}
        /\ guest_munmap(a, len)
        /\ dropped' = dropped \cup (stores \cap Span(a, len))
  BY DEF Munmap
<1>2. /\ last' = NoCall /\ brk' = brk /\ heap_end' = heap_end /\ maps' = maps
      /\ nought' = nought /\ stores' = stores /\ crashed' = crashed
  BY DEF Munmap, heap
<1>3. \A p \in Pages : /\ p \in Span(a, len) => kernel'[p] = None
                       /\ p \notin Span(a, len) => kernel'[p] = kernel[p]
  BY <1>1 DEF guest_munmap
<1>4. \A p \in Pages : kernel[p] \in 0 .. Heap + MaxMaps /\ kernel[p] <= maps
  BY DEF Inv, Bounded, TypeOK
<1>5. \A p \in Pages : /\ view[p] \in SUBSET (1 .. Heap + MaxMaps)
                       /\ p >= nought => view[p] \subseteq Believed(p)
                       /\ p >= GuestBase => Heap \notin view[p]
  BY DEF Inv, Bounded, TypeOK, GuestKeepsItsMemory, Believed, HeapWhole
<1>6. \A p \in Span(a, len) :
        p >= nought => kernel[p] > Heap /\ view[p] \ Maps(p) = {}
  <2> SUFFICES ASSUME NEW p \in Span(a, len), p >= nought
               PROVE  kernel[p] > Heap /\ view[p] \ Maps(p) = {}
    OBVIOUS
  <2>1. PICK id \in view[p] : id > Heap
    BY <1>1 DEF Maps
  <2>2. id = kernel[p] /\ p \in Pages
    BY <1>1, <1>5, <2>1 DEF Believed
  <2>3. Heap \notin view[p]
    <3>1. CASE p >= GuestBase
      BY <1>5, <2>2, <3>1
    <3>2. CASE p < GuestBase /\ p >= heap_end
      <4>1. p \in heap_end .. GuestBase - 1
        BY <2>2, <3>2 DEF Pages, Inv, Bounded, TypeOK
      <4> QED  BY <2>1, <2>2, <4>1 DEF Inv, HeapWhole
    <3>3. CASE p < heap_end
      <4>1. view[p] \subseteq {kernel[p]}
        BY <1>5, <2>2, <3>3 DEF Believed, Pages, Inv, Bounded, TypeOK
      <4> QED  BY <2>1, <2>2, <4>1
    <3> QED  BY <2>2, <3>1, <3>2, <3>3 DEF Pages, Inv, Bounded, TypeOK
  <2>4. view[p] \subseteq {id}
    BY <1>5, <2>2, <2>3 DEF Believed
  <2> QED  BY <2>1, <2>2, <2>4 DEF Maps
<1>7. \A p \in Pages :
        /\ view'[p] \subseteq view[p]
        /\ p \in Span(a, len) /\ p >= nought => view'[p] = {}
        /\ p \notin Span(a, len) => view'[p] = view[p]
  BY <1>1, <1>6 DEF guest_munmap
<1>8. used' = used \ Span(a, len)
  BY <1>1 DEF guest_munmap, mark_free
<1>9. Bounded'
  <2>1. kernel' \in [Pages -> 0 .. Heap + MaxMaps]
    <3>1. kernel' = [p \in Pages |-> kernel'[p]]
      BY <1>1 DEF guest_munmap
    <3>2. \A p \in Pages : kernel'[p] \in 0 .. Heap + MaxMaps
      BY <1>3, <1>4
    <3> QED  BY <3>1, <3>2
  <2>2. view' \in [Pages -> SUBSET (1 .. Heap + MaxMaps)]
    <3>1. view' = [p \in Pages |-> view'[p]]
      BY <1>1 DEF guest_munmap
    <3>2. \A p \in Pages : view'[p] \in SUBSET (1 .. Heap + MaxMaps)
      BY <1>5, <1>7
    <3> QED  BY <3>1, <3>2
  <2>3. \A p \in Pages : kernel'[p] <= maps
    BY <1>3, <1>4 DEF Inv, Bounded
  <2>4. last' \in [len : Nat, ret : Int]
    BY <1>2 DEF NoCall, MAP_FAILED
  <2> QED  BY <1>2, <1>8, <2>1, <2>2, <2>3, <2>4 DEF Inv, Bounded, TypeOK
<1>10. HeapWhole'
  <2>1. \A p \in HeapBegin .. heap_end - 1 :
          kernel'[p] = Heap \/ (p < nought /\ kernel'[p] = None)
    <3> SUFFICES ASSUME NEW p \in HeapBegin .. heap_end - 1
                 PROVE kernel'[p] = Heap \/ (p < nought /\ kernel'[p] = None)
      OBVIOUS
    <3>1. p \in Pages /\ nought \in Nat
      BY DEF Inv, Bounded, TypeOK, Pages, HeapWhole
    <3>2. kernel[p] = Heap \/ (p < nought /\ kernel[p] = None)
      BY DEF Inv, HeapWhole
    <3>3. CASE p \in Span(a, len)
      BY <1>3, <1>6, <3>1, <3>2, <3>3 DEF Pages
    <3>4. CASE p \notin Span(a, len)
      BY <1>3, <3>1, <3>2, <3>4
    <3> QED  BY <3>3, <3>4
  <2>2. \A p \in heap_end .. GuestBase - 1 : p \in Pages
    BY DEF Inv, Bounded, TypeOK, Pages
  <2>3. \A p \in Pages : p >= GuestBase => Heap \notin view'[p]
    BY <1>5, <1>7
  <2>4. \A p \in heap_end .. GuestBase - 1 : kernel'[p] = None
    BY <1>3, <2>2 DEF Inv, HeapWhole
  <2>5. \A p \in Pages : kernel'[p] = Heap => p \in HeapBegin .. heap_end - 1
    BY <1>3 DEF Inv, HeapWhole
  <2> QED  BY <1>2, <2>1, <2>3, <2>4, <2>5 DEF Inv, HeapWhole
<1>11. BitmapAgrees' /\ GuestKeepsItsMemory'
  <2>1. BitmapAgrees'
    BY <1>3, <1>8 DEF Inv, BitmapAgrees
  <2>2. GuestKeepsItsMemory'
    <3>1. \A p \in Pages : p >= nought =>
            view'[p] \subseteq {kernel'[p]} \cup IF p >= heap_end THEN {Heap} ELSE {}
      BY <1>3, <1>5, <1>7 DEF Believed
    <3> QED  BY <1>2, <3>1 DEF GuestKeepsItsMemory
  <2> QED  BY <2>1, <2>2
<1>12. SliceEndReadable'
  BY <1>1, <1>2, <1>3 DEF Inv, SliceEndReadable, Bounded, TypeOK
<1>13. FirstFit'
  BY <1>2 DEF FirstFit, NoCall, MAP_FAILED
<1> QED  BY <1>9, <1>10, <1>11, <1>12, <1>13 DEF Inv

LEMMA BrkInv == Inv /\ Apart /\ Brk => Inv'
<1> SUFFICES ASSUME Inv, Apart, Brk  PROVE Inv'
  OBVIOUS
<1> USE Layout DEF None, Elf, Stack, Heap, Unit
<1>1. PICK new \in Unit * HeapBegin - 1 .. MaxBrk :
        abi_sys_brk(new) /\ BelievesBrk(new)
  BY DEF Brk
<1>2. /\ last' = NoCall /\ used' = used /\ maps' = maps /\ nought' = nought
      /\ stores' = stores /\ dropped' = dropped /\ crashed' = crashed
  BY DEF Brk, slice
<1>3. \A p \in Pages : kernel[p] \in 0 .. Heap + MaxMaps /\ kernel[p] <= maps
  BY DEF Inv, Bounded, TypeOK
<1>4. \A p \in Pages : /\ view[p] \in SUBSET (1 .. Heap + MaxMaps)
                       /\ p >= nought => view[p] \subseteq Believed(p)
  BY DEF Inv, Bounded, TypeOK, GuestKeepsItsMemory, Believed
<1>5. heap_end \in HeapBegin .. GuestBase /\ maps \in 3 .. Heap + MaxMaps
  BY DEF Inv, HeapWhole, Bounded, TypeOK
<1> DEFINE top == RoundUp(new)
<1>6. top \in HeapBegin .. GuestBase /\ new <= 2 * top /\ new \in Nat
  BY DEF Apart, RoundUp
<1>7. \/ /\ new <= 2 * heap_end /\ heap_end' = heap_end /\ kernel' = kernel
         /\ brk' = new
      \/ /\ heap_end' = heap_end /\ kernel' = kernel /\ brk' = brk
      \/ /\ new > 2 * heap_end /\ heap_end' = top /\ brk' = new
         /\ kernel' = [p \in Pages |-> IF p \in heap_end .. top - 1
                                       THEN Heap ELSE kernel[p]]
  BY <1>1, <1>5, <1>6 DEF abi_sys_brk, ShrinkBrk, GrowBrk, FailBrk, heap
<1>8. heap_end <= heap_end' /\ heap_end' \in HeapBegin .. GuestBase
  BY <1>5, <1>6, <1>7 DEF RoundUp
<1>9. brk' \in 0 .. 2 * heap_end'
  <2>1. brk \in 0 .. 2 * heap_end
    BY DEF Inv, Bounded, TypeOK
  <2> HIDE DEF top
  <2>2. CASE new <= 2 * heap_end /\ heap_end' = heap_end /\ brk' = new
    BY <1>5, <1>6, <2>2
  <2>3. CASE heap_end' = heap_end /\ brk' = brk
    BY <2>1, <2>3
  <2>4. CASE heap_end' = top /\ brk' = new
    BY <1>6, <2>4
  <2> QED  BY <1>7, <2>2, <2>3, <2>4
<1>10. \A p \in Pages :
          kernel'[p] = IF p \in heap_end .. heap_end' - 1 THEN Heap ELSE kernel[p]
  <2> HIDE DEF top
  <2> QED  BY <1>5, <1>6, <1>7 DEF Inv, HeapWhole
<1> HIDE DEF top
<1> DEFINE h == heap_end'
<1>20. h \in HeapBegin .. GuestBase /\ heap_end <= h /\ h \in Nat
  BY <1>8
<1>21. \A p \in Pages :
          kernel'[p] = IF p \in heap_end .. h - 1 THEN Heap ELSE kernel[p]
  BY <1>10
<1> HIDE DEF h
<1>11. /\ \A p \in Pages : kernel'[p] = Heap => p \in HeapBegin .. h - 1
       /\ \A p \in HeapBegin .. h - 1 :
             kernel'[p] = Heap \/ (p < nought /\ kernel'[p] = None)
  <2>1. \A p \in Pages : kernel[p] = Heap => p \in HeapBegin .. heap_end - 1
    BY DEF Inv, HeapWhole
  <2>2. \A p \in HeapBegin .. heap_end - 1 :
          kernel[p] = Heap \/ (p < nought /\ kernel[p] = None)
    BY DEF Inv, HeapWhole
  <2>3. \A p \in HeapBegin .. h - 1 : p \in Pages
    BY <1>20 DEF Pages
  <2> QED  BY <1>5, <1>20, <1>21, <2>1, <2>2, <2>3
<1>12. \A p \in Pages : p \in HeapBegin .. GuestBase - 1 => kernel[p] \in {None, Heap}
  BY <1>5 DEF Inv, HeapWhole
<1>13. \A p \in Pages :
          view'[p] = IF p \in HeapBegin .. top - 1
                     THEN view[p] \cup {Heap} ELSE view[p] \ {Heap}
  BY <1>1 DEF BelievesBrk, top
<1>14. Bounded'
  <2>1. kernel' \in [Pages -> 0 .. Heap + MaxMaps]
    <3>1. kernel' = [p \in Pages |-> kernel'[p]]
      BY <1>7 DEF Inv, Bounded, TypeOK
    <3>2. \A p \in Pages : kernel'[p] \in 0 .. Heap + MaxMaps
      BY <1>3, <1>10
    <3> QED  BY <3>1, <3>2
  <2>2. view' \in [Pages -> SUBSET (1 .. Heap + MaxMaps)]
    <3>1. view' = [p \in Pages |-> view'[p]]
      BY <1>1 DEF BelievesBrk
    <3>2. Heap \in 1 .. Heap + MaxMaps
      OBVIOUS
    <3>3. \A p \in Pages : view'[p] \in SUBSET (1 .. Heap + MaxMaps)
      <4> SUFFICES ASSUME NEW p \in Pages
                   PROVE view'[p] \subseteq 1 .. Heap + MaxMaps
        OBVIOUS
      <4>1. view'[p] \subseteq view[p] \cup {Heap}
        BY <1>13
      <4>2. view[p] \subseteq 1 .. Heap + MaxMaps
        BY <1>4
      <4> QED  BY <3>2, <4>1, <4>2
    <3> QED  BY <3>1, <3>3
  <2>3. \A p \in Pages : kernel'[p] <= maps
    BY <1>3, <1>5, <1>10
  <2>4. last' \in [len : Nat, ret : Int]
    BY <1>2 DEF NoCall, MAP_FAILED
  <2>5. heap_end' \in HeapBegin .. Top /\ brk' \in 0 .. Unit * heap_end'
    <3>1. h \in HeapBegin .. Top
      BY <1>20
    <3> QED  BY <1>9, <3>1 DEF h
  <2>6. /\ used' \subseteq Pages /\ stores' \subseteq Pages /\ crashed' \in BOOLEAN
        /\ nought' \in 0 .. MaxLen
    BY <1>2 DEF Inv, Bounded, TypeOK
  <2> QED  BY <1>2, <1>5, <2>1, <2>2, <2>3, <2>4, <2>5, <2>6
           DEF Bounded, TypeOK
<1>15. HeapWhole'
  <2>1. \A p \in h .. GuestBase - 1 : p \in Pages /\ kernel[p] = None
    BY <1>5, <1>20 DEF Inv, HeapWhole, Pages
  <2>2. \A p \in h .. GuestBase - 1 : kernel'[p] = None
    BY <1>5, <1>20, <1>21, <2>1
  <2>3. \A p \in Pages : p >= GuestBase => Heap \notin view'[p]
    <3>1. \A p \in Pages : p >= GuestBase => p \notin HeapBegin .. top - 1
      BY <1>6 DEF Pages
    <3> QED  BY <1>13, <3>1
  <2>4. heap_end' = h
    BY DEF h
  <2>5. h <= GuestBase
    BY <1>20
  <2> QED  BY <1>2, <1>11, <2>2, <2>3, <2>4, <2>5 DEF HeapWhole
<1>16. BitmapAgrees'
  BY <1>2, <1>10 DEF Inv, BitmapAgrees
<1>17. GuestKeepsItsMemory'
  <2>1. ASSUME NEW p \in Pages, p >= nought
        PROVE view'[p] \subseteq {kernel'[p]} \cup IF p >= h THEN {Heap} ELSE {}
    <3>1. CASE p \in HeapBegin .. top - 1
      <4>1. view[p] \subseteq {Heap}
        <5>1. kernel[p] \in {None, Heap}
          BY <1>6, <1>12, <3>1
        <5>2. None \notin view[p] /\ view[p] \subseteq Believed(p)
          BY <1>4, <2>1
        <5> QED  BY <5>1, <5>2 DEF Believed
      <4>2. view'[p] \subseteq {Heap}
        BY <1>13, <3>1, <4>1
      <4>3. CASE p >= h
        BY <4>2, <4>3
      <4>4. CASE p < h
        <5>1. p \in HeapBegin .. h - 1 /\ ~(p < nought)
          BY <1>20, <2>1, <3>1, <4>4 DEF Inv, Bounded, TypeOK
        <5>2. kernel'[p] = Heap
          BY <1>11, <5>1
        <5> QED  BY <4>2, <5>2
      <4> QED  BY <1>20, <4>3, <4>4 DEF Pages
    <3>2. CASE p \notin HeapBegin .. top - 1
      <4>1. view'[p] = view[p] \ {Heap} /\ view[p] \subseteq Believed(p)
        BY <1>4, <1>13, <2>1, <3>2
      <4>2. view'[p] \subseteq {kernel[p]} /\ None \notin view'[p]
        BY <1>4, <4>1 DEF Believed
      <4>3. CASE p \in heap_end .. h - 1
        <5>1. kernel[p] = None
          <6>1. p \in heap_end .. GuestBase - 1
            BY <1>5, <1>20, <4>3
          <6> QED  BY <6>1 DEF Inv, HeapWhole
        <5> QED  BY <4>2, <5>1
      <4>4. CASE p \notin heap_end .. h - 1
        <5>1. kernel'[p] = kernel[p]
          BY <1>21, <4>4
        <5> QED  BY <4>2, <5>1
      <4> QED  BY <4>3, <4>4
    <3> QED  BY <3>1, <3>2
  <2> QED  BY <1>2, <2>1 DEF GuestKeepsItsMemory, h
<1>18. SliceEndReadable'
  BY <1>2, <1>21 DEF Inv, SliceEndReadable, Bounded, TypeOK
<1>19. FirstFit'
  BY <1>2 DEF FirstFit, NoCall, MAP_FAILED
<1> QED  BY <1>14, <1>15, <1>16, <1>17, <1>18, <1>19 DEF Inv

(* An atomic below memory_top uses its own address. *)
LEMMA ModSmall ==
  ASSUME NEW p \in Nat, NEW m \in Nat \ {0}, p < m
  PROVE  p % m = p
OBVIOUS

(* Loads, stores and the end of a slice change only what is to be asserted. *)
LEMMA AccessInv == Inv /\ (Store \/ Amo \/ BreakHere) => Inv'
<1> SUFFICES ASSUME Inv, Store \/ Amo \/ BreakHere  PROVE Inv'
  OBVIOUS
<1>1. /\ kernel' = kernel /\ used' = used /\ view' = view /\ maps' = maps
      /\ nought' = nought /\ brk' = brk /\ heap_end' = heap_end /\ last' = last
  BY DEF Store, Amo, BreakHere, mmu, guest, heap
<1>2. \/ \E p \in Pages :
            /\ view[p] \ {Elf} # {}
            /\ kernel[p] # None \/ kernel[p % MemoryTop] # None
            /\ stores' = stores \cup {p}
            /\ dropped' = dropped \ {p} /\ crashed' = crashed
      \/ stores' = {} /\ crashed' \in BOOLEAN
  BY DEF Store, Amo, BreakHere
<1>3. stores' \subseteq Pages /\ crashed' \in BOOLEAN
  BY <1>2 DEF Inv, Bounded, TypeOK
<1>4. SliceEndReadable'
  <2>1. ASSUME NEW p \in Pages, view[p] \ {Elf} # {},
               kernel[p] # None \/ kernel[p % MemoryTop] # None
        PROVE p \in MemoryTop .. nought - 1 \/ kernel[p] # None
    <3> USE Layout
    <3>1. p \in Nat /\ nought \in Nat
      BY DEF Pages, Inv, Bounded, TypeOK
    <3>2. CASE p < MemoryTop
      <4>1. p % MemoryTop = p
        BY <3>1, <3>2, ModSmall
      <4> QED  BY <2>1, <4>1
    <3>3. CASE p >= MemoryTop /\ p < nought
      BY <3>1, <3>3
    <3>4. CASE p >= MemoryTop /\ p >= nought
      <4>1. Heap \notin view[p] /\ None \notin view[p]
        BY <3>1, <3>4 DEF Inv, HeapWhole, Bounded, TypeOK, None
      <4>2. view[p] \subseteq {kernel[p], Heap}
        BY <3>4 DEF Inv, GuestKeepsItsMemory
      <4> QED  BY <2>1, <4>1, <4>2
    <3> QED  BY <3>1, <3>2, <3>3, <3>4
  <2> QED  BY <1>1, <1>2, <2>1 DEF Inv, SliceEndReadable
<1>5. Bounded'
  BY <1>1, <1>3 DEF Inv, Bounded, TypeOK
<1>6. HeapWhole' /\ BitmapAgrees' /\ GuestKeepsItsMemory' /\ FirstFit'
  BY <1>1 DEF Inv, HeapWhole, BitmapAgrees, GuestKeepsItsMemory, FirstFit
<1> QED  BY <1>4, <1>5, <1>6 DEF Inv

LEMMA StutterInv == Inv /\ UNCHANGED vars => Inv'
BY DEF Inv, Bounded, TypeOK, HeapWhole, BitmapAgrees, GuestKeepsItsMemory,
       FirstFit, SliceEndReadable, vars, mmu, heap, guest, slice

(* Every step keeps the invariant. *)
LEMMA NextInv == Inv /\ Apart /\ [Next]_vars => Inv'
BY MmapInv, MunmapInv, BrkInv, AccessInv, StutterInv DEF Next

(* Under Apart the invariant holds in every state. *)
LEMMA Invariant ==
  ASSUME Apart
  PROVE  Spec => []Inv
<1>1. Inv /\ [Next]_vars => Inv'
  BY NextInv
<1> QED  BY <1>1, InitInv, PTL DEF Spec

(* For every layout whose heap and mappings stay apart, whatever mmap,      *)
(* munmap and brk do, and also when they fail: no page that the guest was   *)
(* given is taken from it or given to another owner.  What a refused brk or *)
(* an answer of 0 makes it believe besides is what the property excepts.    *)
THEOREM GuestKeeps ==
  ASSUME Apart
  PROVE  Spec => []GuestKeepsItsMemory
<1>1. Inv => GuestKeepsItsMemory
  BY DEF Inv
<1> QED  BY <1>1, Invariant, PTL

(* The bitmap agrees with the kernel, and find_free gives out the lowest    *)
(* free range with a page to spare.                                         *)
THEOREM BitmapIsTrue ==
  ASSUME Apart
  PROVE  Spec => []SpaceInv
<1>1. Inv => SpaceInv
  BY DEF Inv, Bounded, SpaceInv
<1> QED  BY <1>1, Invariant, PTL

(* The reads of break_here at the end of a slice find their pages mapped,   *)
(* unless the guest itself has unmapped them.                               *)
THEOREM SliceEndReads ==
  ASSUME Apart
  PROVE  Spec => []SliceEndReadable
<1>1. Inv => SliceEndReadable
  BY DEF Inv
<1> QED  BY <1>1, Invariant, PTL
=============================================================================
