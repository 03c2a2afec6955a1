---------------------------- MODULE Placement ----------------------------
(***************************************************************************)
(* Where parse.py puts the code that replaces system calls (PageMap and    *)
(* the first half of process_once in ckpt/parse.py).  The pages of a slice *)
(* have holes, bytes the slice does not use; make_free_list collects them, *)
(* reserve takes for each call the hole nearest to it, and reserve_page    *)
(* takes unmapped pages for the replay stack.  Addresses are bytes.        *)
(***************************************************************************)
EXTENDS Integers, Sequences, FiniteSets, SequencesExt, FiniteSetsExt

CONSTANTS
    PageSize, FirstPn,  \* PAGE_SIZE and FIRST_PN
    NearSize, FarSize,  \* sizes of a near call (and of the entry) and of far
    StackPages,         \* pages the replay stack needs
    Shapes              \* bound: the slices considered: their last page, their
                        \* number of system calls, and a grain: bytes are used
                        \* in aligned runs of this many

ASSUME PlacementAssumption ==
    /\ PageSize \in Nat \ {0} /\ PageSize % 2 = 0
    /\ FirstPn \in Nat
    /\ NearSize \in Nat /\ NearSize % 2 = 0 /\ NearSize > 0
    /\ FarSize \in Nat /\ FarSize % 2 = 0 /\ FarSize > 0
    /\ StackPages \in Nat \ {0}
    /\ Shapes \subseteq [lastPn : Nat, sites : Nat, grain : Nat \ {0}]

First == FirstPn * PageSize

\* The addresses up to a page, and those of instructions.
Addresses(lastPn) == First .. (lastPn + 1) * PageSize - 1

Code(lastPn) == {a \in Addresses(lastPn) : a % 2 = 0}

Bytes(addr, size) == addr .. addr + size - 1

VARIABLES
    logged,    \* the bytes the slice uses, as the log has them
    used,      \* the bitmaps of the pages: logged and what was put since
    sites,     \* addresses of the system calls, in the order of the slice
    entry,     \* address of the first instruction
    pc, todo,  \* where process_once is, the reservations still to make
    free,      \* free_list
    s, e,      \* the bounds of the binary search
    placed,    \* what reserve has returned so far
    stack      \* first page of the replay stack

vars == <<logged, used, sites, entry, pc, todo, free, s, e, placed, stack>>

Pages(bytes) == {b \div PageSize : b \in bytes}

\* Both instructions of a call and the first instruction have been fetched,
\* so the log marks them as used; an instruction has two bytes at least.
Init ==
    /\ \E shape \in Shapes :
          /\ \E runs \in SUBSET {a \in Addresses(shape.lastPn) :
                                    a % shape.grain = 0} :
                logged = UNION {Bytes(a, shape.grain) : a \in runs}
          /\ sites \in [1 .. shape.sites -> Code(shape.lastPn)]
          /\ entry \in Code(shape.lastPn)
    /\ \A i \in 1 .. Len(sites) : Bytes(sites[i], 2) \subseteq logged
    /\ Bytes(entry, 2) \subseteq logged
    /\ used = logged
    /\ pc = "mark" /\ todo = <<>> /\ free = <<>> /\ s = 0 /\ e = 0
    /\ placed = <<>> /\ stack = 0

----------------------------------------------------------------------------
\* PageMap.put.
put(addr, size) == used \cup Bytes(addr, size)

\* All four bytes of a call are set, in case it is followed by a hole.
MarkTwoBytes == used \cup UNION {Bytes(sites[i], 2) : i \in 1 .. Len(sites)}

MarkSites == used \cup UNION {Bytes(sites[i], 4) : i \in 1 .. Len(sites)}

\* A hole ends at a used byte: what follows the last one is not in the list.
Holes(bytes) ==
    {h \in (First .. Max(bytes \cup {First})) \X bytes :
        /\ h[1] < h[2]
        /\ h[1] = First \/ h[1] - 1 \in bytes
        /\ \A a \in h[1] .. h[2] - 1 : a \notin bytes}

UpToEven(a) == a + (a % 2)

DownToEven(a) == a - (a % 2)

Ranges(bytes) ==
    {r \in {<<UpToEven(h[1]), DownToEven(h[2])>> : h \in Holes(bytes)} :
        r[1] < r[2]}

\* The ranges in the order of their addresses.
make_free_list(bytes) ==
    LET n == Cardinality(Ranges(bytes))
    IN  CHOOSE f \in [1 .. n -> Ranges(bytes)] :
            /\ Range(f) = Ranges(bytes)
            /\ \A i, j \in 1 .. n : i < j => f[i][1] < f[j][1]

\* A near call for each system call, then the entry and the far call.
Requests ==
    [i \in 1 .. Len(sites) + 2 |->
        IF i <= Len(sites) THEN [base |-> sites[i], size |-> NearSize]
        ELSE [base |-> entry,
              size |-> IF i = Len(sites) + 1 THEN NearSize ELSE FarSize]]

Mark ==
    /\ pc = "mark"
    /\ used' = MarkSites
    /\ free' = make_free_list(used')
    /\ todo' = Requests
    /\ pc' = "bounds"
    /\ UNCHANGED <<logged, sites, entry, s, e, placed, stack>>

(***************************************************************************)
(* reserve: the bounds of the search, one turn of the binary search, the   *)
(* choice of a hole.  Indices are those of the code plus one.              *)
(***************************************************************************)
Base == Head(todo).base

Wanted == Head(todo).size

\* near_map: a system call made at the same address has its near call.
Known == Len(todo) > 2 /\ \E i \in 1 .. Len(placed) : placed[i].base = Base

Skip ==
    /\ pc = "bounds" /\ todo # <<>> /\ Known
    /\ todo' = Tail(todo)
    /\ UNCHANGED <<logged, used, sites, entry, pc, free, s, e, placed, stack>>

NoList ==
    /\ pc = "bounds" /\ todo # <<>> /\ ~Known /\ free = <<>>
    /\ pc' = "failed"
    /\ UNCHANGED <<logged, used, sites, entry, todo, free, s, e, placed,
                   stack>>

Bounds ==
    /\ pc = "bounds" /\ todo # <<>> /\ ~Known /\ free # <<>>
    /\ CASE Base < free[1][1] -> s' = 0 /\ e' = 1
         [] Base >= free[1][1] /\ Base >= Last(free)[2] ->
                s' = Len(free) /\ e' = Len(free) + 1
         [] OTHER -> s' = 1 /\ e' = Len(free)
    /\ pc' = "search"
    /\ UNCHANGED <<logged, used, sites, entry, todo, free, placed, stack>>

Middle == (s + e) \div 2

\* A plausible mistake: a hole that ends at the base is on neither side.
BinarySearchStrict ==
    /\ pc = "search" /\ s + 1 < e
    /\ IF free[Middle][2] < Base THEN s' = Middle /\ UNCHANGED e
       ELSE IF free[Middle][1] > Base THEN e' = Middle /\ UNCHANGED s
       ELSE UNCHANGED <<s, e>>
    /\ UNCHANGED <<logged, used, sites, entry, pc, todo, free, placed, stack>>

BinarySearch ==
    /\ pc = "search" /\ s + 1 < e
    /\ IF free[Middle][2] <= Base THEN s' = Middle /\ UNCHANGED e
       ELSE IF free[Middle][1] > Base THEN e' = Middle /\ UNCHANGED s
       ELSE UNCHANGED <<s, e>>
    /\ UNCHANGED <<logged, used, sites, entry, pc, todo, free, placed, stack>>

FitsStrictly(i) == free[i][1] + Wanted < free[i][2]

Fits(i) == free[i][1] + Wanted <= free[i][2]

Below == {i \in 1 .. s : Fits(i)}

Above == {i \in 1 .. Len(free) : i >= e /\ Fits(i)}

PreferBelow(i, j) == TRUE

\* s_dist < e_dist
BelowIsNearer(i, j) == Base - free[i][2] < free[j][1] - Base

Chosen ==
    IF Below # {} /\ Above # {}
      THEN IF BelowIsNearer(Max(Below), Min(Above))
             THEN Max(Below) ELSE Min(Above)
      ELSE IF Below # {} THEN Max(Below) ELSE Min(Above)

\* A plausible mistake: the hole keeps its length in free_list.
RestUntouched(i) == free

\* What is left of the hole: the code is at the end that faces the base.
Rest(i) ==
    [free EXCEPT ![i] = IF free[i][1] > Base THEN <<@[1] + Wanted, @[2]>>
                                             ELSE <<@[1], @[2] - Wanted>>]

Place ==
    /\ pc = "search" /\ s + 1 >= e /\ Below \cup Above # {}
    /\ LET addr == IF free[Chosen][1] > Base THEN free[Chosen][1]
                                             ELSE free[Chosen][2] - Wanted
       IN  /\ placed' = Append(placed, [base |-> Base, addr |-> addr,
                                        size |-> Wanted])
           /\ used' = put(addr, Wanted)
    /\ free' = Rest(Chosen)
    /\ todo' = Tail(todo)
    /\ pc' = "bounds"
    /\ UNCHANGED <<logged, sites, entry, s, e, stack>>

Fail ==
    /\ pc = "search" /\ s + 1 >= e /\ Below \cup Above = {}
    /\ pc' = "failed"
    /\ UNCHANGED <<logged, used, sites, entry, todo, free, s, e, placed,
                   stack>>

\* The scan of reserve_page over the sorted page numbers stops at the first
\* gap that is wide enough, or behind the last page.
reserve_pageEarly(pages) ==
    Min({p \in {FirstPn} \cup {q + 1 : q \in Pages(logged)} :
            \A x \in p .. p + StackPages - 1 : x \notin Pages(logged)})

reserve_page(pages) ==
    Min({p \in {FirstPn} \cup {q + 1 : q \in pages} :
            \A x \in p .. p + StackPages - 1 : x \notin pages})

ReservePage ==
    /\ pc = "bounds" /\ todo = <<>>
    /\ stack' = reserve_page(Pages(used))
    /\ pc' = "done"
    /\ UNCHANGED <<logged, used, sites, entry, todo, free, s, e, placed>>

Terminated == pc \in {"done", "failed"} /\ UNCHANGED vars

Next ==
    \/ Mark \/ Skip \/ NoList \/ Bounds \/ BinarySearch \/ Place \/ Fail
    \/ ReservePage \/ Terminated

Spec == Init /\ [][Next]_vars /\ WF_vars(Next)

----------------------------------------------------------------------------
(***************************************************************************)
(* Properties.                                                             *)
(***************************************************************************)
Block(p) == Bytes(p.addr, p.size)

\* Nothing the slice uses is overwritten, no two pieces of code overlap, and
\* each is at an even address (reserve, the patches at the calls included).
CodeInHoles ==
    /\ \A i \in 1 .. Len(placed) :
          /\ placed[i].addr % 2 = 0
          /\ Block(placed[i]) \cap logged = {}
          /\ \A j \in 1 .. Len(sites) :
                Block(placed[i]) \cap Bytes(sites[j], 4) = {}
    /\ \A i, j \in 1 .. Len(placed) :
          i # j => Block(placed[i]) \cap Block(placed[j]) = {}

\* The replay stack has pages of its own (reserve_page).
StackOnOwnPages ==
    pc = "done" =>
        \A x \in stack .. stack + StackPages - 1 : x \notin Pages(used)

\* Every place where a piece of code of this size could go, in front of the
\* last used byte.
Candidates(bytes, size) ==
    {a \in Code(Max(Pages(bytes))) :
        a + size <= Max(bytes) /\ Bytes(a, size) \cap bytes = {}}

Gap(addr, size, base) ==
    IF addr > base THEN addr - base ELSE base - (addr + size)

\* The place is the nearest one there is: the jump to it reaches only so far
\* (free_list, kept up to date by hand, against the bitmaps).
NearestPlace ==
    [][placed' # placed =>
         LET p == Last(placed') IN
         \A a \in Candidates(used, p.size) :
             Gap(p.addr, p.size, p.base) <= Gap(a, p.size, p.base)]_vars

\* reserve gives up only when there is no place at all.
FailsOnlyWithoutRoom ==
    pc = "failed" => used = {} \/ Candidates(used, Wanted) = {}

\* The search ends.
PlacementEnds == <>(pc \in {"done", "failed"})

\* What parse.py may rely on when it has placed the code: code and stack lie
\* apart from each other and from the slice, and it gave up only without room.
PlacementInv == CodeInHoles /\ StackOnOwnPages /\ FailsOnlyWithoutRoom
=============================================================================
