--------------------------- MODULE AddressSpace ---------------------------
(***************************************************************************)
(* The guest's address space in rv-sim: the bitmap behind guest_mmap and   *)
(* guest_munmap (mem/mmap-core.c), the program break (abi_sys_brk), and    *)
(* the reads that end a slice (fmt.cc).  The guest's addresses are the     *)
(* simulator's own, so the host's kernel, which is external, holds the     *)
(* real mappings; view is what the guest takes its memory to be, as a libc *)
(* does from what the calls return.  Addresses are pages, the break counts *)
(* half pages.  The bitmap is kept flat: its levels are made on demand and *)
(* read as zero before.  brk(0), which only asks for the break, is left    *)
(* out.                                                                    *)
(***************************************************************************)
EXTENDS Integers, FiniteSets, FiniteSetsExt

CONSTANTS
    Top,               \* bound: pages of the address space
    HeapBegin,         \* first page after the program
    GuestBase,         \* GUEST_MMAP_BASE
    StackBegin,        \* memory_top - stack_size
    MemoryTop,         \* memory_top
    HostBase,          \* HOST_MMAP_BASE
    Hints,             \* addresses the guest asks for
    MaxLen,            \* bound: pages of a mapping
    MaxBrk,            \* bound: the largest break the guest asks for
    Calls,             \* what the guest does
    Fails,             \* the calls in which the kernel may be out of memory
    MaxMaps,           \* bound: mappings the guest makes
    MaxStores          \* bound: pages the guest stores to in a slice

ASSUME AddressSpaceAssumption ==
    /\ {Top, HeapBegin, GuestBase, StackBegin, MemoryTop, HostBase, MaxLen,
        MaxBrk, MaxMaps, MaxStores} \subseteq Nat
    /\ 0 < HeapBegin /\ HeapBegin <= GuestBase /\ GuestBase <= StackBegin
    /\ StackBegin < MemoryTop /\ MemoryTop <= HostBase /\ HostBase <= Top
    /\ Hints \subseteq 1 .. Top
    /\ Calls \subseteq {"mmap", "munmap", "brk", "access"}
    /\ Fails \subseteq Calls

Pages == 0 .. Top - 1
Unit == 2          \* halves of a page
MAP_FAILED == -1
ENOMEM == -12      \* as an address it is larger than every break

\* Owners of pages; the guest's mappings are numbered after them.
None == 0
Elf == 1
Stack == 2
Heap == 3

VARIABLES
    kernel,    \* what each page really holds
    used,      \* the bitmap: pages marked as used
    brk, heap_end,
    view,      \* the owners the guest takes each page to have
    maps,      \* mappings made so far
    nought,    \* pages from 0 on that the guest takes for a mapping at 0
    last,      \* the last call of mmap, and its answer
    stores,    \* pages of the stores to be asserted at the end of the slice
    dropped,   \* of these, pages the guest itself has unmapped since
    crashed    \* the simulator read an unmapped page

mmu == <<kernel, used>>
heap == <<brk, heap_end>>
slice == <<stores, dropped, crashed>>
guest == <<view, maps, nought>>
vars == <<mmu, heap, guest, last, slice>>

Span(a, len) == a .. a + len - 1

\* The owners of a page that are mappings the guest made.
Maps(p) == {id \in view[p] : id > Heap}

RoundUp(b) == (b + Unit - 1) \div Unit

NoCall == [len |-> 0, ret |-> MAP_FAILED]

(***************************************************************************)
(* map_load_segment_user and map_proxy_stack.                              *)
(***************************************************************************)
Boot == [p \in Pages |->
    IF p \in 1 .. HeapBegin - 1 THEN Elf
    ELSE IF p \in StackBegin .. MemoryTop - 1 THEN Stack ELSE None]

Init ==
    /\ kernel = Boot /\ view = [p \in Pages |-> {Boot[p]} \ {None}]
    /\ used = {p \in Pages : Boot[p] # None}
    /\ brk = Unit * HeapBegin - 1 /\ heap_end = HeapBegin
    /\ maps = Heap /\ nought = 0 /\ last = NoCall
    /\ stores = {} /\ dropped = {} /\ crashed = FALSE

(***************************************************************************)
(* The bitmap.                                                             *)
(***************************************************************************)
page_present(p) == p \in used

MarkUsedShort(a, len) == used \cup Span(a, len - 1)

mark_used(a, len) == used \cup Span(a, len)

MarkNothingFree(a, len) == used

mark_free(a, len) == used \ Span(a, len)

\* The length of the run of free pages from p on.
FreeRun(p, end) ==
    LET run[q \in p .. end] ==
            IF q < end /\ ~page_present(q) THEN 1 + run[q + 1] ELSE 0
    IN  run[p]

FitsTightly(run, len) == run >= len

\* A range is taken when one page more than it needs has been seen free.
Fits(run, len) == run > len

find_free(start, end, len) ==
    LET scan[p \in start .. end + 1] ==
            IF p >= end THEN 0
            ELSE LET run == FreeRun(p, end)
                 IN  IF Fits(run, len) THEN p ELSE scan[p + run + 1]
    IN  scan[start]

(***************************************************************************)
(* The kernel's mmap: at a when MAP_FIXED is set or the range is free, or  *)
(* else in its own area, at the top.                                       *)
(***************************************************************************)
Placements(a, len, fixed) ==
    IF fixed \/ \A p \in Span(a, len) : kernel[p] = None THEN {a}
    ELSE {b \in HostBase .. Top - len :
            \A p \in Span(b, len) : kernel[p] = None}

(***************************************************************************)
(* __guest_mmap and abi_sys_mmap.  a is 0 for an address of the tracker's  *)
(* choice; ret is the value the guest gets.                                *)
(***************************************************************************)
Refuse ==
    /\ last' = NoCall
    /\ UNCHANGED <<mmu, guest>>

\* find_free's "nothing found" is the address 0, which is not MAP_FAILED: the
\* guest takes the pages from 0 on for its mapping, although nothing is mapped.
AnswerZero(len) ==
    /\ last' = [len |-> len, ret |-> 0]
    /\ maps' = maps + 1
    /\ view' = [p \in Pages |->
                  IF p \in Span(0, len) THEN view[p] \cup {maps'} ELSE view[p]]
    /\ nought' = Max({nought, len})
    /\ UNCHANGED mmu

\* What the guest had in the range is gone only if it asked for that.
Mapped(a, len, fixed, b) ==
    LET id == maps + 1 IN
    /\ kernel' = [p \in Pages |-> IF p \in Span(b, len) THEN id ELSE kernel[p]]
    /\ used' = mark_used(b, len)
    /\ view' = [p \in Pages |->
                  IF p \in Span(b, len)
                  THEN {id} \cup IF fixed THEN {} ELSE view[p] ELSE view[p]]
    /\ maps' = id
    /\ last' = IF a = 0 THEN [len |-> len, ret |-> b] ELSE NoCall
    /\ UNCHANGED nought

guest_mmap(a, len, fixed) ==
    LET at == IF a = 0 THEN find_free(GuestBase, HostBase, len) ELSE a IN
    IF a + len > HostBase THEN Refuse
    ELSE IF at = 0 THEN AnswerZero(len)
    ELSE \/ \E b \in Placements(at, len, fixed \/ a = 0) :
              Mapped(a, len, fixed, b)
         \/ /\ "mmap" \in Fails \/ Placements(at, len, fixed \/ a = 0) = {}
            /\ Refuse

\* With MAP_FIXED the guest replaces only what it made with mmap.
Mmap ==
    /\ "mmap" \in Calls /\ maps < Heap + MaxMaps
    /\ \E a \in Hints \cup {0}, len \in 1 .. MaxLen, fixed \in BOOLEAN :
        /\ fixed => /\ a # 0
                    /\ \A p \in Span(a, len) \cap Pages : Maps(p) # {}
        /\ guest_mmap(a, len, fixed)
    /\ UNCHANGED <<heap, slice>>

(***************************************************************************)
(* __munmap: the guest unmaps pages of a mapping of its own.               *)
(***************************************************************************)
guest_munmap(a, len) ==
    /\ kernel' = [p \in Pages |->
                    IF p \in Span(a, len) THEN None ELSE kernel[p]]
    /\ used' = mark_free(a, len)
    /\ view' = [p \in Pages |->
                  IF p \in Span(a, len) THEN view[p] \ Maps(p) ELSE view[p]]

Munmap ==
    /\ "munmap" \in Calls
    /\ \E a \in Pages, len \in 1 .. MaxLen :
        /\ Span(a, len) \subseteq Pages
        /\ \A p \in Span(a, len) : Maps(p) # {} /\ Maps(p) = Maps(a)
        /\ guest_munmap(a, len)
        /\ dropped' = dropped \cup (stores \cap Span(a, len))
    /\ last' = NoCall
    /\ UNCHANGED <<heap, maps, nought, stores, crashed>>

(***************************************************************************)
(* abi_sys_brk.  The heap grows with the kernel's mmap and MAP_FIXED, past *)
(* the bitmap, and never shrinks.  A libc takes the call to have succeeded *)
(* when its answer, as an address, is not below what it asked for.         *)
(***************************************************************************)
BelievesBrk(new) ==
    view' = [p \in Pages |->
        IF p \in HeapBegin .. RoundUp(new) - 1
        THEN view[p] \cup {Heap} ELSE view[p] \ {Heap}]

ShrinkUnmapping(new) ==
    /\ brk' = new
    /\ heap_end' = Max({HeapBegin, RoundUp(new)})
    /\ kernel' = [p \in Pages |-> IF p \in heap_end' .. heap_end - 1
                                  THEN None ELSE kernel[p]]

ShrinkBrk(new) ==
    /\ brk' = new
    /\ UNCHANGED <<heap_end, kernel>>

\* One page fewer than the break needs: the division without rounding up.
GrowBrkRoundedDown(new) ==
    /\ kernel' = [p \in Pages |->
                    IF p \in heap_end .. (new \div Unit) - 1
                    THEN Heap ELSE kernel[p]]
    /\ heap_end' = Max({heap_end, new \div Unit})
    /\ brk' = new

GrowBrk(new) ==
    /\ kernel' = [p \in Pages |->
                    IF p \in heap_end .. RoundUp(new) - 1
                    THEN Heap ELSE kernel[p]]
    /\ heap_end' = RoundUp(new)
    /\ brk' = new

FailBrk == UNCHANGED <<kernel, heap>>

abi_sys_brk(new) ==
    IF new <= Unit * heap_end THEN ShrinkBrk(new)
    ELSE GrowBrk(new) \/ ("brk" \in Fails /\ FailBrk)

\* The guest asks for breaks within its heap.
Brk ==
    /\ "brk" \in Calls
    /\ \E new \in Unit * HeapBegin - 1 .. MaxBrk :
        /\ abi_sys_brk(new)
        /\ BelievesBrk(new)
    /\ last' = NoCall
    /\ UNCHANGED <<used, maps, nought, slice>>

(***************************************************************************)
(* Accesses.  A store is noted for the end of the slice; an atomic uses    *)
(* the address modulo memory_top, unlike a load or a store; break_here     *)
(* reads every noted address.                                              *)
(***************************************************************************)
Store ==
    /\ "access" \in Calls /\ Cardinality(stores) < MaxStores
    /\ \E p \in Pages : /\ view[p] \ {Elf} # {} /\ kernel[p] # None
                        /\ stores' = stores \cup {p}
                        /\ dropped' = dropped \ {p}
    /\ UNCHANGED <<mmu, heap, guest, last, crashed>>

Amo ==
    /\ "access" \in Calls /\ Cardinality(stores) < MaxStores
    /\ \E p \in Pages :
        /\ view[p] \ {Elf} # {} /\ kernel[p % MemoryTop] # None
        /\ stores' = stores \cup {p}
        /\ dropped' = dropped \ {p}
    /\ UNCHANGED <<mmu, heap, guest, last, crashed>>

BreakHere ==
    /\ stores # {}
    /\ crashed' = \E p \in stores : kernel[p] = None
    /\ stores' = {} /\ dropped' = {}
    /\ UNCHANGED <<mmu, heap, guest, last>>

Next == ~crashed /\ (Mmap \/ Munmap \/ Brk \/ Store \/ Amo \/ BreakHere)

Spec == Init /\ [][Next]_vars

-----------------------------------------------------------------------------
\* The types of the state; the break lies within the heap's pages.
TypeOK ==
    /\ kernel \in [Pages -> 0 .. Heap + MaxMaps]
    /\ view \in [Pages -> SUBSET (1 .. Heap + MaxMaps)]
    /\ used \subseteq Pages /\ nought \in 0 .. MaxLen
    /\ heap_end \in HeapBegin .. Top /\ brk \in 0 .. Unit * heap_end
    /\ stores \subseteq Pages /\ crashed \in BOOLEAN

\* The guest keeps the memory it was given: every page it believes to hold is
\* mapped, and is its own, whatever mmap, munmap and brk have done since.  Two
\* answers make it believe too much: 0 from mmap, after which it may write
\* over, or unmap, its own program from page 0 on; and a refused brk, whose
\* heap it then takes to go on behind the one it has.
GuestKeepsItsMemory ==
    \A p \in Pages : p >= nought =>
        view[p] \subseteq {kernel[p]} \cup IF p >= heap_end THEN {Heap} ELSE {}

\* The bitmap agrees with the kernel: a page marked used is mapped, and a page
\* mapped for the guest, other than by brk, is marked used.
BitmapAgrees ==
    \A p \in Pages : /\ p \in used => kernel[p] # None
                     /\ kernel[p] \notin {None, Heap} => p \in used

\* mmap without an address gives the lowest range that is free with a page to
\* spare, below the host's part, and answers 0 only if there is none.
FirstFit ==
    LET fits == {s \in GuestBase .. HostBase - 1 :
                    /\ s + last.len < HostBase
                    /\ \A p \in s .. s + last.len :
                          kernel[p] = None \/ (last.ret > 0 /\ kernel[p] = maps)}
    IN  /\ last.ret = 0 => fits = {}
        /\ last.ret > 0 => last.ret = Min(fits)

\* The pages break_here reads at the end of a slice (fmt.cc:657) are mapped,
\* whatever mmap and brk have done since the stores, unless the guest itself
\* has unmapped them, or an atomic in a mapping at 0 that is longer than
\* memory_top has found them at another address.
SliceEndReadable ==
    \A p \in stores \ dropped :
        p \in MemoryTop .. nought - 1 \/ kernel[p] # None

\* The invariants of the page bitmap together: it agrees with the kernel, and
\* mmap finds the first free range in it.
SpaceInv == TypeOK /\ BitmapAgrees /\ FirstFit
=============================================================================
