------------------------------ MODULE MemTrace ------------------------------
(***************************************************************************)
(* The per-slice memory trace of the checkpoint recorder                   *)
(* (src/util/fmt.h, struct PageRec, ExecRec, StoreRec and MemTrace).       *)
(*                                                                         *)
(* A trace remembers, for every guest byte the slice touches, whether it   *)
(* was touched (visited) and the value it had on its first touch           *)
(* (content), how often the instruction at an address was fetched (execs), *)
(* and a small hash table of the stores whose final value is asserted when *)
(* the slice is replayed (stores).  The code keeps the bytes in 4 KiB      *)
(* PageRecs found through a one-entry PtrCache; the pages only say where a *)
(* byte is kept, so here the record is one function over byte addresses.   *)
(***************************************************************************)
EXTENDS Integers, FiniteSets, FiniteSetsExt

CONSTANTS
  Addr,   \* the guest byte addresses, page 0 excluded
  Val,    \* the values of a byte (and of a register); 0 is one of them
  Slot,   \* the entries of MemTrace::stores (STREC_SIZE of them)
  Hash    \* the XOR hash of a store address, [Addr -> Slot]

(* Addresses are positive: fmt.cc:654 takes address 0 for an empty entry.  *)
ASSUME TraceAssumption ==
  /\ Addr \subseteq Nat \ {0}
  /\ 0 \in Val
  /\ Hash \in [Addr -> Slot]

(* The bytes of an access of n bytes at base. *)
Bytes(base, n) == base .. (base + n - 1)

(* An unused StoreRec. *)
NoStore == [addr |-> 0, size |-> 0]

(* The record MemTrace() builds. *)
NewTrace ==
  [ visited |-> {},
    content |-> [a \in Addr |-> 0],
    execs   |-> [a \in Addr |-> 0],
    stores  |-> [s \in Slot |-> NoStore] ]

(* PageRec::put of the bytes B, with the values they have in m. *)
Put(tr, B, m) ==
  [ tr EXCEPT !.visited = @ \cup B,
              !.content = [a \in Addr |-> IF a \in B THEN m[a] ELSE @[a]] ]

(* Seeded fault: every load records its bytes again. *)
LoadRefreshes(tr, B, m) == Put(tr, B, m)

(* MemTrace::load: the bytes touched for the first time are put, the      *)
(* others are left alone.  The aligned all-new and all-old cases of the    *)
(* code are the two ends of the same rule.                                 *)
Load(tr, B, m) == Put(tr, B \ tr.visited, m)

(* MemTrace::fetch<T>: one parcel of an instruction.  When some but not    *)
(* all of its bytes were visited the code puts one byte per VISITED byte,  *)
(* each time at the parcel's own offset.                                   *)
FetchParcel(tr, base, n, m) ==
  LET P    == Bytes(base, n)
      mask == P \cap tr.visited
  IN  CASE mask = {} -> Put(tr, P, m)
        [] mask = P  -> tr
        [] OTHER     -> Put(tr, {base}, [m EXCEPT ![base] = m[Max(mask)]])

(* MemTrace::fetch: count the execution, then record the instruction: as   *)
(* one parcel when it is 2 bytes long or 4-aligned, as two halves if not.  *)
Fetch(tr, pc, len, m) ==
  LET counted == [tr EXCEPT !.execs[pc] = @ + 1]
  IN  IF len = 2 \/ pc % 4 = 0
      THEN FetchParcel(counted, pc, len, m)
      ELSE FetchParcel(FetchParcel(counted, pc, 2, m), pc + 2, 2, m)

(* The value MemTrace::fetch returns: none of the bytes was visited. *)
FirstVisit(tr, pc, len) == Bytes(pc, len) \cap tr.visited = {}

(* MemTrace::prefetch: the two bytes at addr are not visited yet. *)
Prefetch(tr, addr) == Bytes(addr, 2) \cap tr.visited = {}

(* Seeded fault: every store is recorded as a doubleword. *)
StoreWide(tr, base, n) ==
  [ Load(tr, Bytes(base, 8), [a \in Addr |-> 0])
      EXCEPT !.stores[Hash[base]] = [addr |-> base, size |-> n] ]

(* MemTrace::store: the bytes count as touched, with content 0 if new, and *)
(* the table entry of the address is overwritten.                          *)
Store(tr, base, n) ==
  [ Load(tr, Bytes(base, n), [a \in Addr |-> 0])
      EXCEPT !.stores[Hash[base]] = [addr |-> base, size |-> n] ]

(* The byte-wise stores CheckpointManager::syscall makes for the memory a  *)
(* system call wrote: of the bytes that share an entry, the last one wins. *)
StoreBytes(tr, base, n) ==
  LET W       == Bytes(base, n)
      hits(s) == {a \in W : Hash[a] = s}
  IN  [ Load(tr, W, [a \in Addr |-> 0])
          EXCEPT !.stores = [s \in Slot |->
            IF hits(s) = {} THEN @[s] ELSE [addr |-> Max(hits(s)), size |-> 1]] ]

(* Seeded fault: the asserted values come from the trace's own pages. *)
AssertionsFromTrace(tr, m) ==
  { [addr |-> r.addr, data |-> [a \in Bytes(r.addr, r.size) |-> tr.content[a]]] :
      r \in {tr.stores[s] : s \in Slot} \ {NoStore} }

(* MemTrace::dump and the store trace of break_here: what the log and the  *)
(* dump file keep of a trace.  The asserted values are read from the guest *)
(* memory m as it is when the slice ends.                                  *)
Assertions(tr, m) ==
  { [addr |-> r.addr, data |-> [a \in Bytes(r.addr, r.size) |-> m[a]]] :
      r \in {tr.stores[s] : s \in Slot} \ {NoStore} }

Dump(tr, m) ==
  [ visited |-> tr.visited, content |-> tr.content, asserts |-> Assertions(tr, m) ]

(* The traces. *)
Traces ==
  [ visited : SUBSET Addr,
    content : [Addr -> Val],
    execs   : [Addr -> Nat],
    stores  : [Slot -> [addr : Addr \cup {0}, size : Nat]] ]
=============================================================================
