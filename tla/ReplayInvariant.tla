-------------------------- MODULE ReplayInvariant --------------------------
(***************************************************************************)
(* Why a replay is faithful: the conditions on the guest program under     *)
(* which it is, and the inductive invariant that shows it.  The invariant  *)
(* relates the trace to the history of the slice (RecordInv) and the state *)
(* of the replay to the point of the history it has reached (ReplayInv).   *)
(***************************************************************************)
EXTENDS Replay

(* The data an instruction may access, the buffer of a system call. *)
DataBytes(i) == Bytes(i.base, i.size)

AllData == UNION {DataBytes(i) : i \in Inst}

(* The same place of the code: only the data accessed may differ, and       *)
(* whether an sc stores.                                                    *)
SameSite(i, j) ==
  /\ i.pc = j.pc /\ i.len = j.len /\ i.rd = j.rd
  /\ i.op = j.op \/ {i.op, j.op} \subseteq {"sc", "scfail"}

(* A guest whose slices can be replayed: it never reads or writes its own   *)
(* code and instructions do not overlap; it uses only system calls that     *)
(* tell the recorder every byte they change; it leaves fcsr alone; an sc    *)
(* keeps its reservation; and no uncompressed instruction writes x0.                *)
Replayable ==
  /\ Handlers \subseteq FaithfulHandlers
  /\ FrmVal \subseteq {0}
  /\ ScResult \subseteq {TRUE}
  /\ \A i \in Inst : /\ Bytes(i.pc, 4) \subseteq Addr
                     /\ i.op \in {"alu", "load"} /\ i.len = 4 => i.rd # 0
  /\ \A i, j \in Inst :
       /\ FetchBytes(i) \cap DataBytes(j) = {}
       /\ SameSite(i, j) \/ FetchBytes(i) \cap FetchBytes(j) = {}

-----------------------------------------------------------------------------
(* The history of a slice. *)

Reads(e) == FetchBytes(e.i) \cup LoadBytes(e.i)
Writes(e) == StoreBytesOf(e.i) \cup e.w
Touched(e) == Reads(e) \cup Writes(e)

(* The bytes touched before event k. *)
Before(evs, k) == UNION {Touched(evs[j]) : j \in 1 .. (k - 1)}

(* Memory and register a0 before event k; last is the memory at the end. *)
MemAt(evs, last, k) == IF k <= Len(evs) THEN evs[k].m ELSE last
A0At(evs, entry, k) == IF k = 1 THEN entry ELSE evs[k - 1].a0

(* The executions of the instruction at pc among the first k events. *)
Executions(evs, pc, k) == Cardinality({j \in 1 .. k : evs[j].i.pc = pc})

(* The system calls, and in the second pass the executions of the           *)
(* breakpoint at pc, among the first k events.                              *)
IsTrap(p, pc, e) == e.i.op = "ecall" \/ (p = 2 /\ e.i.pc = pc)
Count(evs, p, pc, k) == Cardinality({j \in 1 .. k : IsTrap(p, pc, evs[j])})

(* The call c makes replay() do what event e did. *)
CallOf(c, e) ==
  /\ c.pc = e.i.pc /\ c.ret = e.val /\ c.brk = FALSE
  /\ c.rd = A0 <=> ResultReg(e.i) = A0
  /\ c.w = e.w /\ \A a \in e.w : c.data[a] = e.n[a]

(* Each event starts where the one before it ended; a byte is read with the *)
(* value the trace has kept, unless the slice has touched it before; and a  *)
(* byte the slice has touched changes only where the recorder is told.      *)
EventOK(evs, cs, entry, last, vis, cont, k) ==
  LET e == evs[k]
  IN  /\ e.f = 0 /\ e.nf = 0
      /\ e.n = MemAt(evs, last, k + 1)
      /\ e.a0 = IF ResultReg(e.i) = A0 THEN e.val ELSE A0At(evs, entry, k)
      /\ e.i.op # "ecall" => e.w = {}
      /\ e.w \subseteq DataBytes(e.i)
      /\ Touched(e) \subseteq vis
      /\ \A a \in Reads(e) : a \in Before(evs, k) \/ cont[a] = e.m[a]
      /\ \A a \in Before(evs, k + 1) \ Writes(e) : e.n[a] = e.m[a]
      /\ e.i.op = "ecall" => CallOf(cs[Count(evs, 1, 0, k)], e)

IsHistory(evs, cs, entry, last, vis, cont) ==
  /\ \A k \in DOMAIN evs : EventOK(evs, cs, entry, last, vis, cont, k)
  /\ Len(cs) = Count(evs, 1, 0, Len(evs))
  /\ \A j \in DOMAIN cs : \E k \in DOMAIN evs :
       evs[k].i.op = "ecall" /\ cs[j].pc = evs[k].i.pc

-----------------------------------------------------------------------------
(* The recorder. *)

StoresOK(t) ==
  \A s \in Slot : \/ t.stores[s] = NoStore
                  \/ Bytes(t.stores[s].addr, t.stores[s].size)
                       \subseteq t.visited \cap AllData

(* The breakpoint's four bytes belong to no data of the slice, and to no    *)
(* instruction of it but to ecalls, which are replaced anyway, or to the    *)
(* repeated breakpoint itself.                                              *)
BreakOK(s) ==
  /\ Bytes(s.brk.pc, 4) \subseteq Addr
  /\ \A k \in DOMAIN s.ev :
       LET e == s.ev[k]
       IN  /\ Bytes(s.brk.pc, 4) \cap (LoadBytes(e.i) \cup Writes(e)) = {}
           /\ \/ Bytes(s.brk.pc, 4) \cap FetchBytes(e.i) = {}
              \/ s.brk.kind # "repeat" /\ e.i.op = "ecall"
              \/ /\ s.brk.kind = "repeat" /\ e.i.pc = s.brk.pc
                 /\ e.i.op \in {"alu", "load"} /\ e.i.rd = s.brk.rd
  /\ s.brk.kind = "repeat" =>
       /\ s.brk.count = Executions(s.ev, s.brk.pc, Len(s.ev)) + 1
       /\ s.brk.count > 1
  /\ s.brk.kind # "repeat" => s.brk.count = 0

SliceOK(s) ==
  /\ IsHistory(s.ev, s.calls, s.a0, s.mem, s.dump.visited, s.dump.content)
  /\ BreakOK(s)
  /\ \A r \in s.dump.asserts : \A a \in DOMAIN r.data :
       a \in Before(s.ev, Len(s.ev) + 1) \cap AllData /\ r.data[a] = s.mem[a]

(* The trace records exactly what the slice has touched, each byte with the *)
(* value of its first touch, and counts the executions (struct MemTrace);   *)
(* the log has one line per system call (CheckpointManager::syscall).       *)
RecordInv ==
  /\ fcsr = 0
  /\ IsHistory(ev, calls, EntryA0, mem, tr.visited, tr.content)
  /\ a0 = A0At(ev, EntryA0, Len(ev) + 1)
  /\ tr.visited \subseteq Before(ev, Len(ev) + 1)
  /\ \A pc \in Addr : tr.execs[pc] = Executions(ev, pc, Len(ev))
  /\ StoresOK(tr)
  /\ ~ recording => ev = <<>> /\ calls = <<>> /\ tr = NewTrace
  /\ slice # NoSlice => SliceOK(slice)

-----------------------------------------------------------------------------
(* The replay. *)

CountNow(p, k) == Count(slice.ev, p, slice.brk.pc, k)

(* The addresses a replay table of pass p may patch. *)
IsSite(p, pc) ==
  \/ \E k \in DOMAIN slice.ev :
       IsTrap(p, slice.brk.pc, slice.ev[k]) /\ pc = slice.ev[k].i.pc
  \/ pc = slice.brk.pc /\ (p = 2 \/ slice.brk.kind # "repeat")

(* The table has one call for every trap of the slice, in order, and the    *)
(* breakpoint at its end.                                                   *)
TableOK(tab, p) ==
  /\ \A k \in DOMAIN slice.ev :
       IsTrap(p, slice.brk.pc, slice.ev[k]) => CallOf(tab[CountNow(p, k)], slice.ev[k])
  /\ \A j \in DOMAIN tab : IsSite(p, tab[j].pc)
  /\ IF p = 1 /\ slice.brk.kind = "repeat"
     THEN Len(tab) = CountNow(1, Len(slice.ev))
     ELSE /\ Len(tab) = CountNow(p, Len(slice.ev)) + 1
          /\ tab[Len(tab)] = BreakCall(slice.brk.pc)

(* A byte that was touched has the value it had in the recorded run, one    *)
(* that was not is as in the image, and the patches are never written.      *)
MemoryOK ==
  \A a \in Addr :
    rmem[a] = IF a \in Patched(rtab) THEN Jump
              ELSE IF a \in Before(slice.ev, rk) THEN MemAt(slice.ev, slice.mem, rk)[a]
              ELSE Image(slice, rtab)[a]

(* The rerun of the first pass has collected the traps so far. *)
RerunOK ==
  /\ \A k \in 1 .. (rk - 1) :
       IsTrap(2, slice.brk.pc, slice.ev[k]) => CallOf(newcalls[CountNow(2, k)], slice.ev[k])
  /\ Len(newcalls) = CountNow(2, rk - 1)
  /\ \A j \in DOMAIN newcalls : IsSite(2, newcalls[j].pc)
  /\ repeat = slice.brk.count - Executions(slice.ev, slice.brk.pc, rk - 1)
  /\ ~ (repeat = 1 /\ rpos = Len(rtab))

(* The replay is in the state the recorded run was in before event rk, but  *)
(* for patches and bytes not touched yet; the rerun of a repeated           *)
(* breakpoint collects the calls of a complete second table.                *)
ReplayInv ==
  phase = "replay" =>
    /\ pass = 2 \/ rstat = "found" => slice.brk.kind = "repeat"
    /\ rstat = "run" =>
         /\ TableOK(rtab, pass)
         /\ rpos = CountNow(pass, rk - 1)
         /\ rfcsr = 0
         /\ ra0 = A0At(slice.ev, slice.a0, rk)
         /\ rk > 1 => rval = slice.ev[rk - 1].val
         /\ MemoryOK
         /\ Tracing => RerunOK
    /\ rstat = "found" => TableOK(newcalls, 2)
    /\ StoreAssertionsHold
=============================================================================
