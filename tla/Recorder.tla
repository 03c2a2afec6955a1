------------------------------ MODULE Recorder ------------------------------
(***************************************************************************)
(* The checkpoint recorder of rv-sim: struct CheckpointManager of          *)
(* src/util/fmt.h and fmt.cc, driven by the interpreter loop               *)
(* (emu/processor-runloop.h), the proxy MMU (emu/mmu-proxy.h) and the      *)
(* system call proxy (abi/unknown-abi.h).                                  *)
(*                                                                         *)
(* The guest is any program over the instructions Inst: after every        *)
(* instruction any other may follow, and what an instruction computes is   *)
(* any value.  One action is one turn of the loop in                       *)
(* processor_runloop::step: fetch and decode, CheckpointManager::fetch,    *)
(* execution (which may call load, store, syscall or exit), instret++.     *)
(* The history variable ev holds what the slice being recorded executed;   *)
(* the program has no counterpart of it, and Replay measures a replay of   *)
(* the slice against it.                                                   *)
(***************************************************************************)
EXTENDS MemTrace, ProxyAbi, Sequences

CONSTANTS
  Inst,       \* the instructions of the guest program
  Handlers,   \* the system calls the guest makes
  InitMem,    \* the memory of the loaded program
  FrmVal,     \* the values the guest puts into fcsr
  Period,     \* checkpoint.period, the wanted length of a slice
  RepeatDiv,  \* a repeated breakpoint executes at most every RepeatDiv-th
              \* instruction (fmt.h:431 shifts right by 18)
  MaxInst     \* bound on the instructions the guest executes

A0 == 10      \* rv_ireg_a0

(* An sc stores if proc.lr is its address ("sc") and does not if not         *)
(* ("scfail"); lr and the floating point loads are the loads that a          *)
(* breakpoint cannot replace ("lr").                                         *)
Op ==
  {"alu", "load", "lr", "store", "amo", "sc", "scfail", "csrw", "fp", "jump", "ecall"}

(* An instruction: its place, the register it writes (0 if none or x0), and *)
(* the bytes it accesses, for an ecall the buffer of the system call.       *)
InstType ==
  [ pc : Addr, len : {2, 4}, op : Op, rd : 0..31, base : Addr, size : Nat ]

ASSUME RecorderAssumption ==
  /\ Inst \subseteq InstType
  /\ \A i \in Inst : /\ i.op = "ecall" => i.len = 4
                     /\ Bytes(i.pc, i.len) \subseteq Addr
                     /\ Bytes(i.base, i.size) \subseteq Addr
  /\ 1 \in Val
  /\ Handlers \subseteq HandlerName
  /\ InitMem \in [Addr -> Val]
  /\ FrmVal \subseteq Val
  /\ Period \in Nat
  /\ RepeatDiv \in Nat \ {0}
  /\ MaxInst \in Nat

VARIABLES
  mem,           \* guest memory
  a0,            \* guest register a0
  fcsr,          \* guest floating point control register
  instret,       \* instructions executed
  halted,        \* the guest has called exit
  recording,     \* checkpoint.mem # NULL
  tr,            \* *checkpoint.mem
  begin_instret, \* checkpoint.begin_instret
  entry_a0,      \* register a0 in the "ireg" line of the slice
  calls,         \* the "syscall" lines of the slice
  line,          \* the state of the log's last line
  slice,         \* the last slice that ended
  ev             \* history: the instructions recorded in the slice

guestVars == <<mem, a0, fcsr, instret, halted>>
recordVars == <<recording, tr, begin_instret, entry_a0, calls, line, slice, ev>>

-----------------------------------------------------------------------------
(* The instructions.                                                       *)

FetchBytes(i) == Bytes(i.pc, i.len)

LoadBytes(i) ==
  IF i.op \in {"load", "lr", "amo"} THEN Bytes(i.base, i.size) ELSE {}

StoreBytesOf(i) ==
  IF i.op \in {"store", "amo", "sc"} THEN Bytes(i.base, i.size) ELSE {}

(* The register an instruction leaves its result in, 0 for none. *)
ResultReg(i) ==
  CASE i.op = "ecall" -> A0
    [] i.op \in {"alu", "load", "lr", "amo", "sc", "scfail"} -> i.rd
    [] OTHER -> 0

(* processor_impl::get_rd: the instructions a breakpoint can replace. *)
GetRd(i) ==
  IF i.op \in {"alu", "load"} THEN IF i.rd = 0 THEN A0 ELSE i.rd ELSE -1

(* The register value executing i leaves behind: v if it is computed, what  *)
(* the memory holds for a load, 0 or 1 for an sc that stores or does not,   *)
(* and 0 for x0.                                                            *)
Result(i, v) ==
  CASE ResultReg(i) # 0 /\ i.op \in {"load", "lr", "amo"} -> mem[i.base]
    [] ResultReg(i) # 0 /\ i.op = "scfail" -> 1
    [] ResultReg(i) # 0 /\ i.op = "alu" -> v
    [] OTHER -> 0

(* The interpreter and the proxy MMU write guest memory directly, before   *)
(* the recorder is told (mmu_proxy::store, mmu_proxy::amo).                 *)
ExecInst(i, v) ==
  /\ mem' = [a \in Addr |-> IF a \in StoreBytesOf(i) THEN v ELSE mem[a]]
  /\ a0' = IF ResultReg(i) = A0 THEN Result(i, v) ELSE a0
  /\ fcsr' = IF i.op = "csrw" THEN v ELSE fcsr
  /\ UNCHANGED halted

(* The values i may compute or store; the others compute nothing that the  *)
(* model keeps.                                                             *)
ValuesOf(i) ==
  CASE i.op = "csrw" -> FrmVal
    [] i.op \in {"alu", "store", "amo", "sc"} -> Val
    [] OTHER -> {0}

(* proxy_syscall: a handler ends with outcome o, its data v and its return *)
(* value ret.                                                              *)
CallWrites(i, o) == IF o.wr = "none" THEN {} ELSE Bytes(i.base, i.size)

ExecCall(i, o, v, ret) ==
  /\ o.wr = "fresh" => Bytes(i.base, i.size) \cap tr.visited = {}
  /\ mem' = [a \in Addr |->
               IF a \in CallWrites(i, o) THEN IF o.wr = "data" THEN v ELSE 0
                                         ELSE mem[a]]
  /\ a0' = IF o.log = "exit" THEN a0 ELSE ret
  /\ halted' = (o.log = "exit")
  /\ UNCHANGED fcsr

CallOutcomes == UNION {Outcomes(h) : h \in Handlers}

-----------------------------------------------------------------------------
(* CheckpointManager::fetch.                                               *)

(* Seeded fault: begin_instret is set for the first slice only. *)
BeginInstretOnce == begin_instret

(* The start of the slice an instruction fetched now belongs to. *)
BeginInstret == IF recording THEN begin_instret ELSE instret

EntryA0 == IF recording THEN entry_a0 ELSE a0

FetchTrace(i) == Fetch(tr, i.pc, i.len, mem)

(* Seeded fault: any uncompressed instruction ends the slice. *)
BreakKindAnywhere(i) ==
  IF ~ (instret - BeginInstret > Period) THEN "none"
  ELSE IF i.op = "ecall" THEN "ecall"
  ELSE IF i.len = 4 THEN "first"
  ELSE "none"

(* Seeded fault: no look at the two bytes behind a compressed instruction. *)
BreakKindNoPrefetch(i) ==
  IF ~ (instret - BeginInstret > Period) THEN "none"
  ELSE IF i.op = "ecall" THEN "ecall"
  ELSE IF FirstVisit(tr, i.pc, i.len) THEN "first"
  ELSE "none"

(* The breakpoint found at i, in the order in which the code tries them.   *)
(* exec_count counts the fetch that has just been recorded.                *)
BreakKind(i) ==
  LET total      == instret - BeginInstret
      first      == FirstVisit(tr, i.pc, i.len)
      exec_count == FetchTrace(i).execs[i.pc]
  IN  IF ~ (total > Period) THEN "none"
      ELSE IF i.op = "ecall" THEN "ecall"
      ELSE IF first /\ i.len = 4 THEN "first"
      ELSE IF first /\ i.len = 2 /\ Prefetch(FetchTrace(i), i.pc + 2) THEN "firstrvc"
      ELSE IF i.len = 4 /\ GetRd(i) > 0 /\ exec_count < total \div RepeatDiv THEN "repeat"
      ELSE "none"

(* Seeded fault: the fetch that ends the slice is counted twice. *)
BreakLineOneMore(i, kind) ==
  [ pc |-> i.pc, kind |-> kind,
    count |-> IF kind = "repeat" THEN FetchTrace(i).execs[i.pc] + 1 ELSE 0,
    rd |-> IF kind = "repeat" THEN GetRd(i) ELSE A0 ]

(* What the log line of a breakpoint says. *)
BreakLine(i, kind) ==
  [ pc |-> i.pc, kind |-> kind,
    count |-> IF kind = "repeat" THEN FetchTrace(i).execs[i.pc] ELSE 0,
    rd |-> IF kind = "repeat" THEN GetRd(i) ELSE A0 ]

(* Printing when the last line is still open continues that line. *)
Printed == IF line = "done" THEN "done" ELSE "garbled"

(* CheckpointManager::break_here, with the trace t that ends the slice. *)
BreakHere(t, b) ==
  /\ slice' = [ begin |-> BeginInstret, end |-> instret, a0 |-> EntryA0,
                dump |-> Dump(t, mem), calls |-> calls, brk |-> b,
                ev |-> ev, mem |-> mem ]
  /\ recording' = FALSE
  /\ tr' = NewTrace
  /\ calls' = <<>>
  /\ ev' = <<>>

Continue(t) ==
  /\ recording' = TRUE
  /\ tr' = t
  /\ UNCHANGED slice

(* One turn of the loop: the bound of the model, and instret++. *)
Turn ==
  /\ ~ halted
  /\ instret < MaxInst
  /\ instret' = instret + 1
  /\ begin_instret' = BeginInstret
  /\ entry_a0' = EntryA0

(* What the history keeps of an instruction that was recorded. *)
Event(i, v, w) ==
  [ i |-> i, m |-> mem, n |-> mem', a0 |-> a0', f |-> fcsr, nf |-> fcsr',
    val |-> v, w |-> w, c |-> Len(calls') ]

-----------------------------------------------------------------------------
(* Seeded fault: an atomic is recorded as a store only. *)
RecordAccessAmoAsStore(t, i) ==
  CASE i.op \in {"load", "lr"} -> Load(t, Bytes(i.base, i.size), mem)
    [] i.op \in {"store", "sc", "amo"} -> Store(t, i.base, i.size)
    [] OTHER -> t

(* CheckpointManager::load and ::store, as mmu_proxy calls them. *)
RecordAccess(t, i) ==
  CASE i.op \in {"load", "lr"} -> Load(t, Bytes(i.base, i.size), mem)
    [] i.op \in {"store", "sc"} -> Store(t, i.base, i.size)
    [] i.op = "amo" -> Store(Load(t, Bytes(i.base, i.size), mem), i.base, i.size)
    [] OTHER -> t

(* CheckpointManager::syscall. *)
SysCall(i, o, ret) ==
  LET w == IF o.log = "buf" THEN Bytes(i.base, i.size) ELSE {}
  IN  /\ calls' = IF o.log = "none" THEN calls
                  ELSE Append(calls, [ pc |-> i.pc, ret |-> ret, rd |-> A0,
                                       brk |-> FALSE, w |-> w,
                                       data |-> [a \in w |-> mem'[a]] ])
      /\ Continue(IF o.log = "buf" THEN StoreBytes(FetchTrace(i), i.base, i.size)
                                   ELSE FetchTrace(i))
      /\ line' = IF line = "done" /\ o.log = "none" THEN "open" ELSE Printed
      /\ ev' = Append(ev, Event(i, ret, w))

(* An instruction other than ecall that ends no slice. *)
Step(i) ==
  /\ Turn
  /\ i.op # "ecall"
  /\ BreakKind(i) = "none"
  /\ \E v \in ValuesOf(i) :
       /\ ExecInst(i, v)
       /\ Continue(RecordAccess(FetchTrace(i), i))
       /\ UNCHANGED <<calls, line>>
       /\ ev' = Append(ev, Event(i, Result(i, v), {}))

(* An ecall that ends no slice. *)
Ecall(i) ==
  /\ Turn
  /\ i.op = "ecall"
  /\ BreakKind(i) = "none"
  /\ \E o \in CallOutcomes \ {Exits}, v \in Val, ret \in Val :
       /\ ExecCall(i, o, v, ret)
       /\ SysCall(i, o, ret)

(* CheckpointManager::exit: the ecall of exit or exit_group ends the slice. *)
Exit(i) ==
  /\ Turn
  /\ i.op = "ecall"
  /\ BreakKind(i) = "none"
  /\ Exits \in CallOutcomes
  /\ ExecCall(i, Exits, 0, 0)
  /\ line' = Printed
  /\ BreakHere(FetchTrace(i), BreakLine(i, "exit"))

(* The breakpoint: the slice ends, and the instruction is executed with    *)
(* checkpoint.mem = NULL, so that it belongs to no slice.                  *)
Break(i) ==
  /\ Turn
  /\ BreakKind(i) # "none"
  /\ line' = Printed
  /\ BreakHere(FetchTrace(i), BreakLine(i, BreakKind(i)))
  /\ \/ /\ i.op # "ecall"
        /\ \E v \in ValuesOf(i) : ExecInst(i, v)
     \/ /\ i.op = "ecall"
        /\ \E o \in CallOutcomes, v \in Val, ret \in Val : ExecCall(i, o, v, ret)

-----------------------------------------------------------------------------
(* Before the first slice ends there is none. *)
NoSlice == [brk |-> [kind |-> "none"]]

RecordInit ==
  /\ mem = InitMem
  /\ a0 = 0
  /\ fcsr = 0
  /\ instret = 0
  /\ halted = FALSE
  /\ recording = FALSE
  /\ tr = NewTrace
  /\ begin_instret = 0
  /\ entry_a0 = 0
  /\ calls = <<>>
  /\ line = "done"
  /\ slice = NoSlice
  /\ ev = <<>>

RecordNext == \E i \in Inst : Step(i) \/ Ecall(i) \/ Exit(i) \/ Break(i)
=============================================================================
