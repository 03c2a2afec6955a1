------------------------------- MODULE Replay -------------------------------
(***************************************************************************)
(* The replay of a recorded slice: ckpt/parse.py turns the log and the     *)
(* dump of a slice into a memory image and a replay table, the checkpoint  *)
(* loader (ckpt/cl.c, entry.S) restores the image and the registers, and   *)
(* the program runs with every system call replaced by a jump to           *)
(* near_call, far_call and replay() (ckpt/near.S, far.S, replay.c).        *)
(*                                                                         *)
(* The replayed program is deterministic: as long as every fetch, load,    *)
(* system call and rounding mode gives it what the recorded run got, it    *)
(* executes the recorded instructions.  So the replay goes through the     *)
(* recorded instructions, rk being the next one, with a state of its own,  *)
(* and stops where the first value differs; that it never does is          *)
(* ReplayFaithful.                                                         *)
(*                                                                         *)
(* A slice whose breakpoint repeats is processed twice: the first image    *)
(* has no breakpoint and is rerun under rv-sim -M, which prints the result *)
(* of every execution of the breakpoint instruction; these become calls of *)
(* the second image.                                                       *)
(***************************************************************************)
EXTENDS Recorder

CONSTANTS
  Jump,      \* a byte of a jal that replaced an instruction
  Hole,      \* a byte that the slice never touched
  ScResult   \* whether an sc that stored stores again in the replay: a set
             \* of Booleans, {TRUE} if its reservation is never lost (to the
             \* start of the slice behind the lr, or on another machine)

ASSUME ReplayAssumption ==
  /\ Jump \notin Val
  /\ Hole \notin Val
  /\ Jump # Hole
  /\ ScResult \subseteq BOOLEAN

VARIABLES
  phase,     \* "record", or "replay" once a slice is replayed
  pass,      \* 1, or 2 for the second image of a repeated breakpoint
  rtab,      \* the calls of the replay table
  rpos,      \* how many of them are done: the table offset at 0(replay_sp)
  rmem,      \* memory of the replay
  ra0,       \* register a0 of the replay
  rfcsr,     \* fcsr of the replay
  rval,      \* the value the last instruction left in its register
  rk,        \* the next instruction of the history
  repeat,    \* executions of the breakpoint parse.py still waits for
  newcalls,  \* new_syscalls of Checkpoint.process
  rstat      \* "none", "run", "found" (the rerun has met all executions of
             \* the breakpoint), "finish" (REPLAY_EXIT)

replayVars == <<phase, pass, rtab, rpos, rmem, ra0, rfcsr, rval, rk, repeat,
                newcalls, rstat>>
vars == <<guestVars, recordVars, replayVars>>

-----------------------------------------------------------------------------
(* parse.py *)

(* SysCall(addr, is_break=True). *)
BreakCall(pc) ==
  [ pc |-> pc, ret |-> 0, rd |-> A0, brk |-> TRUE, w |-> {},
    data |-> [a \in {} |-> 0] ]

(* Seeded fault: the breakpoint of an exit is left out. *)
FirstTableNoExit(sl) ==
  IF sl.brk.kind \in {"repeat", "exit"} THEN sl.calls
  ELSE Append(sl.calls, BreakCall(sl.brk.pc))

(* main(): a breakpoint that does not repeat is the last call. *)
FirstTable(sl) ==
  IF sl.brk.kind = "repeat" THEN sl.calls ELSE Append(sl.calls, BreakCall(sl.brk.pc))

(* process_once: the 4 bytes at every call become a jal. *)
Patched(tab) == UNION { Bytes(tab[j].pc, 4) : j \in DOMAIN tab }

(* The image: the recorded bytes, patched.  Untouched bytes may hold        *)
(* near_call, far_call or the replay stack, or not be mapped at all.        *)
Image(sl, tab) ==
  [ a \in Addr |-> IF a \in Patched(tab) THEN Jump
                   ELSE IF a \in sl.dump.visited THEN sl.dump.content[a]
                   ELSE Hole ]

(* cl_entry: the image is mapped, a0 comes from the REPLAY_ENTRY item.  No  *)
(* one restores fcsr.                                                       *)
LoadImage(tab, p) ==
  /\ pass' = p
  /\ rtab' = tab
  /\ rpos' = 0
  /\ rmem' = Image(slice, tab)
  /\ ra0' = slice.a0
  /\ rfcsr' = 0
  /\ rval' = 0
  /\ rk' = 1

(* The rerun's first line, "begin execution", is no call, but the breakpoint *)
(* is found there if it is waited for once and there are no system calls.    *)
BeginLine ==
  IF slice.brk.count = 1 /\ slice.calls = <<>>
  THEN newcalls' = <<BreakCall(slice.brk.pc)>> /\ rstat' = "found"
  ELSE newcalls' = <<>> /\ rstat' = "run"

(* A slice can be replayed as soon as its log is complete. *)
StartReplay ==
  /\ phase = "record"
  /\ slice # NoSlice
  /\ ~ recording
  /\ line = "done"
  /\ phase' = "replay"
  /\ LoadImage(FirstTable(slice), 1)
  /\ repeat' = slice.brk.count
  /\ BeginLine
  /\ UNCHANGED <<guestVars, recordVars>>

(* process(): the second image, with the executions found by the rerun. *)
SecondPass ==
  /\ rstat = "found"
  /\ LoadImage(newcalls, 2)
  /\ rstat' = "run"
  /\ UNCHANGED <<phase, repeat, newcalls, guestVars, recordVars>>

-----------------------------------------------------------------------------
(* The replayed program. *)

Running == phase = "replay" /\ rstat = "run"

AtEnd == rk = Len(slice.ev) + 1

(* The address the deterministic program is at. *)
ReplayPc == IF AtEnd THEN slice.brk.pc ELSE slice.ev[rk].i.pc

AtJump ==
  LET P == Bytes(ReplayPc, 4) IN P \subseteq Addr /\ \A a \in P : rmem[a] = Jump

(* The rerun under rv-sim -M traces the executions of the breakpoint. *)
Tracing == pass = 1 /\ slice.brk.kind = "repeat"

(* Seeded fault: the system calls behind the last execution but one are    *)
(* not waited for.                                                         *)
RerunLineEager(c, left, seen) ==
  IF left = 1
  THEN /\ newcalls' = Append(Append(newcalls, c), BreakCall(slice.brk.pc))
       /\ rstat' = "found"
  ELSE /\ newcalls' = Append(newcalls, c)
       /\ rstat' = "run"

(* Checkpoint.process reads a line of the rerun: one more call, and the     *)
(* breakpoint once one execution is left and every system call was seen.    *)
RerunLine(c, left, seen) ==
  IF left = 1 /\ seen = Len(rtab)
  THEN /\ newcalls' = Append(Append(newcalls, c), BreakCall(slice.brk.pc))
       /\ rstat' = "found"
  ELSE /\ newcalls' = Append(newcalls, c)
       /\ rstat' = "run"

(* The call of the table that replay() handles next. *)
NextCall == rtab[rpos + 1]

(* Seeded fault: the data of a call is not copied. *)
MemAfterCallUnchanged(c) == rmem

(* replay() copies the data of the call whose turn it is, whichever site    *)
(* got here.                                                                *)
MemAfterCall(c) == [a \in Addr |-> IF a \in c.w THEN c.data[a] ELSE rmem[a]]

(* The program reaches a jal: near_call, far_call, and replay() returns.    *)
(* The return value goes to a0, or to the rd of a replaced instruction.     *)
(* Behind the breakpoint there is no history to go on with; that no replay  *)
(* returns there is part of ReplayStopsAtBreak.                             *)
TrapReturn ==
  /\ Running /\ AtJump /\ ~ AtEnd
  /\ rpos < Len(rtab) /\ ~ NextCall.brk
  /\ rmem' = MemAfterCall(NextCall)
  /\ ra0' = IF NextCall.rd = A0 THEN NextCall.ret ELSE ra0
  /\ rval' = NextCall.ret
  /\ rk' = rk + 1
  /\ rpos' = rpos + 1
  /\ IF Tracing THEN RerunLine(NextCall, repeat, rpos + 1)
                ELSE UNCHANGED <<newcalls, rstat>>
  /\ UNCHANGED <<phase, pass, rtab, rfcsr, repeat, guestVars, recordVars>>

(* The same, and replay() meets REPLAY_EXIT and ends the process. *)
TrapExit ==
  /\ Running /\ AtJump
  /\ rpos < Len(rtab) /\ NextCall.brk
  /\ rmem' = MemAfterCall(NextCall)
  /\ rpos' = rpos + 1
  /\ rstat' = "finish"
  /\ UNCHANGED <<phase, pass, rtab, ra0, rfcsr, rval, rk, repeat, newcalls,
                 guestVars, recordVars>>

(* What the recorded run got from memory and fcsr for this instruction. *)
Agrees(e) ==
  /\ e.i.op # "ecall"
  /\ \A a \in FetchBytes(e.i) \cup LoadBytes(e.i) : rmem[a] = e.m[a]
  /\ e.i.op = "fp" => rfcsr = e.f

(* The line checkpoint.execute prints, ireg[dec.rd], as a call. *)
ExecuteLine(e) ==
  [ pc |-> e.i.pc, ret |-> rval', rd |-> slice.brk.rd, brk |-> FALSE,
    w |-> {}, data |-> [a \in {} |-> 0] ]

(* An instruction that was not replaced.  It does again what it did in the  *)
(* recorded run, except that an sc may have lost its reservation.           *)
ReplayInst ==
  /\ Running /\ ~ AtJump /\ ~ AtEnd
  /\ Agrees(slice.ev[rk])
  /\ LET e == slice.ev[rk]
     IN  /\ \E success \in ScResult :
              LET failed == e.i.op = "sc" /\ ~ success
              IN  /\ rmem' = [a \in Addr |->
                         IF a \in StoreBytesOf(e.i) /\ ~ failed THEN e.n[a] ELSE rmem[a]]
                  /\ rval' = IF failed /\ e.i.rd # 0 THEN 1 ELSE e.val
         /\ ra0' = IF ResultReg(e.i) = A0 THEN rval' ELSE ra0
         /\ rfcsr' = IF e.i.op = "csrw" THEN e.nf ELSE rfcsr
         /\ IF Tracing /\ e.i.pc = slice.brk.pc
            THEN RerunLine(ExecuteLine(e), repeat - 1, rpos) /\ repeat' = repeat - 1
            ELSE UNCHANGED <<newcalls, rstat, repeat>>
  /\ rk' = rk + 1
  /\ UNCHANGED <<phase, pass, rtab, rpos, guestVars, recordVars>>

-----------------------------------------------------------------------------
Init ==
  /\ RecordInit
  /\ phase = "record"
  /\ pass = 1
  /\ rtab = <<>>
  /\ rpos = 0
  /\ rmem = [a \in Addr |-> Hole]
  /\ ra0 = 0
  /\ rfcsr = 0
  /\ rval = 0
  /\ rk = 1
  /\ repeat = 0
  /\ newcalls = <<>>
  /\ rstat = "none"

Record == phase = "record" /\ RecordNext /\ UNCHANGED replayVars

ReplayNext == SecondPass \/ TrapReturn \/ TrapExit \/ ReplayInst

Next == Record \/ StartReplay \/ ReplayNext

Spec == Init /\ [][Next]_vars

(* The replaying machine goes on executing instructions. *)
FairSpec == Spec /\ WF_vars(ReplayNext)

-----------------------------------------------------------------------------
(* Properties. *)

TypeOK ==
  /\ mem \in [Addr -> Val] /\ a0 \in Val /\ fcsr \in Val
  /\ instret \in 0..MaxInst /\ halted \in BOOLEAN /\ recording \in BOOLEAN
  /\ tr \in Traces
  /\ begin_instret \in 0..MaxInst
  /\ line \in {"done", "open", "garbled"}
  /\ phase \in {"record", "replay"} /\ pass \in {1, 2}
  /\ rmem \in [Addr -> Val \cup {Jump, Hole}]
  /\ rstat \in {"none", "run", "found", "finish"}

(* A replayed slice never gets a value the recorded run did not get: what   *)
(* the next instruction fetches and loads and the rounding mode it uses,    *)
(* and the register values the instructions before it left behind, are      *)
(* those of the recorded run (ckpt/parse.py, replay.c and the recorder).    *)
ReplayFaithful ==
  Running =>
    /\ ~ AtJump /\ ~ AtEnd => Agrees(slice.ev[rk])
    /\ rk > 1 => /\ ra0 = slice.ev[rk - 1].a0
                 /\ rval = slice.ev[rk - 1].val

(* A replayed slice stops at its breakpoint: the REPLAY_EXIT item is met    *)
(* when the recorded instructions have all been executed, and not before.   *)
ReplayStopsAtBreak ==
  Running /\ ~ Tracing =>
    /\ AtEnd => AtJump
    /\ AtJump => rpos < Len(rtab) /\ (NextCall.brk <=> AtEnd)

(* check_stores never panics: the asserted stores of a slice have their     *)
(* recorded final values when its replay ends.                              *)
StoreAssertionsHold ==
  rstat = "finish" =>
    \A s \in slice.dump.asserts : \A a \in DOMAIN s.data : rmem[a] = s.data[a]

(* The rerun of a slice whose breakpoint repeats is stopped before the      *)
(* breakpoint itself is executed; otherwise parse.py waits on and ends with *)
(* 'incomplete execution'.                                                  *)
RerunFindsBreak == Running /\ Tracing => ~ AtEnd

(* "This output line is expected to be completed with a return value": the  *)
(* log never starts another line behind an open syscall line.               *)
LogWellFormed == line # "garbled"

(* "The breakpoint instruction is not executed between two consecutive      *)
(* checkpoints" (fmt.h:403): the slices of a run follow each other with     *)
(* exactly the breakpoint between them, and a slice has recorded every      *)
(* instruction from its begin_instret up to its breakpoint.                 *)
Concatenates ==
  [][ slice' # slice =>
        /\ slice # NoSlice => slice'.begin = slice.end + 1
        /\ Len(slice'.ev) = slice'.end - slice'.begin ]_vars

(* Every replay reaches REPLAY_EXIT, if the machine goes on executing.      *)
ReplayEnds == phase = "replay" ~> rstat = "finish"
=============================================================================
