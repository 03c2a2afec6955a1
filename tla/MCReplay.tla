------------------------------ MODULE MCReplay ------------------------------
(***************************************************************************)
(* Small guest programs for Replay.  Code is at low addresses and data at  *)
(* high ones; the programs of the passing runs never read or write code.   *)
(***************************************************************************)
EXTENDS Replay

I(pc, len, op, rd, base, size) ==
  [pc |-> pc, len |-> len, op |-> op, rd |-> rd, base |-> base, size |-> size]

MCAddr == 2..21
MCHash == [a \in MCAddr |-> a % 2]
MCMem  == [a \in MCAddr |-> 1]

\* An ecall with a two-byte buffer, a compressed store of one of its bytes,
\* and atomics: the system calls, exit, the breakpoints at an ecall and at a
\* new instruction, and accesses of different widths that overlap.
ProgCalls ==
  { I(4, 4, "ecall", 0, 20, 2), I(8, 2, "store", 0, 20, 1),
    I(10, 4, "amo", A0, 20, 2), I(16, 4, "sc", 5, 21, 1),
    I(16, 4, "scfail", 5, 21, 1) }

\* Uncompressed instructions that a breakpoint can replace, one of them not
\* aligned to 4 and one an ecall: breakpoints that repeat.
ProgRepeat ==
  { I(4, 4, "ecall", 0, 20, 1), I(10, 4, "load", 5, 20, 1),
    I(8, 2, "store", 0, 20, 1) }

\* A compressed load of one byte of an instruction that is executed later.
ProgOwnCode ==
  { I(4, 4, "alu", 5, 20, 0), I(8, 2, "load", 5, 4, 1), I(12, 4, "alu", 6, 20, 0) }
=============================================================================
