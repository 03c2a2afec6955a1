---------------------------- MODULE Interrupts ----------------------------
(***************************************************************************)
(* Interrupts, traps and reset of rv-sys (emu/processor-priv-1.9.h, the    *)
(* timer, PLIC, IPI, UART and GPIO devices).  The processor asks its       *)
(* devices only at the start of a step of InstStep instructions.           *)
(*                                                                         *)
(* The guest is external: an application, and handlers that serve what     *)
(* they were called for and return.  ctx is what the guest believes to be  *)
(* running, innermost last; mode, pc and the status fields are what the    *)
(* processor has made of it.  The code at depth d is at address 10 * d,    *)
(* and only a reset moves pc otherwise.  Left out, because this guest does *)
(* not read them: mcause, scause and the RTC's copy of the time.           *)
(***************************************************************************)
EXTENDS Integers, Sequences, FiniteSets, SequencesExt, FiniteSetsExt

CONSTANTS
    InstSteps,       \* lengths of a step, in instructions (100000 in the code)
    Setups,          \* guests: see MEnabled, SEnabled and Delegated
    CyclesPerTick,   \* host cycles per tick of the guest's clock (RTC_DIV)
    Intervals,       \* how many ticks ahead the guest asks for its timer
    MaxTime,         \* bound: host cycles
    MaxChars,        \* bound: characters that arrive
    MaxIpi,          \* bound: interprocessor interrupts the guest sends
    MaxGpio,         \* bound: GPIO interrupts the guest raises
    MaxCalls,        \* bound: environment calls of the application
    MaxReset         \* bound: resets

U == 0
S == 1
M == 3

Kinds == {"external", "timer", "software"}
Levels == {"m", "s"}
UART == 3
GPIO == 4
ResetVec == 0

ASSUME InterruptsAssumption ==
    /\ InstSteps \subseteq Nat \ {0} /\ CyclesPerTick \in Nat \ {0}
    /\ Setups \subseteq {"machine", "supervisor", "split"}
    /\ Intervals \subseteq Nat \ {0} /\ MaxTime \in Nat \ {0}
    /\ {MaxChars, MaxIpi, MaxGpio, MaxCalls, MaxReset} \subseteq Nat

VARIABLES
    setup, InstStep,              \* the guest and the length of a step
    mode, pc, status, epc, mip,   \* the processor; status is mstatus
    left,                         \* instructions left in this step
    time,                         \* the host's cycle counter
    timecmp, claimed,             \* timer device
    pending, served,              \* PLIC
    chars, gpio, ipi,             \* sources: input queue, gpio.ip, hart[0]
    ctx,                          \* what the guest believes to be running
    arrived, sent, raised, calls, resets  \* how often, for the bounds

machine == <<setup, InstStep>>
cpu == <<mode, pc, status, epc, mip>>
timer == <<timecmp, claimed>>
plic == <<pending, served>>
sources == <<chars, gpio, ipi>>
counts == <<arrived, sent, raised, calls, resets>>
vars == <<machine, cpu, left, time, timer, plic, sources, ctx, counts>>

\* The bits the guest sets in mie, by level, and whether medeleg sends
\* exceptions to S mode.
MEnabled == CASE setup = "machine"    -> Kinds
              [] setup = "supervisor" -> {}
              [] setup = "split"      -> {"timer"}

SEnabled == CASE setup = "machine"    -> {}
              [] setup = "supervisor" -> Kinds
              [] setup = "split"      -> {"external"}

Delegated == setup # "machine"

Frame(m, c) == [mode |-> m, cause |-> c, at |-> "entry", irq |-> 0]

Top == Last(ctx)

\* What firmware sets up before it starts the application in U mode.
Booted ==
    /\ mode' = U /\ pc' = 10
    /\ status' = [mie |-> TRUE, mpie |-> FALSE, mpp |-> U,
                  sie |-> TRUE, spie |-> FALSE, spp |-> U]
    /\ ctx' = <<Frame(U, "none")>>

Init ==
    /\ setup \in Setups /\ InstStep \in InstSteps
    /\ mode = M /\ pc = ResetVec
    /\ status = [mie |-> FALSE, mpie |-> FALSE, mpp |-> U,
                 sie |-> FALSE, spie |-> FALSE, spp |-> U]
    /\ epc = [l \in Levels |-> 0] /\ mip = {}
    /\ left = 0 /\ time = 1
    /\ timecmp = 0 /\ claimed = -1
    /\ pending = {} /\ served = {}
    /\ chars = 0 /\ gpio = FALSE /\ ipi = FALSE
    /\ ctx = <<>>
    /\ arrived = 0 /\ sent = 0 /\ raised = 0 /\ calls = 0 /\ resets = 0

----------------------------------------------------------------------------
(***************************************************************************)
(* Traps and returns.                                                      *)
(***************************************************************************)
mtrap(cause) ==
    /\ epc' = [epc EXCEPT !["m"] = pc]
    /\ status' = [status EXCEPT !.mpp = mode, !.mpie = status.mie,
                                !.mie = FALSE]
    /\ mode' = M
    /\ pc' = 10 * (Len(ctx) + 1)
    /\ ctx' = Append(ctx, Frame(M, cause))

\* spp is one bit.
strap(cause) ==
    /\ epc' = [epc EXCEPT !["s"] = pc]
    /\ status' = [status EXCEPT !.spp = mode % 2, !.spie = status.sie,
                                !.sie = FALSE]
    /\ mode' = S
    /\ pc' = 10 * (Len(ctx) + 1)
    /\ ctx' = Append(ctx, Frame(S, cause))

TrapTo(level, cause) == IF level = "m" THEN mtrap(cause) ELSE strap(cause)

\* A plausible mistake, here and in sret: interrupts are not enabled again.
mretForgetsEnable ==
    /\ mode >= M
    /\ mode' = status.mpp
    /\ status' = [status EXCEPT !.mpp = U, !.mpie = FALSE]
    /\ pc' = epc["m"]

mret ==
    /\ mode >= M
    /\ mode' = status.mpp
    /\ status' = [status EXCEPT !.mpp = U, !.mie = status.mpie, !.mpie = FALSE]
    /\ pc' = epc["m"]

sretForgetsEnable ==
    /\ mode >= S
    /\ mode' = status.spp
    /\ status' = [status EXCEPT !.spp = U, !.spie = FALSE]
    /\ pc' = epc["s"]

sret ==
    /\ mode >= S
    /\ mode' = status.spp
    /\ status' = [status EXCEPT !.spp = U, !.sie = status.spie, !.spie = FALSE]
    /\ pc' = epc["s"]

(***************************************************************************)
(* isr.  Whether an interrupt of a kind is taken, and in which mode.       *)
(***************************************************************************)
EnabledLevel(kind) ==
    IF status.mie /\ kind \in MEnabled THEN "m"
    ELSE IF status.sie /\ kind \in SEnabled THEN "s"
    ELSE "none"

SetPending(bits, kind, on) ==
    IF on THEN bits \cup {<<"m", kind>>, <<"s", kind>>}
          ELSE bits \ {<<"m", kind>>, <<"s", kind>>}

\* uart.service and gpio.service drive the lines of the PLIC.
LinesUartOnly == IF chars > 0 THEN {UART} ELSE {}

Lines == (IF chars > 0 THEN {UART} ELSE {}) \cup (IF gpio THEN {GPIO} ELSE {})

irq_pending == pending' \ served # {}

TimerDue(t) == timecmp <= t

\* timer_pending answers TRUE once for each store to timecmp, which the guest
\* counts in ticks and the device compares with the host's cycles: the
\* interrupt comes early whenever a tick takes more than one cycle.
timer_pending(t) == claimed = 0 /\ TimerDue(t)

\* The guest's clock, csr time.
rdtime(t) == t \div CyclesPerTick

NoTrap == UNCHANGED <<mode, pc, status, epc, ctx>>

isr ==
    /\ left = 0
    /\ left' = InstStep
    /\ time' \in {time, time + 1} /\ time' <= MaxTime
    /\ pending' = Lines
    /\ LET eip == irq_pending
           tip == timer_pending(time')
           sip == ipi \/ chars > 0
           ext == EnabledLevel("external")
           tim == EnabledLevel("timer")
           sft == EnabledLevel("software")
           mip1 == SetPending(mip, "external", eip)
           mip2 == SetPending(mip1, "timer", tip)
       IN  IF eip /\ ext # "none"
             THEN /\ TrapTo(ext, "external") /\ mip' = mip1
                  /\ UNCHANGED claimed
             ELSE /\ claimed' = IF tip THEN time' ELSE claimed
                  /\ IF tip /\ tim # "none"
                       THEN TrapTo(tim, "timer") /\ mip' = mip2
                       ELSE /\ mip' = SetPending(mip2, "software", sip)
                            /\ IF sip /\ sft # "none"
                                 THEN TrapTo(sft, "software")
                                 ELSE NoTrap
    /\ UNCHANGED <<machine, timecmp, served, sources, counts>>

----------------------------------------------------------------------------
(***************************************************************************)
(* Instructions of the guest.  An instruction that traps does not count.   *)
(***************************************************************************)
Retires == left > 0 /\ left' = left - 1

Running(cause, at) == ctx # <<>> /\ Top.cause = cause /\ Top.at = at

Continue(at) == ctx' = [ctx EXCEPT ![Len(ctx)].at = at]

SetTimer ==
    /\ \E ticks \in Intervals : timecmp' = rdtime(time) + ticks
    /\ claimed' = 0

\* The boot code, wherever it starts: it enables the guest's interrupts and
\* sets the timer.
Boot ==
    /\ ctx = <<>> /\ Retires
    /\ Booted
    /\ SetTimer
    /\ UNCHANGED <<machine, epc, mip, time, plic, sources, counts>>

OtherInstruction ==
    /\ Running("none", "entry") /\ Retires
    /\ UNCHANGED <<machine, cpu, time, timer, plic, sources, ctx, counts>>

\* trap() for an environment call: delegated or not; the bits of the level
\* it goes to are cleared in mip.
ecall ==
    /\ Running("none", "entry") /\ left > 0 /\ calls < MaxCalls
    /\ calls' = calls + 1
    /\ IF Delegated
         THEN strap("ecall") /\ mip' = mip \ ({"s"} \X Kinds)
         ELSE mtrap("ecall") /\ mip' = mip \ ({"m"} \X Kinds)
    /\ UNCHANGED <<machine, left, time, timer, plic, sources, arrived, sent,
                   raised, resets>>

\* Stores to hart[0] of the IPI device and to the GPIO's ip.
SendIpi ==
    /\ Running("none", "entry") /\ Retires /\ sent < MaxIpi
    /\ sent' = sent + 1 /\ ipi' = TRUE
    /\ UNCHANGED <<machine, cpu, time, timer, plic, chars, gpio, ctx,
                   arrived, raised, calls, resets>>

RaiseGpio ==
    /\ Running("none", "entry") /\ Retires /\ raised < MaxGpio
    /\ raised' = raised + 1 /\ gpio' = TRUE
    /\ UNCHANGED <<machine, cpu, time, timer, plic, chars, ipi, ctx, arrived,
                   sent, calls, resets>>

\* The load that claims an interrupt: the lowest line pending and not served.
\* It returns the line's number plus one.
ServedShifted(lines) == served \cup {Min(lines) + 1}

ServedAfter(lines) == served \cup {Min(lines)}

Claim ==
    LET lines == pending \ served IN
    /\ Running("external", "entry") /\ Retires
    /\ IF lines = {}
         THEN Continue("return") /\ UNCHANGED served
         ELSE /\ served' = ServedAfter(lines)
              /\ ctx' = [ctx EXCEPT ![Len(ctx)].at = "serve",
                                    ![Len(ctx)].irq = Min(lines) + 1]
    /\ UNCHANGED <<machine, cpu, time, timer, pending, sources, counts>>

\* The handler reads the UART's receive buffer or clears the GPIO's ip.
Serve ==
    /\ Running("external", "serve") /\ Retires
    /\ chars' = IF Top.irq = UART + 1 /\ chars > 0 THEN chars - 1 ELSE chars
    /\ gpio' = (gpio /\ Top.irq # GPIO + 1)
    /\ Continue("complete")
    /\ UNCHANGED <<machine, cpu, time, timer, plic, ipi, counts>>

\* The store that completes it takes the number that the claim returned.
CompletedUnshifted(val) == served \ {val}

Completed(val) == served \ {val - 1}

Complete ==
    /\ Running("external", "complete") /\ Retires
    /\ served' = Completed(Top.irq)
    /\ Continue("return")
    /\ UNCHANGED <<machine, cpu, time, timer, pending, sources, counts>>

\* The timer's handler asks for the next interrupt.
StoreTimecmp ==
    /\ Running("timer", "entry") /\ Retires
    /\ SetTimer
    /\ Continue("return")
    /\ UNCHANGED <<machine, cpu, time, plic, sources, counts>>

\* The handler of software interrupts clears hart[0].
ServeSoftware ==
    /\ Running("software", "entry") /\ Retires
    /\ ipi' = FALSE
    /\ Continue("return")
    /\ UNCHANGED <<machine, cpu, time, timer, plic, chars, gpio, counts>>

HandleCall ==
    /\ Running("ecall", "entry") /\ Retires
    /\ Continue("return")
    /\ UNCHANGED <<machine, cpu, time, timer, plic, sources, counts>>

Return ==
    /\ ctx # <<>> /\ Top.at = "return" /\ Retires
    /\ IF Top.mode = M THEN mret ELSE sret
    /\ ctx' = Front(ctx)
    /\ UNCHANGED <<machine, epc, mip, time, timer, plic, sources, counts>>

(***************************************************************************)
(* Reset: by SIGHUP, which jumps back into the step, or by a store to the  *)
(* GPIO's out, after which the store itself is completed.                  *)
(***************************************************************************)
reset ==
    /\ mode' = M
    /\ status' = [status EXCEPT !.mie = FALSE]
    /\ ctx' = <<>>

ResetBySignal ==
    /\ ctx # <<>> /\ resets < MaxReset
    /\ resets' = resets + 1
    /\ reset /\ pc' = ResetVec
    /\ UNCHANGED <<machine, epc, mip, left, time, timer, plic, sources,
                   arrived, sent, raised, calls>>

ResetByGpio ==
    /\ Running("none", "entry") /\ Retires /\ resets < MaxReset
    /\ resets' = resets + 1
    /\ reset /\ pc' = ResetVec + 4
    /\ UNCHANGED <<machine, epc, mip, time, timer, plic, sources, arrived,
                   sent, raised, calls>>

\* The console thread.
Arrive ==
    /\ arrived < MaxChars
    /\ arrived' = arrived + 1 /\ chars' = chars + 1
    /\ UNCHANGED <<machine, cpu, left, time, timer, plic, gpio, ipi, ctx,
                   sent, raised, calls, resets>>

Instruction ==
    \/ Boot \/ OtherInstruction \/ ecall \/ SendIpi \/ RaiseGpio
    \/ Claim \/ Serve \/ Complete \/ StoreTimecmp \/ ServeSoftware
    \/ HandleCall \/ Return \/ ResetByGpio

Processor == isr \/ Instruction

Next == Processor \/ ResetBySignal \/ Arrive

\* The processor goes on, and the host's clock with it; nothing else needs to
\* happen.
Fairness == WF_vars(Processor) /\ SF_vars(isr /\ time' > time)

Spec == Init /\ [][Next]_vars /\ Fairness

----------------------------------------------------------------------------
(***************************************************************************)
(* Properties.                                                             *)
(***************************************************************************)

\* The fields have their widths, and the PLIC knows only the lines that exist.
TypeOK ==
    /\ mode \in {U, S, M}
    /\ status \in [mie : BOOLEAN, mpie : BOOLEAN, mpp : {U, S, M},
                   sie : BOOLEAN, spie : BOOLEAN, spp : {U, S}]
    /\ mip \subseteq Levels \X Kinds
    /\ left \in 0..InstStep /\ time \in 1..MaxTime
    /\ claimed \in -1 .. MaxTime
    /\ {pending, served} \subseteq SUBSET {UART, GPIO}
    /\ chars \in 0..MaxChars

\* The processor runs what the guest believes to be running: a return brings
\* back the mode and the place that the trap interrupted, and interrupts are
\* enabled again in the application (mtrap, strap, mret, sret).  A reset keeps
\* this true only for a guest without supervisor interrupts: it leaves sie set.
ReturnsToInterrupted ==
    ctx # <<>> /\ (resets = 0 \/ SEnabled = {}) =>
        /\ mode = Top.mode /\ pc = 10 * Len(ctx)
        /\ Len(ctx) = 1 => status.mie /\ status.sie

\* Until a reset, which leaves the devices alone, an interrupt is marked served
\* exactly while a handler works on it; a bit left behind would silence the
\* device for good (PLIC claim and complete).
ServedIffHandled ==
    resets = 0 =>
        served = {ctx[i].irq - 1 : i \in {j \in 1 .. Len(ctx) :
                      /\ ctx[j].cause = "external"
                      /\ ctx[j].at \in {"serve", "complete"}}}

\* A character that has raised the UART's interrupt is read.
ExternalServed ==
    \A n \in 1 .. MaxChars :
        (chars >= n /\ resets = 0) ~> (chars < n \/ resets > 0)

\* The GPIO's interrupt, which shares the PLIC with the UART's, is served.
GpioServed == (gpio /\ resets = 0) ~> (~gpio \/ resets > 0)

\* An interprocessor interrupt is served, although isr tests the software
\* interrupt last and takes one a step, if from some time on no timer is due:
\* a guest whose timer is due in every step never gets to it.
SoftwareServed ==
    <>[]~timer_pending(time) =>
        ((ipi /\ resets = 0) ~> (~ipi \/ resets > 0))

\* A timer interrupt that the guest has asked for reaches its handler
\* ("service timer interrupts if enabled"), if no handler is still at work
\* when a step begins: a step is long enough for a handler, and the
\* application makes no call, which could come at the end of a step.
TimerServed ==
    (/\ claimed = 0 /\ timecmp <= MaxTime
     /\ InstStep >= 4 /\ resets = 0 /\ calls = 0)
        ~> (\/ \E i \in DOMAIN ctx : ctx[i].cause = "timer"
            \/ resets > 0 \/ calls > 0)

\* The invariants of the interrupt devices together: the fields keep their
\* widths, and the PLIC marks what is being served.
InterruptsInv == TypeOK /\ ServedIffHandled

\* Interrupts of every device but the timer are served, in spite of the fixed
\* order in which isr tests them.
DevicesServed == ExternalServed /\ GpioServed /\ SoftwareServed
=============================================================================
