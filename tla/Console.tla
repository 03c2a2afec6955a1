------------------------------ MODULE Console ------------------------------
(***************************************************************************)
(* The console thread of rv-sys (emu/console.h) and the processor thread   *)
(* that talks to it: input goes from the terminal through a queue to the   *)
(* guest and raises an interrupt at the start of a step; output goes from  *)
(* the guest through a pipe to the terminal; WFI sleeps on a condition     *)
(* variable that the console thread signals; the debugger suspends the     *)
(* console's reads; shutdown stops the thread and waits for it.            *)
(*                                                                         *)
(* The queue is the abstract one: module AtomicQueue shows that the ring   *)
(* buffer with one producer and one consumer implements it.                *)
(***************************************************************************)
EXTENDS Integers, Sequences, SequencesExt

CONSTANTS
    QueueSize,    \* characters the queue holds (1024 in the code)
    PipeSize,     \* bytes the pipe holds
    BufSize,      \* the buffers of process_input and process_output (256)
    InstStep,     \* instructions between two calls of isr (100000)
    MaxType,      \* bound: characters the user types
    MaxWrite,     \* bound: characters the guest writes
    MaxBreak,     \* bound: breakpoints that are hit
    MaxSignal,    \* bound: signals that arrive
    DebugStart    \* the flag --debug: start in the debugger

ASSUME ConsoleAssumption ==
    /\ QueueSize \in Nat \ {0} /\ PipeSize \in Nat \ {0}
    /\ BufSize \in Nat \ {0} /\ InstStep \in Nat \ {0}
    /\ MaxType \in Nat /\ MaxWrite \in Nat
    /\ MaxBreak \in Nat /\ MaxSignal \in Nat
    /\ DebugStart \in BOOLEAN

VARIABLES
    cpc, revents, buf,        \* the console thread and its locals
    ppc, left,                \* the processor thread, what is left of its step
    running, suspended,       \* the flags of console_device
    mutex, waiting,           \* owner of intr_mutex, a wait on intr_cond
    queue, got, dropped,      \* input queue; what the guest read; refused
    pipe, pipeOpen, lost,     \* output pipe; what did not fit
    screen, written,          \* what the terminal shows, characters written
    stdin, typed,             \* input not read yet, characters typed
    tty, oldTio,              \* the terminal's mode and the one saved
    cliGot,                   \* what the debugger read
    masked, signals, breaks   \* signals blocked; how many of each there were

console == <<cpc, revents, buf>>
proc == <<ppc, left>>
flags == <<running, suspended>>
sync == <<mutex, waiting>>
input == <<queue, got, dropped>>
output == <<pipe, pipeOpen, lost, screen, written>>
user == <<stdin, typed>>
modes == <<tty, oldTio>>
debug == <<cliGot, masked, signals, breaks>>
vars == <<console, proc, flags, sync, input, output, user, modes, debug>>

Init ==
    /\ cpc = "start" /\ revents = {} /\ buf = <<>>
    /\ ppc = (IF DebugStart THEN "debug_enter" ELSE "isr") /\ left = InstStep
    /\ running = TRUE /\ suspended = FALSE
    /\ mutex = "free" /\ waiting = FALSE
    /\ queue = <<>> /\ got = <<>> /\ dropped = {}
    /\ pipe = <<>> /\ pipeOpen = FALSE /\ lost = {}
    /\ screen = <<>> /\ written = 0
    /\ stdin = <<>> /\ typed = 0
    /\ tty = "cooked" /\ oldTio = "unset"
    /\ cliGot = {}
    /\ masked = {} /\ signals = 0 /\ breaks = 0

----------------------------------------------------------------------------
(***************************************************************************)
(* The console thread.                                                     *)
(***************************************************************************)
BufLen(s) == IF Len(s) < BufSize THEN Len(s) ELSE BufSize

configure_console == oldTio' = tty /\ tty' = "raw"

RestoreNothing == UNCHANGED modes

restore_console == tty' = oldTio /\ UNCHANGED oldTio

open_pipe ==
    /\ cpc = "start"
    /\ pipeOpen' = TRUE /\ cpc' = "configure"
    /\ UNCHANGED <<revents, buf, proc, flags, sync, input, pipe, lost,
                   screen, written, user, modes, debug>>

StartConsole ==
    /\ cpc = "configure"
    /\ configure_console
    /\ cpc' = "check"
    /\ UNCHANGED <<revents, buf, proc, flags, sync, input, output, user,
                   debug>>

CheckRunning ==
    /\ cpc = "check"
    /\ cpc' = IF running THEN "poll" ELSE "exit"
    /\ UNCHANGED <<revents, buf, proc, flags, sync, input, output, user,
                   modes, debug>>

\* A plausible mistake: only the terminal is polled.
PollTerminal ==
    /\ cpc = "poll"
    /\ stdin # <<>>
    /\ revents' = {"stdin"} \cup (IF pipe # <<>> THEN {"pipe"} ELSE {})
    /\ cpc' = "output"
    /\ UNCHANGED <<buf, proc, flags, sync, input, output, user, modes,
                   debug>>

Poll ==
    /\ cpc = "poll"
    /\ pipe # <<>> \/ stdin # <<>>
    /\ revents' = (IF stdin # <<>> THEN {"stdin"} ELSE {})
                  \cup (IF pipe # <<>> THEN {"pipe"} ELSE {})
    /\ cpc' = "output"
    /\ UNCHANGED <<buf, proc, flags, sync, input, output, user, modes,
                   debug>>

process_output ==
    LET n == IF "pipe" \in revents THEN BufLen(pipe) ELSE 0 IN
    /\ cpc = "output"
    /\ screen' = screen \o SubSeq(pipe, 1, n)
    /\ pipe' = SubSeq(pipe, n + 1, Len(pipe))
    /\ cpc' = "gate"
    /\ UNCHANGED <<revents, buf, proc, flags, sync, input, pipeOpen, lost,
                   written, user, modes, debug>>

CheckSuspended ==
    /\ cpc = "gate"
    /\ cpc' = CASE ~running -> "exit"
                [] running /\ (suspended \/ "stdin" \notin revents) -> "check"
                [] OTHER -> "read"
    /\ UNCHANGED <<revents, buf, proc, flags, sync, input, output, user,
                   modes, debug>>

\* read(STDIN_FILENO): blocks when the debugger has taken the input meanwhile.
ReadTerminal ==
    /\ cpc = "read" /\ stdin # <<>>
    /\ buf' = SubSeq(stdin, 1, BufLen(stdin))
    /\ stdin' = SubSeq(stdin, BufLen(stdin) + 1, Len(stdin))
    /\ cpc' = "lock"
    /\ UNCHANGED <<revents, proc, flags, sync, input, output, typed, modes,
                   debug>>

LockQueue ==
    /\ cpc = "lock" /\ mutex = "free"
    /\ mutex' = "console" /\ cpc' = "push"
    /\ UNCHANGED <<revents, buf, proc, flags, waiting, input, output, user,
                   modes, debug>>

PushUnchecked(c) == queue' = Append(queue, c) /\ UNCHANGED dropped

\* The caller ignores the answer: a character that does not fit is dropped.
push_back(c) ==
    IF Len(queue) < QueueSize
      THEN queue' = Append(queue, c) /\ UNCHANGED dropped
      ELSE dropped' = dropped \cup {c} /\ UNCHANGED queue

PushChar ==
    /\ cpc = "push" /\ buf # <<>>
    /\ push_back(Head(buf))
    /\ buf' = Tail(buf)
    /\ UNCHANGED <<cpc, revents, proc, flags, sync, got, output, user,
                   modes, debug>>

NotifyAndUnlock ==
    /\ cpc = "push" /\ buf = <<>>
    /\ waiting' = FALSE
    /\ mutex' = "free" /\ cpc' = "check"
    /\ UNCHANGED <<revents, buf, proc, flags, input, output, user, modes,
                   debug>>

ExitConsole ==
    /\ cpc = "exit"
    /\ restore_console
    /\ pipeOpen' = FALSE /\ cpc' = "done"
    /\ UNCHANGED <<revents, buf, proc, flags, sync, input, pipe, lost,
                   screen, written, user, debug>>

ConsoleThread ==
    \/ open_pipe \/ StartConsole \/ CheckRunning \/ Poll \/ process_output
    \/ CheckSuspended \/ ReadTerminal \/ LockQueue \/ PushChar
    \/ NotifyAndUnlock \/ ExitConsole

----------------------------------------------------------------------------
(***************************************************************************)
(* The processor thread.  A step starts with isr and executes InstStep     *)
(* instructions.                                                           *)
(***************************************************************************)

\* has_char is a source of the software interrupt and of the UART's; the
\* interrupted guest reads a character.
isr ==
    /\ ppc = "isr"
    /\ ppc' = IF queue # <<>> THEN "handler" ELSE "run"
    /\ left' = InstStep
    /\ UNCHANGED <<console, flags, sync, input, output, user, modes, debug>>

\* A plausible mistake: the front is read and not advanced.
PopKeeps == got' = Append(got, Head(queue)) /\ UNCHANGED queue

pop_front ==
    /\ got' = Append(got, Head(queue))
    /\ queue' = Tail(queue)

read_char ==
    /\ ppc = "handler"
    /\ IF queue # <<>> THEN pop_front ELSE UNCHANGED <<got, queue>>
    /\ ppc' = "run" /\ left' = left - 1
    /\ UNCHANGED <<console, flags, sync, dropped, output, user, modes,
                   debug>>

\* A plausible mistake: the processor thread writes to the terminal itself
\* when the pipe is full.
WriteAround(c) ==
    IF pipeOpen /\ Len(pipe) < PipeSize
      THEN pipe' = Append(pipe, c) /\ UNCHANGED <<screen, lost>>
      ELSE screen' = Append(screen, c) /\ UNCHANGED <<pipe, lost>>

\* write(pipefds[1], &c, 1): before open_pipe the descriptors are 0, the
\* terminal; then the pipe does not block, and one that is full, or that the
\* console thread has closed, refuses.
WriteByte(c) ==
    CASE cpc = "start" ->
            screen' = Append(screen, c) /\ UNCHANGED <<pipe, lost>>
      [] cpc # "start" /\ pipeOpen /\ Len(pipe) < PipeSize ->
            pipe' = Append(pipe, c) /\ UNCHANGED <<screen, lost>>
      [] OTHER -> lost' = lost \cup {c} /\ UNCHANGED <<screen, pipe>>

write_char ==
    /\ ppc = "run" /\ left > 0 /\ written < MaxWrite
    /\ written' = written + 1
    /\ WriteByte(written')
    /\ left' = left - 1
    /\ UNCHANGED <<console, ppc, flags, sync, input, pipeOpen, user, modes,
                   debug>>

\* An instruction that does not concern the console, a WFI among them that
\* comes before the powerdown delay is over and only yields.
OtherInstruction ==
    /\ ppc = "run" /\ left > 0
    /\ left' = left - 1
    /\ UNCHANGED <<console, ppc, flags, sync, input, output, user, modes,
                   debug>>

EndStep ==
    /\ ppc = "run" /\ left = 0
    /\ ppc' = "isr"
    /\ UNCHANGED <<console, left, flags, sync, input, output, user, modes,
                   debug>>

(***************************************************************************)
(* wait_for_interrupt: whether the delay is over is a matter of time, and  *)
(* so a choice.  The wait ends when it is notified or after a millisecond; *)
(* which of the two only decides the next delay.                           *)
(***************************************************************************)
SleepOnInterrupt ==
    /\ ppc = "run" /\ left > 0
    /\ ppc' = "wfi_lock"
    /\ UNCHANGED <<console, left, flags, sync, input, output, user, modes,
                   debug>>

LockInterrupt ==
    /\ ppc = "wfi_lock" /\ mutex = "free"
    /\ mutex' = "proc" /\ ppc' = "wfi_locked"
    /\ UNCHANGED <<console, left, flags, waiting, input, output, user,
                   modes, debug>>

Wait ==
    /\ ppc = "wfi_locked"
    /\ mutex' = "free" /\ waiting' = TRUE /\ ppc' = "wfi_wait"
    /\ UNCHANGED <<console, left, flags, input, output, user, modes, debug>>

\* A plausible mistake: the wait is repeated until it is notified.
TimeoutRepeats ==
    /\ ppc = "wfi_wait" /\ waiting
    /\ UNCHANGED vars

Timeout ==
    /\ ppc = "wfi_wait" /\ waiting
    /\ waiting' = FALSE
    /\ UNCHANGED <<console, proc, flags, mutex, input, output, user, modes,
                   debug>>

Wake ==
    /\ ppc = "wfi_wait" /\ ~waiting /\ mutex = "free"
    /\ mutex' = "proc" /\ ppc' = "wfi_woken"
    /\ UNCHANGED <<console, left, flags, waiting, input, output, user,
                   modes, debug>>

UnlockInterrupt ==
    /\ ppc = "wfi_woken"
    /\ mutex' = "free" /\ ppc' = "run" /\ left' = left - 1
    /\ UNCHANGED <<console, flags, waiting, input, output, user, modes,
                   debug>>

wait_for_interrupt ==
    \/ SleepOnInterrupt \/ LockInterrupt \/ Wait \/ Timeout \/ Wake
    \/ UnlockInterrupt

(***************************************************************************)
(* Signals, whose handler jumps out of whatever the thread is doing, to    *)
(* the setjmp of the step: SIGINT enters the debugger, SIGHUP resets the   *)
(* guest, which goes on with its step; SIGTERM, and SIGQUIT, SIGSEGV and   *)
(* SIGUSR1 like it, switch the machine off.  setjmp saves no signal mask,  *)
(* so a signal stays blocked after its handler has been left that way.  A  *)
(* signal that comes between two steps, in isr, the debugger or shutdown,  *)
(* would jump to a step that is over or not yet begun, which is undefined. *)
(***************************************************************************)
Signals == {"SIGINT", "SIGHUP", "SIGTERM"}

JumpTo == [SIGINT |-> "debug_enter", SIGHUP |-> "run", SIGTERM |-> "stop_flag"]

signal ==
    /\ ppc \in {"run", "handler", "wfi_lock", "wfi_locked", "wfi_wait",
                "wfi_woken"}
    /\ signals < MaxSignal /\ signals' = signals + 1
    /\ \E sig \in Signals \ masked :
           masked' = masked \cup {sig} /\ ppc' = JumpTo[sig]
    /\ waiting' = FALSE
    /\ UNCHANGED <<console, left, flags, mutex, input, output, user, modes,
                   cliGot, breaks>>

\* The debugger, entered at a breakpoint or by SIGINT.
HitBreakpoint ==
    /\ ppc = "run" /\ left > 0 /\ breaks < MaxBreak
    /\ breaks' = breaks + 1
    /\ ppc' = "debug_enter"
    /\ UNCHANGED <<console, left, flags, sync, input, output, user, modes,
                   cliGot, masked, signals>>

\* The console thread is up when a breakpoint or a signal stops the guest;
\* only with --debug the debugger may be faster.
debug_enter ==
    /\ ppc = "debug_enter"
    /\ DebugStart \/ cpc \notin {"start", "configure"}
    /\ restore_console
    /\ suspended' = TRUE
    /\ ppc' = "debug"
    /\ UNCHANGED <<console, left, running, sync, input, output, user,
                   debug>>

getline ==
    /\ ppc = "debug" /\ stdin # <<>>
    /\ cliGot' = cliGot \cup {Head(stdin)}
    /\ stdin' = Tail(stdin)
    /\ UNCHANGED <<console, proc, flags, sync, input, output, typed, modes,
                   masked, signals, breaks>>

debug_leave ==
    /\ ppc = "debug"
    /\ configure_console
    /\ suspended' = FALSE
    /\ ppc' = "isr"
    /\ UNCHANGED <<console, left, running, sync, input, output, user,
                   debug>>

\* The command quit: exit() ends both threads.
cmd_quit ==
    /\ ppc = "debug"
    /\ ppc' = "off" /\ cpc' = "done"
    /\ UNCHANGED <<revents, buf, left, flags, sync, input, output, user,
                   modes, debug>>

Debugger ==
    \/ HitBreakpoint \/ debug_enter \/ getline \/ debug_leave \/ cmd_quit

PowerOff ==
    /\ ppc = "run" /\ left > 0
    /\ ppc' = "stop_flag"
    /\ UNCHANGED <<console, left, flags, sync, input, output, user, modes,
                   debug>>

ShutdownSteps(first, second) ==
    \/ /\ ppc = first
       /\ running' = FALSE
       /\ ppc' = (IF first = "stop_flag" THEN second ELSE "join")
       /\ UNCHANGED <<console, left, suspended, sync, input, output, user,
                      modes, debug>>
    \/ /\ ppc = second
       /\ WriteByte(0)
       /\ ppc' = (IF second = "stop_flag" THEN first ELSE "join")
       /\ UNCHANGED <<console, left, flags, sync, input, pipeOpen, written,
                      user, modes, debug>>
    \/ /\ ppc = "join" /\ cpc = "done"
       /\ ppc' = "off"
       /\ UNCHANGED <<console, left, flags, sync, input, output, user,
                      modes, debug>>

\* A plausible mistake: the byte that wakes the thread is written first.
ShutdownByteFirst == ShutdownSteps("stop_byte", "stop_flag")

shutdown == ShutdownSteps("stop_flag", "stop_byte")

ProcessorThread ==
    \/ isr \/ read_char \/ write_char \/ OtherInstruction \/ EndStep
    \/ wait_for_interrupt \/ PowerOff \/ shutdown

\* The user.
Type ==
    /\ typed < MaxType /\ ppc # "off"
    /\ typed' = typed + 1
    /\ stdin' = Append(stdin, typed')
    /\ UNCHANGED <<console, proc, flags, sync, input, output, modes, debug>>

Terminated == ppc = "off" /\ UNCHANGED vars

Next ==
    \/ ConsoleThread \/ ProcessorThread \/ signal \/ Debugger \/ Type
    \/ Terminated

(***************************************************************************)
(* The host runs both threads, and the debugger is entered once the guest  *)
(* has been stopped; the user need not type, leave the debugger or quit.   *)
(* The console thread gets a mutex that is free again and again: it stays  *)
(* free while the processor thread waits, up to a millisecond each time.   *)
(***************************************************************************)
Fairness ==
    /\ WF_vars(ConsoleThread)
    /\ SF_vars(LockQueue)
    /\ WF_vars(ProcessorThread)
    /\ WF_vars(debug_enter)

Spec == Init /\ [][Next]_vars /\ Fairness

----------------------------------------------------------------------------
(***************************************************************************)
(* Properties.                                                             *)
(***************************************************************************)

\* No capacity is exceeded, and the threads are at places of their programs.
TypeOK ==
    /\ cpc \in {"start", "configure", "check", "poll", "output", "gate",
                "read", "lock", "push", "exit", "done"}
    /\ ppc \in {"isr", "handler", "run", "wfi_lock", "wfi_locked", "wfi_wait",
                "wfi_woken", "debug_enter", "debug", "stop_flag", "stop_byte",
                "join", "off"}
    /\ revents \subseteq {"pipe", "stdin"}
    /\ left \in 0..InstStep
    /\ Len(queue) <= QueueSize /\ Len(pipe) <= PipeSize /\ Len(buf) <= BufSize
    /\ mutex \in {"free", "console", "proc"}
    /\ {tty, oldTio} \subseteq {"cooked", "raw", "unset"}
    /\ {running, suspended, waiting, pipeOpen} \subseteq BOOLEAN
    /\ masked \subseteq Signals

\* Characters are numbered as they come; 0 is the byte of shutdown.
Ascending(s) ==
    \A i, j \in 1 .. Len(s) : i < j /\ s[i] > 0 /\ s[j] > 0 => s[i] < s[j]

\* Input keeps its order on its way through the terminal, the thread's
\* buffer and the queue to the guest, and no character is duplicated or
\* disappears, except those that push_back refused or the debugger read.
InputInOrder ==
    LET onItsWay == got \o queue \o buf \o stdin
        elsewhere == dropped \cup cliGot
    IN  /\ Ascending(onItsWay)
        /\ ToSet(onItsWay) \cap elsewhere = {}
        /\ ToSet(onItsWay) \cup elsewhere = 1 .. typed

\* Output keeps its order on its way through the pipe to the terminal, and
\* no character disappears except those a full pipe refused (write_char).
OutputInOrder ==
    LET shown == screen \o pipe
    IN  /\ Ascending(shown)
        /\ (ToSet(shown) \cup lost) \ {0} = 1 .. written

\* When the program has ended, the terminal has the mode it had before
\* (restore_console).
TerminalRestored == ppc = "off" => tty = "cooked"

Stopping == ppc \in {"stop_flag", "stop_byte", "join", "off"}

\* A signal has jumped out of wait_for_interrupt while it held intr_mutex,
\* which nobody unlocks any more.
Abandoned == mutex = "proc" /\ ppc \notin {"wfi_locked", "wfi_woken"}

\* The debugger has read the input that the console thread has been told of:
\* the thread's read blocks until the user types again.
ReadBlocked == cpc = "read" /\ stdin = <<>> /\ cliGot # {}

\* Every character typed is eventually read by the guest, or dropped for lack
\* of room, or read by the debugger, unless the guest is switched off or
\* stays in the debugger, or a signal has left intr_mutex locked: a guest
\* that sleeps in WFI wakes up, although the wait does not look at the queue
\* first.
InputServed ==
    \A c \in 1 .. MaxType :
        (typed >= c) ~>
            (\/ c \in ToSet(got) \cup dropped \cup cliGot
             \/ Stopping \/ ppc = "debug" \/ Abandoned)

\* Every character written is eventually on the terminal, or was refused by
\* a full pipe, unless the guest is switched off or the console thread waits
\* for a mutex or for input that it never gets.
OutputShown ==
    \A c \in 1 .. MaxWrite :
        (written >= c) ~>
            (\/ c \in ToSet(screen) \cup lost
             \/ Stopping \/ Abandoned \/ ReadBlocked)

\* A shutdown ends, by itself or by SIGTERM and wherever both threads are:
\* the console thread notices that running is false.  It does not if the
\* signal has left intr_mutex locked or the thread reads what the debugger
\* has taken, and then ~console_device waits for it for ever.
ShutdownEnds == Stopping ~> (ppc = "off" \/ Abandoned \/ ReadBlocked)

\* The invariants of the console together: input and output keep their order,
\* and lose nothing that a full queue or pipe has not refused.
ConsoleInv == TypeOK /\ InputInOrder /\ OutputInOrder

\* What is typed reaches the guest and what it writes reaches the terminal.
StreamsServed == InputServed /\ OutputShown
=============================================================================
