----------------------------- MODULE ParseJobs -----------------------------
(***************************************************************************)
(* ckpt/parse.py as a program that is run again and again over one log:    *)
(* main() reads the slices of the log, skips those whose files exist and   *)
(* hands the others to a pool of forked workers, each of which writes the  *)
(* files of one slice.  Workers and main() itself fail, the user           *)
(* interrupts, the log may be cut short, and the program is started again, *)
(* perhaps while workers of an earlier start are still writing.            *)
(***************************************************************************)
EXTENDS Integers, Sequences, FiniteSets

CONSTANTS N,         \* number of slices in the log
          Repeats,   \* the slices that end at a repeated breakpoint
          Bbv,       \* --exec was given: a .bb file per slice
          JobCounts, \* values of --jobs the user may choose
          Rebuilds,  \* values of --rebuild the user may choose
          Cuts,      \* how many lines of the log the simulator has written
          Faults,    \* what may go wrong, of FaultKinds
          MaxFaults, \* bound: how many faults happen in all
          MaxRuns    \* bound: how often the program is started

\* A worker finds no place for a call, its rerun breaks off, one of its files
\* cannot be opened or written; main() meets an exception; Ctrl-C.
FaultKinds == {"place", "rerun", "write", "main", "interrupt"}

ASSUME ParseJobsAssumption ==
    /\ N \in Nat
    /\ Repeats \subseteq 1..N
    /\ Bbv \in BOOLEAN
    /\ JobCounts \subseteq Nat /\ JobCounts # {}
    /\ Rebuilds \subseteq BOOLEAN /\ Rebuilds # {}
    /\ Cuts \subseteq 0..(3 * N)
    /\ Faults \subseteq FaultKinds
    /\ MaxFaults \in Nat
    /\ MaxRuns \in Nat \ {0}

VARIABLES
    files,     \* what is on disk: slice, file -> how much of it
    worker,    \* run, slice -> the process that writes the slice in that run
    run,       \* number of the current start of the program
    rebuild,   \* --rebuild of this run
    jobs,      \* --jobs of this run
    cut,       \* number of lines of the log
    mainPc,    \* where main() is
    pos,       \* next line to read
    cur,       \* the checkpoint being read, or None
    opened,    \* dumpfile is not None
    children,  \* slices whose workers main() has not waited for
    status,    \* exit status
    orphaned,  \* slices with a worker that outlived the main() it belongs to
    mishaps    \* number of faults so far

vars == <<files, worker, run, rebuild, jobs, cut, mainPc, pos, cur, opened,
          children, status, orphaned, mishaps>>

Slices == 1..N

None == [slice |-> 0, named |-> FALSE, whole |-> FALSE]

(***************************************************************************)
(* The log: a begin line (with the registers, system calls and breakpoint  *)
(* behind it), a file line and a body (pages and stores) for every slice.  *)
(***************************************************************************)
Kinds == <<"begin", "file", "body">>

LineKind(i) == Kinds[((i - 1) % 3) + 1]

LineSlice(i) == ((i - 1) \div 3) + 1

FullLog == 3 * N

(***************************************************************************)
(* The files of a slice and what a worker does to them, step by step.      *)
(***************************************************************************)
Files == {"bb", "dump1", "cfg1", "dump2", "cfg2"}

Pass(dump, cfg) ==
    << <<"place", dump>>, <<"open", dump>>, <<"open", cfg>>,
       <<"close", dump>>, <<"close", cfg>> >>

Process == [s \in Slices |->
    (IF Bbv THEN << <<"open", "bb">>, <<"close", "bb">> >> ELSE <<>>)
    \o Pass("dump1", "cfg1")
    \o (IF s \in Repeats
        THEN << <<"rerun", "dump1">> >> \o Pass("dump2", "cfg2")
        ELSE <<>>)]

\* The files that exists() looks for.
Wanted(s) ==
    (IF Bbv THEN {"bb"} ELSE {})
    \cup (IF s \in Repeats THEN {"dump2", "cfg2"} ELSE {"dump1", "cfg1"})

ExistsFirstPass(s) ==
    files[s]["dump1"] # "absent" /\ files[s]["cfg1"] # "absent"

ExistsBothPasses(s) == \A f \in Files \ {"bb"} : files[s][f] # "absent"

Exists(s) == \A f \in Wanted(s) : files[s][f] # "absent"

IdleWorker == [state |-> "none", step |-> 1, named |-> FALSE, whole |-> FALSE]

Start(c) == [state |-> "runs", step |-> 1,
             named |-> c.named, whole |-> c.whole]

\* A process that has ended.
Ended(state) == [IdleWorker EXCEPT !.state = state]

\* A worker's exit status is not 0.
Failed(s) == worker[run][s].state \in {"failed", "torn"}

Dead(s) == worker[run][s].state = "ok" \/ Failed(s)

(***************************************************************************)
(* main(): the loop over the lines.                                        *)
(***************************************************************************)
ReadBegin ==
    /\ mainPc = "read" /\ pos <= cut /\ LineKind(pos) = "begin"
    /\ mainPc' = "submit"
    /\ UNCHANGED <<files, worker, run, rebuild, jobs, cut, pos, cur, opened,
                   children, status, orphaned, mishaps>>

ReadFileSkipping ==
    /\ mainPc = "read" /\ pos <= cut /\ LineKind(pos) = "file"
    /\ pos' = pos + 1
    /\ IF ~Exists(cur.slice)
       THEN cur' = [cur EXCEPT !.named = TRUE] /\ opened' = TRUE
       ELSE cur' = None /\ UNCHANGED opened
    /\ UNCHANGED <<files, worker, run, rebuild, jobs, cut, mainPc, children,
                   status, orphaned, mishaps>>

ReadFile ==
    /\ mainPc = "read" /\ pos <= cut /\ LineKind(pos) = "file"
    /\ pos' = pos + 1
    /\ IF rebuild \/ ~Exists(cur.slice)
       THEN cur' = [cur EXCEPT !.named = TRUE] /\ opened' = TRUE
       ELSE cur' = None /\ UNCHANGED opened
    /\ UNCHANGED <<files, worker, run, rebuild, jobs, cut, mainPc, children,
                   status, orphaned, mishaps>>

ReadBodyDropped ==
    /\ mainPc = "read" /\ pos <= cut /\ LineKind(pos) = "body"
    /\ pos' = pos + 1
    /\ UNCHANGED <<files, worker, run, rebuild, jobs, cut, mainPc, cur,
                   opened, children, status, orphaned, mishaps>>

ReadBody ==
    /\ mainPc = "read" /\ pos <= cut /\ LineKind(pos) = "body"
    /\ pos' = pos + 1
    /\ cur' = IF cur = None THEN None ELSE [cur EXCEPT !.whole = TRUE]
    /\ UNCHANGED <<files, worker, run, rebuild, jobs, cut, mainPc, opened,
                   children, status, orphaned, mishaps>>

ReadEnd ==
    /\ mainPc = "read" /\ pos > cut
    /\ mainPc' = "submit"
    /\ UNCHANGED <<files, worker, run, rebuild, jobs, cut, pos, cur, opened,
                   children, status, orphaned, mishaps>>

\* A fault of the given kind happens; MaxFaults bounds how many do.
Mishap(kind) == /\ kind \in Faults /\ mishaps < MaxFaults
                /\ mishaps' = mishaps + 1

\* An exception of main() itself: no worker is waited for.
Raises ==
    /\ Mishap("main")
    /\ mainPc' = "exit" /\ status' = 1
    /\ orphaned' = orphaned
                     \cup {s \in Slices : worker[run][s].state = "runs"}
    /\ UNCHANGED <<files, worker, run, rebuild, jobs, cut, pos, cur, opened,
                   children>>

\* A line that makes no sense, such as one that was cut in the middle
\* (IndexError, ValueError, KeyError, a failed assert), or a dump file that
\* cannot be opened.
ReadRaises == mainPc = "read" /\ Raises

(***************************************************************************)
(* submit_task(), called at a begin line and at the end of the log.        *)
(***************************************************************************)
\* Back in main(): a new Checkpoint at a begin line, or on to the end.
Continue ==
    IF pos <= cut
    THEN /\ cur' = [slice |-> LineSlice(pos), named |-> FALSE, whole |-> FALSE]
         /\ pos' = pos + 1
         /\ mainPc' = "read"
    ELSE mainPc' = "close" /\ UNCHANGED <<cur, pos>>

SubmitNothing ==
    /\ mainPc = "submit" /\ cur = None
    /\ Continue
    /\ UNCHANGED <<files, worker, run, rebuild, jobs, cut, opened, children,
                   status, orphaned, mishaps>>

\* dumpfile.close() when no dump file was ever opened: AttributeError.
SubmitUnopened ==
    /\ mainPc = "submit" /\ cur # None /\ ~opened
    /\ mainPc' = "exit" /\ status' = 1
    /\ UNCHANGED <<files, worker, run, rebuild, jobs, cut, pos, cur, opened,
                   children, orphaned, mishaps>>

SubmitInline ==
    /\ mainPc = "submit" /\ cur # None /\ opened /\ jobs < 2
    /\ mainPc' = "inline"
    /\ worker' = [worker EXCEPT ![run][cur.slice] = Start(cur)]
    /\ UNCHANGED <<files, run, rebuild, jobs, cut, pos, cur, opened,
                   children, status, orphaned, mishaps>>

InlineReturnsOk ==
    /\ mainPc = "inline" /\ Dead(cur.slice)
    /\ Continue
    /\ UNCHANGED <<files, worker, run, rebuild, jobs, cut, opened, children,
                   status, orphaned, mishaps>>

InlineReturns ==
    /\ mainPc = "inline" /\ Dead(cur.slice)
    /\ IF Failed(cur.slice)
       THEN mainPc' = "exit" /\ status' = 1 /\ UNCHANGED <<cur, pos>>
       ELSE Continue /\ UNCHANGED status
    /\ UNCHANGED <<files, worker, run, rebuild, jobs, cut, opened,
                   children, orphaned, mishaps>>

PoolNeverFull == FALSE

PoolFull == Cardinality(children) = jobs

ReapIgnoringStatus(s) ==
    /\ Dead(s)
    /\ children' = children \ {s}
    /\ UNCHANGED <<files, worker, run, rebuild, jobs, cut, pos, cur, opened,
                   status, mainPc, orphaned, mishaps>>

\* os.wait() returns any child that has ended.
Reap(s) ==
    /\ Dead(s)
    /\ children' = children \ {s}
    /\ mainPc' = IF Failed(s) THEN "drain" ELSE mainPc
    /\ UNCHANGED <<files, worker, run, rebuild, jobs, cut, pos, cur, opened,
                   status, orphaned, mishaps>>

SubmitWaits ==
    /\ mainPc = "submit" /\ cur # None /\ opened /\ jobs >= 2
    /\ PoolFull
    /\ \E s \in children : Reap(s)

SubmitForks ==
    /\ mainPc = "submit" /\ cur # None /\ opened /\ jobs >= 2
    /\ ~PoolFull
    /\ worker' = [worker EXCEPT ![run][cur.slice] = Start(cur)]
    /\ children' = children \cup {cur.slice}
    /\ Continue
    /\ UNCHANGED <<files, run, rebuild, jobs, cut, opened, status, orphaned,
                   mishaps>>

\* os.fork() is refused.
ForkRaises ==
    /\ mainPc = "submit" /\ cur # None /\ opened /\ jobs >= 2
    /\ ~PoolFull
    /\ Raises

(***************************************************************************)
(* The ends of main().                                                     *)
(***************************************************************************)
CloseWaits ==
    /\ mainPc = "close"
    /\ \E s \in children : Reap(s)

CloseExits ==
    /\ mainPc = "close" /\ children = {}
    /\ mainPc' = "exit" /\ status' = 0
    /\ UNCHANGED <<files, worker, run, rebuild, jobs, cut, pos, cur, opened,
                   children, orphaned, mishaps>>

DrainWaits ==
    /\ mainPc = "drain"
    /\ \E s \in children :
         Dead(s) /\ children' = children \ {s}
    /\ UNCHANGED <<files, worker, run, rebuild, jobs, cut, mainPc, pos, cur,
                   opened, status, orphaned, mishaps>>

DrainExitsEarly ==
    /\ mainPc = "drain"
    /\ mainPc' = "exit" /\ status' = 1
    /\ UNCHANGED <<files, worker, run, rebuild, jobs, cut, pos, cur, opened,
                   children, orphaned, mishaps>>

DrainExitsFull ==
    /\ mainPc = "drain" /\ PoolFull
    /\ mainPc' = "exit" /\ status' = 1
    /\ UNCHANGED <<files, worker, run, rebuild, jobs, cut, pos, cur, opened,
                   children, orphaned, mishaps>>

DrainExits ==
    /\ mainPc = "drain" /\ children = {}
    /\ mainPc' = "exit" /\ status' = 1
    /\ UNCHANGED <<files, worker, run, rebuild, jobs, cut, pos, cur, opened,
                   children, orphaned, mishaps>>

(***************************************************************************)
(* A worker: Checkpoint.process().                                         *)
(***************************************************************************)
\* The worker of that run has the file open.
HasOpen(r, s, f) ==
    /\ worker[r][s].state = "runs"
    /\ \E i, j \in 1..Len(Process[s]) :
         /\ Process[s][i] = <<"open", f>> /\ i < worker[r][s].step
         /\ Process[s][j] = <<"close", f>> /\ worker[r][s].step <= j

\* What a step leaves of its file: open truncates it, close completes it,
\* and what two processes write at the same time is a mixture until one of
\* them has written all of it alone.
Written(r, s, f) ==
    LET shared == \E q \in (1..MaxRuns) \ {r} : HasOpen(q, s, f)
        own == IF worker[r][s].whole THEN "whole" ELSE "short"
        step == Process[s][worker[r][s].step][1]
    IN CASE step = "open" -> {IF shared THEN "mixed" ELSE "partial"}
         [] step = "close" -> IF shared THEN {"mixed"}
                              ELSE IF files[s][f] = "mixed" THEN {"mixed", own}
                              ELSE {own}
         [] OTHER -> {files[s][f]}

WorkerSteps(r, s) ==
    LET w == worker[r][s]
        f == Process[s][w.step][2]
    IN /\ w.state = "runs" /\ w.named
       /\ \E c \in Written(r, s, f) : files' = [files EXCEPT ![s][f] = c]
       /\ worker' = [worker EXCEPT ![r][s] =
                       IF w.step = Len(Process[s])
                       THEN Ended("ok")
                       ELSE [w EXCEPT !.step = w.step + 1]]
       /\ UNCHANGED <<run, rebuild, jobs, cut, mainPc, pos, cur, opened,
                      children, status, orphaned, mishaps>>

\* An exception, or the exit of a failed make, while no file is open: a slice
\* without a file name, no place for the call code, or a rerun that broke off
\* ('expected cl').
WorkerFails(r, s) ==
    /\ worker[r][s].state = "runs"
    /\ \/ ~worker[r][s].named /\ UNCHANGED mishaps
       \/ \E kind \in {"place", "rerun"} :
            Process[s][worker[r][s].step][1] = kind /\ Mishap(kind)
    /\ worker' = [worker EXCEPT ![r][s] = Ended("failed")]
    /\ UNCHANGED <<files, run, rebuild, jobs, cut, mainPc, pos, cur, opened,
                   children, status, orphaned>>

\* An exception while the files are opened, written and closed (no space, no
\* permission, a page of the wrong length): they stay as they are.
WorkerTears(r, s) ==
    /\ worker[r][s].state = "runs" /\ worker[r][s].named
    /\ Process[s][worker[r][s].step][1] \in {"open", "close"}
    /\ Mishap("write")
    /\ worker' = [worker EXCEPT ![r][s] = Ended("torn")]
    /\ UNCHANGED <<files, run, rebuild, jobs, cut, mainPc, pos, cur, opened,
                   children, status, orphaned>>

(***************************************************************************)
(* The user.                                                               *)
(***************************************************************************)
\* Ctrl-C reaches main() and its workers, not those of an earlier start; all
\* of them end with status 0.
Interrupt ==
    /\ Mishap("interrupt") /\ mainPc # "exit"
    /\ worker' = [worker EXCEPT ![run] = [s \in Slices |->
                    IF @[s].state = "runs" THEN Ended("gone") ELSE @[s]]]
    /\ mainPc' = "exit" /\ status' = 0
    /\ UNCHANGED <<files, run, rebuild, jobs, cut, pos, cur, opened,
                   children, orphaned>>

\* The program is started again, perhaps after the log was recorded again.
Restart ==
    /\ mainPc = "exit" /\ run < MaxRuns
    /\ run' = run + 1
    /\ rebuild' \in Rebuilds /\ jobs' \in JobCounts
    /\ cut' \in {cut, FullLog}
    /\ mainPc' = "read" /\ pos' = 1 /\ cur' = None
    /\ opened' = FALSE /\ children' = {} /\ status' = 0
    /\ orphaned' = {s \in orphaned :
                      \E r \in 1..run : worker[r][s].state = "runs"}
    /\ UNCHANGED <<files, worker, mishaps>>

Init ==
    /\ files = [s \in Slices |-> [f \in Files |-> "absent"]]
    /\ worker = [r \in 1..MaxRuns |-> [s \in Slices |-> IdleWorker]]
    /\ run = 1
    /\ rebuild \in Rebuilds /\ jobs \in JobCounts
    /\ cut \in Cuts
    /\ mainPc = "read" /\ pos = 1 /\ cur = None
    /\ opened = FALSE /\ children = {} /\ status = 0
    /\ orphaned = {} /\ mishaps = 0

Main == \/ ReadBegin \/ ReadFile \/ ReadBody \/ ReadEnd \/ ReadRaises
        \/ SubmitNothing \/ SubmitUnopened \/ SubmitInline \/ InlineReturns
        \/ SubmitWaits \/ SubmitForks \/ ForkRaises
        \/ CloseWaits \/ CloseExits \/ DrainWaits \/ DrainExits

Worker(r, s) == WorkerSteps(r, s) \/ WorkerFails(r, s) \/ WorkerTears(r, s)

Next == \/ Main
        \/ \E r \in 1..MaxRuns, s \in Slices : Worker(r, s)
        \/ Interrupt
        \/ Restart

\* The system runs main() and every worker of the run; workers of earlier
\* runs may be held up, and the user need not do anything.
Fairness == /\ WF_vars(Main)
            /\ \A s \in Slices : WF_vars(Worker(run, s))

Spec == Init /\ [][Next]_vars /\ Fairness

-----------------------------------------------------------------------------
WorkerStates == {"none", "runs", "ok", "failed", "torn", "gone"}

FileStates == {"absent", "partial", "short", "whole", "mixed"}

\* The variables have their types, and the pool never exceeds --jobs: no
\* more workers run at a time than the user asked for (parse.py:595).
TypeOK ==
    /\ files \in [Slices -> [Files -> FileStates]]
    /\ worker \in [1..MaxRuns -> [Slices ->
                     [state : WorkerStates, step : 1..13,
                      named : BOOLEAN, whole : BOOLEAN]]]
    /\ run \in 1..MaxRuns /\ rebuild \in BOOLEAN /\ jobs \in JobCounts
    /\ cut \in 0..FullLog /\ pos \in 1..(FullLog + 1)
    /\ mainPc \in {"read", "submit", "inline", "close", "drain", "exit"}
    /\ cur \in [slice : Slices \cup {0}, named : BOOLEAN, whole : BOOLEAN]
    /\ opened \in BOOLEAN /\ children \subseteq Slices /\ status \in {0, 1}
    /\ Cardinality(children) <= jobs
    /\ orphaned \subseteq Slices /\ mishaps \in 0..MaxFaults

Complete(s) == \A f \in Wanted(s) : files[s][f] = "whole"

\* What an interrupted worker, one that could not write, two that wrote at
\* the same time or a cut log have left of a slice.
Damaged(s) ==
    \/ \E r \in 1..MaxRuns : worker[r][s].state \in {"gone", "torn"}
    \/ \E f \in Files : files[s][f] \in {"short", "mixed"}

\* A run of parse.py that reads a whole log to its end and reports success
\* leaves every slice with complete files, whichever slices it skipped
\* because their files existed (parse.py:549) and however earlier runs
\* failed; the only exceptions are slices that an earlier run has damaged
\* and slices with a worker that main() left behind when it died.
SuccessMeansProcessed ==
    [][CloseExits /\ cut = FullLog =>
         \A s \in Slices : Complete(s) \/ Damaged(s) \/ s \in orphaned]_vars

\* A worker's failure is never lost: whenever it is waited for, also while
\* main() is waiting for others (parse.py:599, 687), the run fails.
FailureReported ==
    [][CloseExits => \A s \in Slices : ~Failed(s)]_vars

\* No two processes write the files of one slice, not even processes of two
\* runs: main() does not end before its workers have (parse.py:600, 691),
\* unless it dies of an exception of its own.
OneWriterPerSlice ==
    \A s \in Slices \ orphaned : \A r, q \in 1..MaxRuns :
        worker[r][s].state = "runs" /\ worker[q][s].state = "runs" => r = q

\* A run with --rebuild that reads a whole log to its end repairs whatever
\* earlier runs have left behind (parse.py:657), but for slices that an
\* earlier run's worker was still writing when this one was started.
RebuildRepairs ==
    [][CloseExits /\ rebuild /\ cut = FullLog =>
         \A s \in Slices \ orphaned : Complete(s)]_vars

\* Without --rebuild the files of a processed slice are left alone, again but
\* for slices with a worker left behind.
KeepsProcessed ==
    [][\A s \in Slices \ orphaned :
         Complete(s) /\ ~rebuild => Complete(s)']_vars

\* Of a log that was cut short only the last slice can be built from less
\* than was recorded of it; all others are read to their end first.
OnlyLastSliceShort ==
    \A s \in Slices : (\E f \in Files : files[s][f] = "short") =>
        \E r \in 1..MaxRuns : /\ worker[r][s].state # "none"
                              /\ \A t \in Slices :
                                   t > s => worker[r][t].state = "none"

\* Every run of parse.py ends, and main() is where only a new start leads on:
\* it never waits for a worker that has ended or was never started.
RunEnds ==
    []<>(mainPc = "exit")

\* The invariants of parse.py together: one process writes the files of a
\* slice unless main() died of an exception, the pool never exceeds --jobs,
\* and of a cut log only the last slice is short.
JobsInv == TypeOK /\ OneWriterPerSlice /\ OnlyLastSliceShort

\* The exit status of a run tells the truth: 0 means that everything was
\* processed, but for damage of earlier runs, and that no worker has failed.
StatusIsTrue == SuccessMeansProcessed /\ FailureReported
=============================================================================
