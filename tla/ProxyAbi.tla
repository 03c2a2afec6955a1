------------------------------ MODULE ProxyAbi ------------------------------
(***************************************************************************)
(* The system calls rv-sim proxies to the host (src/abi/unknown-abi.h),    *)
(* seen by the checkpoint recorder.  A handler is the set of ways in which *)
(* a call of it can end; an outcome says what it does to the guest memory  *)
(* at its buffer argument and what it tells CheckpointManager::syscall:    *)
(*   wr  "none"  the guest memory is left alone                            *)
(*       "data"  the buffer receives data from the host                    *)
(*       "zero"  the pages of the buffer are mapped anew and read as zero  *)
(*       "fresh" the same, for pages that were never accessible before     *)
(*   log "none"  the recorder is not called                                *)
(*       "ret"   only the return value is logged                           *)
(*       "buf"   the return value and the buffer's bytes are logged        *)
(*       "exit"  CheckpointManager::exit: the process ends                 *)
(* The host calls, the argument conversions and the debug output are left  *)
(* out: they decide neither of the two.                                    *)
(***************************************************************************)

Returns  == [wr |-> "none", log |-> "ret"]   \* no guest memory involved
Fills    == [wr |-> "data", log |-> "buf"]   \* buffer written and logged
Logs     == [wr |-> "none", log |-> "buf"]   \* logged, though not written
Forgets  == [wr |-> "data", log |-> "ret"]   \* buffer written, not logged
Remaps   == [wr |-> "zero", log |-> "ret"]   \* memory mapped, not logged
Grows    == [wr |-> "fresh", log |-> "ret"]  \* pages added to the heap
Silent   == [wr |-> "none", log |-> "none"]  \* never reaches the recorder
Scribbles == [wr |-> "data", log |-> "none"] \* writes, never reaches it
Exits    == [wr |-> "none", log |-> "exit"]

(* getcwd logs all a1 bytes even when it fails; fcntl(F_GETLK) lets the    *)
(* host write the lock; ioctl(TIOCGWINSZ) writes the window size.          *)
PathHandlers ==
  [ getcwd    |-> {Fills, Logs},
    fcntl     |-> {Returns, Forgets},
    ioctl     |-> {Returns, Forgets},
    unlinkat  |-> {Returns},
    ftruncate |-> {Returns},
    faccessat |-> {Returns} ]

(* Seeded fault: a failed read returns before it calls the recorder. *)
IoHandlersForgetRead == [ read |-> {Fills, Silent}, write |-> {Returns} ]

IoHandlers ==
  [ openat |-> {Returns},
    close  |-> {Returns},
    lseek  |-> {Returns},
    read   |-> {Fills, Returns},
    write  |-> {Returns},
    readv  |-> {Scribbles, Silent},
    writev |-> {Silent},
    pread  |-> {Fills, Returns},
    pwrite |-> {Returns} ]

(* fstatat and fstat convert the zeroed host_stat into the guest buffer    *)
(* even when the host call failed, and log it only when it succeeded; stat *)
(* logs it in both cases.                                                  *)
StatHandlers ==
  [ readlinkat |-> {Fills, Returns},
    fstatat    |-> {Fills, Forgets},
    fstat      |-> {Fills, Forgets},
    open       |-> {Returns},
    unlink     |-> {Returns},
    stat       |-> {Fills},
    chown      |-> {Returns} ]

(* uname copies the host buffer before it looks at the host's return value. *)
ProcessHandlers ==
  [ exit            |-> {Exits},
    exit_group      |-> {Exits},
    set_tid_address |-> {Silent},
    clock_gettime   |-> {Fills, Returns},
    rt_sigaction    |-> {Returns},
    rt_sigprocmask  |-> {Returns},
    times           |-> {Fills},
    uname           |-> {Fills, Forgets},
    getrusage       |-> {Fills, Returns} ]

(* brk maps new heap pages only beyond heap_end; a smaller break keeps the *)
(* pages and their contents.                                               *)
MemoryHandlers ==
  [ gettimeofday |-> {Scribbles, Silent},
    gettid       |-> {Silent},
    sysinfo      |-> {Fills},
    brk          |-> {Returns, Grows},
    munmap       |-> {Returns},
    mremap       |-> {Returns} ]

(* mmap adds pages, or replaces mapped ones by zeros or by a file's data.   *)
LimitHandlers ==
  [ clone     |-> {Silent},
    execve    |-> {Silent},
    mmap      |-> {Returns, Remaps, Grows, Forgets},
    mprotect  |-> {Returns},
    madvise   |-> {Silent},
    wait4     |-> {Scribbles, Silent},
    prlimit64 |-> {Scribbles, Silent} ]

(* proxy_syscall: the handler of each number the switch knows; any other   *)
(* number is a panic of the simulator.                                     *)
HandlerTables ==
  { PathHandlers, IoHandlers, StatHandlers, ProcessHandlers, MemoryHandlers,
    LimitHandlers }

Outcomes(h) == UNION { T[h] : T \in {T \in HandlerTables : h \in DOMAIN T} }

HandlerName == UNION { DOMAIN T : T \in HandlerTables }

(* The handlers all of whose outcomes reach the recorder. *)
LoggedHandlers ==
  { h \in HandlerName : \A o \in Outcomes(h) : o.log # "none" }

(* The handlers that tell the recorder of every byte they change. *)
FaithfulHandlers ==
  { h \in LoggedHandlers :
      \A o \in Outcomes(h) : o.wr \in {"none", "fresh"} \/ o.log = "buf" }
=============================================================================
