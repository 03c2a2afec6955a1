------------------------------ MODULE SoftMmu ------------------------------
(***************************************************************************)
(* The soft MMU of rv-sys (emu/mmu-soft.h, emu/tlb-soft.h, emu/pte.h): an  *)
(* access is translated by a TLB or by a walk of the page table, which may *)
(* set flags in the table, and is then checked and done.  One step of the  *)
(* walk is one PTE; the guest runs between two accesses only.              *)
(*                                                                         *)
(* The guest is external: it writes PTEs, changes its mode, its status and *)
(* the table's base as its operating system would.  Addresses are page     *)
(* numbers, with whether the offset in the page is zero; memory is what    *)
(* each frame with memory behind it would be as a table.  pdid is always   *)
(* zero and stays in the flush only.  Left out: the cause of a fault, and  *)
(* misaligned addresses, which raise before anything is touched.           *)
(***************************************************************************)
EXTENDS Integers, FiniteSets

CONSTANTS
    Levels, Fan,   \* PTM::levels and 2^PTM::bits
    TlbSize,       \* entries of a TLB (128 in the code)
    AsidLimit,     \* asid_limit, the largest asid
    PpnLimit,      \* ppn_limit, the largest frame
    Ram,           \* frames with memory behind them (user_memory's segments)
    Asids,         \* the address spaces the guest uses
    Guests,        \* guests: what each of them does, a subset of Doings
    MaxWrites      \* bound: PTEs the guest writes

\* Pages that one PTE of a level covers: 2^(PTM::bits * level).
Span[l \in Nat] == IF l = 0 THEN 1 ELSE Fan * Span[l - 1]

Vpns == 0 .. Span[Levels] - 1
VpnLimit == Span[Levels] - 1
Frames == 0 .. PpnLimit
Below == {-1, -2}  \* level once it has wrapped below 0: it goes on changing

\* The accesses a guest makes, and what else it does: several address spaces,
\* PTEs and modes (see GuestPtes and Statuses), accesses that cross a page or
\* begin at its first byte.
Accesses == {"fetch", "load", "store", "amo"}
Doings == Accesses \cup {"spaces", "invalid", "loop", "mprv", "cross", "zero",
                         "bare", "rights", "super"}

ASSUME SoftMmuAssumption ==
    /\ Levels \in Nat \ {0, 1} /\ Fan \in Nat \ {0, 1} /\ TlbSize \in Nat \ {0}
    /\ AsidLimit \in Nat /\ PpnLimit \in Nat /\ PpnLimit >= 6 /\ MaxWrites \in Nat
    /\ Ram \subseteq Frames \ {0}
    /\ Asids # {} /\ Asids \subseteq 0 .. AsidLimit
    /\ Guests \subseteq SUBSET Doings

VARIABLES
    guest,     \* what the guest does; it never changes
    mem,       \* PTEs, by frame and index
    sptbr,     \* asid and frame of the root table
    status,    \* mode and the fields of mstatus
    tlb,       \* l1_itlb and l1_dtlb
    acc,       \* the access under way
    res,       \* how the last access ended
    past,      \* what each page has been mapped to since the last sfence.vm
    writes     \* PTEs the guest has written

vars == <<guest, mem, sptbr, status, tlb, acc, res, past, writes>>

U == 0
S == 1
M == 3

Pte(v, perm, ppn) == [v |-> v, perm |-> perm, ad |-> {}, ppn |-> ppn]

Zero == Pte(FALSE, {}, 0)

Pointer(pte) == pte.perm \cap {"R", "W", "X"} = {}

(***************************************************************************)
(* What the guest writes into its tables, and its modes.  The guest has a  *)
(* root table in frame 1 and a second table in frame 2, which is also the  *)
(* root of its other address spaces.                                       *)
(***************************************************************************)
GuestPtes ==
    {Zero, Pte(TRUE, {"R", "W", "X", "U"}, 5)}
    \cup (IF "rights" \in guest
          THEN {Pte(TRUE, {"R", "U"}, 4), Pte(TRUE, {"X"}, 4),
                Pte(TRUE, {"W"}, 4), Pte(TRUE, {"R", "W"}, 4),
                Pte(TRUE, {"R", "W", "X", "U"}, 6)} ELSE {})
    \cup (IF "invalid" \in guest THEN {Pte(FALSE, {}, 2)} ELSE {})
    \cup (IF "loop" \in guest THEN {Pte(TRUE, {}, 2)} ELSE {})
    \cup (IF "zero" \in guest THEN {Pte(TRUE, {"R", "W", "U"}, 0)} ELSE {})

Status(m, mprv, mpp, pum, mxr, vm) ==
    [mode |-> m, mprv |-> mprv, mpp |-> mpp, pum |-> pum, mxr |-> mxr,
     vm |-> vm]

Statuses ==
    {Status(U, FALSE, U, FALSE, FALSE, "paged"),
     Status(S, FALSE, U, FALSE, FALSE, "paged")}
    \cup (IF "rights" \in guest
          THEN {Status(S, FALSE, U, TRUE, TRUE, "paged")} ELSE {})
    \cup (IF "bare" \in guest
          THEN {Status(S, FALSE, U, FALSE, FALSE, "bare"),
                Status(M, FALSE, U, FALSE, FALSE, "paged"),
                Status(M, TRUE, S, FALSE, FALSE, "paged")} ELSE {})
    \cup (IF "mprv" \in guest
          THEN {Status(M, TRUE, U, FALSE, FALSE, "paged")} ELSE {})

Root(asid) == IF asid = 0 THEN 1 ELSE 2

Idle == [at |-> "idle"]

NoResult == [how |-> "none"]

BootTable ==
    [f \in Ram |-> [i \in 0 .. Fan - 1 |->
        CASE f = 1 /\ i = 0 -> Pte(TRUE, {}, 2)
          [] f = 1 /\ i = 1 /\ "super" \in guest ->
                Pte(TRUE, {"R", "W", "X", "U"}, 4)
          [] f = 2 /\ i = 1 -> Pte(TRUE, {"R", "W", "X", "U"}, 4)
          [] OTHER -> Zero]]

(***************************************************************************)
(* The meaning of a page table: the leaf that maps vpn, by the privileged  *)
(* architecture and not by the code's walk.                                *)
(***************************************************************************)
Unmapped == [frame |-> -1, perm |-> {}, ad |-> {}]

Index(vpn, level) == (vpn \div Span[level]) % Fan

LeafOk(pte, level) ==
    /\ pte.v /\ ("W" \in pte.perm => "R" \in pte.perm)
    /\ pte.ppn % Span[level] = 0

LeafFrom(m, vpn) ==
    LET leaf[l \in Nat] == [f \in Frames |->
            IF f \notin Ram THEN Unmapped
            ELSE LET pte == m[f][Index(vpn, l)] IN
                 IF Pointer(pte)
                 THEN IF pte.v /\ l > 0 THEN leaf[l - 1][pte.ppn] ELSE Unmapped
                 ELSE IF LeafOk(pte, l)
                      THEN [frame |-> pte.ppn + (vpn % Span[l]),
                            perm |-> pte.perm, ad |-> pte.ad]
                      ELSE Unmapped]
    IN  leaf

Meaning(m, root, vpn) == LeafFrom(m, vpn)[Levels - 1][root]

\* Only where and how a page is mapped can be stale, the flags are separate.
Mapping(m, asid, vpn) ==
    LET l == Meaning(m, Root(asid), vpn)
    IN  [frame |-> l.frame, perm |-> l.perm]

(***************************************************************************)
(* effective_mode and translate_addr.                                      *)
(***************************************************************************)
EffectiveMode(op) ==
    IF status.mode >= M /\ status.mprv /\ op # "fetch" /\ status.mpp <= S
    THEN status.mpp ELSE status.mode

Paged(op) == EffectiveMode(op) < M /\ status.vm = "paged"

WhichTlb(op) == IF op = "fetch" THEN "i" ELSE "d"

(***************************************************************************)
(* fetch_access_fault, load_access_fault and store_access_fault.  The      *)
(* accesses pass proc.mode as the privilege level; none is checked without *)
(* a TLB entry.                                                            *)
(***************************************************************************)
FetchDenied(perm, level) ==
    \/ "X" \notin perm
    \/ IF "U" \in perm THEN level > U ELSE level < S

LoadDeniedNotByLevel(perm, level) ==
    "R" \notin perm /\ ~("X" \in perm /\ status.mxr)

LoadDenied(perm, level) ==
    \/ "R" \notin perm /\ ~("X" \in perm /\ status.mxr)
    \/ IF "U" \in perm THEN level > U /\ status.pum ELSE level < S

StoreDeniedToSupervisor(perm, level) ==
    \/ "W" \notin perm
    \/ IF "U" \in perm THEN level > U ELSE level < S

StoreDenied(perm, level) ==
    \/ "W" \notin perm
    \/ IF "U" \in perm THEN level > U /\ status.pum ELSE level < S

Denied(op, perm, level) ==
    CASE op = "fetch" -> FetchDenied(perm, level)
      [] op = "load"  -> LoadDenied(perm, level)
      [] op = "store" -> StoreDenied(perm, level)
      [] op = "amo"   -> LoadDenied(perm, level) \/ StoreDenied(perm, level)

Level(op) == status.mode

(***************************************************************************)
(* tagged_tlb: lookup, insert and flush.                                   *)
(***************************************************************************)
EmptyEntryPastLimit ==
    [pdid |-> 0, asid |-> AsidLimit, vpn |-> VpnLimit, ptel |-> 0,
     perm |-> {}, ad |-> {}, ppn |-> PpnLimit + 1]

EmptyEntry == [pdid |-> 0, asid |-> AsidLimit, vpn |-> VpnLimit, ptel |-> 0,
               perm |-> {}, ad |-> {}, ppn |-> PpnLimit]

Slot(vpn) == vpn % TlbSize

LookupAnySpace(which, vpn) ==
    LET e == tlb[which][Slot(vpn)] IN IF e.vpn = vpn THEN {e} ELSE {}

Lookup(which, vpn) ==
    LET e == tlb[which][Slot(vpn)]
    IN  IF e.pdid = 0 /\ e.asid = sptbr.asid /\ e.vpn = vpn THEN {e} ELSE {}

Insert(which, vpn, level, pte) ==
    tlb' = [tlb EXCEPT ![which][Slot(vpn)] =
        [pdid |-> 0, asid |-> sptbr.asid, vpn |-> vpn, ptel |-> level,
         perm |-> pte.perm, ad |-> pte.ad, ppn |-> pte.ppn]]

FlushOtherSpaces(t, pdid, asid) ==
    [i \in DOMAIN t |-> IF t[i].asid # asid THEN EmptyEntry ELSE t[i]]

Flush(t, pdid, asid) ==
    [i \in DOMAIN t |->
        IF asid # 0 /\ t[i].pdid # pdid /\ t[i].asid # asid
        THEN t[i] ELSE EmptyEntry]

(***************************************************************************)
(* The end of an access.  raise leaves the access with longjmp; an address *)
(* of 0 ends it without a word, whatever it stands for.                    *)
(***************************************************************************)
End(how, frame) ==
    /\ acc' = Idle
    /\ res' = [how |-> how, op |-> acc.op, vpn |-> acc.vpn, frame |-> frame,
               crosses |-> acc.crosses, paged |-> Paged(acc.op)]

Raise == End("fault", -1)

\* The bytes of an instruction that crosses a page come from mpa + 2.
FetchedFrames(frame) == {frame} \cup (IF acc.crosses THEN {frame + 1} ELSE {})

\* perms: the rights of the TLB entry, or none without one.
Finish(frame, perms) ==
    IF frame = 0 /\ acc.atZero THEN End("silent", 0)
    ELSE IF \/ \E p \in perms : Denied(acc.op, p, Level(acc.op))
            \/ ~(FetchedFrames(frame) \subseteq Ram)
    THEN Raise
    ELSE End("ok", frame)

(***************************************************************************)
(* page_translate_addr.  A hit counts only when the entry's flags are NOT  *)
(* up to date; every other access walks the table.                         *)
(***************************************************************************)
AdFlags(op) == IF op \in {"store", "amo"} THEN {"A", "D"} ELSE {"A"}

UseEntry(e) == ~(AdFlags(acc.op) \subseteq e.ad)

Offset(ppn, vpn, level) ==
    IF level \in Below THEN ppn ELSE ppn + (vpn % Span[level])

Translate ==
    /\ acc.at = "translate"
    /\ IF ~Paged(acc.op)
       THEN Finish(acc.vpn, {}) /\ UNCHANGED tlb
       ELSE LET hit == {e \in Lookup(WhichTlb(acc.op), acc.vpn) : UseEntry(e)}
            IN  IF hit # {}
                THEN LET e == CHOOSE e \in hit : TRUE
                     IN  Finish(Offset(e.ppn, acc.vpn, e.ptel), {e.perm})
                ELSE /\ acc' = [acc EXCEPT !.at = "walk", !.level = Levels - 1,
                                           !.table = sptbr.root]
                     /\ UNCHANGED res
    /\ UNCHANGED <<guest, mem, sptbr, status, tlb, past, writes>>

(***************************************************************************)
(* walk_page_table, one PTE, and page_translate_addr_tlb_miss.  level is   *)
(* unsigned: it never goes below 0 but wraps, and every later index is     *)
(* made of other bits of the address, or undefined.                        *)
(***************************************************************************)
Indices(level) ==
    IF level \in Below THEN 0 .. Fan - 1 ELSE {Index(acc.vpn, level)}

MisalignedNever(pte, level) == FALSE

Misaligned(pte, level) == level \notin Below /\ pte.ppn % Span[level] # 0

FollowPointerForgotten(pte) == UNCHANGED <<acc, mem, tlb, res>>

FollowPointer(pte) ==
    /\ acc' = [acc EXCEPT !.table = pte.ppn,
                          !.level = IF @ = -2 THEN -1 ELSE @ - 1]
    /\ UNCHANGED <<mem, tlb, res>>

Reserved(pte) == ~pte.v \/ ("W" \in pte.perm /\ "R" \notin pte.perm)

NewFlagsLost(pte) == pte

NewFlags(pte) == [pte EXCEPT !.ad = @ \cup AdFlags(acc.op)]

UseLeaf(i, pte) ==
    LET new   == NewFlags(pte)
        frame == Offset(pte.ppn, acc.vpn, acc.level)
    IN  /\ mem' = [mem EXCEPT ![acc.table][i] = new]
        /\ IF frame = 0 /\ acc.atZero THEN UNCHANGED tlb
           ELSE Insert(WhichTlb(acc.op), acc.vpn, acc.level, new)
        /\ Finish(frame, {new.perm})

Walk ==
    /\ acc.at = "walk"
    /\ IF acc.table \notin Ram
       THEN Raise /\ UNCHANGED <<mem, tlb>>
       ELSE \E i \in Indices(acc.level) :
              LET pte == mem[acc.table][i] IN
              IF Pointer(pte) THEN FollowPointer(pte)
              ELSE IF Reserved(pte) \/ Misaligned(pte, acc.level)
              THEN Raise /\ UNCHANGED <<mem, tlb>>
              ELSE UseLeaf(i, pte)
    /\ UNCHANGED <<guest, sptbr, status, past, writes>>

(***************************************************************************)
(* The guest: an access, a PTE, a mode, an address space, sfence.vm.       *)
(***************************************************************************)
Access ==
    /\ acc = Idle
    /\ \E op \in guest \cap Accesses, vpn \in Vpns,
          atZero \in BOOLEAN, crosses \in BOOLEAN :
        /\ atZero => "zero" \in guest
        /\ crosses => /\ "cross" \in guest /\ op = "fetch"
                       /\ ~atZero /\ vpn + 1 \in Vpns
        /\ acc' = [at |-> "translate", op |-> op, vpn |-> vpn,
                   atZero |-> atZero, crosses |-> crosses,
                   level |-> 0, table |-> 0]
    /\ res' = NoResult
    /\ UNCHANGED <<guest, mem, sptbr, status, tlb, past, writes>>

Now(m) == [p \in Asids \X Vpns |-> {Mapping(m, p[1], p[2])}]

WritePte ==
    /\ acc = Idle /\ status.mode >= S /\ writes < MaxWrites
    /\ \E f \in {1, 2} \cap Ram, i \in 0 .. Fan - 1, pte \in GuestPtes :
        /\ "super" \notin guest => f = 2
        /\ mem' = [mem EXCEPT ![f][i] = pte]
    /\ past' = [p \in Asids \X Vpns |-> past[p] \cup Now(mem')[p]]
    /\ writes' = writes + 1 /\ res' = NoResult
    /\ UNCHANGED <<guest, sptbr, status, tlb, acc>>

SetStatus ==
    /\ acc = Idle
    /\ status' \in Statuses \ {status}
    /\ res' = NoResult
    /\ UNCHANGED <<guest, mem, sptbr, tlb, acc, past, writes>>

SetSptbr ==
    /\ acc = Idle /\ status.mode >= S /\ "spaces" \in guest
    /\ \E a \in Asids \ {sptbr.asid} : sptbr' = [asid |-> a, root |-> Root(a)]
    /\ res' = NoResult
    /\ UNCHANGED <<guest, mem, status, tlb, acc, past, writes>>

SfenceVm ==
    /\ acc = Idle /\ status.mode >= S
    /\ tlb' = [w \in {"i", "d"} |-> Flush(tlb[w], 0, sptbr.asid)]
    /\ past' = [p \in Asids \X Vpns |->
                  IF p[1] = sptbr.asid THEN Now(mem)[p] ELSE past[p]]
    /\ res' = NoResult
    /\ UNCHANGED <<guest, mem, sptbr, status, acc, writes>>

Init ==
    /\ guest \in Guests
    /\ mem = BootTable
    /\ sptbr = [asid |-> CHOOSE a \in Asids : \A b \in Asids : a <= b,
                root |-> Root(CHOOSE a \in Asids : \A b \in Asids : a <= b)]
    /\ status \in Statuses
    /\ tlb = [w \in {"i", "d"} |-> [i \in 0 .. TlbSize - 1 |-> EmptyEntry]]
    /\ acc = Idle /\ res = NoResult
    /\ past = Now(BootTable) /\ writes = 0

Next == \/ Access \/ Translate \/ Walk
        \/ WritePte \/ SetStatus \/ SetSptbr \/ SfenceVm

Spec == Init /\ [][Next]_vars /\ WF_vars(Translate \/ Walk)

-----------------------------------------------------------------------------
PteSet == [v : BOOLEAN, perm : SUBSET {"R", "W", "X", "U"},
           ad : SUBSET {"A", "D"}, ppn : Frames]

\* The types of the state: tables, the TLBs' slots and the recorded mappings.
TypeOK ==
    /\ mem \in [Ram -> [0 .. Fan - 1 -> PteSet]]
    /\ sptbr \in [asid : Asids, root : Frames]
    /\ status \in Statuses
    /\ \A w \in {"i", "d"}, i \in 0 .. TlbSize - 1 :
          /\ tlb[w][i].asid \in 0 .. AsidLimit /\ tlb[w][i].vpn \in Vpns
          /\ tlb[w][i].ptel \in Below \cup 0 .. Levels - 1
          /\ tlb[w][i].ppn \in Frames
    /\ acc.at \in {"idle", "translate", "walk"}
    /\ res.how \in {"none", "ok", "fault", "silent"}
    /\ writes \in 0 .. MaxWrites

\* What the architecture lets a page with these rights be used for.
Allowed(op, perm) ==
    LET eff == EffectiveMode(op)
        may == CASE op = "fetch" -> "X" \in perm
                 [] op = "load"  ->
                       "R" \in perm \/ (status.mxr /\ "X" \in perm)
                 [] op = "store" -> "W" \in perm
                 [] op = "amo"   -> {"R", "W"} \subseteq perm
    IN  /\ may
        /\ eff = U => "U" \in perm
        /\ eff = S /\ "U" \in perm => op # "fetch" /\ ~status.pum

Reached == {<<res.vpn, res.frame>>}
           \cup (IF res.crosses THEN {<<res.vpn + 1, res.frame + 1>>} ELSE {})

\* A paged access that succeeds has reached the frame its page is mapped to, or
\* was mapped to since the last sfence.vm of its address space, with rights for
\* it in the effective mode: for every byte, across TLB, walk and mode changes.
ReachesMappedPage ==
    res.how = "ok" /\ res.paged =>
        \A r \in Reached : \E m \in past[<<sptbr.asid, r[1]>>] :
            m.frame = r[2] /\ Allowed(res.op, m.perm)

\* A paged access faults only if its page is, or since the last sfence.vm was,
\* unmapped, without memory behind it or without the rights for it.
FaultsOnlyIfDenied ==
    res.how = "fault" /\ res.paged =>
        \E r \in Reached : \E m \in past[<<sptbr.asid, r[1]>>] :
            m.frame \notin Ram \/ ~Allowed(res.op, m.perm)

\* What a TLB entry says was so at some time since the last sfence.vm of its
\* address space: no entry outlives the flush that was to remove it.
EntriesWereMapped ==
    \A w \in {"i", "d"}, i \in 0 .. TlbSize - 1 :
        LET e == tlb[w][i] IN
        e.asid \in Asids /\ e # EmptyEntry =>
            [frame |-> Offset(e.ppn, e.vpn, e.ptel), perm |-> e.perm]
                \in past[<<e.asid, e.vpn>>]

\* After a load or a fetch the leaf that maps the page is marked accessed, even
\* if a TLB has an entry for it, also one made before the guest last wrote to
\* its tables (page_translate_addr).
AccessedTracked ==
    res.how = "ok" /\ res.paged /\ res.op \in {"load", "fetch"} =>
        "A" \in Meaning(mem, sptbr.root, res.vpn).ad

\* Every access ends: the walk reaches a leaf or raises a fault.
WalkEnds == (acc.at = "walk") ~> (acc.at = "idle")

\* The invariants of TLB and tables together: entries say what was so since
\* the last fence, and what was used is marked accessed.
MmuInv == TypeOK /\ EntriesWereMapped /\ AccessedTracked
=============================================================================
