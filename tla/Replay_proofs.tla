--------------------------- MODULE Replay_proofs ---------------------------
(***************************************************************************)
(* Theorems about Recorder and Replay.  For every guest program, period    *)
(* and set of system calls: types, the log, slices that follow each other, *)
(* with the lemmas about the operations of MemTrace.  For a replayable     *)
(* guest: what the recorder keeps of a slice (RecordInv), and that the     *)
(* slice is replayed faithfully (ReplayInv and what follows from it).      *)
(***************************************************************************)
EXTENDS ReplayInvariant, TLAPS, NaturalsInduction, WellFoundedInduction,
        FiniteSetTheorems

-----------------------------------------------------------------------------
(* The operations of MemTrace, for every set of addresses.                 *)

(* A nonempty set of naturals has a least element. *)
LEMMA NatMin ==
  ASSUME NEW U \in SUBSET Nat, U # {}
  PROVE  \E u \in U : \A v \in U : u <= v
<1>1. PICK u \in U : \A v \in U : ~ (<<v, u>> \in OpToRel(<, Nat))
  BY NatLessThanWellFounded, WFMin
<1>2. ASSUME NEW v \in U  PROVE u <= v
  <2>1. SUFFICES ASSUME v < u PROVE FALSE
    OBVIOUS
  <2>2. <<v, u>> \in OpToRel(<, Nat)
    BY <2>1 DEF OpToRel
  <2> QED  BY <1>1, <2>2
<1> QED  BY <1>2

(* Integers of an interval: a nonempty part has a greatest element, which   *)
(* is what Max picks (the last byte of MemTrace::fetch and the last store   *)
(* of CheckpointManager::syscall that an entry sees).                       *)
LEMMA IntervalMax ==
  ASSUME NEW lo \in Int, NEW hi \in Int, NEW T \in SUBSET (lo .. hi), T # {}
  PROVE  Max(T) \in T
<1> DEFINE U == {hi - x : x \in T}
<1>2. U \subseteq Nat /\ U # {}
  OBVIOUS
<1>3. PICK u \in U : \A v \in U : u <= v
  <2> HIDE DEF U
  <2> QED  BY <1>2, NatMin
<1>5. PICK x \in T : u = hi - x
  OBVIOUS
<1>6. \A y \in T : x >= y
  BY <1>3, <1>5
<1> QED  BY <1>6 DEF Max

LEMMA BytesMax ==
  ASSUME NEW base \in Int, NEW n \in Int, NEW T, T \subseteq Bytes(base, n), T # {}
  PROVE  Max(T) \in T
<1>1. base + n - 1 \in Int /\ T \in SUBSET (base .. (base + n - 1))
  BY DEF Bytes
<1> QED  BY <1>1, IntervalMax

-----------------------------------------------------------------------------
(* The trace operations keep the shape of a trace. *)

LEMMA NewTraceType == NewTrace \in Traces
BY TraceAssumption DEF NewTrace, Traces, NoStore

LEMMA PutType ==
  ASSUME NEW t0 \in Traces, NEW B \in SUBSET Addr, NEW m,
         \A a \in B : m[a] \in Val
  PROVE  Put(t0, B, m) \in Traces
BY DEF Put, Traces

LEMMA LoadType ==
  ASSUME NEW t0 \in Traces, NEW B \in SUBSET Addr, NEW m,
         \A a \in B : m[a] \in Val
  PROVE  Load(t0, B, m) \in Traces
BY PutType DEF Load

LEMMA FetchParcelType ==
  ASSUME NEW t0 \in Traces, NEW base \in Addr, NEW n \in {2, 4},
         Bytes(base, n) \subseteq Addr, NEW m \in [Addr -> Val]
  PROVE  FetchParcel(t0, base, n, m) \in Traces
<1> DEFINE mask == Bytes(base, n) \cap t0.visited
           m1 == [m EXCEPT ![base] = m[Max(mask)]]
<1>1. Put(t0, Bytes(base, n), m) \in Traces
  BY PutType
<1>2. ASSUME mask # {}  PROVE Put(t0, {base}, m1) \in Traces
  <2>1. base \in Int /\ n \in Int
    BY TraceAssumption
  <2>2. mask \subseteq Bytes(base, n)
    OBVIOUS
  <2>4. Max(mask) \in mask
    <3> HIDE DEF mask
    <3> QED  BY <1>2, <2>1, <2>2, BytesMax
  <2>3. m1[base] \in Val
    BY <2>4
  <2> QED  BY <2>3, PutType
<1> QED  BY <1>1, <1>2 DEF FetchParcel

LEMMA FetchType ==
  ASSUME NEW t0 \in Traces, NEW pc \in Addr, NEW len \in {2, 4},
         Bytes(pc, len) \subseteq Addr, NEW m \in [Addr -> Val]
  PROVE  Fetch(t0, pc, len, m) \in Traces
<1> DEFINE counted == [t0 EXCEPT !.execs[pc] = @ + 1]
<1>1. counted \in Traces
  BY DEF Traces
<1>2. CASE len = 2 \/ pc % 4 = 0
  <2> HIDE DEF counted
  <2> SUFFICES FetchParcel(counted, pc, len, m) \in Traces
    BY <1>2 DEF Fetch, counted
  <2> QED  BY <1>1, FetchParcelType
<1>3. CASE ~ (len = 2 \/ pc % 4 = 0)
  <2>1. Bytes(pc, 2) \subseteq Addr /\ Bytes(pc + 2, 2) \subseteq Addr /\ pc + 2 \in Addr
    BY <1>3, TraceAssumption DEF Bytes
  <2> HIDE DEF counted
  <2> SUFFICES FetchParcel(FetchParcel(counted, pc, 2, m), pc + 2, 2, m) \in Traces
    BY <1>3 DEF Fetch, counted
  <2>2. FetchParcel(counted, pc, 2, m) \in Traces
    BY <1>1, <2>1, FetchParcelType
  <2> QED  BY <2>1, <2>2, FetchParcelType
<1> QED  BY <1>2, <1>3

LEMMA StoreType ==
  ASSUME NEW t0 \in Traces, NEW base \in Addr, NEW n \in Nat,
         Bytes(base, n) \subseteq Addr
  PROVE  Store(t0, base, n) \in Traces
<1> DEFINE t == Load(t0, Bytes(base, n), [a \in Addr |-> 0])
<1>1. t \in Traces
  BY LoadType, TraceAssumption
<1>2. Hash[base] \in Slot
  BY TraceAssumption
<1> QED  BY <1>1, <1>2 DEF Store, Traces

LEMMA StoreBytesType ==
  ASSUME NEW t0 \in Traces, NEW base \in Addr, NEW n \in Nat,
         Bytes(base, n) \subseteq Addr
  PROVE  StoreBytes(t0, base, n) \in Traces
<1> DEFINE W == Bytes(base, n)
           t == Load(t0, W, [a \in Addr |-> 0])
           hits(s) == {a \in W : Hash[a] = s}
<1>1. t \in Traces
  BY LoadType, TraceAssumption
<1>2. ASSUME NEW s \in Slot, hits(s) # {}  PROVE Max(hits(s)) \in Addr
  <2>1. base \in Int /\ n \in Int
    BY TraceAssumption
  <2>2. hits(s) \subseteq Bytes(base, n)
    OBVIOUS
  <2>3. Max(hits(s)) \in hits(s)
    <3> HIDE DEF hits
    <3> QED  BY <1>2, <2>1, <2>2, BytesMax
  <2> QED  BY <2>3
<1> QED  BY <1>1, <1>2 DEF StoreBytes, Traces

-----------------------------------------------------------------------------
(* What the trace operations do: they touch bytes, and never change the     *)
(* content of a byte touched before.                                        *)

Touches(t, u, B) ==
  u.visited = t.visited \cup B /\ \A a \in t.visited : u.content[a] = t.content[a]

(* The bytes of B that are new get their values in m. *)
Keeps(t, u, B, m) == \A a \in B \ t.visited : u.content[a] = m[a]

LEMMA PutEffect ==
  ASSUME NEW t \in Traces, NEW B \in SUBSET Addr, NEW m, B \cap t.visited = {}
  PROVE  /\ Touches(t, Put(t, B, m), B) /\ Keeps(t, Put(t, B, m), B, m)
         /\ Put(t, B, m).execs = t.execs /\ Put(t, B, m).stores = t.stores
BY DEF Put, Traces, Touches, Keeps

LEMMA LoadEffect ==
  ASSUME NEW t \in Traces, NEW B \in SUBSET Addr, NEW m
  PROVE  /\ Touches(t, Load(t, B, m), B) /\ Keeps(t, Load(t, B, m), B, m)
         /\ Load(t, B, m).execs = t.execs /\ Load(t, B, m).stores = t.stores
<1> DEFINE N == B \ t.visited
<1>1. N \in SUBSET Addr /\ N \cap t.visited = {}
  OBVIOUS
<1>2. /\ Touches(t, Put(t, N, m), N) /\ Keeps(t, Put(t, N, m), N, m)
      /\ Put(t, N, m).execs = t.execs /\ Put(t, N, m).stores = t.stores
  <2> HIDE DEF N
  <2> QED  BY <1>1, PutEffect
<1> QED  BY <1>2 DEF Load, Touches, Keeps

(* An instruction of which all bytes were touched or none. *)
AllOrNone(t, B) == B \subseteq t.visited \/ B \cap t.visited = {}

LEMMA FetchParcelEffect ==
  ASSUME NEW t \in Traces, NEW base \in Addr, NEW n \in {2, 4},
         Bytes(base, n) \in SUBSET Addr, NEW m, AllOrNone(t, Bytes(base, n))
  PROVE  LET u == FetchParcel(t, base, n, m)
         IN  /\ Touches(t, u, Bytes(base, n)) /\ Keeps(t, u, Bytes(base, n), m)
             /\ u.execs = t.execs /\ u.stores = t.stores
<1> DEFINE P == Bytes(base, n)
<1>1. CASE P \cap t.visited = {}
  <2>0. base \in P
    <3>1. base \in Nat
      BY TraceAssumption
    <3> QED  BY <3>1 DEF Bytes
  <2>1. FetchParcel(t, base, n, m) = Put(t, P, m)
    <3>1. P \cap t.visited # P
      BY <1>1, <2>0
    <3> HIDE DEF P
    <3> QED  BY <1>1, <3>1 DEF FetchParcel, P
  <2> HIDE DEF P
  <2> QED  BY <1>1, <2>1, PutEffect DEF P
<1>2. CASE P \cap t.visited # {}
  <2>1. P \cap t.visited = P
    BY <1>2 DEF AllOrNone
  <2>2. FetchParcel(t, base, n, m) = t
    BY <1>2, <2>1 DEF FetchParcel
  <2> QED  BY <2>1, <2>2 DEF Touches, Keeps
<1> QED  BY <1>1, <1>2

LEMMA FetchEffect ==
  ASSUME NEW t \in Traces, NEW pc \in Addr, NEW len \in {2, 4},
         Bytes(pc, len) \subseteq Addr, NEW m \in [Addr -> Val],
         AllOrNone(t, Bytes(pc, len))
  PROVE  LET u == Fetch(t, pc, len, m)
         IN  /\ Touches(t, u, Bytes(pc, len)) /\ Keeps(t, u, Bytes(pc, len), m)
             /\ u.execs = [t.execs EXCEPT ![pc] = @ + 1] /\ u.stores = t.stores
<1> DEFINE c == [t EXCEPT !.execs[pc] = @ + 1]
<1>1. /\ c \in Traces /\ c.visited = t.visited /\ c.content = t.content
      /\ c.execs = [t.execs EXCEPT ![pc] = @ + 1] /\ c.stores = t.stores
  BY DEF Traces
<1>2. CASE len = 2 \/ pc % 4 = 0
  <2>1. Fetch(t, pc, len, m) = FetchParcel(c, pc, len, m)
    BY <1>2 DEF Fetch
  <2> HIDE DEF c
  <2>2. AllOrNone(c, Bytes(pc, len))
    BY <1>1 DEF AllOrNone
  <2>3. LET u == FetchParcel(c, pc, len, m)
        IN  /\ Touches(c, u, Bytes(pc, len)) /\ Keeps(c, u, Bytes(pc, len), m)
            /\ u.execs = c.execs /\ u.stores = c.stores
    BY <1>1, <2>2, FetchParcelEffect
  <2> QED  BY <1>1, <2>1, <2>3 DEF Touches, Keeps
<1>3. CASE ~ (len = 2 \/ pc % 4 = 0)
  <2>1. /\ Bytes(pc, 2) \subseteq Addr /\ Bytes(pc + 2, 2) \subseteq Addr /\ pc + 2 \in Addr
        /\ Bytes(pc, len) = Bytes(pc, 2) \cup Bytes(pc + 2, 2)
        /\ Bytes(pc, 2) \cap Bytes(pc + 2, 2) = {}
    BY <1>3, TraceAssumption DEF Bytes
  <2> DEFINE u == FetchParcel(c, pc, 2, m)
             v == FetchParcel(u, pc + 2, 2, m)
  <2>2. Fetch(t, pc, len, m) = v
    BY <1>3 DEF Fetch
  <2> HIDE DEF c
  <2>3. AllOrNone(c, Bytes(pc, 2)) /\ AllOrNone(c, Bytes(pc + 2, 2))
    BY <1>1, <2>1 DEF AllOrNone
  <2>4. /\ Touches(c, u, Bytes(pc, 2)) /\ Keeps(c, u, Bytes(pc, 2), m)
        /\ u.execs = c.execs /\ u.stores = c.stores
    BY <1>1, <2>1, <2>3, FetchParcelEffect
  <2>5. u \in Traces
    BY <1>1, <2>1, FetchParcelType
  <2> HIDE DEF u
  <2>6. AllOrNone(u, Bytes(pc + 2, 2))
    BY <2>1, <2>3, <2>4 DEF AllOrNone, Touches
  <2>7. /\ Touches(u, v, Bytes(pc + 2, 2)) /\ Keeps(u, v, Bytes(pc + 2, 2), m)
        /\ v.execs = u.execs /\ v.stores = u.stores
    BY <2>1, <2>5, <2>6, FetchParcelEffect
  <2> HIDE DEF v
  <2>8. Touches(t, v, Bytes(pc, len)) /\ Keeps(t, v, Bytes(pc, len), m)
    BY <1>1, <2>1, <2>4, <2>7 DEF Touches, Keeps
  <2> QED  BY <1>1, <2>2, <2>4, <2>7, <2>8
<1> QED  BY <1>2, <1>3

(* The entries of the store table lie in touched bytes of D. *)
StoresIn(t, D) ==
  \A s \in Slot : \/ t.stores[s] = NoStore
                  \/ Bytes(t.stores[s].addr, t.stores[s].size) \subseteq t.visited \cap D

LEMMA StoreEffect ==
  ASSUME NEW t \in Traces, NEW base \in Addr, NEW n \in Nat,
         Bytes(base, n) \subseteq Addr, NEW D, Bytes(base, n) \subseteq D, StoresIn(t, D)
  PROVE  LET u == Store(t, base, n)
         IN  Touches(t, u, Bytes(base, n)) /\ u.execs = t.execs /\ StoresIn(u, D)
<1> DEFINE l == Load(t, Bytes(base, n), [a \in Addr |-> 0])
           u == Store(t, base, n)
<1>1. Touches(t, l, Bytes(base, n)) /\ l.execs = t.execs /\ l.stores = t.stores
  BY LoadEffect
<1>2. l \in Traces
  BY LoadType, TraceAssumption
<1>3. u = [l EXCEPT !.stores[Hash[base]] = [addr |-> base, size |-> n]]
  BY DEF Store
<1> HIDE DEF l, u
<1>4. /\ u.visited = l.visited /\ u.content = l.content /\ u.execs = l.execs
      /\ u.stores = [l.stores EXCEPT ![Hash[base]] = [addr |-> base, size |-> n]]
  BY <1>2, <1>3 DEF Traces
<1>5. ASSUME NEW s \in Slot
      PROVE  u.stores[s] = t.stores[s] \/ u.stores[s] = [addr |-> base, size |-> n]
  BY <1>1, <1>2, <1>4 DEF Traces
<1>6. u.visited = t.visited \cup Bytes(base, n)
  BY <1>1, <1>4 DEF Touches
<1>7. StoresIn(u, D)
  BY <1>5, <1>6 DEF StoresIn
<1> QED  BY <1>1, <1>4, <1>7 DEF u, Touches

LEMMA StoreBytesEffect ==
  ASSUME NEW t \in Traces, NEW base \in Addr, NEW n \in Nat,
         Bytes(base, n) \subseteq Addr, NEW D, Bytes(base, n) \subseteq D, StoresIn(t, D)
  PROVE  LET u == StoreBytes(t, base, n)
         IN  Touches(t, u, Bytes(base, n)) /\ u.execs = t.execs /\ StoresIn(u, D)
<1> DEFINE W == Bytes(base, n)
           l == Load(t, W, [a \in Addr |-> 0])
           u == StoreBytes(t, base, n)
           hits(s) == {a \in W : Hash[a] = s}
<1>1. Touches(t, l, W) /\ l.execs = t.execs /\ l.stores = t.stores
  BY LoadEffect
<1>2. l \in Traces
  BY LoadType, TraceAssumption
<1>3. u = [l EXCEPT !.stores = [s \in Slot |->
             IF hits(s) = {} THEN l.stores[s] ELSE [addr |-> Max(hits(s)), size |-> 1]]]
  BY <1>2 DEF StoreBytes, Traces
<1>4. ASSUME NEW s \in Slot, hits(s) # {}  PROVE Bytes(Max(hits(s)), 1) \subseteq W
  <2>1. base \in Int /\ n \in Int
    BY TraceAssumption
  <2>2. hits(s) \subseteq Bytes(base, n)
    OBVIOUS
  <2>3. Max(hits(s)) \in hits(s)
    <3> HIDE DEF hits
    <3> QED  BY <1>4, <2>1, <2>2, BytesMax
  <2> HIDE DEF hits
  <2>4. PICK x : x = Max(hits(s))
    OBVIOUS
  <2>5. x \in W /\ x \in Addr
    BY <2>2, <2>3, <2>4
  <2>6. Bytes(x, 1) \subseteq W
    BY <2>5, TraceAssumption DEF Bytes
  <2> QED  BY <2>4, <2>6
<1> HIDE DEF l, u, hits
<1>5. /\ u.visited = l.visited /\ u.content = l.content /\ u.execs = l.execs
      /\ u.stores = [s \in Slot |->
             IF hits(s) = {} THEN l.stores[s] ELSE [addr |-> Max(hits(s)), size |-> 1]]
  BY <1>2, <1>3 DEF Traces
<1>6. u.visited = t.visited \cup W
  BY <1>1, <1>5 DEF Touches
<1>7. StoresIn(u, D)
  BY <1>1, <1>4, <1>5, <1>6 DEF StoresIn
<1> QED  BY <1>1, <1>5, <1>7 DEF u, Touches

(* Two operations in a row. *)
LEMMA TouchesTwice ==
  ASSUME NEW t, NEW u, NEW v, NEW A, NEW B, NEW m,
         Touches(t, u, A), Keeps(t, u, A, m), Touches(u, v, B)
  PROVE  /\ Touches(t, v, A \cup B)
         /\ Keeps(t, v, A, m)
         /\ Keeps(u, v, B, m) => Keeps(t, v, A \cup B, m)
BY DEF Touches, Keeps

-----------------------------------------------------------------------------
(* Recorder and Replay.                                                    *)

(* The constants' assumptions, as the proofs use them. *)
LEMMA InstFacts ==
  ASSUME NEW i \in Inst
  PROVE  /\ i.pc \in Addr /\ i.len \in {2, 4} /\ i.op \in Op
         /\ i.rd \in 0..31 /\ i.base \in Addr /\ i.size \in Nat
         /\ Bytes(i.pc, i.len) \subseteq Addr
         /\ Bytes(i.base, i.size) \subseteq Addr
         /\ i.op = "ecall" => i.len = 4
BY RecorderAssumption DEF InstType

-----------------------------------------------------------------------------
(* Types of the structured values.                                         *)

Mem == [Addr -> Val]

RepVal == Val \cup {1}

Calls ==
  UNION { [ pc : Addr, ret : RepVal, rd : Int, brk : BOOLEAN,
            w : {W}, data : [W -> Val] ] : W \in SUBSET Addr }

Events ==
  [ i : Inst, m : Mem, n : Mem, a0 : Val, f : Val, nf : Val, val : Val,
    w : SUBSET Addr, c : Nat ]

BreakKinds == {"none", "ecall", "first", "firstrvc", "repeat", "exit"}

BreakLines == [ pc : Addr, kind : BreakKinds, count : Nat, rd : Int ]

IsSlice(s) ==
  /\ s.a0 \in Val
  /\ s.dump.visited \subseteq Addr /\ s.dump.content \in Mem
  /\ s.calls \in Seq(Calls)
  /\ s.brk \in BreakLines
  /\ s.ev \in Seq(Events)
  /\ s.mem \in Mem

GuestType ==
  /\ mem \in Mem /\ a0 \in Val /\ fcsr \in Val
  /\ instret \in 0..MaxInst /\ halted \in BOOLEAN

RecordType ==
  /\ recording \in BOOLEAN
  /\ tr \in Traces
  /\ begin_instret \in 0..MaxInst
  /\ entry_a0 \in Val
  /\ calls \in Seq(Calls)
  /\ line \in {"done", "open", "garbled"}
  /\ slice # NoSlice => IsSlice(slice)
  /\ ev \in Seq(Events)

ReplayType ==
  /\ phase \in {"record", "replay"} /\ pass \in {1, 2}
  /\ rtab \in Seq(Calls)
  /\ rpos \in Nat
  /\ rmem \in [Addr -> Val \cup {Jump, Hole}]
  /\ rval \in RepVal
  /\ rk \in Nat \ {0}
  /\ repeat \in Int
  /\ newcalls \in Seq(Calls)
  /\ rstat \in {"none", "run", "found", "finish"}
  /\ phase = "replay" => slice # NoSlice /\ rk <= Len(slice.ev) + 1
  /\ rstat # "none" => phase = "replay"

(* TypeOK is not inductive by itself: the memory of a replay comes from     *)
(* the slice, the replay table and the history.                             *)
Types == GuestType /\ RecordType /\ ReplayType

LEMMA TypesImplyTypeOK == Types => TypeOK
BY DEF Types, GuestType, RecordType, ReplayType, TypeOK, Mem

LEMMA InitTypes == Init => Types
<1> SUFFICES ASSUME Init PROVE Types
  OBVIOUS
<1>0. halted \in BOOLEAN /\ recording \in BOOLEAN
  BY Zenon DEF Init, RecordInit
<1>1. GuestType
  BY <1>0, TraceAssumption, RecorderAssumption DEF Init, RecordInit, GuestType, Mem
<1>2. RecordType
  BY <1>0, NewTraceType, TraceAssumption, RecorderAssumption DEF Init, RecordInit, RecordType
<1>3. ReplayType
  BY TraceAssumption DEF Init, ReplayType, RepVal
<1> QED  BY <1>1, <1>2, <1>3 DEF Types

-----------------------------------------------------------------------------
(* The parts of an action.                                                 *)

LEMMA FetchTraceType ==
  ASSUME Types, NEW i \in Inst  PROVE FetchTrace(i) \in Traces
BY InstFacts, FetchType DEF FetchTrace, Types, GuestType, RecordType, Mem

LEMMA RecordAccessType ==
  ASSUME Types, NEW i \in Inst  PROVE RecordAccess(FetchTrace(i), i) \in Traces
<1> DEFINE t == FetchTrace(i)
           B == Bytes(i.base, i.size)
<1>1. t \in Traces
  BY FetchTraceType
<1>2. B \in SUBSET Addr /\ i.base \in Addr /\ i.size \in Nat
  BY InstFacts
<1>3. \A a \in B : mem[a] \in Val
  BY <1>2 DEF Types, GuestType, Mem
<1> HIDE DEF t
<1>4. Load(t, B, mem) \in Traces
  BY <1>1, <1>2, <1>3, LoadType
<1>5. Store(t, i.base, i.size) \in Traces /\ Store(Load(t, B, mem), i.base, i.size) \in Traces
  BY <1>1, <1>2, <1>4, StoreType
<1>6. RecordAccess(t, i) \in Traces
  BY <1>1, <1>4, <1>5 DEF RecordAccess
<1> QED  BY <1>6 DEF t

(* The turn of the loop. *)
LEMMA TurnType ==
  ASSUME Types, Turn
  PROVE  instret' \in 0..MaxInst /\ begin_instret' \in 0..MaxInst /\ entry_a0' \in Val
BY RecorderAssumption
   DEF Turn, Types, GuestType, RecordType, BeginInstret, EntryA0

LEMMA ResultType ==
  ASSUME Types, NEW i \in Inst, NEW v \in ValuesOf(i)
  PROVE  v \in Val /\ Result(i, v) \in Val
BY InstFacts, TraceAssumption, RecorderAssumption
   DEF ValuesOf, Result, Types, GuestType, Mem

LEMMA ExecInstType ==
  ASSUME Types, NEW i \in Inst, NEW v \in ValuesOf(i), ExecInst(i, v)
  PROVE  mem' \in Mem /\ a0' \in Val /\ fcsr' \in Val /\ halted' \in BOOLEAN
BY ResultType DEF ExecInst, Types, GuestType, Mem

LEMMA ExecCallType ==
  ASSUME Types, NEW i \in Inst, NEW o, NEW v \in Val, NEW ret \in Val,
         ExecCall(i, o, v, ret)
  PROVE  mem' \in Mem /\ a0' \in Val /\ fcsr' \in Val /\ halted' \in BOOLEAN
BY TraceAssumption DEF ExecCall, Types, GuestType, Mem

LEMMA GetRdType ==
  ASSUME NEW i \in Inst  PROVE GetRd(i) \in Int
BY InstFacts DEF GetRd, A0

(* What the history gets is an event. *)
LEMMA EventType ==
  ASSUME Types, NEW i \in Inst, NEW v \in Val, NEW w \in SUBSET Addr,
         mem' \in Mem, a0' \in Val, fcsr' \in Val, calls' \in Seq(Calls)
  PROVE  Event(i, v, w) \in Events
BY DEF Event, Events, Types, GuestType

(* A slice that ends has the type of a slice. *)
LEMMA BreakHereType ==
  ASSUME Types, NEW t \in Traces, NEW b \in BreakLines, BreakHere(t, b)
  PROVE  /\ IsSlice(slice') /\ recording' \in BOOLEAN /\ tr' \in Traces
         /\ calls' \in Seq(Calls) /\ ev' \in Seq(Events)
<1>1. Dump(t, mem).visited \subseteq Addr /\ Dump(t, mem).content \in Mem
  BY DEF Dump, Traces, Mem
<1>2. EntryA0 \in Val
  BY DEF EntryA0, Types, GuestType, RecordType
<1>3. IsSlice(slice')
  BY <1>1, <1>2 DEF BreakHere, IsSlice, Types, GuestType, RecordType
<1>4. recording' \in BOOLEAN
  BY Zenon DEF BreakHere
<1> QED  BY <1>3, <1>4, NewTraceType DEF BreakHere

LEMMA BreakLineType ==
  ASSUME Types, NEW i \in Inst, NEW kind \in BreakKinds
  PROVE  BreakLine(i, kind) \in BreakLines
<1>1. FetchTrace(i).execs[i.pc] \in Nat
  BY FetchTraceType, InstFacts DEF Traces
<1> QED  BY <1>1, InstFacts, GetRdType DEF BreakLine, BreakLines, A0

-----------------------------------------------------------------------------
(* The recording actions.                                                  *)

(* A record step leaves the replay alone. *)
LEMMA RecordKeepsReplayType ==
  ASSUME Types, phase = "record", UNCHANGED replayVars  PROVE ReplayType'
BY DEF Types, ReplayType, replayVars

LEMMA StepTypes ==
  ASSUME Types, NEW i \in Inst, Step(i)  PROVE GuestType' /\ RecordType'
<1>1. PICK v \in ValuesOf(i) :
        /\ ExecInst(i, v)
        /\ Continue(RecordAccess(FetchTrace(i), i))
        /\ UNCHANGED <<calls, line>>
        /\ ev' = Append(ev, Event(i, Result(i, v), {}))
  BY DEF Step
<1>2. mem' \in Mem /\ a0' \in Val /\ fcsr' \in Val /\ halted' \in BOOLEAN
  BY <1>1, ExecInstType
<1>3. instret' \in 0..MaxInst /\ begin_instret' \in 0..MaxInst /\ entry_a0' \in Val
  BY TurnType DEF Step
<1>4. Event(i, Result(i, v), {}) \in Events
  BY <1>1, <1>2, ResultType, EventType DEF Types, RecordType
<1>5. ev' \in Seq(Events)
  BY <1>1, <1>4 DEF Types, RecordType
<1>6. recording' \in BOOLEAN
  BY <1>1, Zenon DEF Continue
<1>7. tr' \in Traces
  BY <1>1, RecordAccessType DEF Continue
<1>8. slice' # NoSlice => IsSlice(slice')
  BY <1>1 DEF Continue, Types, RecordType, NoSlice
<1> QED  BY <1>1, <1>2, <1>3, <1>5, <1>6, <1>7, <1>8
         DEF GuestType, RecordType, Types

LEMMA EcallTypes ==
  ASSUME Types, NEW i \in Inst, Ecall(i)  PROVE GuestType' /\ RecordType'
<1>1. PICK o \in CallOutcomes \ {Exits}, v \in Val, ret \in Val :
        ExecCall(i, o, v, ret) /\ SysCall(i, o, ret)
  BY DEF Ecall
<1> DEFINE w == IF o.log = "buf" THEN Bytes(i.base, i.size) ELSE {}
           c == [ pc |-> i.pc, ret |-> ret, rd |-> A0, brk |-> FALSE, w |-> w,
                  data |-> [a \in w |-> mem'[a]] ]
<1>2. mem' \in Mem /\ a0' \in Val /\ fcsr' \in Val /\ halted' \in BOOLEAN
  BY <1>1, ExecCallType
<1>3. instret' \in 0..MaxInst /\ begin_instret' \in 0..MaxInst /\ entry_a0' \in Val
  BY TurnType DEF Ecall
<1>4. w \in SUBSET Addr
  BY InstFacts
<1>5. c \in Calls
  <2>1. [a \in w |-> mem'[a]] \in [w -> Val]
    BY <1>2, <1>4 DEF Mem
  <2> HIDE DEF w
  <2>2. c \in [ pc : Addr, ret : RepVal, rd : Int, brk : BOOLEAN,
                w : {w}, data : [w -> Val] ]
    BY <2>1, InstFacts DEF RepVal, A0
  <2> HIDE DEF c
  <2> QED  BY <2>2, <1>4 DEF Calls
<1>6. calls' \in Seq(Calls)
  <2>1. calls' = calls \/ calls' = Append(calls, c)
    BY <1>1 DEF SysCall
  <2> HIDE DEF c
  <2> QED  BY <2>1, <1>5 DEF Types, RecordType
<1>7. ev' = Append(ev, Event(i, ret, w))
  BY <1>1 DEF SysCall
<1>8. ev' \in Seq(Events)
  <2> HIDE DEF w
  <2> QED  BY <1>2, <1>4, <1>6, <1>7, EventType DEF Types, RecordType
<1>9. PICK t \in Traces : Continue(t)
  <2>1. StoreBytes(FetchTrace(i), i.base, i.size) \in Traces
    BY FetchTraceType, StoreBytesType, InstFacts
  <2> QED  BY <1>1, <2>1, FetchTraceType DEF SysCall
<1>10. recording' \in BOOLEAN
  BY <1>9, Zenon DEF Continue
<1>11. tr' \in Traces /\ (slice' # NoSlice => IsSlice(slice'))
  BY <1>9 DEF Continue, Types, RecordType, NoSlice
<1>12. line' \in {"done", "open", "garbled"}
  BY <1>1 DEF SysCall, Printed
<1> HIDE DEF w, c
<1> QED  BY <1>2, <1>3, <1>6, <1>8, <1>10, <1>11, <1>12 DEF GuestType, RecordType

LEMMA ExitTypes ==
  ASSUME Types, NEW i \in Inst, Exit(i)  PROVE GuestType' /\ RecordType'
<1>1. mem' \in Mem /\ a0' \in Val /\ fcsr' \in Val /\ halted' \in BOOLEAN
  BY ExecCallType, TraceAssumption DEF Exit
<1>2. instret' \in 0..MaxInst /\ begin_instret' \in 0..MaxInst /\ entry_a0' \in Val
  BY TurnType DEF Exit
<1>3. /\ IsSlice(slice') /\ recording' \in BOOLEAN /\ tr' \in Traces
      /\ calls' \in Seq(Calls) /\ ev' \in Seq(Events)
  <2>1. BreakLine(i, "exit") \in BreakLines
    BY BreakLineType DEF BreakKinds
  <2> QED  BY <2>1, BreakHereType, FetchTraceType DEF Exit
<1>4. line' \in {"done", "open", "garbled"}
  BY DEF Exit, Printed
<1> QED  BY <1>1, <1>2, <1>3, <1>4 DEF GuestType, RecordType

LEMMA BreakTypes ==
  ASSUME Types, NEW i \in Inst, Break(i)  PROVE GuestType' /\ RecordType'
<1>1. mem' \in Mem /\ a0' \in Val /\ fcsr' \in Val /\ halted' \in BOOLEAN
  BY ExecCallType, ExecInstType DEF Break
<1>2. instret' \in 0..MaxInst /\ begin_instret' \in 0..MaxInst /\ entry_a0' \in Val
  BY TurnType DEF Break
<1>3. BreakKind(i) \in BreakKinds
  BY DEF BreakKind, BreakKinds
<1>4. BreakLine(i, BreakKind(i)) \in BreakLines
  BY <1>3, BreakLineType
<1>5. /\ IsSlice(slice') /\ recording' \in BOOLEAN /\ tr' \in Traces
      /\ calls' \in Seq(Calls) /\ ev' \in Seq(Events)
  BY <1>4, BreakHereType, FetchTraceType DEF Break
<1>6. line' \in {"done", "open", "garbled"}
  BY DEF Break, Printed
<1> QED  BY <1>1, <1>2, <1>5, <1>6 DEF GuestType, RecordType

-----------------------------------------------------------------------------
(* The replay actions.                                                     *)

LEMMA BreakCallType ==
  ASSUME NEW pc \in Addr  PROVE BreakCall(pc) \in Calls
<1>1. BreakCall(pc) \in [ pc : Addr, ret : RepVal, rd : Int, brk : BOOLEAN,
                          w : {{}}, data : [{} -> Val] ]
  BY TraceAssumption DEF BreakCall, RepVal, A0
<1> QED  BY <1>1 DEF Calls

(* What replay() finds in the table writes bytes of the memory. *)
LEMMA CallFacts ==
  ASSUME NEW c \in Calls
  PROVE  /\ c.w \subseteq Addr /\ c.data \in [c.w -> Val]
         /\ c.pc \in Addr /\ c.ret \in RepVal
BY DEF Calls

(* The replay leaves guest and recorder alone. *)
LEMMA ReplayKeepsRecordType ==
  ASSUME Types, UNCHANGED <<guestVars, recordVars>>
  PROVE  GuestType' /\ RecordType'
<1>1. UNCHANGED <<mem, a0, fcsr, instret, halted, recording, tr, begin_instret,
                  entry_a0, calls, line, slice, ev>>
  BY DEF guestVars, recordVars
<1>2. IsSlice(slice)' <=> IsSlice(slice)
  BY <1>1 DEF IsSlice
<1> QED  BY <1>1, <1>2 DEF Types, GuestType, RecordType, NoSlice

LEMMA LoadImageType ==
  ASSUME Types, slice # NoSlice, NEW tab \in Seq(Calls), NEW p \in {1, 2},
         LoadImage(tab, p)
  PROVE  /\ pass' \in {1, 2} /\ rtab' \in Seq(Calls) /\ rpos' \in Nat
         /\ rmem' \in [Addr -> Val \cup {Jump, Hole}]
         /\ rval' \in RepVal /\ rk' = 1
<1>1. Image(slice, tab) \in [Addr -> Val \cup {Jump, Hole}]
  BY DEF Image, Types, RecordType, IsSlice, Mem
<1> QED  BY <1>1, TraceAssumption DEF LoadImage, RepVal

LEMMA FirstTableType ==
  ASSUME NEW s, IsSlice(s)  PROVE FirstTable(s) \in Seq(Calls)
<1>1. BreakCall(s.brk.pc) \in Calls
  BY BreakCallType DEF IsSlice, BreakLines
<1> QED  BY <1>1 DEF FirstTable, IsSlice

LEMMA StartReplayTypes ==
  ASSUME Types, StartReplay  PROVE Types'
<1>1. GuestType' /\ RecordType'
  BY ReplayKeepsRecordType DEF StartReplay
<1>2. FirstTable(slice) \in Seq(Calls) /\ slice.brk.count \in Int /\ Len(slice.ev) \in Nat
  BY FirstTableType DEF StartReplay, Types, RecordType, IsSlice, BreakLines
<1>3. /\ pass' \in {1, 2} /\ rtab' \in Seq(Calls) /\ rpos' \in Nat
      /\ rmem' \in [Addr -> Val \cup {Jump, Hole}]
      /\ rval' \in RepVal /\ rk' = 1
  BY <1>2, LoadImageType DEF StartReplay
<1>4. newcalls' \in Seq(Calls) /\ rstat' \in {"run", "found"}
  <2>1. BreakCall(slice.brk.pc) \in Calls
    BY BreakCallType DEF StartReplay, Types, RecordType, IsSlice, BreakLines
  <2> DEFINE b == BreakCall(slice.brk.pc)
  <2>2. \/ newcalls' = <<b>> /\ rstat' = "found"
        \/ newcalls' = <<>> /\ rstat' = "run"
    BY DEF StartReplay, BeginLine
  <2>3. b \in Calls  BY <2>1
  <2> HIDE DEF b
  <2>4. <<b>> \in Seq(Calls) /\ <<>> \in Seq(Calls)  BY <2>3
  <2> QED  BY <2>2, <2>4
<1>5. ReplayType'
  BY <1>2, <1>3, <1>4 DEF StartReplay, ReplayType, recordVars, NoSlice
<1> QED  BY <1>1, <1>5 DEF Types

LEMMA SecondPassTypes ==
  ASSUME Types, SecondPass  PROVE Types'
<1>1. GuestType' /\ RecordType'
  BY ReplayKeepsRecordType DEF SecondPass
<1>2. slice # NoSlice /\ phase = "replay" /\ Len(slice.ev) \in Nat
  BY DEF SecondPass, Types, ReplayType, RecordType, IsSlice
<1>3. /\ pass' \in {1, 2} /\ rtab' \in Seq(Calls) /\ rpos' \in Nat
      /\ rmem' \in [Addr -> Val \cup {Jump, Hole}]
      /\ rval' \in RepVal /\ rk' = 1
  BY <1>2, LoadImageType DEF SecondPass, Types, ReplayType
<1>4. ReplayType'
  BY <1>2, <1>3 DEF SecondPass, Types, ReplayType, recordVars, NoSlice
<1> QED  BY <1>1, <1>4 DEF Types

LEMMA RerunLineType ==
  ASSUME Types, phase = "replay", NEW c \in Calls, NEW left, NEW seen,
         RerunLine(c, left, seen)
  PROVE  newcalls' \in Seq(Calls) /\ rstat' \in {"run", "found"}
<1>1. BreakCall(slice.brk.pc) \in Calls
  BY BreakCallType DEF Types, RecordType, ReplayType, IsSlice, BreakLines
<1>2. Append(newcalls, c) \in Seq(Calls)
  BY DEF Types, ReplayType
<1>3. Append(Append(newcalls, c), BreakCall(slice.brk.pc)) \in Seq(Calls)
  BY <1>1, <1>2
<1> QED  BY <1>2, <1>3 DEF RerunLine

LEMMA TrapReturnTypes ==
  ASSUME Types, TrapReturn  PROVE Types'
<1>1. GuestType' /\ RecordType'
  BY ReplayKeepsRecordType DEF TrapReturn
<1>2. NextCall \in Calls /\ phase = "replay"
  BY DEF TrapReturn, NextCall, Running, Types, ReplayType
<1>3. rmem' \in [Addr -> Val \cup {Jump, Hole}]
  BY <1>2, CallFacts DEF TrapReturn, MemAfterCall, Types, ReplayType
<1>4. newcalls' \in Seq(Calls) /\ rstat' \in {"run", "found"}
  BY <1>2, RerunLineType DEF TrapReturn, Running, Types, ReplayType
<1>5. slice' = slice /\ Len(slice.ev) \in Nat
  BY <1>2 DEF TrapReturn, recordVars, Types, RecordType, ReplayType, IsSlice
<1>6. rk' \in Nat \ {0} /\ rk' <= Len(slice.ev) + 1
  <2>1. rk \in Nat \ {0} /\ rk <= Len(slice.ev) + 1
    BY <1>2 DEF Types, ReplayType
  <2>2. rk' = rk + 1 /\ rk # Len(slice.ev) + 1
    BY DEF TrapReturn, AtEnd
  <2> QED  BY <1>5, <2>1, <2>2
<1>7. rval' \in RepVal /\ rpos' \in Nat
  BY <1>2, CallFacts DEF TrapReturn, Types, ReplayType
<1>8. ReplayType'
  BY <1>2, <1>3, <1>4, <1>5, <1>6, <1>7 DEF TrapReturn, Types, ReplayType, NoSlice
<1> QED  BY <1>1, <1>8 DEF Types

LEMMA TrapExitTypes ==
  ASSUME Types, TrapExit  PROVE Types'
<1>1. GuestType' /\ RecordType'
  BY ReplayKeepsRecordType DEF TrapExit
<1>2. NextCall \in Calls /\ phase = "replay"
  BY DEF TrapExit, NextCall, Running, Types, ReplayType
<1>3. rmem' \in [Addr -> Val \cup {Jump, Hole}]
  BY <1>2, CallFacts DEF TrapExit, MemAfterCall, Types, ReplayType
<1>4. ReplayType'
  BY <1>2, <1>3 DEF TrapExit, Types, ReplayType, recordVars, NoSlice
<1> QED  BY <1>1, <1>4 DEF Types

LEMMA ReplayInstTypes ==
  ASSUME Types, ReplayInst  PROVE Types'
<1> DEFINE e == slice.ev[rk]
<1>1. GuestType' /\ RecordType'
  BY ReplayKeepsRecordType DEF ReplayInst
<1>2. phase = "replay" /\ IsSlice(slice) /\ slice' = slice
  BY DEF ReplayInst, Running, Types, ReplayType, RecordType, recordVars
<1>3. e \in Events /\ rk <= Len(slice.ev) /\ Len(slice.ev) \in Nat
  <2>1. slice.ev \in Seq(Events)
    BY <1>2 DEF IsSlice
  <2>2. rk \in Nat \ {0} /\ rk <= Len(slice.ev) + 1 /\ rk # Len(slice.ev) + 1
    BY <1>2 DEF ReplayInst, AtEnd, Types, ReplayType
  <2> QED  BY <2>1, <2>2
<1> HIDE DEF e
<1>4. rmem' \in [Addr -> Val \cup {Jump, Hole}] /\ rval' \in RepVal
  BY <1>3 DEF ReplayInst, e, Events, Mem, RepVal, Types, ReplayType
<1>5. ExecuteLine(e) \in Calls
  <2>1. e.i.pc \in Addr /\ slice.brk.rd \in Int
    BY <1>2, <1>3, InstFacts DEF Events, IsSlice, BreakLines
  <2>2. ExecuteLine(e) \in [ pc : Addr, ret : RepVal, rd : Int, brk : BOOLEAN,
                             w : {{}}, data : [{} -> Val] ]
    BY <1>4, <2>1 DEF ExecuteLine
  <2> QED  BY <2>2 DEF Calls
<1>6. newcalls' \in Seq(Calls) /\ rstat' \in {"run", "found"} /\ repeat' \in Int
  <2>1. CASE Tracing /\ e.i.pc = slice.brk.pc
    <3>1. RerunLine(ExecuteLine(e), repeat - 1, rpos) /\ repeat' = repeat - 1
      BY <2>1 DEF ReplayInst, e
    <3> QED  BY <1>2, <1>5, <3>1, RerunLineType DEF Types, ReplayType
  <2>2. CASE ~ (Tracing /\ e.i.pc = slice.brk.pc)
    BY <2>2 DEF ReplayInst, Running, e, Types, ReplayType
  <2> QED  BY <2>1, <2>2
<1>7. ReplayType'
  BY <1>2, <1>3, <1>4, <1>6 DEF ReplayInst, Types, ReplayType, NoSlice
<1> QED  BY <1>1, <1>7 DEF Types

-----------------------------------------------------------------------------
LEMMA NextTypes == Types /\ [Next]_vars => Types'
<1> SUFFICES ASSUME Types, [Next]_vars  PROVE Types'
  OBVIOUS
<1>1. CASE Record
  <2>1. PICK i \in Inst : Step(i) \/ Ecall(i) \/ Exit(i) \/ Break(i)
    BY <1>1 DEF Record, RecordNext
  <2>2. GuestType' /\ RecordType'
    BY <2>1, StepTypes, EcallTypes, ExitTypes, BreakTypes
  <2> QED  BY <1>1, <2>2, RecordKeepsReplayType DEF Record, Types
<1>2. CASE StartReplay
  BY <1>2, StartReplayTypes
<1>3. CASE ReplayNext
  BY <1>3, SecondPassTypes, TrapReturnTypes, TrapExitTypes, ReplayInstTypes
     DEF ReplayNext
<1>4. CASE UNCHANGED vars
  <2>1. GuestType' /\ RecordType'
    BY <1>4, ReplayKeepsRecordType DEF vars
  <2>2. ReplayType'
    BY <1>4 DEF vars, replayVars, recordVars, Types, ReplayType, NoSlice
  <2> QED  BY <2>1, <2>2 DEF Types
<1> QED  BY <1>1, <1>2, <1>3, <1>4 DEF Next

(* Every state of recorder and replay has its type: in particular the       *)
(* traces stay traces whatever mixture of fetches, loads, stores and system *)
(* calls reaches them, and a replay never writes anything but bytes.        *)
THEOREM TypeCorrect == Spec => []TypeOK
<1>1. Spec => []Types
  BY InitTypes, NextTypes, PTL DEF Spec
<1> QED  BY <1>1, TypesImplyTypeOK, PTL

-----------------------------------------------------------------------------
(* Slices follow each other.                                               *)

(* How far the run has got since the last slice ended. *)
SliceInv ==
  /\ recording => /\ Len(ev) = instret - begin_instret
                  /\ slice # NoSlice => slice.end = begin_instret - 1
  /\ ~ recording => /\ ev = <<>>
                    /\ slice # NoSlice => slice.end = instret - 1

LEMMA SliceInvInit == Init => SliceInv
<1> SUFFICES ASSUME Init PROVE SliceInv
  OBVIOUS
<1>1. ~ recording
  BY DEF Init, RecordInit
<1> QED  BY <1>1 DEF Init, RecordInit, SliceInv

(* The length of the history, and where the slice began, in one formula. *)
LEMMA SliceLength ==
  ASSUME Types, SliceInv
  PROVE  /\ Len(ev) = instret - BeginInstret
         /\ slice # NoSlice => slice.end = BeginInstret - 1
         /\ BeginInstret \in Int /\ instret \in Int /\ ev \in Seq(Events)
BY DEF Types, GuestType, RecordType, SliceInv, BeginInstret

(* An instruction that is recorded makes the slice one longer. *)
LEMMA SliceInvContinue ==
  ASSUME Types, SliceInv, Turn, NEW e \in Events, ev' = Append(ev, e),
         recording', slice' = slice
  PROVE  SliceInv'
BY SliceLength DEF SliceInv, Turn, NoSlice

(* A breakpoint ends it. *)
LEMMA SliceInvBreak ==
  ASSUME Types, SliceInv, Turn, NEW t, NEW b, BreakHere(t, b)
  PROVE  /\ SliceInv'
         /\ slice # NoSlice => slice'.begin = slice.end + 1
         /\ Len(slice'.ev) = slice'.end - slice'.begin
<1>1. ~ recording' /\ ev' = <<>>
  BY DEF BreakHere
<1>2. slice'.begin = BeginInstret /\ slice'.end = instret /\ slice'.ev = ev
  BY DEF BreakHere
<1>3. instret' = instret + 1
  BY DEF Turn
<1> QED  BY <1>1, <1>2, <1>3, SliceLength DEF SliceInv

LEMMA SliceInvNext ==
  ASSUME Types, SliceInv, [Next]_vars
  PROVE  /\ SliceInv'
         /\ slice' # slice => /\ slice # NoSlice => slice'.begin = slice.end + 1
                              /\ Len(slice'.ev) = slice'.end - slice'.begin
<1>1. ASSUME NEW i \in Inst, Step(i)  PROVE SliceInv' /\ slice' = slice
  <2>1. PICK v \in ValuesOf(i) :
          /\ ExecInst(i, v)
          /\ Continue(RecordAccess(FetchTrace(i), i))
          /\ ev' = Append(ev, Event(i, Result(i, v), {}))
    BY <1>1 DEF Step
  <2>2. Event(i, Result(i, v), {}) \in Events
    BY <1>1, <2>1, ExecInstType, ResultType, EventType DEF Step, Types, RecordType
  <2>3. recording' /\ slice' = slice /\ Turn
    BY <1>1, <2>1 DEF Continue, Step
  <2> QED  BY <2>1, <2>2, <2>3, SliceInvContinue
<1>2. ASSUME NEW i \in Inst, Ecall(i)  PROVE SliceInv' /\ slice' = slice
  <2>1. PICK o \in CallOutcomes \ {Exits}, ret \in Val : SysCall(i, o, ret)
    BY <1>2 DEF Ecall
  <2>2. PICK e : ev' = Append(ev, e)
    BY <2>1 DEF SysCall
  <2>3. ev' \in Seq(Events)
    BY <1>2, EcallTypes DEF RecordType
  <2>4. e \in Events
    <3>1. ev \in Seq(Events)
      BY DEF Types, RecordType
    <3>2. e = ev'[Len(ev) + 1] /\ Len(ev) + 1 \in 1 .. Len(ev')
      BY <2>2, <2>3, <3>1
    <3> QED  BY <2>3, <3>2
  <2>5. recording' /\ slice' = slice /\ Turn
    BY <1>2, <2>1 DEF SysCall, Continue, Ecall
  <2> QED  BY <2>2, <2>4, <2>5, SliceInvContinue
<1>3. ASSUME NEW i \in Inst, Exit(i) \/ Break(i)
      PROVE  /\ SliceInv'
             /\ slice # NoSlice => slice'.begin = slice.end + 1
             /\ Len(slice'.ev) = slice'.end - slice'.begin
  <2>1. Turn /\ \E t, b : BreakHere(t, b)
    BY <1>3 DEF Exit, Break
  <2> QED  BY <2>1, SliceInvBreak
<1>4. CASE UNCHANGED <<guestVars, recordVars>>
  BY <1>4 DEF guestVars, recordVars, SliceInv, NoSlice
<1> QED  BY <1>1, <1>2, <1>3, <1>4
         DEF Next, Record, RecordNext, StartReplay, ReplayNext, SecondPass,
             TrapReturn, TrapExit, ReplayInst, vars

(* The slices of a run cover it without overlap: every instruction but the  *)
(* breakpoints is recorded in exactly one slice, whatever the period and    *)
(* the mixture of breakpoints (fmt.h:403, "enables checkpoint               *)
(* concatenating").                                                         *)
THEOREM SlicesConcatenate == Spec => Concatenates
<1>1. Spec => []Types
  BY InitTypes, NextTypes, PTL DEF Spec
<1>2. Init => SliceInv
  BY SliceInvInit
<1>3. Types /\ SliceInv /\ [Next]_vars => SliceInv'
  BY SliceInvNext
<1>4. Types /\ SliceInv /\ [Next]_vars =>
        [ slice' # slice => /\ slice # NoSlice => slice'.begin = slice.end + 1
                            /\ Len(slice'.ev) = slice'.end - slice'.begin ]_vars
  BY SliceInvNext
<1> QED  BY <1>1, <1>2, <1>3, <1>4, PTL DEF Spec, Concatenates

-----------------------------------------------------------------------------
(* The log.                                                                *)

LEMMA LoggedOutcomes ==
  ASSUME Handlers \subseteq LoggedHandlers, NEW o \in CallOutcomes
  PROVE  o.log # "none"
<1>1. PICK h \in Handlers : o \in Outcomes(h)
  BY DEF CallOutcomes
<1> QED  BY <1>1 DEF LoggedHandlers

(* If every handler the guest uses ends by telling the recorder its return  *)
(* value, no line of the log is ever garbled: each syscall line is          *)
(* completed before another line, a breakpoint's included, begins.          *)
THEOREM LogStaysWellFormed ==
  ASSUME Handlers \subseteq LoggedHandlers
  PROVE  Spec => []LogWellFormed
<1> DEFINE Inv == line = "done"
<1>1. Init => Inv
  BY DEF Init, RecordInit
<1>2. Inv /\ [Next]_vars => Inv'
  <2> SUFFICES ASSUME Inv, [Next]_vars  PROVE Inv'
    OBVIOUS
  <2>1. ASSUME NEW i \in Inst, Step(i) \/ Exit(i) \/ Break(i)  PROVE Inv'
    BY <2>1 DEF Step, Exit, Break, Printed
  <2>2. ASSUME NEW i \in Inst, Ecall(i)  PROVE Inv'
    BY <2>2, LoggedOutcomes DEF Ecall, SysCall, Printed
  <2>3. CASE UNCHANGED recordVars
    BY <2>3 DEF recordVars
  <2> QED  BY <2>1, <2>2, <2>3
           DEF Next, Record, RecordNext, StartReplay, ReplayNext, SecondPass,
               TrapReturn, TrapExit, ReplayInst, vars
<1>3. Inv => LogWellFormed
  BY DEF LogWellFormed
<1> QED  BY <1>1, <1>2, <1>3, PTL DEF Spec

-----------------------------------------------------------------------------
(***************************************************************************)
(* The recording of a slice of a replayable guest.                         *)
(***************************************************************************)

-----------------------------------------------------------------------------
(* Counting.                                                               *)

(* A part of an interval is finite; one more element counts one more.       *)
LEMMA PartFinite ==
  ASSUME NEW k \in Nat, NEW S \in SUBSET (1 .. k)
  PROVE  IsFiniteSet(S) /\ Cardinality(S) \in Nat
<1>1. IsFiniteSet(1 .. k)
  BY FS_Interval
<1>2. IsFiniteSet(S)
  BY <1>1, FS_Subset
<1> QED  BY <1>2, FS_CardinalityType

LEMMA PartSmaller ==
  ASSUME NEW k \in Nat, NEW S \in SUBSET (1 .. k), NEW T \in SUBSET S
  PROVE  /\ Cardinality(T) <= Cardinality(S)
         /\ Cardinality(T) = Cardinality(S) => T = S
<1>1. IsFiniteSet(S) /\ Cardinality(S) \in Nat
  BY PartFinite
<1>2. Cardinality(T) \in Nat
  <2>1. T \in SUBSET (1 .. k)
    OBVIOUS
  <2> QED  BY <2>1, PartFinite
<1> QED  BY <1>1, <1>2, FS_Subset

LEMMA ExecutionsNext ==
  ASSUME NEW evs, NEW pc, NEW k \in Nat
  PROVE  /\ Executions(evs, pc, k) \in Nat
         /\ Executions(evs, pc, 0) = 0
         /\ Executions(evs, pc, k + 1) =
              IF evs[k + 1].i.pc = pc THEN Executions(evs, pc, k) + 1 ELSE Executions(evs, pc, k)
<1> DEFINE S(n) == {j \in 1 .. n : evs[j].i.pc = pc}
<1>1. S(k) \in SUBSET (1 .. k) /\ k + 1 \notin S(k)
  OBVIOUS
<1>2. S(0) = {}
  OBVIOUS
<1>3. S(k + 1) = IF evs[k + 1].i.pc = pc THEN S(k) \cup {k + 1} ELSE S(k)
  OBVIOUS
<1>4. Executions(evs, pc, k) = Cardinality(S(k)) /\ Executions(evs, pc, 0) = Cardinality(S(0))
      /\ Executions(evs, pc, k + 1) = Cardinality(S(k + 1))
  BY DEF Executions
<1> HIDE DEF S
<1>5. IsFiniteSet(S(k)) /\ Cardinality(S(k)) \in Nat
  BY <1>1, PartFinite
<1>6. Cardinality(S(k) \cup {k + 1}) = Cardinality(S(k)) + 1
  BY <1>1, <1>5, FS_AddElement
<1>7. Cardinality(S(0)) = 0
  BY <1>2, FS_EmptySet
<1> QED  BY <1>3, <1>4, <1>5, <1>6, <1>7

LEMMA CountNext ==
  ASSUME NEW evs, NEW p, NEW pc, NEW k \in Nat
  PROVE  /\ Count(evs, p, pc, k) \in Nat
         /\ Count(evs, p, pc, 0) = 0
         /\ Count(evs, p, pc, k + 1) =
              IF IsTrap(p, pc, evs[k + 1]) THEN Count(evs, p, pc, k) + 1 ELSE Count(evs, p, pc, k)
<1> DEFINE S(n) == {j \in 1 .. n : IsTrap(p, pc, evs[j])}
<1>1. S(k) \in SUBSET (1 .. k) /\ k + 1 \notin S(k)
  OBVIOUS
<1>2. S(0) = {}
  OBVIOUS
<1>3. S(k + 1) = IF IsTrap(p, pc, evs[k + 1]) THEN S(k) \cup {k + 1} ELSE S(k)
  OBVIOUS
<1>4. Count(evs, p, pc, k) = Cardinality(S(k)) /\ Count(evs, p, pc, 0) = Cardinality(S(0))
      /\ Count(evs, p, pc, k + 1) = Cardinality(S(k + 1))
  BY DEF Count
<1> HIDE DEF S
<1>5. IsFiniteSet(S(k)) /\ Cardinality(S(k)) \in Nat
  BY <1>1, PartFinite
<1>6. Cardinality(S(k) \cup {k + 1}) = Cardinality(S(k)) + 1
  BY <1>1, <1>5, FS_AddElement
<1>7. Cardinality(S(0)) = 0
  BY <1>2, FS_EmptySet
<1> QED  BY <1>3, <1>4, <1>5, <1>6, <1>7

(* The system calls alone. *)
LEMMA EcallCount ==
  ASSUME NEW evs, NEW k \in Nat
  PROVE  /\ Count(evs, 1, 0, k) \in Nat
         /\ Count(evs, 1, 0, 0) = 0
         /\ Count(evs, 1, 0, k + 1) =
              IF evs[k + 1].i.op = "ecall" THEN Count(evs, 1, 0, k) + 1
                                           ELSE Count(evs, 1, 0, k)
<1>1. \A p, pc : /\ Count(evs, p, pc, k) \in Nat
                 /\ Count(evs, p, pc, 0) = 0
                 /\ Count(evs, p, pc, k + 1) =
                      IF IsTrap(p, pc, evs[k + 1]) THEN Count(evs, p, pc, k) + 1
                                                   ELSE Count(evs, p, pc, k)
  BY CountNext
<1>2. IsTrap(1, 0, evs[k + 1]) <=> evs[k + 1].i.op = "ecall"
  BY DEF IsTrap
<1> QED  BY <1>1, <1>2

(* More events count at least as much; equally much only if none of the     *)
(* additional ones is counted.                                              *)
LEMMA CountMonotone ==
  ASSUME NEW evs, NEW p, NEW pc, NEW j \in Nat, NEW k \in Nat, j <= k
  PROVE  /\ Count(evs, p, pc, j) <= Count(evs, p, pc, k)
         /\ Count(evs, p, pc, j) = Count(evs, p, pc, k) =>
              \A n \in (j + 1) .. k : ~ IsTrap(p, pc, evs[n])
<1> DEFINE S == {n \in 1 .. k : IsTrap(p, pc, evs[n])}
           T == {n \in 1 .. j : IsTrap(p, pc, evs[n])}
<1>1. S \in SUBSET (1 .. k) /\ T \in SUBSET S
  OBVIOUS
<1>2. Count(evs, p, pc, j) = Cardinality(T) /\ Count(evs, p, pc, k) = Cardinality(S)
  BY DEF Count
<1>3. T = S => \A n \in (j + 1) .. k : ~ IsTrap(p, pc, evs[n])
  OBVIOUS
<1> HIDE DEF S, T
<1>4. Cardinality(T) <= Cardinality(S) /\ (Cardinality(T) = Cardinality(S) => T = S)
  BY <1>1, PartSmaller
<1> QED  BY <1>2, <1>3, <1>4

LEMMA ExecutionsMonotone ==
  ASSUME NEW evs, NEW pc, NEW j \in Nat, NEW k \in Nat, j <= k
  PROVE  /\ Executions(evs, pc, j) <= Executions(evs, pc, k)
         /\ Executions(evs, pc, j) = Executions(evs, pc, k) =>
              \A n \in (j + 1) .. k : evs[n].i.pc # pc
<1> DEFINE S == {n \in 1 .. k : evs[n].i.pc = pc}
           T == {n \in 1 .. j : evs[n].i.pc = pc}
<1>1. S \in SUBSET (1 .. k) /\ T \in SUBSET S
  OBVIOUS
<1>2. Executions(evs, pc, j) = Cardinality(T) /\ Executions(evs, pc, k) = Cardinality(S)
  BY DEF Executions
<1>3. T = S => \A n \in (j + 1) .. k : evs[n].i.pc # pc
  OBVIOUS
<1> HIDE DEF S, T
<1>4. Cardinality(T) <= Cardinality(S) /\ (Cardinality(T) = Cardinality(S) => T = S)
  BY <1>1, PartSmaller
<1> QED  BY <1>2, <1>3, <1>4

-----------------------------------------------------------------------------
(* The history when an event is appended.                                  *)

LEMMA AppendFacts ==
  ASSUME NEW evs \in Seq(Events), NEW e \in Events
  PROVE  LET E == Append(evs, e)
             n == Len(evs)
         IN  /\ E \in Seq(Events) /\ n \in Nat /\ Len(E) = n + 1
             /\ DOMAIN E = 1 .. (n + 1) /\ DOMAIN evs = 1 .. n
             /\ E[n + 1] = e
             /\ \A k \in 1 .. n : E[k] = evs[k]
OBVIOUS

LEMMA BeforeAppend ==
  ASSUME NEW evs \in Seq(Events), NEW e \in Events
  PROVE  /\ \A k \in 1 .. (Len(evs) + 1) : Before(Append(evs, e), k) = Before(evs, k)
         /\ Before(Append(evs, e), Len(evs) + 2)
              = Before(evs, Len(evs) + 1) \cup Touched(e)
<1> DEFINE E == Append(evs, e)
           n == Len(evs)
<1>1. n \in Nat /\ E[n + 1] = e /\ \A k \in 1 .. n : E[k] = evs[k]
  BY AppendFacts
<1> HIDE DEF E, n
<1>2. ASSUME NEW k \in 1 .. (n + 1)  PROVE Before(E, k) = Before(evs, k)
  <2>1. \A j \in 1 .. (k - 1) : E[j] = evs[j]
    BY <1>1
  <2> QED  BY <2>1 DEF Before
<1>3. Before(E, n + 2) = Before(evs, n + 1) \cup Touched(e)
  <2>1. 1 .. (n + 2 - 1) = (1 .. (n + 1 - 1)) \cup {n + 1}
    BY <1>1
  <2>2. \A j \in 1 .. (n + 1 - 1) : E[j] = evs[j]
    BY <1>1
  <2> QED  BY <1>1, <2>1, <2>2 DEF Before
<1> QED  BY <1>2, <1>3 DEF E, n

LEMMA CountAppend ==
  ASSUME NEW evs \in Seq(Events), NEW e \in Events, NEW p, NEW pc,
         NEW k \in 0 .. Len(evs)
  PROVE  /\ Count(Append(evs, e), p, pc, k) = Count(evs, p, pc, k)
         /\ Executions(Append(evs, e), pc, k) = Executions(evs, pc, k)
<1> DEFINE E == Append(evs, e)
<1>1. \A j \in 1 .. k : E[j] = evs[j]
  BY AppendFacts
<1> HIDE DEF E
<1>2. /\ {j \in 1 .. k : IsTrap(p, pc, E[j])} = {j \in 1 .. k : IsTrap(p, pc, evs[j])}
      /\ {j \in 1 .. k : E[j].i.pc = pc} = {j \in 1 .. k : evs[j].i.pc = pc}
  BY <1>1
<1> QED  BY <1>2 DEF Count, Executions, E

LEMMA ExecutionsOneMore ==
  ASSUME NEW E, NEW evs, NEW e, NEW pc, NEW n \in Nat, E[n + 1] = e,
         Executions(E, pc, n) = Executions(evs, pc, n)
  PROVE  Executions(E, pc, n + 1) = IF e.i.pc = pc THEN Executions(evs, pc, n) + 1
                                                   ELSE Executions(evs, pc, n)
BY ExecutionsNext

LEMMA ExecutionsAppend ==
  ASSUME NEW evs \in Seq(Events), NEW e \in Events, NEW pc
  PROVE  Executions(Append(evs, e), pc, Len(evs) + 1)
           = IF e.i.pc = pc THEN Executions(evs, pc, Len(evs)) + 1
                            ELSE Executions(evs, pc, Len(evs))
<1> DEFINE E == Append(evs, e)
           n == Len(evs)
<1>1. n \in Nat /\ n \in 0 .. n /\ E[n + 1] = e
  BY AppendFacts
<1>2. Executions(E, pc, n) = Executions(evs, pc, n)
  BY <1>1, CountAppend
<1> HIDE DEF E, n
<1>3. Executions(E, pc, n + 1) = IF e.i.pc = pc THEN Executions(evs, pc, n) + 1
                                                ELSE Executions(evs, pc, n)
  BY <1>1, <1>2, ExecutionsOneMore
<1> QED  BY <1>3 DEF E, n

LEMMA BeforeEmpty ==
  ASSUME NEW evs  PROVE Before(evs, 1) = {}
BY DEF Before

(* Before grows by what an event touches. *)
LEMMA BeforeNext ==
  ASSUME NEW evs, NEW k \in Nat \ {0}
  PROVE  Before(evs, k + 1) = Before(evs, k) \cup Touched(evs[k])
<1>1. 1 .. (k + 1 - 1) = (1 .. (k - 1)) \cup {k}
  OBVIOUS
<1> QED  BY <1>1 DEF Before

(* Event e starts where the history evs ended, and the trace (vis, cont)    *)
(* becomes (vis2, cont2) and the calls cs become cs2 the way the recorder   *)
(* changes them.                                                            *)
HistoryStep(evs, e, cs, cs2, entry, last, vis, cont, vis2, cont2) ==
  /\ vis \subseteq Before(evs, Len(evs) + 1)
  /\ e.m = last /\ e.f = 0 /\ e.nf = 0
  /\ e.a0 = IF ResultReg(e.i) = A0 THEN e.val ELSE A0At(evs, entry, Len(evs) + 1)
  /\ e.i.op # "ecall" => e.w = {} /\ cs2 = cs
  /\ e.w \subseteq DataBytes(e.i)
  /\ e.i.op = "ecall" => \E c \in Calls : cs2 = Append(cs, c) /\ CallOf(c, e)
  /\ vis2 = vis \cup Touched(e)
  /\ \A a \in vis : cont2[a] = cont[a]
  /\ \A a \in Reads(e) \ vis : cont2[a] = last[a]
  /\ \A a \in (Before(evs, Len(evs) + 1) \cup Touched(e)) \ Writes(e) : e.n[a] = e.m[a]

(* Such an event keeps the history a history. *)
LEMMA HistoryAppend ==
  ASSUME NEW evs \in Seq(Events), NEW e \in Events,
         NEW cs \in Seq(Calls), NEW cs2, NEW entry, NEW last, NEW vis, NEW cont,
         NEW vis2, NEW cont2,
         IsHistory(evs, cs, entry, last, vis, cont),
         HistoryStep(evs, e, cs, cs2, entry, last, vis, cont, vis2, cont2)
  PROVE  /\ IsHistory(Append(evs, e), cs2, entry, e.n, vis2, cont2)
         /\ vis2 \subseteq Before(Append(evs, e), Len(evs) + 2)
<1> USE DEF HistoryStep
<1> DEFINE E == Append(evs, e)
           n == Len(evs)
<1>1. /\ n \in Nat /\ Len(E) = n + 1 /\ DOMAIN E = 1 .. (n + 1) /\ DOMAIN evs = 1 .. n
      /\ E[n + 1] = e /\ \A k \in 1 .. n : E[k] = evs[k]
  BY AppendFacts
<1>2. /\ \A k \in 1 .. (n + 1) : Before(E, k) = Before(evs, k)
      /\ Before(E, n + 2) = Before(evs, n + 1) \cup Touched(e)
  BY BeforeAppend
<1>3. \A k \in 0 .. n : Count(E, 1, 0, k) = Count(evs, 1, 0, k)
  BY CountAppend
<1>4. /\ Count(E, 1, 0, n + 1) = IF e.i.op = "ecall" THEN Count(evs, 1, 0, n) + 1
                                 ELSE Count(evs, 1, 0, n)
      /\ Count(evs, 1, 0, n) \in Nat
  <2> HIDE DEF E, n
  <2>2. n \in 0 .. n /\ n \in Nat
    BY <1>1
  <2>3. Count(E, 1, 0, n + 1) = IF E[n + 1].i.op = "ecall" THEN Count(E, 1, 0, n) + 1
                                ELSE Count(E, 1, 0, n)
    BY <2>2, EcallCount
  <2>4. Count(evs, 1, 0, n) \in Nat /\ Count(E, 1, 0, n) = Count(evs, 1, 0, n)
    BY <2>2, <1>3, EcallCount
  <2> QED  BY <1>1, <2>3, <2>4
<1>5. Len(cs) = Count(evs, 1, 0, n)
  BY DEF IsHistory
<1>6. vis2 \subseteq Before(E, n + 2)
  BY <1>2
<1>7. \A j \in 1 .. Len(cs) : cs2[j] = cs[j]
  OBVIOUS
<1>8. /\ Len(cs2) = Count(E, 1, 0, n + 1)
      /\ e.i.op = "ecall" => CallOf(cs2[Count(E, 1, 0, n + 1)], e)
  <2>1. CASE e.i.op # "ecall"
    <3> HIDE DEF E, n
    <3> QED  BY <2>1, <1>4, <1>5
  <2>2. CASE e.i.op = "ecall"
    <3>1. PICK c \in Calls : cs2 = Append(cs, c) /\ CallOf(c, e)
      BY <2>2
    <3>2. Len(cs2) = Len(cs) + 1 /\ cs2[Len(cs) + 1] = c
      BY <3>1
    <3> HIDE DEF E, n
    <3> QED  BY <2>2, <3>1, <3>2, <1>4, <1>5
  <2> QED  BY <2>1, <2>2
<1>9. \A j \in DOMAIN cs2 : \E k \in DOMAIN E :
        E[k].i.op = "ecall" /\ cs2[j].pc = E[k].i.pc
  <2> SUFFICES ASSUME NEW j \in DOMAIN cs2
               PROVE  \E k \in DOMAIN E : E[k].i.op = "ecall" /\ cs2[j].pc = E[k].i.pc
    OBVIOUS
  <2>1. CASE j \in DOMAIN cs
    <3>1. PICK k \in DOMAIN evs : evs[k].i.op = "ecall" /\ cs[j].pc = evs[k].i.pc
      BY <2>1 DEF IsHistory
    <3>2. cs2[j] = cs[j]
      BY <2>1, <1>7
    <3>3. k \in DOMAIN E /\ E[k] = evs[k]
      <4> HIDE DEF E, n, HistoryStep
      <4> QED  BY <3>1, <1>1
    <3> HIDE DEF E, n
    <3> QED  BY <3>1, <3>2, <3>3
  <2>2. CASE j \notin DOMAIN cs
    <3>1. e.i.op = "ecall"
      BY <2>2
    <3>2. PICK c \in Calls : cs2 = Append(cs, c) /\ CallOf(c, e)
      BY <3>1
    <3>3. cs2[j] = c
      BY <2>2, <3>2
    <3>4. n + 1 \in DOMAIN E /\ E[n + 1] = e
      BY <1>1
    <3> HIDE DEF E, n
    <3> QED  BY <3>1, <3>2, <3>3, <3>4 DEF CallOf
  <2> QED  BY <2>1, <2>2
<1>10. ASSUME NEW k \in 1 .. n  PROVE EventOK(E, cs2, entry, e.n, vis2, cont2, k)
  <2>1. EventOK(evs, cs, entry, last, vis, cont, k)
    BY <1>1 DEF IsHistory
  <2>2. E[k] = evs[k] /\ k + 1 \in 1 .. (n + 1) /\ k \in 1 .. (n + 1) /\ k \in 0 .. n
    BY <1>1
  <2>3. MemAt(E, e.n, k + 1) = MemAt(evs, last, k + 1)
    <3>1. CASE k = n
      BY <3>1, <1>1 DEF MemAt
    <3>2. CASE k # n
      <4>1. k + 1 \in 1 .. n /\ k + 1 <= n /\ k + 1 <= n + 1
        <5>1. n \in Nat /\ k \in 1 .. n
          BY <1>1
        <5> HIDE DEF E, n, HistoryStep
        <5> QED  BY <3>2, <5>1
      <4> HIDE DEF E, n
      <4>2. E[k + 1] = evs[k + 1]
        BY <4>1, <1>1
      <4> QED  BY <4>1, <4>2, <1>1 DEF MemAt, n
    <3> QED  BY <3>1, <3>2
  <2>4. A0At(E, entry, k) = A0At(evs, entry, k)
    BY <1>1 DEF A0At
  <2>5. Before(E, k) = Before(evs, k) /\ Before(E, k + 1) = Before(evs, k + 1)
    BY <2>2, <1>2
  <2>6. evs[k].i.op = "ecall" =>
          CallOf(cs2[Count(E, 1, 0, k)], evs[k])
    <3> SUFFICES ASSUME evs[k].i.op = "ecall"
                 PROVE  CallOf(cs2[Count(E, 1, 0, k)], evs[k])
      OBVIOUS
    <3>1. CallOf(cs[Count(evs, 1, 0, k)], evs[k])
      BY <2>1 DEF EventOK
    <3>2. Count(E, 1, 0, k) = Count(evs, 1, 0, k)
      BY <2>2, <1>3
    <3>3. Count(evs, 1, 0, k) \in 1 .. Len(cs)
      <4>1. k \in Nat /\ k - 1 \in Nat /\ n \in Nat /\ k <= n /\ k = (k - 1) + 1
        BY <1>1
      <4>2. Count(evs, 1, 0, k) <= Count(evs, 1, 0, n) /\ Count(evs, 1, 0, k) \in Nat
            /\ Count(evs, 1, 0, n) \in Nat
        <5> HIDE DEF n
        <5> QED  BY <4>1, CountMonotone, CountNext
      <4>3. Count(evs, 1, 0, k) = Count(evs, 1, 0, k - 1) + 1
            /\ Count(evs, 1, 0, k - 1) \in Nat
        <5>1. IsTrap(1, 0, evs[k])
          BY DEF IsTrap
        <5> HIDE DEF n
        <5> QED  BY <4>1, <5>1, CountNext
      <4> HIDE DEF n
      <4> QED  BY <4>2, <4>3, <1>5
    <3>4. cs2[Count(evs, 1, 0, k)] = cs[Count(evs, 1, 0, k)]
      BY <3>3, <1>7
    <3> QED  BY <3>1, <3>2, <3>4
  <2>7. Touched(evs[k]) \subseteq vis /\ Reads(evs[k]) \subseteq vis
    BY <2>1 DEF EventOK, Touched
  <2>8. Touched(evs[k]) \subseteq vis2
    BY <2>7
  <2>9. \A a \in Reads(evs[k]) : a \in Before(evs, k) \/ cont2[a] = evs[k].m[a]
    BY <2>1, <2>7 DEF EventOK
  <2> HIDE DEF E, n
  <2> QED  BY <2>1, <2>2, <2>3, <2>4, <2>5, <2>6, <2>8, <2>9 DEF EventOK
<1>11. EventOK(E, cs2, entry, e.n, vis2, cont2, n + 1)
  <2>1. MemAt(E, e.n, n + 1 + 1) = e.n
    BY <1>1 DEF MemAt
  <2>2. A0At(E, entry, n + 1) = A0At(evs, entry, n + 1)
    <3> HIDE DEF E, n
    <3>1. n # 0 => E[n + 1 - 1] = evs[n + 1 - 1]
      BY <1>1
    <3> QED  BY <3>1, <1>1 DEF A0At
  <2>3. Before(E, n + 1) = Before(evs, n + 1)
    BY <1>1, <1>2
  <2>4. \A a \in Reads(e) : a \in Before(evs, n + 1) \/ cont2[a] = e.m[a]
    OBVIOUS
  <2>5. n + 1 + 1 = n + 2
    BY <1>1
  <2>6. Touched(e) \subseteq vis2
    OBVIOUS
  <2>7. E[n + 1] = e
    BY <1>1
  <2>8. \A a \in Before(E, n + 1 + 1) \ Writes(e) : e.n[a] = e.m[a]
    BY <1>2, <2>5
  <2> HIDE DEF E, n
  <2>9. e.a0 = IF ResultReg(e.i) = A0 THEN e.val ELSE A0At(E, entry, n + 1)
    BY <2>2 DEF n
  <2> QED  BY <2>1, <2>3, <2>4, <2>6, <2>7, <2>8, <2>9, <1>8 DEF EventOK
<1>12. IsHistory(E, cs2, entry, e.n, vis2, cont2)
  <2> HIDE DEF E, n
  <2>1. \A k \in DOMAIN E : EventOK(E, cs2, entry, e.n, vis2, cont2, k)
    <3> TAKE k \in DOMAIN E
    <3>1. k \in 1 .. n \/ k = n + 1
      BY <1>1
    <3> QED  BY <3>1, <1>10, <1>11
  <2> QED  BY <1>1, <1>8, <1>9, <2>1 DEF IsHistory
<1> QED  BY <1>6, <1>12

-----------------------------------------------------------------------------
(* Code and data.                                                          *)

LEMMA EventBytes ==
  ASSUME NEW e \in Events, e.w \subseteq DataBytes(e.i)
  PROVE  /\ e.i \in Inst
         /\ LoadBytes(e.i) \subseteq DataBytes(e.i)
         /\ Writes(e) \subseteq DataBytes(e.i)
         /\ Touched(e) = FetchBytes(e.i) \cup (LoadBytes(e.i) \cup Writes(e))
         /\ DataBytes(e.i) \subseteq AllData
BY DEF Events, LoadBytes, StoreBytesOf, Writes, Touched, Reads, DataBytes, AllData

LEMMA CodeIsNotData ==
  ASSUME Replayable, NEW i \in Inst
  PROVE  FetchBytes(i) \cap AllData = {}
BY DEF Replayable, AllData

(* A byte of an instruction was touched only by fetching the instruction.   *)
LEMMA CodeSite ==
  ASSUME Replayable, NEW e \in Events, e.w \subseteq DataBytes(e.i), NEW i \in Inst,
         NEW a, a \in FetchBytes(i), a \in Touched(e)
  PROVE  SameSite(i, e.i) /\ FetchBytes(i) = FetchBytes(e.i)
<1>1. a \in FetchBytes(e.i)
  BY EventBytes, CodeIsNotData
<1>2. SameSite(i, e.i)
  BY <1>1, EventBytes DEF Replayable
<1> QED  BY <1>2 DEF SameSite, FetchBytes

(* So the instructions of a slice are recorded as a whole.                  *)
LEMMA FetchAllOrNone ==
  ASSUME Replayable, Types, RecordInv, NEW i \in Inst
  PROVE  /\ AllOrNone(tr, FetchBytes(i))
         /\ FetchBytes(i) \cap tr.visited # {} =>
              \E k \in DOMAIN ev : SameSite(i, ev[k].i)
<1>1. ev \in Seq(Events) /\ Len(ev) \in Nat /\ DOMAIN ev = 1 .. Len(ev)
  BY DEF Types, RecordType
<1>2. ASSUME NEW a \in FetchBytes(i), a \in tr.visited
      PROVE  /\ FetchBytes(i) \subseteq tr.visited
             /\ \E k \in DOMAIN ev : SameSite(i, ev[k].i)
  <2>1. a \in Before(ev, Len(ev) + 1)
    BY <1>2 DEF RecordInv
  <2>2. PICK k \in 1 .. (Len(ev) + 1 - 1) : a \in Touched(ev[k])
    BY <2>1 DEF Before
  <2>3. k \in DOMAIN ev /\ ev[k] \in Events
    BY <1>1, <2>2
  <2>4. EventOK(ev, calls, EntryA0, mem, tr.visited, tr.content, k)
    BY <2>3 DEF RecordInv, IsHistory
  <2>5. ev[k].w \subseteq DataBytes(ev[k].i) /\ Touched(ev[k]) \subseteq tr.visited
    BY <2>4 DEF EventOK
  <2>6. SameSite(i, ev[k].i) /\ FetchBytes(i) = FetchBytes(ev[k].i)
    BY <2>2, <2>3, <2>5, CodeSite
  <2>7. FetchBytes(ev[k].i) \subseteq Touched(ev[k])
    BY DEF Touched, Reads
  <2> QED  BY <2>3, <2>5, <2>6, <2>7
<1> QED  BY <1>2 DEF AllOrNone

-----------------------------------------------------------------------------
(* The recorder.                                                           *)

(* CheckpointManager::fetch records the instruction and counts it. *)
LEMMA FetchTraceEffect ==
  ASSUME Replayable, Types, RecordInv, NEW i \in Inst
  PROVE  LET t == FetchTrace(i)
         IN  /\ t \in Traces
             /\ Touches(tr, t, FetchBytes(i)) /\ Keeps(tr, t, FetchBytes(i), mem)
             /\ t.execs = [tr.execs EXCEPT ![i.pc] = @ + 1]
             /\ t.stores = tr.stores
             /\ StoresIn(t, AllData)
<1>1. FetchTrace(i) \in Traces
  BY FetchTraceType
<1>2. AllOrNone(tr, Bytes(i.pc, i.len))
  BY FetchAllOrNone DEF FetchBytes
<1>3. tr \in Traces /\ mem \in [Addr -> Val]
  BY DEF Types, GuestType, RecordType, Mem
<1>4. LET t == FetchTrace(i)
      IN  /\ Touches(tr, t, FetchBytes(i)) /\ Keeps(tr, t, FetchBytes(i), mem)
          /\ t.execs = [tr.execs EXCEPT ![i.pc] = @ + 1]
          /\ t.stores = tr.stores
  BY <1>2, <1>3, InstFacts, FetchEffect DEF FetchTrace, FetchBytes
<1>5. StoresIn(FetchTrace(i), AllData)
  <2>1. StoresIn(tr, AllData)
    BY DEF RecordInv, StoresOK, StoresIn
  <2>2. tr.visited \subseteq FetchTrace(i).visited /\ FetchTrace(i).stores = tr.stores
    BY <1>4 DEF Touches
  <2> QED  BY <2>1, <2>2 DEF StoresIn
<1> QED  BY <1>1, <1>4, <1>5

(* Then the accesses of the instruction. *)
LEMMA RecordAccessEffect ==
  ASSUME Replayable, Types, RecordInv, NEW i \in Inst, i.op # "ecall"
  PROVE  LET u == RecordAccess(FetchTrace(i), i)
         IN  /\ Touches(tr, u, FetchBytes(i) \cup LoadBytes(i) \cup StoreBytesOf(i))
             /\ Keeps(tr, u, FetchBytes(i) \cup LoadBytes(i), mem)
             /\ u.execs = [tr.execs EXCEPT ![i.pc] = @ + 1]
             /\ StoresIn(u, AllData)
<1> DEFINE t == FetchTrace(i)
           B == Bytes(i.base, i.size)
           F == FetchBytes(i)
           l == Load(t, B, mem)
<1>1. /\ t \in Traces /\ Touches(tr, t, F) /\ Keeps(tr, t, F, mem)
      /\ t.execs = [tr.execs EXCEPT ![i.pc] = @ + 1] /\ StoresIn(t, AllData)
  BY FetchTraceEffect
<1>2. /\ B \in SUBSET Addr /\ i.base \in Addr /\ i.size \in Nat /\ B \subseteq AllData
      /\ i.op \in Op
  BY InstFacts DEF AllData, DataBytes
<1> HIDE DEF t, B, F, l
<1>3. /\ Touches(t, l, B) /\ Keeps(t, l, B, mem) /\ l.execs = t.execs /\ l.stores = t.stores
      /\ l \in Traces
  <2>1. \A a \in B : mem[a] \in Val
    BY <1>2 DEF Types, GuestType, Mem
  <2> QED  BY <1>1, <1>2, <2>1, LoadEffect, LoadType DEF l
<1>4. StoresIn(l, AllData)
  BY <1>1, <1>3 DEF StoresIn, Touches
<1>5. Touches(tr, l, F \cup B) /\ Keeps(tr, l, F \cup B, mem)
  BY <1>1, <1>3, TouchesTwice
<1>6. CASE i.op \in {"load", "lr"}
  <2>1. RecordAccess(t, i) = l /\ LoadBytes(i) = B /\ StoreBytesOf(i) = {}
    BY <1>6 DEF RecordAccess, LoadBytes, StoreBytesOf, l, B
  <2> QED  BY <2>1, <1>1, <1>3, <1>4, <1>5 DEF t, F
<1>7. CASE i.op \in {"store", "sc"}
  <2> DEFINE u == Store(t, i.base, i.size)
  <2>1. RecordAccess(t, i) = u /\ LoadBytes(i) = {} /\ StoreBytesOf(i) = B
    BY <1>7 DEF RecordAccess, LoadBytes, StoreBytesOf, B
  <2>2. Touches(t, u, B) /\ u.execs = t.execs /\ StoresIn(u, AllData)
    BY <1>1, <1>2, StoreEffect DEF B
  <2> HIDE DEF u
  <2>3. Touches(tr, u, F \cup B) /\ Keeps(tr, u, F, mem)
    BY <1>1, <2>2, TouchesTwice
  <2> QED  BY <2>1, <2>2, <2>3, <1>1 DEF t, F
<1>8. CASE i.op = "amo"
  <2> DEFINE u == Store(l, i.base, i.size)
  <2>1. RecordAccess(t, i) = u /\ LoadBytes(i) = B /\ StoreBytesOf(i) = B
    BY <1>8 DEF RecordAccess, LoadBytes, StoreBytesOf, l, B
  <2>2. Touches(l, u, B) /\ u.execs = l.execs /\ StoresIn(u, AllData)
    BY <1>2, <1>3, <1>4, StoreEffect DEF B
  <2> HIDE DEF u
  <2>3. Touches(tr, u, F \cup B \cup B) /\ Keeps(tr, u, F \cup B, mem)
    BY <1>5, <2>2, TouchesTwice
  <2> QED  BY <2>1, <2>2, <2>3, <1>1, <1>3 DEF t, F
<1>9. CASE i.op \notin {"load", "lr", "store", "sc", "amo"}
  <2>1. RecordAccess(t, i) = t /\ LoadBytes(i) = {} /\ StoreBytesOf(i) = {}
    BY <1>9 DEF RecordAccess, LoadBytes, StoreBytesOf
  <2> QED  BY <2>1, <1>1 DEF t, F
<1> QED  BY <1>6, <1>7, <1>8, <1>9

(* An event that does not end the slice. *)
LEMMA RecordEvent ==
  ASSUME Replayable, Types, Types', RecordInv, Turn, NEW e \in Events,
         ev' = Append(ev, e), recording', slice' = slice,
         e.m = mem, e.n = mem', e.a0 = a0', e.f = fcsr, e.nf = fcsr', fcsr' = 0,
         a0' = IF ResultReg(e.i) = A0 THEN e.val ELSE a0,
         e.i.op # "ecall" => e.w = {} /\ calls' = calls,
         e.w \subseteq DataBytes(e.i),
         e.i.op = "ecall" => \E c \in Calls : calls' = Append(calls, c) /\ CallOf(c, e),
         Touches(tr, tr', Touched(e)), Keeps(tr, tr', Reads(e), mem),
         tr'.execs = [tr.execs EXCEPT ![e.i.pc] = @ + 1], StoresIn(tr', AllData),
         \A a \in (tr.visited \cup Touched(e)) \ Writes(e) : mem'[a] = mem[a]
  PROVE  RecordInv'
<1> DEFINE n == Len(ev)
<1>1. /\ ev \in Seq(Events) /\ calls \in Seq(Calls) /\ n \in Nat /\ tr \in Traces
      /\ e.i \in Inst
  BY DEF Types, RecordType, Events
<1>2. EntryA0' = EntryA0
  BY DEF Turn, EntryA0
<1>3. Len(ev') = n + 1 /\ ev'[n + 1] = e
  BY <1>1
<1>4. IsHistory(ev, calls, EntryA0, mem, tr.visited, tr.content)
      /\ tr.visited \subseteq Before(ev, n + 1) /\ fcsr = 0 /\ a0 = A0At(ev, EntryA0, n + 1)
  BY DEF RecordInv
<1>5. Before(ev, n + 1) \subseteq tr.visited
  <2> SUFFICES ASSUME NEW k \in 1 .. n  PROVE Touched(ev[k]) \subseteq tr.visited
    BY <1>1 DEF Before
  <2>1. EventOK(ev, calls, EntryA0, mem, tr.visited, tr.content, k)
    BY <1>1, <1>4 DEF IsHistory
  <2> QED  BY <2>1 DEF EventOK
<1>6. \A a \in (Before(ev, n + 1) \cup Touched(e)) \ Writes(e) : e.n[a] = e.m[a]
  BY <1>4, <1>5
<1>7. /\ IsHistory(ev', calls', EntryA0, mem', tr'.visited, tr'.content)
      /\ tr'.visited \subseteq Before(ev', n + 2)
  <2>1. /\ tr'.visited = tr.visited \cup Touched(e)
        /\ \A a \in tr.visited : tr'.content[a] = tr.content[a]
        /\ \A a \in Reads(e) \ tr.visited : tr'.content[a] = mem[a]
    BY DEF Touches, Keeps
  <2>2. e.f = 0 /\ e.nf = 0
        /\ e.a0 = IF ResultReg(e.i) = A0 THEN e.val ELSE A0At(ev, EntryA0, n + 1)
    BY <1>4
  <2>3. /\ IsHistory(Append(ev, e), calls', EntryA0, e.n, tr'.visited, tr'.content)
        /\ tr'.visited \subseteq Before(Append(ev, e), n + 2)
    <3>1. HistoryStep(ev, e, calls, calls', EntryA0, mem, tr.visited, tr.content,
                      tr'.visited, tr'.content)
      BY <1>1, <1>4, <1>6, <2>1, <2>2 DEF HistoryStep
    <3> QED  BY <1>1, <1>4, <3>1, HistoryAppend
  <2> QED  BY <2>3
<1>8. a0' = A0At(ev', EntryA0, Len(ev') + 1)
  BY <1>1, <1>3 DEF A0At
<1>9. ASSUME NEW pc \in Addr  PROVE tr'.execs[pc] = Executions(ev', pc, Len(ev'))
  <2>1. tr.execs[pc] = Executions(ev, pc, n)
    BY DEF RecordInv
  <2>2. tr.execs \in [Addr -> Nat]
    BY <1>1 DEF Traces
  <2>3. tr'.execs[pc] = IF e.i.pc = pc THEN tr.execs[pc] + 1 ELSE tr.execs[pc]
    BY <2>2
  <2>4. Executions(Append(ev, e), pc, n + 1)
          = IF e.i.pc = pc THEN Executions(ev, pc, n) + 1 ELSE Executions(ev, pc, n)
    BY <1>1, ExecutionsAppend
  <2> HIDE DEF n
  <2> QED  BY <2>1, <2>3, <2>4, <1>3
<1>10. StoresOK(tr')
  BY DEF StoresOK, StoresIn
<1>11. slice' # NoSlice => SliceOK(slice')
  BY DEF RecordInv, NoSlice
<1>12. tr'.visited \subseteq Before(ev', Len(ev') + 1)
  <2>1. Len(ev') + 1 = n + 2
    BY <1>1, <1>3
  <2> QED  BY <1>7, <2>1
<1>13. StoresOK(tr)' /\ (slice # NoSlice => SliceOK(slice))'
  BY <1>10, <1>11 DEF StoresOK, SliceOK, BreakOK, IsHistory, EventOK, NoSlice, AllData
<1> QED  BY <1>2, <1>7, <1>8, <1>9, <1>12, <1>13 DEF RecordInv

LEMMA FaithfulOutcomes ==
  ASSUME Replayable, NEW o \in CallOutcomes
  PROVE  o.log # "none" /\ (o.wr \in {"none", "fresh"} \/ o.log = "buf")
<1>1. PICK h \in Handlers : o \in Outcomes(h)
  BY DEF CallOutcomes
<1> QED  BY <1>1 DEF Replayable, FaithfulHandlers, LoggedHandlers

(* Only exit and exit_group end the process. *)
LEMMA ExitOutcomes ==
  ASSUME NEW o \in CallOutcomes, o # Exits
  PROVE  o.log # "exit"
<1> DEFINE Ends(S) == \A x \in S : x = Exits \/ x.log # "exit"
<1>1. PICK h \in Handlers, T \in HandlerTables : h \in DOMAIN T /\ o \in T[h]
  BY DEF CallOutcomes, Outcomes
<1> USE DEF Returns, Fills, Logs, Forgets, Remaps, Grows, Silent, Scribbles, Exits
<1>2. CASE T = PathHandlers
  BY <1>1, <1>2 DEF PathHandlers
<1>3. CASE T = IoHandlers
  BY <1>1, <1>3 DEF IoHandlers
<1>4. CASE T = StatHandlers
  BY <1>1, <1>4 DEF StatHandlers
<1>5. CASE T = ProcessHandlers
  BY <1>1, <1>5 DEF ProcessHandlers
<1>6. CASE T = MemoryHandlers
  BY <1>1, <1>6 DEF MemoryHandlers
<1>7. CASE T = LimitHandlers
  BY <1>1, <1>7 DEF LimitHandlers
<1> QED  BY <1>1, <1>2, <1>3, <1>4, <1>5, <1>6, <1>7 DEF HandlerTables

(* An instruction that does not end the slice. *)
LEMMA StepRecords ==
  ASSUME Replayable, Types, Types', RecordInv, NEW i \in Inst, Step(i)
  PROVE  RecordInv'
<1>1. PICK v \in ValuesOf(i) :
        /\ ExecInst(i, v)
        /\ Continue(RecordAccess(FetchTrace(i), i))
        /\ UNCHANGED <<calls, line>>
        /\ ev' = Append(ev, Event(i, Result(i, v), {}))
  BY DEF Step
<1> DEFINE e == Event(i, Result(i, v), {})
<1>2. e \in Events
  BY <1>1, ExecInstType, ResultType, EventType DEF Types, RecordType
<1>3. /\ e.i = i /\ e.m = mem /\ e.n = mem' /\ e.a0 = a0' /\ e.f = fcsr /\ e.nf = fcsr'
      /\ e.val = Result(i, v) /\ e.w = {}
  BY DEF Event
<1>4. Turn /\ i.op # "ecall" /\ recording' /\ slice' = slice
      /\ tr' = RecordAccess(FetchTrace(i), i)
  BY <1>1 DEF Step, Continue
<1>5. fcsr' = 0
  BY <1>1 DEF ExecInst, ValuesOf, Replayable, RecordInv
<1>6. a0' = IF ResultReg(e.i) = A0 THEN e.val ELSE a0
  BY <1>1, <1>3 DEF ExecInst
<1> HIDE DEF e
<1>7. /\ Reads(e) = FetchBytes(i) \cup LoadBytes(i)
      /\ Writes(e) = StoreBytesOf(i)
      /\ Touched(e) = FetchBytes(i) \cup LoadBytes(i) \cup StoreBytesOf(i)
  BY <1>3 DEF Reads, Writes, Touched
<1>8. Touches(tr, tr', Touched(e)) /\ Keeps(tr, tr', Reads(e), mem)
      /\ tr'.execs = [tr.execs EXCEPT ![e.i.pc] = @ + 1] /\ StoresIn(tr', AllData)
  BY <1>3, <1>4, <1>7, RecordAccessEffect
<1>9. \A a \in (tr.visited \cup Touched(e)) \ Writes(e) : mem'[a] = mem[a]
  <2>1. tr.visited \subseteq Addr
    BY DEF Types, RecordType, Traces
  <2>2. Touched(e) \subseteq Addr
    BY <1>7, InstFacts DEF FetchBytes, LoadBytes, StoreBytesOf
  <2> QED  BY <1>1, <1>7, <2>1, <2>2 DEF ExecInst
<1>10. e.w \subseteq DataBytes(e.i) /\ e.i.op # "ecall" /\ calls' = calls
       /\ ev' = Append(ev, e)
  BY <1>1, <1>3, <1>4 DEF e
<1> QED  BY <1>2, <1>3, <1>4, <1>5, <1>6, <1>8, <1>9, <1>10, RecordEvent

(* A system call that does not end it. *)
LEMMA EcallRecords ==
  ASSUME Replayable, Types, Types', RecordInv, NEW i \in Inst, Ecall(i)
  PROVE  RecordInv'
<1>1. PICK o \in CallOutcomes \ {Exits}, v \in Val, ret \in Val :
        ExecCall(i, o, v, ret) /\ SysCall(i, o, ret)
  BY DEF Ecall
<1> DEFINE B == Bytes(i.base, i.size)
           w == IF o.log = "buf" THEN B ELSE {}
           e == Event(i, ret, w)
           c == [ pc |-> i.pc, ret |-> ret, rd |-> A0, brk |-> FALSE, w |-> w,
                  data |-> [a \in w |-> mem'[a]] ]
           t == FetchTrace(i)
<1>2. o.log # "none" /\ o.log # "exit" /\ (o.wr \in {"none", "fresh"} \/ o.log = "buf")
  BY FaithfulOutcomes, ExitOutcomes
<1>3. /\ calls' = Append(calls, c) /\ ev' = Append(ev, e)
      /\ tr' = (IF o.log = "buf" THEN StoreBytes(t, i.base, i.size) ELSE t)
      /\ recording' /\ slice' = slice
  BY <1>1, <1>2 DEF SysCall, Continue
<1>4. B \subseteq Addr /\ w \in SUBSET Addr /\ i.base \in Addr /\ i.size \in Nat /\ B \subseteq AllData
      /\ w \subseteq DataBytes(i)
  BY InstFacts DEF AllData, DataBytes
<1>5. ev' \in Seq(Events) /\ calls' \in Seq(Calls)
  BY DEF Types, RecordType
<1>6. e \in Events
  <2> HIDE DEF w
  <2> QED  BY <1>1, <1>4, <1>5, ExecCallType, EventType
<1>7. /\ e.i = i /\ e.m = mem /\ e.n = mem' /\ e.a0 = a0' /\ e.f = fcsr /\ e.nf = fcsr'
      /\ e.val = ret /\ e.w = w
  BY DEF Event
<1>8. c \in Calls
  <2>1. calls \in Seq(Calls)
    BY DEF Types, RecordType
  <2> HIDE DEF c
  <2>2. c = calls'[Len(calls) + 1] /\ Len(calls) + 1 \in 1 .. Len(calls')
    BY <1>3, <1>5, <2>1
  <2> QED  BY <1>5, <2>2
<1>9. i.op = "ecall" /\ Turn
  BY DEF Ecall
<1>10. ResultReg(i) = A0 /\ LoadBytes(i) = {} /\ StoreBytesOf(i) = {}
  BY <1>9 DEF ResultReg, LoadBytes, StoreBytesOf
<1>11. CallOf(c, e)
  <2>1. \A a \in w : c.data[a] = mem'[a]
    OBVIOUS
  <2> HIDE DEF w, e
  <2> QED  BY <1>7, <1>10, <2>1 DEF CallOf
<1> HIDE DEF e, c, w, B, t
<1>12. Reads(e) = FetchBytes(i) /\ Writes(e) = w /\ Touched(e) = FetchBytes(i) \cup w
  BY <1>7, <1>10 DEF Reads, Writes, Touched
<1>13. /\ t \in Traces /\ Touches(tr, t, FetchBytes(i)) /\ Keeps(tr, t, FetchBytes(i), mem)
       /\ t.execs = [tr.execs EXCEPT ![i.pc] = @ + 1]
       /\ StoresIn(t, AllData)
  BY FetchTraceEffect DEF t
<1>14. /\ Touches(tr, tr', Touched(e)) /\ Keeps(tr, tr', Reads(e), mem)
       /\ tr'.execs = [tr.execs EXCEPT ![e.i.pc] = @ + 1] /\ StoresIn(tr', AllData)
  <2>1. CASE o.log = "buf"
    <3>1. tr' = StoreBytes(t, i.base, i.size) /\ w = B
      BY <2>1, <1>3 DEF w
    <3>2. Touches(t, tr', B) /\ tr'.execs = t.execs /\ StoresIn(tr', AllData)
      BY <3>1, <1>4, <1>13, StoreBytesEffect DEF B
    <3>3. Touches(tr, tr', FetchBytes(i) \cup B) /\ Keeps(tr, tr', FetchBytes(i), mem)
      BY <1>13, <3>2, TouchesTwice
    <3> QED  BY <3>1, <3>2, <3>3, <1>7, <1>12, <1>13
  <2>2. CASE o.log # "buf"
    <3>1. tr' = t /\ Touched(e) = FetchBytes(i)
      BY <2>2, <1>3, <1>12 DEF w
    <3> QED  BY <3>1, <1>7, <1>12, <1>13
  <2> QED  BY <2>1, <2>2
<1>15. fcsr' = 0 /\ a0' = ret
  BY <1>1, <1>2 DEF ExecCall, RecordInv
<1>16. \A a \in (tr.visited \cup Touched(e)) \ Writes(e) : mem'[a] = mem[a]
  <2>1. tr.visited \subseteq Addr /\ FetchBytes(i) \subseteq Addr
    BY InstFacts DEF Types, RecordType, Traces, FetchBytes
  <2>2. FetchBytes(i) \cap B = {}
    BY <1>4, CodeIsNotData
  <2>3. \A a \in (tr.visited \cup FetchBytes(i)) \ w : a \notin CallWrites(i, o)
    <3>1. o.wr = "fresh" => B \cap tr.visited = {}
      BY <1>1 DEF ExecCall, B
    <3> QED  BY <1>2, <2>2, <3>1 DEF CallWrites, w, B
  <2>4. \A a \in Addr : a \notin CallWrites(i, o) => mem'[a] = mem[a]
    BY <1>1 DEF ExecCall
  <2> QED  BY <1>12, <2>1, <2>3, <2>4
<1> QED  BY <1>3, <1>4, <1>6, <1>7, <1>8, <1>9, <1>10, <1>11, <1>14, <1>15, <1>16, RecordEvent

-----------------------------------------------------------------------------
(* The end of a slice.                                                     *)

(* What the trace gets on top does not disturb the history. *)
LEMMA HistoryMonotone ==
  ASSUME NEW evs, NEW cs, NEW entry, NEW last, NEW vis, NEW cont, NEW vis2, NEW cont2,
         IsHistory(evs, cs, entry, last, vis, cont),
         vis \subseteq vis2, \A a \in vis : cont2[a] = cont[a]
  PROVE  IsHistory(evs, cs, entry, last, vis2, cont2)
<1>1. ASSUME NEW k \in DOMAIN evs  PROVE EventOK(evs, cs, entry, last, vis2, cont2, k)
  <2>1. EventOK(evs, cs, entry, last, vis, cont, k)
    BY DEF IsHistory
  <2>2. Touched(evs[k]) \subseteq vis /\ Reads(evs[k]) \subseteq Touched(evs[k])
    BY <2>1 DEF EventOK, Touched
  <2>3. \A a \in Reads(evs[k]) : a \in Before(evs, k) \/ cont2[a] = evs[k].m[a]
    BY <2>1, <2>2 DEF EventOK
  <2>4. Touched(evs[k]) \subseteq vis2
    BY <2>2
  <2> QED  BY <2>1, <2>3, <2>4 DEF EventOK
<1> QED  BY <1>1 DEF IsHistory

(* A trace with nothing in it. *)
LEMMA NewTraceFacts ==
  /\ NewTrace.visited = {} /\ \A pc \in Addr : NewTrace.execs[pc] = 0
  /\ StoresOK(NewTrace)
BY DEF NewTrace, StoresOK

LEMMA EmptyHistory ==
  ASSUME NEW entry, NEW last, NEW vis, NEW cont, NEW pc
  PROVE  /\ IsHistory(<<>>, <<>>, entry, last, vis, cont)
         /\ A0At(<<>>, entry, Len(<<>>) + 1) = entry
         /\ Executions(<<>>, pc, Len(<<>>)) = 0
<1>1. Len(<<>>) = 0
  OBVIOUS
<1>2. \A p, q : Count(<<>>, p, q, 0) = 0
  <2> TAKE p, q
  <2>1. 0 \in Nat
    OBVIOUS
  <2> QED  BY <2>1, CountNext
<1>3. Executions(<<>>, pc, 0) = 0
  <2>1. 0 \in Nat
    OBVIOUS
  <2> QED  BY <2>1, ExecutionsNext
<1>4. Count(<<>>, 1, 0, 0) = 0
  BY <1>2
<1>5. IsHistory(<<>>, <<>>, entry, last, vis, cont)
  BY <1>1, <1>4 DEF IsHistory
<1> QED  BY <1>1, <1>3, <1>5 DEF A0At

(* What the recorder knows of the events of the slice. *)
LEMMA RecordedEvent ==
  ASSUME Types, RecordInv, NEW k \in DOMAIN ev
  PROVE  /\ ev[k] \in Events /\ ev[k].w \subseteq DataBytes(ev[k].i)
         /\ Touched(ev[k]) \subseteq tr.visited
<1>1. EventOK(ev, calls, EntryA0, mem, tr.visited, tr.content, k)
  BY DEF RecordInv, IsHistory
<1>2. ev[k] \in Events
  BY DEF Types, RecordType
<1> QED  BY <1>1, <1>2 DEF EventOK

(* The instruction at which a slice may end, and how. *)
BreaksAt(i, kind) ==
  \/ kind \in {"exit", "ecall"} /\ i.op = "ecall"
  \/ kind = "first" /\ i.len = 4 /\ FirstVisit(tr, i.pc, i.len)
  \/ /\ kind = "firstrvc" /\ i.len = 2
     /\ FirstVisit(tr, i.pc, i.len) /\ Prefetch(FetchTrace(i), i.pc + 2)
  \/ kind = "repeat" /\ i.len = 4 /\ GetRd(i) > 0 /\ ~ FirstVisit(tr, i.pc, i.len)

LEMMA BreakKindBreaks ==
  ASSUME NEW i \in Inst, BreakKind(i) # "none"
  PROVE  BreaksAt(i, BreakKind(i))
BY InstFacts DEF BreakKind, BreaksAt

(* The breakpoint does not disturb the instructions of the slice. *)
LEMMA BreakpointOK ==
  ASSUME Replayable, Types, RecordInv, NEW i \in Inst, NEW kind, BreaksAt(i, kind),
         NEW s, s.ev = ev, s.brk = BreakLine(i, kind)
  PROVE  BreakOK(s)
<1> DEFINE Q == Bytes(i.pc, 4)
           t == FetchTrace(i)
<1>0. s.brk.pc = i.pc /\ s.brk.kind = kind
      /\ (kind = "repeat" => s.brk.rd = GetRd(i) /\ s.brk.count = t.execs[i.pc])
      /\ (kind # "repeat" => s.brk.count = 0)
  BY DEF BreakLine
<1>1. i.pc \in Nat /\ i.len \in {2, 4} /\ Q \subseteq Addr /\ i.pc \in Addr
  BY InstFacts, TraceAssumption DEF Replayable
<1>2. i.len = 4 => Q = FetchBytes(i)
  BY DEF FetchBytes
<1>3. Touches(tr, t, FetchBytes(i)) /\ t.execs = [tr.execs EXCEPT ![i.pc] = @ + 1]
  BY FetchTraceEffect
<1> HIDE DEF Q, t
<1>4. kind \in {"first", "firstrvc"} => Q \cap tr.visited = {}
  <2>1. CASE kind = "first"
    BY <2>1, <1>2 DEF BreaksAt, FirstVisit, FetchBytes
  <2>2. CASE kind = "firstrvc"
    <3>1. Bytes(i.pc, 2) \cap tr.visited = {} /\ Bytes(i.pc + 2, 2) \cap t.visited = {}
      BY <2>2 DEF BreaksAt, FirstVisit, Prefetch, t
    <3>2. tr.visited \subseteq t.visited
      BY <1>3 DEF Touches
    <3>3. Q = Bytes(i.pc, 2) \cup Bytes(i.pc + 2, 2)
      BY <1>1 DEF Q, Bytes
    <3> QED  BY <3>1, <3>2, <3>3
  <2> QED  BY <2>1, <2>2
<1>5. kind \notin {"first", "firstrvc"} => i.len = 4
  BY InstFacts DEF BreaksAt
<1>6. ASSUME NEW k \in DOMAIN ev
      PROVE  /\ Q \cap (LoadBytes(ev[k].i) \cup Writes(ev[k])) = {}
             /\ \/ Q \cap FetchBytes(ev[k].i) = {}
                \/ kind # "repeat" /\ ev[k].i.op = "ecall"
                \/ /\ kind = "repeat" /\ ev[k].i.pc = i.pc
                   /\ ev[k].i.op \in {"alu", "load"} /\ ev[k].i.rd = s.brk.rd
  <2> DEFINE e == ev[k]
  <2>1. /\ e \in Events /\ e.w \subseteq DataBytes(e.i) /\ Touched(e) \subseteq tr.visited
    BY RecordedEvent
  <2> HIDE DEF e
  <2>2. /\ e.i \in Inst /\ LoadBytes(e.i) \subseteq AllData /\ Writes(e) \subseteq AllData
        /\ Touched(e) = FetchBytes(e.i) \cup (LoadBytes(e.i) \cup Writes(e))
    BY <2>1, EventBytes
  <2>3. CASE kind \in {"first", "firstrvc"}
    BY <2>1, <2>2, <2>3, <1>4 DEF e
  <2>4. CASE kind \notin {"first", "firstrvc"}
    <3>1. Q = FetchBytes(i) /\ i.len = 4
      BY <2>4, <1>2, <1>5
    <3>2. Q \cap AllData = {}
      BY <3>1, CodeIsNotData
    <3>3. ASSUME Q \cap FetchBytes(e.i) # {}  PROVE SameSite(i, e.i)
      <4>1. PICK a \in Q : a \in FetchBytes(e.i)
        BY <3>3
      <4> QED  BY <4>1, <3>1, <2>1, <2>2, CodeSite
    <3>4. kind = "repeat" => i.op \in {"alu", "load"} /\ GetRd(i) = i.rd
      BY <3>1 DEF BreaksAt, GetRd, Replayable
    <3>5. kind # "repeat" => i.op = "ecall"
      BY <2>4 DEF BreaksAt
    <3> QED  BY <2>2, <3>2, <3>3, <3>4, <3>5, <1>0 DEF SameSite, e
  <2> QED  BY <2>3, <2>4
<1>7. kind = "repeat" => /\ s.brk.count = Executions(ev, i.pc, Len(ev)) + 1
                         /\ s.brk.count > 1
  <2> SUFFICES ASSUME kind = "repeat"
               PROVE  /\ t.execs[i.pc] = Executions(ev, i.pc, Len(ev)) + 1
                      /\ Executions(ev, i.pc, Len(ev)) \in Nat \ {0}
    BY <1>0
  <2>1. tr.execs \in [Addr -> Nat] /\ tr.execs[i.pc] = Executions(ev, i.pc, Len(ev))
    BY <1>1 DEF Types, RecordType, Traces, RecordInv
  <2>2. t.execs[i.pc] = Executions(ev, i.pc, Len(ev)) + 1
    BY <1>1, <1>3, <2>1
  <2>3. PICK k \in DOMAIN ev : SameSite(i, ev[k].i)
    BY FetchAllOrNone DEF BreaksAt, FirstVisit, FetchBytes
  <2>4. k \in 1 .. Len(ev) /\ Len(ev) \in Nat /\ ev[k].i.pc = i.pc
    BY <2>3 DEF SameSite, Types, RecordType
  <2>5. Executions(ev, i.pc, Len(ev)) # 0
    <3>1. \A q : /\ Executions(ev, q, 0) = 0
                 /\ Executions(ev, q, 0) = Executions(ev, q, Len(ev)) =>
                      \A n \in (0 + 1) .. Len(ev) : ev[n].i.pc # q
      <4> TAKE q
      <4>1. 0 \in Nat /\ 0 <= Len(ev)
        BY <2>4
      <4> QED  BY <2>4, <4>1, ExecutionsNext, ExecutionsMonotone
    <3> QED  BY <2>4, <3>1
  <2> QED  BY <2>1, <2>2, <2>5, <1>1
<1> QED  BY <1>0, <1>1, <1>6, <1>7 DEF BreakOK, Q

(* The slice that ends, and the empty trace of the next one. *)
LEMMA BreakRecords ==
  ASSUME Replayable, Types, RecordInv, NEW i \in Inst, NEW kind, BreaksAt(i, kind),
         BreakHere(FetchTrace(i), BreakLine(i, kind)), fcsr' = 0
  PROVE  RecordInv'
<1> DEFINE t == FetchTrace(i)
           s == slice'
<1>1. /\ s.a0 = EntryA0 /\ s.dump = Dump(t, mem) /\ s.calls = calls
      /\ s.brk = BreakLine(i, kind) /\ s.ev = ev /\ s.mem = mem
      /\ ~ recording' /\ tr' = NewTrace /\ calls' = <<>> /\ ev' = <<>>
  BY DEF BreakHere
<1> HIDE DEF s
<1>2. Touches(tr, t, FetchBytes(i)) /\ t.stores = tr.stores
  BY FetchTraceEffect
<1> HIDE DEF t
<1>3. IsHistory(s.ev, s.calls, s.a0, s.mem, s.dump.visited, s.dump.content)
  <2>1. IsHistory(ev, calls, EntryA0, mem, tr.visited, tr.content)
    BY DEF RecordInv
  <2>2. tr.visited \subseteq t.visited /\ \A a \in tr.visited : t.content[a] = tr.content[a]
    BY <1>2 DEF Touches
  <2>3. IsHistory(ev, calls, EntryA0, mem, t.visited, t.content)
    BY <2>1, <2>2, HistoryMonotone
  <2> QED  BY <1>1, <2>3 DEF Dump
<1>4. BreakOK(s)
  BY <1>1, BreakpointOK
<1>5. \A r \in s.dump.asserts : \A a \in DOMAIN r.data :
        a \in Before(s.ev, Len(s.ev) + 1) \cap AllData /\ r.data[a] = s.mem[a]
  <2>1. s.dump.asserts = Assertions(t, mem)
    BY <1>1 DEF Dump
  <2> SUFFICES ASSUME NEW r \in Assertions(t, mem), NEW a \in DOMAIN r.data
               PROVE  a \in Before(ev, Len(ev) + 1) \cap AllData /\ r.data[a] = mem[a]
    BY <1>1, <2>1
  <2>2. PICK x \in Slot :
          /\ tr.stores[x] # NoStore
          /\ r = [ addr |-> tr.stores[x].addr,
                   data |-> [b \in Bytes(tr.stores[x].addr, tr.stores[x].size) |-> mem[b]] ]
    BY <1>2 DEF Assertions
  <2>3. a \in Bytes(tr.stores[x].addr, tr.stores[x].size) /\ r.data[a] = mem[a]
    BY <2>2
  <2>4. a \in tr.visited \cap AllData
    BY <2>2, <2>3 DEF RecordInv, StoresOK
  <2> QED  BY <2>3, <2>4 DEF RecordInv
<1>6. SliceOK(s)
  BY <1>3, <1>4, <1>5 DEF SliceOK
<1>7. EntryA0' = a0'
  BY <1>1 DEF EntryA0
<1>8. /\ IsHistory(ev', calls', EntryA0', mem', tr'.visited, tr'.content)
      /\ a0' = A0At(ev', EntryA0', Len(ev') + 1)
      /\ \A pc \in Addr : tr'.execs[pc] = Executions(ev', pc, Len(ev'))
      /\ tr'.visited = {} /\ StoresOK(tr')
  BY <1>1, <1>7, NewTraceFacts, EmptyHistory
<1>9. StoresOK(tr)' /\ SliceOK(slice)'
  BY <1>6, <1>8 DEF s, StoresOK, SliceOK, BreakOK, IsHistory, EventOK, AllData
<1>10. tr' = NewTrace'
  BY <1>1 DEF NewTrace
<1> QED  BY <1>1, <1>8, <1>9, <1>10 DEF RecordInv

LEMMA RecordInvInit == Init => RecordInv
<1> SUFFICES ASSUME Init PROVE RecordInv
  OBVIOUS
<1>1. /\ ~ recording /\ tr = NewTrace /\ calls = <<>> /\ ev = <<>> /\ fcsr = 0
      /\ slice = NoSlice
  BY DEF Init, RecordInit
<1>2. EntryA0 = a0
  BY <1>1 DEF EntryA0
<1>3. /\ IsHistory(ev, calls, EntryA0, mem, tr.visited, tr.content)
      /\ a0 = A0At(ev, EntryA0, Len(ev) + 1)
      /\ \A pc \in Addr : tr.execs[pc] = Executions(ev, pc, Len(ev))
      /\ tr.visited = {} /\ StoresOK(tr)
  BY <1>1, <1>2, NewTraceFacts, EmptyHistory
<1> QED  BY <1>1, <1>3 DEF RecordInv

(* The replay leaves it alone. *)
LEMMA RecordInvUnchanged ==
  ASSUME RecordInv, UNCHANGED <<guestVars, recordVars>>
  PROVE  RecordInv'
<1>1. UNCHANGED <<mem, a0, fcsr, recording, tr, entry_a0, calls, slice, ev>>
  BY DEF guestVars, recordVars
<1>2. UNCHANGED <<EntryA0, NewTrace, NoSlice>>
  BY <1>1 DEF EntryA0, NewTrace, NoSlice
<1>3. UNCHANGED IsHistory(ev, calls, EntryA0, mem, tr.visited, tr.content)
      /\ UNCHANGED StoresOK(tr) /\ UNCHANGED SliceOK(slice)
  BY <1>1, <1>2 DEF IsHistory, EventOK, StoresOK, SliceOK, BreakOK, AllData
<1> QED  BY <1>1, <1>2, <1>3 DEF RecordInv

LEMMA RecordInvNext ==
  ASSUME Replayable, Types, Types', RecordInv, [Next]_vars
  PROVE  RecordInv'
<1>1. ASSUME NEW i \in Inst, Step(i)  PROVE RecordInv'
  BY <1>1, StepRecords
<1>2. ASSUME NEW i \in Inst, Ecall(i)  PROVE RecordInv'
  BY <1>2, EcallRecords
<1>3. ASSUME NEW i \in Inst, Exit(i)  PROVE RecordInv'
  <2>1. BreakHere(FetchTrace(i), BreakLine(i, "exit")) /\ i.op = "ecall"
    BY <1>3 DEF Exit
  <2>2. fcsr' = 0
    BY <1>3 DEF Exit, ExecCall, RecordInv
  <2>3. BreaksAt(i, "exit")
    BY <2>1 DEF BreaksAt
  <2> QED  BY <2>1, <2>2, <2>3, BreakRecords
<1>4. ASSUME NEW i \in Inst, Break(i)  PROVE RecordInv'
  <2>1. BreakHere(FetchTrace(i), BreakLine(i, BreakKind(i))) /\ BreaksAt(i, BreakKind(i))
    BY <1>4, BreakKindBreaks DEF Break
  <2>2. fcsr' = 0
    BY <1>4 DEF Break, ExecCall, ExecInst, ValuesOf, RecordInv, Replayable
  <2> QED  BY <2>1, <2>2, BreakRecords
<1>5. CASE UNCHANGED <<guestVars, recordVars>>
  BY <1>5, RecordInvUnchanged
<1> QED  BY <1>1, <1>2, <1>3, <1>4, <1>5
         DEF Next, Record, RecordNext, StartReplay, ReplayNext, SecondPass,
             TrapReturn, TrapExit, ReplayInst, vars

(* The record of a slice is complete and exact: for every guest that is     *)
(* replayable, at every moment the trace holds exactly the bytes the slice  *)
(* has touched, with their values at the first touch, the calls are those   *)
(* of the log in their order, and the last slice is fit to be replayed.     *)
THEOREM TraceIsExact ==
  ASSUME Replayable
  PROVE  Spec => []RecordInv
<1>1. Spec => []Types
  BY InitTypes, NextTypes, PTL DEF Spec
<1>2. Init => RecordInv
  BY RecordInvInit
<1>3. Types /\ Types' /\ RecordInv /\ [Next]_vars => RecordInv'
  BY RecordInvNext
<1> QED  BY <1>1, <1>2, <1>3, PTL DEF Spec

-----------------------------------------------------------------------------
(***************************************************************************)
(* The replay of a slice of a replayable guest.                            *)
(***************************************************************************)

-----------------------------------------------------------------------------
(* What the record gives the replay.                                       *)

LEMMA SliceFacts ==
  ASSUME Types, RecordInv, phase = "replay"
  PROVE  /\ slice # NoSlice /\ IsSlice(slice) /\ SliceOK(slice)
         /\ slice.ev \in Seq(Events) /\ Len(slice.ev) \in Nat
         /\ DOMAIN slice.ev = 1 .. Len(slice.ev)
         /\ slice.brk.pc \in Addr /\ slice.brk.count \in Nat
         /\ rk \in Nat \ {0} /\ rk <= Len(slice.ev) + 1
<1>1. slice # NoSlice /\ IsSlice(slice) /\ rk \in Nat \ {0} /\ rk <= Len(slice.ev) + 1
  BY DEF Types, RecordType, ReplayType
<1>2. slice.ev \in Seq(Events) /\ slice.brk.pc \in Addr /\ slice.brk.count \in Nat
  BY <1>1 DEF IsSlice, BreakLines
<1>3. SliceOK(slice)
  BY <1>1 DEF RecordInv
<1> QED  BY <1>1, <1>2, <1>3

LEMMA SliceEvent ==
  ASSUME Types, RecordInv, phase = "replay", NEW k \in 1 .. Len(slice.ev)
  PROVE  LET e == slice.ev[k]
         IN  /\ e \in Events /\ e.i \in Inst
             /\ EventOK(slice.ev, slice.calls, slice.a0, slice.mem,
                        slice.dump.visited, slice.dump.content, k)
             /\ LoadBytes(e.i) \subseteq AllData /\ Writes(e) \subseteq AllData
             /\ Touched(e) = FetchBytes(e.i) \cup (LoadBytes(e.i) \cup Writes(e))
             /\ Touched(e) \subseteq slice.dump.visited
<1> DEFINE e == slice.ev[k]
<1>1. k \in DOMAIN slice.ev /\ e \in Events /\ SliceOK(slice)
  BY SliceFacts
<1>2. EventOK(slice.ev, slice.calls, slice.a0, slice.mem,
              slice.dump.visited, slice.dump.content, k)
  BY <1>1 DEF SliceOK, IsHistory
<1>3. e.w \subseteq DataBytes(e.i) /\ Touched(e) \subseteq slice.dump.visited
  BY <1>2 DEF EventOK
<1> HIDE DEF e
<1>4. /\ e.i \in Inst /\ LoadBytes(e.i) \subseteq AllData /\ Writes(e) \subseteq AllData
      /\ Touched(e) = FetchBytes(e.i) \cup (LoadBytes(e.i) \cup Writes(e))
  BY <1>1, <1>3, EventBytes
<1> QED  BY <1>1, <1>2, <1>3, <1>4 DEF e

(* What the breakpoint's bytes may share with an event. *)
LEMMA SliceBreak ==
  ASSUME Types, RecordInv, phase = "replay", NEW k \in 1 .. Len(slice.ev)
  PROVE  LET e == slice.ev[k]
         IN  /\ Bytes(slice.brk.pc, 4) \cap (LoadBytes(e.i) \cup Writes(e)) = {}
             /\ \/ Bytes(slice.brk.pc, 4) \cap FetchBytes(e.i) = {}
                \/ slice.brk.kind # "repeat" /\ e.i.op = "ecall"
                \/ /\ slice.brk.kind = "repeat" /\ e.i.pc = slice.brk.pc
                   /\ e.i.op \in {"alu", "load"} /\ e.i.rd = slice.brk.rd
<1>1. k \in DOMAIN slice.ev /\ SliceOK(slice)
  BY SliceFacts
<1> QED  BY <1>1 DEF SliceOK, BreakOK

LEMMA PcInFetch ==
  ASSUME NEW i \in Inst
  PROVE  /\ i.pc \in FetchBytes(i) /\ i.pc \in Bytes(i.pc, 4)
         /\ FetchBytes(i) \subseteq Bytes(i.pc, 4)
         /\ i.op = "ecall" => FetchBytes(i) = Bytes(i.pc, 4)
<1>1. i.pc \in Nat /\ i.len \in {2, 4} /\ (i.op = "ecall" => i.len = 4)
  BY InstFacts, TraceAssumption
<1> QED  BY <1>1 DEF FetchBytes, Bytes

-----------------------------------------------------------------------------
(* The patches.                                                            *)

(* The four bytes replaced at a site are no data of the slice, and no bytes *)
(* of an instruction that is not replaced itself.                           *)
LEMMA SiteBytes ==
  ASSUME Replayable, Types, RecordInv, phase = "replay",
         NEW p, p = 2 => slice.brk.kind = "repeat",
         NEW pc, IsSite(p, pc), NEW k \in 1 .. Len(slice.ev)
  PROVE  LET e == slice.ev[k]
         IN  /\ Bytes(pc, 4) \cap (LoadBytes(e.i) \cup Writes(e)) = {}
             /\ ~ IsTrap(p, slice.brk.pc, e) => Bytes(pc, 4) \cap FetchBytes(e.i) = {}
<1> DEFINE e == slice.ev[k]
<1>1. e.i \in Inst /\ LoadBytes(e.i) \subseteq AllData /\ Writes(e) \subseteq AllData
  BY SliceEvent
<1>2. /\ Bytes(slice.brk.pc, 4) \cap (LoadBytes(e.i) \cup Writes(e)) = {}
      /\ \/ Bytes(slice.brk.pc, 4) \cap FetchBytes(e.i) = {}
         \/ slice.brk.kind # "repeat" /\ e.i.op = "ecall"
         \/ /\ slice.brk.kind = "repeat" /\ e.i.pc = slice.brk.pc
            /\ e.i.op \in {"alu", "load"} /\ e.i.rd = slice.brk.rd
  BY SliceBreak
<1>3. DOMAIN slice.ev = 1 .. Len(slice.ev)
  BY SliceFacts
<1> HIDE DEF e
<1>4. CASE pc = slice.brk.pc /\ (p = 2 \/ slice.brk.kind # "repeat")
  BY <1>2, <1>4 DEF IsTrap, e
<1>5. CASE \E j \in 1 .. Len(slice.ev) : slice.ev[j].i.op = "ecall" /\ pc = slice.ev[j].i.pc
  <2>1. PICK j \in 1 .. Len(slice.ev) : slice.ev[j].i.op = "ecall" /\ pc = slice.ev[j].i.pc
    BY <1>5
  <2>2. slice.ev[j].i \in Inst
    BY SliceEvent
  <2>3. Bytes(pc, 4) = FetchBytes(slice.ev[j].i)
    BY <2>1, <2>2, PcInFetch
  <2>4. Bytes(pc, 4) \cap AllData = {}
    BY <2>2, <2>3, CodeIsNotData
  <2>5. SameSite(slice.ev[j].i, e.i) \/ Bytes(pc, 4) \cap FetchBytes(e.i) = {}
    BY <1>1, <2>2, <2>3 DEF Replayable
  <2> QED  BY <1>1, <2>1, <2>4, <2>5 DEF SameSite, IsTrap, e
<1> QED  BY <1>3, <1>4, <1>5 DEF IsSite, IsTrap

(* So is every patch of a table. *)
LEMMA TablePatches ==
  ASSUME Replayable, Types, RecordInv, phase = "replay",
         NEW p, p = 2 => slice.brk.kind = "repeat",
         NEW tab, TableOK(tab, p), NEW k \in 1 .. Len(slice.ev)
  PROVE  LET e == slice.ev[k]
         IN  /\ Patched(tab) \cap (LoadBytes(e.i) \cup Writes(e)) = {}
             /\ ~ IsTrap(p, slice.brk.pc, e) => Patched(tab) \cap FetchBytes(e.i) = {}
<1> DEFINE e == slice.ev[k]
<1>1. \A j \in DOMAIN tab :
        /\ Bytes(tab[j].pc, 4) \cap (LoadBytes(e.i) \cup Writes(e)) = {}
        /\ ~ IsTrap(p, slice.brk.pc, e) => Bytes(tab[j].pc, 4) \cap FetchBytes(e.i) = {}
  <2> TAKE j \in DOMAIN tab
  <2>1. IsSite(p, tab[j].pc)
    BY DEF TableOK
  <2> QED  BY <2>1, SiteBytes
<1> HIDE DEF e
<1> QED  BY <1>1 DEF Patched, e

(* A trap has its call in the table, at the place its number says. *)
LEMMA TrapCall ==
  ASSUME Types, RecordInv, phase = "replay", NEW p \in {1, 2},
         NEW tab \in Seq(Calls), TableOK(tab, p), NEW k \in 1 .. Len(slice.ev),
         IsTrap(p, slice.brk.pc, slice.ev[k])
  PROVE  /\ CountNow(p, k) = CountNow(p, k - 1) + 1
         /\ CountNow(p, k) \in DOMAIN tab
         /\ CallOf(tab[CountNow(p, k)], slice.ev[k])
<1> DEFINE C(n) == CountNow(p, n)
<1>1. k \in Nat /\ k - 1 \in Nat /\ k = (k - 1) + 1 /\ Len(slice.ev) \in Nat /\ k <= Len(slice.ev)
      /\ k \in DOMAIN slice.ev
  BY SliceFacts
<1>2. C(k) = C(k - 1) + 1 /\ C(k - 1) \in Nat
  BY <1>1, CountNext DEF CountNow
<1>3. C(k) <= C(Len(slice.ev)) /\ C(Len(slice.ev)) \in Nat
  BY <1>1, CountMonotone, CountNext DEF CountNow
<1>4. Len(tab) \in {C(Len(slice.ev)), C(Len(slice.ev)) + 1}
  BY DEF TableOK
<1>5. CallOf(tab[C(k)], slice.ev[k])
  BY <1>1 DEF TableOK
<1> HIDE DEF C
<1>6. C(k) \in DOMAIN tab
  BY <1>2, <1>3, <1>4
<1> QED  BY <1>2, <1>5, <1>6 DEF C

-----------------------------------------------------------------------------
(* The state of a replay.                                                  *)

(* The part of ReplayInv about a running replay. *)
RunInv ==
  /\ phase = "replay" /\ rstat = "run"
  /\ pass = 2 => slice.brk.kind = "repeat"
  /\ TableOK(rtab, pass)
  /\ rpos = CountNow(pass, rk - 1)
  /\ rfcsr = 0
  /\ ra0 = A0At(slice.ev, slice.a0, rk)
  /\ rk > 1 => rval = slice.ev[rk - 1].val
  /\ MemoryOK
  /\ Tracing => RerunOK

LEMMA RunInvFacts ==
  ASSUME ReplayInv, Running  PROVE RunInv
BY DEF ReplayInv, Running, RunInv

(* A byte the slice has touched or reads next, and that is not patched, has *)
(* its value of the recorded run.                                           *)
LEMMA KnownBytes ==
  ASSUME Types, RecordInv, RunInv, rk <= Len(slice.ev),
         NEW a \in Addr, a \notin Patched(rtab),
         a \in Before(slice.ev, rk) \cup Reads(slice.ev[rk])
  PROVE  rmem[a] = slice.ev[rk].m[a]
<1> DEFINE e == slice.ev[rk]
<1>1. phase = "replay" /\ MemoryOK
  BY DEF RunInv
<1>2. rk \in 1 .. Len(slice.ev)
  BY <1>1, SliceFacts
<1>3. CASE a \in Before(slice.ev, rk)
  BY <1>1, <1>3 DEF MemoryOK, MemAt
<1>4. CASE a \notin Before(slice.ev, rk)
  <2>1. a \in Reads(e)
    BY <1>4
  <2>2. EventOK(slice.ev, slice.calls, slice.a0, slice.mem,
                slice.dump.visited, slice.dump.content, rk)
    BY <1>1, <1>2, SliceEvent
  <2>3. slice.dump.content[a] = e.m[a] /\ Touched(e) \subseteq slice.dump.visited
    BY <1>4, <2>1, <2>2 DEF EventOK
  <2>4. a \in slice.dump.visited
    BY <2>1, <2>3 DEF Touched
  <2>5. rmem[a] = Image(slice, rtab)[a]
    BY <1>1, <1>4 DEF MemoryOK
  <2> QED  BY <2>3, <2>4, <2>5 DEF Image
<1> QED  BY <1>3, <1>4

(* No byte but the patched ones is a byte of a jump. *)
LEMMA NotAJump ==
  ASSUME Types, RecordInv, RunInv, NEW a \in Addr, a \notin Patched(rtab)
  PROVE  rmem[a] # Jump
<1>1. phase = "replay" /\ MemoryOK
  BY DEF RunInv
<1>2. /\ IsSlice(slice) /\ slice.ev \in Seq(Events) /\ Len(slice.ev) \in Nat
      /\ rk \in Nat \ {0}
  BY <1>1, SliceFacts
<1>3. MemAt(slice.ev, slice.mem, rk)[a] \in Val
  <2>1. slice.mem \in Mem
    BY <1>2 DEF IsSlice
  <2>2. rk <= Len(slice.ev) => slice.ev[rk] \in Events
    BY <1>2
  <2>3. \A x \in Events : x.m \in Mem
    BY DEF Events
  <2> QED  BY <2>1, <2>2, <2>3 DEF MemAt, Mem
<1>4. Image(slice, rtab)[a] \in Val \cup {Hole}
  BY <1>2 DEF Image, IsSlice, Mem
<1> QED  BY <1>1, <1>3, <1>4, ReplayAssumption DEF MemoryOK

(* The replay meets a jal exactly where a call was replaced. *)
LEMMA JumpIffTrap ==
  ASSUME Replayable, Types, RecordInv, RunInv, ~ AtEnd
  PROVE  /\ rk \in 1 .. Len(slice.ev)
         /\ AtJump <=> IsTrap(pass, slice.brk.pc, slice.ev[rk])
<1> DEFINE e == slice.ev[rk]
<1>1. phase = "replay" /\ MemoryOK /\ TableOK(rtab, pass)
      /\ (pass = 2 => slice.brk.kind = "repeat")
  BY DEF RunInv
<1>2. rk \in 1 .. Len(slice.ev)
  BY <1>1, SliceFacts DEF AtEnd
<1>3. e.i \in Inst
  BY <1>1, <1>2, SliceEvent
<1>4. ReplayPc = e.i.pc
  BY DEF ReplayPc
<1>5. Bytes(e.i.pc, 4) \subseteq Addr
  BY <1>3 DEF Replayable
<1>6. rtab \in Seq(Calls) /\ pass \in {1, 2}
  BY DEF Types, ReplayType
<1>7. ASSUME IsTrap(pass, slice.brk.pc, e)  PROVE AtJump
  <2>1. /\ CountNow(pass, rk) \in DOMAIN rtab
        /\ CallOf(rtab[CountNow(pass, rk)], e)
    BY <1>1, <1>2, <1>6, <1>7, TrapCall
  <2>2. rtab[CountNow(pass, rk)].pc = e.i.pc
    BY <2>1 DEF CallOf
  <2>3. Bytes(e.i.pc, 4) \subseteq Patched(rtab)
    BY <2>1, <2>2 DEF Patched
  <2> QED  BY <1>1, <1>4, <1>5, <2>3 DEF AtJump, MemoryOK
<1>8. ASSUME ~ IsTrap(pass, slice.brk.pc, e)  PROVE ~ AtJump
  <2>1. Patched(rtab) \cap FetchBytes(e.i) = {}
    BY <1>1, <1>2, <1>8, TablePatches
  <2>2. e.i.pc \in FetchBytes(e.i) /\ e.i.pc \in Bytes(e.i.pc, 4)
    BY <1>3, PcInFetch
  <2>3. e.i.pc \in Addr /\ e.i.pc \notin Patched(rtab)
    BY <1>5, <2>1, <2>2
  <2>4. rmem[e.i.pc] # Jump
    BY <2>3, NotAJump
  <2> QED  BY <1>4, <2>2, <2>4 DEF AtJump
<1> QED  BY <1>2, <1>7, <1>8

(* An instruction that was not replaced gets what it got when recorded. *)
LEMMA InstAgrees ==
  ASSUME Replayable, Types, RecordInv, RunInv, ~ AtEnd, ~ AtJump
  PROVE  Agrees(slice.ev[rk])
<1> DEFINE e == slice.ev[rk]
<1>1. rk \in 1 .. Len(slice.ev) /\ ~ IsTrap(pass, slice.brk.pc, e)
  BY JumpIffTrap
<1>2. /\ phase = "replay" /\ TableOK(rtab, pass) /\ rfcsr = 0
      /\ (pass = 2 => slice.brk.kind = "repeat")
  BY DEF RunInv
<1>3. /\ Patched(rtab) \cap LoadBytes(e.i) = {}
      /\ Patched(rtab) \cap FetchBytes(e.i) = {}
  BY <1>1, <1>2, TablePatches
<1>4. /\ e.i \in Inst
      /\ EventOK(slice.ev, slice.calls, slice.a0, slice.mem,
                 slice.dump.visited, slice.dump.content, rk)
  BY <1>1, <1>2, SliceEvent
<1>5. FetchBytes(e.i) \subseteq Addr /\ LoadBytes(e.i) \subseteq Addr
  BY <1>4, InstFacts DEF FetchBytes, LoadBytes
<1>6. rk <= Len(slice.ev)
  BY <1>1, <1>2, SliceFacts
<1>7. \A a \in Reads(e) : rmem[a] = e.m[a]
  <2> TAKE a \in Reads(e)
  <2>1. a \in Addr /\ a \notin Patched(rtab)
    BY <1>3, <1>5 DEF Reads
  <2> QED  BY <2>1, <1>6, KnownBytes
<1>8. e.f = 0
  BY <1>4 DEF EventOK
<1>9. e.i.op # "ecall"
  BY <1>1 DEF IsTrap
<1> HIDE DEF e
<1> QED  BY <1>2, <1>7, <1>8, <1>9 DEF Agrees, Reads, e

(* The rerun is stopped before the end of the slice. *)
LEMMA RerunStops ==
  ASSUME Types, RecordInv, RunInv, Tracing
  PROVE  ~ AtEnd
<1>1. phase = "replay" /\ TableOK(rtab, pass) /\ rpos = CountNow(pass, rk - 1) /\ RerunOK
      /\ pass = 1 /\ slice.brk.kind = "repeat"
  BY DEF RunInv, Tracing
<1>2. SliceOK(slice) /\ Len(slice.ev) \in Nat /\ rk \in Nat
  BY <1>1, SliceFacts
<1>3. slice.brk.count = Executions(slice.ev, slice.brk.pc, Len(slice.ev)) + 1
  BY <1>1, <1>2 DEF SliceOK, BreakOK
<1>4. Executions(slice.ev, slice.brk.pc, Len(slice.ev)) \in Nat
  BY <1>2, ExecutionsNext
<1>5. ASSUME AtEnd  PROVE FALSE
  <2>1. rk - 1 = Len(slice.ev)
    BY <1>2, <1>5 DEF AtEnd
  <2>2. repeat = 1
    BY <1>1, <1>3, <1>4, <2>1 DEF RerunOK
  <2>3. rpos = Len(rtab)
    BY <1>1, <2>1 DEF TableOK
  <2> QED  BY <1>1, <2>2, <2>3 DEF RerunOK
<1> QED  BY <1>5

(* The call that is next in the table is the call of the event. *)
LEMMA NextCallIs ==
  ASSUME Replayable, Types, RecordInv, RunInv, ~ AtEnd, AtJump
  PROVE  /\ rpos < Len(rtab) /\ NextCall.brk = FALSE /\ NextCall \in Calls
         /\ CallOf(NextCall, slice.ev[rk])
         /\ rpos + 1 = CountNow(pass, rk)
<1>1. rk \in 1 .. Len(slice.ev) /\ IsTrap(pass, slice.brk.pc, slice.ev[rk])
  BY JumpIffTrap
<1>2. phase = "replay" /\ TableOK(rtab, pass) /\ rpos = CountNow(pass, rk - 1)
  BY DEF RunInv
<1>3. rtab \in Seq(Calls) /\ pass \in {1, 2} /\ rpos \in Nat
  BY DEF Types, ReplayType
<1>4. /\ CountNow(pass, rk) = CountNow(pass, rk - 1) + 1
      /\ CountNow(pass, rk) \in DOMAIN rtab
      /\ CallOf(rtab[CountNow(pass, rk)], slice.ev[rk])
  BY <1>1, <1>2, <1>3, TrapCall
<1>5. rpos + 1 = CountNow(pass, rk) /\ rpos + 1 \in DOMAIN rtab
  BY <1>2, <1>4
<1>6. NextCall = rtab[CountNow(pass, rk)]
  BY <1>5 DEF NextCall
<1>7. rpos < Len(rtab) /\ NextCall \in Calls
  BY <1>3, <1>5 DEF NextCall
<1> QED  BY <1>4, <1>5, <1>6, <1>7 DEF CallOf

(* At the end it is the breakpoint. *)
LEMMA LastCallIs ==
  ASSUME Types, RecordInv, RunInv, AtEnd
  PROVE  /\ rpos < Len(rtab) /\ NextCall = BreakCall(slice.brk.pc)
         /\ AtJump
<1>1. ~ Tracing
  BY RerunStops
<1>2. phase = "replay" /\ TableOK(rtab, pass) /\ rpos = CountNow(pass, rk - 1) /\ MemoryOK
      /\ (pass = 2 => slice.brk.kind = "repeat")
  BY DEF RunInv
<1>3. SliceOK(slice) /\ Len(slice.ev) \in Nat
  BY <1>2, SliceFacts
<1>4. rk - 1 = Len(slice.ev)
  BY <1>3 DEF AtEnd
<1>5. Len(rtab) = CountNow(pass, Len(slice.ev)) + 1
      /\ rtab[Len(rtab)] = BreakCall(slice.brk.pc)
  BY <1>1, <1>2 DEF TableOK, Tracing
<1>6. rpos \in Nat /\ rtab \in Seq(Calls)
  BY DEF Types, ReplayType
<1>7. Len(rtab) = rpos + 1
  BY <1>2, <1>4, <1>5
<1>8. NextCall = BreakCall(slice.brk.pc)
  BY <1>5, <1>7 DEF NextCall
<1>9. Bytes(slice.brk.pc, 4) \subseteq Patched(rtab)
  <2>1. rpos + 1 \in DOMAIN rtab
    BY <1>6, <1>7
  <2>2. rtab[rpos + 1].pc = slice.brk.pc
    BY <1>8 DEF NextCall, BreakCall
  <2> QED  BY <2>1, <2>2 DEF Patched
<1>10. Bytes(slice.brk.pc, 4) \subseteq Addr
  BY <1>3 DEF SliceOK, BreakOK
<1>11. ReplayPc = slice.brk.pc
  BY DEF ReplayPc
<1>12. AtJump
  BY <1>2, <1>9, <1>10, <1>11 DEF AtJump, MemoryOK
<1> QED  BY <1>6, <1>7, <1>8, <1>12

(* The memory after an event that wrote what it wrote when recorded. *)
LEMMA MemoryStep ==
  ASSUME Replayable, Types, RecordInv, RunInv, ~ AtEnd,
         slice' = slice, rtab' = rtab, rk' = rk + 1,
         rmem' = [a \in Addr |-> IF a \in Writes(slice.ev[rk]) THEN slice.ev[rk].n[a] ELSE rmem[a]]
  PROVE  MemoryOK'
<1> DEFINE e == slice.ev[rk]
           k == rk + 1
<1>1. phase = "replay" /\ MemoryOK /\ TableOK(rtab, pass)
      /\ (pass = 2 => slice.brk.kind = "repeat")
  BY DEF RunInv
<1>2. rk \in 1 .. Len(slice.ev) /\ rk \in Nat \ {0} /\ rk <= Len(slice.ev)
  BY <1>1, SliceFacts DEF AtEnd
<1>3. /\ EventOK(slice.ev, slice.calls, slice.a0, slice.mem,
                 slice.dump.visited, slice.dump.content, rk)
      /\ e.i \in Inst
  BY <1>1, <1>2, SliceEvent
<1>4. Patched(rtab) \cap Writes(e) = {}
  BY <1>1, <1>2, TablePatches
<1>5. Before(slice.ev, k) = Before(slice.ev, rk) \cup Touched(e)
  BY <1>2, BeforeNext
<1>6. MemAt(slice.ev, slice.mem, k) = e.n
      /\ \A a \in Before(slice.ev, k) \ Writes(e) : e.n[a] = e.m[a]
  BY <1>3 DEF EventOK
<1>7. Touched(e) = Reads(e) \cup Writes(e)
  BY DEF Touched
<1> HIDE DEF e
<1> SUFFICES ASSUME NEW a \in Addr
             PROVE  rmem'[a] = IF a \in Patched(rtab) THEN Jump
                               ELSE IF a \in Before(slice.ev, k) THEN MemAt(slice.ev, slice.mem, k)[a]
                               ELSE Image(slice, rtab)[a]
  BY DEF MemoryOK, Image, Patched, Before, MemAt
<1>8. rmem'[a] = IF a \in Writes(e) THEN e.n[a] ELSE rmem[a]
  BY DEF e
<1>9. CASE a \in Patched(rtab)
  BY <1>1, <1>4, <1>8, <1>9 DEF MemoryOK
<1>10. CASE a \notin Patched(rtab) /\ a \in Writes(e)
  BY <1>5, <1>6, <1>7, <1>8, <1>10
<1>11. CASE a \notin Patched(rtab) /\ a \notin Writes(e) /\ a \in Before(slice.ev, k)
  <2>1. a \in Before(slice.ev, rk) \cup Reads(e)
    BY <1>5, <1>7, <1>11
  <2>2. rmem[a] = e.m[a]
    BY <1>2, <1>11, <2>1, KnownBytes DEF e
  <2> QED  BY <1>6, <1>8, <1>11, <2>2
<1>12. CASE a \notin Patched(rtab) /\ a \notin Before(slice.ev, k)
  BY <1>1, <1>5, <1>7, <1>8, <1>12 DEF MemoryOK
<1> QED  BY <1>9, <1>10, <1>11, <1>12

-----------------------------------------------------------------------------
(* The calls the rerun collects.                                           *)

(* nc holds the traps of the second pass among the first k events. *)
Collected(nc, k) ==
  /\ \A j \in 1 .. k :
       IsTrap(2, slice.brk.pc, slice.ev[j]) => CallOf(nc[CountNow(2, j)], slice.ev[j])
  /\ Len(nc) = CountNow(2, k)
  /\ \A j \in DOMAIN nc : IsSite(2, nc[j].pc)

LEMMA CollectTrap ==
  ASSUME Types, RecordInv, phase = "replay", NEW k \in 1 .. Len(slice.ev),
         NEW nc \in Seq(Calls), Collected(nc, k - 1), NEW c \in Calls,
         IsTrap(2, slice.brk.pc, slice.ev[k]), CallOf(c, slice.ev[k])
  PROVE  Collected(Append(nc, c), k)
<1> DEFINE C(n) == CountNow(2, n)
           d == Append(nc, c)
           T(j) == IsTrap(2, slice.brk.pc, slice.ev[j])
<1>1. k \in Nat /\ k - 1 \in Nat /\ k = (k - 1) + 1 /\ k \in DOMAIN slice.ev
  BY SliceFacts
<1>2. \A n \in Nat : C(n) \in Nat /\ C(n + 1) = IF T(n + 1) THEN C(n) + 1 ELSE C(n)
  BY CountNext DEF CountNow
<1>3. \A j \in 1 .. (k - 1) : C(j) <= C(k - 1)
  <2> TAKE j \in 1 .. (k - 1)
  <2>1. j \in Nat /\ j <= k - 1
    BY <1>1
  <2> QED  BY <1>1, <2>1, CountMonotone DEF CountNow
<1>4. /\ Len(nc) = C(k - 1) /\ \A j \in DOMAIN nc : IsSite(2, nc[j].pc)
      /\ \A j \in 1 .. (k - 1) : T(j) => CallOf(nc[C(j)], slice.ev[j])
  BY DEF Collected
<1>5. /\ Len(d) = Len(nc) + 1 /\ d[Len(nc) + 1] = c /\ Len(nc) \in Nat
      /\ \A j \in 1 .. Len(nc) : d[j] = nc[j]
      /\ DOMAIN d = 1 .. (Len(nc) + 1) /\ DOMAIN nc = 1 .. Len(nc)
  OBVIOUS
<1>6. T(k) /\ IsSite(2, c.pc)
  BY <1>1 DEF CallOf, IsSite
<1> HIDE DEF C, d, T
<1>7. C(k) = Len(nc) + 1
  BY <1>1, <1>2, <1>4, <1>6
<1>8. ASSUME NEW j \in 1 .. k, T(j)  PROVE CallOf(d[C(j)], slice.ev[j])
  <2>1. CASE j = k
    BY <2>1, <1>5, <1>7
  <2>2. CASE j # k
    <3>1. j \in 1 .. (k - 1) /\ j - 1 \in Nat /\ j = (j - 1) + 1
      BY <1>1, <2>2
    <3>2. C(j) = C(j - 1) + 1 /\ C(j - 1) \in Nat
      BY <1>2, <1>8, <3>1
    <3>3. C(j) \in 1 .. Len(nc)
      BY <1>3, <1>4, <1>5, <3>1, <3>2
    <3> QED  BY <1>4, <1>5, <1>8, <3>1, <3>3
  <2> QED  BY <2>1, <2>2
<1>9. \A j \in DOMAIN d : IsSite(2, d[j].pc)
  <2> TAKE j \in DOMAIN d
  <2>1. j \in 1 .. Len(nc) \/ j = Len(nc) + 1
    BY <1>5
  <2> QED  BY <2>1, <1>4, <1>5, <1>6
<1> QED  BY <1>5, <1>7, <1>8, <1>9 DEF Collected, C, d, T

LEMMA CollectSkip ==
  ASSUME Types, RecordInv, phase = "replay", NEW k \in 1 .. Len(slice.ev),
         NEW nc, Collected(nc, k - 1), ~ IsTrap(2, slice.brk.pc, slice.ev[k])
  PROVE  Collected(nc, k)
<1>1. k \in Nat /\ k - 1 \in Nat /\ k = (k - 1) + 1
  BY SliceFacts
<1>2. CountNow(2, k) = CountNow(2, k - 1)
  <2>1. \A n \in Nat : CountNow(2, n + 1) =
          IF IsTrap(2, slice.brk.pc, slice.ev[n + 1]) THEN CountNow(2, n) + 1 ELSE CountNow(2, n)
    BY CountNext DEF CountNow
  <2> QED  BY <1>1, <2>1
<1>3. \A j \in 1 .. k : j \in 1 .. (k - 1) \/ j = k
  BY <1>1
<1> QED  BY <1>2, <1>3 DEF Collected

(* Once no trap is left, they are a table. *)
LEMMA CollectDone ==
  ASSUME Types, RecordInv, phase = "replay", slice.brk.kind = "repeat",
         NEW k \in 1 .. Len(slice.ev), NEW nc \in Seq(Calls), Collected(nc, k),
         \A j \in (k + 1) .. Len(slice.ev) : ~ IsTrap(2, slice.brk.pc, slice.ev[j])
  PROVE  TableOK(Append(nc, BreakCall(slice.brk.pc)), 2)
<1> DEFINE b == BreakCall(slice.brk.pc)
           d == Append(nc, b)
           N == Len(slice.ev)
           T(j) == IsTrap(2, slice.brk.pc, slice.ev[j])
           C(n) == CountNow(2, n)
<1>1. k \in Nat /\ N \in Nat /\ k <= N /\ DOMAIN slice.ev = 1 .. N /\ slice.brk.pc \in Addr
  BY SliceFacts
<1>2. b \in Calls /\ b.pc = slice.brk.pc
  BY <1>1, BreakCallType DEF BreakCall
<1> HIDE DEF b
<1>3. /\ d \in Seq(Calls) /\ Len(d) = Len(nc) + 1 /\ d[Len(nc) + 1] = b /\ Len(nc) \in Nat
      /\ \A j \in 1 .. Len(nc) : d[j] = nc[j]
      /\ DOMAIN d = 1 .. (Len(nc) + 1) /\ DOMAIN nc = 1 .. Len(nc)
  BY <1>2
<1>4. C(N) = C(k)
  <2>1. {j \in 1 .. N : T(j)} = {j \in 1 .. k : T(j)}
    BY <1>1
  <2> QED  BY <2>1 DEF CountNow, Count
<1>5. Len(nc) = C(k) /\ (\A j \in DOMAIN nc : IsSite(2, nc[j].pc))
      /\ \A j \in 1 .. k : T(j) => CallOf(nc[C(j)], slice.ev[j])
  BY DEF Collected
<1>6. \A n \in Nat : C(n) \in Nat /\ C(n + 1) = IF T(n + 1) THEN C(n) + 1 ELSE C(n)
  BY CountNext DEF CountNow
<1>7. \A j \in 1 .. k : C(j) <= C(k)
  <2> TAKE j \in 1 .. k
  <2>1. j \in Nat /\ j <= k
    BY <1>1
  <2> QED  BY <1>1, <2>1, CountMonotone DEF CountNow
<1>8. \A j \in (k + 1) .. N : ~ T(j)
  OBVIOUS
<1>9. IsSite(2, b.pc)
  BY <1>2 DEF IsSite
<1> HIDE DEF C, d, T, N
<1>10. ASSUME NEW j \in 1 .. N, T(j)  PROVE CallOf(d[C(j)], slice.ev[j])
  <2>1. j \in 1 .. k /\ j - 1 \in Nat /\ j = (j - 1) + 1
    BY <1>1, <1>8, <1>10
  <2>2. C(j) = C(j - 1) + 1 /\ C(j - 1) \in Nat
    BY <1>6, <1>10, <2>1
  <2>3. C(j) \in 1 .. Len(nc)
    BY <1>3, <1>5, <1>7, <2>1, <2>2
  <2> QED  BY <1>3, <1>5, <1>10, <2>1, <2>3
<1>11. \A j \in DOMAIN d : IsSite(2, d[j].pc)
  <2> TAKE j \in DOMAIN d
  <2>1. j \in 1 .. Len(nc) \/ j = Len(nc) + 1
    BY <1>3
  <2> QED  BY <2>1, <1>3, <1>5, <1>9
<1>12. Len(d) = C(N) + 1 /\ d[Len(d)] = b
  BY <1>3, <1>4, <1>5
<1>13. \A j \in DOMAIN slice.ev :
         IsTrap(2, slice.brk.pc, slice.ev[j]) => CallOf(d[CountNow(2, j)], slice.ev[j])
  BY <1>1, <1>10 DEF C, T
<1>14. Len(d) = CountNow(2, Len(slice.ev)) + 1 /\ d[Len(d)] = BreakCall(slice.brk.pc)
  BY <1>12 DEF C, N, b
<1>15. TableOK(d, 2)
  BY <1>11, <1>13, <1>14 DEF TableOK
<1> QED  BY <1>15 DEF d, b

(* One execution of the breakpoint is left, and all system calls were seen: *)
(* behind event k there is no trap.                                         *)
LEMMA NoMoreTraps ==
  ASSUME Types, RecordInv, phase = "replay", slice.brk.kind = "repeat",
         NEW k \in 1 .. Len(slice.ev),
         slice.brk.count - Executions(slice.ev, slice.brk.pc, k) = 1,
         CountNow(1, k) = CountNow(1, Len(slice.ev))
  PROVE  \A j \in (k + 1) .. Len(slice.ev) : ~ IsTrap(2, slice.brk.pc, slice.ev[j])
<1>1. SliceOK(slice) /\ Len(slice.ev) \in Nat /\ k \in Nat /\ k <= Len(slice.ev)
  BY SliceFacts
<1>2. slice.brk.count = Executions(slice.ev, slice.brk.pc, Len(slice.ev)) + 1
  BY <1>1 DEF SliceOK, BreakOK
<1>3. /\ Executions(slice.ev, slice.brk.pc, Len(slice.ev)) \in Nat
      /\ Executions(slice.ev, slice.brk.pc, k) \in Nat
  BY <1>1, ExecutionsNext
<1>4. Executions(slice.ev, slice.brk.pc, k) = Executions(slice.ev, slice.brk.pc, Len(slice.ev))
  BY <1>2, <1>3
<1>5. \A j \in (k + 1) .. Len(slice.ev) : slice.ev[j].i.pc # slice.brk.pc
  BY <1>1, <1>4, ExecutionsMonotone
<1>6. \A p : Count(slice.ev, p, slice.brk.pc, k) = Count(slice.ev, p, slice.brk.pc, Len(slice.ev)) =>
        \A j \in (k + 1) .. Len(slice.ev) : ~ IsTrap(p, slice.brk.pc, slice.ev[j])
  BY <1>1, CountMonotone
<1>7. \A j \in (k + 1) .. Len(slice.ev) : ~ IsTrap(1, slice.brk.pc, slice.ev[j])
  BY <1>6 DEF CountNow
<1> QED  BY <1>5, <1>7 DEF IsTrap

(* A line of the rerun. *)
LEMMA RerunStep ==
  ASSUME Types, RecordInv, RunInv, Tracing, rk \in 1 .. Len(slice.ev),
         slice' = slice, rtab' = rtab, rk' = rk + 1,
         NEW c \in Calls, IsTrap(2, slice.brk.pc, slice.ev[rk]), CallOf(c, slice.ev[rk]),
         RerunLine(c, repeat', rpos'),
         repeat' = slice.brk.count - Executions(slice.ev, slice.brk.pc, rk),
         rpos' = CountNow(1, rk)
  PROVE  \/ rstat' = "run" /\ RerunOK'
         \/ rstat' = "found" /\ TableOK(newcalls, 2)'
<1>1. phase = "replay" /\ TableOK(rtab, pass) /\ RerunOK /\ pass = 1
      /\ slice.brk.kind = "repeat"
  BY DEF RunInv, Tracing
<1>2. newcalls \in Seq(Calls) /\ rk \in Nat
  BY DEF Types, ReplayType
<1>3. Collected(newcalls, rk - 1)
  BY <1>1 DEF RerunOK, Collected
<1> DEFINE nc == Append(newcalls, c)
<1>4. Collected(nc, rk) /\ nc \in Seq(Calls)
  BY <1>1, <1>2, <1>3, CollectTrap
<1>5. Len(rtab) = CountNow(1, Len(slice.ev))
  BY <1>1 DEF TableOK
<1>6. CASE repeat' = 1 /\ rpos' = Len(rtab)
  <2>1. newcalls' = Append(nc, BreakCall(slice.brk.pc)) /\ rstat' = "found"
    BY <1>6 DEF RerunLine
  <2>2. TableOK(Append(nc, BreakCall(slice.brk.pc)), 2)
    <3> HIDE DEF nc
    <3> QED  BY <1>1, <1>4, <1>5, <1>6, NoMoreTraps, CollectDone
  <2>3. TableOK(newcalls', 2)
    BY <2>1, <2>2
  <2>4. TableOK(newcalls, 2)'
    BY <2>3 DEF TableOK, CountNow, IsSite
  <2> QED  BY <2>1, <2>4
<1>7. CASE ~ (repeat' = 1 /\ rpos' = Len(rtab))
  <2>1. newcalls' = nc /\ rstat' = "run"
    BY <1>7 DEF RerunLine
  <2>2. rk' - 1 = rk
    BY <1>2
  <2>3. Collected(newcalls', rk)
    BY <1>4, <2>1
  <2> HIDE DEF nc
  <2>4. RerunOK'
    BY <1>7, <2>2, <2>3 DEF RerunOK, Collected, CountNow, IsSite
  <2> QED  BY <2>1, <2>4
<1> QED  BY <1>6, <1>7

-----------------------------------------------------------------------------
(* The steps of a replay.                                                  *)

(* An event is replayed: registers and memory change as they did when it    *)
(* was recorded.                                                            *)
LEMMA EventStep ==
  ASSUME Replayable, Types, RecordInv, RunInv, ~ AtEnd,
         slice' = slice, rtab' = rtab, pass' = pass, phase' = phase, rk' = rk + 1,
         rmem' = [a \in Addr |-> IF a \in Writes(slice.ev[rk]) THEN slice.ev[rk].n[a] ELSE rmem[a]],
         ra0' = IF ResultReg(slice.ev[rk].i) = A0 THEN slice.ev[rk].val ELSE ra0,
         rval' = slice.ev[rk].val, rfcsr' = 0, rpos' = CountNow(pass, rk),
         Tracing => \/ rstat' = "run" /\ RerunOK'
                    \/ rstat' = "found" /\ TableOK(newcalls, 2)',
         ~ Tracing => rstat' = "run"
  PROVE  ReplayInv'
<1> DEFINE e == slice.ev[rk]
<1>1. /\ phase = "replay" /\ TableOK(rtab, pass) /\ (pass = 2 => slice.brk.kind = "repeat")
      /\ ra0 = A0At(slice.ev, slice.a0, rk)
  BY DEF RunInv
<1>2. rk \in 1 .. Len(slice.ev) /\ rk \in Nat \ {0} /\ rk' - 1 = rk
  BY <1>1, SliceFacts DEF AtEnd
<1>3. EventOK(slice.ev, slice.calls, slice.a0, slice.mem,
              slice.dump.visited, slice.dump.content, rk)
  BY <1>1, <1>2, SliceEvent
<1>4. MemoryOK'
  BY MemoryStep
<1>6. ra0' = A0At(slice.ev, slice.a0, rk + 1)
  <2>1. A0At(slice.ev, slice.a0, rk + 1) = e.a0
    BY <1>2 DEF A0At
  <2>2. e.a0 = IF ResultReg(e.i) = A0 THEN e.val ELSE A0At(slice.ev, slice.a0, rk)
    BY <1>3 DEF EventOK
  <2> QED  BY <1>1, <2>1, <2>2
<1>7. TableOK(rtab, pass)'
  BY <1>1 DEF TableOK, CountNow, IsSite
<1>8. rpos' = CountNow(pass, rk - 1)'
  BY <1>2 DEF CountNow
<1>9. rval' = slice'.ev[rk' - 1].val
  BY <1>2
<1>10. pass' = 2 \/ rstat' = "found" => slice'.brk.kind = "repeat"
  BY <1>1 DEF Tracing
<1>11. Tracing' = Tracing
  BY DEF Tracing
<1>12. rstat' = "run" => (Tracing => RerunOK)'
  BY <1>11
<1>13. rstat' = "found" => TableOK(newcalls, 2)'
  OBVIOUS
<1>14. rstat' # "finish"
  OBVIOUS
<1>15. StoreAssertionsHold'
  BY <1>14 DEF StoreAssertionsHold
<1> QED  BY <1>4, <1>6, <1>7, <1>8, <1>9, <1>10, <1>12, <1>13, <1>15 DEF ReplayInv

(* A trap of the second pass is an ecall or the breakpoint, which replaces  *)
(* an instruction that stores nothing; so is none of the first at the       *)
(* breakpoint.                                                              *)
LEMMA TrapStoresNothing ==
  ASSUME Types, RecordInv, phase = "replay", NEW k \in 1 .. Len(slice.ev),
         slice.brk.kind = "repeat" \/ slice.ev[k].i.op = "ecall",
         slice.ev[k].i.op = "ecall" \/ slice.ev[k].i.pc = slice.brk.pc
  PROVE  /\ StoreBytesOf(slice.ev[k].i) = {}
         /\ slice.brk.kind = "repeat" =>
              (slice.ev[k].i.pc = slice.brk.pc <=> slice.ev[k].i.op # "ecall")
         /\ slice.ev[k].i.op # "ecall" =>
              /\ slice.ev[k].i.op \in {"alu", "load"}
              /\ slice.ev[k].i.rd = slice.brk.rd
<1> DEFINE e == slice.ev[k]
<1>1. e.i \in Inst
  BY SliceEvent
<1>2. \/ Bytes(slice.brk.pc, 4) \cap FetchBytes(e.i) = {}
      \/ slice.brk.kind # "repeat" /\ e.i.op = "ecall"
      \/ /\ slice.brk.kind = "repeat" /\ e.i.pc = slice.brk.pc
         /\ e.i.op \in {"alu", "load"} /\ e.i.rd = slice.brk.rd
  BY SliceBreak
<1> HIDE DEF e
<1>3. e.i.pc = slice.brk.pc => Bytes(slice.brk.pc, 4) \cap FetchBytes(e.i) # {}
  BY <1>1, PcInFetch
<1> QED  BY <1>2, <1>3 DEF StoreBytesOf, e

LEMMA ExecutionsAt ==
  ASSUME NEW evs, NEW pc, NEW k \in Nat \ {0}
  PROVE  Executions(evs, pc, k) = IF evs[k].i.pc = pc THEN Executions(evs, pc, k - 1) + 1
                                                      ELSE Executions(evs, pc, k - 1)
<1>1. k - 1 \in Nat /\ (k - 1) + 1 = k
  OBVIOUS
<1>2. \A n \in Nat : Executions(evs, pc, n + 1) =
        IF evs[n + 1].i.pc = pc THEN Executions(evs, pc, n) + 1 ELSE Executions(evs, pc, n)
  BY ExecutionsNext
<1> QED  BY <1>1, <1>2

LEMMA CountAt ==
  ASSUME NEW p, NEW k \in Nat \ {0}
  PROVE  CountNow(p, k) = IF IsTrap(p, slice.brk.pc, slice.ev[k]) THEN CountNow(p, k - 1) + 1
                                                                  ELSE CountNow(p, k - 1)
<1>1. k - 1 \in Nat /\ (k - 1) + 1 = k
  OBVIOUS
<1>2. \A n \in Nat : CountNow(p, n + 1) =
        IF IsTrap(p, slice.brk.pc, slice.ev[n + 1]) THEN CountNow(p, n) + 1 ELSE CountNow(p, n)
  BY CountNext DEF CountNow
<1> QED  BY <1>1, <1>2

(* replay() returns. *)
LEMMA TrapReturnInv ==
  ASSUME Replayable, Types, RecordInv, ReplayInv, TrapReturn
  PROVE  ReplayInv'
<1> DEFINE e == slice.ev[rk]
           c == NextCall
<1>1. RunInv /\ ~ AtEnd /\ AtJump /\ rk \in Nat \ {0}
  BY RunInvFacts DEF TrapReturn, Types, ReplayType
<1>2. rk \in 1 .. Len(slice.ev) /\ IsTrap(pass, slice.brk.pc, e)
  BY <1>1, JumpIffTrap
<1>3. c \in Calls /\ CallOf(c, e) /\ rpos + 1 = CountNow(pass, rk)
  BY <1>1, NextCallIs
<1>4. phase = "replay" /\ (pass = 2 => slice.brk.kind = "repeat") /\ rfcsr = 0 /\ rstat = "run"
      /\ pass \in {1, 2}
  BY <1>1 DEF RunInv, Types, ReplayType
<1>5. /\ StoreBytesOf(e.i) = {}
      /\ slice.brk.kind = "repeat" => (e.i.pc = slice.brk.pc <=> e.i.op # "ecall")
  BY <1>2, <1>4, TrapStoresNothing DEF IsTrap
<1>6. /\ rmem' = MemAfterCall(c) /\ ra0' = (IF c.rd = A0 THEN c.ret ELSE ra0)
      /\ rval' = c.ret /\ rk' = rk + 1 /\ rpos' = rpos + 1
      /\ slice' = slice /\ rtab' = rtab /\ pass' = pass /\ phase' = phase
      /\ rfcsr' = rfcsr /\ repeat' = repeat
  BY DEF TrapReturn, recordVars
<1>7. /\ Tracing => RerunLine(c, repeat', rpos')
      /\ ~ Tracing => rstat' = "run"
  BY <1>4, <1>6 DEF TrapReturn
<1> HIDE DEF c, e
<1>8. rmem' = [a \in Addr |-> IF a \in Writes(e) THEN e.n[a] ELSE rmem[a]]
  <2>1. Writes(e) = e.w /\ c.w = e.w /\ \A a \in e.w : c.data[a] = e.n[a]
    BY <1>3, <1>5 DEF Writes, CallOf
  <2> QED  BY <1>6, <2>1 DEF MemAfterCall
<1>9. ra0' = (IF ResultReg(e.i) = A0 THEN e.val ELSE ra0) /\ rval' = e.val
  BY <1>3, <1>6 DEF CallOf
<1>10. Tracing => \/ rstat' = "run" /\ RerunOK'
                  \/ rstat' = "found" /\ TableOK(newcalls, 2)'
  <2> SUFFICES ASSUME Tracing
               PROVE  \/ rstat' = "run" /\ RerunOK'
                      \/ rstat' = "found" /\ TableOK(newcalls, 2)'
    OBVIOUS
  <2>1. pass = 1 /\ slice.brk.kind = "repeat" /\ RerunOK
    BY <1>1 DEF Tracing, RunInv
  <2>2. e.i.op = "ecall" /\ e.i.pc # slice.brk.pc
    BY <1>2, <1>5, <2>1 DEF IsTrap
  <2>3. repeat' = slice.brk.count - Executions(slice.ev, slice.brk.pc, rk)
    BY <1>1, <1>6, <2>1, <2>2, ExecutionsAt DEF RerunOK, e
  <2>4. IsTrap(2, slice.brk.pc, slice.ev[rk])
    BY <2>2 DEF IsTrap, e
  <2>5. rpos' = CountNow(1, rk)
    BY <1>3, <1>6, <2>1
  <2> QED  BY <1>1, <1>2, <1>3, <1>6, <1>7, <2>3, <2>4, <2>5, RerunStep DEF e
<1> QED  BY <1>1, <1>3, <1>4, <1>6, <1>7, <1>8, <1>9, <1>10, EventStep DEF e

(* An instruction that was not replaced. *)
LEMMA ReplayInstInv ==
  ASSUME Replayable, Types, Types', RecordInv, ReplayInv, ReplayInst
  PROVE  ReplayInv'
<1> DEFINE e == slice.ev[rk]
<1>1. RunInv /\ ~ AtEnd /\ ~ AtJump /\ rk \in Nat \ {0}
  BY RunInvFacts DEF ReplayInst, Types, ReplayType
<1>2. rk \in 1 .. Len(slice.ev) /\ ~ IsTrap(pass, slice.brk.pc, e)
  BY <1>1, JumpIffTrap
<1>3. /\ phase = "replay" /\ (pass = 2 => slice.brk.kind = "repeat") /\ rfcsr = 0
      /\ rstat = "run" /\ pass \in {1, 2} /\ rpos = CountNow(pass, rk - 1)
  BY <1>1 DEF RunInv, Types, ReplayType
<1>4. e.nf = 0 /\ e.i.op # "ecall" /\ e.w = {}
  <2>1. EventOK(slice.ev, slice.calls, slice.a0, slice.mem,
                slice.dump.visited, slice.dump.content, rk)
    BY <1>2, <1>3, SliceEvent
  <2>2. e.i.op # "ecall"
    BY <1>2 DEF IsTrap
  <2> QED  BY <2>1, <2>2 DEF EventOK
<1>5. /\ rk' = rk + 1 /\ slice' = slice /\ rtab' = rtab /\ pass' = pass /\ phase' = phase
      /\ rpos' = rpos
  BY DEF ReplayInst, recordVars
<1>6. /\ rmem' = [a \in Addr |-> IF a \in StoreBytesOf(e.i) THEN e.n[a] ELSE rmem[a]]
      /\ rval' = e.val
  <2>1. PICK success \in ScResult :
          LET failed == e.i.op = "sc" /\ ~ success
          IN  /\ rmem' = [a \in Addr |->
                     IF a \in StoreBytesOf(e.i) /\ ~ failed THEN e.n[a] ELSE rmem[a]]
              /\ rval' = IF failed /\ e.i.rd # 0 THEN 1 ELSE e.val
    BY DEF ReplayInst
  <2>2. success = TRUE
    BY DEF Replayable
  <2> QED  BY <2>1, <2>2
<1>7. /\ ra0' = (IF ResultReg(e.i) = A0 THEN rval' ELSE ra0)
      /\ rfcsr' = IF e.i.op = "csrw" THEN e.nf ELSE rfcsr
  BY DEF ReplayInst
<1>8. IF Tracing /\ e.i.pc = slice.brk.pc
      THEN RerunLine(ExecuteLine(e), repeat - 1, rpos) /\ repeat' = repeat - 1
      ELSE UNCHANGED <<newcalls, rstat, repeat>>
  BY DEF ReplayInst
<1>9. rfcsr' = 0
  BY <1>3, <1>4, <1>7
<1>10. rpos' = CountNow(pass, rk)
  BY <1>1, <1>2, <1>3, <1>5, CountAt
<1>11. ~ Tracing => rstat' = "run"
  BY <1>3, <1>8
<1>12. e \in Events /\ e.i \in Inst
  BY <1>2, <1>3, SliceEvent
<1> HIDE DEF e
<1>13. Tracing => \/ rstat' = "run" /\ RerunOK'
                  \/ rstat' = "found" /\ TableOK(newcalls, 2)'
  <2> SUFFICES ASSUME Tracing
               PROVE  \/ rstat' = "run" /\ RerunOK'
                      \/ rstat' = "found" /\ TableOK(newcalls, 2)'
    OBVIOUS
  <2>1. pass = 1 /\ slice.brk.kind = "repeat" /\ RerunOK
    BY <1>1 DEF Tracing, RunInv
  <2>2. CASE e.i.pc = slice.brk.pc
    <3>1. RerunLine(ExecuteLine(e), repeat', rpos') /\ repeat' = repeat - 1
      BY <1>5, <1>8, <2>2
    <3>2. Executions(slice.ev, slice.brk.pc, rk) = Executions(slice.ev, slice.brk.pc, rk - 1) + 1
          /\ Executions(slice.ev, slice.brk.pc, rk - 1) \in Nat
      <4>1. rk - 1 \in Nat
        BY <1>1
      <4>2. \A n \in Nat : Executions(slice.ev, slice.brk.pc, n) \in Nat
        BY ExecutionsNext
      <4> QED  BY <1>1, <2>2, <4>1, <4>2, ExecutionsAt DEF e
    <3>3. repeat' = slice.brk.count - Executions(slice.ev, slice.brk.pc, rk)
      <4>1. repeat = slice.brk.count - Executions(slice.ev, slice.brk.pc, rk - 1)
        BY <2>1 DEF RerunOK
      <4>2. slice.brk.count \in Nat
        BY <1>3, SliceFacts
      <4> QED  BY <3>1, <3>2, <4>1, <4>2
    <3>4. e.i.op \in {"alu", "load"} /\ e.i.rd = slice.brk.rd
      BY <1>2, <1>3, <1>4, <2>1, <2>2, TrapStoresNothing DEF e
    <3>5. IsTrap(2, slice.brk.pc, e)
      BY <2>2 DEF IsTrap
    <3>6. CallOf(ExecuteLine(e), e)
      BY <1>4, <1>6, <3>4 DEF CallOf, ExecuteLine, ResultReg
    <3>7. ExecuteLine(e) \in Calls
      <4>1. e.i.pc \in Addr /\ slice.brk.rd \in Int /\ rval' \in RepVal
        BY <1>3, <1>12, InstFacts, SliceFacts DEF IsSlice, BreakLines, Types, ReplayType
      <4>2. ExecuteLine(e) \in [ pc : Addr, ret : RepVal, rd : Int, brk : BOOLEAN,
                                 w : {{}}, data : [{} -> Val] ]
        BY <4>1 DEF ExecuteLine
      <4> QED  BY <4>2 DEF Calls
    <3>8. rpos' = CountNow(1, rk)
      BY <1>10, <2>1
    <3> HIDE DEF Replayable
    <3> QED  BY <1>1, <1>2, <1>5, <3>1, <3>3, <3>5, <3>6, <3>7, <3>8, RerunStep DEF e
  <2>3. CASE e.i.pc # slice.brk.pc
    <3>1. UNCHANGED <<newcalls, rstat, repeat>>
      BY <1>8, <2>3
    <3>2. ~ IsTrap(2, slice.brk.pc, e)
      BY <1>4, <2>3 DEF IsTrap
    <3>3. Collected(newcalls, rk - 1)
      BY <2>1 DEF RerunOK, Collected
    <3>4. Collected(newcalls, rk)
      BY <1>2, <1>3, <3>2, <3>3, CollectSkip DEF e
    <3>5. repeat = slice.brk.count - Executions(slice.ev, slice.brk.pc, rk)
      BY <1>1, <2>1, <2>3, ExecutionsAt DEF RerunOK, e
    <3>6. ~ (repeat = 1 /\ rpos = Len(rtab))
      BY <2>1 DEF RerunOK
    <3>7. rk' - 1 = rk
      BY <1>1, <1>5
    <3>8. RerunOK'
      BY <1>5, <3>1, <3>4, <3>5, <3>6, <3>7 DEF RerunOK, Collected, CountNow, IsSite
    <3> QED  BY <1>3, <3>1, <3>8
  <2> QED  BY <2>2, <2>3
<1>14. Writes(e) = StoreBytesOf(e.i)
  BY <1>4 DEF Writes
<1> QED  BY <1>1, <1>5, <1>6, <1>7, <1>9, <1>10, <1>11, <1>13, <1>14, EventStep DEF e

(* REPLAY_EXIT: the asserted stores have their values. *)
LEMMA TrapExitInv ==
  ASSUME Replayable, Types, RecordInv, ReplayInv, TrapExit
  PROVE  ReplayInv'
<1>1. RunInv /\ AtJump /\ NextCall.brk
  BY RunInvFacts DEF TrapExit
<1>2. AtEnd
  <2>1. ~ AtEnd => NextCall.brk = FALSE
    BY <1>1, NextCallIs
  <2> QED  BY <1>1, <2>1
<1>3. NextCall = BreakCall(slice.brk.pc)
  BY <1>1, <1>2, LastCallIs
<1>4. rmem \in [Addr -> Val \cup {Jump, Hole}] /\ pass \in {1, 2}
  BY DEF Types, ReplayType
<1>5. rmem' = rmem
  BY <1>3, <1>4 DEF TrapExit, MemAfterCall, BreakCall
<1>6. /\ rstat' = "finish" /\ slice' = slice /\ pass' = pass
  BY DEF TrapExit, recordVars
<1>7. /\ phase = "replay" /\ MemoryOK /\ TableOK(rtab, pass)
      /\ (pass = 2 => slice.brk.kind = "repeat")
  BY <1>1 DEF RunInv
<1>8. SliceOK(slice) /\ Len(slice.ev) \in Nat /\ IsSlice(slice)
  BY <1>7, SliceFacts
<1>9. rk = Len(slice.ev) + 1
  BY <1>2 DEF AtEnd
<1>10. ASSUME NEW s \in slice.dump.asserts, NEW a \in DOMAIN s.data
       PROVE  rmem[a] = s.data[a]
  <2>1. a \in Before(slice.ev, rk) /\ a \in AllData /\ s.data[a] = slice.mem[a]
    BY <1>8, <1>9 DEF SliceOK
  <2>2. PICK k \in 1 .. (rk - 1) : a \in Touched(slice.ev[k])
    BY <2>1 DEF Before
  <2>3. k \in 1 .. Len(slice.ev)
    BY <1>8, <1>9
  <2> DEFINE e == slice.ev[k]
  <2>4. /\ e.i \in Inst
        /\ Touched(e) = FetchBytes(e.i) \cup (LoadBytes(e.i) \cup Writes(e))
        /\ Touched(e) \subseteq slice.dump.visited
    BY <1>7, <2>3, SliceEvent
  <2>5. a \notin Patched(rtab)
    <3>1. Patched(rtab) \cap (LoadBytes(e.i) \cup Writes(e)) = {}
      BY <1>7, <2>3, TablePatches
    <3>2. FetchBytes(e.i) \cap AllData = {}
      BY <2>4, CodeIsNotData
    <3> HIDE DEF e
    <3>3. a \in Touched(e)
      BY <2>2 DEF e
    <3> QED  BY <2>1, <2>4, <3>1, <3>2, <3>3
  <2>6. a \in Addr
    BY <1>8, <2>2, <2>4 DEF IsSlice
  <2>7. MemAt(slice.ev, slice.mem, rk) = slice.mem
    BY <1>8, <1>9 DEF MemAt
  <2> QED  BY <1>7, <2>1, <2>5, <2>6, <2>7 DEF MemoryOK
<1>11. StoreAssertionsHold'
  BY <1>5, <1>6, <1>10 DEF StoreAssertionsHold
<1> QED  BY <1>6, <1>7, <1>11 DEF ReplayInv

-----------------------------------------------------------------------------
(* The start of a replay.                                                  *)

(* The calls of the log, and the breakpoint, are a table. *)
LEMMA FirstTableOK ==
  ASSUME Types, RecordInv, slice # NoSlice
  PROVE  TableOK(FirstTable(slice), 1)
<1> DEFINE N == Len(slice.ev)
           C(n) == CountNow(1, n)
           d == FirstTable(slice)
           cs == slice.calls
           b == BreakCall(slice.brk.pc)
           T(k) == slice.ev[k].i.op = "ecall"
<1>1. IsSlice(slice) /\ SliceOK(slice)
  BY DEF Types, RecordType, RecordInv
<1>2. /\ N \in Nat /\ DOMAIN slice.ev = 1 .. N /\ cs \in Seq(Calls) /\ slice.brk.pc \in Addr
  BY <1>1 DEF IsSlice, BreakLines
<1>3. \A k \in Nat : Count(slice.ev, 1, 0, k) = C(k)
  BY DEF Count, CountNow, IsTrap
<1>4. /\ \A k \in 1 .. N : T(k) => CallOf(cs[C(k)], slice.ev[k])
      /\ Len(cs) = C(N)
      /\ \A j \in DOMAIN cs : \E k \in 1 .. N : T(k) /\ cs[j].pc = slice.ev[k].i.pc
  <2>1. IsHistory(slice.ev, cs, slice.a0, slice.mem, slice.dump.visited, slice.dump.content)
    BY <1>1 DEF SliceOK
  <2>2. \A k \in 1 .. N : T(k) => CallOf(cs[Count(slice.ev, 1, 0, k)], slice.ev[k])
    BY <1>2, <2>1 DEF IsHistory, EventOK
  <2>3. \A k \in 1 .. N : Count(slice.ev, 1, 0, k) = C(k)
    BY <1>2, <1>3
  <2>4. Len(cs) = Count(slice.ev, 1, 0, N) /\ Count(slice.ev, 1, 0, N) = C(N)
    BY <1>2, <1>3, <2>1 DEF IsHistory
  <2>5. \A j \in DOMAIN cs : \E k \in 1 .. N : T(k) /\ cs[j].pc = slice.ev[k].i.pc
    BY <1>2, <2>1 DEF IsHistory
  <2> HIDE DEF C, cs, N
  <2> QED  BY <2>2, <2>3, <2>4, <2>5
<1>5. \A n \in Nat : C(n) \in Nat /\ C(n + 1) = IF T(n + 1) THEN C(n) + 1 ELSE C(n)
  <2>1. \A n \in Nat : C(n) \in Nat /\
          C(n + 1) = IF IsTrap(1, slice.brk.pc, slice.ev[n + 1]) THEN C(n) + 1 ELSE C(n)
    BY CountNext DEF CountNow
  <2>2. \A x : IsTrap(1, slice.brk.pc, x) <=> x.i.op = "ecall"
    BY DEF IsTrap
  <2> QED  BY <2>1, <2>2
<1>6. \A k \in 1 .. N : C(k) <= C(N)
  <2> TAKE k \in 1 .. N
  <2>1. k \in Nat /\ k <= N
    BY <1>2
  <2> QED  BY <1>2, <2>1, CountMonotone DEF CountNow
<1>7. \A j \in DOMAIN cs : IsSite(1, cs[j].pc)
  BY <1>2, <1>4 DEF IsSite, IsTrap
<1>8. b \in Calls /\ b.pc = slice.brk.pc
  BY <1>2, BreakCallType DEF BreakCall
<1>9. d = IF slice.brk.kind = "repeat" THEN cs ELSE Append(cs, b)
  BY DEF FirstTable
<1> HIDE DEF b, cs, d
<1>10. /\ \A j \in 1 .. Len(cs) : d[j] = cs[j]
       /\ slice.brk.kind = "repeat" => d = cs
       /\ slice.brk.kind # "repeat" =>
            Len(d) = Len(cs) + 1 /\ d[Len(cs) + 1] = b /\ DOMAIN d = 1 .. (Len(cs) + 1)
       /\ DOMAIN cs = 1 .. Len(cs) /\ Len(cs) \in Nat
  BY <1>2, <1>8, <1>9
<1>11. slice.brk.kind # "repeat" => IsSite(1, b.pc)
  BY <1>8 DEF IsSite
<1> HIDE DEF C, N, T
<1>12. ASSUME NEW k \in 1 .. N, T(k)  PROVE CallOf(d[C(k)], slice.ev[k])
  <2>1. k - 1 \in Nat /\ k = (k - 1) + 1
    BY <1>2
  <2>2. C(k) = C(k - 1) + 1 /\ C(k - 1) \in Nat
    BY <1>5, <1>12, <2>1
  <2>3. C(k) \in 1 .. Len(cs)
    BY <1>4, <1>6, <1>10, <2>2
  <2> QED  BY <1>4, <1>10, <1>12, <2>3
<1>13. \A j \in DOMAIN d : IsSite(1, d[j].pc)
  <2> TAKE j \in DOMAIN d
  <2>1. CASE slice.brk.kind = "repeat"
    BY <2>1, <1>7, <1>10
  <2>2. CASE slice.brk.kind # "repeat"
    <3>1. j \in 1 .. Len(cs) \/ j = Len(cs) + 1
      BY <2>2, <1>10
    <3> QED  BY <2>2, <3>1, <1>7, <1>10, <1>11
  <2> QED  BY <2>1, <2>2
<1>14. \A k \in DOMAIN slice.ev :
         IsTrap(1, slice.brk.pc, slice.ev[k]) => CallOf(d[CountNow(1, k)], slice.ev[k])
  BY <1>2, <1>12 DEF IsTrap, C, T
<1>15. IF slice.brk.kind = "repeat" THEN Len(d) = CountNow(1, Len(slice.ev))
       ELSE /\ Len(d) = CountNow(1, Len(slice.ev)) + 1
            /\ d[Len(d)] = BreakCall(slice.brk.pc)
  BY <1>4, <1>10 DEF C, N, b
<1>16. TableOK(d, 1)
  BY <1>13, <1>14, <1>15 DEF TableOK
<1> QED  BY <1>16 DEF d

(* A loaded image is the state at the start of the slice. *)
LEMMA LoadImageInv ==
  ASSUME Types, RecordInv, slice # NoSlice, NEW p \in {1, 2}, NEW tab, TableOK(tab, p),
         LoadImage(tab, p), rstat' = "run", slice' = slice, phase' = "replay",
         p = 2 => slice.brk.kind = "repeat",
         p = 1 => repeat' = slice.brk.count /\ newcalls' = <<>>
  PROVE  ReplayInv'
<1>1. /\ pass' = p /\ rtab' = tab /\ rpos' = 0 /\ rmem' = Image(slice, tab)
      /\ ra0' = slice.a0 /\ rfcsr' = 0 /\ rk' = 1
  BY DEF LoadImage
<1>2. TableOK(rtab, pass)'
  BY <1>1 DEF TableOK, CountNow, IsSite
<1>3. \A q : CountNow(q, 0) = 0
  <2> TAKE q
  <2>1. 0 \in Nat
    OBVIOUS
  <2> QED  BY <2>1, CountNext DEF CountNow
<1>4. rk' - 1 = 0 /\ rk' = 1
  BY <1>1
<1>5. CountNow(pass, rk - 1)' = 0
  BY <1>3, <1>4 DEF CountNow
<1>6. A0At(slice.ev, slice.a0, rk)' = slice.a0
  BY <1>1 DEF A0At
<1>7. MemoryOK'
  <2>1. Before(slice.ev, 1) = {}
    BY BeforeEmpty
  <2>2. \A a \in Addr : Image(slice, tab)[a] = IF a \in Patched(tab) THEN Jump
                                                ELSE Image(slice, tab)[a]
    BY DEF Image
  <2>3. Before(slice.ev, rk)' = {} /\ Patched(rtab)' = Patched(tab)
        /\ Image(slice, rtab)' = Image(slice, tab)
    BY <1>1, <2>1 DEF Before, Patched, Image
  <2> QED  BY <1>1, <2>2, <2>3 DEF MemoryOK
<1>8. (Tracing => RerunOK)'
  <2> SUFFICES ASSUME Tracing'  PROVE RerunOK'
    OBVIOUS
  <2>1. p = 1 /\ slice.brk.kind = "repeat"
    BY <1>1 DEF Tracing
  <2>2. slice.brk.count > 1 /\ slice.brk.count \in Nat
    BY <2>1 DEF RecordInv, SliceOK, BreakOK, Types, RecordType, IsSlice, BreakLines
  <2>3. \A pc : Executions(slice.ev, pc, 0) = 0
    <3> TAKE pc
    <3>1. 0 \in Nat
      OBVIOUS
    <3> QED  BY <3>1, ExecutionsNext
  <2>4. repeat' = slice.brk.count - Executions(slice.ev, slice.brk.pc, 0)
        /\ repeat' # 1 /\ newcalls' = <<>>
    BY <2>1, <2>2, <2>3
  <2>5. Len(newcalls') = CountNow(2, rk - 1)'
    BY <1>3, <1>4, <2>4 DEF CountNow
  <2>6. repeat' = slice'.brk.count - Executions(slice'.ev, slice'.brk.pc, rk' - 1)
    BY <1>4, <2>4
  <2> QED  BY <1>4, <2>4, <2>5, <2>6 DEF RerunOK
<1>9. StoreAssertionsHold'
  BY <1>1 DEF StoreAssertionsHold
<1>10. ~ (rk' > 1)
  BY <1>1
<1>11. ra0' = A0At(slice.ev, slice.a0, rk)' /\ rpos' = CountNow(pass, rk - 1)'
  BY <1>1, <1>5, <1>6
<1>12. pass' = 2 => slice'.brk.kind = "repeat"
  BY <1>1
<1> HIDE DEF Types
<1> QED  BY <1>1, <1>2, <1>7, <1>8, <1>9, <1>10, <1>11, <1>12 DEF ReplayInv

-----------------------------------------------------------------------------
LEMMA ReplayInvInit == Init => ReplayInv
BY DEF Init, ReplayInv

LEMMA ReplayInvNext ==
  ASSUME Replayable, Types, Types', RecordInv, ReplayInv, [Next]_vars
  PROVE  ReplayInv'
<1>1. CASE Record
  <2>1. phase' = "record"
    BY <1>1 DEF Record, replayVars
  <2> QED  BY <2>1 DEF ReplayInv
<1>2. CASE StartReplay
  <2>1. /\ slice # NoSlice /\ LoadImage(FirstTable(slice), 1) /\ slice' = slice
        /\ phase' = "replay" /\ repeat' = slice.brk.count /\ BeginLine
    BY <1>2 DEF StartReplay, recordVars
  <2>2. TableOK(FirstTable(slice), 1)
    BY <2>1, FirstTableOK
  <2>3. slice.brk.count # 1
    <3>1. SliceOK(slice) /\ IsSlice(slice)
      BY <2>1 DEF RecordInv, Types, RecordType
    <3>2. slice.brk.kind # "repeat" => slice.brk.count = 0
      BY <3>1 DEF SliceOK, BreakOK
    <3> QED  BY <3>1, <3>2 DEF SliceOK, BreakOK, IsSlice, BreakLines
  <2>4. newcalls' = <<>> /\ rstat' = "run"
    BY <2>1, <2>3 DEF BeginLine
  <2> QED  BY <2>1, <2>2, <2>4, LoadImageInv
<1>3. CASE SecondPass
  <2>1. /\ rstat = "found" /\ LoadImage(newcalls, 2) /\ rstat' = "run" /\ slice' = slice
        /\ phase' = phase
    BY <1>3 DEF SecondPass, recordVars
  <2>2. phase = "replay" /\ slice # NoSlice
    BY <2>1 DEF Types, ReplayType
  <2>3. slice.brk.kind = "repeat" /\ TableOK(newcalls, 2)
    BY <2>1, <2>2 DEF ReplayInv
  <2> QED  BY <2>1, <2>2, <2>3, LoadImageInv
<1>4. CASE TrapReturn
  BY <1>4, TrapReturnInv
<1>5. CASE TrapExit
  BY <1>5, TrapExitInv
<1>6. CASE ReplayInst
  BY <1>6, ReplayInstInv
<1>7. CASE UNCHANGED vars
  <2>1. UNCHANGED <<phase, pass, rtab, rpos, rmem, ra0, rfcsr, rval, rk, repeat,
                    newcalls, rstat, slice>>
    BY <1>7 DEF vars, replayVars, recordVars
  <2>2. /\ UNCHANGED TableOK(rtab, pass) /\ UNCHANGED TableOK(newcalls, 2)
        /\ UNCHANGED MemoryOK /\ UNCHANGED (Tracing => RerunOK)
        /\ UNCHANGED StoreAssertionsHold /\ UNCHANGED CountNow(pass, rk - 1)
    BY <2>1 DEF TableOK, CountNow, IsSite, MemoryOK, Image, Patched, Tracing, RerunOK,
                StoreAssertionsHold
  <2> QED  BY <2>1, <2>2 DEF ReplayInv
<1> QED  BY <1>1, <1>2, <1>3, <1>4, <1>5, <1>6, <1>7 DEF Next, ReplayNext

-----------------------------------------------------------------------------
(* The invariants of a replayable guest. *)
LEMMA AllInvariant ==
  ASSUME Replayable
  PROVE  Spec => [](Types /\ RecordInv /\ ReplayInv)
<1>1. Spec => []Types
  BY InitTypes, NextTypes, PTL DEF Spec
<1>2. Spec => []RecordInv
  BY TraceIsExact
<1>3. Init => ReplayInv
  BY ReplayInvInit
<1>4. Types /\ Types' /\ RecordInv /\ ReplayInv /\ [Next]_vars => ReplayInv'
  BY ReplayInvNext
<1> QED  BY <1>1, <1>2, <1>3, <1>4, PTL DEF Spec

(* For every replayable guest, period and mixture of breakpoints: at each   *)
(* point of a replay the table, registers and memory are those the recorded *)
(* run had there, and the rerun of a repeated breakpoint yields a complete  *)
(* second table.                                                            *)
THEOREM ReplayFollowsRecord ==
  ASSUME Replayable
  PROVE  Spec => []ReplayInv
BY AllInvariant, PTL

(* For every replayable guest: no replayed instruction gets a value the     *)
(* recorded run did not get, and none leaves another one behind.            *)
THEOREM ReplayIsFaithful ==
  ASSUME Replayable
  PROVE  Spec => []ReplayFaithful
<1>1. Types /\ RecordInv /\ ReplayInv => ReplayFaithful
  <2> SUFFICES ASSUME Types, RecordInv, ReplayInv, Running
               PROVE  /\ ~ AtJump /\ ~ AtEnd => Agrees(slice.ev[rk])
                      /\ rk > 1 => /\ ra0 = slice.ev[rk - 1].a0
                                   /\ rval = slice.ev[rk - 1].val
    BY DEF ReplayFaithful
  <2>1. RunInv
    BY RunInvFacts
  <2>2. ~ AtJump /\ ~ AtEnd => Agrees(slice.ev[rk])
    BY <2>1, InstAgrees
  <2>3. rk > 1 => ra0 = slice.ev[rk - 1].a0 /\ rval = slice.ev[rk - 1].val
    <3>1. ra0 = A0At(slice.ev, slice.a0, rk) /\ (rk > 1 => rval = slice.ev[rk - 1].val)
      BY <2>1 DEF RunInv
    <3> QED  BY <3>1 DEF A0At
  <2> QED  BY <2>2, <2>3
<1> QED  BY <1>1, AllInvariant, PTL

(* For every replayable guest: a replay meets REPLAY_EXIT at the recorded   *)
(* breakpoint and nowhere else, for all five kinds of breakpoint.           *)
THEOREM ReplayStops ==
  ASSUME Replayable
  PROVE  Spec => []ReplayStopsAtBreak
<1>1. Types /\ RecordInv /\ ReplayInv => ReplayStopsAtBreak
  <2> SUFFICES ASSUME Types, RecordInv, ReplayInv, Running, ~ Tracing
               PROVE  /\ AtEnd => AtJump
                      /\ AtJump => rpos < Len(rtab) /\ (NextCall.brk <=> AtEnd)
    BY DEF ReplayStopsAtBreak
  <2>1. RunInv
    BY RunInvFacts
  <2>2. AtEnd => AtJump /\ rpos < Len(rtab) /\ NextCall.brk
    BY <2>1, LastCallIs DEF BreakCall
  <2>3. ~ AtEnd /\ AtJump => rpos < Len(rtab) /\ NextCall.brk = FALSE
    BY <2>1, NextCallIs
  <2> QED  BY <2>2, <2>3
<1> QED  BY <1>1, AllInvariant, PTL

(* For every replayable guest: check_stores finds no wrong value, whatever  *)
(* stores collide in the hash table of the trace.                           *)
THEOREM AssertionsHold ==
  ASSUME Replayable
  PROVE  Spec => []StoreAssertionsHold
<1>1. Types /\ RecordInv /\ ReplayInv => StoreAssertionsHold
  <2>1. Types => (rstat # "none" => phase = "replay")
    BY DEF Types, ReplayType
  <2> QED  BY <2>1 DEF ReplayInv, StoreAssertionsHold
<1> QED  BY <1>1, AllInvariant, PTL

(* For every replayable guest: parse.py finds the breakpoint in the rerun   *)
(* of the first image before the image runs past it.                        *)
THEOREM RerunFinds ==
  ASSUME Replayable
  PROVE  Spec => []RerunFindsBreak
<1>1. Types /\ RecordInv /\ ReplayInv => RerunFindsBreak
  BY RunInvFacts, RerunStops DEF RerunFindsBreak
<1> QED  BY <1>1, AllInvariant, PTL
=============================================================================
