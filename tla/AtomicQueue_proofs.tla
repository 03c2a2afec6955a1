------------------------- MODULE AtomicQueue_proofs -------------------------
(***************************************************************************)
(* The atomic queue: the critical section of a side is exclusive, and with *)
(* one producer and one consumer the ring implements a bounded first-in    *)
(* first-out queue, for every capacity, width of the version and number of *)
(* calls, as long as the offset does not wrap.                             *)
(***************************************************************************)
EXTENDS AtomicQueue, TLAPS, FiniteSetTheorems, SequenceTheorems

(***************************************************************************)
(* Remainders.                                                             *)
(***************************************************************************)
LEMMA ModRange ==
  ASSUME NEW n \in Nat \ {0}, NEW a \in Nat
  PROVE  a % n \in 0 .. n - 1
OBVIOUS

LEMMA ModSmall ==
  ASSUME NEW n \in Nat \ {0}, NEW a \in 0 .. n - 1
  PROVE  a % n = a
OBVIOUS

LEMMA DivMod ==
  ASSUME NEW n \in Nat \ {0}, NEW a \in Nat 
  PROVE \E q \in Nat : a = n * q + (a % n)
<1>1. a \div n \in Int /\ a = n * (a \div n) + (a % n)
  OBVIOUS
<1>2. a \div n \in Nat
  BY <1>1
<1> QED BY <1>1, <1>2

LEMMA Multiple ==
  ASSUME NEW n \in Nat \ {0}, NEW q \in Int, NEW s \in Int, q < s
  PROVE  n * q + n <= n * s
<1>1. PICK d \in Nat : s = q + 1 + d
  <2>1. s - q - 1 \in Nat /\ s = q + 1 + (s - q - 1)
    OBVIOUS
  <2> QED  BY <2>1
<1>2. n * s = n * q + n + n * d
  BY <1>1
<1>3. n * d \in Nat
  OBVIOUS
<1> QED  BY <1>2, <1>3

LEMMA ModUnique ==
  ASSUME NEW n \in Nat \ {0}, NEW q \in Int, NEW s \in Int,
         NEW r \in 0 .. n - 1, NEW u \in 0 .. n - 1, n * q + r = n * s + u
  PROVE  r = u
<1> DEFINE nq == n * q
           ns == n * s
<1>1. nq \in Int /\ ns \in Int /\ nq + r = ns + u
  OBVIOUS
<1>2. CASE q < s
  <2>1. nq + n <= ns
    BY <1>2, Multiple
  <2> HIDE DEF nq, ns
  <2> QED  BY <1>1, <2>1
<1>3. CASE s < q
  <2>1. ns + n <= nq
    BY <1>3, Multiple
  <2> HIDE DEF nq, ns
  <2> QED  BY <1>1, <2>1
<1>4. CASE s = q
  <2>1. nq = ns
    BY <1>4
  <2> HIDE DEF nq, ns
  <2> QED  BY <1>1, <2>1
<1> QED  BY <1>2, <1>3, <1>4

LEMMA ModShift ==
  ASSUME NEW n \in Nat \ {0}, NEW a \in Nat
  PROVE  (n + a) % n = a % n
<1>1. PICK q \in Nat : a = n * q + (a % n)
  BY DivMod
<1>2. PICK s \in Nat : n + a = n * s + ((n + a) % n)
  <2>1. n + a \in Nat
    OBVIOUS
  <2> QED  BY <2>1, DivMod
<1> DEFINE r == a % n
           u == (n + a) % n
<1>3. r \in 0 .. n - 1 /\ u \in 0 .. n - 1
  BY ModRange
<1> HIDE DEF r, u
<1>4. a = n * q + r /\ n + a = n * s + u
  BY <1>1, <1>2 DEF r, u
<1>5. n * (q + 1) + r = n * s + u
  BY <1>3, <1>4
<1>6. q + 1 \in Int /\ s \in Int
  OBVIOUS
<1> QED  BY <1>3, <1>5, <1>6, ModUnique DEF r, u

LEMMA ModApart ==
  ASSUME NEW n \in Nat \ {0}, NEW i \in Nat, NEW j \in Nat, i < j, j < i + n
  PROVE  i % n # j % n
<1> SUFFICES ASSUME i % n = j % n  PROVE FALSE
  OBVIOUS
<1> DEFINE r == i % n
<1>1. PICK q \in Nat : i = n * q + r
  BY DivMod
<1>2. PICK s \in Nat : j = n * s + r
  BY DivMod
<1>3. r \in Nat
  BY ModRange
<1> HIDE DEF r
<1> DEFINE nq == n * q
           ns == n * s
<1>4. nq \in Int /\ ns \in Int /\ i = nq + r /\ j = ns + r
  BY <1>1, <1>2
<1>5. q < s => nq + n <= ns
  BY Multiple
<1>6. s < q => ns + n <= nq
  BY Multiple
<1>7. s = q => ns = nq
  OBVIOUS
<1> HIDE DEF nq, ns
<1> QED  BY <1>3, <1>4, <1>5, <1>6, <1>7

(***************************************************************************)
(* Types.                                                                  *)
(***************************************************************************)
Ends == {"back", "front"}
Versions == 0..(VersionLimit - 1)
Offsets == 0..(OffsetLimit - 1)
Words == [version : Versions, offset : Offsets]
Local == [elem : 0..MaxPush, other : Offsets, counter : Versions,
          offset : Offsets, spin : 0..(SpinLimit - 1)]
Stages == {"idle", "counter", "version", "exchange", "move", "publish", "size"}
Results == {"none", "ok", "limit", "spun"}

(* TypeOK, and: a producer has an element to push while it is in a call,   *)
(* and never asks for the size.                                            *)
TypeInv ==
    /\ vec \in [0..(Size - 1) -> 0..MaxPush]
    /\ counter \in [Ends -> Versions] /\ version \in [Ends -> Words]
    /\ pc \in [Threads -> Stages] /\ loc \in [Threads -> Local]
    /\ result \in [Threads -> Results]
    /\ calls \in 0..MaxPush
    /\ sent \in Seq(1..MaxPush) /\ got \in Seq(0..MaxPush)
    /\ avail \in [Threads -> BOOLEAN] /\ sawLimit \in [Threads -> BOOLEAN]
    /\ \A t \in Producers : /\ pc[t] # "size"
                            /\ pc[t] # "idle" => loc[t].elem \in 1..MaxPush

(* What thread t does in a step. *)
Step(t) == PushBack(t) \/ PopFront(t) \/ SizeCall(t)

(* The constants as numbers. *)
LEMMA Numbers ==
    /\ Size \in Nat \ {0} /\ VersionLimit \in Nat \ {0}
    /\ OffsetLimit \in Nat \ {0} /\ Size < OffsetLimit
    /\ SpinLimit \in Nat \ {0} /\ MaxPush \in Nat
    /\ Producers \cap Consumers = {}
BY AtomicQueueAssumption DEF AtomicQueueAssumption

LEMMA TypeInvTypeOK == TypeInv => TypeOK
BY DEF TypeInv, TypeOK, Ends, Versions, Offsets, Words, Local, Stages, Results

LEMMA InitType == Init => TypeInv
<1> SUFFICES ASSUME Init  PROVE TypeInv
  OBVIOUS
<1> USE Numbers
<1>1. version \in [Ends -> Words]
  BY DEF Init, Ends, Words, Versions, Offsets
<1>2. loc \in [Threads -> Local]
  BY DEF Init, NoCall, Local, Versions, Offsets
<1>3. sent \in Seq(1..MaxPush) /\ got \in Seq(0..MaxPush)
  BY DEF Init
<1>4. counter \in [Ends -> Versions]
  BY DEF Init, Ends, Versions
<1>5. /\ vec \in [0..(Size - 1) -> 0..MaxPush] /\ calls \in 0..MaxPush
      /\ pc \in [Threads -> Stages] /\ result \in [Threads -> Results]
      /\ avail \in [Threads -> BOOLEAN] /\ sawLimit \in [Threads -> BOOLEAN]
  BY DEF Init, Stages, Results
<1>6. \A t \in Producers : pc[t] = "idle"
  BY DEF Init, Threads
<1> QED  BY <1>1, <1>2, <1>3, <1>4, <1>5, <1>6 DEF TypeInv

(* The local variables of a thread, one by one. *)
LEMMA LocalFields ==
  ASSUME NEW r \in Local
  PROVE  /\ r.elem \in 0..MaxPush /\ r.other \in Offsets
         /\ r.counter \in Versions /\ r.offset \in Offsets
         /\ r.spin \in 0..(SpinLimit - 1)
BY DEF Local

LEMMA SetElem ==
  ASSUME NEW r \in Local, NEW v \in 0..MaxPush
  PROVE  /\ [r EXCEPT !.elem = v] \in Local /\ [r EXCEPT !.elem = v].elem = v
         /\ [r EXCEPT !.elem = v].other = r.other
         /\ [r EXCEPT !.elem = v].counter = r.counter
         /\ [r EXCEPT !.elem = v].offset = r.offset
BY DEF Local

LEMMA SetOther ==
  ASSUME NEW r \in Local, NEW v \in Offsets
  PROVE  /\ [r EXCEPT !.other = v] \in Local /\ [r EXCEPT !.other = v].other = v
         /\ [r EXCEPT !.other = v].elem = r.elem
BY DEF Local

LEMMA SetCounter ==
  ASSUME NEW r \in Local, NEW v \in Versions
  PROVE  /\ [r EXCEPT !.counter = v] \in Local
         /\ [r EXCEPT !.counter = v].counter = v
         /\ [r EXCEPT !.counter = v].elem = r.elem
         /\ [r EXCEPT !.counter = v].other = r.other
BY DEF Local

LEMMA SetOffset ==
  ASSUME NEW r \in Local, NEW v \in Offsets
  PROVE  /\ [r EXCEPT !.offset = v] \in Local /\ [r EXCEPT !.offset = v].offset = v
         /\ [r EXCEPT !.offset = v].elem = r.elem
         /\ [r EXCEPT !.offset = v].other = r.other
         /\ [r EXCEPT !.offset = v].counter = r.counter
BY DEF Local

LEMMA SetSpin ==
  ASSUME NEW r \in Local, NEW v \in 0..(SpinLimit - 1)
  PROVE  /\ [r EXCEPT !.spin = v] \in Local
         /\ [r EXCEPT !.spin = v].elem = r.elem
BY DEF Local

(***************************************************************************)
(* What each step does, thread by thread.                                  *)
(***************************************************************************)
(* Only thread t has moved. *)
Alone(t) ==
    /\ pc' \in [Threads -> Stages] /\ loc' \in [Threads -> Local]
    /\ \A u \in Threads \ {t} : pc'[u] = pc[u] /\ loc'[u] = loc[u]

LEMMA AloneBy ==
  ASSUME TypeInv, NEW t \in Threads, NEW s \in Stages, NEW r \in Local,
         pc' = [pc EXCEPT ![t] = s], loc' = [loc EXCEPT ![t] = r]
  PROVE  Alone(t) /\ pc'[t] = s /\ loc'[t] = r
BY DEF TypeInv, Alone

LEMMA ReturnDoes ==
  ASSUME TypeInv, NEW t \in Threads, NEW how \in Results, Return(t, how)
  PROVE  /\ Alone(t) /\ pc'[t] = "idle" /\ loc'[t] = NoCall
         /\ result' \in [Threads -> Results] /\ result'[t] = how
         /\ \A u \in Threads \ {t} : result'[u] = result[u]
<1>1. "idle" \in Stages /\ NoCall \in Local
  BY Numbers DEF NoCall, Local, Offsets, Versions, Stages
<1>2. Alone(t) /\ pc'[t] = "idle" /\ loc'[t] = NoCall
  <2> HIDE DEF NoCall
  <2> QED  BY <1>1, AloneBy DEF Return
<1> QED  BY <1>2 DEF Return, TypeInv

LEMMA RetryDoes ==
  ASSUME TypeInv, NEW t \in Threads, Retry(t)
  PROVE  /\ Alone(t) /\ pc'[t] \in {"idle", "counter"}
         /\ pc'[t] = "counter" => loc'[t].elem = loc[t].elem
         /\ result' \in [Threads -> Results] /\ avail' \in [Threads -> BOOLEAN]
<1>1. CASE loc[t].spin + 1 < SpinLimit
  <2> DEFINE r == [loc[t] EXCEPT !.spin = loc[t].spin + 1]
  <2>1. loc[t] \in Local /\ loc[t].spin + 1 \in 0..(SpinLimit - 1)
    BY <1>1, LocalFields, Numbers DEF TypeInv
  <2>2. r \in Local /\ r.elem = loc[t].elem
    BY <2>1, SetSpin
  <2>3. loc' = [loc EXCEPT ![t] = r]
    BY <1>1 DEF Retry
  <2> HIDE DEF r
  <2>4. pc' = [pc EXCEPT ![t] = "counter"] /\ "counter" \in Stages
    BY <1>1 DEF Retry, Stages
  <2> QED  BY <1>1, <2>2, <2>3, <2>4, AloneBy DEF Retry, TypeInv
<1>2. CASE ~(loc[t].spin + 1 < SpinLimit)
  <2>1. Return(t, "spun") /\ avail' = [avail EXCEPT ![t] = FALSE]
    BY <1>2 DEF Retry
  <2> QED  BY <2>1, ReturnDoes DEF Results, TypeInv
<1> QED  BY <1>1, <1>2

LEMMA BeginDoes ==
  ASSUME TypeInv, NEW t \in Threads, BeginPush(t) \/ BeginPop(t)
  PROVE  /\ pc[t] = "idle" /\ Alone(t) /\ pc'[t] = "counter"
         /\ loc'[t].elem \in 0..MaxPush
         /\ t \in Producers => loc'[t].elem \in 1..MaxPush
         /\ loc'[t].other = version[OtherSide(t)].offset
         /\ calls' \in 0..MaxPush
         /\ calls' = IF t \in Producers THEN calls + 1 ELSE calls
         /\ result' = [result EXCEPT ![t] = "none"]
         /\ sawLimit' = [sawLimit EXCEPT ![t] =
                  Len(sent) - Len(got) = IF t \in Producers THEN Size ELSE 0]
         /\ UNCHANGED <<vec, counter, version, sent, got, avail>>
<1>1. PICK e \in 0..MaxPush : Begin(t, e) /\ (t \in Producers => e \in 1..MaxPush)
  <2>1. CASE BeginPush(t)
    <3>1. calls + 1 \in 1..MaxPush /\ Begin(t, calls + 1)
      BY <2>1, Numbers DEF BeginPush, TypeInv
    <3> QED  BY <3>1
  <2>2. CASE BeginPop(t)
    BY <2>2, Numbers DEF BeginPop
  <2> QED  BY <2>1, <2>2
<1>2. /\ calls' \in 0..MaxPush
      /\ calls' = IF t \in Producers THEN calls + 1 ELSE calls
  BY Numbers DEF BeginPush, BeginPop, TypeInv
<1>3. version[OtherSide(t)].offset \in Offsets
  BY DEF OtherSide, TypeInv, Ends, Words
<1> DEFINE v == version[OtherSide(t)].offset
           q == [NoCall EXCEPT !.elem = e]
           r == [q EXCEPT !.other = v]
<1>4. NoCall \in Local
  BY Numbers DEF NoCall, Local, Offsets, Versions
<1>5. loc' = [loc EXCEPT ![t] = r]
  BY <1>1 DEF Begin
<1>8. q \in Local /\ q.elem = e
  BY <1>4, SetElem
<1> HIDE DEF q
<1>9. r \in Local /\ r.elem = e /\ r.other = v
  BY <1>3, <1>8, SetOther
<1> HIDE DEF r
<1>6. pc' = [pc EXCEPT ![t] = "counter"] /\ "counter" \in Stages
  BY <1>1 DEF Begin, Stages
<1>7. Alone(t) /\ pc'[t] = "counter" /\ loc'[t] = r
  BY <1>5, <1>6, <1>9, AloneBy
<1> QED  BY <1>1, <1>2, <1>7, <1>9 DEF Begin

LEMMA LoadCounterDoes ==
  ASSUME TypeInv, NEW t \in Threads, LoadCounter(t)
  PROVE  /\ pc[t] = "counter" /\ Alone(t) /\ pc'[t] = "version"
         /\ loc'[t].elem = loc[t].elem /\ loc'[t].other = loc[t].other
         /\ loc'[t].counter = counter[Side(t)]
         /\ UNCHANGED <<vec, counter, version, result, calls, sent, got, avail,
                        sawLimit>>
<1> DEFINE r == [loc[t] EXCEPT !.counter = counter[Side(t)]]
<1>1. loc[t] \in Local /\ counter[Side(t)] \in Versions
  BY DEF TypeInv, Side, Ends
<1>2. /\ r \in Local /\ r.elem = loc[t].elem /\ r.other = loc[t].other
      /\ r.counter = counter[Side(t)]
  BY <1>1, SetCounter
<1>3. loc' = [loc EXCEPT ![t] = r]
  BY DEF LoadCounter
<1>4. pc' = [pc EXCEPT ![t] = "version"] /\ "version" \in Stages
  BY DEF LoadCounter, Stages
<1> HIDE DEF r
<1>5. Alone(t) /\ pc'[t] = "version" /\ loc'[t] = r
  BY <1>2, <1>3, <1>4, AloneBy
<1> QED  BY <1>2, <1>5 DEF LoadCounter

(* The three ways a call goes on after it has loaded the version. *)
Mismatch(t) ==
    /\ version[Side(t)].version # loc[t].counter
    /\ Retry(t)

AtEnd(t) ==
    /\ version[Side(t)].version = loc[t].counter
    /\ AtLimit(t, version[Side(t)].offset, loc[t].other)
    /\ Return(t, "limit") /\ UNCHANGED avail

Proceeds(t) ==
    /\ version[Side(t)].version = loc[t].counter
    /\ ~AtLimit(t, version[Side(t)].offset, loc[t].other)
    /\ Alone(t) /\ pc'[t] = "exchange"
    /\ loc'[t].elem = loc[t].elem /\ loc'[t].other = loc[t].other
    /\ loc'[t].counter = loc[t].counter
    /\ loc'[t].offset = version[Side(t)].offset
    /\ UNCHANGED <<result, avail>>

LEMMA LoadVersionDoes ==
  ASSUME TypeInv, NEW t \in Threads, LoadVersion(t)
  PROVE  /\ pc[t] = "version"
         /\ Mismatch(t) \/ AtEnd(t) \/ Proceeds(t)
         /\ UNCHANGED <<vec, counter, version, calls, sent, got, sawLimit>>
<1> DEFINE v == version[Side(t)]
<1>1. /\ pc[t] = "version"
      /\ UNCHANGED <<vec, counter, version, calls, sent, got, sawLimit>>
  BY DEF LoadVersion
<1>2. CASE v.version # loc[t].counter
  BY <1>1, <1>2 DEF LoadVersion, UnpackOffsets, Mismatch
<1>3. CASE v.version = loc[t].counter /\ AtLimit(t, v.offset, loc[t].other)
  BY <1>1, <1>3 DEF LoadVersion, UnpackOffsets, AtEnd
<1>4. CASE v.version = loc[t].counter /\ ~AtLimit(t, v.offset, loc[t].other)
  <2> DEFINE r == [loc[t] EXCEPT !.offset = v.offset]
  <2>1. loc[t] \in Local /\ v.offset \in Offsets
    BY DEF TypeInv, Side, Ends, Words
  <2>2. /\ r \in Local /\ r.elem = loc[t].elem /\ r.other = loc[t].other
        /\ r.counter = loc[t].counter /\ r.offset = v.offset
    BY <2>1, SetOffset
  <2>3. loc' = [loc EXCEPT ![t] = r]
    BY <1>4 DEF LoadVersion, UnpackOffsets
  <2>4. /\ pc' = [pc EXCEPT ![t] = "exchange"] /\ "exchange" \in Stages
        /\ UNCHANGED <<result, avail>>
    BY <1>4 DEF LoadVersion, UnpackOffsets, Stages
  <2> HIDE DEF r
  <2>5. Alone(t) /\ pc'[t] = "exchange" /\ loc'[t] = r
    BY <2>2, <2>3, <2>4, AloneBy
  <2> QED  BY <1>1, <1>4, <2>2, <2>4, <2>5 DEF Proceeds
<1> QED  BY <1>2, <1>3, <1>4

(* The exchange fails, or lets the thread into the critical section. *)
Beaten(t) ==
    /\ counter[Side(t)] # loc[t].counter
    /\ Retry(t) /\ UNCHANGED counter

Enters(t) ==
    /\ counter[Side(t)] = loc[t].counter
    /\ counter' \in [Ends -> Versions]
    /\ counter'[Side(t)] = (loc[t].counter + 1) % VersionLimit
    /\ \A s \in Ends : s # Side(t) => counter'[s] = counter[s]
    /\ Alone(t) /\ pc'[t] = "move" /\ loc' = loc
    /\ UNCHANGED <<result, avail>>

LEMMA ExchangeDoes ==
  ASSUME TypeInv, NEW t \in Threads, Exchange(t)
  PROVE  /\ pc[t] = "exchange"
         /\ Beaten(t) \/ Enters(t)
         /\ UNCHANGED <<vec, version, calls, sent, got, sawLimit>>
<1>1. /\ pc[t] = "exchange"
      /\ UNCHANGED <<vec, version, calls, sent, got, sawLimit>>
  BY DEF Exchange
<1>2. CASE counter[Side(t)] # loc[t].counter
  BY <1>1, <1>2 DEF Exchange, Beaten
<1>3. CASE counter[Side(t)] = loc[t].counter
  <2> DEFINE c == (loc[t].counter + 1) % VersionLimit
  <2>1. c \in Versions
    <3>1. loc[t].counter + 1 \in Nat
      BY LocalFields, Numbers DEF TypeInv, Versions
    <3> QED  BY <3>1, ModRange, Numbers DEF Versions
  <2>2. /\ counter' = [counter EXCEPT ![Side(t)] = c]
        /\ pc' = [pc EXCEPT ![t] = "move"] /\ loc' = loc
        /\ UNCHANGED <<result, avail>>
    BY <1>3 DEF Exchange
  <2>3. Side(t) \in Ends
    BY DEF Side, Ends
  <2>4. Alone(t) /\ pc'[t] = "move"
    BY <2>2 DEF TypeInv, Alone, Stages
  <2>5. c = (loc[t].counter + 1) % VersionLimit
    OBVIOUS
  <2> HIDE DEF c
  <2>6. /\ counter' \in [Ends -> Versions] /\ counter'[Side(t)] = c
        /\ \A s \in Ends : s # Side(t) => counter'[s] = counter[s]
    BY <2>1, <2>2, <2>3 DEF TypeInv
  <2> QED  BY <1>1, <1>3, <2>2, <2>4, <2>5, <2>6 DEF Enters
<1> QED  BY <1>2, <1>3

LEMMA MoveElemDoes ==
  ASSUME TypeInv, NEW t \in Threads, MoveElem(t)
  PROVE  /\ pc[t] = "move" /\ Alone(t) /\ pc'[t] = "publish"
         /\ loc'[t].other = loc[t].other /\ loc'[t].counter = loc[t].counter
         /\ loc'[t].offset = loc[t].offset
         /\ Slot(t) \in 0..(Size - 1)
         /\ vec' \in [0..(Size - 1) -> 0..MaxPush]
         /\ t \in Producers => /\ vec' = [vec EXCEPT ![Slot(t)] = loc[t].elem]
                               /\ loc'[t].elem = loc[t].elem
         /\ t \notin Producers => vec' = vec /\ loc'[t].elem = vec[Slot(t)]
         /\ UNCHANGED <<counter, version, result, calls, sent, got, avail, sawLimit>>
<1>1. Slot(t) \in 0..(Size - 1)
  <2>1. loc[t].offset \in Nat
    BY LocalFields, Numbers DEF TypeInv, Offsets
  <2> QED  BY <2>1, ModRange, Numbers DEF Slot
<1>2. pc' = [pc EXCEPT ![t] = "publish"] /\ "publish" \in Stages /\ loc[t] \in Local
  BY DEF MoveElem, TypeInv, Stages
<1>3. CASE t \in Producers
  <2>1. vec' = [vec EXCEPT ![Slot(t)] = loc[t].elem] /\ loc' = loc
    BY <1>3 DEF MoveElem
  <2>2. loc' = [loc EXCEPT ![t] = loc[t]]
    BY <2>1 DEF TypeInv
  <2>3. Alone(t) /\ pc'[t] = "publish" /\ loc'[t] = loc[t]
    BY <1>2, <2>2, AloneBy
  <2>4. loc[t].elem \in 0..MaxPush
    BY <1>2, LocalFields
  <2>5. vec' \in [0..(Size - 1) -> 0..MaxPush]
    BY <1>1, <2>1, <2>4 DEF TypeInv
  <2> QED  BY <1>1, <1>3, <2>1, <2>3, <2>5 DEF MoveElem
<1>4. CASE t \notin Producers
  <2> DEFINE r == [loc[t] EXCEPT !.elem = vec[Slot(t)]]
  <2>1. vec' = vec /\ loc' = [loc EXCEPT ![t] = r]
    BY <1>4 DEF MoveElem
  <2>2. vec[Slot(t)] \in 0..MaxPush
    BY <1>1 DEF TypeInv
  <2>3. /\ r \in Local /\ r.elem = vec[Slot(t)] /\ r.other = loc[t].other
        /\ r.counter = loc[t].counter /\ r.offset = loc[t].offset
    BY <1>2, <2>2, SetElem
  <2> HIDE DEF r
  <2>4. Alone(t) /\ pc'[t] = "publish" /\ loc'[t] = r
    BY <1>2, <2>1, <2>3, AloneBy
  <2> QED  BY <1>1, <1>4, <2>1, <2>3, <2>4 DEF MoveElem, TypeInv
<1> QED  BY <1>3, <1>4

LEMMA PublishDoes ==
  ASSUME TypeInv, NEW t \in Threads, Publish(t)
  PROVE  /\ pc[t] = "publish" /\ Alone(t) /\ pc'[t] = "idle"
         /\ version' \in [Ends -> Words]
         /\ version'[Side(t)].version = (loc[t].counter + 1) % VersionLimit
         /\ version'[Side(t)].offset = (loc[t].offset + 1) % OffsetLimit
         /\ \A s \in Ends : s # Side(t) => version'[s] = version[s]
         /\ loc[t].elem \in 0..MaxPush
         /\ t \in Producers => /\ loc[t].elem \in 1..MaxPush
                               /\ sent' = Append(sent, loc[t].elem) /\ got' = got
         /\ t \notin Producers => got' = Append(got, loc[t].elem) /\ sent' = sent
         /\ result' \in [Threads -> Results] /\ result'[t] = "ok"
         /\ \A u \in Threads \ {t} : result'[u] = result[u]
         /\ avail' = [avail EXCEPT ![t] = FALSE]
         /\ UNCHANGED <<vec, counter, calls, sawLimit>>
<1>1. Return(t, "ok") /\ "ok" \in Results /\ pc[t] = "publish"
  BY DEF Publish, Results
<1> DEFINE w == NewVersion(t)
<1>2. /\ w \in Words /\ w.version = (loc[t].counter + 1) % VersionLimit
      /\ w.offset = (loc[t].offset + 1) % OffsetLimit
  <2>1. loc[t].counter + 1 \in Nat /\ loc[t].offset + 1 \in Nat
    BY LocalFields, Numbers DEF TypeInv, Versions, Offsets
  <2>2. /\ (loc[t].counter + 1) % VersionLimit \in Versions
        /\ (loc[t].offset + 1) % OffsetLimit \in Offsets
    BY <2>1, ModRange, Numbers DEF Versions, Offsets
  <2> QED  BY <2>2 DEF NewVersion, Words
<1>3. Side(t) \in Ends
  BY DEF Side, Ends
<1>4. version' = [version EXCEPT ![Side(t)] = w]
  BY DEF Publish
<1> HIDE DEF w
<1>5. /\ version' \in [Ends -> Words] /\ version'[Side(t)] = w
      /\ \A s \in Ends : s # Side(t) => version'[s] = version[s]
  BY <1>2, <1>3, <1>4 DEF TypeInv
<1>6. loc[t].elem \in 0..MaxPush /\ (t \in Producers => loc[t].elem \in 1..MaxPush)
  BY <1>1, LocalFields DEF TypeInv
<1> QED  BY <1>1, <1>2, <1>5, <1>6, ReturnDoes DEF Publish

LEMMA SizeDoes ==
  ASSUME TypeInv, NEW t \in Threads, SizeCall(t)
  PROVE  /\ pc[t] \in {"idle", "size"} /\ Alone(t) /\ pc'[t] \in {"idle", "size"}
         /\ t \in Consumers
         /\ SizeReadsBack(t) => /\ pc'[t] = "size"
                                /\ loc'[t].other = version["back"].offset
                                /\ UNCHANGED <<result, avail>>
         /\ SizeReadsFront(t) =>
              /\ pc[t] = "size" /\ pc'[t] = "idle" /\ result'[t] = "none"
              /\ \A u \in Threads \ {t} : result'[u] = result[u]
              /\ avail' = [avail EXCEPT ![t] =
                             SizeOf(loc[t].other, version["front"].offset) > 0]
         /\ result' \in [Threads -> Results] /\ avail' \in [Threads -> BOOLEAN]
         /\ UNCHANGED <<vec, counter, version, calls, sent, got, sawLimit>>
<1>1. CASE SizeReadsBack(t)
  <2> DEFINE r == [loc[t] EXCEPT !.other = version["back"].offset]
  <2>1. loc[t] \in Local /\ version["back"].offset \in Offsets
    BY DEF TypeInv, Ends, Words
  <2>2. r \in Local /\ r.other = version["back"].offset
    BY <2>1, SetOther
  <2>3. loc' = [loc EXCEPT ![t] = r]
    BY <1>1 DEF SizeReadsBack
  <2>4. pc' = [pc EXCEPT ![t] = "size"] /\ "size" \in Stages
    BY <1>1 DEF SizeReadsBack, Stages
  <2> HIDE DEF r
  <2>5. Alone(t) /\ pc'[t] = "size" /\ loc'[t] = r
    BY <2>2, <2>3, <2>4, AloneBy
  <2>6. pc[t] = "idle" /\ t \in Consumers /\ ~SizeReadsFront(t)
    BY <1>1 DEF SizeReadsBack, SizeReadsFront
  <2> QED  BY <1>1, <2>2, <2>5, <2>6 DEF SizeReadsBack, TypeInv
<1>2. CASE SizeReadsFront(t)
  <2>1. Return(t, "none") /\ "none" \in Results /\ pc[t] = "size"
    BY <1>2 DEF SizeReadsFront, Results
  <2>2. t \in Consumers /\ ~SizeReadsBack(t)
    BY <2>1 DEF TypeInv, Threads, SizeReadsBack
  <2> DEFINE b == SizeOf(loc[t].other, version["front"].offset) > 0
  <2>3. avail' = [avail EXCEPT ![t] = b] /\ b \in BOOLEAN
    BY <1>2 DEF SizeReadsFront
  <2>4. avail' \in [Threads -> BOOLEAN]
    <3> HIDE DEF b
    <3> QED  BY <2>3, Zenon DEF TypeInv
  <2>5. UNCHANGED <<vec, counter, version, calls, sent, got, sawLimit>>
    BY <1>2 DEF SizeReadsFront
  <2> QED  BY <2>1, <2>2, <2>3, <2>4, <2>5, ReturnDoes
<1> QED  BY <1>1, <1>2 DEF SizeCall

(***************************************************************************)
(* Types are kept.                                                         *)
(***************************************************************************)
LEMMA TypeFrom ==
  ASSUME TypeInv, NEW t \in Threads, Alone(t),
         t \in Producers => /\ pc'[t] # "size"
                            /\ pc'[t] # "idle" => loc'[t].elem \in 1..MaxPush,
         vec' \in [0..(Size - 1) -> 0..MaxPush],
         counter' \in [Ends -> Versions], version' \in [Ends -> Words],
         result' \in [Threads -> Results], calls' \in 0..MaxPush,
         sent' \in Seq(1..MaxPush), got' \in Seq(0..MaxPush),
         avail' \in [Threads -> BOOLEAN], sawLimit' \in [Threads -> BOOLEAN]
  PROVE  TypeInv'
<1>1. \A u \in Producers : /\ pc'[u] # "size"
                           /\ pc'[u] # "idle" => loc'[u].elem \in 1..MaxPush
  BY DEF TypeInv, Alone, Threads
<1> QED  BY <1>1 DEF TypeInv, Alone

LEMMA StepType ==
  ASSUME TypeInv, NEW t \in Threads, Step(t)
  PROVE  TypeInv'
<1>1. CASE BeginPush(t) \/ BeginPop(t)
  <2> DEFINE b == (Len(sent) - Len(got) = IF t \in Producers THEN Size ELSE 0)
  <2>1. sawLimit' = [sawLimit EXCEPT ![t] = b] /\ b \in BOOLEAN
    BY <1>1, BeginDoes
  <2>2. sawLimit' \in [Threads -> BOOLEAN]
    <3> HIDE DEF b
    <3> QED  BY <2>1, Zenon DEF TypeInv
  <2>3. result' \in [Threads -> Results]
    BY <1>1, BeginDoes DEF TypeInv, Results
  <2>4. /\ Alone(t) /\ pc'[t] = "counter" /\ calls' \in 0..MaxPush
        /\ t \in Producers => loc'[t].elem \in 1..MaxPush
        /\ UNCHANGED <<vec, counter, version, sent, got, avail>>
    BY <1>1, BeginDoes
  <2> QED  BY <2>2, <2>3, <2>4, TypeFrom DEF TypeInv
<1>2. CASE LoadCounter(t)
  <2>1. t \in Producers => loc[t].elem \in 1..MaxPush
    BY <1>2, LoadCounterDoes DEF TypeInv
  <2> QED  BY <1>2, <2>1, LoadCounterDoes, TypeFrom DEF TypeInv
<1>3. CASE LoadVersion(t)
  <2>1. t \in Producers => loc[t].elem \in 1..MaxPush
    BY <1>3, LoadVersionDoes DEF TypeInv
  <2>2. UNCHANGED <<vec, counter, version, calls, sent, got, sawLimit>>
    BY <1>3, LoadVersionDoes
  <2>3. CASE Mismatch(t)
    BY <2>1, <2>2, <2>3, RetryDoes, TypeFrom DEF TypeInv, Mismatch
  <2>4. CASE AtEnd(t)
    <3>1. Return(t, "limit") /\ "limit" \in Results /\ avail' = avail
      BY <2>4 DEF AtEnd, Results
    <3> QED  BY <2>2, <3>1, ReturnDoes, TypeFrom DEF TypeInv
  <2>5. CASE Proceeds(t)
    BY <2>1, <2>2, <2>5, TypeFrom DEF TypeInv, Proceeds
  <2> QED  BY <1>3, <2>3, <2>4, <2>5, LoadVersionDoes
<1>4. CASE Exchange(t)
  <2>1. t \in Producers => loc[t].elem \in 1..MaxPush
    BY <1>4, ExchangeDoes DEF TypeInv
  <2>2. UNCHANGED <<vec, version, calls, sent, got, sawLimit>>
    BY <1>4, ExchangeDoes
  <2>3. CASE Beaten(t)
    BY <2>1, <2>2, <2>3, RetryDoes, TypeFrom DEF TypeInv, Beaten
  <2>4. CASE Enters(t)
    BY <2>1, <2>2, <2>4, TypeFrom DEF TypeInv, Enters
  <2> QED  BY <1>4, <2>3, <2>4, ExchangeDoes
<1>5. CASE MoveElem(t)
  <2>1. t \in Producers => loc[t].elem \in 1..MaxPush
    BY <1>5, MoveElemDoes DEF TypeInv
  <2> QED  BY <1>5, <2>1, MoveElemDoes, TypeFrom DEF TypeInv
<1>6. CASE Publish(t)
  <2>1. sent' \in Seq(1..MaxPush) /\ got' \in Seq(0..MaxPush)
    <3>1. sent \in Seq(1..MaxPush) /\ got \in Seq(0..MaxPush)
      BY DEF TypeInv
    <3>2. CASE t \in Producers
      <4>1. /\ loc[t].elem \in 1..MaxPush /\ got' = got
            /\ sent' = Append(sent, loc[t].elem)
        BY <1>6, <3>2, PublishDoes
      <4> QED  BY <3>1, <4>1
    <3>3. CASE t \notin Producers
      <4>1. /\ loc[t].elem \in 0..MaxPush /\ sent' = sent
            /\ got' = Append(got, loc[t].elem)
        BY <1>6, <3>3, PublishDoes
      <4> QED  BY <3>1, <4>1
    <3> QED  BY <3>2, <3>3
  <2>2. avail' \in [Threads -> BOOLEAN]
    BY <1>6, PublishDoes DEF TypeInv
  <2> QED  BY <1>6, <2>1, <2>2, PublishDoes, TypeFrom DEF TypeInv
<1>7. CASE SizeCall(t)
  <2>1. t \notin Producers
    BY <1>7, SizeDoes, Numbers
  <2> QED  BY <1>7, <2>1, SizeDoes, TypeFrom DEF TypeInv
<1> QED  BY <1>1, <1>2, <1>3, <1>4, <1>5, <1>6, <1>7
         DEF Step, PushBack, PopFront, Loop

LEMMA NextType == TypeInv /\ [Next]_vars => TypeInv'
<1>1. ASSUME TypeInv, UNCHANGED vars  PROVE TypeInv'
  BY <1>1 DEF vars, TypeInv
<1> QED  BY <1>1, StepType DEF Next, Step

LEMMA Types == Spec => []TypeInv
BY InitType, NextType, PTL DEF Spec

(***************************************************************************)
(* The critical sections.                                                  *)
(***************************************************************************)
(* A side has one thread only. *)
Lone(s) == \A t, u \in Threads : Side(t) = s /\ Side(u) = s => t = u

(* When the version tells a push from every other: one consumer, and one   *)
(* producer or fewer pushes than versions.                                 *)
Told ==
    /\ Lone("front")
    /\ \/ Lone("back")
       \/ IsFiniteSet(Producers) /\ MaxPush < VersionLimit /\ 1 < VersionLimit

Current(t) ==
    /\ loc[t].counter = version[Side(t)].version
    /\ loc[t].offset = version[Side(t)].offset

(* A thread in the critical section holds the word it is about to replace, *)
(* and so does a thread whose exchange would succeed; a counter that was   *)
(* loaded earlier is not larger than the counter is now.                   *)
Informed(t) ==
    /\ InCritical(t) => /\ Current(t)
                        /\ counter[Side(t)] = (loc[t].counter + 1) % VersionLimit
    /\ pc[t] = "exchange" /\ loc[t].counter = counter[Side(t)] => Current(t)
    /\ pc[t] \in {"version", "exchange"} =>
         /\ loc[t].counter <= counter[Side(t)]
         /\ Lone(Side(t)) => loc[t].counter = counter[Side(t)]

(* The counter and the version agree when nobody is in the section. *)
Settled(s) ==
    (\A t \in Threads : Side(t) = s => ~InCritical(t))
        => counter[s] = version[s].version

(* Every exchange of counter_back belongs to a push that has begun. *)
Waiting == {t \in Producers : pc[t] \in {"counter", "version", "exchange"}}

Counted == ~Lone("back") => counter["back"] + Cardinality(Waiting) <= calls

SidesInv ==
    /\ \A t \in Threads : Informed(t)
    /\ \A s \in Ends : Settled(s)
    /\ OneInCritical
    /\ Counted

LEMMA SideIsEnd == \A t : Side(t) \in Ends
BY DEF Side, Ends

LEMMA VersionMoves ==
  ASSUME NEW v \in Versions, 1 < VersionLimit
  PROVE  (v + 1) % VersionLimit # v
<1> USE Numbers DEF Versions
<1>1. CASE v + 1 < VersionLimit
  <2>1. v + 1 \in 0..(VersionLimit - 1)
    BY <1>1
  <2>2. (v + 1) % VersionLimit = v + 1
    BY <2>1, ModSmall
  <2> QED  BY <2>2
<1>2. CASE v + 1 = VersionLimit
  <2>1. 0 \in 0..(VersionLimit - 1) /\ 0 \in Nat
    OBVIOUS
  <2>2. (VersionLimit + 0) % VersionLimit = 0
    BY <2>1, ModShift, ModSmall
  <2>3. (v + 1) % VersionLimit = 0
    BY <1>2, <2>2
  <2> QED  BY <1>2, <2>3
<1> QED  BY <1>1, <1>2

LEMMA InitSides == Init => SidesInv
<1> SUFFICES ASSUME Init  PROVE SidesInv
  OBVIOUS
<1>1. \A t \in Threads : pc[t] = "idle"
  BY DEF Init
<1>2. \A s \in Ends : counter[s] = version[s].version
  BY DEF Init, Ends
<1>3. Waiting = {}
  BY <1>1 DEF Waiting, Threads
<1>4. Counted
  BY <1>3, FS_EmptySet DEF Counted, Init
<1> QED  BY <1>1, <1>2, <1>4
         DEF SidesInv, Informed, InCritical, Settled, OneInCritical

(* What a step of t may do to its side, as far as the section goes. *)
Outside(t) ==
    /\ ~InCritical(t) /\ pc'[t] \in {"idle", "counter", "size"}
    /\ UNCHANGED <<counter, version>>

Loads(t) ==
    /\ pc[t] = "counter" /\ pc'[t] = "version"
    /\ loc'[t].counter = counter[Side(t)]
    /\ UNCHANGED <<counter, version>>

Checks(t) == pc[t] = "version" /\ Proceeds(t) /\ UNCHANGED <<counter, version>>

Takes(t) == pc[t] = "exchange" /\ Enters(t) /\ UNCHANGED version

Works(t) ==
    /\ pc[t] = "move" /\ pc'[t] = "publish"
    /\ loc'[t].counter = loc[t].counter /\ loc'[t].offset = loc[t].offset
    /\ UNCHANGED <<counter, version>>

Leaves(t) ==
    /\ pc[t] = "publish" /\ pc'[t] = "idle"
    /\ version'[Side(t)].version = (loc[t].counter + 1) % VersionLimit
    /\ version'[Side(t)].offset = (loc[t].offset + 1) % OffsetLimit
    /\ \A s \in Ends : s # Side(t) => version'[s] = version[s]
    /\ UNCHANGED counter

(* Every step is one of these. *)
LEMMA Kinds ==
  ASSUME TypeInv, NEW t \in Threads, Step(t)
  PROVE  /\ Alone(t)
         /\ \/ Outside(t) \/ Loads(t) \/ Checks(t) \/ Takes(t) \/ Works(t)
            \/ Leaves(t)
<1>1. CASE BeginPush(t) \/ BeginPop(t)
  BY <1>1, BeginDoes DEF Outside, InCritical
<1>2. CASE LoadCounter(t)
  BY <1>2, LoadCounterDoes DEF Loads
<1>3. CASE LoadVersion(t)
  <2>1. pc[t] = "version" /\ UNCHANGED <<counter, version>>
    BY <1>3, LoadVersionDoes
  <2>2. CASE Mismatch(t)
    BY <2>1, <2>2, RetryDoes DEF Mismatch, Outside, InCritical
  <2>3. CASE AtEnd(t)
    <3>1. Return(t, "limit") /\ "limit" \in Results
      BY <2>3 DEF AtEnd, Results
    <3> QED  BY <2>1, <3>1, ReturnDoes DEF Outside, InCritical
  <2>4. CASE Proceeds(t)
    BY <2>1, <2>4 DEF Proceeds, Checks
  <2> QED  BY <1>3, <2>2, <2>3, <2>4, LoadVersionDoes
<1>4. CASE Exchange(t)
  <2>1. pc[t] = "exchange" /\ UNCHANGED version
    BY <1>4, ExchangeDoes
  <2>2. CASE Beaten(t)
    BY <2>1, <2>2, RetryDoes DEF Beaten, Outside, InCritical
  <2>3. CASE Enters(t)
    BY <2>1, <2>3 DEF Enters, Takes
  <2> QED  BY <1>4, <2>2, <2>3, ExchangeDoes
<1>5. CASE MoveElem(t)
  BY <1>5, MoveElemDoes DEF Works
<1>6. CASE Publish(t)
  BY <1>6, PublishDoes DEF Leaves
<1>7. CASE SizeCall(t)
  BY <1>7, SizeDoes DEF Outside, InCritical
<1> QED  BY <1>1, <1>2, <1>3, <1>4, <1>5, <1>6, <1>7
         DEF Step, PushBack, PopFront, Loop

(* The other side sees nothing of a step. *)
LEMMA FarSide ==
  ASSUME TypeInv, \A u \in Threads : Informed(u), \A s \in Ends : Settled(s),
         NEW t \in Threads, Alone(t), NEW s \in Ends, s # Side(t),
         counter'[s] = counter[s], version'[s] = version[s]
  PROVE  /\ \A u \in Threads : Side(u) = s => Informed(u)'
         /\ Settled(s)'
<1>1. \A u \in Threads : Side(u) = s => pc'[u] = pc[u] /\ loc'[u] = loc[u]
  BY DEF Alone
<1>2. ASSUME NEW u \in Threads, Side(u) = s  PROVE Informed(u)'
  BY <1>1, <1>2 DEF Informed, InCritical, Current
<1>3. Settled(s)'
  BY <1>1 DEF Settled, InCritical
<1> QED  BY <1>2, <1>3

(* Outside the section a thread changes nothing for its side. *)
LEMMA OutsideSides ==
  ASSUME TypeInv, SidesInv, NEW t \in Threads, Alone(t),
         Outside(t) \/ Loads(t) \/ Checks(t)
  PROVE  /\ \A u \in Threads : Informed(u)'
         /\ \A s \in Ends : Settled(s)'
         /\ OneInCritical'
<1>1. /\ counter' = counter /\ version' = version /\ ~InCritical(t) /\ ~InCritical(t)'
  BY DEF Outside, Loads, Checks, Proceeds, InCritical
<1>2. \A u \in Threads : InCritical(u)' <=> InCritical(u)
  BY <1>1 DEF Alone, InCritical
<1>3. ASSUME NEW u \in Threads, u # t  PROVE Informed(u)'
  BY <1>1, <1>3 DEF Alone, Informed, SidesInv, InCritical, Current
<1>4. Informed(t)'
  <2>1. counter[Side(t)] \in Int
    BY SideIsEnd, Numbers DEF TypeInv, Versions
  <2>2. CASE Outside(t)
    BY <1>1, <2>2 DEF Informed, Outside
  <2>3. CASE Loads(t)
    BY <1>1, <2>1, <2>3 DEF Informed, Loads
  <2>4. CASE Checks(t)
    BY <1>1, <2>4 DEF Informed, Checks, Proceeds, SidesInv, Current
  <2> QED  BY <2>2, <2>3, <2>4
<1>5. \A s \in Ends : Settled(s)'
  BY <1>1, <1>2 DEF SidesInv, Settled
<1>6. OneInCritical'
  BY <1>2 DEF SidesInv, OneInCritical
<1> QED  BY <1>3, <1>4, <1>5, <1>6

LEMMA WorksSides ==
  ASSUME TypeInv, SidesInv, NEW t \in Threads, Alone(t), Works(t)
  PROVE  /\ \A u \in Threads : Informed(u)'
         /\ \A s \in Ends : Settled(s)'
         /\ OneInCritical'
<1>1. /\ counter' = counter /\ version' = version /\ InCritical(t) /\ InCritical(t)'
  BY DEF Works, InCritical
<1>2. \A u \in Threads : InCritical(u)' <=> InCritical(u)
  BY <1>1 DEF Alone, InCritical
<1>3. ASSUME NEW u \in Threads, u # t  PROVE Informed(u)'
  BY <1>1, <1>3 DEF Alone, Informed, SidesInv, InCritical, Current
<1>4. Informed(t)'
  BY <1>1 DEF Informed, Works, SidesInv, InCritical, Current
<1>5. \A s \in Ends : Settled(s)'
  BY <1>1, <1>2 DEF SidesInv, Settled
<1>6. OneInCritical'
  BY <1>2 DEF SidesInv, OneInCritical
<1> QED  BY <1>3, <1>4, <1>5, <1>6

(* With several producers the counter is still below its limit. *)
LEMMA NoWrap ==
  ASSUME TypeInv, SidesInv, Told, NEW t \in Threads, Takes(t), ~Lone(Side(t))
  PROVE  /\ 1 < VersionLimit
         /\ counter'[Side(t)] = counter[Side(t)] + 1
<1>1. Side(t) = "back" /\ t \in Producers
  BY DEF Told, Side
<1>2. IsFiniteSet(Producers) /\ MaxPush < VersionLimit /\ 1 < VersionLimit
  BY <1>1 DEF Told
<1>3. IsFiniteSet(Waiting) /\ t \in Waiting
  BY <1>1, <1>2, FS_Subset DEF Waiting, Takes
<1>4. Cardinality(Waiting) \in Nat /\ Cardinality(Waiting) # 0
  BY <1>3, FS_CardinalityType, FS_EmptySet
<1>5. /\ counter["back"] \in Nat /\ calls \in Nat /\ calls <= MaxPush
      /\ counter["back"] + Cardinality(Waiting) <= calls
  BY <1>1, Numbers DEF TypeInv, Ends, Versions, SidesInv, Counted
<1>6. counter["back"] + 1 \in 0..(VersionLimit - 1)
  BY <1>2, <1>4, <1>5, Numbers
<1>7. (counter["back"] + 1) % VersionLimit = counter["back"] + 1
  BY <1>6, ModSmall, Numbers
<1> QED  BY <1>1, <1>2, <1>7 DEF Takes, Enters

LEMMA TakesSides ==
  ASSUME TypeInv, SidesInv, Told, NEW t \in Threads, Alone(t), Takes(t)
  PROVE  /\ \A u \in Threads : Informed(u)'
         /\ \A s \in Ends : Settled(s)'
         /\ OneInCritical'
<1> DEFINE s == Side(t)
<1>1. /\ version' = version /\ loc' = loc /\ InCritical(t)' /\ ~InCritical(t)
      /\ counter[s] = loc[t].counter /\ s \in Ends
      /\ counter'[s] = (loc[t].counter + 1) % VersionLimit
      /\ \A r \in Ends : r # s => counter'[r] = counter[r]
      /\ pc[t] = "exchange" /\ pc'[t] = "move"
  BY SideIsEnd DEF Takes, Enters, InCritical
<1>2. Current(t) /\ Current(t)'
  BY <1>1 DEF SidesInv, Informed, Current
<1>3. counter[s] \in Versions
  BY <1>1 DEF TypeInv
<1>4. ASSUME NEW u \in Threads, u # t, Side(u) = s
      PROVE  1 < VersionLimit /\ counter'[s] = counter[s] + 1
  BY <1>4, NoWrap DEF Lone
<1>5. ASSUME NEW u \in Threads, u # t, Side(u) = s  PROVE ~InCritical(u)
  <2> SUFFICES ASSUME InCritical(u)  PROVE FALSE
    OBVIOUS
  <2>1. Current(u) /\ counter[s] = (loc[u].counter + 1) % VersionLimit
    BY <1>5 DEF SidesInv, Informed
  <2>2. loc[u].counter = loc[t].counter
    BY <1>2, <1>5, <2>1 DEF Current
  <2>3. counter[s] = (counter[s] + 1) % VersionLimit
    BY <1>1, <2>1, <2>2
  <2> HIDE DEF s
  <2> QED  BY <1>3, <1>4, <1>5, <2>3, VersionMoves
<1>6. Informed(t)'
  BY <1>1, <1>2 DEF Informed
<1>7. ASSUME NEW u \in Threads, u # t, Side(u) = s  PROVE Informed(u)'
  <2>1. pc'[u] = pc[u] /\ loc'[u] = loc[u] /\ ~InCritical(u)'
    BY <1>5, <1>7 DEF Alone, InCritical
  <2>2. CASE pc[u] \in {"version", "exchange"}
    <3>1. loc[u].counter <= counter[s] /\ ~Lone(s)
      BY <1>7, <2>2 DEF SidesInv, Informed, Lone
    <3>2. loc[u].counter \in Int /\ counter[s] \in Int
      BY <1>3, LocalFields, Numbers DEF TypeInv, Versions
    <3>3. counter'[s] = counter[s] + 1
      BY <1>4, <1>7
    <3>4. loc[u].counter <= counter'[s] /\ loc[u].counter # counter'[s]
      <4> HIDE DEF s
      <4> QED  BY <3>1, <3>2, <3>3
    <3> QED  BY <1>7, <2>1, <2>2, <3>1, <3>4 DEF Informed
  <2>3. CASE pc[u] \notin {"version", "exchange"}
    BY <2>1, <2>3 DEF Informed
  <2> QED  BY <2>2, <2>3
<1>8. Settled(s)'
  BY <1>1 DEF Settled
<1>9. ASSUME NEW r \in Ends, r # s
      PROVE  (\A u \in Threads : Side(u) = r => Informed(u)') /\ Settled(r)'
  BY <1>1, <1>9, FarSide DEF SidesInv
<1>10. OneInCritical'
  <2>1. \A u \in Threads \ {t} : InCritical(u)' <=> InCritical(u)
    BY DEF Alone, InCritical
  <2> QED  BY <1>5, <2>1 DEF SidesInv, OneInCritical
<1> QED  BY <1>6, <1>7, <1>8, <1>9, <1>10, SideIsEnd

LEMMA LeavesSides ==
  ASSUME TypeInv, SidesInv, Told, NEW t \in Threads, Alone(t), Leaves(t)
  PROVE  /\ \A u \in Threads : Informed(u)'
         /\ \A s \in Ends : Settled(s)'
         /\ OneInCritical'
         /\ version'[Side(t)].offset = (version[Side(t)].offset + 1) % OffsetLimit
<1> DEFINE s == Side(t)
<1>1. /\ counter' = counter /\ InCritical(t) /\ ~InCritical(t)' /\ s \in Ends
      /\ version'[s].version = (loc[t].counter + 1) % VersionLimit
      /\ \A r \in Ends : r # s => version'[r] = version[r]
      /\ pc[t] = "publish" /\ pc'[t] = "idle"
  BY SideIsEnd DEF Leaves, InCritical
<1>2. Current(t) /\ counter[s] = (loc[t].counter + 1) % VersionLimit
  BY <1>1 DEF SidesInv, Informed
<1>3. version'[s].offset = (version[s].offset + 1) % OffsetLimit
  BY <1>2 DEF Leaves, Current
<1>4. loc[t].counter \in Versions
  BY LocalFields DEF TypeInv
<1>5. Informed(t)'
  BY <1>1 DEF Informed, InCritical
<1>6. ASSUME NEW u \in Threads, u # t, Side(u) = s  PROVE Informed(u)'
  <2>1. pc'[u] = pc[u] /\ loc'[u] = loc[u] /\ ~InCritical(u)'
    <3>1. ~InCritical(u)
      BY <1>1, <1>6 DEF SidesInv, OneInCritical
    <3> QED  BY <1>6, <3>1 DEF Alone, InCritical
  <2>2. 1 < VersionLimit
    <3>1. ~Lone(s)
      BY <1>6 DEF Lone
    <3> QED  BY <3>1 DEF Told, Side
  <2>3. ~(pc[u] = "exchange" /\ loc[u].counter = counter[s])
    <3> SUFFICES ASSUME pc[u] = "exchange", loc[u].counter = counter[s]  PROVE FALSE
      OBVIOUS
    <3>1. Current(u)
      BY <1>6 DEF SidesInv, Informed
    <3>2. loc[u].counter = loc[t].counter
      BY <1>2, <1>6, <3>1 DEF Current
    <3>3. (loc[t].counter + 1) % VersionLimit = loc[t].counter
      BY <1>2, <3>2
    <3> QED  BY <1>4, <2>2, <3>3, VersionMoves
  <2> QED  BY <1>1, <1>6, <2>1, <2>3 DEF Informed, SidesInv
<1>7. Settled(s)'
  BY <1>1, <1>2 DEF Settled
<1>8. ASSUME NEW r \in Ends, r # s
      PROVE  (\A u \in Threads : Side(u) = r => Informed(u)') /\ Settled(r)'
  BY <1>1, <1>8, FarSide DEF SidesInv
<1>9. OneInCritical'
  <2>1. \A u \in Threads : InCritical(u)' => InCritical(u)
    BY <1>1 DEF Alone, InCritical
  <2> QED  BY <2>1 DEF SidesInv, OneInCritical
<1> QED  BY <1>3, <1>5, <1>6, <1>7, <1>8, <1>9, SideIsEnd

(* Who begins a push is counted, who enters the section is no longer.      *)
LEMMA CountedKept ==
  ASSUME TypeInv, SidesInv, Told, NEW t \in Threads, Step(t)
  PROVE  Counted'
<1> SUFFICES ASSUME ~Lone("back")  PROVE Counted'
  BY DEF Counted
<1>1. IsFiniteSet(Producers)
  BY DEF Told
<1>2. IsFiniteSet(Waiting) /\ IsFiniteSet(Waiting')
  BY <1>1, FS_Subset DEF Waiting
<1> DEFINE n == Cardinality(Waiting)
           m == Cardinality(Waiting')
<1>3. n \in Nat /\ m \in Nat
  BY <1>2, FS_CardinalityType
<1>4. /\ counter["back"] \in Nat /\ calls \in Nat
      /\ counter["back"] + n <= calls
  BY Numbers DEF TypeInv, Ends, Versions, SidesInv, Counted
<1>5. Alone(t)
  BY Kinds
<1>6. \A u \in Producers \ {t} : u \in Waiting' <=> u \in Waiting
  BY <1>5 DEF Alone, Waiting, Threads
<1>7. CASE calls' = calls /\ counter'["back"] = counter["back"]
           /\ (t \in Waiting' => t \in Waiting)
  <2>1. Waiting' \subseteq Waiting
    BY <1>6, <1>7 DEF Waiting
  <2>2. m <= n
    BY <1>2, <2>1, FS_Subset
  <2> HIDE DEF n, m
  <2>3. counter["back"] + m <= calls
    BY <1>3, <1>4, <2>2
  <2> QED  BY <1>7, <2>3 DEF Counted, m
<1>8. CASE BeginPush(t)
  <2>1. calls' = calls + 1 /\ counter' = counter
    BY <1>8, BeginDoes DEF BeginPush
  <2>2. Waiting' \subseteq Waiting \cup {t}
    BY <1>6 DEF Waiting
  <2>3. m <= n + 1
    <3>1. IsFiniteSet(Waiting \cup {t}) /\ Cardinality(Waiting \cup {t}) <= n + 1
      BY <1>2, <1>3, FS_AddElement
    <3>2. Cardinality(Waiting \cup {t}) \in Nat /\ m <= Cardinality(Waiting \cup {t})
      BY <2>2, <3>1, FS_CardinalityType, FS_Subset
    <3> HIDE DEF n, m
    <3> QED  BY <1>3, <3>1, <3>2
  <2> HIDE DEF n, m
  <2>4. counter["back"] + m <= calls + 1
    BY <1>3, <1>4, <2>3
  <2> QED  BY <2>1, <2>4 DEF Counted, m
<1>9. CASE t \in Producers /\ Takes(t)
  <2>1. Side(t) = "back"
    BY <1>9 DEF Side
  <2>2. counter'["back"] = counter["back"] + 1
    BY <1>9, <2>1, NoWrap
  <2>3. t \in Waiting /\ Waiting' \subseteq Waiting \ {t}
    BY <1>6, <1>9 DEF Waiting, Takes, Enters
  <2>4. m <= n - 1
    <3>1. IsFiniteSet(Waiting \ {t}) /\ Cardinality(Waiting \ {t}) = n - 1
      BY <1>2, <2>3, FS_RemoveElement
    <3> QED  BY <2>3, <3>1, FS_Subset
  <2>5. calls' = calls
    BY <1>9 DEF Takes, Step, PushBack, PopFront, SizeCall, Loop, BeginPush,
                BeginPop, Begin, LoadCounter, LoadVersion, Exchange, MoveElem,
                Publish, SizeReadsBack, SizeReadsFront
  <2> HIDE DEF n, m
  <2>6. counter["back"] + 1 + m <= calls
    BY <1>3, <1>4, <2>4
  <2> QED  BY <2>2, <2>5, <2>6 DEF Counted, m
<1>10. CASE BeginPop(t)
  <2>1. t \notin Producers /\ calls' = calls /\ counter' = counter
    BY <1>10, BeginDoes, Numbers DEF BeginPop
  <2> QED  BY <1>7, <2>1 DEF Waiting
<1>11. CASE Loop(t) /\ ~(t \in Producers /\ Takes(t))
  <2>1. calls' = calls
    BY <1>11 DEF Loop, LoadCounter, LoadVersion, Exchange, MoveElem, Publish
  <2>2. counter'["back"] = counter["back"]
    <3>1. CASE Takes(t)
      BY <1>11, <3>1 DEF Takes, Enters, Side, Ends
    <3>2. CASE ~Takes(t)
      BY <3>2, Kinds DEF Outside, Loads, Checks, Works, Leaves
    <3> QED  BY <3>1, <3>2
  <2>3. t \in Waiting' => t \in Waiting
    <3>1. pc[t] \in {"counter", "version", "exchange", "move", "publish"}
      BY <1>11 DEF Loop, LoadCounter, LoadVersion, Exchange, MoveElem, Publish
    <3>2. pc[t] \in {"move", "publish"} => pc'[t] \in {"publish", "idle"}
      BY Kinds DEF Outside, Loads, Checks, Takes, Works, Leaves, InCritical
    <3> QED  BY <3>1, <3>2 DEF Waiting
  <2> QED  BY <1>7, <2>1, <2>2, <2>3
<1>12. CASE SizeCall(t)
  <2>1. t \notin Producers /\ calls' = calls /\ counter' = counter
    BY <1>12, SizeDoes, Numbers
  <2> QED  BY <1>7, <2>1 DEF Waiting
<1> QED  BY <1>8, <1>9, <1>10, <1>11, <1>12 DEF Step, PushBack, PopFront

LEMMA StepSides ==
  ASSUME TypeInv, SidesInv, Told, NEW t \in Threads, Step(t)
  PROVE  /\ SidesInv'
         /\ \A s \in Ends : version'[s].offset \in
              {version[s].offset, (version[s].offset + 1) % OffsetLimit}
<1>1. Alone(t)
  BY Kinds
<1>2. Counted'
  BY CountedKept
<1>3. CASE Outside(t) \/ Loads(t) \/ Checks(t)
  <2>1. version' = version
    BY <1>3 DEF Outside, Loads, Checks
  <2> QED  BY <1>1, <1>2, <1>3, <2>1, OutsideSides DEF SidesInv
<1>4. CASE Takes(t)
  <2>1. version' = version
    BY <1>4 DEF Takes
  <2> QED  BY <1>1, <1>2, <1>4, <2>1, TakesSides DEF SidesInv
<1>5. CASE Works(t)
  <2>1. version' = version
    BY <1>5 DEF Works
  <2> QED  BY <1>1, <1>2, <1>5, <2>1, WorksSides DEF SidesInv
<1>6. CASE Leaves(t)
  <2>1. \A s \in Ends : s # Side(t) => version'[s] = version[s]
    BY <1>6 DEF Leaves
  <2> QED  BY <1>1, <1>2, <1>6, <2>1, LeavesSides DEF SidesInv
<1> QED  BY <1>3, <1>4, <1>5, <1>6, Kinds

LEMMA StutterSides == SidesInv /\ UNCHANGED vars => SidesInv'
<1> SUFFICES ASSUME SidesInv, UNCHANGED vars  PROVE SidesInv'
  OBVIOUS
<1>1. /\ counter' = counter /\ version' = version /\ pc' = pc /\ loc' = loc
      /\ calls' = calls
  BY DEF vars
<1>2. Waiting' = Waiting
  BY <1>1 DEF Waiting
<1>3. Counted'
  BY <1>1, <1>2 DEF SidesInv, Counted
<1>4. OneInCritical'
  BY <1>1 DEF SidesInv, OneInCritical, InCritical
<1>5. \A s \in Ends : Settled(s)'
  BY <1>1 DEF SidesInv, Settled, InCritical
<1>6. \A t \in Threads : Informed(t)'
  BY <1>1 DEF SidesInv, Informed, InCritical, Current
<1> QED  BY <1>3, <1>4, <1>5, <1>6 DEF SidesInv

LEMMA NextSides ==
  ASSUME Told
  PROVE  TypeInv /\ SidesInv /\ [Next]_vars => SidesInv'
BY StepSides, StutterSides DEF Next, Step

LEMMA Sides ==
  ASSUME Told
  PROVE  Spec => []SidesInv
BY InitSides, NextSides, Types, PTL DEF Spec

(* With one consumer, and one producer or fewer pushes than versions, the  *)
(* critical section of each side is exclusive, and no thread publishes an  *)
(* offset that it computed from an outdated version.                       *)
THEOREM CriticalSectionsExclusive ==
  ASSUME Told
  PROVE  Spec => SidesExclusive
<1> DEFINE Advance ==
      /\ OneInCritical'
      /\ \A s \in {"back", "front"} :
            version'[s].offset \in {version[s].offset,
                                    (version[s].offset + 1) % OffsetLimit}
<1>1. TypeInv /\ SidesInv /\ [Next]_vars => [Advance]_vars
  <2> SUFFICES ASSUME TypeInv, SidesInv, Next  PROVE Advance
    OBVIOUS
  <2>1. PICK t \in Threads : Step(t)
    BY DEF Next, Step
  <2> QED  BY <2>1, StepSides DEF SidesInv, Ends
<1> QED  BY <1>1, Types, Sides, PTL DEF Spec, SidesExclusive

(* The versions and the offsets stay in their fields of the packed words   *)
(* (the assertions of pack_offset), whoever uses the queue and however     *)
(* often its counters wrap.                                                *)
THEOREM PackedWordsFit == Spec => []TypeOK
BY Types, TypeInvTypeOK, PTL

(***************************************************************************)
(* One producer and one consumer.                                          *)
(***************************************************************************)
(* One thread a side, and no more pushes than offsets. *)
Pair == Lone("back") /\ Lone("front") /\ MaxPush + Size < OffsetLimit

(* The offsets count the elements, and the ring holds those between them.  *)
Ring ==
    /\ version["back"].offset = Len(sent)
    /\ version["front"].offset = Size + Len(got)
    /\ Len(got) <= Len(sent) /\ Len(sent) <= Size + Len(got)
    /\ Len(sent) <= calls
    /\ \A i \in Len(got) .. Len(sent) - 1 : vec[i % Size] = sent[i + 1]

(* The producer's copy of the front is old, but not too old.               *)
Pushing(t) ==
    /\ pc[t] # "idle" => /\ Len(sent) < calls
                         /\ Len(sent) <= loc[t].other
                         /\ loc[t].other <= Size + Len(got)
                         /\ loc[t].other = Len(sent) => sawLimit[t]
    /\ pc[t] \in {"exchange", "move", "publish"} => loc[t].other # Len(sent)
    /\ pc[t] = "publish" => vec[Len(sent) % Size] = loc[t].elem
    /\ result[t] = "limit" => sawLimit[t]
    /\ result[t] # "spun"

(* So is the consumer's copy of the back, and what size() has promised is  *)
(* still there.                                                            *)
Popping(t) ==
    /\ pc[t] # "idle" => Len(got) <= loc[t].other /\ loc[t].other <= Len(sent)
    /\ pc[t] \notin {"idle", "size"} =>
         /\ loc[t].other = Len(got) => sawLimit[t]
         /\ avail[t] => loc[t].other # Len(got)
    /\ pc[t] \in {"exchange", "move", "publish"} => loc[t].other # Len(got)
    /\ pc[t] = "publish" => loc[t].elem = sent[Len(got) + 1]
    /\ avail[t] => Len(got) < Len(sent)
    /\ result[t] = "limit" => sawLimit[t] /\ ~avail[t]
    /\ result[t] # "spun"

PairInv ==
    /\ Ring
    /\ \A t \in Producers : Pushing(t)
    /\ \A t \in Consumers : Popping(t)

LEMMA PairTold == Pair => Told
BY DEF Pair, Told

LEMMA InitPair == Init => PairInv
<1> SUFFICES ASSUME Init  PROVE PairInv
  OBVIOUS
<1> USE Numbers
<1>1. sent = <<>> /\ got = <<>> /\ Len(sent) = 0 /\ Len(got) = 0 /\ calls = 0
  BY DEF Init
<1>2. version["back"].offset = 0 /\ version["front"].offset = Size
  BY DEF Init
<1>3. Ring
  BY <1>1, <1>2 DEF Ring
<1>4. \A t \in Threads : pc[t] = "idle" /\ result[t] = "none" /\ ~avail[t]
  BY DEF Init
<1> QED  BY <1>3, <1>4 DEF PairInv, Pushing, Popping, Threads

(* Nobody is refused by the versions. *)
LEMMA Unrefused ==
  ASSUME TypeInv, SidesInv, NEW t \in Threads, Lone(Side(t))
  PROVE  /\ pc[t] = "version" => ~Mismatch(t)
         /\ pc[t] = "exchange" => ~Beaten(t)
         /\ pc[t] \in {"exchange", "move", "publish"} =>
              loc[t].offset = version[Side(t)].offset
<1>1. Informed(t) /\ Settled(Side(t))
  BY SideIsEnd DEF SidesInv
<1>2. pc[t] \in {"version", "exchange"} => loc[t].counter = counter[Side(t)]
  BY <1>1 DEF Informed
<1>3. ~InCritical(t) => counter[Side(t)] = version[Side(t)].version
  BY <1>1 DEF Settled, Lone
<1>4. pc[t] = "version" => ~Mismatch(t)
  BY <1>2, <1>3 DEF Mismatch, InCritical
<1>5. pc[t] = "exchange" => ~Beaten(t)
  BY <1>2 DEF Beaten
<1>6. pc[t] \in {"exchange", "move", "publish"} => Current(t)
  BY <1>1, <1>2 DEF Informed, InCritical
<1> QED  BY <1>4, <1>5, <1>6 DEF Current

(* The local state of the thread at the other side does not change.        *)
Frame(u) ==
    /\ pc'[u] = pc[u] /\ loc'[u] = loc[u] /\ result'[u] = result[u]
    /\ avail'[u] = avail[u] /\ sawLimit'[u] = sawLimit[u]

LEMMA Framed ==
  ASSUME TypeInv, SidesInv, Pair, NEW t \in Threads, Step(t),
         NEW u \in Threads, u # t
  PROVE  Frame(u)
<1>1. Lone(Side(t)) /\ pc'[u] = pc[u] /\ loc'[u] = loc[u]
  BY Kinds DEF Pair, Side, Alone
<1>2. CASE BeginPush(t) \/ BeginPop(t)
  <2>1. result' = [result EXCEPT ![t] = "none"] /\ avail' = avail
    BY <1>2, BeginDoes
  <2>2. sawLimit'[u] = sawLimit[u]
    BY <1>2, BeginDoes DEF TypeInv
  <2> QED  BY <1>1, <2>1, <2>2 DEF Frame, TypeInv
<1>3. CASE LoadCounter(t)
  BY <1>1, <1>3, LoadCounterDoes DEF Frame
<1>4. CASE LoadVersion(t)
  <2>1. UNCHANGED sawLimit /\ (AtEnd(t) \/ Proceeds(t))
    BY <1>1, <1>4, LoadVersionDoes, Unrefused
  <2>2. CASE AtEnd(t)
    <3>1. Return(t, "limit") /\ "limit" \in Results /\ avail' = avail
      BY <2>2 DEF AtEnd, Results
    <3> QED  BY <1>1, <2>1, <3>1, ReturnDoes DEF Frame
  <2>3. CASE Proceeds(t)
    BY <1>1, <2>1, <2>3 DEF Frame, Proceeds
  <2> QED  BY <2>1, <2>2, <2>3
<1>5. CASE Exchange(t)
  BY <1>1, <1>5, ExchangeDoes, Unrefused DEF Frame, Enters
<1>6. CASE MoveElem(t)
  BY <1>1, <1>6, MoveElemDoes DEF Frame
<1>7. CASE Publish(t)
  <2>1. avail'[u] = avail[u]
    BY <1>7, PublishDoes DEF TypeInv
  <2> QED  BY <1>1, <1>7, <2>1, PublishDoes DEF Frame
<1>8. CASE SizeCall(t)
  <2>1. CASE SizeReadsBack(t)
    BY <1>1, <1>8, <2>1, SizeDoes DEF Frame
  <2>2. CASE SizeReadsFront(t)
    <3>1. avail'[u] = avail[u]
      BY <1>8, <2>2, SizeDoes DEF TypeInv
    <3> QED  BY <1>1, <1>8, <2>2, <3>1, SizeDoes DEF Frame
  <2> QED  BY <1>8, <2>1, <2>2 DEF SizeCall
<1> QED  BY <1>2, <1>3, <1>4, <1>5, <1>6, <1>7, <1>8
         DEF Step, PushBack, PopFront, Loop

(* A step that moves no element and publishes nothing: what is left to     *)
(* show is about the thread itself.                                        *)
LEMMA QuietPair ==
  ASSUME TypeInv, SidesInv, PairInv, Pair, NEW t \in Threads, Step(t),
         UNCHANGED <<vec, version, sent, got>>,
         calls' \in Nat, calls <= calls',
         t \in Producers => Pushing(t)', t \in Consumers => Popping(t)'
  PROVE  PairInv'
<1>1. Ring'
  <2>1. Len(sent) <= calls'
    <3>1. Len(sent) \in Int /\ calls \in Int /\ Len(sent) <= calls
      BY Numbers DEF TypeInv, PairInv, Ring
    <3> QED  BY <3>1
  <2> QED  BY <2>1 DEF PairInv, Ring
<1>2. ASSUME NEW u \in Producers, u # t  PROVE Pushing(u)'
  <2>1. Frame(u)
    BY <1>2, Framed DEF Threads
  <2>2. Len(sent) < calls => Len(sent) < calls'
    <3>1. Len(sent) \in Int /\ calls \in Int
      BY Numbers DEF TypeInv
    <3> QED  BY <3>1
  <2> QED  BY <2>1, <2>2 DEF PairInv, Pushing, Frame
<1>3. ASSUME NEW u \in Consumers, u # t  PROVE Popping(u)'
  <2>1. Frame(u)
    BY <1>3, Framed DEF Threads
  <2> QED  BY <2>1 DEF PairInv, Popping, Frame
<1> QED  BY <1>1, <1>2, <1>3 DEF PairInv

LEMMA Lengths ==
  ASSUME TypeInv
  PROVE  /\ Len(sent) \in Nat /\ Len(got) \in Nat
         /\ calls \in Nat /\ calls <= MaxPush
BY Numbers DEF TypeInv

LEMMA BeginPair ==
  ASSUME TypeInv, SidesInv, PairInv, Pair, NEW t \in Threads, Step(t),
         BeginPush(t) \/ BeginPop(t)
  PROVE  PairInv'
<1> DEFINE b == (Len(sent) - Len(got) = IF t \in Producers THEN Size ELSE 0)
<1>1. /\ pc'[t] = "counter" /\ loc'[t].other = version[OtherSide(t)].offset
      /\ calls' = IF t \in Producers THEN calls + 1 ELSE calls
      /\ UNCHANGED <<vec, version, sent, got, avail>>
  BY BeginDoes
<1>2. result'[t] = "none"
  BY BeginDoes DEF TypeInv
<1>3. sawLimit'[t] = b
  BY BeginDoes DEF TypeInv
<1>4. calls' \in Nat /\ calls <= calls'
  BY <1>1, Lengths
<1>5. ASSUME t \in Producers  PROVE Pushing(t)'
  <2>1. loc'[t].other = Size + Len(got)
    BY <1>1, <1>5 DEF OtherSide, PairInv, Ring
  <2>2. Len(sent) < calls' /\ Len(sent) <= Size + Len(got)
    BY <1>1, <1>5, Lengths DEF PairInv, Ring
  <2>3. Size + Len(got) = Len(sent) => b
    BY <1>5, Lengths, Numbers
  <2>4. Size + Len(got) <= Size + Len(got)
    BY Lengths, Numbers
  <2> HIDE DEF b
  <2> QED  BY <1>1, <1>2, <1>3, <2>1, <2>2, <2>3, <2>4 DEF Pushing
<1>6. ASSUME t \in Consumers  PROVE Popping(t)'
  <2>1. t \notin Producers
    BY <1>6, Numbers
  <2>2. loc'[t].other = Len(sent)
    BY <1>1, <2>1 DEF OtherSide, PairInv, Ring
  <2>3. Len(got) <= Len(sent) /\ Len(sent) <= Len(sent)
    BY Lengths DEF PairInv, Ring
  <2>4. Len(sent) = Len(got) => b
    BY <2>1, Lengths
  <2>5. avail[t] => Len(got) < Len(sent) /\ Len(sent) # Len(got)
    BY <1>6, Lengths DEF PairInv, Popping
  <2> HIDE DEF b
  <2> QED  BY <1>1, <1>2, <1>3, <2>2, <2>3, <2>4, <2>5 DEF Popping
<1> QED  BY <1>1, <1>4, <1>5, <1>6, QuietPair

LEMMA LoadPair ==
  ASSUME TypeInv, SidesInv, PairInv, Pair, NEW t \in Threads, Step(t),
         LoadCounter(t)
  PROVE  PairInv'
<1>1. /\ pc[t] = "counter" /\ pc'[t] = "version"
      /\ loc'[t].elem = loc[t].elem /\ loc'[t].other = loc[t].other
      /\ UNCHANGED <<vec, version, result, calls, sent, got, avail, sawLimit>>
  BY LoadCounterDoes
<1>2. calls' \in Nat /\ calls <= calls'
  BY <1>1, Lengths
<1>3. ASSUME t \in Producers  PROVE Pushing(t)'
  BY <1>1, <1>3 DEF PairInv, Pushing
<1>4. ASSUME t \in Consumers  PROVE Popping(t)'
  BY <1>1, <1>4 DEF PairInv, Popping
<1> QED  BY <1>1, <1>2, <1>3, <1>4, QuietPair

LEMMA ChecksPair ==
  ASSUME TypeInv, SidesInv, PairInv, Pair, NEW t \in Threads, Step(t),
         LoadVersion(t)
  PROVE  PairInv'
<1>1. /\ pc[t] = "version" /\ (AtEnd(t) \/ Proceeds(t))
      /\ UNCHANGED <<vec, version, calls, sent, got, sawLimit>>
  <2>1. Lone(Side(t))
    BY DEF Pair, Side
  <2> QED  BY <2>1, LoadVersionDoes, Unrefused
<1>2. calls' \in Nat /\ calls <= calls'
  BY <1>1, Lengths
<1>3. t \in Producers => /\ version[Side(t)].offset = Len(sent)
                         /\ Pushing(t)
  BY DEF Side, PairInv, Ring
<1>4. t \in Consumers => /\ version[Side(t)].offset = Size + Len(got)
                         /\ Popping(t) /\ t \notin Producers
  BY Numbers DEF Side, PairInv, Ring
<1>5. CASE AtEnd(t)
  <2>1. Return(t, "limit") /\ "limit" \in Results /\ avail' = avail
    BY <1>5 DEF AtEnd, Results
  <2>2. pc'[t] = "idle" /\ result'[t] = "limit"
    BY <2>1, ReturnDoes
  <2>3. ASSUME t \in Producers  PROVE Pushing(t)'
    <3>1. loc[t].other = Len(sent)
      BY <1>3, <1>5, <2>3 DEF AtEnd, AtLimit, Full
    <3>2. sawLimit[t]
      BY <1>1, <1>3, <2>3, <3>1 DEF Pushing
    <3> QED  BY <1>1, <2>2, <3>2 DEF Pushing
  <2>4. ASSUME t \in Consumers  PROVE Popping(t)'
    <3>1. (Size + Len(got)) - loc[t].other = Size
      BY <1>4, <1>5, <2>4 DEF AtEnd, AtLimit, Empty
    <3>2. loc[t].other \in Int
      BY LocalFields, Numbers DEF TypeInv, Offsets
    <3>3. loc[t].other = Len(got)
      BY <3>1, <3>2, Lengths, Numbers
    <3>4. sawLimit[t] /\ ~avail[t]
      BY <1>1, <1>4, <2>4, <3>3 DEF Popping
    <3> QED  BY <1>1, <2>1, <2>2, <3>4 DEF Popping
  <2> QED  BY <1>1, <1>2, <2>3, <2>4, QuietPair
<1>6. CASE Proceeds(t)
  <2>1. /\ pc'[t] = "exchange" /\ loc'[t].elem = loc[t].elem
        /\ loc'[t].other = loc[t].other /\ UNCHANGED <<result, avail>>
    BY <1>6 DEF Proceeds
  <2>2. ASSUME t \in Producers  PROVE Pushing(t)'
    <3>1. loc[t].other # Len(sent)
      BY <1>3, <1>6, <2>2 DEF Proceeds, AtLimit, Full
    <3> QED  BY <1>1, <1>3, <2>1, <2>2, <3>1 DEF Pushing
  <2>3. ASSUME t \in Consumers  PROVE Popping(t)'
    <3>1. (Size + Len(got)) - loc[t].other # Size
      BY <1>4, <1>6, <2>3 DEF Proceeds, AtLimit, Empty
    <3>2. loc[t].other \in Int
      BY LocalFields, Numbers DEF TypeInv, Offsets
    <3>3. loc[t].other # Len(got)
      BY <3>1, <3>2, Lengths, Numbers
    <3> QED  BY <1>1, <1>4, <2>1, <2>3, <3>3 DEF Popping
  <2> QED  BY <1>1, <1>2, <2>2, <2>3, QuietPair
<1> QED  BY <1>1, <1>5, <1>6

LEMMA EntersPair ==
  ASSUME TypeInv, SidesInv, PairInv, Pair, NEW t \in Threads, Step(t),
         Exchange(t)
  PROVE  PairInv'
<1>1. /\ pc[t] = "exchange" /\ Enters(t)
      /\ UNCHANGED <<vec, version, calls, sent, got, sawLimit>>
  <2>1. Lone(Side(t))
    BY DEF Pair, Side
  <2> QED  BY <2>1, ExchangeDoes, Unrefused
<1>2. pc'[t] = "move" /\ loc' = loc /\ UNCHANGED <<result, avail>>
  BY <1>1 DEF Enters
<1>3. calls' \in Nat /\ calls <= calls'
  BY <1>1, Lengths
<1>4. ASSUME t \in Producers  PROVE Pushing(t)'
  BY <1>1, <1>2, <1>4 DEF PairInv, Pushing
<1>5. ASSUME t \in Consumers  PROVE Popping(t)'
  BY <1>1, <1>2, <1>5 DEF PairInv, Popping
<1> QED  BY <1>1, <1>3, <1>4, <1>5, QuietPair

LEMMA SizePair ==
  ASSUME TypeInv, SidesInv, PairInv, Pair, NEW t \in Threads, Step(t),
         SizeCall(t)
  PROVE  PairInv'
<1>1. /\ t \in Consumers /\ t \notin Producers
      /\ UNCHANGED <<vec, version, calls, sent, got, sawLimit>>
  BY SizeDoes, Numbers
<1>2. calls' \in Nat /\ calls <= calls'
  BY <1>1, Lengths
<1>3. Popping(t) /\ Ring
  BY <1>1 DEF PairInv
<1>4. CASE SizeReadsBack(t)
  <2>1. /\ pc'[t] = "size" /\ loc'[t].other = version["back"].offset
        /\ UNCHANGED <<result, avail>>
    BY <1>4, SizeDoes
  <2>2. loc'[t].other = Len(sent) /\ Len(got) <= Len(sent) /\ Len(sent) <= Len(sent)
    BY <1>3, <2>1, Lengths DEF Ring
  <2>3. Popping(t)'
    BY <1>1, <1>3, <2>1, <2>2 DEF Popping
  <2> QED  BY <1>1, <1>2, <2>3, QuietPair
<1>5. CASE SizeReadsFront(t)
  <2> DEFINE b == SizeOf(loc[t].other, version["front"].offset) > 0
  <2>1. /\ pc[t] = "size" /\ pc'[t] = "idle" /\ result'[t] = "none"
        /\ avail' = [avail EXCEPT ![t] = b]
    BY <1>5, SizeDoes
  <2>2. avail'[t] = b
    BY <2>1 DEF TypeInv
  <2>3. b => Len(got) < Len(sent)
    <3>1. loc[t].other \in Int /\ Len(got) <= loc[t].other /\ loc[t].other <= Len(sent)
      BY <1>3, <2>1, LocalFields, Numbers DEF TypeInv, Offsets, Popping
    <3>2. version["front"].offset = Size + Len(got) /\ Len(sent) <= Size + Len(got)
      BY <1>3 DEF Ring
    <3>3. b => Size - (Size + Len(got)) + loc[t].other > 0
      BY <3>1, <3>2, Lengths, Numbers DEF SizeOf
    <3> HIDE DEF b
    <3> QED  BY <3>1, <3>3, Lengths, Numbers
  <2> HIDE DEF b
  <2>4. Popping(t)'
    BY <1>1, <2>1, <2>2, <2>3 DEF Popping
  <2> QED  BY <1>1, <1>2, <2>4, QuietPair
<1> QED  BY <1>4, <1>5 DEF SizeCall

(* The producer writes the free slot behind the back; the consumer reads   *)
(* the one at the front.                                                   *)
LEMMA MovePair ==
  ASSUME TypeInv, SidesInv, PairInv, Pair, NEW t \in Threads, Step(t),
         MoveElem(t)
  PROVE  PairInv'
<1>1. /\ pc[t] = "move" /\ pc'[t] = "publish" /\ loc'[t].other = loc[t].other
      /\ UNCHANGED <<version, result, calls, sent, got, avail, sawLimit>>
  BY MoveElemDoes
<1>2. loc[t].offset = version[Side(t)].offset
  <2>1. Lone(Side(t))
    BY DEF Pair, Side
  <2> QED  BY <1>1, <2>1, Unrefused
<1>3. calls' \in Nat /\ calls <= calls'
  BY <1>1, Lengths
<1>4. CASE t \in Consumers
  <2>1. /\ t \notin Producers /\ vec' = vec /\ loc'[t].elem = vec[Slot(t)]
        /\ Popping(t) /\ Ring
    BY <1>4, MoveElemDoes, Numbers DEF PairInv
  <2>2. Slot(t) = Len(got) % Size
    <3>1. loc[t].offset = Size + Len(got)
      BY <1>2, <2>1 DEF Side, Ring
    <3> QED  BY <3>1, ModShift, Lengths, Numbers DEF Slot
  <2>3. Len(got) \in Len(got) .. Len(sent) - 1
    <3>1. /\ Len(got) <= loc[t].other /\ loc[t].other <= Len(sent)
          /\ loc[t].other # Len(got) /\ loc[t].other \in Int
      BY <1>1, <2>1, LocalFields, Numbers DEF Popping, TypeInv, Offsets
    <3> QED  BY <3>1, Lengths
  <2>4. loc'[t].elem = sent[Len(got) + 1]
    BY <2>1, <2>2, <2>3 DEF Ring
  <2>5. Popping(t)'
    BY <1>1, <2>1, <2>4 DEF Popping
  <2> QED  BY <1>1, <1>3, <2>1, <2>5, QuietPair
<1>5. CASE t \in Producers
  <2>1. /\ vec' = [vec EXCEPT ![Slot(t)] = loc[t].elem] /\ Slot(t) \in 0..(Size - 1)
        /\ loc'[t].elem = loc[t].elem /\ Pushing(t) /\ Ring
    BY <1>5, MoveElemDoes DEF PairInv
  <2>2. Slot(t) = Len(sent) % Size
    BY <1>2, <1>5, <2>1 DEF Slot, Side, Ring
  <2>3. /\ vec'[Slot(t)] = loc[t].elem
        /\ \A j \in 0..(Size - 1) : j # Slot(t) => vec'[j] = vec[j]
    BY <2>1 DEF TypeInv
  <2>4. Len(sent) < Size + Len(got)
    <3>1. /\ Len(sent) <= loc[t].other /\ loc[t].other <= Size + Len(got)
          /\ loc[t].other # Len(sent) /\ loc[t].other \in Int
      BY <1>1, <2>1, LocalFields, Numbers DEF Pushing, TypeInv, Offsets
    <3> QED  BY <3>1, Lengths, Numbers
  <2>5. ASSUME NEW i \in Len(got) .. Len(sent) - 1  PROVE vec'[i % Size] = sent[i + 1]
    <3>1. i \in Nat /\ i < Len(sent) /\ Len(sent) < i + Size
      BY <2>4, Lengths, Numbers
    <3>2. i % Size # Slot(t)
      BY <2>2, <3>1, ModApart, Lengths, Numbers
    <3>3. i % Size \in 0..(Size - 1)
      BY <3>1, ModRange, Numbers
    <3>4. vec[i % Size] = sent[i + 1]
      BY <2>1 DEF Ring
    <3> QED  BY <2>3, <3>2, <3>3, <3>4
  <2>6. Ring'
    BY <1>1, <2>1, <2>5 DEF Ring
  <2>7. Pushing(t)'
    BY <1>1, <2>1, <2>2, <2>3 DEF Pushing
  <2>8. ASSUME NEW u \in Producers  PROVE Pushing(u)'
    <3>1. u = t
      BY <1>5, <2>8 DEF Pair, Lone, Side, Threads
    <3> QED  BY <2>7, <3>1
  <2>9. ASSUME NEW u \in Consumers  PROVE Popping(u)'
    <3>1. Frame(u)
      BY <1>5, <2>9, Framed, Numbers DEF Threads
    <3> QED  BY <1>1, <2>9, <3>1 DEF PairInv, Popping, Frame
  <2> QED  BY <2>6, <2>8, <2>9 DEF PairInv
<1> QED  BY <1>4, <1>5 DEF Threads

(* A push that is published lengthens what was sent by its element. *)
LEMMA PushPublished ==
  ASSUME TypeInv, SidesInv, PairInv, Pair, NEW t \in Producers, Step(t),
         Publish(t)
  PROVE  /\ PairInv'
         /\ Len(sent) < Size + Len(got) /\ loc[t].elem \in 1..MaxPush
         /\ sent' = Append(sent, loc[t].elem) /\ got' = got
<1> DEFINE e == loc[t].elem
<1>1. /\ t \in Threads /\ pc[t] = "publish" /\ pc'[t] = "idle"
      /\ e \in 1..MaxPush /\ sent' = Append(sent, e) /\ got' = got
      /\ version'[Side(t)].offset = (loc[t].offset + 1) % OffsetLimit
      /\ \A s \in Ends : s # Side(t) => version'[s] = version[s]
      /\ result'[t] = "ok" /\ UNCHANGED <<vec, calls, sawLimit>>
  <2>1. t \in Threads
    BY DEF Threads
  <2> QED  BY <2>1, PublishDoes
<1>2. Side(t) = "back" /\ Pushing(t) /\ Ring
  BY DEF Side, PairInv
<1>3. loc[t].offset = Len(sent)
  BY <1>1, <1>2, Unrefused DEF Pair, Ring
<1>4. /\ Len(sent) < calls /\ Len(sent) < Size + Len(got)
      /\ vec[Len(sent) % Size] = e
  <2>1. /\ Len(sent) <= loc[t].other /\ loc[t].other <= Size + Len(got)
        /\ loc[t].other # Len(sent) /\ loc[t].other \in Int
    BY <1>1, <1>2, LocalFields, Numbers DEF Pushing, TypeInv, Offsets
  <2> QED  BY <1>1, <1>2, <2>1, Lengths, Numbers DEF Pushing
<1>5. /\ Len(sent') = Len(sent) + 1 /\ sent'[Len(sent) + 1] = e
      /\ \A i \in 1..Len(sent) : sent'[i] = sent[i]
  <2>1. sent \in Seq(1..MaxPush)
    BY DEF TypeInv
  <2> QED  BY <1>1, <2>1
<1> HIDE DEF e
<1>6. version'["back"].offset = Len(sent) + 1
  <2>1. Len(sent) + 1 \in 0..(OffsetLimit - 1)
    BY <1>4, Lengths, Numbers DEF Pair
  <2>2. (Len(sent) + 1) % OffsetLimit = Len(sent) + 1
    BY <2>1, ModSmall, Numbers
  <2> QED  BY <1>1, <1>2, <1>3, <2>2
<1>7. version'["front"].offset = Size + Len(got)
  BY <1>1, <1>2 DEF Ends, Ring
<1>8. Ring'
  <2>1. \A i \in Len(got) .. Len(sent) : vec[i % Size] = sent'[i + 1]
    <3>1. ASSUME NEW i \in Len(got) .. Len(sent)  PROVE vec[i % Size] = sent'[i + 1]
      <4>1. CASE i = Len(sent)
        BY <1>4, <1>5, <4>1
      <4>2. CASE i # Len(sent)
        <5>1. i \in Len(got) .. Len(sent) - 1 /\ i + 1 \in 1..Len(sent)
          BY <4>2, Lengths
        <5> QED  BY <1>2, <1>5, <5>1 DEF Ring
      <4> QED  BY <4>1, <4>2
    <3> QED  BY <3>1
  <2>2. Len(got) <= Len(sent) + 1 /\ Len(sent) + 1 <= Size + Len(got)
        /\ Len(sent) + 1 <= calls /\ (Len(sent) + 1) - 1 = Len(sent)
    BY <1>2, <1>4, Lengths, Numbers DEF Ring
  <2> QED  BY <1>1, <1>5, <1>6, <1>7, <2>1, <2>2 DEF Ring
<1>9. ASSUME NEW u \in Producers  PROVE Pushing(u)'
  <2>1. u = t
    BY <1>9 DEF Pair, Lone, Side, Threads
  <2> QED  BY <1>1, <2>1 DEF Pushing
<1>10. ASSUME NEW u \in Consumers  PROVE Popping(u)'
  <2>1. Frame(u) /\ Popping(u) /\ u \in Threads
    BY <1>1, <1>10, Framed, Numbers DEF Threads, PairInv
  <2>2. loc[u].other \in Int
    BY <2>1, LocalFields, Numbers DEF TypeInv, Offsets
  <2>3. loc[u].other <= Len(sent) => loc[u].other <= Len(sent')
    BY <1>5, <2>2, Lengths
  <2>4. Len(got) < Len(sent) => Len(got) < Len(sent')
    BY <1>5, Lengths
  <2>5. pc[u] = "publish" => sent'[Len(got) + 1] = sent[Len(got) + 1]
    <3>1. pc[u] = "publish" => Len(got) + 1 \in 1..Len(sent)
      BY <2>1, <2>2, Lengths DEF Popping
    <3> QED  BY <1>5, <3>1
  <2> QED  BY <1>1, <2>1, <2>3, <2>4, <2>5 DEF Popping, Frame
<1> QED  BY <1>1, <1>4, <1>8, <1>9, <1>10 DEF PairInv, e

(* A pop that is published returns the element after those returned so far. *)
LEMMA PopPublished ==
  ASSUME TypeInv, SidesInv, PairInv, Pair, NEW t \in Consumers, Step(t),
         Publish(t)
  PROVE  /\ PairInv'
         /\ Len(got) < Len(sent)
         /\ got' = Append(got, sent[Len(got) + 1]) /\ sent' = sent
<1>1. /\ t \in Threads /\ t \notin Producers /\ pc[t] = "publish" /\ pc'[t] = "idle"
      /\ got' = Append(got, loc[t].elem) /\ sent' = sent
      /\ loc[t].elem \in 0..MaxPush
      /\ version'[Side(t)].offset = (loc[t].offset + 1) % OffsetLimit
      /\ \A s \in Ends : s # Side(t) => version'[s] = version[s]
      /\ result'[t] = "ok" /\ avail' = [avail EXCEPT ![t] = FALSE]
      /\ UNCHANGED <<vec, calls, sawLimit>>
  <2>1. t \in Threads /\ t \notin Producers
    BY Numbers DEF Threads
  <2> QED  BY <2>1, PublishDoes
<1>2. Side(t) = "front" /\ Popping(t) /\ Ring
  BY <1>1 DEF Side, PairInv
<1>3. loc[t].offset = Size + Len(got)
  BY <1>1, <1>2, Unrefused DEF Pair, Ring
<1>4. Len(got) < Len(sent) /\ loc[t].elem = sent[Len(got) + 1]
  <2>1. /\ Len(got) <= loc[t].other /\ loc[t].other <= Len(sent)
        /\ loc[t].other # Len(got) /\ loc[t].other \in Int
    BY <1>1, <1>2, LocalFields, Numbers DEF Popping, TypeInv, Offsets
  <2> QED  BY <1>1, <1>2, <2>1, Lengths DEF Popping
<1>5. Len(got') = Len(got) + 1
  <2>1. got \in Seq(0..MaxPush)
    BY DEF TypeInv
  <2> QED  BY <1>1, <2>1
<1>6. version'["front"].offset = Size + (Len(got) + 1)
  <2>1. Size + Len(got) + 1 \in 0..(OffsetLimit - 1)
    BY <1>2, <1>4, Lengths, Numbers DEF Pair, Ring
  <2>2. (Size + Len(got) + 1) % OffsetLimit = Size + Len(got) + 1
    BY <2>1, ModSmall, Numbers
  <2> QED  BY <1>1, <1>2, <1>3, <2>2, Lengths, Numbers
<1>7. version'["back"].offset = Len(sent)
  BY <1>1, <1>2 DEF Ends, Ring
<1>8. Ring'
  <2>1. /\ Len(got) + 1 <= Len(sent) /\ Len(sent) <= Size + (Len(got) + 1)
        /\ Len(sent) <= calls
    BY <1>2, <1>4, Lengths, Numbers DEF Ring
  <2>2. \A i \in Len(got) + 1 .. Len(sent) - 1 : vec[i % Size] = sent[i + 1]
    <3>1. \A i \in Len(got) + 1 .. Len(sent) - 1 : i \in Len(got) .. Len(sent) - 1
      BY Lengths
    <3> QED  BY <1>2, <3>1 DEF Ring
  <2> QED  BY <1>1, <1>5, <1>6, <1>7, <2>1, <2>2 DEF Ring
<1>9. ASSUME NEW u \in Producers  PROVE Pushing(u)'
  <2>1. Frame(u) /\ Pushing(u) /\ u \in Threads
    BY <1>1, <1>9, Framed DEF Threads, PairInv
  <2>2. loc[u].other \in Int
    BY <2>1, LocalFields, Numbers DEF TypeInv, Offsets
  <2>3. loc[u].other <= Size + Len(got) => loc[u].other <= Size + Len(got')
    BY <1>5, <2>2, Lengths, Numbers
  <2> QED  BY <1>1, <2>1, <2>3 DEF Pushing, Frame
<1>10. ASSUME NEW u \in Consumers  PROVE Popping(u)'
  <2>1. u = t
    BY <1>1, <1>10, Numbers DEF Pair, Lone, Side, Threads
  <2>2. avail'[t] = FALSE
    BY <1>1 DEF TypeInv
  <2> QED  BY <1>1, <2>1, <2>2 DEF Popping
<1> QED  BY <1>1, <1>4, <1>8, <1>9, <1>10 DEF PairInv

LEMMA StepPair ==
  ASSUME TypeInv, SidesInv, PairInv, Pair, NEW t \in Threads, Step(t)
  PROVE  PairInv'
<1>1. CASE Publish(t)
  BY <1>1, PushPublished, PopPublished DEF Threads
<1> QED  BY <1>1, BeginPair, LoadPair, ChecksPair, EntersPair, MovePair, SizePair
         DEF Step, PushBack, PopFront, Loop

LEMMA StutterPair == PairInv /\ UNCHANGED vars => PairInv'
BY DEF vars, PairInv, Ring, Pushing, Popping

LEMMA NextPair ==
  ASSUME Pair
  PROVE  TypeInv /\ SidesInv /\ PairInv /\ [Next]_vars => PairInv'
BY StepPair, StutterPair DEF Next, Step

LEMMA PairAlways ==
  ASSUME Pair
  PROVE  Spec => [](TypeInv /\ SidesInv /\ PairInv)
<1>1. Told
  BY PairTold
<1> QED  BY <1>1, InitPair, NextPair, Types, Sides, PTL DEF Spec

(* With one producer and one consumer, a call fails only if the queue was  *)
(* full or empty when it began, never for a version that changed under it, *)
(* and pop_front returns an element after size() has said there is one.    *)
THEOREM CallsServed ==
  ASSUME Pair
  PROVE  Spec => []QueueInv
<1>1. TypeInv /\ PairInv => QueueInv
  <2> SUFFICES ASSUME TypeInv, PairInv  PROVE QueueInv
    OBVIOUS
  <2>1. FailsOnlyAtLimit
    BY DEF FailsOnlyAtLimit, PairInv, Pushing, Popping, Threads
  <2>2. SizeMeansElement
    BY DEF SizeMeansElement, PairInv, Popping
  <2> QED  BY <2>1, <2>2, TypeInvTypeOK DEF QueueInv
<1> QED  BY <1>1, PairAlways, PTL

(***************************************************************************)
(* The ring is a first-in first-out queue.                                 *)
(***************************************************************************)
(* A sequence without its first m elements. *)
Suffix(s, m) == [i \in 1 .. Len(s) - m |-> s[m + i]]

LEMMA SuffixIs ==
  ASSUME NEW S, NEW s \in Seq(S), NEW m \in 0 .. Len(s)
  PROVE  /\ Suffix(s, m) \in Seq(S) /\ Len(Suffix(s, m)) = Len(s) - m
         /\ \A i \in 1 .. Len(s) - m : Suffix(s, m)[i] = s[m + i]
<1>1. \A i \in 1 .. Len(s) - m : s[m + i] \in S
  <2>1. \A i \in 1 .. Len(s) - m : m + i \in 1 .. Len(s)
    OBVIOUS
  <2> QED  BY <2>1, ElementOfSeq
<1>2. Len(s) - m \in Nat
  OBVIOUS
<1> QED  BY <1>1, <1>2 DEF Suffix

(* An element appended to a sequence is appended to its suffix. *)
LEMMA SuffixPush ==
  ASSUME NEW S, NEW s \in Seq(S), NEW m \in 0 .. Len(s), NEW e \in S
  PROVE  Suffix(Append(s, e), m) = Append(Suffix(s, m), e)
<1> DEFINE a == Append(s, e)
           b == Suffix(s, m)
           c == Suffix(a, m)
           d == Append(b, e)
           n == Len(s)
<1>1. n \in Nat /\ m \in 0 .. n
  OBVIOUS
<1>2. /\ a \in Seq(S) /\ Len(a) = n + 1 /\ a[n + 1] = e
      /\ \A i \in 1 .. n : a[i] = s[i]
  BY AppendProperties
<1>3. b \in Seq(S) /\ Len(b) = n - m /\ \A i \in 1 .. n - m : b[i] = s[m + i]
  BY SuffixIs
<1>4. /\ d \in Seq(S) /\ Len(d) = (n - m) + 1 /\ d[(n - m) + 1] = e
      /\ \A i \in 1 .. n - m : d[i] = b[i]
  <2> HIDE DEF b
  <2> QED  BY <1>3, AppendProperties
<1>5. /\ c \in Seq(S) /\ Len(c) = (n + 1) - m
      /\ \A i \in 1 .. (n + 1) - m : c[i] = a[m + i]
  <2>1. m \in 0 .. Len(a)
    BY <1>1, <1>2
  <2> HIDE DEF a
  <2>2. /\ c \in Seq(S) /\ Len(c) = Len(a) - m
        /\ \A i \in 1 .. Len(a) - m : c[i] = a[m + i]
    BY <1>2, <2>1, SuffixIs
  <2> QED  BY <1>2, <2>2
<1> HIDE DEF a, b, c, d, n
<1>6. Len(c) = Len(d)
  BY <1>1, <1>4, <1>5
<1>7. ASSUME NEW i \in 1 .. Len(c)  PROVE c[i] = d[i]
  <2>1. i \in 1 .. (n + 1) - m /\ c[i] = a[m + i]
    BY <1>5
  <2>2. CASE i = (n - m) + 1
    <3>1. m + i = n + 1
      BY <1>1, <2>2
    <3> QED  BY <1>2, <1>4, <2>1, <2>2, <3>1
  <2>3. CASE i # (n - m) + 1
    <3>1. i \in 1 .. n - m /\ m + i \in 1 .. n
      BY <1>1, <2>1, <2>3
    <3> QED  BY <1>2, <1>3, <1>4, <2>1, <3>1
  <2> QED  BY <2>2, <2>3
<1>8. c = d
  BY <1>4, <1>5, <1>6, <1>7, SeqEqual
<1> QED  BY <1>8 DEF a, b, c, d

(* The head of a suffix is the next element, the tail the next suffix. *)
LEMMA SuffixPop ==
  ASSUME NEW S, NEW s \in Seq(S), NEW m \in 0 .. Len(s) - 1
  PROVE  /\ Suffix(s, m) # <<>> /\ Head(Suffix(s, m)) = s[m + 1]
         /\ Suffix(s, m + 1) = Tail(Suffix(s, m))
<1> DEFINE b == Suffix(s, m)
           c == Suffix(s, m + 1)
           d == Tail(b)
           n == Len(s)
<1>1. n \in Nat /\ m \in 0 .. n - 1 /\ m \in 0 .. n /\ m + 1 \in 0 .. n
  OBVIOUS
<1>2. b \in Seq(S) /\ Len(b) = n - m /\ \A i \in 1 .. n - m : b[i] = s[m + i]
  BY <1>1, SuffixIs
<1>3. /\ c \in Seq(S) /\ Len(c) = n - (m + 1)
      /\ \A i \in 1 .. n - (m + 1) : c[i] = s[(m + 1) + i]
  BY <1>1, SuffixIs
<1> HIDE DEF b, c, n
<1>4. b # <<>> /\ Head(b) = b[1] /\ b[1] = s[m + 1]
  BY <1>1, <1>2
<1>5. /\ d \in Seq(S) /\ Len(d) = (n - m) - 1
      /\ \A i \in 1 .. (n - m) - 1 : d[i] = b[i + 1]
  BY <1>2, <1>4, HeadTailProperties
<1> HIDE DEF d
<1>6. Len(c) = Len(d)
  BY <1>1, <1>3, <1>5
<1>7. ASSUME NEW i \in 1 .. Len(c)  PROVE c[i] = d[i]
  <2>1. /\ i \in 1 .. n - (m + 1) /\ i \in 1 .. (n - m) - 1 /\ i + 1 \in 1 .. n - m
        /\ m + (i + 1) = (m + 1) + i
    BY <1>1, <1>3
  <2> QED  BY <1>2, <1>3, <1>5, <2>1
<1>8. c = d
  BY <1>3, <1>5, <1>6, <1>7, SeqEqual
<1> QED  BY <1>4, <1>8 DEF b, c, d

(* What has been sent and not yet returned. *)
Between == Suffix(sent, Len(got))

LEMMA ContentsBetween ==
  ASSUME TypeInv, PairInv, Pair
  PROVE  Contents = Between
<1> DEFINE n == Len(sent)
           m == Len(got)
<1>1. n \in Nat /\ m \in Nat /\ n <= MaxPush
  BY Lengths, Numbers DEF PairInv, Ring
<1>2. m <= n /\ n <= Size + m
  BY DEF PairInv, Ring
<1>3. FreeSlots = Size + m - n
  <2>1. FreeSlots = (Size + m - n) % OffsetLimit
    <3> DEFINE f == version.front.offset
               b == version.back.offset
    <3>1. f = Size + m /\ b = n
      BY DEF PairInv, Ring
    <3>2. FreeSlots = (f - b) % OffsetLimit
      BY DEF FreeSlots
    <3> HIDE DEF f, b, n, m
    <3>3. f - b = Size + m - n
      BY <1>1, <3>1, Numbers
    <3> QED  BY <3>2, <3>3
  <2> HIDE DEF n, m
  <2>2. Size + m - n \in 0..(OffsetLimit - 1)
    BY <1>1, <1>2, Numbers DEF Pair
  <2> QED  BY <2>1, <2>2, ModSmall, Numbers
<1>4. Size - FreeSlots = n - m
  <2> HIDE DEF n, m
  <2> QED  BY <1>1, <1>3, Numbers
<1>5. ASSUME NEW i \in 1 .. n - m
      PROVE  vec[(version.front.offset + i - 1) % Size] = sent[m + i]
  <2>1. version.front.offset = Size + m
    BY DEF PairInv, Ring
  <2>2. m + i - 1 \in m .. n - 1 /\ m + i - 1 \in Nat /\ (m + i - 1) + 1 = m + i
        /\ Size + m + i - 1 = Size + (m + i - 1)
    <3> HIDE DEF n, m
    <3> QED  BY <1>1, Numbers
  <2>3. (Size + (m + i - 1)) % Size = (m + i - 1) % Size
    BY <2>2, ModShift, Numbers
  <2>4. vec[(m + i - 1) % Size] = sent[m + i]
    BY <2>2 DEF PairInv, Ring
  <2> QED  BY <2>1, <2>2, <2>3, <2>4
<1>6. Contents = [i \in 1 .. n - m |-> sent[m + i]]
  BY <1>4, <1>5 DEF Contents
<1> QED  BY <1>6 DEF Between, Suffix

(* The mapped queue is what is between the two. *)
Shown == Contents = Between

LEMMA InitFifo == Init => Abstract!Init
<1> SUFFICES ASSUME Init  PROVE Abstract!Init
  OBVIOUS
<1>1. sent = <<>> /\ got = <<>>
  BY DEF Init
<1>2. FreeSlots = Size
  <2>1. version.front.offset - version.back.offset = Size
    BY Numbers DEF Init
  <2>2. Size \in 0..(OffsetLimit - 1)
    BY Numbers
  <2> QED  BY <2>1, <2>2, ModSmall, Numbers DEF FreeSlots
<1>3. Contents = <<>>
  BY <1>2, Numbers DEF Contents
<1> QED  BY <1>1, <1>3 DEF Abstract!Init

LEMMA StepFifo ==
  ASSUME TypeInv, SidesInv, PairInv, Pair, Shown, Shown', NEW t \in Threads, Step(t)
  PROVE  [Abstract!Next]_<<Contents, sent, got>>
<1> DEFINE m == Len(got)
<1>1. sent \in Seq(1..MaxPush) /\ m \in 0 .. Len(sent)
  BY Lengths DEF TypeInv, PairInv, Ring
<1>2. Len(Between) = Len(sent) - m
  BY <1>1, SuffixIs DEF Between
<1>3. CASE Publish(t) /\ t \in Producers
  <2> DEFINE e == loc[t].elem
  <2>1. /\ Len(sent) < Size + m /\ e \in 1..MaxPush
        /\ sent' = Append(sent, e) /\ got' = got
    BY <1>3, PushPublished
  <2> HIDE DEF e
  <2>2. Between' = Suffix(Append(sent, e), m)
    BY <2>1 DEF Between
  <2>3. Between' = Append(Between, e)
    BY <1>1, <2>1, <2>2, SuffixPush DEF Between
  <2>4. Len(Between) < Size
    BY <1>1, <1>2, <2>1, Lengths, Numbers
  <2>5. Abstract!Push(e)
    BY <2>1, <2>3, <2>4 DEF Abstract!Push, Shown
  <2> QED  BY <2>1, <2>5 DEF Abstract!Next
<1>4. CASE Publish(t) /\ t \in Consumers
  <2>1. m < Len(sent) /\ got' = Append(got, sent[m + 1]) /\ sent' = sent
    BY <1>4, PopPublished
  <2>2. Len(got') = m + 1
    <3>1. got \in Seq(0..MaxPush)
      BY DEF TypeInv
    <3> QED  BY <2>1, <3>1
  <2>3. Between' = Suffix(sent, m + 1)
    BY <2>1, <2>2 DEF Between
  <2>4. m \in 0 .. Len(sent) - 1
    BY <2>1, Lengths
  <2>5. /\ Between # <<>> /\ Head(Between) = sent[m + 1]
        /\ Between' = Tail(Between)
    BY <1>1, <2>3, <2>4, SuffixPop DEF Between
  <2>6. Abstract!Pop
    BY <2>1, <2>5 DEF Abstract!Pop, Shown
  <2> QED  BY <2>6 DEF Abstract!Next
<1>5. CASE ~Publish(t)
  <2>1. sent' = sent /\ got' = got
    BY <1>5 DEF Step, PushBack, PopFront, SizeCall, Loop, BeginPush, BeginPop,
                Begin, LoadCounter, LoadVersion, Exchange, MoveElem,
                SizeReadsBack, SizeReadsFront
  <2>2. Between' = Between
    BY <2>1 DEF Between
  <2> QED  BY <2>1, <2>2 DEF Shown
<1> QED  BY <1>3, <1>4, <1>5 DEF Threads

(* With one producer and one consumer the ring implements a bounded        *)
(* first-in first-out queue, however many times its slots are used again   *)
(* and its versions wrap.                                                  *)
THEOREM RingIsFifo ==
  ASSUME Pair
  PROVE  Spec => ImplementsFifo
<1>1. TypeInv /\ PairInv => Shown
  BY ContentsBetween DEF Shown
<1>2. TypeInv /\ SidesInv /\ PairInv /\ Shown /\ Shown' /\ [Next]_vars
        => [Abstract!Next]_<<Contents, sent, got>>
  <2>1. ASSUME UNCHANGED vars  PROVE UNCHANGED <<Contents, sent, got>>
    BY <2>1 DEF vars, Contents, FreeSlots
  <2> QED  BY <2>1, StepFifo DEF Next, Step
<1> QED  BY <1>1, <1>2, InitFifo, PairAlways, PTL
         DEF Spec, ImplementsFifo, Abstract!Spec
=============================================================================
