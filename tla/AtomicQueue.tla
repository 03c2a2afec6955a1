---------------------------- MODULE AtomicQueue ----------------------------
(***************************************************************************)
(* queue_atomic (util/queue.h): a ring buffer with a counter and a packed  *)
(* (version, offset) word at each end.  A push works on the back and reads *)
(* the front, a pop works on the front and reads the back; apart from that *)
(* they are the same protocol: load the counter and the version, go on if  *)
(* they agree, exchange the counter (this enters the critical section),    *)
(* move the element, and store the new version (this leaves it).  One step *)
(* is one access to an atomic variable.                                    *)
(***************************************************************************)
EXTENDS Integers, Sequences, FiniteSets

CONSTANTS Producers, Consumers,
          Size,          \* size_limit, a power of two
          VersionLimit,  \* 2^VERSION_BITS
          OffsetLimit,   \* 2^OFFSET_BITS
          SpinLimit,     \* spin_limit
          MaxPush        \* bound: how many calls of push_back there are

Threads == Producers \cup Consumers

ASSUME AtomicQueueAssumption ==
    /\ Producers \cap Consumers = {}
    /\ Size \in Nat \ {0} /\ \E k \in 0..Size : Size = 2^k
    /\ VersionLimit \in Nat \ {0} /\ SpinLimit \in Nat \ {0}
    /\ OffsetLimit \in Nat /\ OffsetLimit >= 2 * Size /\ OffsetLimit % Size = 0
    /\ MaxPush \in Nat

VARIABLES
    vec,      \* the ring
    counter,  \* counter_back and counter_front
    version,  \* version_back and version_front, unpacked
    pc,       \* where a thread is in its call
    loc,      \* the local variables of its call
    result,   \* how its last call ended
    calls,    \* number of calls of push_back, the next element
    sent,     \* elements whose push_back has published them, in order
    got,      \* elements pop_front has returned, in order
    avail,    \* size() > 0 was the consumer's last answer
    sawLimit  \* the queue was full (empty) when the call began

vars == <<vec, counter, version, pc, loc, result, calls, sent, got, avail,
          sawLimit>>

Side(t) == IF t \in Producers THEN "back" ELSE "front"

OtherSide(t) == IF t \in Producers THEN "front" ELSE "back"

NoCall == [elem |-> 0, other |-> 0, counter |-> 0, offset |-> 0, spin |-> 0]

(***************************************************************************)
(* full(), empty() and size().                                             *)
(***************************************************************************)
Full(back, front) == front = back

Empty(back, front) == front - back = Size

SizeOfOneMore(back, front) ==
    IF front < back THEN back - front ELSE Size - front + back + 1

SizeOf(back, front) ==
    IF front < back THEN back - front ELSE Size - front + back

\* What a call compares once it holds offset `mine` of its own side.
AtLimitLate(t, mine, other) ==
    IF t \in Producers THEN Full(mine, other + 1) ELSE Empty(other, mine)

AtLimitOneLeft(t, mine, other) ==
    IF t \in Producers THEN Full(mine, other) ELSE Empty(other, mine + 1)

AtLimitEarly(t, mine, other) ==
    IF t \in Producers THEN Full(mine + 1, other) ELSE Empty(other, mine)

AtLimit(t, mine, other) ==
    IF t \in Producers THEN Full(mine, other) ELSE Empty(other, mine)

Init ==
    /\ vec = [i \in 0..(Size - 1) |-> 0]
    /\ counter = [s \in {"back", "front"} |-> 0]
    /\ version = [back |-> [version |-> 0, offset |-> 0],
                  front |-> [version |-> 0, offset |-> Size]]
    /\ pc = [t \in Threads |-> "idle"]
    /\ loc = [t \in Threads |-> NoCall]
    /\ result = [t \in Threads |-> "none"]
    /\ calls = 0 /\ sent = <<>> /\ got = <<>>
    /\ avail = [t \in Threads |-> FALSE]
    /\ sawLimit = [t \in Threads |-> FALSE]

Return(t, how) ==
    /\ pc' = [pc EXCEPT ![t] = "idle"]
    /\ loc' = [loc EXCEPT ![t] = NoCall]
    /\ result' = [result EXCEPT ![t] = how]

\* The call's first access: the offset of the other side, read once.
Begin(t, e) ==
    /\ pc[t] = "idle"
    /\ pc' = [pc EXCEPT ![t] = "counter"]
    /\ loc' = [loc EXCEPT ![t] =
                 [NoCall EXCEPT !.elem = e, !.other = version[OtherSide(t)].offset]]
    /\ result' = [result EXCEPT ![t] = "none"]
    /\ sawLimit' = [sawLimit EXCEPT ![t] =
                      Len(sent) - Len(got) = IF t \in Producers THEN Size ELSE 0]
    /\ UNCHANGED <<vec, counter, version, sent, got, avail>>

BeginPush(t) ==
    /\ t \in Producers /\ calls < MaxPush
    /\ calls' = calls + 1
    /\ Begin(t, calls')

BeginPop(t) ==
    /\ t \in Consumers
    /\ Begin(t, 0)
    /\ UNCHANGED calls

LoadCounter(t) ==
    /\ pc[t] = "counter"
    /\ pc' = [pc EXCEPT ![t] = "version"]
    /\ loc' = [loc EXCEPT ![t].counter = counter[Side(t)]]
    /\ UNCHANGED <<vec, counter, version, result, calls, sent, got, avail,
                   sawLimit>>

\* The end of the loop's body: yield and try again, up to spin_limit.
Retry(t) ==
    IF loc[t].spin + 1 < SpinLimit
    THEN /\ pc' = [pc EXCEPT ![t] = "counter"]
         /\ loc' = [loc EXCEPT ![t].spin = @ + 1]
         /\ UNCHANGED <<result, avail>>
    ELSE Return(t, "spun") /\ avail' = [avail EXCEPT ![t] = FALSE]

UnpackOffsets(c, v) == v.version = c

LoadVersion(t) ==
    LET v == version[Side(t)]
    IN /\ pc[t] = "version"
       /\ IF ~UnpackOffsets(loc[t].counter, v) THEN Retry(t)
          ELSE IF AtLimit(t, v.offset, loc[t].other)
          THEN Return(t, "limit") /\ UNCHANGED avail
          ELSE /\ pc' = [pc EXCEPT ![t] = "exchange"]
               /\ loc' = [loc EXCEPT ![t].offset = v.offset]
               /\ UNCHANGED <<result, avail>>
       /\ UNCHANGED <<vec, counter, version, calls, sent, got, sawLimit>>

ExchangeBlindly(t) ==
    /\ pc[t] = "exchange"
    /\ counter' = [counter EXCEPT ![Side(t)] = (loc[t].counter + 1) % VersionLimit]
    /\ pc' = [pc EXCEPT ![t] = "move"]
    /\ UNCHANGED <<vec, version, loc, result, calls, sent, got, avail, sawLimit>>

Exchange(t) ==
    /\ pc[t] = "exchange"
    /\ IF counter[Side(t)] = loc[t].counter
       THEN /\ counter' = [counter EXCEPT
                             ![Side(t)] = (loc[t].counter + 1) % VersionLimit]
            /\ pc' = [pc EXCEPT ![t] = "move"]
            /\ UNCHANGED <<loc, result, avail>>
       ELSE Retry(t) /\ UNCHANGED counter
    /\ UNCHANGED <<vec, version, calls, sent, got, sawLimit>>

Slot(t) == loc[t].offset % Size

\* vec[offset].store in push_back, vec[offset].load in pop_front.
MoveElem(t) ==
    /\ pc[t] = "move"
    /\ pc' = [pc EXCEPT ![t] = "publish"]
    /\ IF t \in Producers
       THEN vec' = [vec EXCEPT ![Slot(t)] = loc[t].elem] /\ UNCHANGED loc
       ELSE loc' = [loc EXCEPT ![t].elem = vec[Slot(t)]] /\ UNCHANGED vec
    /\ UNCHANGED <<counter, version, result, calls, sent, got, avail, sawLimit>>

NewVersionUnmasked(t) == [version |-> loc[t].counter + 1,
                          offset |-> (loc[t].offset + 1) % OffsetLimit]

NewVersion(t) == [version |-> (loc[t].counter + 1) % VersionLimit,
                  offset |-> (loc[t].offset + 1) % OffsetLimit]

\* version_back.store in push_back, version_front.store in pop_front.
Publish(t) ==
    /\ pc[t] = "publish"
    /\ version' = [version EXCEPT ![Side(t)] = NewVersion(t)]
    /\ IF t \in Producers
       THEN sent' = Append(sent, loc[t].elem) /\ UNCHANGED got
       ELSE got' = Append(got, loc[t].elem) /\ UNCHANGED sent
    /\ Return(t, "ok")
    /\ avail' = [avail EXCEPT ![t] = FALSE]
    /\ UNCHANGED <<vec, counter, calls, sawLimit>>

\* size() reads the back first, the front second.
SizeReadsBack(t) ==
    /\ t \in Consumers /\ pc[t] = "idle"
    /\ pc' = [pc EXCEPT ![t] = "size"]
    /\ loc' = [loc EXCEPT ![t].other = version.back.offset]
    /\ UNCHANGED <<vec, counter, version, result, calls, sent, got, avail,
                   sawLimit>>

SizeReadsFront(t) ==
    /\ pc[t] = "size"
    /\ avail' = [avail EXCEPT ![t] =
                   SizeOf(loc[t].other, version.front.offset) > 0]
    /\ Return(t, "none")
    /\ UNCHANGED <<vec, counter, version, calls, sent, got, sawLimit>>

Loop(t) == \/ LoadCounter(t) \/ LoadVersion(t) \/ Exchange(t)
           \/ MoveElem(t) \/ Publish(t)

PushBack(t) == BeginPush(t) \/ (t \in Producers /\ Loop(t))

PopFront(t) == BeginPop(t) \/ (t \in Consumers /\ Loop(t))

SizeCall(t) == SizeReadsBack(t) \/ SizeReadsFront(t)

Next == \E t \in Threads : PushBack(t) \/ PopFront(t) \/ SizeCall(t)

\* A call goes on once it has begun, and consumers keep calling pop_front.
Fairness == \A t \in Threads : /\ WF_vars(Loop(t) \/ SizeReadsFront(t))
                               /\ SF_vars(BeginPop(t))

Spec == Init /\ [][Next]_vars /\ Fairness

-----------------------------------------------------------------------------
\* The variables have their types; versions and offsets stay in their fields
\* of the packed word (the assertions of pack_offset, queue.h:87).
TypeOK ==
    /\ vec \in [0..(Size - 1) -> 0..MaxPush]
    /\ counter \in [{"back", "front"} -> 0..(VersionLimit - 1)]
    /\ version \in [{"back", "front"} -> [version : 0..(VersionLimit - 1),
                                          offset : 0..(OffsetLimit - 1)]]
    /\ pc \in [Threads -> {"idle", "counter", "version", "exchange", "move",
                           "publish", "size"}]
    /\ loc \in [Threads -> [elem : 0..MaxPush, other : 0..(OffsetLimit - 1),
                            counter : 0..(VersionLimit - 1),
                            offset : 0..(OffsetLimit - 1),
                            spin : 0..(SpinLimit - 1)]]
    /\ result \in [Threads -> {"none", "ok", "limit", "spun"}]
    /\ calls \in 0..MaxPush
    /\ sent \in Seq(1..MaxPush) /\ got \in Seq(0..MaxPush)
    /\ avail \in [Threads -> BOOLEAN] /\ sawLimit \in [Threads -> BOOLEAN]

\* The elements between the front and the back of the ring.
FreeSlots == (version.front.offset - version.back.offset) % OffsetLimit

Contents ==
    [i \in 1..(Size - FreeSlots) |->
        vec[(version.front.offset + i - 1) % Size]]

Abstract == INSTANCE Fifo WITH
    Elem <- 1..MaxPush, queue <- Contents, sent <- sent, got <- got

\* The ring buffer is a bounded first-in first-out queue: push_back appends
\* and pop_front takes the head when they store the new version.
ImplementsFifo == Abstract!Spec

\* With one producer and one consumer a call fails only if the queue was
\* full (empty) when it began: the stale copy of the other end and the
\* version check never refuse a call that could be served (queue.h:186).
FailsOnlyAtLimit ==
    \A t \in Threads : /\ result[t] = "limit" => sawLimit[t]
                       /\ result[t] # "spun"

\* With one consumer, size() > 0 means that pop_front returns an element,
\* as read_char (console.h:193) relies on.
SizeMeansElement ==
    \A t \in Consumers : result[t] = "limit" => ~avail[t]

InCritical(t) == pc[t] \in {"move", "publish"}

\* Between the exchange of the counter and the store of the version there is
\* only one thread per side, however many producers or consumers there are.
OneInCritical ==
    \A t, u \in Threads :
        Side(t) = Side(u) /\ InCritical(t) /\ InCritical(u) => t = u

\* Every element that push_back has published is returned by pop_front, if
\* the consumer keeps asking.
EverythingArrives ==
    \A n \in 1..MaxPush : (Len(sent) >= n) ~> (Len(got) >= n)

\* The invariants of one producer and one consumer together: a call fails
\* only at the limit, and not after size() has promised an element.
QueueInv == TypeOK /\ FailsOnlyAtLimit /\ SizeMeansElement

\* However many producers and consumers there are, the critical section of a
\* side stays exclusive, and its offset only ever advances, by one: no thread
\* publishes an offset that it computed from an outdated version.
SidesExclusive ==
    [][/\ OneInCritical'
       /\ \A s \in {"back", "front"} :
             version'[s].offset \in {version[s].offset,
                                    (version[s].offset + 1) % OffsetLimit}]_vars
=============================================================================
