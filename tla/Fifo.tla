-------------------------------- MODULE Fifo --------------------------------
(***************************************************************************)
(* What queue_atomic promises: a bounded first-in first-out queue.         *)
(***************************************************************************)
EXTENDS Naturals, Sequences

CONSTANTS Elem,   \* elements that may be pushed
          Size    \* capacity

VARIABLES queue,  \* the elements in the queue
          sent,   \* everything pushed so far, in order
          got     \* everything popped so far, in order

Init == queue = <<>> /\ sent = <<>> /\ got = <<>>

Push(e) ==
    /\ Len(queue) < Size
    /\ queue' = Append(queue, e)
    /\ sent' = Append(sent, e)
    /\ UNCHANGED got

Pop ==
    /\ queue # <<>>
    /\ queue' = Tail(queue)
    /\ got' = Append(got, Head(queue))
    /\ UNCHANGED sent

Next == (\E e \in Elem : Push(e)) \/ Pop

Spec == Init /\ [][Next]_<<queue, sent, got>>
=============================================================================
