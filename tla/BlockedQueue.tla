---------------------------- MODULE BlockedQueue ----------------------------
(* The in-memory queue between the loops of the fetch service               *)
(* (node/src/indexer/BlockedQueue.ts).  A queue is a sequence; the methods   *)
(* are operators, and a method that throws is an operator guarded by Can...  *)
(* The waiting of take() and takeAll() on an empty queue is the guard        *)
(* CanTake of the action that calls them: JavaScript runs the test and the   *)
(* removal without interruption.                                             *)
EXTENDS Integers, Sequences

FreeSize(queue, maxSize) == maxSize - Len(queue)

\* putAll throws 'BlockedQueue exceed max size' when this is false.
CanPutAll(queue, items, maxSize) == Len(queue) + Len(items) <= maxSize

PutAll(queue, items) == queue \o items

CanTake(queue) == queue # << >>

TakeItem(queue) == Head(queue)

TakeRest(queue) == Tail(queue)

\* takeAll(max): a falsy max takes everything.
TakesEverything(queue, max) == max = 0 \/ max >= Len(queue)

TakeAllItems(queue, max) ==
    IF TakesEverything(queue, max) THEN queue ELSE SubSeq(queue, 1, max)

TakeAllRest(queue, max) ==
    IF TakesEverything(queue, max) THEN << >>
    ELSE SubSeq(queue, max + 1, Len(queue))
=============================================================================
