------------------------------ MODULE BoundedFIFO ------------------------------
(****************************************************************************)
(* What SPSCQueue promises: a FIFO of at most Capacity items.  A call that  *)
(* returns false changes nothing; it may do so although the queue is not    *)
(* full (or not empty) any more.                                            *)
(****************************************************************************)
EXTENDS Naturals, Sequences

CONSTANTS Capacity, Items, NoItem

VARIABLES
    contents,   \* what has been enqueued and not yet dequeued
    got         \* the item that was dequeued last

vars == <<contents, got>>

Init == contents = <<>> /\ got = NoItem

Put(i) ==
    /\ Len(contents) < Capacity
    /\ contents' = Append(contents, i)
    /\ UNCHANGED got

Get ==
    /\ contents # <<>>
    /\ got' = Head(contents)
    /\ contents' = Tail(contents)

Next == Get \/ \E i \in Items : Put(i)

\* Whatever is in the queue is taken out in the end.
Spec == Init /\ [][Next]_vars /\ WF_vars(Get)
=============================================================================
