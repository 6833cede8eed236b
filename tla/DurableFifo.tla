---------------------------- MODULE DurableFifo ----------------------------
(***************************************************************************)
(* What the offline event queue promises to the code that hands it signed  *)
(* access evidence (OfflineEventQueue::begin, push, popFront): a bounded   *)
(* first-in first-out queue that a reset or a power loss finds as it was.  *)
(* An operation that was refused or cut off by the reset may be found done *)
(* or not done, and nothing else may have happened.                        *)
(***************************************************************************)
EXTENDS Naturals, Sequences

CONSTANTS Events, Capacity

VARIABLES
    fifo,    \* what the running program sees
    durable  \* what a reset at this moment would find

Init == fifo = <<>> /\ durable = <<>>

Accept(e) ==
    /\ Len(fifo) < Capacity
    /\ fifo' = Append(fifo, e)
    /\ durable' = fifo'

Remove ==
    /\ fifo # <<>>
    /\ fifo' = Tail(fifo)
    /\ durable' = fifo'

\* An operation under way or refused: in doubt until the next one.
AppendInDoubt(e) ==
    /\ Len(fifo) < Capacity
    /\ durable' = Append(fifo, e)
    /\ UNCHANGED fifo

RemoveInDoubt ==
    /\ fifo # <<>>
    /\ durable' = Tail(fifo)
    /\ UNCHANGED fifo

Undone == durable' = fifo /\ UNCHANGED fifo

Reset == fifo' = durable /\ UNCHANGED durable

Next ==
    \/ \E e \in Events : Accept(e) \/ AppendInDoubt(e)
    \/ Remove \/ RemoveInDoubt \/ Undone \/ Reset

Spec == Init /\ [][Next]_<<fifo, durable>>
=============================================================================
