------------------------- MODULE BoundedEventQueue -------------------------
(***************************************************************************)
(* What a ring promises its two sides, with the memory taken away: a FIFO  *)
(* of at most Capacity events, a put that is refused and counted only when *)
(* the queue is really full, and a consumer that takes a batch from the    *)
(* front.  EventRing is shown to implement it.                             *)
(***************************************************************************)
EXTENDS Naturals, Sequences

CONSTANTS Capacity,  \* events the queue holds
          Event      \* what is queued

VARIABLES queue,     \* events put and not yet taken
          delivered, \* events taken, in order
          dropped    \* puts refused

qvars == <<queue, delivered, dropped>>

QueueInit == queue = <<>> /\ delivered = <<>> /\ dropped = 0

Put(e) ==
  /\ Len(queue) < Capacity
  /\ queue' = Append(queue, e)
  /\ UNCHANGED <<delivered, dropped>>

Refuse ==
  /\ Len(queue) = Capacity
  /\ dropped' = dropped + 1
  /\ UNCHANGED <<queue, delivered>>

TakeBatch ==
  \E n \in 1 .. Len(queue) :
    /\ delivered' = delivered \o SubSeq(queue, 1, n)
    /\ queue' = SubSeq(queue, n + 1, Len(queue))
    /\ UNCHANGED dropped

QueueNext == Refuse \/ TakeBatch \/ \E e \in Event : Put(e)

QueueSpec == QueueInit /\ [][QueueNext]_qvars /\ WF_qvars(TakeBatch)
=============================================================================
