---------------------------- MODULE PendingQueue ----------------------------
(***************************************************************************)
(* What the ring of a virtual device promises the daemon: the requests     *)
(* come out in the order in which they went in, each once, and the queue   *)
(* never holds more than Capacity of them.                                 *)
(***************************************************************************)
EXTENDS Naturals, Sequences

CONSTANTS Ids, Capacity

VARIABLE queue

QueueInit == queue = <<>>

Put(r) == Len(queue) < Capacity /\ queue' = Append(queue, r)
Get == queue # <<>> /\ queue' = Tail(queue)

QueueNext == (\E r \in Ids : Put(r)) \/ Get

QueueSpec == QueueInit /\ [][QueueNext]_queue
=============================================================================
