----------------------------- MODULE PacketQueue -----------------------------
(***************************************************************************)
(* xpqueue.c: the ring of pbuf pointers between interrupt handlers and the *)
(* main loop.  The number of entries is a field of its own (len): nothing  *)
(* relates it to head and tail but the code that updates the three.  A     *)
(* slot that was dequeued keeps its old pointer.                           *)
(***************************************************************************)
EXTENDS Integers, Sequences

CONSTANT QueueSize  \* PQ_QUEUE_SIZE

ASSUME QueueAssumption == QueueSize \in Nat \ {0}

Slot == 0 .. QueueSize - 1

\* The queues whose entries are in P.
Queue(P) == [data : [Slot -> P], head : Slot, tail : Slot, len : Int]

\* pq_create_queue, with null in all slots.
CreateQueue(null) == [data |-> [i \in Slot |-> null], head |-> 0, tail |-> 0, len |-> 0]

Full(q) == q.len = QueueSize

Following(i) == (i + 1) % QueueSize

\* pq_enqueue of a queue that is not full.
Enqueue(q, p) == [q EXCEPT !.data[q.head] = p,
                           !.head = Following(q.head),
                           !.len = q.len + 1]

\* pq_dequeue of a queue that is not empty: the queue it leaves ...
Dequeue(q) == [q EXCEPT !.tail = Following(q.tail), !.len = q.len - 1]

\* ... and the entry it returns.
Front(q) == q.data[q.tail]

-----------------------------------------------------------------------------

\* The entries from tail to head, whatever len says.
Held(q) == (q.head - q.tail) % QueueSize

Contents(q) == [i \in 1 .. Held(q) |-> q.data[(q.tail + i - 1) % QueueSize]]

=============================================================================
