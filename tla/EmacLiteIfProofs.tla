-------------------------- MODULE EmacLiteIfProofs --------------------------
(***************************************************************************)
(* Proofs about EmacLiteIf, for every size of the queues and of the pool   *)
(* (the pool smaller than a queue) and every number of frames.             *)
(***************************************************************************)
EXTENDS EmacLiteIf, TLAPS

-----------------------------------------------------------------------------
(***************************************************************************)
(* The ring: what the operations of xpqueue.c do to the entries between    *)
(* tail and head, for every size.  As long as it is not full to the last   *)
(* slot, the ring is a queue.                                              *)
(***************************************************************************)

(***************************************************************************)
(* The slot after slot i.                                                  *)
(***************************************************************************)
LEMMA FollowingIs ==
  ASSUME NEW i \in Slot
  PROVE  /\ Following(i) \in Slot
         /\ Following(i) = IF i = QueueSize - 1 THEN 0 ELSE i + 1
<1>1. QueueSize \in Nat \ {0} /\ i \in 0 .. QueueSize - 1
  BY QueueAssumption DEF Slot
<1>2. CASE i = QueueSize - 1
  BY <1>1, <1>2 DEF Slot, Following
<1>3. CASE i < QueueSize - 1
  BY <1>1, <1>3 DEF Slot, Following
<1> QED
  BY <1>1, <1>2, <1>3

(***************************************************************************)
(* The number of entries between tail and head.                            *)
(***************************************************************************)
LEMMA HeldIs ==
  ASSUME NEW P, NEW q \in Queue(P)
  PROVE  /\ Held(q) \in 0 .. QueueSize - 1
         /\ Held(q) = IF q.tail <= q.head THEN q.head - q.tail
                                          ELSE q.head - q.tail + QueueSize
<1>1. /\ QueueSize \in Nat \ {0}
      /\ q.head \in 0 .. QueueSize - 1 /\ q.tail \in 0 .. QueueSize - 1
  BY QueueAssumption DEF Slot, Queue
<1>2. CASE q.tail <= q.head
  BY <1>1, <1>2 DEF Held
<1>3. CASE q.head < q.tail
  BY <1>1, <1>3 DEF Held
<1> QED
  BY <1>1, <1>2, <1>3

(***************************************************************************)
(* The slot of entry i, counted from the tail.                             *)
(***************************************************************************)
EntrySlot(q, i) == (q.tail + i - 1) % QueueSize

LEMMA EntrySlotIs ==
  ASSUME NEW P, NEW q \in Queue(P), NEW i \in 1 .. QueueSize
  PROVE  /\ EntrySlot(q, i) \in Slot
         /\ EntrySlot(q, i) = IF q.tail + i - 1 < QueueSize
                                THEN q.tail + i - 1 ELSE q.tail + i - 1 - QueueSize
<1>1. /\ QueueSize \in Nat \ {0} /\ i \in 1 .. QueueSize
      /\ q.tail \in 0 .. QueueSize - 1
  BY QueueAssumption DEF Slot, Queue
<1>2. CASE q.tail + i - 1 < QueueSize
  BY <1>1, <1>2 DEF Slot, EntrySlot
<1>3. CASE QueueSize <= q.tail + i - 1
  BY <1>1, <1>3 DEF Slot, EntrySlot
<1> QED
  BY <1>1, <1>2, <1>3

(***************************************************************************)
(* The entries as a sequence.                                              *)
(***************************************************************************)
LEMMA ContentsAre ==
  ASSUME NEW P, NEW q \in Queue(P)
  PROVE  /\ Contents(q) \in Seq(P)
         /\ Len(Contents(q)) = Held(q)
         /\ \A i \in 1 .. Held(q) : Contents(q)[i] = q.data[EntrySlot(q, i)]
<1>1. Held(q) \in 0 .. QueueSize - 1 /\ QueueSize \in Nat
  BY HeldIs, QueueAssumption
<1>2. \A i \in 1 .. Held(q) : q.data[EntrySlot(q, i)] \in P
  BY <1>1, EntrySlotIs DEF Queue
<1>3. Contents(q) = [i \in 1 .. Held(q) |-> q.data[EntrySlot(q, i)]]
  BY DEF Contents, EntrySlot
<1> QED
  BY <1>1, <1>2, <1>3

(***************************************************************************)
(* Two sequences with the same elements in the same places are the same.   *)
(***************************************************************************)
LEMMA SameSequence ==
  ASSUME NEW S, NEW s \in Seq(S), NEW t \in Seq(S), Len(s) = Len(t),
         \A i \in 1 .. Len(s) : s[i] = t[i]
  PROVE  s = t
OBVIOUS

(***************************************************************************)
(* The contents depend on the places of head and tail and on the entries   *)
(* between them alone: len, the slots outside and stale pointers do not    *)
(* count.                                                                  *)
(***************************************************************************)
LEMMA SameContents ==
  ASSUME NEW P, NEW q \in Queue(P), NEW r \in Queue(P),
         r.head = q.head, r.tail = q.tail,
         \A i \in 1 .. Held(q) : r.data[EntrySlot(q, i)] = q.data[EntrySlot(q, i)]
  PROVE  Held(r) = Held(q) /\ Contents(r) = Contents(q)
<1>1. Held(r) = Held(q)
  BY DEF Held
<1>2. \A i \in 1 .. Held(q) : EntrySlot(r, i) = EntrySlot(q, i)
  BY DEF EntrySlot
<1> QED
  BY <1>1, <1>2, ContentsAre, SameSequence

(***************************************************************************)
(* A new ring is empty.                                                    *)
(***************************************************************************)
LEMMA CreateEmpty ==
  ASSUME NEW P, NEW null \in P
  PROVE  /\ CreateQueue(null) \in Queue(P)
         /\ CreateQueue(null).len = 0
         /\ Held(CreateQueue(null)) = 0
         /\ Contents(CreateQueue(null)) = << >>
<1>1. CreateQueue(null) \in Queue(P) /\ CreateQueue(null).len = 0
  BY QueueAssumption DEF CreateQueue, Queue, Slot
<1>2. Held(CreateQueue(null)) = 0
  BY <1>1, HeldIs DEF CreateQueue
<1> QED
  BY <1>1, <1>2, ContentsAre

(***************************************************************************)
(* pq_enqueue appends, unless all slots but one are taken.                 *)
(***************************************************************************)
LEMMA EnqueueAppends ==
  ASSUME NEW P, NEW q \in Queue(P), NEW p \in P, Held(q) < QueueSize - 1
  PROVE  /\ Enqueue(q, p) \in Queue(P)
         /\ Enqueue(q, p).tail = q.tail
         /\ Enqueue(q, p).len = q.len + 1
         /\ Held(Enqueue(q, p)) = Held(q) + 1
         /\ Contents(Enqueue(q, p)) = Append(Contents(q), p)
<1> DEFINE r == Enqueue(q, p)
<1>1. /\ QueueSize \in Nat \ {0} /\ Slot = 0 .. QueueSize - 1
      /\ q.head \in Slot /\ q.tail \in Slot /\ q.len \in Int /\ q.data \in [Slot -> P]
  BY QueueAssumption DEF Slot, Queue
<1>2. /\ Following(q.head) \in Slot
      /\ Following(q.head) = IF q.head = QueueSize - 1 THEN 0 ELSE q.head + 1
  BY <1>1, FollowingIs
<1>3. r \in Queue(P)
  <2>1. [q.data EXCEPT ![q.head] = p] \in [Slot -> P] /\ q.len + 1 \in Int
    BY <1>1
  <2>2. ASSUME NEW d \in [Slot -> P], NEW h \in Slot, NEW n \in Int
        PROVE  [q EXCEPT !.data = d, !.head = h, !.len = n] \in Queue(P)
    BY DEF Queue
  <2>3. r = [q EXCEPT !.data = [q.data EXCEPT ![q.head] = p],
                      !.head = Following(q.head), !.len = q.len + 1]
    BY DEF Enqueue, Queue
  <2> HIDE DEF r
  <2>4. [q EXCEPT !.data = [q.data EXCEPT ![q.head] = p],
                  !.head = Following(q.head), !.len = q.len + 1] \in Queue(P)
    BY <1>2, <2>1, <2>2
  <2> QED
    BY <2>3, <2>4
<1>4. /\ r.tail = q.tail /\ r.len = q.len + 1
      /\ r.head = Following(q.head) /\ r.data = [q.data EXCEPT ![q.head] = p]
  BY DEF Enqueue, Queue
<1> HIDE DEF r
<1>5. Held(r) = Held(q) + 1
  BY <1>1, <1>2, <1>3, <1>4, HeldIs
<1>6. ASSUME NEW i \in 1 .. Held(r)
      PROVE  r.data[EntrySlot(r, i)] = IF i = Held(q) + 1 THEN p
                                       ELSE q.data[EntrySlot(q, i)]
  <2>1. /\ i \in 1 .. QueueSize
        /\ EntrySlot(q, i) \in Slot
        /\ EntrySlot(q, i) = IF q.tail + i - 1 < QueueSize
                               THEN q.tail + i - 1 ELSE q.tail + i - 1 - QueueSize
        /\ EntrySlot(r, i) = EntrySlot(q, i)
    <3>1. i \in 1 .. QueueSize
      BY <1>1, <1>3, HeldIs
    <3>2. EntrySlot(r, i) = EntrySlot(q, i)
      BY <1>4 DEF EntrySlot
    <3> QED
      BY <3>1, <3>2, EntrySlotIs
  <2>2. EntrySlot(q, i) = q.head <=> i = Held(q) + 1
    BY <1>1, <1>5, <2>1, HeldIs
  <2> QED
    BY <1>1, <1>4, <2>1, <2>2
<1>7. Contents(r) = Append(Contents(q), p)
  <2>1. /\ Contents(q) \in Seq(P) /\ Contents(r) \in Seq(P)
        /\ Len(Contents(q)) = Held(q) /\ Len(Contents(r)) = Held(r)
    BY <1>3, ContentsAre
  <2>2. /\ Append(Contents(q), p) \in Seq(P)
        /\ Len(Append(Contents(q), p)) = Held(r)
        /\ \A i \in 1 .. Held(r) : Append(Contents(q), p)[i] =
             IF i = Held(q) + 1 THEN p ELSE Contents(q)[i]
    BY <1>5, <2>1
  <2>3. ASSUME NEW i \in 1 .. Held(r)
        PROVE  Contents(r)[i] = Append(Contents(q), p)[i]
    <3>1. Contents(r)[i] = r.data[EntrySlot(r, i)]
      BY <1>3, ContentsAre
    <3>2. i # Held(q) + 1 => Contents(q)[i] = q.data[EntrySlot(q, i)]
      <4>1. i # Held(q) + 1 => i \in 1 .. Held(q)
        BY <1>5, HeldIs
      <4> QED
        BY <4>1, ContentsAre
    <3> QED
      BY <1>6, <2>2, <3>1, <3>2
  <2> QED
    BY <2>1, <2>2, <2>3, SameSequence
<1> QED
  BY <1>3, <1>4, <1>5, <1>7 DEF r

(***************************************************************************)
(* Moving the tail on takes the first entry away, whatever happens to len: *)
(* the two are updated apart from each other in an interruptible           *)
(* pq_dequeue.                                                             *)
(***************************************************************************)
LEMMA TailMoves ==
  ASSUME NEW P, NEW q \in Queue(P), NEW r \in Queue(P), Held(q) > 0,
         r.data = q.data, r.head = q.head, r.tail = Following(q.tail)
  PROVE  /\ Held(r) = Held(q) - 1
         /\ Contents(q) # << >>
         /\ Contents(r) = Tail(Contents(q))
         /\ q.data[q.tail] = Head(Contents(q))
<1>1. /\ QueueSize \in Nat \ {0} /\ Slot = 0 .. QueueSize - 1
      /\ q.head \in Slot /\ q.tail \in Slot
  BY QueueAssumption DEF Slot, Queue
<1>2. r.tail = IF q.tail = QueueSize - 1 THEN 0 ELSE q.tail + 1
  BY <1>1, FollowingIs
<1>3. Held(r) = Held(q) - 1
  BY <1>1, <1>2, HeldIs
<1>4. /\ Contents(q) \in Seq(P) /\ Contents(r) \in Seq(P)
      /\ Len(Contents(q)) = Held(q) /\ Len(Contents(r)) = Held(r)
      /\ \A i \in 1 .. Held(q) : Contents(q)[i] = q.data[EntrySlot(q, i)]
      /\ \A i \in 1 .. Held(r) : Contents(r)[i] = q.data[EntrySlot(r, i)]
  BY ContentsAre
<1>5. Held(q) \in 1 .. QueueSize - 1
  BY HeldIs
<1>6. ASSUME NEW i \in 1 .. Held(r)
      PROVE  EntrySlot(r, i) = EntrySlot(q, i + 1)
  <2>1. i \in 1 .. QueueSize /\ i + 1 \in 1 .. QueueSize
    BY <1>1, <1>3, <1>5
  <2>2. EntrySlot(r, i) = IF r.tail + i - 1 < QueueSize
                            THEN r.tail + i - 1 ELSE r.tail + i - 1 - QueueSize
    BY <2>1, EntrySlotIs
  <2>3. EntrySlot(q, i + 1) = IF q.tail + (i + 1) - 1 < QueueSize
                                THEN q.tail + (i + 1) - 1
                                ELSE q.tail + (i + 1) - 1 - QueueSize
    BY <2>1, EntrySlotIs
  <2> QED
    BY <1>1, <1>2, <2>1, <2>2, <2>3
<1>7. Contents(q) # << >>
  BY <1>4, <1>5
<1>8. /\ Tail(Contents(q)) \in Seq(P) /\ Len(Tail(Contents(q))) = Held(r)
      /\ \A i \in 1 .. Held(r) : Tail(Contents(q))[i] = Contents(q)[i + 1]
      /\ Head(Contents(q)) = Contents(q)[1]
  BY <1>3, <1>4, <1>5, <1>7
<1>9. \A i \in 1 .. Held(r) : Contents(r)[i] = Tail(Contents(q))[i]
  <2>1. \A i \in 1 .. Held(r) : i + 1 \in 1 .. Held(q)
    BY <1>3, <1>5
  <2> QED
    BY <1>4, <1>6, <1>8, <2>1
<1>10. EntrySlot(q, 1) = q.tail
  BY <1>1, EntrySlotIs
<1> QED
  BY <1>3, <1>4, <1>5, <1>7, <1>8, <1>9, <1>10, SameSequence

(***************************************************************************)
(* pq_dequeue as one step.                                                 *)
(***************************************************************************)
LEMMA DequeueTakesFirst ==
  ASSUME NEW P, NEW q \in Queue(P), Held(q) > 0
  PROVE  /\ Dequeue(q) \in Queue(P)
         /\ Dequeue(q).len = q.len - 1
         /\ Held(Dequeue(q)) = Held(q) - 1
         /\ Contents(q) # << >>
         /\ Contents(Dequeue(q)) = Tail(Contents(q))
         /\ Front(q) = Head(Contents(q))
<1>1. q.tail \in Slot /\ Following(q.tail) \in Slot
  BY FollowingIs DEF Queue
<1>2. Dequeue(q) \in Queue(P)
  <2>1. ASSUME NEW i \in Slot, NEW n \in Int
        PROVE  [q EXCEPT !.tail = i, !.len = n] \in Queue(P)
    BY DEF Queue
  <2>2. q.len - 1 \in Int
    BY DEF Queue
  <2> QED
    BY <1>1, <2>1, <2>2 DEF Dequeue
<1>3. /\ Dequeue(q).data = q.data /\ Dequeue(q).head = q.head
      /\ Dequeue(q).tail = Following(q.tail) /\ Dequeue(q).len = q.len - 1
  BY DEF Dequeue, Queue
<1> QED
  BY <1>2, <1>3, TailMoves DEF Front

-----------------------------------------------------------------------------
(***************************************************************************)
(* The inductive invariant behind the properties of EmacLiteIf.            *)
(***************************************************************************)

\* The entry that pq_dequeue has taken out of the ring but not yet read.
InHand == IF main \in {"store", "fetch"} THEN << recv_q.data[ptail] >> ELSE << >>

\* The frames on the way to the stack, and those on the way to the MAC.
Received == delivered \o InHand \o Contents(recv_q)
Handed   == sent \o Contents(send_q)

\* recv_q in the middle of an interruptible pq_dequeue.
RecvRing ==
  /\ 0 <= recv_q.len
  /\ LenNeverExceedsHeld
  /\ main = "store" => 1 <= loaded /\ loaded <= recv_q.len
  /\ main \in {"store", "fetch"} => recv_q.tail = Following(ptail)

\* send_q is only changed by code that nothing interrupts.
SendRing == send_q.len = Held(send_q)

\* What the stack has output is handed to the MAC in one line.
HandedInOrder ==
  /\ Elements(Handed) \subseteq 1 .. produced
  /\ Increasing(Handed)
  /\ accepted \subseteq Elements(Handed)

\* Driver and MAC agree on the receive buffer that is next.
InStep ==
  IF rx[1 - rxfill] = NoFrame
    THEN rx[rxfill] = NoFrame /\ NextRx = rxfill
    ELSE NextRx = IF rx[rxfill] = NoFrame THEN 1 - rxfill ELSE rxfill

\* The receive buffers hold the last two frames at most.
RxBuffers ==
  /\ rx[rxfill] \in {NoFrame, arrived - 1}
  /\ rx[1 - rxfill] \in {NoFrame, arrived}
  /\ skew = 0 => InStep
  /\ isr = "recv" => \E b \in Buffer : rx[b] # NoFrame

\* Frame g may come after frame f.
MayFollow(f, g) == f < g \/ (skew = 1 /\ f = g + 1)

ReceivedInOrder ==
  /\ Elements(Received) \subseteq 1 .. arrived
  /\ \A i, j \in DOMAIN Received : i < j => MayFollow(Received[i], Received[j])
  /\ \A b \in Buffer : rx[b] # NoFrame =>
       \A i \in DOMAIN Received : MayFollow(Received[i], rx[b])

\* The transmit buffers, and who will look at them.
Wakeup ==
  /\ isr = "idle" /\ ~ pending => \E b \in Buffer : tx[b] # "done"
  /\ isr = "send" => TxBufferAvailable
  /\ send_q.len # 0 /\ isr # "send" => \E b \in Buffer : tx[b] # "idle"
  /\ BacklogHasWakeup

IInv ==
  /\ TypeOK
  /\ PbufsAccounted
  /\ RecvRing
  /\ SendRing
  /\ HandedInOrder
  /\ RxBuffers
  /\ ReceivedInOrder
  /\ Wakeup

-----------------------------------------------------------------------------
(***************************************************************************)
(* Sequences.                                                              *)
(***************************************************************************)

(***************************************************************************)
(* Elements and types of a sequence with one element more.                 *)
(***************************************************************************)
LEMMA Appended ==
  ASSUME NEW S, NEW s \in Seq(S), NEW x \in S
  PROVE  /\ Append(s, x) \in Seq(S)
         /\ DOMAIN Append(s, x) = 1 .. Len(s) + 1
         /\ DOMAIN s = 1 .. Len(s)
         /\ \A i \in 1 .. Len(s) : Append(s, x)[i] = s[i]
         /\ Append(s, x)[Len(s) + 1] = x
         /\ Elements(Append(s, x)) = Elements(s) \cup {x}
<1>1. /\ Append(s, x) \in Seq(S)
      /\ DOMAIN Append(s, x) = 1 .. Len(s) + 1
      /\ DOMAIN s = 1 .. Len(s)
      /\ \A i \in 1 .. Len(s) : Append(s, x)[i] = s[i]
      /\ Append(s, x)[Len(s) + 1] = x
  OBVIOUS
<1>2. 1 .. Len(s) + 1 = (1 .. Len(s)) \cup {Len(s) + 1}
  OBVIOUS
<1>3. Elements(Append(s, x)) = Elements(s) \cup {x}
  BY <1>1, <1>2 DEF Elements
<1> QED
  BY <1>1, <1>3

(***************************************************************************)
(* Appending to the second part of a line appends to the line.             *)
(***************************************************************************)
LEMMA ConcatAppend ==
  ASSUME NEW S, NEW s \in Seq(S), NEW t \in Seq(S), NEW x \in S
  PROVE  s \o Append(t, x) = Append(s \o t, x)
<1>1. /\ s \o Append(t, x) \in Seq(S) /\ Append(s \o t, x) \in Seq(S)
      /\ Len(s \o Append(t, x)) = Len(Append(s \o t, x))
  OBVIOUS
<1>2. ASSUME NEW i \in 1 .. Len(s \o Append(t, x))
      PROVE  (s \o Append(t, x))[i] = Append(s \o t, x)[i]
  OBVIOUS
<1> QED
  BY <1>1, <1>2, SameSequence

(***************************************************************************)
(* Moving the first element of the second part to the first part changes   *)
(* nothing in the line.                                                    *)
(***************************************************************************)
LEMMA MoveHead ==
  ASSUME NEW S, NEW s \in Seq(S), NEW t \in Seq(S), t # << >>
  PROVE  /\ Head(t) \in S /\ Tail(t) \in Seq(S)
         /\ Append(s, Head(t)) \o Tail(t) = s \o t
<1>1. Head(t) \in S /\ Tail(t) \in Seq(S) /\ Head(t) = t[1]
      /\ Len(t) \in Nat \ {0} /\ Len(Tail(t)) = Len(t) - 1
      /\ \A i \in 1 .. Len(t) - 1 : Tail(t)[i] = t[i + 1]
  OBVIOUS
<1>2. /\ Append(s, Head(t)) \o Tail(t) \in Seq(S) /\ s \o t \in Seq(S)
      /\ Len(Append(s, Head(t)) \o Tail(t)) = Len(s) + Len(t)
      /\ Len(s \o t) = Len(s) + Len(t)
  BY <1>1
<1>3. ASSUME NEW i \in 1 .. Len(s) + Len(t)
      PROVE  (Append(s, Head(t)) \o Tail(t))[i] = (s \o t)[i]
  <2>1. CASE i <= Len(s)
    BY <1>1, <2>1
  <2>2. CASE i = Len(s) + 1
    BY <1>1, <2>2
  <2>3. CASE i > Len(s) + 1
    <3>1. i - (Len(s) + 1) \in 1 .. Len(t) - 1
      BY <1>1, <2>3
    <3>2. (Append(s, Head(t)) \o Tail(t))[i] = Tail(t)[i - (Len(s) + 1)]
      BY <1>1, <2>3
    <3>3. Tail(t)[i - (Len(s) + 1)] = t[i - Len(s)]
      BY <1>1, <3>1
    <3> QED
      BY <2>3, <3>2, <3>3
  <2> QED
    BY <2>1, <2>2, <2>3
<1> QED
  BY <1>1, <1>2, <1>3, SameSequence

(***************************************************************************)
(* What is in a line is in one of its parts.                               *)
(***************************************************************************)
LEMMA ConcatElements ==
  ASSUME NEW S, NEW s \in Seq(S), NEW t \in Seq(S)
  PROVE  /\ s \o t \in Seq(S)
         /\ Elements(s \o t) = Elements(s) \cup Elements(t)
<1>1. /\ s \o t \in Seq(S) /\ DOMAIN (s \o t) = 1 .. Len(s) + Len(t)
      /\ DOMAIN s = 1 .. Len(s) /\ DOMAIN t = 1 .. Len(t)
      /\ \A i \in 1 .. Len(s) : (s \o t)[i] = s[i]
      /\ \A i \in 1 .. Len(t) : (s \o t)[Len(s) + i] = t[i]
  OBVIOUS
<1>2. \A i \in 1 .. Len(s) + Len(t) :
        i \in 1 .. Len(s) \/ \E k \in 1 .. Len(t) : i = Len(s) + k
  <2> SUFFICES ASSUME NEW i \in 1 .. Len(s) + Len(t), i \notin 1 .. Len(s)
               PROVE  \E k \in 1 .. Len(t) : i = Len(s) + k
    OBVIOUS
  <2>1. i - Len(s) \in 1 .. Len(t) /\ i = Len(s) + (i - Len(s))
    OBVIOUS
  <2> QED
    BY <2>1
<1>3. /\ \A i \in 1 .. Len(s) : i \in 1 .. Len(s) + Len(t)
      /\ \A i \in 1 .. Len(t) : Len(s) + i \in 1 .. Len(s) + Len(t)
  OBVIOUS
<1>4. Elements(s \o t) \subseteq Elements(s) \cup Elements(t)
  BY <1>1, <1>2 DEF Elements
<1>5. Elements(s) \cup Elements(t) \subseteq Elements(s \o t)
  BY <1>1, <1>3 DEF Elements
<1> QED
  BY <1>1, <1>4, <1>5

-----------------------------------------------------------------------------
(***************************************************************************)
(* What follows from the invariant in one state.                           *)
(***************************************************************************)

(***************************************************************************)
(* The types of the lines: every part of a line is a sequence.             *)
(***************************************************************************)
AnyRx == RxFrame \cup {NoFrame}
AnyTx == TxFrame \cup {NoFrame}

LEMMA ReceivedType ==
  ASSUME TypeOK
  PROVE  /\ delivered \in Seq(AnyRx) /\ InHand \in Seq(AnyRx)
         /\ Contents(recv_q) \in Seq(AnyRx)
         /\ delivered \o InHand \in Seq(AnyRx)
         /\ Received \in Seq(AnyRx)
<1>1. delivered \in Seq(AnyRx) /\ recv_q \in Queue(AnyRx) /\ ptail \in Slot
  BY DEF TypeOK, AnyRx
<1>2. Contents(recv_q) \in Seq(AnyRx)
  BY <1>1, ContentsAre
<1>3. recv_q.data[ptail] \in AnyRx
  BY <1>1 DEF Queue
<1>4. InHand \in Seq(AnyRx)
  BY <1>3 DEF InHand
<1> QED
  BY <1>1, <1>2, <1>4 DEF Received

LEMMA HandedType ==
  ASSUME TypeOK
  PROVE  /\ sent \in Seq(AnyTx) /\ Contents(send_q) \in Seq(AnyTx)
         /\ Handed \in Seq(AnyTx)
<1>1. sent \in Seq(AnyTx) /\ send_q \in Queue(AnyTx)
  BY DEF TypeOK, AnyTx
<1>2. Contents(send_q) \in Seq(AnyTx)
  BY <1>1, ContentsAre
<1> QED
  BY <1>1, <1>2 DEF Handed

(***************************************************************************)
(* The pool is smaller than a ring: the queues never use their last slots, *)
(* and with a free pbuf there is room for one entry more.  A pbuf that the *)
(* main loop holds takes another slot away.                                *)
(***************************************************************************)
LEMMA RoomInRings ==
  ASSUME TypeOK, PbufsAccounted
  PROVE  /\ Held(recv_q) \in Nat /\ Held(send_q) \in Nat
         /\ pool \in Nat /\ unfreed \in Nat /\ QueueSize \in Nat
         /\ Held(recv_q) + pool + (IF main = "poll" THEN 0 ELSE 1) < QueueSize
         /\ Held(send_q) + pool + (IF main = "poll" THEN 0 ELSE 1) < QueueSize
<1>1. Held(recv_q) \in Nat /\ Held(send_q) \in Nat
  BY HeldIs, QueueAssumption DEF TypeOK
<1> QED
  BY <1>1, QueueAssumption, PoolAssumption DEF TypeOK, PbufsAccounted

(***************************************************************************)
(* The variables that each part of the invariant is about.                 *)
(***************************************************************************)
LEMMA Frames ==
  /\ UNCHANGED <<pool, recv_q, send_q, unfreed, main>> /\ PbufsAccounted
       => PbufsAccounted'
  /\ UNCHANGED <<recv_q, main, loaded, ptail>> /\ RecvRing => RecvRing'
  /\ UNCHANGED send_q /\ SendRing => SendRing'
  /\ UNCHANGED <<sent, send_q, produced, accepted>> /\ HandedInOrder => HandedInOrder'
  /\ UNCHANGED <<rx, rxfill, NextRx, arrived, skew>> /\ RxBuffers
       /\ (isr' = "recv" => isr = "recv") => RxBuffers'
  /\ UNCHANGED <<delivered, main, recv_q, ptail>> => UNCHANGED Received
  /\ UNCHANGED <<Received, arrived, rx, skew>> /\ ReceivedInOrder => ReceivedInOrder'
  /\ UNCHANGED <<isr, pending, tx, send_q>> /\ Wakeup => Wakeup'
<1>1. UNCHANGED <<pool, recv_q, send_q, unfreed, main>> /\ PbufsAccounted
        => PbufsAccounted'
  BY DEF PbufsAccounted
<1>2. UNCHANGED <<recv_q, main, loaded, ptail>> /\ RecvRing => RecvRing'
  BY DEF RecvRing, LenNeverExceedsHeld
<1>3. UNCHANGED send_q /\ SendRing => SendRing'
  BY DEF SendRing
<1>4. UNCHANGED <<sent, send_q, produced, accepted>> /\ HandedInOrder => HandedInOrder'
  BY DEF HandedInOrder, Handed
<1>5. UNCHANGED <<rx, rxfill, NextRx, arrived, skew>> /\ RxBuffers
        /\ (isr' = "recv" => isr = "recv") => RxBuffers'
  BY DEF RxBuffers, InStep
<1>6. UNCHANGED <<delivered, main, recv_q, ptail>> => UNCHANGED Received
  BY DEF Received, InHand
<1>7. UNCHANGED <<Received, arrived, rx, skew>> /\ ReceivedInOrder => ReceivedInOrder'
  BY DEF ReceivedInOrder, MayFollow
<1>8. UNCHANGED <<isr, pending, tx, send_q>> /\ Wakeup => Wakeup'
  BY DEF Wakeup, BacklogHasWakeup, TxBufferAvailable
<1> QED
  BY <1>1, <1>2, <1>3, <1>4, <1>5, <1>6, <1>7, <1>8

(***************************************************************************)
(* Power-up and low_level_init satisfy the invariant.                      *)
(***************************************************************************)
LEMMA IInvInit == Init => IInv
<1> SUFFICES ASSUME Init
             PROVE  IInv
  OBVIOUS
<1>1. /\ recv_q \in Queue(AnyRx) /\ send_q \in Queue(AnyTx)
      /\ recv_q.len = 0 /\ send_q.len = 0
      /\ Held(recv_q) = 0 /\ Held(send_q) = 0
      /\ Contents(recv_q) = << >> /\ Contents(send_q) = << >>
  BY CreateEmpty DEF Init, AnyRx, AnyTx
<1>2. TypeOK
  <2>1. 0 \in Slot
    BY QueueAssumption DEF Slot
  <2> QED
    BY <1>1, <2>1, PoolAssumption DEF Init, TypeOK, Buffer, AnyRx, AnyTx
<1>3. Received = << >> /\ Handed = << >>
  BY <1>1 DEF Init, Received, InHand, Handed
<1>4. PbufsAccounted
  BY <1>1, PoolAssumption DEF Init, PbufsAccounted
<1>5. RecvRing /\ SendRing
  BY <1>1 DEF Init, RecvRing, SendRing, LenNeverExceedsHeld
<1>6. HandedInOrder
  BY <1>3 DEF Init, HandedInOrder, Elements, Increasing
<1>7. RxBuffers
  BY DEF Init, RxBuffers, InStep, Buffer, NoFrame
<1>8. ReceivedInOrder
  BY <1>3 DEF Init, ReceivedInOrder, Elements
<1>9. Wakeup
  BY <1>1 DEF Init, Wakeup, BacklogHasWakeup, Buffer
<1> QED
  BY <1>2, <1>4, <1>5, <1>6, <1>7, <1>8, <1>9 DEF IInv

-----------------------------------------------------------------------------
(***************************************************************************)
(* The MAC.                                                                *)
(***************************************************************************)

(***************************************************************************)
(* A frame that arrives is newer than everything received before.          *)
(***************************************************************************)
LEMMA ArriveKeeps ==
  ASSUME IInv, Arrive
  PROVE  IInv'
<1>1. /\ UNCHANGED <<driver, isr, loop, tx, recv_q, send_q, pool, unfreed, skew,
                     delivered, produced, accepted, sent>>
      /\ arrived' = arrived + 1 /\ rxfill' = 1 - rxfill /\ pending' = TRUE
      /\ rx' = [rx EXCEPT ![rxfill] = arrived + 1]
      /\ rx[rxfill] = NoFrame /\ arrived < MaxRx
  BY DEF Arrive
<1>2. TypeOK
  BY DEF IInv
<1>3. arrived \in Nat /\ rxfill \in Buffer /\ rx \in [Buffer -> AnyRx]
  BY <1>2 DEF TypeOK, AnyRx
<1>4. TypeOK'
  <2>1. arrived' \in 0 .. MaxRx /\ arrived + 1 \in RxFrame
    BY <1>1, <1>3, PoolAssumption DEF RxFrame
  <2>2. rx' \in [Buffer -> RxFrame \cup {NoFrame}] /\ rxfill' \in Buffer
    BY <1>1, <1>3, <2>1 DEF AnyRx, Buffer
  <2> QED
    BY <1>1, <1>2, <2>1, <2>2 DEF TypeOK, driver, loop
<1>5. PbufsAccounted' /\ RecvRing' /\ SendRing' /\ HandedInOrder' /\ UNCHANGED Received
  BY <1>1, Frames DEF IInv, driver, loop
<1>6. RxBuffers'
  BY <1>1, <1>3 DEF IInv, RxBuffers, InStep, Buffer, NoFrame, driver
<1>7. ReceivedInOrder'
  <2>1. ASSUME NEW b \in Buffer, rx'[b] # NoFrame, NEW i \in DOMAIN Received
        PROVE  MayFollow(Received[i], rx'[b])
    <3>1. CASE b = rxfill
      <4>1. Received[i] \in 1 .. arrived /\ rx'[b] = arrived + 1
        BY <1>1, <1>3, <3>1 DEF IInv, ReceivedInOrder, Elements
      <4> QED
        BY <1>3, <4>1 DEF MayFollow
    <3>2. CASE b # rxfill
      BY <1>1, <1>3, <2>1, <3>2 DEF IInv, ReceivedInOrder
    <3> QED
      BY <3>1, <3>2
  <2>2. Elements(Received) \subseteq 1 .. arrived + 1
    BY <1>3 DEF IInv, ReceivedInOrder
  <2> QED
    BY <1>1, <1>5, <2>1, <2>2 DEF IInv, ReceivedInOrder, MayFollow
<1>8. Wakeup'
  BY <1>1 DEF IInv, Wakeup, BacklogHasWakeup, TxBufferAvailable
<1> QED
  BY <1>4, <1>5, <1>6, <1>7, <1>8 DEF IInv

(***************************************************************************)
(* The end of a transmission leaves an edge behind.                        *)
(***************************************************************************)
LEMMA TransmittedKeeps ==
  ASSUME IInv, NEW b \in Buffer, Transmitted(b)
  PROVE  IInv'
<1>1. /\ UNCHANGED <<rx, rxfill, driver, isr, loop, recv_q, send_q, pool, history>>
      /\ tx[b] = "busy" /\ tx' = [tx EXCEPT ![b] = "done"] /\ pending' = TRUE
  BY DEF Transmitted
<1>2. TypeOK
  BY DEF IInv
<1>3. TypeOK'
  BY <1>1, <1>2 DEF TypeOK, driver, loop, history
<1>4. /\ PbufsAccounted' /\ RecvRing' /\ SendRing' /\ HandedInOrder' /\ RxBuffers'
      /\ ReceivedInOrder'
  BY <1>1, Frames DEF IInv, driver, loop, history
<1>5. Wakeup'
  <2>1. tx \in [Buffer -> {"idle", "busy", "done"}]
    BY <1>2 DEF TypeOK
  <2>2. \A c \in Buffer : tx'[c] = IF c = b THEN "done" ELSE tx[c]
    BY <1>1, <2>1
  <2>3. isr = "send" => TxBufferAvailable'
    BY <1>1, <2>2 DEF IInv, Wakeup, TxBufferAvailable
  <2>4. tx'[b] # "idle"
    BY <2>2
  <2> QED
    BY <1>1, <2>3, <2>4 DEF Wakeup, BacklogHasWakeup
<1> QED
  BY <1>3, <1>4, <1>5 DEF IInv

-----------------------------------------------------------------------------
(***************************************************************************)
(* The interrupt handler.                                                  *)
(***************************************************************************)

(***************************************************************************)
(* Entering the handler.                                                   *)
(***************************************************************************)
LEMMA InterruptKeeps ==
  ASSUME IInv, Interrupt
  PROVE  IInv'
<1>1. /\ UNCHANGED <<mac, driver, loop, recv_q, send_q, pool, history>>
      /\ isr = "idle" /\ isr' = "rx" /\ pending' = FALSE
  BY DEF Interrupt
<1>2. TypeOK'
  BY <1>1 DEF IInv, TypeOK, mac, driver, loop, history
<1>3. /\ PbufsAccounted' /\ RecvRing' /\ SendRing' /\ HandedInOrder' /\ RxBuffers'
      /\ ReceivedInOrder'
  BY <1>1, Frames DEF IInv, mac, driver, loop, history
<1>4. Wakeup'
  BY <1>1 DEF IInv, Wakeup, BacklogHasWakeup, mac
<1> QED
  BY <1>2, <1>3, <1>4 DEF IInv

(***************************************************************************)
(* Looking at the receive side.                                            *)
(***************************************************************************)
LEMMA RxCheckKeeps ==
  ASSUME IInv, RxCheck
  PROVE  IInv'
<1>1. /\ UNCHANGED <<mac, driver, loop, recv_q, send_q, pool, history>>
      /\ isr = "rx" /\ isr' \in {"recv", "tx"} /\ pending' \in BOOLEAN
      /\ isr' = "recv" => \E b \in Buffer : rx[b] # NoFrame
  BY DEF RxCheck, IInv, TypeOK
<1>2. TypeOK'
  BY <1>1 DEF IInv, TypeOK, mac, driver, loop, history
<1>3. PbufsAccounted' /\ RecvRing' /\ SendRing' /\ HandedInOrder' /\ ReceivedInOrder'
  BY <1>1, Frames DEF IInv, mac, driver, loop, history
<1>4. RxBuffers'
  BY <1>1 DEF IInv, RxBuffers, InStep, mac, driver, history
<1>5. Wakeup'
  BY <1>1 DEF IInv, Wakeup, BacklogHasWakeup, mac
<1> QED
  BY <1>2, <1>3, <1>4, <1>5 DEF IInv

(***************************************************************************)
(* Looking at the transmit side: what has been transmitted becomes idle,   *)
(* and then the send handler runs.                                         *)
(***************************************************************************)
LEMMA TxCheckKeeps ==
  ASSUME IInv, TxCheck
  PROVE  IInv'
<1>1. /\ UNCHANGED <<rx, rxfill, driver, pending, loop, recv_q, send_q, pool, history>>
      /\ isr = "tx"
      /\ isr' = IF \E b \in Buffer : tx[b] = "done" THEN "send" ELSE "idle"
      /\ \A b \in Buffer : tx'[b] = IF tx[b] = "done" THEN "idle" ELSE tx[b]
  BY DEF TxCheck
<1>2. tx \in [Buffer -> {"idle", "busy", "done"}] /\ pending \in BOOLEAN
  BY DEF IInv, TypeOK
<1>3. TypeOK'
  <2>1. tx' \in [Buffer -> {"idle", "busy", "done"}]
    BY <1>2 DEF TxCheck
  <2> QED
    BY <1>1, <2>1 DEF IInv, TypeOK, driver, loop, history
<1>4. /\ PbufsAccounted' /\ RecvRing' /\ SendRing' /\ HandedInOrder' /\ RxBuffers'
      /\ ReceivedInOrder'
  BY <1>1, Frames DEF IInv, driver, loop, history
<1>5. Wakeup'
  <2>1. CASE \E b \in Buffer : tx[b] = "done"
    BY <1>1, <2>1 DEF Wakeup, BacklogHasWakeup, TxBufferAvailable
  <2>2. CASE ~ \E b \in Buffer : tx[b] = "done"
    <3>1. isr' = "idle" /\ \A b \in Buffer : tx'[b] = tx[b] /\ tx[b] # "done"
      BY <1>1, <2>2
    <3>2. send_q.len # 0 => \E b \in Buffer : tx[b] = "busy"
      BY <1>1, <1>2, <2>2 DEF IInv, Wakeup
    <3>3. 0 \in Buffer
      BY DEF Buffer
    <3> QED
      BY <1>1, <3>1, <3>2, <3>3 DEF Wakeup, BacklogHasWakeup
  <2> QED
    BY <2>1, <2>2
<1> QED
  BY <1>3, <1>4, <1>5 DEF IInv

(***************************************************************************)
(* The frame the driver reads when the handler has seen that there is one, *)
(* and what it leaves in the other buffer.                                 *)
(***************************************************************************)
LEMMA RecvReads ==
  ASSUME TypeOK, RxBuffers, isr = "recv"
  PROVE  /\ RecvBuffer \in Buffer /\ RecvNext \in Buffer
         /\ rx[RecvBuffer] \in RxFrame /\ rx[RecvBuffer] # NoFrame
         /\ rx[RecvBuffer] <= arrived
         /\ \A b \in Buffer : b # RecvBuffer /\ rx[b] # NoFrame =>
              MayFollow(rx[RecvBuffer], rx[b])
<1>1. /\ rx \in [Buffer -> RxFrame \cup {NoFrame}] /\ rxfill \in Buffer /\ NextRx \in Buffer
      /\ skew \in Buffer /\ arrived \in Nat
  BY DEF TypeOK
<1>2. /\ RecvBuffer \in Buffer /\ RecvNext \in Buffer /\ rx[RecvBuffer] # NoFrame
  BY <1>1 DEF RxBuffers, RecvBuffer, RecvNext, Buffer
<1>3. rx[RecvBuffer] \in RxFrame
  BY <1>1, <1>2
<1>4. \A b \in Buffer : b = rxfill \/ b = 1 - rxfill
  BY <1>1 DEF Buffer
<1>5. \A b \in Buffer : rx[b] # NoFrame => rx[b] = arrived - 1 \/ rx[b] = arrived
  BY <1>1, <1>4 DEF RxBuffers
<1>6. ASSUME NEW b \in Buffer, b # RecvBuffer, rx[b] # NoFrame
      PROVE  MayFollow(rx[RecvBuffer], rx[b])
  <2>1. CASE skew = 0
    <3>1. RecvBuffer = rxfill /\ b = 1 - rxfill
      BY <1>1, <1>2, <1>6, <2>1 DEF RxBuffers, InStep, RecvBuffer, Buffer, NoFrame
    <3>2. rx[rxfill] = arrived - 1 /\ rx[1 - rxfill] = arrived
      BY <1>2, <1>6, <3>1 DEF RxBuffers
    <3> QED
      BY <1>1, <3>1, <3>2 DEF MayFollow
  <2>2. CASE skew = 1
    <3>1. \/ rx[RecvBuffer] = arrived /\ rx[b] = arrived - 1
          \/ rx[RecvBuffer] = arrived - 1 /\ rx[b] = arrived
      BY <1>1, <1>2, <1>4, <1>6 DEF RxBuffers, Buffer
    <3> QED
      BY <1>1, <2>2, <3>1 DEF MayFollow
  <2> QED
    BY <1>1, <2>1, <2>2 DEF Buffer
<1> QED
  BY <1>1, <1>2, <1>3, <1>5, <1>6 DEF RxFrame

(***************************************************************************)
(* A frame is read and queued, or dropped.  In the middle of a pq_dequeue  *)
(* of the main loop the slot that it is about to read is not the slot that *)
(* is written: the pool does not let the ring come round.                  *)
(***************************************************************************)
LEMMA RecvHandlerKeeps ==
  ASSUME IInv, RecvHandler
  PROVE  IInv'
<1> DEFINE f == rx[RecvBuffer]
<1>1. /\ UNCHANGED <<rxfill, tx, NextTx, pending, loop, send_q, history>>
      /\ isr = "recv" /\ isr' = "tx" /\ NextRx' = RecvNext
      /\ rx' = [rx EXCEPT ![RecvBuffer] = NoFrame]
      /\ \/ /\ pool > 0
            /\ recv_q' = Enqueue(recv_q, f) /\ pool' = pool - 1
         \/ UNCHANGED <<recv_q, pool>>
  BY DEF RecvHandler
<1>2. /\ TypeOK /\ PbufsAccounted /\ RecvRing /\ RxBuffers /\ ReceivedInOrder
  BY DEF IInv
<1>3. /\ RecvBuffer \in Buffer /\ RecvNext \in Buffer
      /\ f \in RxFrame /\ f # NoFrame /\ f <= arrived /\ f \in AnyRx
      /\ \A b \in Buffer : b # RecvBuffer /\ rx[b] # NoFrame => MayFollow(f, rx[b])
  BY <1>1, <1>2, RecvReads DEF AnyRx
<1>4. /\ rx \in [Buffer -> AnyRx] /\ arrived \in Nat /\ recv_q \in Queue(AnyRx)
      /\ rxfill \in Buffer /\ NextRx \in Buffer
  BY <1>2 DEF TypeOK, AnyRx
<1>5. \A b \in Buffer : rx'[b] = IF b = RecvBuffer THEN NoFrame ELSE rx[b]
  BY <1>1, <1>4
<1> HIDE DEF f
<1>6. RxBuffers'
  <2>1. rx'[rxfill] \in {NoFrame, rx[rxfill]} /\ rx'[1 - rxfill] \in {NoFrame, rx[1 - rxfill]}
    BY <1>4, <1>5 DEF Buffer
  <2>2. skew = 0 => InStep'
    <3> SUFFICES ASSUME skew = 0
                 PROVE  InStep'
      OBVIOUS
    <3>1. InStep /\ \E b \in Buffer : rx[b] # NoFrame
      BY <1>1, <1>2 DEF RxBuffers
    <3> QED
      BY <1>1, <1>4, <1>5, <3>1 DEF InStep, RecvBuffer, RecvNext, Buffer
  <2> QED
    BY <1>1, <1>2, <2>1, <2>2 DEF RxBuffers, history
<1>7. SendRing' /\ HandedInOrder'
  BY <1>1, Frames DEF IInv, history
<1>8. Wakeup'
  BY <1>1 DEF IInv, Wakeup, BacklogHasWakeup
<1>9. CASE UNCHANGED <<recv_q, pool>>
  <2>1. TypeOK'
    BY <1>1, <1>2, <1>3, <1>4, <1>9 DEF TypeOK, loop, history, AnyRx
  <2>2. PbufsAccounted' /\ RecvRing' /\ UNCHANGED Received
    BY <1>1, <1>2, <1>9, Frames DEF loop, history
  <2>3. ReceivedInOrder'
    BY <1>1, <1>2, <1>5, <2>2 DEF ReceivedInOrder, MayFollow, history
  <2> QED
    BY <1>6, <1>7, <1>8, <2>1, <2>2, <2>3 DEF IInv
<1>10. CASE pool > 0 /\ recv_q' = Enqueue(recv_q, f) /\ pool' = pool - 1
  <2>1. /\ Held(recv_q) < QueueSize - 1
        /\ main # "poll" => Held(recv_q) < QueueSize - 2
        /\ Held(recv_q) \in Nat /\ pool \in Nat /\ QueueSize \in Nat
    BY <1>2, <1>10, RoomInRings
  <2>2. /\ recv_q' \in Queue(AnyRx) /\ recv_q'.tail = recv_q.tail
        /\ recv_q'.len = recv_q.len + 1
        /\ Held(recv_q') = Held(recv_q) + 1
        /\ Contents(recv_q') = Append(Contents(recv_q), f)
    BY <1>3, <1>4, <1>10, <2>1, EnqueueAppends
  <2>3. TypeOK'
    <3>1. pool' \in 0 .. PoolSize
      BY <1>2, <1>10, PoolAssumption DEF TypeOK
    <3> QED
      BY <1>1, <1>2, <1>3, <1>4, <2>2, <3>1 DEF TypeOK, loop, history, AnyRx
  <2>4. PbufsAccounted'
    <3>1. Held(send_q) \in Nat /\ unfreed \in Nat
      BY <1>2, RoomInRings
    <3> QED
      BY <1>1, <1>2, <1>10, <2>1, <2>2, <3>1 DEF PbufsAccounted, loop, history
  <2>5. RecvRing'
    <3>1. recv_q.len \in Int /\ loaded \in Int
      BY <1>2, <1>4 DEF TypeOK, Queue
    <3> QED
      BY <1>1, <1>2, <2>1, <2>2, <3>1 DEF RecvRing, LenNeverExceedsHeld, loop
  <2>6. Received' = Append(Received, f)
    <3>1. InHand' = InHand
      <4>1. CASE main \in {"store", "fetch"}
        <5>1. ptail \in Slot /\ recv_q.tail = Following(ptail)
          BY <1>2, <4>1 DEF TypeOK, RecvRing
        <5>2. ptail # recv_q.head
          <6>1. /\ recv_q.tail = IF ptail = QueueSize - 1 THEN 0 ELSE ptail + 1
                /\ ptail \in 0 .. QueueSize - 1
            BY <5>1, FollowingIs DEF Slot
          <6>2. Held(recv_q) = IF recv_q.tail <= recv_q.head
                                 THEN recv_q.head - recv_q.tail
                                 ELSE recv_q.head - recv_q.tail + QueueSize
            BY <1>4, HeldIs
          <6>3. Held(recv_q) < QueueSize - 2
            BY <2>1, <4>1
          <6> QED
            BY <2>1, <6>1, <6>2, <6>3
        <5>3. recv_q'.data = [recv_q.data EXCEPT ![recv_q.head] = f]
          BY <1>4, <1>10 DEF Enqueue, Queue
        <5>4. recv_q'.data[ptail] = recv_q.data[ptail]
          BY <1>4, <5>1, <5>2, <5>3 DEF Queue
        <5> QED
          BY <1>1, <5>4 DEF InHand, loop
      <4>2. CASE main \notin {"store", "fetch"}
        BY <1>1, <4>2 DEF InHand, loop
      <4> QED
        BY <4>1, <4>2
    <3>2. /\ delivered \o InHand \in Seq(AnyRx) /\ Contents(recv_q) \in Seq(AnyRx)
      BY <1>2, ReceivedType
    <3> QED
      BY <1>1, <1>3, <2>2, <3>1, <3>2, ConcatAppend DEF Received, history
  <2>7. ReceivedInOrder'
    <3>1. Received \in Seq(AnyRx)
      BY <1>2, ReceivedType
    <3>2. /\ DOMAIN Received' = 1 .. Len(Received) + 1
          /\ DOMAIN Received = 1 .. Len(Received) /\ Len(Received) \in Nat
          /\ \A i \in 1 .. Len(Received) : Received'[i] = Received[i]
          /\ Received'[Len(Received) + 1] = f
          /\ Elements(Received') = Elements(Received) \cup {f}
      BY <1>3, <2>6, <3>1, Appended
    <3>3. Elements(Received') \subseteq 1 .. arrived
      BY <1>2, <1>3, <3>2 DEF ReceivedInOrder, RxFrame
    <3>4. \A i \in DOMAIN Received : MayFollow(Received[i], f)
      BY <1>2, <1>3 DEF ReceivedInOrder, f
    <3>5. ASSUME NEW i \in DOMAIN Received', NEW j \in DOMAIN Received', i < j
          PROVE  MayFollow(Received'[i], Received'[j])
      <4>1. i \in DOMAIN Received /\ Received'[i] = Received[i]
        BY <3>2, <3>5
      <4>2. CASE j = Len(Received) + 1
        BY <3>2, <3>4, <4>1, <4>2
      <4>3. CASE j # Len(Received) + 1
        <5>1. j \in DOMAIN Received /\ Received'[j] = Received[j]
          BY <3>2, <4>3
        <5> QED
          BY <1>2, <3>5, <4>1, <5>1 DEF ReceivedInOrder
      <4> QED
        BY <4>2, <4>3
    <3>6. ASSUME NEW b \in Buffer, rx'[b] # NoFrame, NEW i \in DOMAIN Received'
          PROVE  MayFollow(Received'[i], rx'[b])
      <4>1. b # RecvBuffer /\ rx'[b] = rx[b]
        BY <1>5, <3>6
      <4>2. CASE i = Len(Received) + 1
        BY <1>3, <3>2, <3>6, <4>1, <4>2
      <4>3. CASE i # Len(Received) + 1
        <5>1. i \in DOMAIN Received /\ Received'[i] = Received[i]
          BY <3>2, <4>3
        <5> QED
          BY <1>2, <3>6, <4>1, <5>1 DEF ReceivedInOrder
      <4> QED
        BY <4>2, <4>3
    <3>7. arrived' = arrived /\ skew' = skew
      BY <1>1 DEF history
    <3> QED
      BY <3>3, <3>5, <3>6, <3>7 DEF ReceivedInOrder, MayFollow
  <2> QED
    BY <1>6, <1>7, <1>8, <2>3, <2>4, <2>5, <2>7 DEF IInv
<1> QED
  BY <1>1, <1>9, <1>10 DEF f

(***************************************************************************)
(* XEmacLite_Send with a transmit buffer available.                        *)
(***************************************************************************)
LEMMA SendFills ==
  ASSUME TypeOK, NEW f, TxBufferAvailable, Send(f)
  PROVE  /\ sent' = Append(sent, f)
         /\ NextTx' \in Buffer /\ tx' \in [Buffer -> {"idle", "busy", "done"}]
         /\ \E b \in Buffer : tx'[b] = "busy"
<1>1. NextTx \in Buffer /\ tx \in [Buffer -> {"idle", "busy", "done"}]
  BY DEF TypeOK
<1>2. /\ NextTx \in Buffer /\ 1 - NextTx \in Buffer
      /\ \A b \in Buffer : b = NextTx \/ b = 1 - NextTx
  BY <1>1 DEF Buffer
<1>3. CASE /\ tx[NextTx] = "idle"
           /\ tx' = [tx EXCEPT ![NextTx] = "busy"] /\ sent' = Append(sent, f)
           /\ NextTx' = 1 - NextTx
  BY <1>1, <1>2, <1>3
<1>4. CASE /\ tx' = [tx EXCEPT ![1 - NextTx] = "busy"] /\ sent' = Append(sent, f)
           /\ NextTx' = NextTx
  BY <1>1, <1>2, <1>4
<1> QED
  BY <1>2, <1>3, <1>4 DEF Send, TxBufferAvailable

(***************************************************************************)
(* Sending the first frame of the backlog changes nothing in the line.     *)
(***************************************************************************)
LEMMA BacklogMovesOn ==
  ASSUME IInv, send_q.len # 0
  PROVE  /\ Dequeue(send_q) \in Queue(AnyTx)
         /\ Dequeue(send_q).len = Held(Dequeue(send_q))
         /\ Held(Dequeue(send_q)) = Held(send_q) - 1
         /\ Front(send_q) \in TxFrame
         /\ Append(sent, Front(send_q)) \in Seq(TxFrame)
         /\ Append(sent, Front(send_q)) \o Contents(Dequeue(send_q)) = Handed
<1>1. TypeOK /\ SendRing /\ HandedInOrder
  BY DEF IInv
<1>2. /\ send_q \in Queue(AnyTx) /\ Held(send_q) \in Nat /\ send_q.len = Held(send_q)
      /\ Held(send_q) > 0 /\ sent \in Seq(TxFrame)
  BY <1>1, HeldIs, QueueAssumption DEF TypeOK, AnyTx, SendRing
<1>3. /\ Dequeue(send_q) \in Queue(AnyTx)
      /\ Dequeue(send_q).len = send_q.len - 1
      /\ Held(Dequeue(send_q)) = Held(send_q) - 1
      /\ Contents(send_q) # << >>
      /\ Contents(Dequeue(send_q)) = Tail(Contents(send_q))
      /\ Front(send_q) = Head(Contents(send_q))
  BY <1>2, DequeueTakesFirst
<1>4. sent \in Seq(AnyTx) /\ Contents(send_q) \in Seq(AnyTx)
  BY <1>1, HandedType
<1>5. Append(sent, Front(send_q)) \o Contents(Dequeue(send_q)) = Handed
  BY <1>3, <1>4, MoveHead DEF Handed
<1>6. Front(send_q) \in TxFrame
  <2>1. Head(Contents(send_q)) \in Elements(Contents(send_q))
    BY <1>3, <1>4 DEF Elements
  <2>2. Elements(Contents(send_q)) \subseteq Elements(Handed)
    BY <1>4, ConcatElements DEF Handed
  <2>3. produced \in 0 .. MaxTx
    BY <1>1 DEF TypeOK
  <2>4. Front(send_q) \in 1 .. produced
    BY <1>1, <1>3, <2>1, <2>2 DEF HandedInOrder
  <2> QED
    BY <2>3, <2>4, PoolAssumption DEF TxFrame
<1> QED
  BY <1>2, <1>3, <1>5, <1>6

(***************************************************************************)
(* The interrupt handler sends one frame of the backlog and frees it.      *)
(***************************************************************************)
LEMMA SendHandlerKeeps ==
  ASSUME IInv, SendHandler
  PROVE  IInv'
<1>1. /\ UNCHANGED <<rx, rxfill, NextRx, loop, recv_q, arrived, delivered,
                     produced, accepted, unfreed, skew>>
      /\ isr = "send" /\ isr' = "idle" /\ pending' = FALSE
      /\ TxBufferAvailable
  BY DEF SendHandler, IInv, Wakeup
<1>2. TypeOK /\ PbufsAccounted /\ HandedInOrder
  BY DEF IInv
<1>3. /\ RecvRing' /\ RxBuffers' /\ ReceivedInOrder'
  BY <1>1, Frames DEF IInv, loop
<1>4. CASE send_q.len # 0
  <2>1. /\ Send(Front(send_q)) /\ send_q' = Dequeue(send_q) /\ pool' = pool + 1
    BY <1>1, <1>4 DEF SendHandler
  <2>2. /\ Dequeue(send_q) \in Queue(AnyTx)
        /\ Dequeue(send_q).len = Held(Dequeue(send_q))
        /\ Held(Dequeue(send_q)) = Held(send_q) - 1
        /\ Append(sent, Front(send_q)) \in Seq(TxFrame)
        /\ Append(sent, Front(send_q)) \o Contents(Dequeue(send_q)) = Handed
    BY <1>4, BacklogMovesOn
  <2>3. /\ sent' = Append(sent, Front(send_q))
        /\ NextTx' \in Buffer /\ tx' \in [Buffer -> {"idle", "busy", "done"}]
        /\ \E b \in Buffer : tx'[b] = "busy"
    BY <1>1, <1>2, <2>1, SendFills
  <2>4. PbufsAccounted' /\ pool' \in 0 .. PoolSize
    <3>1. /\ Held(send_q) \in Nat /\ Held(recv_q) \in Nat /\ pool \in Nat
          /\ unfreed \in Nat /\ Held(send_q') = Held(send_q) - 1
          /\ Held(send_q') \in Nat
      BY <1>2, <2>1, <2>2, RoomInRings, HeldIs, QueueAssumption
    <3> QED
      BY <1>1, <1>2, <2>1, <3>1, PoolAssumption DEF PbufsAccounted, loop
  <2>5. TypeOK'
    BY <1>1, <1>2, <2>1, <2>2, <2>3, <2>4 DEF TypeOK, loop, AnyTx
  <2>6. SendRing'
    BY <2>1, <2>2 DEF SendRing
  <2>7. HandedInOrder'
    <3>1. Handed' = Handed
      BY <2>1, <2>2, <2>3 DEF Handed
    <3> QED
      BY <1>1, <1>2, <3>1 DEF HandedInOrder
  <2>8. Wakeup'
    BY <1>1, <2>3 DEF Wakeup, BacklogHasWakeup
  <2> QED
    BY <1>3, <2>4, <2>5, <2>6, <2>7, <2>8 DEF IInv
<1>5. CASE send_q.len = 0
  <2>1. UNCHANGED <<tx, NextTx, sent, send_q, pool>>
    BY <1>5 DEF SendHandler
  <2>2. TypeOK'
    BY <1>1, <1>2, <2>1 DEF TypeOK, loop
  <2>3. PbufsAccounted' /\ SendRing' /\ HandedInOrder'
    BY <1>1, <2>1, Frames DEF IInv, loop
  <2>4. Wakeup'
    BY <1>1, <1>5, <2>1 DEF Wakeup, BacklogHasWakeup, TxBufferAvailable
  <2> QED
    BY <1>3, <2>2, <2>3, <2>4 DEF IInv
<1> QED
  BY <1>4, <1>5

-----------------------------------------------------------------------------
(***************************************************************************)
(* The main loop.                                                          *)
(***************************************************************************)

(***************************************************************************)
(* pq_dequeue moves the tail on: the first entry is in hand.               *)
(***************************************************************************)
LEMMA BeginDequeueKeeps ==
  ASSUME IInv, BeginDequeue
  PROVE  IInv'
<1>1. /\ UNCHANGED <<mac, driver, pending, isr, send_q, pool, history>>
      /\ main = "poll" /\ main' = "store" /\ recv_q.len # 0
      /\ loaded' = recv_q.len /\ ptail' = recv_q.tail
      /\ recv_q' = [recv_q EXCEPT !.tail = Following(recv_q.tail)]
  BY DEF BeginDequeue
<1>2. TypeOK /\ PbufsAccounted /\ RecvRing
  BY DEF IInv
<1>3. /\ recv_q \in Queue(AnyRx) /\ recv_q.tail \in Slot /\ recv_q.len \in Int
      /\ recv_q.data \in [Slot -> AnyRx]
  BY <1>2 DEF TypeOK, AnyRx, Queue
<1>4. Following(recv_q.tail) \in Slot
  BY <1>3, FollowingIs
<1>5. /\ recv_q' \in Queue(AnyRx) /\ recv_q'.tail = Following(recv_q.tail)
      /\ recv_q'.len = recv_q.len /\ recv_q'.data = recv_q.data
      /\ recv_q'.head = recv_q.head
  BY <1>1, <1>3, <1>4 DEF Queue
<1>6. Held(recv_q) \in Nat /\ Held(recv_q) >= recv_q.len /\ recv_q.len > 0
  BY <1>1, <1>2, <1>3, HeldIs, QueueAssumption DEF RecvRing, LenNeverExceedsHeld
<1>7. /\ Held(recv_q') = Held(recv_q) - 1
      /\ Contents(recv_q) # << >>
      /\ Contents(recv_q') = Tail(Contents(recv_q))
      /\ recv_q.data[recv_q.tail] = Head(Contents(recv_q))
  BY <1>3, <1>5, <1>6, TailMoves
<1>8. TypeOK'
  BY <1>1, <1>2, <1>3, <1>5 DEF TypeOK, mac, driver, history, AnyRx
<1>9. PbufsAccounted'
  <2>1. Held(send_q) \in Nat /\ pool \in Nat /\ unfreed \in Nat
    BY <1>2, RoomInRings
  <2> QED
    BY <1>1, <1>2, <1>6, <1>7, <2>1 DEF PbufsAccounted, history
<1>10. RecvRing'
  BY <1>1, <1>2, <1>3, <1>5, <1>6, <1>7 DEF RecvRing, LenNeverExceedsHeld
<1>11. Received' = Received
  <2>1. /\ delivered \in Seq(AnyRx) /\ Contents(recv_q) \in Seq(AnyRx)
    BY <1>2, ReceivedType
  <2>2. InHand = << >> /\ InHand' = << Head(Contents(recv_q)) >>
    BY <1>1, <1>5, <1>7 DEF InHand
  <2>3. delivered \o << >> = delivered
    BY <2>1
  <2>4. delivered \o << Head(Contents(recv_q)) >> = Append(delivered, Head(Contents(recv_q)))
    BY <1>7, <2>1
  <2>5. Append(delivered, Head(Contents(recv_q))) \o Tail(Contents(recv_q))
          = delivered \o Contents(recv_q)
    BY <1>7, <2>1, MoveHead
  <2>6. Received = delivered \o Contents(recv_q)
    BY <2>2, <2>3 DEF Received
  <2>7. Received' = (delivered \o << Head(Contents(recv_q)) >>) \o Tail(Contents(recv_q))
    BY <1>1, <1>7, <2>2 DEF Received, history
  <2> QED
    BY <2>4, <2>5, <2>6, <2>7
<1>12. SendRing' /\ HandedInOrder' /\ RxBuffers' /\ ReceivedInOrder' /\ Wakeup'
  BY <1>1, <1>11, Frames DEF IInv, mac, driver, history
<1> QED
  BY <1>8, <1>9, <1>10, <1>12 DEF IInv

(***************************************************************************)
(* The length may be loaded again before it is stored.                     *)
(***************************************************************************)
LEMMA ReloadKeeps ==
  ASSUME IInv, Reload
  PROVE  IInv'
<1>1. /\ UNCHANGED <<mac, driver, pending, isr, main, ptail, recv_q, send_q, pool, history>>
      /\ main = "store" /\ loaded' = recv_q.len
  BY DEF Reload
<1>2. TypeOK /\ RecvRing /\ recv_q.len \in Int /\ loaded \in Int
  BY DEF IInv, TypeOK, Queue
<1>3. TypeOK'
  BY <1>1, <1>2 DEF TypeOK, mac, driver, history
<1>4. RecvRing'
  BY <1>1, <1>2 DEF RecvRing, LenNeverExceedsHeld
<1>5. /\ PbufsAccounted' /\ SendRing' /\ HandedInOrder' /\ RxBuffers'
      /\ ReceivedInOrder' /\ Wakeup'
  BY <1>1, Frames DEF IInv, mac, driver, history
<1> QED
  BY <1>3, <1>4, <1>5 DEF IInv

(***************************************************************************)
(* The store may overwrite what the handler has counted since the load:    *)
(* the length becomes too small, never too large.                          *)
(***************************************************************************)
LEMMA StoreKeeps ==
  ASSUME IInv, Store
  PROVE  IInv'
<1>1. /\ UNCHANGED <<mac, driver, pending, isr, loaded, ptail, send_q, pool, history>>
      /\ main = "store" /\ main' = "fetch"
      /\ recv_q' = [recv_q EXCEPT !.len = loaded - 1]
  BY DEF Store
<1>2. TypeOK /\ RecvRing /\ PbufsAccounted
  BY DEF IInv
<1>3. /\ recv_q \in Queue(AnyRx) /\ loaded \in Int /\ loaded - 1 \in Int
      /\ recv_q.len \in Int
  BY <1>2 DEF TypeOK, AnyRx, Queue
<1>4. /\ recv_q' \in Queue(AnyRx) /\ recv_q'.len = loaded - 1
      /\ recv_q'.tail = recv_q.tail /\ recv_q'.head = recv_q.head
      /\ recv_q'.data = recv_q.data
  BY <1>1, <1>3 DEF Queue
<1>5. Held(recv_q') = Held(recv_q) /\ Contents(recv_q') = Contents(recv_q)
  BY <1>3, <1>4, SameContents
<1>6. TypeOK'
  BY <1>1, <1>2, <1>3, <1>4 DEF TypeOK, mac, driver, history, AnyRx
<1>7. RecvRing'
  <2>1. Held(recv_q) \in Int
    BY <1>3, HeldIs, QueueAssumption
  <2> QED
    BY <1>1, <1>2, <1>3, <1>4, <1>5, <2>1 DEF RecvRing, LenNeverExceedsHeld
<1>8. PbufsAccounted' /\ UNCHANGED Received
  BY <1>1, <1>2, <1>4, <1>5 DEF PbufsAccounted, Received, InHand, history
<1>9. SendRing' /\ HandedInOrder' /\ RxBuffers' /\ ReceivedInOrder' /\ Wakeup'
  BY <1>1, <1>8, Frames DEF IInv, mac, driver, history
<1> QED
  BY <1>6, <1>7, <1>8, <1>9 DEF IInv

(***************************************************************************)
(* What is read from the slot is the frame that was first in the queue.    *)
(***************************************************************************)
LEMMA FetchKeeps ==
  ASSUME IInv, Fetch
  PROVE  IInv'
<1> DEFINE f == recv_q.data[ptail]
<1>1. /\ UNCHANGED <<mac, driver, pending, isr, loaded, ptail, recv_q, send_q, pool,
                     arrived, produced, accepted, sent, unfreed, skew>>
      /\ main = "fetch" /\ main' = "input"
      /\ delivered' = Append(delivered, f)
  BY DEF Fetch
<1>2. TypeOK /\ RecvRing /\ PbufsAccounted /\ ReceivedInOrder
  BY DEF IInv
<1>3. /\ delivered \in Seq(AnyRx) /\ InHand \in Seq(AnyRx)
      /\ Contents(recv_q) \in Seq(AnyRx) /\ delivered \o InHand \in Seq(AnyRx)
      /\ Received \in Seq(AnyRx)
  BY <1>2, ReceivedType
<1>4. InHand = << f >> /\ InHand' = << >>
  BY <1>1 DEF InHand
<1>5. f \in RxFrame
  <2>1. f \in Elements(InHand)
    BY <1>4 DEF Elements
  <2>2. Elements(InHand) \subseteq Elements(delivered \o InHand)
    BY <1>3, ConcatElements
  <2>3. Elements(delivered \o InHand) \subseteq Elements(Received)
    <3>1. Elements((delivered \o InHand) \o Contents(recv_q))
            = Elements(delivered \o InHand) \cup Elements(Contents(recv_q))
      BY <1>3, ConcatElements
    <3> QED
      BY <3>1 DEF Received
  <2>4. f \in 1 .. arrived /\ arrived \in 0 .. MaxRx
    BY <1>2, <2>1, <2>2, <2>3 DEF ReceivedInOrder, TypeOK
  <2> QED
    BY <2>4, PoolAssumption DEF RxFrame
<1> HIDE DEF f
<1>6. TypeOK'
  <2>1. delivered' \in Seq(RxFrame)
    BY <1>1, <1>2, <1>5 DEF TypeOK
  <2> QED
    BY <1>1, <1>2, <2>1 DEF TypeOK, mac, driver
<1>7. RecvRing' /\ PbufsAccounted'
  BY <1>1, <1>2 DEF RecvRing, LenNeverExceedsHeld, PbufsAccounted
<1>8. Received' = Received
  <2>1. Append(delivered, f) \o << >> = delivered \o << f >>
    BY <1>3, <1>5 DEF AnyRx
  <2> QED
    BY <1>1, <1>4, <2>1 DEF Received
<1>9. SendRing' /\ HandedInOrder' /\ RxBuffers' /\ ReceivedInOrder' /\ Wakeup'
  BY <1>1, <1>8, Frames DEF IInv, mac, driver
<1> QED
  BY <1>6, <1>7, <1>9 DEF IInv

(***************************************************************************)
(* The pbuf goes back to the pool.                                         *)
(***************************************************************************)
LEMMA InputDoneKeeps ==
  ASSUME IInv, InputDone
  PROVE  IInv'
<1>1. /\ UNCHANGED <<mac, driver, pending, isr, loaded, ptail, recv_q, send_q, history>>
      /\ main = "input" /\ main' = "poll" /\ pool' = pool + 1
  BY DEF InputDone
<1>2. TypeOK /\ RecvRing /\ PbufsAccounted
  BY DEF IInv
<1>3. PbufsAccounted' /\ pool' \in 0 .. PoolSize
  <2>1. /\ Held(recv_q) \in Nat /\ Held(send_q) \in Nat /\ pool \in Nat /\ unfreed \in Nat
    BY <1>2, RoomInRings
  <2> QED
    BY <1>1, <1>2, <2>1, PoolAssumption DEF PbufsAccounted, history
<1>4. TypeOK'
  BY <1>1, <1>2, <1>3 DEF TypeOK, mac, driver, history
<1>5. RecvRing' /\ UNCHANGED Received
  BY <1>1, <1>2 DEF RecvRing, LenNeverExceedsHeld, Received, InHand, history
<1>6. SendRing' /\ HandedInOrder' /\ RxBuffers' /\ ReceivedInOrder' /\ Wakeup'
  BY <1>1, <1>5, Frames DEF IInv, mac, driver, history
<1> QED
  BY <1>3, <1>4, <1>5, <1>6 DEF IInv

(***************************************************************************)
(* A new frame goes to the end of the line or is refused.                  *)
(***************************************************************************)
LEMMA LineGrows ==
  ASSUME TypeOK, HandedInOrder, produced < MaxTx, produced' = produced + 1,
         \/ Handed' = Handed /\ accepted' = accepted
         \/ Handed' = Append(Handed, produced + 1) /\ accepted' = accepted \cup {produced + 1}
  PROVE  HandedInOrder' /\ accepted' \subseteq TxFrame /\ produced' \in 0 .. MaxTx
<1>1. /\ produced \in Nat /\ produced + 1 \in TxFrame /\ accepted \subseteq TxFrame
      /\ Handed \in Seq(AnyTx) /\ produced + 1 \in AnyTx /\ produced + 1 \in 0 .. MaxTx
  BY HandedType, PoolAssumption DEF TypeOK, TxFrame, AnyTx
<1>2. CASE Handed' = Handed /\ accepted' = accepted
  <2>1. Elements(Handed) \subseteq 1 .. produced + 1
    BY <1>1 DEF HandedInOrder
  <2> QED
    BY <1>1, <1>2, <2>1 DEF HandedInOrder
<1>3. CASE Handed' = Append(Handed, produced + 1) /\ accepted' = accepted \cup {produced + 1}
  <2>1. /\ DOMAIN Handed' = 1 .. Len(Handed) + 1
        /\ DOMAIN Handed = 1 .. Len(Handed) /\ Len(Handed) \in Nat
        /\ \A i \in 1 .. Len(Handed) : Handed'[i] = Handed[i]
        /\ Handed'[Len(Handed) + 1] = produced + 1
        /\ Elements(Handed') = Elements(Handed) \cup {produced + 1}
    BY <1>1, <1>3, Appended
  <2>2. Elements(Handed') \subseteq 1 .. produced + 1
    BY <1>1, <2>1 DEF HandedInOrder
  <2>3. Increasing(Handed')
    <3> SUFFICES ASSUME NEW i \in DOMAIN Handed', NEW j \in DOMAIN Handed', i < j
                 PROVE  Handed'[i] < Handed'[j]
      BY DEF Increasing
    <3>1. i \in DOMAIN Handed /\ Handed'[i] = Handed[i]
      BY <2>1
    <3>2. CASE j = Len(Handed) + 1
      <4>1. Handed[i] \in 1 .. produced
        BY <3>1 DEF HandedInOrder, Elements
      <4> QED
        BY <1>1, <2>1, <3>1, <3>2, <4>1
    <3>3. CASE j # Len(Handed) + 1
      <4>1. j \in DOMAIN Handed /\ Handed'[j] = Handed[j]
        BY <2>1, <3>3
      <4> QED
        BY <3>1, <4>1 DEF HandedInOrder, Increasing
    <3> QED
      BY <3>2, <3>3
  <2>4. accepted' \subseteq Elements(Handed')
    BY <1>3, <2>1 DEF HandedInOrder
  <2> QED
    BY <1>1, <1>3, <2>2, <2>3, <2>4 DEF HandedInOrder
<1> QED
  BY <1>2, <1>3

(***************************************************************************)
(* A pbuf that only moves between the pool, the backlog and those that     *)
(* nobody frees.                                                           *)
(***************************************************************************)
LEMMA PbufsMove ==
  ASSUME TypeOK, PbufsAccounted, UNCHANGED <<main, recv_q>>,
         NEW p \in Nat, NEW h \in Nat, NEW u \in Nat,
         p + h + u = pool + Held(send_q) + unfreed,
         pool' = p, Held(send_q') = h, unfreed' = u
  PROVE  PbufsAccounted' /\ pool' \in 0 .. PoolSize /\ unfreed' \in 0 .. PoolSize
<1>1. /\ Held(recv_q) \in Nat /\ Held(send_q) \in Nat /\ pool \in Nat
      /\ unfreed \in Nat /\ PoolSize \in Nat
  BY RoomInRings, PoolAssumption
<1>2. CASE main = "poll"
  <2>1. p + h + u + Held(recv_q) = PoolSize
    BY <1>1, <1>2 DEF PbufsAccounted
  <2> QED
    BY <1>1, <1>2, <2>1 DEF PbufsAccounted
<1>3. CASE main # "poll"
  <2>1. p + h + u + Held(recv_q) + 1 = PoolSize
    BY <1>1, <1>3 DEF PbufsAccounted
  <2> QED
    BY <1>1, <1>3, <2>1 DEF PbufsAccounted
<1> QED
  BY <1>2, <1>3

(***************************************************************************)
(* The end of low_level_output.  Full cannot be true: the pool is empty    *)
(* before a queue is full, so that the pbuf is never lost there.           *)
(***************************************************************************)
LEMMA BacklogKeeps ==
  ASSUME IInv, produced < MaxTx, produced' = produced + 1,
         UNCHANGED <<main, recv_q>>,
         NEW q \in Queue(AnyTx), q.len = Held(q),
         NEW lost \in {0, 1}, Held(q) + lost = Held(send_q),
         sent' \in Seq(TxFrame), sent' \o Contents(q) = Handed,
         Backlog(q, produced + 1, lost)
  PROVE  /\ send_q' \in Queue(AnyTx) /\ pool' \in 0 .. PoolSize
         /\ unfreed' \in 0 .. PoolSize /\ accepted' \subseteq TxFrame
         /\ produced' \in 0 .. MaxTx
         /\ PbufsAccounted' /\ SendRing' /\ HandedInOrder'
<1>1. TypeOK /\ PbufsAccounted /\ HandedInOrder
  BY DEF IInv
<1>2. /\ Held(send_q) \in Nat /\ Held(recv_q) \in Nat /\ Held(q) \in Nat
      /\ pool \in Nat /\ unfreed \in Nat /\ QueueSize \in Nat /\ PoolSize \in Nat
      /\ Held(send_q) + pool < QueueSize
  BY <1>1, RoomInRings, HeldIs, QueueAssumption, PoolAssumption
<1>0. /\ lost \in Nat /\ Held(q) + lost = Held(send_q)
      /\ main' = main /\ Held(recv_q') = Held(recv_q)
  OBVIOUS
<1>3. produced + 1 \in AnyTx
  BY <1>1, PoolAssumption DEF TypeOK, TxFrame, AnyTx
<1>4. Contents(q) \in Seq(AnyTx) /\ sent' \in Seq(AnyTx)
  BY ContentsAre DEF AnyTx
<1>5. CASE pool = 0 /\ send_q' = q /\ unfreed' = unfreed + lost
           /\ pool' = pool /\ accepted' = accepted
  <2>1. /\ pool + Held(q) + (unfreed + lost) = pool + Held(send_q) + unfreed
        /\ unfreed + lost \in Nat
    BY <1>0, <1>2
  <2>4. PbufsAccounted' /\ unfreed' \in 0 .. PoolSize /\ pool' \in 0 .. PoolSize
    <3>1. Held(send_q') = Held(q) /\ pool' = pool /\ unfreed' = unfreed + lost
      BY <1>5
    <3> QED
      BY <1>1, <1>2, <2>1, <3>1, PbufsMove
  <2>2. SendRing'
    BY <1>5 DEF SendRing
  <2>3. Handed' = Handed
    BY <1>5 DEF Handed
  <2> QED
    BY <1>1, <1>2, <1>5, <2>2, <2>3, <2>4, LineGrows
<1>6. CASE /\ pool > 0 /\ send_q' = Enqueue(q, produced + 1)
           /\ unfreed' = unfreed + lost /\ pool' = pool - 1
           /\ accepted' = accepted \cup {produced + 1}
  <2>1. Held(q) < QueueSize - 1
    BY <1>0, <1>2, <1>6
  <2>2. /\ send_q' \in Queue(AnyTx) /\ send_q'.len = q.len + 1
        /\ Held(send_q') = Held(q) + 1
        /\ Contents(send_q') = Append(Contents(q), produced + 1)
    BY <1>3, <1>6, <2>1, EnqueueAppends
  <2>3. PbufsAccounted' /\ unfreed' \in 0 .. PoolSize /\ pool' \in 0 .. PoolSize
    <3>1. /\ (pool - 1) + (Held(q) + 1) + (unfreed + lost) = pool + Held(send_q) + unfreed
          /\ pool - 1 \in Nat /\ Held(q) + 1 \in Nat /\ unfreed + lost \in Nat
      <4>1. pool > 0 /\ pool - 1 \in Nat
        BY <1>2, <1>6
      <4>2. unfreed + lost \in Nat
        BY <1>0, <1>2
      <4>3. Held(q) + 1 \in Nat
        BY <1>2
      <4>4. (pool - 1) + (Held(q) + 1) + (unfreed + lost)
              = pool + (Held(q) + lost) + unfreed
        BY <1>0, <1>2
      <4> QED
        BY <1>0, <4>1, <4>2, <4>3, <4>4
    <3>2. Held(send_q') = Held(q) + 1 /\ pool' = pool - 1 /\ unfreed' = unfreed + lost
      BY <1>6, <2>2
    <3> QED
      BY <1>1, <3>1, <3>2, PbufsMove
  <2>4. SendRing'
    BY <2>2 DEF SendRing
  <2>5. Handed' = Append(Handed, produced + 1)
    <3>1. sent' \o Append(Contents(q), produced + 1)
            = Append(sent' \o Contents(q), produced + 1)
      BY <1>3, <1>4, ConcatAppend
    <3> QED
      BY <2>2, <3>1 DEF Handed
  <2> QED
    BY <1>1, <1>6, <2>2, <2>3, <2>4, <2>5, LineGrows
<1>7. ~ Full(q)
  BY <1>2 DEF Full
<1> QED
  BY <1>5, <1>6, <1>7 DEF Backlog

(***************************************************************************)
(* low_level_output, in each of its three branches.                        *)
(***************************************************************************)
LEMMA OutputKeeps ==
  ASSUME IInv, Output
  PROVE  IInv'
<1> DEFINE f == produced + 1
<1>1. /\ UNCHANGED <<rx, rxfill, NextRx, pending, isr, loop, recv_q, arrived,
                     delivered, skew>>
      /\ isr = "idle" /\ produced < MaxTx /\ produced' = f
      /\ LowLevelOutput(f)
  BY DEF Output
<1>2. TypeOK /\ PbufsAccounted /\ SendRing /\ HandedInOrder /\ Wakeup
  BY DEF IInv
<1>3. /\ f \in TxFrame /\ f \in AnyTx /\ send_q \in Queue(AnyTx)
      /\ sent \in Seq(TxFrame) /\ sent \in Seq(AnyTx)
      /\ Contents(send_q) \in Seq(AnyTx)
  BY <1>1, <1>2, HandedType, PoolAssumption DEF TypeOK, TxFrame, AnyTx
<1>4. RecvRing' /\ RxBuffers' /\ ReceivedInOrder'
  BY <1>1, Frames DEF IInv, loop
<1>5. SUFFICES /\ sent' \in Seq(TxFrame) /\ NextTx' \in Buffer
               /\ tx' \in [Buffer -> {"idle", "busy", "done"}]
               /\ send_q' \in Queue(AnyTx) /\ pool' \in 0 .. PoolSize
               /\ unfreed' \in 0 .. PoolSize /\ accepted' \subseteq TxFrame
               /\ produced' \in 0 .. MaxTx
               /\ PbufsAccounted' /\ SendRing' /\ HandedInOrder' /\ Wakeup'
  <2>1. ASSUME /\ sent' \in Seq(TxFrame) /\ NextTx' \in Buffer
               /\ tx' \in [Buffer -> {"idle", "busy", "done"}]
               /\ send_q' \in Queue(AnyTx) /\ pool' \in 0 .. PoolSize
               /\ unfreed' \in 0 .. PoolSize /\ accepted' \subseteq TxFrame
               /\ produced' \in 0 .. MaxTx
        PROVE  TypeOK'
    BY <1>1, <1>2, <2>1 DEF TypeOK, loop, AnyTx
  <2> QED
    BY <1>4, <2>1 DEF IInv
<1>6. CASE /\ TxBufferAvailable /\ send_q.len = 0
           /\ Send(f)
           /\ accepted' = accepted \cup {f}
           /\ UNCHANGED <<send_q, pool, unfreed>>
  <2>1. /\ sent' = Append(sent, f)
        /\ NextTx' \in Buffer /\ tx' \in [Buffer -> {"idle", "busy", "done"}]
        /\ \E b \in Buffer : tx'[b] = "busy"
    BY <1>2, <1>6, SendFills
  <2>2. Contents(send_q) = << >>
    <3>1. Contents(send_q) \in Seq(AnyTx) /\ Len(Contents(send_q)) = 0
      BY <1>2, <1>3, <1>6, ContentsAre DEF SendRing
    <3> QED
      BY <3>1
  <2>3. Handed' = Append(Handed, f)
    <3>1. Append(sent, f) \o << >> = Append(sent \o << >>, f)
      BY <1>3
    <3> QED
      BY <1>6, <2>1, <2>2, <3>1 DEF Handed
  <2>4. HandedInOrder' /\ accepted' \subseteq TxFrame /\ produced' \in 0 .. MaxTx
    BY <1>1, <1>2, <1>6, <2>3, LineGrows
  <2>5. PbufsAccounted' /\ SendRing'
    BY <1>1, <1>2, <1>6, Frames DEF loop
  <2>6. Wakeup'
    BY <1>1, <2>1 DEF Wakeup, BacklogHasWakeup
  <2>7. send_q' \in Queue(AnyTx) /\ pool' \in 0 .. PoolSize /\ unfreed' \in 0 .. PoolSize
    BY <1>2, <1>3, <1>6 DEF TypeOK
  <2>8. sent' \in Seq(TxFrame)
    BY <1>3, <2>1
  <2> QED
    BY <2>1, <2>4, <2>5, <2>6, <2>7, <2>8
<1>7. CASE /\ TxBufferAvailable /\ send_q.len # 0
           /\ Send(Front(send_q))
           /\ Backlog(Dequeue(send_q), f, 1)
  <2>1. /\ Dequeue(send_q) \in Queue(AnyTx)
        /\ Dequeue(send_q).len = Held(Dequeue(send_q))
        /\ Held(Dequeue(send_q)) = Held(send_q) - 1
        /\ Append(sent, Front(send_q)) \in Seq(TxFrame)
        /\ Append(sent, Front(send_q)) \o Contents(Dequeue(send_q)) = Handed
    BY <1>7, BacklogMovesOn
  <2>2. /\ sent' = Append(sent, Front(send_q))
        /\ NextTx' \in Buffer /\ tx' \in [Buffer -> {"idle", "busy", "done"}]
        /\ \E b \in Buffer : tx'[b] = "busy"
    BY <1>2, <1>7, SendFills
  <2>3. Held(Dequeue(send_q)) + 1 = Held(send_q)
    BY <1>2, <2>1, RoomInRings
  <2>4. /\ send_q' \in Queue(AnyTx) /\ pool' \in 0 .. PoolSize
        /\ unfreed' \in 0 .. PoolSize /\ accepted' \subseteq TxFrame
        /\ produced' \in 0 .. MaxTx
        /\ PbufsAccounted' /\ SendRing' /\ HandedInOrder'
    BY <1>1, <1>7, <2>1, <2>2, <2>3, BacklogKeeps DEF loop
  <2>5. Wakeup'
    BY <1>1, <2>2 DEF Wakeup, BacklogHasWakeup
  <2> QED
    BY <2>1, <2>2, <2>4, <2>5
<1>8. CASE /\ ~ TxBufferAvailable
           /\ Backlog(send_q, f, 0)
           /\ UNCHANGED <<tx, NextTx, sent>>
  <2>1. Held(send_q) + 0 = Held(send_q) /\ send_q.len = Held(send_q)
    BY <1>2, RoomInRings DEF SendRing
  <2>2. sent' \in Seq(TxFrame) /\ sent' \o Contents(send_q) = Handed
    BY <1>3, <1>8 DEF Handed
  <2>3. /\ send_q' \in Queue(AnyTx) /\ pool' \in 0 .. PoolSize
        /\ unfreed' \in 0 .. PoolSize /\ accepted' \subseteq TxFrame
        /\ produced' \in 0 .. MaxTx
        /\ PbufsAccounted' /\ SendRing' /\ HandedInOrder'
    BY <1>1, <1>3, <1>8, <2>1, <2>2, BacklogKeeps DEF loop
  <2>4. Wakeup'
    <3>1. tx \in [Buffer -> {"idle", "busy", "done"}] /\ \A b \in Buffer : tx[b] # "idle"
      BY <1>2, <1>8 DEF TypeOK, TxBufferAvailable
    <3>2. \A b \in Buffer : tx[b] \in {"idle", "busy", "done"}
      BY <3>1
    <3>3. isr = "idle" /\ ~ pending => \E b \in Buffer : tx[b] = "busy"
      BY <1>2, <3>1, <3>2 DEF Wakeup
    <3>4. 0 \in Buffer
      BY DEF Buffer
    <3> QED
      BY <1>1, <1>2, <1>8, <3>1, <3>3, <3>4 DEF Wakeup, BacklogHasWakeup
  <2>5. NextTx' \in Buffer /\ tx' \in [Buffer -> {"idle", "busy", "done"}]
    BY <1>2, <1>8 DEF TypeOK
  <2> QED
    BY <2>2, <2>3, <2>4, <2>5
<1> QED
  BY <1>1, <1>6, <1>7, <1>8 DEF LowLevelOutput

-----------------------------------------------------------------------------
(***************************************************************************)
(* The invariant holds in every reachable state.                           *)
(***************************************************************************)
LEMMA IInvHolds == Spec => []IInv
<1>1. IInv /\ [Next]_vars => IInv'
  <2> SUFFICES ASSUME IInv, [Next]_vars
               PROVE  IInv'
    OBVIOUS
  <2>1. CASE UNCHANGED vars
    <3>1. /\ UNCHANGED <<mac, driver, pending, isr, loop, recv_q, send_q, pool, history>>
      BY <2>1 DEF vars
    <3>2. TypeOK'
      BY <3>1 DEF IInv, TypeOK, mac, driver, loop, history
    <3> QED
      BY <3>1, <3>2, Frames DEF IInv, mac, driver, loop, history
  <2>2. CASE Handler
    BY <2>2, InterruptKeeps, RxCheckKeeps, RecvHandlerKeeps, TxCheckKeeps,
       SendHandlerKeeps DEF Handler
  <2>3. CASE MainLoop
    BY <2>3, BeginDequeueKeeps, StoreKeeps, FetchKeeps, InputDoneKeeps DEF MainLoop
  <2> QED
    BY <2>1, <2>2, <2>3, ArriveKeeps, TransmittedKeeps, ReloadKeeps, OutputKeeps DEF Next
<1> QED
  BY <1>1, IInvInit, PTL DEF Spec

(***************************************************************************)
(* Type correctness: no null pointer is ever taken out of a queue, the     *)
(* pool never underflows and is never filled above its size.               *)
(***************************************************************************)
THEOREM EmacTypeCorrect == Spec => []TypeOK
BY IInvHolds, PTL DEF IInv

(***************************************************************************)
(* No pbuf is freed twice, and the only ones that get lost are those that  *)
(* low_level_output does not free.                                         *)
(***************************************************************************)
THEOREM EmacPbufsAccounted == Spec => []PbufsAccounted
BY IInvHolds, PTL DEF IInv

(***************************************************************************)
(* The race on recv_q->len never makes it count an entry that is not there.*)
(***************************************************************************)
THEOREM EmacLenNeverExceedsHeld == Spec => []LenNeverExceedsHeld
BY IInvHolds, PTL DEF IInv, RecvRing

(***************************************************************************)
(* Frames reach the stack in the order of their arrival, whatever the      *)
(* handler does in the middle of pq_dequeue.                               *)
(***************************************************************************)
THEOREM EmacDeliveryInOrder == Spec => []DeliveryInOrder
<1>1. IInv => DeliveryInOrder
  <2> SUFFICES ASSUME IInv, NEW i \in DOMAIN delivered, NEW j \in DOMAIN delivered, i < j
               PROVE  \/ delivered[i] < delivered[j]
                      \/ skew = 1 /\ delivered[i] = delivered[j] + 1
    BY DEF DeliveryInOrder
  <2>1. /\ delivered \in Seq(AnyRx) /\ InHand \in Seq(AnyRx)
        /\ Contents(recv_q) \in Seq(AnyRx)
    BY ReceivedType DEF IInv
  <2>2. \A k \in DOMAIN delivered : k \in DOMAIN Received /\ Received[k] = delivered[k]
    BY <2>1 DEF Received
  <2> QED
    BY <2>2 DEF IInv, ReceivedInOrder, MayFollow
<1> QED
  BY <1>1, IInvHolds, PTL

(***************************************************************************)
(* Frames are handed to the MAC in the order in which the stack output     *)
(* them.                                                                   *)
(***************************************************************************)
THEOREM EmacSentInOrder == Spec => []SentInOrder
<1>1. IInv => SentInOrder
  <2> SUFFICES ASSUME IInv, NEW i \in DOMAIN sent, NEW j \in DOMAIN sent, i < j
               PROVE  sent[i] < sent[j]
    BY DEF SentInOrder, Increasing
  <2>1. sent \in Seq(AnyTx) /\ Contents(send_q) \in Seq(AnyTx)
    BY HandedType DEF IInv
  <2>2. \A k \in DOMAIN sent : k \in DOMAIN Handed /\ Handed[k] = sent[k]
    BY <2>1 DEF Handed
  <2> QED
    BY <2>2 DEF IInv, HandedInOrder, Increasing
<1> QED
  BY <1>1, IInvHolds, PTL

(***************************************************************************)
(* A frame that low_level_output has accepted is sent or still queued.     *)
(***************************************************************************)
THEOREM EmacAcceptedNotLost == Spec => []AcceptedNotLost
<1>1. IInv => AcceptedNotLost
  BY HandedType, ConcatElements DEF IInv, HandedInOrder, AcceptedNotLost, Handed
<1> QED
  BY <1>1, IInvHolds, PTL

(***************************************************************************)
(* A backlog never lies there with nobody to look at it, although the      *)
(* handlers acknowledge interrupts that they have not seen.                *)
(***************************************************************************)
THEOREM EmacBacklogHasWakeup == Spec => []BacklogHasWakeup
BY IInvHolds, PTL DEF IInv, Wakeup

=============================================================================
