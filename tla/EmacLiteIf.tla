------------------------------ MODULE EmacLiteIf ------------------------------
(***************************************************************************)
(* The network interface of the echo server: the lwIP port for the AXI     *)
(* EthernetLite MAC (xemacliteif.c) over the MAC's driver (xemaclite.c,    *)
(* xemaclite_intr.c) and the packet queues (xpqueue.c).                    *)
(*                                                                         *)
(* Three things run concurrently.  The MAC fills its two receive buffers   *)
(* in turn and empties its two transmit buffers; each event is an edge     *)
(* that the interrupt controller latches (XPAR_INTC_0_KIND_OF_INTR makes   *)
(* the MAC's input edge-triggered).  The interrupt handler runs to its end *)
(* without being interrupted.  The main loop (xemacif_input) can be        *)
(* interrupted anywhere but in low_level_output, which is inside           *)
(* SYS_ARCH_PROTECT and hence one step.  The handler is split where the    *)
(* hardware can come between two of its register accesses.                 *)
(*                                                                         *)
(* A pbuf is represented by the number of the frame it carries: received   *)
(* frames are numbered as they arrive, sent ones as the stack outputs them.*)
(***************************************************************************)
EXTENDS PacketQueue, FiniteSets

CONSTANTS
  PoolSize,  \* PBUF_POOL_SIZE: the pbufs for received and for backlogged frames
  MaxRx,     \* bound: frames that arrive
  MaxTx      \* bound: frames that the stack outputs

\* lwipopts.h has 256 pbufs, xpqueue.h 4096 slots.
ASSUME PoolAssumption ==
  /\ PoolSize \in Nat /\ PoolSize < QueueSize
  /\ MaxRx \in Nat
  /\ MaxTx \in Nat

VARIABLES
  rx,         \* rx[b]: the frame in receive buffer b, NoFrame unless RECV_DONE is set
  rxfill,     \* the receive buffer the MAC fills next
  NextRx,     \* NextRxBufferToUse
  tx,         \* tx[b]: transmit buffer b: idle, busy, or done but still ACTIVE
  NextTx,     \* NextTxBufferToUse
  pending,    \* the interrupt controller has latched an edge of the MAC
  isr,        \* where the interrupt handler is
  main,       \* where the main loop is
  loaded,     \* main loop: the value of recv_q->len in a register
  ptail,      \* main loop: pq_dequeue's local variable
  recv_q,
  send_q,
  pool,       \* the number of free pbufs in the pool
  arrived,    \* history: frames that arrived
  delivered,  \* history: frames given to netif->input, in order
  produced,   \* history: frames output by the stack
  accepted,   \* history: those for which low_level_output returned ERR_OK
  sent,       \* history: frames written to transmit buffers, in order
  unfreed,    \* history: pbufs that no one refers to and no one has freed
  skew        \* history: the first receive buffer the MAC fills

mac     == <<rx, rxfill, tx>>
driver  == <<NextRx, NextTx>>
loop    == <<main, loaded, ptail>>
history == <<arrived, delivered, produced, accepted, sent, unfreed, skew>>

vars == <<mac, driver, pending, isr, loop, recv_q, send_q, pool, history>>

Buffer  == {0, 1}
NoFrame == 0
RxFrame == 1 .. MaxRx
TxFrame == 1 .. MaxTx

TypeOK ==
  /\ rx \in [Buffer -> RxFrame \cup {NoFrame}]
  /\ rxfill \in Buffer /\ NextRx \in Buffer /\ NextTx \in Buffer /\ skew \in Buffer
  /\ tx \in [Buffer -> {"idle", "busy", "done"}]
  /\ pending \in BOOLEAN
  /\ isr \in {"idle", "rx", "recv", "tx", "send"}
  /\ main \in {"poll", "store", "fetch", "input"}
  /\ loaded \in Int /\ ptail \in Slot
  /\ recv_q \in Queue(RxFrame \cup {NoFrame})
  /\ send_q \in Queue(TxFrame \cup {NoFrame})
  /\ pool \in 0 .. PoolSize
  /\ arrived \in 0 .. MaxRx /\ delivered \in Seq(RxFrame)
  /\ produced \in 0 .. MaxTx /\ accepted \subseteq TxFrame /\ sent \in Seq(TxFrame)
  /\ unfreed \in 0 .. PoolSize

-----------------------------------------------------------------------------
(***************************************************************************)
(* The MAC.                                                                *)
(***************************************************************************)

\* A frame arrives; the MAC blocks reception while the next buffer is full.
Arrive ==
  /\ arrived < MaxRx
  /\ rx[rxfill] = NoFrame
  /\ arrived' = arrived + 1
  /\ rx' = [rx EXCEPT ![rxfill] = arrived + 1]
  /\ rxfill' = 1 - rxfill
  /\ pending' = TRUE
  /\ UNCHANGED <<tx, driver, isr, loop, recv_q, send_q, pool, delivered,
                 produced, accepted, sent, unfreed, skew>>

\* The MAC has transmitted the frame in buffer b and clears XMIT_BUSY.
Transmitted(b) ==
  /\ tx[b] = "busy"
  /\ tx' = [tx EXCEPT ![b] = "done"]
  /\ pending' = TRUE
  /\ UNCHANGED <<rx, rxfill, driver, isr, loop, recv_q, send_q, pool, history>>

-----------------------------------------------------------------------------
(***************************************************************************)
(* The driver's services.                                                  *)
(***************************************************************************)

TxBufferAvailable == \E b \in Buffer : tx[b] = "idle"

\* XEmacLite_Send: the expected buffer, or the other one without moving the
\* expectation; if both are in use the frame is lost (no caller looks).
Send(f) ==
  LET fill(b) == /\ tx' = [tx EXCEPT ![b] = "busy"]
                 /\ sent' = Append(sent, f)
  IN  \/ /\ tx[NextTx] = "idle"
         /\ fill(NextTx)
         /\ NextTx' = 1 - NextTx
      \/ /\ tx[NextTx] # "idle" /\ tx[1 - NextTx] = "idle"
         /\ fill(1 - NextTx)
         /\ UNCHANGED NextTx
      \/ /\ ~ TxBufferAvailable
         /\ UNCHANGED <<tx, sent, NextTx>>

\* XEmacLite_Recv: the buffer it reads and acknowledges ...
RecvBuffer == IF rx[NextRx] # NoFrame THEN NextRx ELSE 1 - NextRx

\* A slip: the expected buffer never changes.
RecvNextFixed == NextRx

\* ... and the expectation it leaves behind.
RecvNext == IF rx[NextRx] # NoFrame THEN 1 - NextRx ELSE NextRx

-----------------------------------------------------------------------------
(***************************************************************************)
(* The interrupt handler: XEmacLite_InterruptHandler and its callbacks.    *)
(***************************************************************************)

\* The processor takes the interrupt; a fast interrupt is acknowledged by
\* the hardware at this moment.
Interrupt ==
  /\ isr = "idle" /\ pending
  /\ isr' = "rx"
  /\ pending' = FALSE
  /\ UNCHANGED <<mac, driver, loop, recv_q, send_q, pool, history>>

\* One of the receive buffers is full: xemacif_recv_handler begins, and first
\* of all acknowledges the interrupt once more.
RxCheck ==
  /\ isr = "rx"
  /\ IF \E b \in Buffer : rx[b] # NoFrame
       THEN isr' = "recv" /\ pending' = FALSE
       ELSE isr' = "tx" /\ UNCHANGED pending
  /\ UNCHANGED <<mac, driver, loop, recv_q, send_q, pool, history>>

\* Slips: the result of pbuf_alloc is not looked at; the transmit side is an
\* "else" of the receive side.
RecvHandlerUnchecked ==
  /\ isr = "recv"
  /\ isr' = "tx"
  /\ rx' = [rx EXCEPT ![RecvBuffer] = NoFrame]
  /\ NextRx' = RecvNext
  /\ recv_q' = Enqueue(recv_q, rx[RecvBuffer])
  /\ pool' = pool - 1
  /\ UNCHANGED <<rxfill, tx, NextTx, pending, loop, send_q, history>>

RecvHandlerThenReturn ==
  /\ isr = "recv"
  /\ isr' = "idle"
  /\ rx' = [rx EXCEPT ![RecvBuffer] = NoFrame]
  /\ NextRx' = RecvNext
  /\ IF pool > 0 /\ ~ Full(recv_q)
       THEN /\ recv_q' = Enqueue(recv_q, rx[RecvBuffer])
            /\ pool' = pool - 1
       ELSE UNCHANGED <<recv_q, pool>>
  /\ UNCHANGED <<rxfill, tx, NextTx, pending, loop, send_q, history>>

\* The rest of xemacif_recv_handler: one frame is read, into a pbuf if there
\* is one and into xemac_tx_frame (and forgotten) if not.
RecvHandler ==
  /\ isr = "recv"
  /\ isr' = "tx"
  /\ rx' = [rx EXCEPT ![RecvBuffer] = NoFrame]
  /\ NextRx' = RecvNext
  /\ IF pool > 0 /\ ~ Full(recv_q)
       THEN /\ recv_q' = Enqueue(recv_q, rx[RecvBuffer])
            /\ pool' = pool - 1
       ELSE UNCHANGED <<recv_q, pool>>
  /\ UNCHANGED <<rxfill, tx, NextTx, pending, loop, send_q, history>>

\* Clear XMIT_ACTIVE of the buffers that have been transmitted.
TxCheck ==
  /\ isr = "tx"
  /\ isr' = IF \E b \in Buffer : tx[b] = "done" THEN "send" ELSE "idle"
  /\ tx' = [b \in Buffer |-> IF tx[b] = "done" THEN "idle" ELSE tx[b]]
  /\ UNCHANGED <<rx, rxfill, driver, pending, loop, recv_q, send_q, pool, history>>

\* Slips: the pbuf is not freed; the last frame of the backlog is left there.
SendHandlerKeepsPbuf ==
  /\ isr = "send"
  /\ isr' = "idle"
  /\ pending' = FALSE
  /\ IF send_q.len # 0 /\ TxBufferAvailable
       THEN /\ Send(Front(send_q))
            /\ send_q' = Dequeue(send_q)
       ELSE UNCHANGED <<tx, NextTx, sent, send_q>>
  /\ UNCHANGED <<rx, rxfill, NextRx, loop, recv_q, pool, arrived, delivered,
                 produced, accepted, unfreed, skew>>

SendHandlerLeavesOne ==
  /\ isr = "send"
  /\ isr' = "idle"
  /\ pending' = FALSE
  /\ IF send_q.len > 1 /\ TxBufferAvailable
       THEN /\ Send(Front(send_q))
            /\ send_q' = Dequeue(send_q)
            /\ pool' = pool + 1
       ELSE UNCHANGED <<tx, NextTx, sent, send_q, pool>>
  /\ UNCHANGED <<rx, rxfill, NextRx, loop, recv_q, arrived, delivered,
                 produced, accepted, unfreed, skew>>

\* xemacif_send_handler: acknowledge, and send one frame of the backlog.
SendHandler ==
  /\ isr = "send"
  /\ isr' = "idle"
  /\ pending' = FALSE
  /\ IF send_q.len # 0 /\ TxBufferAvailable
       THEN /\ Send(Front(send_q))
            /\ send_q' = Dequeue(send_q)
            /\ pool' = pool + 1
       ELSE UNCHANGED <<tx, NextTx, sent, send_q, pool>>
  /\ UNCHANGED <<rx, rxfill, NextRx, loop, recv_q, arrived, delivered,
                 produced, accepted, unfreed, skew>>

-----------------------------------------------------------------------------
(***************************************************************************)
(* The main loop: xemacif_input, interruptible between any two accesses.   *)
(***************************************************************************)

\* low_level_input finds recv_q->len positive and enters pq_dequeue.
BeginDequeue ==
  /\ isr = "idle" /\ main = "poll"
  /\ recv_q.len # 0
  /\ main' = "store"
  /\ loaded' = recv_q.len
  /\ ptail' = recv_q.tail
  /\ recv_q' = [recv_q EXCEPT !.tail = Following(@)]
  /\ UNCHANGED <<mac, driver, pending, isr, send_q, pool, history>>

\* q->len-- is a load and a store.  The load may be that of the test before
\* or a fresh one, as the compiler likes: the field is not volatile.
Reload ==
  /\ isr = "idle" /\ main = "store"
  /\ loaded' = recv_q.len
  /\ UNCHANGED <<mac, driver, pending, isr, main, ptail, recv_q, send_q, pool, history>>

\* A slip: the length is written back as it was.
StoreUnchanged ==
  /\ isr = "idle" /\ main = "store"
  /\ main' = "fetch"
  /\ recv_q' = [recv_q EXCEPT !.len = loaded]
  /\ UNCHANGED <<mac, driver, pending, isr, loaded, ptail, send_q, pool, history>>

Store ==
  /\ isr = "idle" /\ main = "store"
  /\ main' = "fetch"
  /\ recv_q' = [recv_q EXCEPT !.len = loaded - 1]
  /\ UNCHANGED <<mac, driver, pending, isr, loaded, ptail, send_q, pool, history>>

\* pq_dequeue returns data[ptail], which goes to ethernet_input.
Fetch ==
  /\ isr = "idle" /\ main = "fetch"
  /\ main' = "input"
  /\ delivered' = Append(delivered, recv_q.data[ptail])
  /\ UNCHANGED <<mac, driver, pending, isr, loaded, ptail, recv_q, send_q, pool,
                 arrived, produced, accepted, sent, unfreed, skew>>

\* The end of low_level_output: a copy of frame f joins what is left of the
\* backlog (q).  Freed is what the branch before did to unfreed.
Backlog(q, f, lost) ==
  \/ /\ pool = 0
     /\ send_q' = q /\ unfreed' = unfreed + lost
     /\ UNCHANGED <<pool, accepted>>
  \/ /\ pool > 0 /\ ~ Full(q)
     /\ send_q' = Enqueue(q, f) /\ unfreed' = unfreed + lost
     /\ pool' = pool - 1
     /\ accepted' = accepted \cup {f}
  \/ /\ pool > 0 /\ Full(q)
     /\ send_q' = q /\ unfreed' = unfreed + lost + 1
     /\ pool' = pool - 1
     /\ UNCHANGED accepted

\* Slips: a frame that can be sent is sent, whatever the backlog; a frame is
\* sent whether there is space or not.
LowLevelOutputOvertakes(f) ==
  \/ /\ TxBufferAvailable
     /\ Send(f)
     /\ accepted' = accepted \cup {f}
     /\ UNCHANGED <<send_q, pool, unfreed>>
  \/ /\ ~ TxBufferAvailable
     /\ Backlog(send_q, f, 0)
     /\ UNCHANGED <<tx, NextTx, sent>>

LowLevelOutputUnchecked(f) ==
  /\ Send(f)
  /\ accepted' = accepted \cup {f}
  /\ UNCHANGED <<send_q, pool, unfreed>>

\* low_level_output of frame f.  A frame of the backlog that is sent here is
\* dequeued but, unlike in xemacif_send_handler, not freed.
LowLevelOutput(f) ==
  \/ /\ TxBufferAvailable /\ send_q.len = 0
     /\ Send(f)
     /\ accepted' = accepted \cup {f}
     /\ UNCHANGED <<send_q, pool, unfreed>>
  \/ /\ TxBufferAvailable /\ send_q.len # 0
     /\ Send(Front(send_q))
     /\ Backlog(Dequeue(send_q), f, 1)
  \/ /\ ~ TxBufferAvailable
     /\ Backlog(send_q, f, 0)
     /\ UNCHANGED <<tx, NextTx, sent>>

\* The stack answers the frame it is processing.
Output ==
  /\ isr = "idle" /\ main = "input"
  /\ produced < MaxTx
  /\ produced' = produced + 1
  /\ LowLevelOutput(produced + 1)
  /\ UNCHANGED <<rx, rxfill, NextRx, pending, isr, loop, recv_q, arrived,
                 delivered, skew>>

\* The frame has been processed and its pbuf freed, by the stack, by the
\* application, or by xemacliteif_input itself if it is not for the stack.
InputDone ==
  /\ isr = "idle" /\ main = "input"
  /\ main' = "poll"
  /\ pool' = pool + 1
  /\ UNCHANGED <<mac, driver, pending, isr, loaded, ptail, recv_q, send_q, history>>

-----------------------------------------------------------------------------

\* low_level_init: the receive buffers are flushed and NextRxBufferToUse is
\* 0, but which buffer the MAC fills next depends on the frames it received
\* before ("The RX hardware is enabled from powerup", xemaclite.h).
Init ==
  /\ rx = [b \in Buffer |-> NoFrame]
  /\ skew \in Buffer
  /\ rxfill = skew
  /\ NextRx = 0
  /\ tx = [b \in Buffer |-> "idle"]
  /\ NextTx = 0
  /\ pending = FALSE
  /\ isr = "idle"
  /\ main = "poll"
  /\ loaded = 0 /\ ptail = 0
  /\ recv_q = CreateQueue(NoFrame)
  /\ send_q = CreateQueue(NoFrame)
  /\ pool = PoolSize
  /\ arrived = 0 /\ delivered = << >>
  /\ produced = 0 /\ accepted = {} /\ sent = << >>
  /\ unfreed = 0

Handler == Interrupt \/ RxCheck \/ RecvHandler \/ TxCheck \/ SendHandler

MainLoop == BeginDequeue \/ Store \/ Fetch \/ InputDone

Next ==
  \/ Arrive
  \/ \E b \in Buffer : Transmitted(b)
  \/ Handler
  \/ MainLoop
  \/ Reload
  \/ Output

\* The MAC finishes what it transmits and the processor does not stop.
Fairness ==
  /\ \A b \in Buffer : WF_vars(Transmitted(b))
  /\ WF_vars(Handler)
  /\ WF_vars(MainLoop)

Spec == Init /\ [][Next]_vars /\ Fairness

-----------------------------------------------------------------------------
(***************************************************************************)
(* Properties.                                                             *)
(***************************************************************************)

Elements(s) == { s[i] : i \in DOMAIN s }

Increasing(s) == \A i, j \in DOMAIN s : i < j => s[i] < s[j]

(***************************************************************************)
(* Frames reach the stack in the order in which they arrived, none of them *)
(* twice; one can overtake only its direct predecessor, and this only if   *)
(* driver and MAC disagreed on the receive buffers at initialisation.      *)
(* Nothing the interrupt handler does to recv_q during an unprotected      *)
(* pq_dequeue can break this, because the pool runs dry before the ring    *)
(* comes round to a slot that is still to be read.                         *)
(***************************************************************************)
DeliveryInOrder ==
  \A i, j \in DOMAIN delivered :
    i < j => \/ delivered[i] < delivered[j]
             \/ skew = 1 /\ delivered[i] = delivered[j] + 1

(***************************************************************************)
(* The ring and len disagree in one direction only: an increment of the    *)
(* interrupt handler can be overwritten by the main loop's store, but len  *)
(* never counts more than the ring holds, so that no slot is read before   *)
(* it is written.                                                          *)
(***************************************************************************)
LenNeverExceedsHeld ==
  recv_q.len - (IF main = "store" THEN 1 ELSE 0) <= Held(recv_q)

(***************************************************************************)
(* Frames are handed to the MAC in the order in which the stack output     *)
(* them, whether directly, from the backlog by the interrupt handler, or   *)
(* from the backlog by low_level_output.                                   *)
(***************************************************************************)
SentInOrder == Increasing(sent)

(***************************************************************************)
(* A frame for which low_level_output returned ERR_OK has been handed to   *)
(* the MAC or is in send_q.  This is where xemacliteif.c:269, "this        *)
(* function also assumes that there is space to send in the Emaclite       *)
(* buffer", matters: the result of XEmacLite_Send is ignored.              *)
(***************************************************************************)
AcceptedNotLost ==
  accepted \subseteq Elements(sent) \cup Elements(Contents(send_q))

(***************************************************************************)
(* Every pbuf is free, in a queue, in the hands of the stack, or one of    *)
(* those that low_level_output forgot; none is freed twice.                *)
(***************************************************************************)
PbufsAccounted ==
  pool + Held(recv_q) + Held(send_q) + unfreed
       + (IF main = "poll" THEN 0 ELSE 1) = PoolSize

(***************************************************************************)
(* As long as there is a backlog something will wake it up: the handler is *)
(* running, an interrupt is latched, or a frame is being transmitted.  The *)
(* second acknowledgment in the handler's callbacks can swallow the edge   *)
(* of a finished transmission, but not the last one.                       *)
(***************************************************************************)
BacklogHasWakeup ==
  send_q.len # 0 =>
    isr # "idle" \/ pending \/ \E b \in Buffer : tx[b] = "busy"

(***************************************************************************)
(* Every accepted frame is handed to the MAC at last.                      *)
(***************************************************************************)
BacklogDrains ==
  \A f \in TxFrame : f \in accepted ~> f \in Elements(sent)

(***************************************************************************)
(* xemacliteif.c:437, of xemacliteif_input: "Returns the number of packets *)
(* read (max 1 packet on success, 0 if there are no packets)".             *)
(***************************************************************************)
ZeroMeansNoPackets ==
  isr = "idle" /\ main = "poll" /\ recv_q.len = 0 => Held(recv_q) = 0

\* Nothing in the processor, and nothing in the MAC, is going to happen.
Quiet ==
  /\ ~ pending /\ isr = "idle" /\ main = "poll" /\ recv_q.len = 0
  /\ \A b \in Buffer : tx[b] # "busy"

(***************************************************************************)
(* xemacliteif.c:207, of xemacif_recv_handler: "we need to receive the     *)
(* frame because otherwise emaclite will not generate any other interrupts *)
(* since it cannot receive, and we do not actively poll the emaclite".     *)
(* The interface never comes to rest with both receive buffers full.       *)
(***************************************************************************)
NeverDeaf == Quiet => \E b \in Buffer : rx[b] = NoFrame

=============================================================================
