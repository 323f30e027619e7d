----------------------------- MODULE TcpServer -----------------------------
(***************************************************************************)
(* One connection to a server of the firmware (seq_send.c on port 8 or     *)
(* data_send.c on port 7) through the receive path of lwIP 1.4.1: from the *)
(* listening pcb over the delivery of data to the receive callback until   *)
(* the pcb is freed.                                                       *)
(*                                                                         *)
(* A segment that arrives is processed to the end in one step, as in the   *)
(* firmware, where xemacif_input runs in the only loop: tcp_input with     *)
(* tcp_process, tcp_receive, the callbacks, and tcp_output last.  The      *)
(* operators take and return the pcb, a record with the fields of struct   *)
(* tcp_pcb that matter here; the fields below the line in Fresh are those  *)
(* of tcp_input's globals and the history of the application.              *)
(*                                                                         *)
(* No timer is ever run: the main loop does not look at the flags that the *)
(* timer interrupt raises, so that whatever moves the connection on is an  *)
(* arriving segment.                                                       *)
(*                                                                         *)
(* The peer is a conforming TCP sender (external): it sends N bytes and a  *)
(* FIN within the window it was offered, in segments of up to PeerMss      *)
(* bytes, cutting the stream differently when it sends again.  Whatever it *)
(* has sent may arrive now, later, twice or never; of the server's         *)
(* segments the last one is on its way (a later one takes its place, which *)
(* is how one is lost).                                                    *)
(*                                                                         *)
(* The bytes of the stream are 1 .. N, a sequence number is taken modulo   *)
(* SeqSpace (2^32) and a window modulo U16; byte i has number ISN + i.     *)
(* The server sends no data: of its own numbers only its SYN's and its     *)
(* FIN's exist, 0 and 1.  Memory is never short.                           *)
(***************************************************************************)
EXTENDS Integers, Sequences, SequencesExt

CONSTANTS
  Servers,    \* subset of {"seq", "data"}: the callbacks connected to
  N,          \* bound: the bytes the peer sends
  PeerMss,    \* bound: the bytes of a segment of the peer
  TCP_WND,    \* the receive window (2048)
  Mss,        \* pcb->mss (536 or more)
  SeqSpace, ISN,
  U16, U8     \* the range of a u16_t and a u8_t

Half == SeqSpace \div 2

ASSUME TcpAssumption ==
  /\ Servers \subseteq {"seq", "data"}
  /\ N \in Nat \ {0} /\ PeerMss \in Nat \ {0} /\ Mss \in Nat \ {0}
  /\ TCP_WND \in Nat /\ TCP_WND >= 4
  /\ U8 \in Nat \ {0}
  /\ U16 \in Nat /\ U16 > 2 * TCP_WND
  /\ SeqSpace \in Nat /\ SeqSpace >= 2 * U16 /\ Half > N + TCP_WND + 2
  /\ ISN \in 0 .. SeqSpace - 1

VARIABLES
  server,   \* which callback the connection has
  pcb,
  reply,    \* the segment on its way to the peer
  up,       \* the peer is connected
  sent,     \* the peer's last byte sent so far; N + 1 with the FIN
  una,      \* the first of these not known to have arrived
  limit,    \* the peer may send bytes below this one
  ackno,    \* what the peer acknowledges: 0 nothing, 1 the SYN, 2 the FIN
  gone      \* the peer has given up (it sent or received a reset)

peer == <<up, sent, una, limit, ackno, gone>>
vars == <<server, pcb, reply, peer>>

-----------------------------------------------------------------------------
(***************************************************************************)
(* Sequence numbers.                                                       *)
(***************************************************************************)

Num(i) == (ISN + i) % SeqSpace
Diff(a, b) == (a - b) % SeqSpace

TCP_SEQ_LT(a, b) == Diff(a, b) >= Half
TCP_SEQ_GEQ(a, b) == Diff(a, b) < Half
TCP_SEQ_GT(a, b) == TCP_SEQ_LT(b, a)
TCP_SEQ_BETWEEN(a, b, c) == TCP_SEQ_GEQ(a, b) /\ TCP_SEQ_GEQ(c, a)

\* len is struct tcp_seg's: the numbers the data takes, which its pbuf need
\* not hold.
Segment(syn, fin, rst, ack, seq, data) ==
  [syn |-> syn, fin |-> fin, rst |-> rst, ack |-> ack, seq |-> seq, data |-> data,
   len |-> Len(data)]

Flag(b) == IF b THEN 1 ELSE 0
TCP_TCPLEN(s) == s.len + Flag(s.syn \/ s.fin)

\* The number after the data of s; the code leaves the FIN out here.
End(s) == (s.seq + s.len) % SeqSpace

Smaller(a, b) == IF a < b THEN a ELSE b

\* A slip: the number is moved on, the data is not.
SkipNumber(s, n) == [s EXCEPT !.len = @ - n, !.seq = (@ + n) % SeqSpace]

\* The first n bytes, and without the first n bytes.  pbuf_realloc cannot grow
\* a pbuf.
Cut(s, n) == [s EXCEPT !.len = n, !.data = SubSeq(@, 1, Smaller(n, Len(@)))]
Skip(s, n) == [s EXCEPT !.len = @ - n, !.data = SubSeq(@, n + 1, Len(@)),
                        !.seq = (@ + n) % SeqSpace]

None == "none"
NoReply == [kind |-> None, ack |-> 0, wnd |-> 0]

(***************************************************************************)
(* The pcb as tcp_alloc and tcp_listen_input set it up for a SYN, with the *)
(* SYN|ACK enqueued.                                                       *)
(***************************************************************************)
Fresh(s) ==
  [state |-> "SYN_RCVD", rcv_nxt |-> (s.seq + 1) % SeqSpace,
   rcv_wnd |-> TCP_WND, ann_wnd |-> TCP_WND, right_edge |-> (s.seq + 1) % SeqSpace,
   delay |-> FALSE, now |-> FALSE, ooseq |-> << >>,
   lastack |-> 0, snd_nxt |-> 0, unsent |-> "SYN", unacked |-> None,
   dupacks |-> 0, infr |-> FALSE,
   \* ------
   recv_data |-> << >>, p_len |-> 0, got_fin |-> FALSE, out |-> NoReply,
   delivered |-> << >>, chained |-> 0, taken |-> 0, long |-> FALSE, ending |-> None]

Idle == [Fresh(Segment(TRUE, FALSE, FALSE, 0, Num(0), << >>))
           EXCEPT !.state = "LISTEN", !.unsent = None]

-----------------------------------------------------------------------------
(***************************************************************************)
(* Acknowledgements and the receive window (tcp.c, tcp_out.c).             *)
(***************************************************************************)

Answer(kind, w) ==
  [kind |-> kind, ack |-> w.rcv_nxt, wnd |-> w.ann_wnd]

ack_now(w) == [w EXCEPT !.now = TRUE]

\* Every second segment is acknowledged at once.
ack(w) == IF w.delay THEN [w EXCEPT !.delay = FALSE, !.now = TRUE]
                     ELSE [w EXCEPT !.delay = TRUE]

Announce(kind, w) ==
  [w EXCEPT !.delay = FALSE, !.now = FALSE,
            !.right_edge = (w.rcv_nxt + w.ann_wnd) % SeqSpace,
            !.out = Answer(kind, w)]

send_empty_ack(w) == Announce("ACK", w)

\* A SYN or a FIN in unsent carries the acknowledgement; an empty one is sent
\* only if asked for.
output(w) ==
  IF w.unsent # None
    THEN [Announce(w.unsent, w) EXCEPT !.snd_nxt = IF w.unsent = "SYN" THEN 1 ELSE 2,
                                       !.unacked = w.unsent, !.unsent = None]
    ELSE IF w.now THEN send_empty_ack(w) ELSE w

\* The window is offered again when it has grown enough.
Growth(w) == Diff(w.rcv_nxt + w.rcv_wnd, w.right_edge)
CanOffer(w) ==
  TCP_SEQ_GEQ(w.rcv_nxt + w.rcv_wnd,
              w.right_edge + (IF TCP_WND \div 2 < Mss THEN TCP_WND \div 2 ELSE Mss))

\* Slips: the announced window is left as it is; a window too small to be
\* offered is announced as none.
update_rcv_ann_wnd_late(w) ==
  IF CanOffer(w) THEN [w EXCEPT !.ann_wnd = w.rcv_wnd] ELSE w
update_rcv_ann_wnd_closed(w) ==
  [w EXCEPT !.ann_wnd = IF CanOffer(w) THEN w.rcv_wnd ELSE 0]

update_rcv_ann_wnd(w) ==
  [w EXCEPT !.ann_wnd =
     IF CanOffer(w) THEN w.rcv_wnd
     ELSE IF TCP_SEQ_GT(w.rcv_nxt, w.right_edge) THEN 0
     ELSE Diff(w.right_edge, w.rcv_nxt)]

\* tcp_output within does nothing: the pcb is being processed.
Offered(w) ==
  IF CanOffer(w) /\ Growth(w) >= TCP_WND \div 4
    THEN ack_now(update_rcv_ann_wnd(w)) ELSE update_rcv_ann_wnd(w)

recved(w, len) ==
  Offered([w EXCEPT !.rcv_wnd = Smaller((@ + len) % U16, TCP_WND)])

-----------------------------------------------------------------------------
(***************************************************************************)
(* The queue of segments out of sequence (tcp_in.c).                       *)
(***************************************************************************)

\* The largest n with 1 .. n in the set I of positions in queue.
Run(queue, I) == CHOOSE n \in 0 .. Len(queue) : 1 .. n \subseteq I /\ n + 1 \notin I

\* The queue without the covered segments at its head, their FIN moved to s.  A
\* segment with a FIN is followed by nothing.
Uncovered(s, queue, end) ==
  LET n == Run(queue, {i \in 1 .. Len(queue) : TCP_SEQ_GEQ(end, End(queue[i]))})
  IN  [seg |-> [s EXCEPT !.fin = @ \/ \E i \in 1 .. n : queue[i].fin],
       rest |-> SubSeq(queue, n + 1, Len(queue))]

\* s without what the first segment of the queue has too.
CutBefore(s, queue, end) ==
  IF queue # << >> /\ TCP_SEQ_GT(end, queue[1].seq)
    THEN Cut(s, Diff(queue[1].seq, s.seq)) ELSE s

InFront(u, end) == <<CutBefore(u.seg, u.rest, end)>> \o u.rest

\* s and what remains of the queue behind it.
oos_insert_segment(s, queue) ==
  IF s.fin THEN <<s>>
  ELSE InFront(Uncovered(s, queue, End(s)), End(s))

\* A segment that goes last is cut at the end of the window.  The numbers are
\* compared as they are, not by TCP_SEQ_GT.
CutToWindow(s, w) ==
  IF (s.seq + TCP_TCPLEN(s)) % SeqSpace > (w.rcv_nxt + w.rcv_wnd) % SeqSpace
    THEN [Cut(s, Diff(w.rcv_nxt + w.rcv_wnd, s.seq)) EXCEPT !.fin = FALSE]
    ELSE s

TrimLast(queue, s) ==
  LET prev == Last(queue)
  IN  IF TCP_SEQ_GT(End(prev), s.seq)
        THEN Front(queue) \o <<Cut(prev, Diff(s.seq, prev.seq))>> ELSE queue

\* A slip: the segment in front is not trimmed.
EnqueueUntrimmed(w, s) ==
  LET q == w.ooseq
      before == Run(q, {i \in 1 .. Len(q) : TCP_SEQ_LT(q[i].seq, s.seq)})
  IN  IF before > 0 /\ before < Len(q) /\ q[before + 1].seq # s.seq
        THEN [w EXCEPT !.ooseq = SubSeq(q, 1, before)
               \o oos_insert_segment(s, SubSeq(q, before + 1, Len(q)))]
        ELSE [w EXCEPT !.ooseq = IF before = Len(q) THEN Append(q, s) ELSE q]

(***************************************************************************)
(* Where s goes: it replaces a shorter segment with its number; else it    *)
(* goes behind those with smaller numbers, the last of which is trimmed,   *)
(* and at the end it is dropped behind a FIN.                              *)
(***************************************************************************)
Enqueue(w, s) ==
  LET q == w.ooseq
      before == Run(q, {i \in 1 .. Len(q) : TCP_SEQ_LT(q[i].seq, s.seq)})
      front == SubSeq(q, 1, before)
      rest == SubSeq(q, before + 1, Len(q))
      new == CASE q = << >> -> <<s>>
               [] rest # << >> /\ rest[1].seq = s.seq ->
                    IF s.len > rest[1].len
                      THEN front \o oos_insert_segment(s, rest) ELSE q
               [] rest # << >> /\ rest[1].seq # s.seq ->
                    (IF before = 0 THEN << >> ELSE TrimLast(front, s))
                      \o oos_insert_segment(s, rest)
               [] OTHER ->
                    IF Last(q).fin THEN q
                                   ELSE Append(TrimLast(q, s), CutToWindow(s, w))
  IN  [w EXCEPT !.ooseq = new]

-----------------------------------------------------------------------------
(***************************************************************************)
(* tcp_receive.                                                            *)
(***************************************************************************)

\* The acknowledgement in s: a third duplicate sends the unacknowledged
\* segment again, once.
Acknowledged(w, s) ==
  IF s.ack <= w.lastack
    THEN IF TCP_TCPLEN(s) = 0 /\ w.unacked # None /\ s.ack = w.lastack
           THEN IF w.dupacks = 2 /\ ~ w.infr
                  THEN [w EXCEPT !.dupacks = 3, !.infr = TRUE, !.unsent = w.unacked,
                                 !.unacked = None]
                  ELSE [w EXCEPT !.dupacks = IF @ < 3 THEN @ + 1 ELSE @]
           ELSE [w EXCEPT !.dupacks = 0]
    ELSE IF s.ack <= w.snd_nxt
           THEN [w EXCEPT !.lastack = s.ack, !.dupacks = 0, !.infr = FALSE,
                          !.unacked = None]
           ELSE w

InWindow(w, seq) ==
  TCP_SEQ_BETWEEN(seq, w.rcv_nxt, w.rcv_nxt + w.rcv_wnd - 1)

\* A segment, in sequence, enters the stream.
Take(w, s) ==
  LET w1 == [w EXCEPT !.rcv_nxt = (@ + TCP_TCPLEN(s)) % SeqSpace,
                      !.rcv_wnd = (@ - TCP_TCPLEN(s)) % U16]
  IN  [update_rcv_ann_wnd(w1) EXCEPT
         !.recv_data = @ \o s.data,
         !.p_len = IF @ = 0 THEN Len(s.data) ELSE @,
         !.got_fin = @ \/ s.fin]

\* The first segment of the queue leaves it, if it is next in sequence.
DequeueFirst(w) ==
  IF w.ooseq # << >> /\ w.ooseq[1].seq = w.rcv_nxt
    THEN [Take(w, w.ooseq[1]) EXCEPT
            !.ooseq = Tail(@),
            !.state = IF w.ooseq[1].fin /\ @ = "ESTABLISHED" THEN "CLOSE_WAIT" ELSE @]
    ELSE w

Dequeue(w) ==
  LET after[n \in 0 .. Len(w.ooseq)] == IF n = 0 THEN w ELSE DequeueFirst(after[n - 1])
  IN  after[Len(w.ooseq)]

\* A segment longer than the window is cut, and loses its FIN.
Fitting(w, s) ==
  IF TCP_TCPLEN(s) > w.rcv_wnd THEN [Cut(s, w.rcv_wnd) EXCEPT !.fin = FALSE] ELSE s

Enter(w, seg, rest) == ack(Dequeue([Take(w, seg) EXCEPT !.ooseq = rest]))

\* The queue gives way to a FIN, the segment to the queue.
EnterInFront(w, u, end) == Enter(w, CutBefore(u.seg, u.rest, end), u.rest)
InSequence(w, s) ==
  IF s.fin THEN Enter(w, s, << >>)
  ELSE EnterInFront(w, Uncovered(s, w.ooseq, End(s)), End(s))

\* A part of s may have been received before.
IsOld(w, s) == TCP_SEQ_BETWEEN(w.rcv_nxt, s.seq + 1, s.seq + TCP_TCPLEN(s) - 1)
FirstEdge(w, s) == IF IsOld(w, s) THEN Skip(s, Diff(w.rcv_nxt, s.seq)) ELSE s
Duplicate(w, s) ==
  IF ~ IsOld(w, s) /\ TCP_SEQ_LT(s.seq, w.rcv_nxt) THEN ack_now(w) ELSE w

\* Where the text of s goes.
Place(w, s) ==
  IF ~ InWindow(w, s.seq) THEN send_empty_ack(w)
  ELSE IF s.seq = w.rcv_nxt THEN InSequence(w, Fitting(w, s))
  ELSE Enqueue(send_empty_ack(w), s)

\* A slip: what is not in the window is dropped without an answer.
ReceiveTextSilently(w, s) ==
  IF InWindow(w, FirstEdge(w, s).seq) /\ TCP_TCPLEN(s) > 0 /\ w.state = "ESTABLISHED"
    THEN Place(w, FirstEdge(w, s)) ELSE w

ReceiveText(w, s) ==
  IF TCP_TCPLEN(s) > 0 /\ w.state = "ESTABLISHED"
    THEN Place(Duplicate(w, s), FirstEdge(w, s))
    ELSE IF InWindow(w, s.seq) THEN w ELSE ack_now(w)

receive(w, s) == ReceiveText(Acknowledged(w, s), s)

\* A slip: the state is left as it is.
AfterReceiveOpen(w) == IF w.got_fin THEN ack_now(w) ELSE w

\* tcp_process leaves CLOSE_WAIT to the callbacks that follow.
AfterReceive(w) ==
  IF w.got_fin THEN [ack_now(w) EXCEPT !.state = "CLOSE_WAIT"] ELSE w

-----------------------------------------------------------------------------
(***************************************************************************)
(* tcp_process and the tail of tcp_input.                                  *)
(***************************************************************************)

\* The pcb goes back to the pool; the history of the application stays.
Freed(w, how) ==
  [Idle EXCEPT !.state = "FREED", !.delivered = w.delivered, !.chained = w.chained,
               !.taken = w.taken, !.long = w.long, !.out = w.out, !.ending = how]

\* Another copy of the SYN: the SYN|ACK goes out again.
rexmit(w) ==
  IF w.unacked = None THEN w
  ELSE [w EXCEPT !.unsent = w.unacked, !.unacked = None]

\* In LAST_ACK the acknowledgement of the FIN ends the connection.
Finished(w, s) == IF s.ack = w.snd_nxt THEN Freed(w, "closed") ELSE w

process(w, s) ==
  CASE s.rst ->
         IF TCP_SEQ_BETWEEN(s.seq, w.rcv_nxt, w.rcv_nxt + w.rcv_wnd)
           THEN Freed(w, "reset_by_peer") ELSE w
    [] ~ s.rst /\ s.syn ->
         IF w.state # "SYN_RCVD" THEN ack_now(w)
         ELSE IF s.seq = (w.rcv_nxt - 1) % SeqSpace THEN rexmit(w) ELSE w
    [] ~ s.rst /\ ~ s.syn /\ w.state = "LAST_ACK" -> Finished(receive(w, s), s)
    [] ~ s.rst /\ ~ s.syn /\ w.state # "LAST_ACK" ->
         IF w.state = "SYN_RCVD" /\ s.ack \notin w.lastack + 1 .. w.snd_nxt
           THEN [w EXCEPT !.out = Answer("RST", w)]
           ELSE AfterReceive(receive([w EXCEPT !.state =
                                        IF @ = "SYN_RCVD" THEN "ESTABLISHED" ELSE @], s))

(***************************************************************************)
(* The receive callbacks.  The data comes as a chain of pbufs, of which p  *)
(* is the first and has p_len bytes: seq_recv_callback returns all of it   *)
(* to the window, data_recv_callback only p; both read on behind p in      *)
(* memory, so that only the bytes of p itself are those that were sent.    *)
(***************************************************************************)
\* Slips: only the first pbuf is returned; the last byte is not looked at.
ReturnedFirst(total, first) == first
CountedBelow(total) == IF server = "seq" THEN (total % U8) - 1 ELSE total

Returned(total, first) == IF server = "seq" THEN total ELSE first

\* seq_recv_callback counts the bytes in a u8_t.
Counted(total) == IF server = "seq" THEN total % U8 ELSE total

Deliver(w, data, first) ==
  [recved(w, Returned(Len(data), first)) EXCEPT
     !.delivered = @ \o data,
     !.chained = @ + Len(data) - first,
     !.long = @ \/ Len(data) >= U8,
     !.taken = @ + Smaller(first, Counted(Len(data))),
     !.recv_data = << >>, !.p_len = 0]

recv_callback(w) ==
  IF w.recv_data = << >> THEN w
  ELSE Deliver(w, w.recv_data, w.p_len)

\* With window not returned the peer is told that data was not read.
tcp_close(w) ==
  IF w.rcv_wnd = TCP_WND
    THEN [w EXCEPT !.unsent = "FIN",
                   !.state = IF @ = "CLOSE_WAIT" THEN "LAST_ACK" ELSE "FIN_WAIT_1"]
  ELSE IF w.state = "CLOSE_WAIT"
    THEN Freed([w EXCEPT !.out = Answer("RST", w)], "reset_sent")
    ELSE [w EXCEPT !.out = Answer("RST", w), !.state = "TIME_WAIT"]

\* A slip: it is not given back.
fin_callback_short(w) == IF w.got_fin THEN tcp_close([w EXCEPT !.got_fin = FALSE]) ELSE w

\* The callback with p = NULL, after the number of the FIN is given back.
fin_callback(w) ==
  IF ~ w.got_fin THEN w
  ELSE tcp_close([w EXCEPT !.got_fin = FALSE,
                           !.rcv_wnd = IF @ # TCP_WND THEN (@ + 1) % U16 ELSE @])

AfterCallbacks(w) == IF w.state = "FREED" THEN w ELSE output(w)
AfterProcess(w) ==
  IF w.state = "FREED" THEN w ELSE AfterCallbacks(fin_callback(recv_callback(w)))

\* Without a connection of its own a segment goes to the listening pcb (the
\* model leaves a second connection out).
tcp_listen_input(w, s) ==
  CASE s.rst -> w
    [] ~ s.rst /\ ~ s.syn -> [w EXCEPT !.out = Answer("RST", w)]
    [] s.syn -> IF w.state = "LISTEN" THEN output(Fresh(s)) ELSE w

\* The pcb after s, and the answer in it.
Input(s) ==
  IF pcb.state \in {"LISTEN", "FREED"} THEN tcp_listen_input(pcb, s)
  ELSE AfterProcess(process(pcb, s))

Becomes(w) ==
  /\ pcb' = [w EXCEPT !.out = NoReply]
  /\ reply' = IF w.out = NoReply THEN reply ELSE w.out
  /\ UNCHANGED <<server, peer>>

tcp_input(s) == Becomes(Input(s))

-----------------------------------------------------------------------------
(***************************************************************************)
(* The peer and the network.                                               *)
(***************************************************************************)

Init ==
  /\ server \in Servers
  /\ pcb = Idle /\ reply = NoReply
  /\ up = FALSE /\ sent = 0 /\ una = 1 /\ limit = 0 /\ ackno = 0 /\ gone = FALSE

\* The peer's segments: a SYN, an acknowledgement or a probe, and the bytes
\* a .. b, with fin the FIN too (b = a - 1 is the FIN alone).
Syn == Segment(TRUE, FALSE, FALSE, 0, Num(0), << >>)
Empty(i) == {Segment(FALSE, FALSE, FALSE, n, Num(i), << >>) : n \in 1 .. ackno}
Text(a, b, fin) ==
  {Segment(FALSE, fin, FALSE, n, Num(a), [i \in 1 .. b - a + 1 |-> a + i - 1]) :
     n \in 1 .. ackno}

\* What can have been sent with the first byte a.
TextFrom(a) ==
  (UNION {Text(a, b, FALSE) : b \in a .. Smaller(Smaller(sent, N), a + PeerMss - 1)})
    \cup (IF sent = N + 1 /\ N < a + PeerMss THEN Text(a, N, TRUE) ELSE {})

SynArrives == ~ gone /\ pcb.state # "FREED" /\ tcp_input(Syn)

\* What arrives was sent by the peer at some time.
EmptyArrives == \E i \in 0 .. sent + 1 : \E s \in Empty(i) : tcp_input(s)
TextArrives == \E a \in 1 .. sent : \E s \in TextFrom(a) : tcp_input(s)

ResetArrives ==
  /\ gone /\ up
  /\ tcp_input(Segment(FALSE, FALSE, TRUE, 0, Num(sent + 1), << >>))

PeerSends ==
  /\ up /\ ~ gone /\ sent <= N /\ sent + 1 < limit
  /\ sent' = sent + 1
  /\ UNCHANGED <<server, pcb, reply, up, una, limit, ackno, gone>>

PeerHears ==
  /\ reply # NoReply /\ ~ gone
  /\ LET next == Diff(reply.ack, ISN) IN
       /\ up' = (up \/ reply.kind = "SYN")
       /\ una' = IF up /\ next > una /\ next <= sent + 1 THEN next ELSE una
       /\ limit' = IF reply.kind = "RST" THEN limit ELSE Smaller(N + 2, next + reply.wnd)
       /\ ackno' = IF reply.kind = "FIN" THEN 2 ELSE IF up' /\ ackno = 0 THEN 1 ELSE ackno
       /\ gone' = (reply.kind = "RST")
  /\ reply' = NoReply
  /\ UNCHANGED <<server, pcb, sent>>

PeerAborts ==
  /\ up /\ ~ gone
  /\ gone' = TRUE
  /\ UNCHANGED <<server, pcb, reply, up, sent, una, limit, ackno>>

ReplyLost ==
  /\ reply # NoReply
  /\ reply' = NoReply
  /\ UNCHANGED <<server, pcb, peer>>

Next ==
  \/ SynArrives
  \/ EmptyArrives
  \/ TextArrives
  \/ ResetArrives
  \/ PeerSends
  \/ PeerHears
  \/ PeerAborts
  \/ ReplyLost

(***************************************************************************)
(* The peer sends again what is not acknowledged and asks again for a      *)
(* connection as long as it has no answer; a segment of either side that   *)
(* is sent again and again arrives in the end.  The peer need not probe a  *)
(* window, and nothing is assumed of the server, which acts only when a    *)
(* segment arrives.                                                        *)
(***************************************************************************)
Retransmissions == IF una <= sent THEN TextFrom(una) ELSE {}
PeerLearns == PeerHears /\ peer' # peer

\* The state predicate that ENABLED <<one of the segments arrives>>_vars is
\* equivalent to, which TLC evaluates faster.
Matters(segments) == \E s \in segments : Input(s) \notin {pcb, [pcb EXCEPT !.out = reply]}

Fairness ==
  /\ WF_vars(PeerSends)
  /\ WF_vars(~ up /\ SynArrives)
  /\ SF_vars(PeerLearns)
  /\ []<>Matters(Retransmissions) => []<><<\E s \in Retransmissions : tcp_input(s)>>_vars

Spec == Init /\ [][Next]_vars /\ Fairness

-----------------------------------------------------------------------------
(***************************************************************************)
(* Properties.                                                             *)
(***************************************************************************)

Bytes == 1 .. N
Numbers == 0 .. SeqSpace - 1
Index(a) == Diff(a, ISN)
Connected == pcb.state \in {"SYN_RCVD", "ESTABLISHED", "LAST_ACK"}

\* Every field has its type; between two segments nothing is left to do: no
\* data, no FIN and no answer is pending, and CLOSE_WAIT has been left.
TypeOK ==
  /\ server \in Servers
  /\ pcb.state \in {"LISTEN", "SYN_RCVD", "ESTABLISHED", "LAST_ACK", "FREED"}
  /\ {pcb.rcv_nxt, pcb.right_edge} \subseteq Numbers
  /\ {pcb.rcv_wnd, pcb.ann_wnd} \subseteq 0 .. TCP_WND
  /\ pcb.delay \in BOOLEAN /\ pcb.infr \in BOOLEAN /\ pcb.long \in BOOLEAN
  /\ ~ pcb.now /\ ~ pcb.got_fin /\ pcb.out = NoReply
  /\ pcb.recv_data = << >> /\ pcb.p_len = 0
  /\ pcb.unsent = None /\ pcb.unacked \in {None, "SYN", "FIN"}
  /\ pcb.lastack \in 0 .. pcb.snd_nxt /\ pcb.snd_nxt \in 0 .. 2 /\ pcb.dupacks \in 0 .. 3
  /\ pcb.chained \in 0 .. N /\ pcb.taken \in 0 .. N
  /\ pcb.ending \in {None, "closed", "reset_sent", "reset_by_peer"}
  /\ (pcb.ending # None) = (pcb.state = "FREED")
  /\ reply.kind \in {None, "SYN", "ACK", "FIN", "RST"}
  /\ up \in BOOLEAN /\ gone \in BOOLEAN
  /\ sent \in 0 .. N + 1 /\ una \in 1 .. N + 2 /\ limit \in 0 .. N + 2 /\ ackno \in 0 .. 2

\* Whatever the order, the overlap and the number of copies in which segments
\* arrive, the callback gets the bytes of the stream, each once and in order;
\* what the peer was told is received has been delivered, and the connection
\* is not closed before the last byte was (tcp_receive).
StreamDelivered ==
  /\ pcb.delivered = [i \in 1 .. Len(pcb.delivered) |-> i]
  /\ pcb.state = "ESTABLISHED" => pcb.rcv_nxt = Num(Len(pcb.delivered) + 1)
  /\ Smaller(una - 1, N) <= Len(pcb.delivered)
  /\ pcb.state = "LAST_ACK" \/ pcb.ending \in {"closed", "reset_sent"}
       => Len(pcb.delivered) = N

\* What was offered to the peer is there: the window announced, the last offer
\* the peer has heard included, never reaches behind the window that tcp_receive
\* cuts segments to (tcp_update_rcv_ann_wnd).
OfferHonoured ==
  pcb.state \in {"SYN_RCVD", "ESTABLISHED"} =>
    /\ Index(pcb.right_edge) <= Index(pcb.rcv_nxt) + pcb.rcv_wnd
    /\ Index(pcb.rcv_nxt) + pcb.ann_wnd <= Index(pcb.rcv_nxt) + pcb.rcv_wnd
    /\ limit <= Index(pcb.rcv_nxt) + pcb.rcv_wnd

\* The right edge of the offered window does not move to the left, whatever
\* order of segments makes the window shrink and grow.
RightEdgeKept ==
  [][pcb.state \in {"SYN_RCVD", "ESTABLISHED"} /\ Connected'
       => TCP_SEQ_GEQ(pcb'.right_edge, pcb.right_edge)]_vars

\* seq_recv_callback gives back all of the window; data_recv_callback keeps for
\* ever the bytes of every pbuf but the first of a chain, no more and no less.
WindowAccounted ==
  pcb.state = "ESTABLISHED" =>
    pcb.rcv_wnd = TCP_WND - (IF server = "data" THEN pcb.chained ELSE 0)

\* A peer that has sent everything is answered with a reset instead of a FIN
\* exactly if its data came to data_recv_callback in a chain.
ResetOnlyAfterChain ==
  /\ pcb.ending = "reset_sent" => server = "data" /\ pcb.chained > 0
  /\ pcb.state = "LAST_ACK" \/ pcb.ending = "closed" => server = "seq" \/ pcb.chained = 0

\* The segments kept are ahead of the stream and in order, do not overlap, hold
\* the bytes their numbers stand for, and only the last may have the FIN, behind
\* the last byte.
OoseqSorted ==
  LET q == pcb.ooseq IN
  \A i \in 1 .. Len(q) :
    /\ TCP_SEQ_GT(q[i].seq, pcb.rcv_nxt)
    /\ q[i].len = Len(q[i].data)
    /\ q[i].data = [k \in 1 .. q[i].len |-> Index(q[i].seq) + k - 1]
    /\ q[i].fin => i = Len(q) /\ Index(End(q[i])) = N + 1
    /\ i < Len(q) => TCP_SEQ_GEQ(q[i + 1].seq, End(q[i])) /\ q[i + 1].seq # q[i].seq

\* Of data that did not come in a chain the callbacks see every byte, except that
\* seq_recv_callback loses its u8_t's range of bytes, or a multiple of that, exactly if
\* it was given as many in one piece: they are acknowledged and never looked at.
SkippedByCount ==
  pcb.chained = 0 =>
    \E k \in 0 .. N :
      /\ Len(pcb.delivered) = pcb.taken + k * U8
      /\ k > 0 <=> server = "seq" /\ pcb.long

\* All bytes and the FIN are acknowledged in the end although no timer of lwIP
\* runs and any reply may be lost, unless the peer gives up or the window of
\* data_recv_callback has been lost to a chain.
AllAcked ==
  <>(una = N + 2 \/ gone \/ (server = "data" /\ pcb.chained > 0))

=============================================================================
