# Verification of DP2

DP2 is a student project around byte-sequence detection on a Nexys 4 DDR board.
It has two halves. In hardware (VHDL), three generations of a detector that
compares a stream of bytes with fixed signatures, the scripts that generate them,
and a finder for one sequence provided at run time. In firmware (C, on a
MicroBlaze), a TCP server that takes data and sequences from the network. The
firmware uses lwIP over Xilinx's port and driver for the EthernetLite MAC, which
are part of the repository.

This directory holds TLA+ models of that code, TLC configurations that check
them on small instances, and TLAPS proofs for all instances. `PROJECT.json`
relates every definition to the lines it models.

## Inventory

`BSP` is `data_and_seq_send/echo_server_bsp/microblaze_0/libsrc`, `ES` is
`data_and_seq_send/echo_server/src`.

| Component | State | Operations | Interacts through | Hard behaviour | Correct when |
|---|---|---|---|---|---|
| Clocked detector, `NFA_script/Clk_based` | a flip-flop per signature byte, a sticky register and an output flip-flop per signature | clock edge, asynchronous reset | ports | overlapping partial matches, registers that load from each other at one edge, power-up | outputs = occurrences since the reset |
| Latched detector, root `seq_detect.vhd` | the same flip-flops, a transparent latch per signature | edge, reset, any change of `data_in` | ports | combinational glitches are latched; edge and data change race | nothing missed; false alarms only where the input discipline is broken |
| Data-triggered detector, `NFA_script/data_triggered_based` | a comparator result per byte, a latch per signature | change of `data_in`, reset | ports | incomplete sensitivity list, stale enables, delta cycles | signatures shown are reported |
| Generators `seq_match.py` | none (file to file) | `hexify`, emission | files | bytes below 0x10 | one stage per byte |
| `SequenceFinder.vhd` | remaining sequence, last wrong byte, mismatch and end flags, output | edge, asynchronous reset | ports | restart after a mismatch, registers without reset | found = occurred |
| `SequenceFinderController.vhd` | latches for target, data byte and trigger | change of two registers and a mode switch | drives SequenceFinder | incomplete sensitivity lists, data held for several clocks | who follows the instructions has the target loaded and reset |
| Packet queue, `BSP/.../netif/xpqueue.c` | ring, head, tail, len | enqueue, dequeue, length | shared by interrupt handler and main loop | unprotected `len--` | entries leave once, in order |
| lwIP port, `xemacliteif.c`, `xadapter.c` | two queues, the pbuf pool | receive and send callbacks, `low_level_output`, `xemacif_input` | callbacks from the driver, calls into lwIP | interrupt at any point of the main loop, backlog, acknowledgments | order, no loss of accepted frames, no leak, no stall |
| MAC driver, `xemaclite*.c` | expected buffers of the ping-pong pairs | Send, Recv, TxBufferAvailable, InterruptHandler | MAC registers, interrupts | the hardware moves between two register reads | each event is served |
| Firmware `ES/main.c`, `platform*.c` | timer flags | timer interrupt, main loop | flags, `xemacif_input` | flags nobody reads | lwIP's timers run |
| TCP servers `ES/data_send.c`, `seq_send.c` | connections | accept, receive, close | lwIP callbacks | window accounting, chained pbufs, 8-bit length | window restored, bytes processed once |
| lwIP's TCP receive path, `lwip-1.4.1/src/core/tcp*.c` | the pcb: next number, window, announced window, queue out of sequence, state | `tcp_input`, `tcp_recved`, `tcp_close`; timers that this firmware never runs | IP below, callbacks above | loss, copies, reordering, overlap, wrap of the numbers | each byte delivered once and in order; no offer taken back |
| rest of lwIP, vendor BSP, PPC/Zynq variants, I2C/SFP helpers, build output, `on_off.vhd` | | | | | see "Not modelled" |

## Modules

| Module | Models |
|---|---|
| `SignatureSet` | the signatures, and what "occurs in a stream" means; constants shared by the first three detectors' modules |
| `StreamMatcher` | abstract specification: the stream since the reset and which signatures occurred in it |
| `DetectorChain` | comparators, AND gates and flip-flops common to the clocked and the latched detector |
| `Detector` | the clocked detector; implements `StreamMatcher` (`ImplementsMatcher`, memory mapped to `hold`) |
| `DetectorChainProofs` | lemmas about `SignatureSet` and `DetectorChain` |
| `DetectorProofs`, `LatchedDetectorProofs` | proofs about `Detector` and `LatchedDetector` |
| `LatchedDetector` | the root's detector |
| `TriggeredDetector` | the clockless generated detector |
| `SequenceFinder` | `SequenceFinder.vhd` |
| `SequenceFinderController` | `SequenceFinderController.vhd` around `SequenceFinder` (`INSTANCE ... WITH`), simulated and synthesised |
| `SequenceFinderProofs` | proofs about `SequenceFinder` |
| `SequenceFinderControllerProofs` | proofs about the controller, on top of those about the finder |
| `TriggeredDetectorProofs` | proofs about `TriggeredDetector` |
| `EmacLiteIfProofs` | lemmas about the ring of `PacketQueue`, proofs about `EmacLiteIf` |
| `TcpServerProofs` | proofs about `TcpServer` |
| `PacketQueue` | `xpqueue.c` as a record and operators on it |
| `EmacLiteIf` | MAC, driver, lwIP port and main loop together; uses `PacketQueue` for both queues |
| `TcpServer` | one connection: lwIP's TCP receive path, the callbacks of both servers, a lossy network and a conforming peer |
| `MC*` | instances for TLC |

### Detectors

A signature of *n* bytes is *n* stages. `ff[<<s, k>>]` is the flip-flop of stage *k*
(the generator counts from 0), `Cmp` the comparator, `OutAnd` the AND gate; stage 1
is fed with `'1'`. `Detector` has one action per event a wire can cause: `Drive`
(another byte on `data_in`, as often as it likes), `AssertReset`, `ReleaseReset`,
`RisingEdge`. Edges with the reset high change nothing and are left out. Registers
power up with any contents, so every property is conditional on `armed`, a reset
having happened. The variables `armed` and `stream` are history: the hardware keeps no byte.

A consequence of the chain that the repository does not mention: the first byte
after a reset belongs to no match, because stage 1 is opened by that edge.
`EndsAt` has it built in (`Len(sig) < e`), and the proof of `OutputCorrect` shows
that this is the only difference from plain occurrence.

In `LatchedDetector` a change of `data_in` reaches the latches at once, and
`RisingEdge(b)` covers two outcomes of the race between the flip-flops and the source of
the data: `b` new, or `b` the byte that was just taken, which is then compared
once more with the flip-flops after the edge (a `Drive` may follow at once; in
VHDL simulation the flip-flops win, because `input <= data_in` costs the data a
delta cycle more). A third, the new byte compared with the flip-flops of before an edge that
samples the old byte, is possible in hardware with unlucky delays but not in a
VHDL simulation, and is left out. `glimpses` records every byte shown and
how many had been taken before it.

`TriggeredDetector` takes VHDL at its word. After a change of `data_in`, `input`
and `enable` are updated in the same delta cycle, so all comparators run with the
new byte, stage 1 with the new enable, the others with the AND gates of before;
one change is one atomic step. A synthesis tool reads the same text as
transparent latches whose outcome depends on gate delays; that is not modelled.
Two equal bytes in a row are no event. A signature that begins with a doubled byte is
never reported (`DoubledStartNeverReported`); one with a doubled byte further back
cannot be shown without a gap, but can be reported with other bytes in between, since a
stage that is not enabled keeps its result. That is also why an open match
survives other bytes and zeros (`OpenMatchResumes`). A zero takes the enable from all stages, so
the byte behind it reaches the first stage only: `Scattered` asks for it.

### SequenceFinder

One action per branch of the processes: `AfterMismatch` ("Special Case"), `AtEnd`,
`Compare`; `RisingEdge` adds the output register, which copies the end flag of
*before* the edge. Sequences are functions `1 .. Width -> Byte`, `Shift` fills with
the terminator 0 as the code does. (Line 12 of the file says the terminator was
changed to FF; every comparison in the code is with zero.) `Init` is all zeros,
as the device's configuration leaves registers without initial value. The header's instruction (1) is
kept: the target changes before or during a reset as far as `valid` is concerned;
a change without a reset only switches the history off.

### SequenceFinderController

None of the three processes is clocked, and the two that write the latches leave
`SFC_Mode` out of their sensitivity lists. A simulator runs such a process when the
register changes; synthesis builds latches that are transparent for one value of the
mode. The variable `build` is one of the two, and `Runs(signal)` is the difference
in one line. A change of an input is `Settle` (the first two processes,
one delta cycle) followed by `Process_Reset` (the next one); at most one input
changes between two clock edges, since the registers are the clock domain's and
the switch is a hand's. Every step that the finder sees is an action of
`SequenceFinder` itself. The user may do anything; `steps`, `changed`, `target` and
`loads` record whether the instructions (2) to (5) of the header were followed, and
the properties are about a user who did.

What the runs taught: a simulator misses a load that leaves a register as it was, so the
target is taken only if both loads changed their registers (`Obeyed`). In the
synthesised design throwing the switch opens the data latch while the target's
first half is still in register 0: the finder's first data byte is the target's own first byte,
and a target of one byte is found with no data loaded (`OwnByteIsData`). The
data register is sampled at every clock, so a target of two different bytes is found however
long the bytes stay (`ShortTargetFound`), and one of three never is if each stays
for two clocks (`LongTargetNeedsEveryClock`).

### TcpServer

A segment is processed to the end before the next one (`xemacif_input` in the only
loop), so an arriving segment is one step: `tcp_input` is the composition of
operators named after lwIP's functions (`process`, `receive`, `Enqueue`, `recved`,
`tcp_close`, ...) that take the pcb, a record, and return it. `tcp_input`'s
globals and the segment that goes out are fields of the same record while a step computes it and
empty between steps.

`tcp_recv_callback`s differ in `Returned`: `seq_recv_callback` gives `p->tot_len` back to the
window, `data_recv_callback` only `p->len`, the first pbuf of a chain. A chain is
what `tcp_receive` makes when a segment fills a gap in front of queued ones. Both
callbacks then read on in memory behind the first pbuf, and `seq_recv_callback`
counts in a `u8_t`; `taken` counts the bytes they really look at.

`platform.c:56-84` raises timer flags, and nothing reads them. So there is no
retransmission, delayed acknowledgement, persist or keepalive timer: the server acts only
when a segment arrives. What remains of retransmission is `rexmit` (a copy of the
SYN) and the third duplicate acknowledgement in `Acknowledged`; the FIN is sent once, and a pcb
whose last acknowledgement is lost stays in LAST_ACK.

The peer and the network are external: a conforming sender, which cuts its
stream anew for each transmission; everything it may have sent can arrive at any
time, any number of times or never; of the server's segments the last one is on
its way and may be lost or overtaken. A connection that the peer aborts, a reset in and
out of the window, probes and old acknowledgements are included.

Abstracted: checksums, ports and options; the peer's window (constant, so
that the third clause of the duplicate acknowledgement holds); round-trip times and
congestion window (the server sends no data); memory shortage (no allocation fails).
`Half`, the sign bit of 32-bit arithmetic, scales with `SeqSpace`, the 16 and 8 bits
with `U16` and `U8`. `End` leaves the FIN out, as the code does. `xil_printf` of the bytes and their packing
into words change no state.

### EmacLiteIf

Who runs: the MAC (`Arrive`, `Transmitted`), the interrupt handler (`Interrupt`,
`RxCheck`, `RecvHandler`, `TxCheck`, `SendHandler`) and the main loop
(`BeginDequeue`, `Reload`, `Store`, `Fetch`, `Output`, `InputDone`). Main-loop
actions need `isr = "idle"`: the handler is never preempted. The handler is split
where it reads a register the MAC may change in between, the main loop where the
compiler's loads and stores on `recv_q` can be interrupted. `Reload` may or may
not happen: `len` is not volatile, and both codes are legal. `low_level_output`
runs with interrupts off (`SYS_ARCH_PROTECT`, `sys_arch_raw.c:59-93`) and is one step.

From the board's configuration: both buffers of each pair are in use
(`XPAR_EMACLITE_0_TX/RX_PING_PONG` = 1), the MAC's interrupt input is
edge-triggered (`XPAR_INTC_0_KIND_OF_INTR` = 0xFFFFFFFE) and served by a fast
interrupt, which the hardware acknowledges when it is taken. `pending` is the
latched edge. The callbacks acknowledge it once more, after the status registers
were read; that is the step the interesting interleavings start from.

A pbuf is represented by the number of the frame in it; `pool` counts free ones.
`InputDone` gives the pbuf of a received frame back: that lwIP may keep it for a while
(out-of-order segments) is abstracted, a smaller pool has the same effect.
`unfreed` counts the pbufs that `low_level_output` sends from the backlog without
freeing them.

## Runs

| Run | Instance | Shows |
|---|---|---|
| `detector` | signatures aab, aba, b over {a,b}; 8 edges | `ChainTracksPrefixes` (a flip-flop = an open prefix), `OutputExact`, `ImplementsMatcher` |
| `latched_detector` | aba, bb; 5 edges | `LatchExact`: what the latch computes on any input; `NoOccurrenceMissed`; `SteadyMeansNoFalseAlarm`: with one change per period and a last byte different from the one before it there is no false alarm |
| `triggered_detector` | abac, aa, bc, c over {a,b,c} and the zero byte; 7 changes | `ShownIsReported`; its converse only in the weak form `ReportedIsScattered`, and exactly for two bytes (`ShortSignaturesExact`); what the kept results do: `OpenMatchResumes`, `DoubledStartNeverReported` |
| `sequence_finder` | 4-byte register, bytes 0..2, 8 targets; 7 data bytes | `FoundIsSound` from the second edge on, `FoundIsComplete` for targets satisfying `Restartable`, `ProgressIsReal` |
| `finder_stale` | same | violated: `SequenceFinder.vhd:16`, found means detected |
| `finder_missed` | same | violated: `SequenceFinder.vhd:10`, correct two clocks after the last byte |
| `emaclite` | 4 slots, 3 pbufs, 3 frames in, 5 out | order in both directions, `LenNeverExceedsHeld`, `AcceptedNotLost`, `PbufsAccounted`, `BacklogHasWakeup`, `BacklogDrains` |
| `controller` | 4-byte register in two halves, targets of one to three bytes over 0..2, 6 data bytes per reset, 3 loads per period of mode 1; both builds | `TargetTaken`, `ShortTargetFound`, `LongTargetNeedsEveryClock`, `OwnByteIsData` |
| `tcp_server` | 7 bytes and a FIN in segments of up to 3, window 6, numbers modulo 64 that wrap in front of the data; both callbacks | `StreamDelivered`, `OoseqSorted`: reassembly; `OfferHonoured`, `RightEdgeKept`: the window; `WindowAccounted`, `ResetOnlyAfterChain`, `SkippedByCount`: the callbacks; `AllAcked`: everything is acknowledged without timers |
| `tcp_wrap` | same, the numbers wrap inside the data | violated: `tcp_in.c:1466`, a segment is cut only if it overruns the window |
| `emac_race` | same as `emaclite` | violated: `xemacliteif.c:437`, 0 means no packets |
| `emac_deaf` | same as `emaclite` | violated: `xemacliteif.c:207`, the interface never stops receiving |

### Findings

1. `emac_race`: `low_level_input` runs `q->len--` with interrupts enabled. An
   increment by the receive interrupt in between is lost; `len` is one less than
   the ring holds until the next reboot, and each such race adds one. A packet is
   delayed until another one arrives, and 0 is returned with a packet waiting.
   `LenNeverExceedsHeld` shows the drift is one-sided, so no slot is read before
   it is written.
2. `emac_deaf`: the callbacks' second acknowledgment clears the edge of a frame
   that arrived after `XEmacLite_IsRxEmpty` was read, and one call of the handler
   takes one frame. Both receive buffers can end up full with no interrupt
   pending; reception then stops until a transmission's interrupt calls the handler.
3. `finder_stale`: `End_Of_Sequence` has no reset and keeps across one whatever it held;
   the first clock copies it to the output. In the run's trace a clock edge before the first
   reset has set it: the registers power up as zeros, an empty sequence with
   nothing left to match. A detection does the same to the target that follows it, which
   is then "found" at its first clock.
4. `finder_missed`: target 1 1 2 is not found in 1 1 1 2. `Restartable` says which
   targets are safe, and `FoundIsComplete` that they are.
5. `tcp_wrap`: `tcp_in.c:1467` compares sequence numbers with a plain `>` where the
   rest of the file uses `TCP_SEQ_GT`. With a window that ends behind the wrap,
   a segment appended to the queue out of sequence in front of the wrap is "cut" to the end of the window,
   which makes its length *grow*; `pbuf_realloc` adds no bytes, and later the stream
   moves over bytes that nobody sent. The peer is told that they have arrived, and the callback never gets
   them. Needs three segments, reordered, within one window of the wrap of
   2^32. With the numbers of the connection clear of the
   wrap the same properties hold in the run `tcp_server`, and by the theorems of
   `TcpServerProofs` for all sizes. Whether this comparison is all that goes wrong at
   the wrap is not shown.

Seen while modelling, with no line in the repository that claims otherwise, hence
hazards and no findings: the pbuf leak of `low_level_output` (`xemacliteif.c:328`),
the swapped order of two frames if driver and MAC start out of step
(`xemaclite.c:399`; `DeliveryInOrder` bounds it to neighbours), the firmware's
timer flags that the main loop never reads (`main.c:135`), the window that
`data_recv_callback` loses for good with every chain (`data_send.c:38`): once less
than half of it is left `tcp_update_rcv_ann_wnd` does not offer it again, the
connection stalls, and a FIN that still gets through is answered with a reset
(`WindowAccounted`, `ResetOnlyAfterChain`, the exception in `AllAcked`), and the
`u8_t` in which `seq_recv_callback` counts (`seq_send.c:42`): a segment of 256 bytes
is acknowledged and returned to the window with none of it read, of a longer
one only the length modulo 256 is. `SkippedByCount` says that nothing else is
skipped, and that this always is.

### Bounds

`MaxEdges`, `MaxChanges`, `MaxData` bound the bytes between two resets, and a reset
starts again, so sequences of detections are covered. Longest signatures have
3 bytes (4 for the finder and the data-triggered detector): 8 edges, 7 changes and 7 data bytes leave
room for a false start, an overlap or a gap, and the late report; the latched run has 5 edges, with any
number of changes of `data_in` between them. For the clocked detector the
theorems remove the bound altogether. `QueueSize` 4 and
`PoolSize` 3 keep the relation pool < ring of the code (256 < 4096), on which
`DeliveryInOrder` and the unreachability of the full-queue branch depend.
3 arrivals fill both receive buffers and queue one more frame; 5 outputs fill
both transmit buffers and the pool and leave the leak a pbuf to lose. In `tcp_server` 7 bytes
exceed the window of 6, so that it must be offered again; half and quarter
of the window (3 and 1) are the two thresholds of the code, and differ; segments of up to three bytes cut
at every place give each kind of overlap on both sides of a queue of up to
five segments, with a FIN in front, inside and behind; `U8` = 3 is reached
by one segment and by chains. Every branch of `Enqueue`, `InSequence`, `process` and
`tcp_close` that the firmware can reach is taken. In the `controller` run three
loads and six samples are a whole target of two bytes with each byte held up to three
clocks, and more than one session fits between two power-ups. Within
these bounds an empty pool, the leak, an edge swallowed by the second acknowledgment
and the out-of-step reception all occur. `emaclite` has
deadlock checking off because arrivals and outputs are bounded: a system without
traffic rests. `controller` and `tcp_server` never rest.

### Fairness

`EmacLiteIf` states fairness for `BacklogDrains`: weak fairness of
`Transmitted(b)` (the MAC finishes what it transmits), of `Handler` (a latched
interrupt is taken, the handler has no loop) and of `MainLoop` (the processor does
not stop; `while (1)` in `main.c:135`). Nothing is assumed of arrivals or of the
stack's output.

`TcpServer` assumes nothing of the server, which has no step of its own. The
peer keeps sending while its window is open and repeats its SYN (weak
fairness); a server's segment that would tell the peer something and is sent
again and again is heard in the end (strong fairness of `PeerLearns`: losses are
not for ever); and if repeating what is not acknowledged would again and again change
the server's state, one of those copies arrives (`Retransmissions`, the
peer's retransmission timer). The last is written with `Matters`, a state
predicate equivalent to the ENABLED of that step. The peer is not assumed to
probe a closed window. `AllAcked` then says that losing any acknowledgement, with no timer to send a
delayed one, never leaves the connection stuck.

## Proofs

`DetectorProofs` proves for every set of non-empty signatures, every alphabet and every
bound:

- `TypeCorrect`: `Spec => []TypeOK`;
- `ChainCorrect`: `Spec => []ChainTracksPrefixes`. This is the inductive
  invariant and needs only `TypeOK` beside it. The step is `OpenGrows`, a lemma about byte
  strings: a prefix of length *k* is open after a byte exactly if one of length
  *k*-1 was open and the byte fits. `OutputExact` alone is not inductive: it does not say what the
  flip-flops hold;
- `HoldCorrect`, `OutputCorrect`: `hold` and `output` are exact, by induction together
  (`OutputStep`), from `MatchAtEdge` (last AND gate high = an occurrence ends here)
  and `OccursGrows`;
- `Refinement`: `Spec => ImplementsMatcher`, by `StepRefines`: an edge maps to
  `Take` (or `TakeUnarmed` before the first reset), `AssertReset` to `Reset`, the rest to stutters.

Assumed: `SignaturesAssumption` (signatures are non-empty byte strings) and
`MaxEdgesAssumption`. `OpenGrows`, `OccursGrows` and the other lemmas about
byte strings and stages are in `DetectorChainProofs`.

`LatchedDetectorProofs` proves from the same assumptions, for any sequence of changes of
`data_in` between two edges:

- `LatchedTypeCorrect`: `Spec => []TypeOK`;
- `LatchCorrect` (`LatchExact`), `LatchMissesNothing` (`NoOccurrenceMissed`) and
  `LatchTrusted` (`SteadyMeansNoFalseAlarm`).

The inductive invariant `IInv` joins `LatchExact` with `ChainOpen` (the flip-flops, as above),
`ResetEmpties` (while the reset is high no byte counts as taken, so the latches, which hold still,
have nothing to see), `GlimpsesCover` (every byte taken had been on `data_in` before its edge) and
`SteadyGlimpses` (with one change per period the byte beside the *n* bytes
taken is the last of them or the next one). `LatchMissesNothing` follows from
`LatchExact` with `GlimpsesCover`, `LatchTrusted` with `SteadyGlimpses`: it is
there that the last two bytes of a signature must differ.

`SequenceFinderProofs` proves, for every register width from two bytes on, every
alphabet with a zero, every set of targets and every length of data:

- `FinderTypeCorrect`: `Spec => []TypeOK`;
- `FinderProgressIsReal`, `FinderFoundIsSound`, `FinderFoundStays` (found stays until
  the next reset; not checked by a run),
  `FinderFoundIsComplete`.

The inductive invariant `IInv` adds to `ProgressIsReal` what it lacks: nothing is recorded before
a reset or during one (`HistoryStartsAtReset`), a reset has loaded the target
(`ResetLoads`), a mismatch happens only in a target that has a byte
(`MismatchStartsOver`), and an end flag seen after the first edge is
final (`EndIsFinal`) and is what the output shows one edge later
(`FoundFollowsEnd`). Without the restriction to later edges the last two are
false, which is finding 3. The proof has one lemma per action; for `RisingEdge` one per
branch (`AfterMismatchKeeps`, `CompareKeeps`, `AtEndKeeps`), on top of two facts about the data: shifts add
up (`ShiftOnce`), and the register's first byte is the target's next one, zero
exactly at its end (`NextByte`, which rests on `LengthExists`, the existence of
the `CHOOSE` in `Length`). Assumed: `FinderAssumption`.

`FinderFoundIsComplete` has a second invariant beside it, `CompleteInv`: for a target that
satisfies `Restartable` the match in progress is the longest that the data ends
with, and in the mismatch state no match is longer than the one remembered byte
(`NothingMissed`); a complete occurrence leaves nothing to match
(`OccurrenceEnds`), and the end flag follows one edge later (`EndFollows`).
`Restartable` is used at one place, a wrong byte after *k* right ones.

`SequenceFinderControllerProofs` proves, for both builds, every register width and
every set of halves and data bytes that the user may load:

- `ControllerTypeCorrect`: `Spec => []TypeOK`;
- `ControllerImplementsFinder`: `Spec => Finder!Spec`, with the finder's targets all
  contents of the 64-bit register. Each change of an input is a `ProvideSequence` or no
  step of the finder, `Process_Reset` one of its reset actions, `Clock` an edge. By this
  theorem everything proved about `SequenceFinder` holds of the finder in the controller;
- `ControllerTargetTaken`, `ControllerOwnByteIsData`, `ControllerShortTargetFound`,
  `ControllerLongTargetNeedsEveryClock`.

The inductive invariant says what registers, latches and reset have to do with each other
at each stage of the instructions. In target mode the synthesised
latches equal the registers (`LatchesOpen`), the simulated ones do if each load changed
its register (`LoadsSeen`); so the reset is on when the switch is thrown, and the
data starts empty with the target loaded (`ResetFollows`, `SessionStarts`). In data mode the data
latch holds the leading byte of the register (`DataRegister`, `DataLatchFollows`), the
bytes sampled since the last load are that byte and the one before it is the data
byte before (`SamplesFollow`). The last three theorems then follow from `FinderFoundIsComplete` (targets
of one and two bytes are restartable) and `FinderFoundIsSound`.
Assumed: `ControllerAssumption`. It asks for registers of two bytes or more (the code's
have four): `Padded` then always ends in a zero, and the first data byte
of a session differs from the target's half that was in the register before, which a simulator
needs to see the load.

`TriggeredDetectorProofs` proves, for every set of non-empty signatures over every alphabet:
`TriggeredTypeCorrect`, `TriggeredShownIsReported`, `TriggeredReportedIsScattered`,
`TriggeredShortSignaturesExact`, `TriggeredOpenMatchResumes` and
`TriggeredDoubledStart`. Five facts carry the induction:
the first *k* stages are high after the first *k* bytes of a signature were shown
(`StagesComplete`), the first stage is high only for the byte now on `data_in` (`FirstStageFresh`), any
stage is high only if bytes up to its own were shown in order, the first two
adjacent and none of the others behind a zero (`StagesScattered`), no byte is shown twice in a
row (`NoRepeat`), and the stages of a match taken up again go high one after the other
(`StagesResume`). `StagesScattered` is as much as the stale enables allow. With `NoRepeat` it excludes
two equal bytes at the start of a reported signature.

`EmacLiteIfProofs` proves, for every number of frames and every ring larger than the
pool (`QueueAssumption`, `PoolAssumption`; 4096 and 256 in the code), that each
safety property of `EmacLiteIf` holds: `EmacTypeCorrect`, `EmacPbufsAccounted`,
`EmacLenNeverExceedsHeld`, `EmacDeliveryInOrder`, `EmacSentInOrder`,
`EmacAcceptedNotLost`, `EmacBacklogHasWakeup`. The lemmas they stand on come first in the
module: what enqueuing and dequeuing do to the number and the sequence of entries held,
modulo the size of the ring. The parts of the inductive invariant:

- `RecvRing`: the head, tail and length of `recv_q`, also between the load and the store of
  a half-done `pq_dequeue`, when `len` may have been overwritten; `SendRing`: `send_q`, which
  only uninterruptible code changes, counts its entries exactly;
- `HandedInOrder`: what was sent, followed by the backlog, is one increasing sequence that
  contains every accepted frame;
- `ReceivedInOrder`: what was delivered, followed by the entry taken out of the ring but
  not yet read, by the queue and by the MAC's receive buffers, is one too, up to the exchange of
  neighbours when driver and MAC are out of step (`RxBuffers`, `InStep`, `MayFollow`);
- `Wakeup`: who will look at the transmit buffers. A backlog comes with a busy buffer, and a
  finished one with a latched edge or a handler that has not passed its look at it.

A ring never fills, because each entry holds a pbuf (`PbufsAccounted`) and the pool is
smaller than the ring (`RoomInRings`, a lemma): this is what makes the order provable although
`pq_dequeue` is unprotected.

`TcpServerProofs` proves the eight safety properties of `TcpServer` for every length of the stream
and of its segments, every window, every sequence space and counter that
`TcpAssumption` admits: `TcpTypeCorrect`, `TcpStreamDelivered`, `TcpOfferHonoured`,
`TcpWindowAccounted`, `TcpResetOnlyAfterChain`, `TcpOoseqSorted`,
`TcpSkippedByCount` and the action property `TcpRightEdgeKept`.

Each has one hypothesis, `NoWrap`: the numbers from the SYN to the end of the last
window do not pass zero, or the first byte has number zero. It excludes what finding 5
is about and no more than that needs: with the plain comparison of `CutToWindow`
`StreamDelivered` is false without it (run `tcp_wrap`). It is used at two kinds of place,
`CutToWindowIs`, which needs it, and the lemmas that turn numbers into places of the stream
(`Places`, `PlacesCompare`), which it makes simpler. Most starts satisfy it:
all but the last N + 2050 of the 2^32.

The inductive invariant `IInv` says of the pcb between two segments that it is
untouched, or `Open`, `Closing` (in LAST_ACK) or `Ended`, and of what the peer knows (`Peer`,
`Told`) that it has been delivered. `Open` holds what the eight properties lack:

- `Stream`: what is delivered and what is pending are the first bytes of the stream, and
  `rcv_nxt` is the place behind them; the peer has sent that much and has heard of no more (`Heard`);
- `Offer` with `Promised`: what has been announced, heard or used by the peer ends in
  front of `right_edge`, which is in the window. For this reason nothing that arrives is
  cut at the end of the window (`FittingIs`, `CutToWindowIs`);
- `Count` and `History`: the window is what is neither pending nor lost to a chain, and what
  the callbacks looked at, byte for byte, and skipped (`Skipping`);
- `Ordered` and `From`: the queue out of sequence, whose segments are pieces of the
  stream (`Piece`); `Send`: what was acknowledged was sent.

Within one segment the same parts are carried from operator to operator, with data
and FIN pending, as `Flow`, `Waiting` and `Ready`; the lemmas follow `tcp_input`, one
for each operator (`EnqueueIs`, `TakeIs`, `DequeueIs`, `InSequenceIs`, `PlaceIs`, `ReceiveIs`,
`DeliverIs`, `FinCallbackIs`, ... up to `OpenInputIs`, `ClosingInputIs`,
`EndedInputIs`, `FreshInputIs`), and each ends in one of the outcomes of `Outcome`. The
loop that empties the queue is a recursive function; that it exists (`LoopExists`) and that its
turns keep `Waiting` (`DequeueIs`) go by the least number of turns for which it would
fail, since induction is not available. TLC has checked `IInv` on the instance of `tcp_server`.

Only model-checked: `BacklogDrains` and `AllAcked`, and what `TcpServer` does at the wrap (`tcp_wrap`).
Liveness under fairness is out of this prover's reach, as are ENABLED, induction
over data (the library's induction theorems take an operator as a parameter) and
RECURSIVE operators, of which no module here has any.

## Plan

Done: the detectors, `SequenceFinder` and its controller, the MAC interface, the
TCP servers, and the theorems above: every safety property of every passing run is one.
Left: a variant of `TcpServer` with `TCP_SEQ_GT` in `CutToWindow`, for which the
same invariant should hold across the wrap.

## Not modelled

- Most of the repository's lines are third-party code that this program carries and does
  not run: of lwIP 1.4.1 the SNMP agent, PPP, the sockets and sequential APIs
  (`NO_SYS` is set), DHCP, DNS, IGMP and IPv6; of the BSP three copies of the same headers
  and drivers for devices that the board's design does not use. A model of
  them would be a model of code without effect here.
- lwIP's IP, ARP and ICMP layers and its memory pools are used. They hand
  one segment at a time to `tcp_input`; what they keep (ARP's table, fragments that wait for
  others) belongs to no connection. The network
  of `TcpServer` (loss, copies, reordering) and the pbuf pool of `EmacLiteIf` stand for them.
- lwIP's timers (`tcp_tmr`, `tcp_slowtmr`, `tcp_fasttmr`, ARP's ageing): the flags that would
  call them are never read, so they never run. Active open, sending of data and congestion
  control: the servers only listen and never write.
- More than one connection at a time, a second connection with the same ports
  (all start with the same number, since `tcp_ticks` stands still), and memory
  shortage in the TCP path.
- The generators' text: reading the input file, `hexify` and the layout of VHDL. The
  structure that they emit is what the detector modules are about. The
  packing of received bytes into the words `seq_recv_callback` prints, and
  all other output: no state depends on it.
- MDIO and link speed, frame lengths and copies, interrupt controller and cache set-up, the
  PowerPC and Zynq variants and the I2C, SFP and clock helpers (not compiled for this
  board), generated build output, `on_off.vhd` (one combinational assignment).
- Gate delays: the race in the latches a synthesis tool makes of `TriggeredDetector`'s text.
