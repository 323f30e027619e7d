--------------------------- MODULE LatchedDetector ---------------------------
(***************************************************************************)
(* The detector in the repository's root (seq_detect.vhd with the          *)
(* pull_up_module.vhd beside it).  Its chains are those of module          *)
(* DetectorChain, but the pull-up module has no clock: it is a transparent *)
(* latch that goes high at any moment at which the AND gate of the last    *)
(* stage is high, and that latch is the output port.  The comparators are  *)
(* combinational, so the latch also sees bytes that no clock edge samples, *)
(* and sees the byte of the past edge once more against the flip-flops     *)
(* that this edge has just moved.                                          *)
(***************************************************************************)
EXTENDS DetectorChain

VARIABLES
  reset,     \* the reset input
  output,    \* output[s]: latch and output port of signature s
  armed,     \* history: a reset has been applied since power-up
  stream,    \* history: data_in at every edge with the reset low since that reset
  glimpses,  \* history: <<n, b>> if b has been on data_in when n bytes were taken
  drives,    \* history: changes of data_in since the last edge, at most 2 counted
  steady     \* history: data_in has changed at most once per clock period

history == <<armed, stream, glimpses, drives, steady>>

vars == <<data_in, ff, reset, output, history>>

TypeOK ==
  /\ data_in \in Byte
  /\ ff \in [Stage -> BOOLEAN]
  /\ reset \in BOOLEAN
  /\ output \in [Signatures -> BOOLEAN]
  /\ armed \in BOOLEAN
  /\ stream \in Seq(Byte)
  /\ glimpses \subseteq Nat \X Byte
  /\ drives \in 0 .. 2
  /\ steady \in BOOLEAN

-----------------------------------------------------------------------------

\* A slip: the output is the AND gate itself.
LatchedNever == [s \in Signatures |-> IsMatching(s)']

\* The latches after the AND gates have settled on new inputs.
Latched == [s \in Signatures |-> output[s] \/ IsMatching(s)']

Init ==
  /\ data_in \in Byte
  /\ ff \in [Stage -> BOOLEAN]
  /\ reset \in BOOLEAN
  /\ output \in [Signatures -> BOOLEAN]
  /\ reset => ff = ChainCleared /\ output = AllLow
  /\ ~ reset => \A s \in Signatures : IsMatching(s) => output[s]
  /\ armed = reset
  /\ stream = << >>
  /\ glimpses = {<<0, data_in>>}
  /\ drives = 0
  /\ steady = TRUE

\* A slip: isMatching is missing in the sensitivity list of the pull-up.
DriveUnseen(b) ==
  /\ b # data_in
  /\ data_in' = b
  /\ UNCHANGED <<ff, reset, output>>
  /\ glimpses' = glimpses \cup {<<Len(stream), b>>}
  /\ drives' = IF drives = 2 THEN 2 ELSE drives + 1
  /\ steady' = (steady /\ drives = 0)
  /\ UNCHANGED <<armed, stream>>

\* data_in changes: the comparators move, and the latches with them unless
\* the reset holds them.
Drive(b) ==
  /\ b # data_in
  /\ data_in' = b
  /\ UNCHANGED <<ff, reset>>
  /\ output' = IF reset THEN output ELSE Latched
  /\ glimpses' = glimpses \cup {<<Len(stream), b>>}
  /\ drives' = IF drives = 2 THEN 2 ELSE drives + 1
  /\ steady' = (steady /\ drives = 0)
  /\ UNCHANGED <<armed, stream>>

AssertReset ==
  /\ ~ reset
  /\ reset' = TRUE
  /\ ff' = ChainCleared
  /\ output' = AllLow
  /\ armed' = TRUE
  /\ stream' = << >>
  /\ glimpses' = {<<0, data_in>>}
  /\ drives' = 0
  /\ steady' = TRUE
  /\ UNCHANGED data_in

\* The pull-up process runs when the reset falls; every AND gate is low then.
ReleaseReset ==
  /\ reset
  /\ reset' = FALSE
  /\ UNCHANGED <<data_in, ff>>
  /\ output' = Latched
  /\ UNCHANGED history

\* The flip-flops load.  The source of data_in may answer to the same edge
\* with the next byte b, before the latches see anything else; if it does not
\* (b = data_in), the byte just taken is still there, and the latches see it
\* against the flip-flops' new values.  When both change at the same edge,
\* which of them the latches see first is a race: if the flip-flops win, it
\* is RisingEdge(data_in) and then Drive(b).  That the latches see the
\* new byte against the old flip-flops is left out: a simulation cannot do it.
RisingEdge(b) ==
  /\ ~ reset
  /\ Len(stream) < MaxEdges
  /\ ff' = Shifted
  /\ data_in' = b
  /\ output' = Latched
  /\ stream' = Append(stream, data_in)
  /\ glimpses' = glimpses \cup {<<Len(stream) + 1, b>>}
  /\ drives' = IF b = data_in THEN 0 ELSE 1
  /\ UNCHANGED <<reset, armed, steady>>

Next ==
  \/ \E b \in Byte : Drive(b) \/ RisingEdge(b)
  \/ AssertReset
  \/ ReleaseReset

Spec == Init /\ [][Next]_vars

-----------------------------------------------------------------------------
(***************************************************************************)
(* Properties.                                                             *)
(***************************************************************************)

Taken(n) == SubSeq(stream, 1, n)

(***************************************************************************)
(* What the latch really computes: an output is high exactly if at some    *)
(* moment since the reset the bytes taken so far ended with all but the    *)
(* last byte of the signature and data_in showed the last byte, whether a  *)
(* clock edge ever took it or not.                                         *)
(***************************************************************************)
LatchExact ==
  armed =>
    \A s \in Signatures :
      output[s] <=> \E g \in glimpses : /\ OpenAt(s, Taken(g[1]), Len(s))
                                        /\ g[2] = s[Len(s)]

(***************************************************************************)
(* The latch misses nothing that the clocked pull-up of module Detector    *)
(* would report (seq_match.py replaced one by the other): an occurrence in *)
(* the bytes taken since the reset shows at the output with no delay.      *)
(***************************************************************************)
NoOccurrenceMissed ==
  armed =>
    \A s \in Signatures : OccursBy(s, stream, Len(stream)) => output[s]

(***************************************************************************)
(* Where the latch can be trusted: if data_in changes at most once per     *)
(* clock period, an output raised for a signature whose last two bytes     *)
(* differ means that the signature occurs, counting the byte now waiting   *)
(* on data_in.  For a signature that ends in a repeated byte this fails:   *)
(* its last byte is compared twice.                                        *)
(***************************************************************************)
SteadyMeansNoFalseAlarm ==
  armed /\ steady =>
    \A s \in Signatures :
      /\ Len(s) > 1
      /\ s[Len(s)] # s[Len(s) - 1]
      /\ output[s]
      => OccursBy(s, Append(stream, data_in), Len(stream) + 1)

=============================================================================
