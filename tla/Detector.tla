------------------------------ MODULE Detector ------------------------------
(***************************************************************************)
(* The clocked signature detector that NFA_script/Clk_based/seq_match.py   *)
(* generates (its output for four signatures is seq_detect.vhd beside it). *)
(* The AND gate of the last stage of each chain (module DetectorChain)     *)
(* sets a sticky register (pull_up_module.vhd), and one more flip-flop     *)
(* drives the output port.                                                 *)
(*                                                                         *)
(* data_in may change at any time between two clock edges, any number of   *)
(* times.  The reset is asynchronous and level-sensitive.  The registers   *)
(* power up with arbitrary contents: FF.vhd and pull_up_module.vhd declare *)
(* no initial value for their output ports.                                *)
(***************************************************************************)
EXTENDS DetectorChain

VARIABLES
  reset,    \* the reset input
  hold,     \* hold[s]: output of the pull-up register of signature s
  output,   \* output[s]: the output port of signature s
  armed,    \* history: a reset has been applied since power-up
  stream    \* history: data_in at every edge with the reset low since that reset

vars == <<reset, data_in, ff, hold, output, armed, stream>>

TypeOK ==
  /\ reset \in BOOLEAN
  /\ data_in \in Byte
  /\ ff \in [Stage -> BOOLEAN]
  /\ hold \in [Signatures -> BOOLEAN]
  /\ output \in [Signatures -> BOOLEAN]
  /\ armed \in BOOLEAN
  /\ stream \in Seq(Byte)

-----------------------------------------------------------------------------
\* A slip: the pull-up register is not sticky.
PulledUpOnce(s) == IsMatching(s)

\* What the pull-up register of signature s loads at the next edge.
PulledUp(s) == hold[s] \/ IsMatching(s)

-----------------------------------------------------------------------------

\* Power-up: nothing is known of the registers.
Init ==
  /\ reset \in BOOLEAN
  /\ data_in \in Byte
  /\ ff \in [Stage -> BOOLEAN]
  /\ hold \in [Signatures -> BOOLEAN]
  /\ output \in [Signatures -> BOOLEAN]
  /\ reset => /\ ff = ChainCleared
              /\ hold = AllLow
              /\ output = AllLow
  /\ armed = reset
  /\ stream = << >>

\* The environment drives another byte; only the comparators see it.
Drive(b) ==
  /\ data_in' = b
  /\ UNCHANGED <<reset, ff, hold, output, armed, stream>>

\* A slip: the pull-up registers have no reset.
AssertResetKeepsHold ==
  /\ ~ reset
  /\ reset' = TRUE
  /\ ff' = ChainCleared
  /\ output' = AllLow
  /\ armed' = TRUE
  /\ stream' = << >>
  /\ UNCHANGED <<data_in, hold>>

\* The asynchronous reset rises and clears every register at once.
AssertReset ==
  /\ ~ reset
  /\ reset' = TRUE
  /\ ff' = ChainCleared
  /\ hold' = AllLow
  /\ output' = AllLow
  /\ armed' = TRUE
  /\ stream' = << >>
  /\ UNCHANGED data_in

\* The reset falls; no register moves before the next edge.
ReleaseReset ==
  /\ reset
  /\ reset' = FALSE
  /\ UNCHANGED <<data_in, ff, hold, output, armed, stream>>

\* A rising edge: all registers load at the same time.  While the reset is
\* high its branch comes first in every process and the edge does nothing.
RisingEdge ==
  /\ ~ reset
  /\ Len(stream) < MaxEdges
  /\ ff' = Shifted
  /\ hold' = [s \in Signatures |-> PulledUp(s)]
  /\ output' = hold
  /\ stream' = Append(stream, data_in)
  /\ UNCHANGED <<reset, data_in, armed>>

Next ==
  \/ \E b \in Byte : Drive(b)
  \/ AssertReset
  \/ ReleaseReset
  \/ RisingEdge

Spec == Init /\ [][Next]_vars

-----------------------------------------------------------------------------
(***************************************************************************)
(* Properties.                                                             *)
(***************************************************************************)

Matcher == INSTANCE StreamMatcher WITH found <- hold

(***************************************************************************)
(* The invariant behind everything else: once a reset has been applied,    *)
(* the flip-flop of stage k is high exactly if at least k edges have been  *)
(* taken and the last k-1 bytes are the first k-1 bytes of the signature.  *)
(* All the prefixes of a signature that end at the present byte are alive  *)
(* at once, which is why overlapping occurrences are not lost.             *)
(***************************************************************************)
ChainTracksPrefixes ==
  armed =>
    \A s \in Signatures : \A k \in 1 .. Len(s) :
      ff[<<s, k>>] <=> OpenAt(s, stream, k)

(***************************************************************************)
(* An output port is high exactly if its signature occurred in the bytes   *)
(* taken since the reset, the first byte and the last one left out: no     *)
(* false alarm, no missed occurrence, one edge of delay behind the         *)
(* pull-up register, and nothing survives a reset.                         *)
(***************************************************************************)
OutputExact ==
  armed =>
    \A s \in Signatures :
      output[s] <=> OccursBy(s, stream, Len(stream) - 1)

\* The same of the pull-up registers, which lead the output ports by one edge.
HoldExact ==
  armed => \A s \in Signatures : hold[s] <=> OccursBy(s, stream, Len(stream))

(***************************************************************************)
(* The detector implements StreamMatcher: its pull-up registers are the    *)
(* specification's memory of what was found.                               *)
(***************************************************************************)
ImplementsMatcher == Matcher!Spec

=============================================================================
