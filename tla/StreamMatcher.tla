---------------------------- MODULE StreamMatcher ----------------------------
(***************************************************************************)
(* What a generated detector promises, without its flip-flops: it takes a  *)
(* stream of bytes, one per clock edge, and remembers for every signature  *)
(* whether the signature has occurred in the stream since the last reset.  *)
(* The byte taken at the first edge after a reset belongs to no match: the *)
(* chain of stages is opened by that edge, not before it.                  *)
(*                                                                         *)
(* The history of bytes is part of the state here because "has occurred"   *)
(* is a statement about it.  Module Detector implements this specification *)
(* with one flip-flop per signature byte and keeps no byte at all.         *)
(***************************************************************************)
EXTENDS SignatureSet

VARIABLES
  armed,   \* a reset has been applied since power-up
  stream,  \* the bytes taken since the last reset, oldest first
  found    \* for every signature, whether it has been detected

vars == <<armed, stream, found>>

-----------------------------------------------------------------------------

\* Before the first reset the detector's memory is whatever it powered up as.
Init ==
  /\ armed \in BOOLEAN
  /\ stream = << >>
  /\ found \in [Signatures -> BOOLEAN]
  /\ armed => \A s \in Signatures : ~ found[s]

Reset ==
  /\ armed' = TRUE
  /\ stream' = << >>
  /\ found' = [s \in Signatures |-> FALSE]

Take(b) ==
  /\ Len(stream) < MaxEdges
  /\ armed
  /\ stream' = Append(stream, b)
  /\ found' = [s \in Signatures |->
                 found[s] \/ EndsAt(s, stream', Len(stream'))]
  /\ UNCHANGED armed

\* Before the first reset any detection may appear, and none is forgotten.
TakeUnarmed(b) ==
  /\ Len(stream) < MaxEdges
  /\ ~ armed
  /\ stream' = Append(stream, b)
  /\ found' \in [Signatures -> BOOLEAN]
  /\ \A s \in Signatures : found[s] => found'[s]
  /\ UNCHANGED armed

Next ==
  \/ Reset
  \/ \E b \in Byte : Take(b) \/ TakeUnarmed(b)

Spec == Init /\ [][Next]_vars

=============================================================================
