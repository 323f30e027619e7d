--------------------------- MODULE DetectorProofs ---------------------------
(***************************************************************************)
(* Proofs about Detector, for every set of signatures over every alphabet. *)
(***************************************************************************)
EXTENDS Detector, DetectorChainProofs, TLAPS

(***************************************************************************)
(* Type correctness: every register keeps a Boolean and the history stays  *)
(* a byte string.                                                          *)
(***************************************************************************)
THEOREM TypeCorrect == Spec => []TypeOK
<1>1. Init => TypeOK
  BY DEF Init, TypeOK
<1>2. TypeOK /\ [Next]_vars => TypeOK'
  <2> SUFFICES ASSUME TypeOK, [Next]_vars
               PROVE  TypeOK'
    OBVIOUS
  <2> USE DEF TypeOK
  <2>1. ASSUME NEW b \in Byte, Drive(b)
        PROVE  TypeOK'
    BY <2>1 DEF Drive
  <2>2. CASE AssertReset
    BY <2>2 DEF AssertReset, AllLow, ChainCleared
  <2>3. CASE ReleaseReset
    BY <2>3 DEF ReleaseReset
  <2>4. CASE RisingEdge
    <3>1. ff' \in [Stage -> BOOLEAN]
      BY <2>4 DEF RisingEdge, Shifted, OutAnd
    <3>2. hold' \in [Signatures -> BOOLEAN]
      BY <2>4 DEF RisingEdge, PulledUp
    <3> QED
      BY <2>4, <3>1, <3>2 DEF RisingEdge
  <2>5. CASE UNCHANGED vars
    BY <2>5 DEF vars
  <2> QED
    BY <2>1, <2>2, <2>3, <2>4, <2>5 DEF Next
<1> QED
  BY <1>1, <1>2, PTL DEF Spec

-----------------------------------------------------------------------------

(***************************************************************************)
(* ChainTracksPrefixes is inductive on its own.                            *)
(***************************************************************************)
LEMMA ChainStep ==
  TypeOK /\ ChainTracksPrefixes /\ [Next]_vars => ChainTracksPrefixes'
<1> SUFFICES ASSUME TypeOK, ChainTracksPrefixes, [Next]_vars
             PROVE  ChainTracksPrefixes'
  OBVIOUS
<1>1. ASSUME NEW b \in Byte, Drive(b)
      PROVE  ChainTracksPrefixes'
  BY <1>1 DEF Drive, ChainTracksPrefixes
<1>2. CASE AssertReset
  <2> SUFFICES ASSUME NEW s \in Signatures, NEW k \in 1 .. Len(s)
               PROVE  ~ ff'[<<s, k>>] /\ ~ (k <= Len(stream'))
    BY <1>2 DEF AssertReset, ChainTracksPrefixes, OpenAt
  <2>1. <<s, k>> \in Stage
    BY StageForm
  <2>2. Len(stream') = 0 /\ k >= 1
    BY <1>2, SignatureLength DEF AssertReset
  <2> QED
    BY <1>2, <2>1, <2>2 DEF AssertReset, ChainCleared
<1>3. CASE ReleaseReset
  BY <1>3 DEF ReleaseReset, ChainTracksPrefixes
<1>4. CASE RisingEdge
  <2> SUFFICES ASSUME armed, NEW s \in Signatures, NEW k \in 1 .. Len(s)
               PROVE  ff'[<<s, k>>] <=> OpenAt(s, stream', k)
    BY <1>4 DEF RisingEdge, ChainTracksPrefixes
  <2>1. s \in Seq(Byte) /\ Len(s) \in Nat
    BY SignatureLength
  <2>2. stream \in Seq(Byte) /\ data_in \in Byte
    BY DEF TypeOK
  <2>3. stream' = Append(stream, data_in)
    BY <1>4 DEF RisingEdge
  <2>4. ff'[<<s, k>>] <=> k = 1 \/ OutAnd(s, k - 1)
    BY <1>4, StageForm DEF RisingEdge, Shifted
  <2>5. CASE k = 1
    <3>1. Append(stream, data_in) \in Seq(Byte) /\ Len(Append(stream, data_in)) >= 1
      BY <2>2
    <3> QED
      BY <2>3, <2>4, <2>5, <3>1, OpenFirst
  <2>6. CASE k # 1
    <3>1. k \in 2 .. Len(s) + 1 /\ k - 1 \in 1 .. Len(s)
      BY <2>1, <2>6
    <3>2. ff[<<s, k - 1>>] <=> OpenAt(s, stream, k - 1)
      BY <3>1 DEF ChainTracksPrefixes
    <3> QED
      BY <2>1, <2>2, <2>3, <2>4, <2>6, <3>1, <3>2, OpenGrows DEF OutAnd, Cmp
  <2> QED
    BY <2>5, <2>6
<1>5. CASE UNCHANGED vars
  BY <1>5 DEF vars, ChainTracksPrefixes
<1> QED
  BY <1>1, <1>2, <1>3, <1>4, <1>5 DEF Next

(***************************************************************************)
(* The flip-flop of every stage means what ChainTracksPrefixes says, for   *)
(* every set of signatures and every stream of bytes.                      *)
(***************************************************************************)
THEOREM ChainCorrect == Spec => []ChainTracksPrefixes
<1>1. Init => ChainTracksPrefixes
  <2> SUFFICES ASSUME Init, armed, NEW s \in Signatures, NEW k \in 1 .. Len(s)
               PROVE  ~ ff[<<s, k>>] /\ ~ (k <= Len(stream))
    BY DEF ChainTracksPrefixes, OpenAt
  <2>1. <<s, k>> \in Stage
    BY StageForm
  <2>2. Len(stream) = 0 /\ k >= 1
    BY SignatureLength DEF Init
  <2> QED
    BY <2>1, <2>2 DEF Init, ChainCleared
<1> QED
  BY <1>1, ChainStep, TypeCorrect, PTL DEF Spec

-----------------------------------------------------------------------------

(***************************************************************************)
(* What the edge does to one signature, told in bytes: the last AND gate   *)
(* is high exactly if the signature ends at the byte being taken.          *)
(***************************************************************************)
LEMMA MatchAtEdge ==
  ASSUME TypeOK, ChainTracksPrefixes, armed, NEW s \in Signatures
  PROVE  IsMatching(s) <=> EndsAt(s, Append(stream, data_in), Len(stream) + 1)
<1> DEFINE longer == Append(stream, data_in)
<1>1. s \in Seq(Byte) /\ Len(s) \in Nat /\ Len(s) >= 1
  BY SignatureLength
<1>2. stream \in Seq(Byte) /\ data_in \in Byte
  BY DEF TypeOK
<1>3. longer \in Seq(Byte) /\ Len(longer) = Len(stream) + 1
  BY <1>2
<1>4. Len(s) \in 1 .. Len(s) /\ Len(s) + 1 \in 2 .. Len(s) + 1 /\ (Len(s) + 1) - 1 = Len(s)
  BY <1>1
<1>5. ff[<<s, Len(s)>>] <=> OpenAt(s, stream, Len(s))
  BY <1>4 DEF ChainTracksPrefixes
<1>6. OpenAt(s, longer, Len(s) + 1) <=> OpenAt(s, stream, Len(s)) /\ data_in = s[Len(s)]
  BY <1>1, <1>2, <1>4, OpenGrows
<1>7. EndsAt(s, longer, Len(longer)) <=> OpenAt(s, longer, Len(s) + 1)
  BY <1>1, <1>3, EndsIsOpen
<1> QED
  BY <1>3, <1>5, <1>6, <1>7 DEF IsMatching, OutAnd, Cmp

(***************************************************************************)
(* The pull-up registers and the output ports.                             *)
(***************************************************************************)
LEMMA OutputStep ==
  /\ TypeOK /\ ChainTracksPrefixes /\ HoldExact /\ OutputExact
  /\ [Next]_vars
  => HoldExact' /\ OutputExact'
<1> SUFFICES ASSUME TypeOK, ChainTracksPrefixes, HoldExact, OutputExact, [Next]_vars
             PROVE  HoldExact' /\ OutputExact'
  OBVIOUS
<1> USE DEF HoldExact, OutputExact
<1>1. ASSUME NEW b \in Byte, Drive(b)
      PROVE  HoldExact' /\ OutputExact'
  BY <1>1 DEF Drive
<1>2. CASE AssertReset
  <2>1. Len(stream') = 0 /\ Len(stream') - 1 = -1 /\ stream' = << >>
    BY <1>2 DEF AssertReset
  <2> QED
    BY <1>2, <2>1, NothingOccursInEmpty DEF AssertReset, AllLow, ChainCleared
<1>3. CASE ReleaseReset
  BY <1>3 DEF ReleaseReset
<1>4. CASE RisingEdge
  <2> SUFFICES ASSUME armed, NEW s \in Signatures
               PROVE  /\ hold'[s] <=> OccursBy(s, stream', Len(stream'))
                      /\ output'[s] <=> OccursBy(s, stream', Len(stream') - 1)
    BY <1>4 DEF RisingEdge
  <2>1. stream \in Seq(Byte) /\ data_in \in Byte /\ s \in Seq(Byte)
    BY SignatureLength DEF TypeOK
  <2>2. stream' = Append(stream, data_in)
    BY <1>4 DEF RisingEdge
  <2>3. Len(stream') = Len(stream) + 1 /\ Len(stream') - 1 = Len(stream)
    BY <2>1, <2>2
  <2>4. hold'[s] <=> hold[s] \/ IsMatching(s)
    BY <1>4 DEF RisingEdge, PulledUp
  <2>5. output'[s] <=> hold[s]
    BY <1>4 DEF RisingEdge
  <2>6. IsMatching(s) <=> EndsAt(s, Append(stream, data_in), Len(stream) + 1)
    BY MatchAtEdge
  <2> QED
    BY <2>1, <2>2, <2>3, <2>4, <2>5, <2>6, OccursGrows
<1>5. CASE UNCHANGED vars
  BY <1>5 DEF vars
<1> QED
  BY <1>1, <1>2, <1>3, <1>4, <1>5 DEF Next

(***************************************************************************)
(* At power-up there is nothing to prove unless the reset is high, and the *)
(* reset holds pull-up registers and output ports low.                     *)
(***************************************************************************)
LEMMA OutputInit == Init => HoldExact /\ OutputExact
<1> SUFFICES ASSUME Init, armed, NEW s \in Signatures
             PROVE  /\ ~ hold[s] /\ ~ output[s]
                    /\ ~ OccursBy(s, stream, Len(stream))
                    /\ ~ OccursBy(s, stream, Len(stream) - 1)
  BY DEF HoldExact, OutputExact
<1>1. stream = << >> /\ Len(stream) = 0 /\ Len(stream) - 1 = -1
  BY DEF Init
<1> QED
  BY <1>1, NothingOccursInEmpty DEF Init, AllLow, ChainCleared

(***************************************************************************)
(* No output port raises a false alarm, misses an occurrence or remembers  *)
(* one across a reset, for every set of signatures and every stream.       *)
(***************************************************************************)
THEOREM OutputCorrect == Spec => []OutputExact
<1>1. Spec => [](HoldExact /\ OutputExact)
  BY OutputInit, OutputStep, TypeCorrect, ChainCorrect, PTL DEF Spec
<1> QED
  BY <1>1, PTL

(***************************************************************************)
(* The same of the pull-up registers, which the refinement below maps to   *)
(* the abstract matcher's memory.                                          *)
(***************************************************************************)
THEOREM HoldCorrect == Spec => []HoldExact
BY OutputInit, OutputStep, TypeCorrect, ChainCorrect, PTL DEF Spec

-----------------------------------------------------------------------------

(***************************************************************************)
(* Every step of the detector is a step of StreamMatcher, or changes       *)
(* nothing that StreamMatcher sees.                                        *)
(***************************************************************************)
LEMMA StepRefines ==
  TypeOK /\ ChainTracksPrefixes /\ HoldExact /\ [Next]_vars
    => [Matcher!Next]_<<armed, stream, hold>>
<1> SUFFICES ASSUME TypeOK, ChainTracksPrefixes, HoldExact, [Next]_vars
             PROVE  [Matcher!Next]_<<armed, stream, hold>>
  OBVIOUS
<1>1. ASSUME NEW b \in Byte, Drive(b)
      PROVE  UNCHANGED <<armed, stream, hold>>
  BY <1>1 DEF Drive
<1>2. CASE AssertReset
  BY <1>2 DEF AssertReset, AllLow, ChainCleared, Matcher!Next, Matcher!Reset
<1>3. CASE ReleaseReset
  BY <1>3 DEF ReleaseReset
<1>4. CASE RisingEdge
  <2>1. /\ stream \in Seq(Byte) /\ data_in \in Byte
        /\ hold \in [Signatures -> BOOLEAN] /\ armed \in BOOLEAN
    BY DEF TypeOK
  <2>2. /\ Len(stream) < MaxEdges
        /\ stream' = Append(stream, data_in)
        /\ hold' = [s \in Signatures |-> PulledUp(s)]
        /\ armed' = armed
    BY <1>4 DEF RisingEdge
  <2>3. Len(stream') = Len(stream) + 1
    BY <2>1, <2>2
  <2>4. CASE armed
    <3>1. ASSUME NEW s \in Signatures
          PROVE  PulledUp(s) = (hold[s] \/ Matcher!EndsAt(s, stream', Len(stream')))
      <4>1. IsMatching(s) <=> EndsAt(s, stream', Len(stream'))
        BY <2>2, <2>3, <2>4, MatchAtEdge
      <4>2. EndsAt(s, stream', Len(stream')) <=> Matcher!EndsAt(s, stream', Len(stream'))
        BY DEF EndsAt, Matcher!EndsAt
      <4> QED
        BY <4>1, <4>2 DEF PulledUp
    <3>2. Matcher!Take(data_in)
      BY <2>2, <2>4, <3>1 DEF Matcher!Take
    <3> QED
      BY <2>1, <3>2 DEF Matcher!Next
  <2>5. CASE ~ armed
    <3>1. hold' \in [Signatures -> BOOLEAN] /\ \A s \in Signatures : hold[s] => hold'[s]
      BY <2>2 DEF PulledUp
    <3>2. Matcher!TakeUnarmed(data_in)
      BY <2>2, <2>5, <3>1 DEF Matcher!TakeUnarmed
    <3> QED
      BY <2>1, <3>2 DEF Matcher!Next
  <2> QED
    BY <2>4, <2>5
<1>5. CASE UNCHANGED vars
  BY <1>5 DEF vars
<1> QED
  BY <1>1, <1>2, <1>3, <1>4, <1>5 DEF Next

(***************************************************************************)
(* The detector implements StreamMatcher: its pull-up registers are the    *)
(* memory of what has occurred.                                            *)
(***************************************************************************)
THEOREM Refinement == Spec => ImplementsMatcher
<1>1. Init => Matcher!Init
  BY DEF Init, Matcher!Init, AllLow, ChainCleared
<1> QED
  BY <1>1, StepRefines, TypeCorrect, ChainCorrect, HoldCorrect, PTL
     DEF Spec, ImplementsMatcher, Matcher!Spec, Matcher!vars

=============================================================================
