----------------------- MODULE LatchedDetectorProofs -----------------------
(***************************************************************************)
(* Proofs about LatchedDetector, for every set of signatures over every    *)
(* alphabet.                                                               *)
(***************************************************************************)
EXTENDS LatchedDetector, DetectorChainProofs, TLAPS

(***************************************************************************)
(* The inductive invariant behind the properties below.                    *)
(***************************************************************************)

\* The flip-flop of a stage is high exactly when the bytes taken end with the
\* prefix in front of that stage.
ChainOpen ==
  armed => \A s \in Signatures : \A k \in 1 .. Len(s) :
             ff[<<s, k>>] <=> OpenAt(s, stream, k)

ResetEmpties == reset => stream = << >>

\* What has been on data_in: between any two edges at least the byte that the
\* second one took, and now the present byte.
GlimpsesCover ==
  /\ \A g \in glimpses : g[1] \in 0 .. Len(stream)
  /\ <<Len(stream), data_in>> \in glimpses
  /\ \A n \in 1 .. Len(stream) : <<n - 1, stream[n]>> \in glimpses

\* With one change per period only the byte just taken and the next one are
\* ever seen.
SteadyGlimpses ==
  steady =>
    /\ \A g \in glimpses :
         g[1] >= 1 => \/ g[2] = stream[g[1]]
                      \/ g[2] = Append(stream, data_in)[g[1] + 1]
    /\ drives = 0 /\ Len(stream) >= 1 => data_in = stream[Len(stream)]

IInv ==
  /\ TypeOK
  /\ ChainOpen
  /\ ResetEmpties
  /\ GlimpsesCover
  /\ LatchExact
  /\ SteadyGlimpses

-----------------------------------------------------------------------------

(***************************************************************************)
(* Every step keeps the types.                                             *)
(***************************************************************************)
LEMMA TypeStep == TypeOK /\ [Next]_vars => TypeOK'
<1> SUFFICES ASSUME TypeOK, [Next]_vars
             PROVE  TypeOK'
  OBVIOUS
<1> USE DEF TypeOK
<1>1. << >> \in Seq(Byte)
  OBVIOUS
<1>2. ASSUME NEW b \in Byte, Drive(b)
      PROVE  TypeOK'
  <2>1. output' \in [Signatures -> BOOLEAN]
    BY <1>2 DEF Drive, Latched
  <2>2. glimpses' \subseteq Nat \X Byte
    BY <1>2 DEF Drive
  <2> QED
    BY <1>2, <2>1, <2>2 DEF Drive
<1>3. CASE AssertReset
  BY <1>1, <1>3 DEF AssertReset, AllLow, ChainCleared
<1>4. CASE ReleaseReset
  BY <1>4 DEF ReleaseReset, history, Latched
<1>5. ASSUME NEW b \in Byte, RisingEdge(b)
      PROVE  TypeOK'
  <2>1. output' \in [Signatures -> BOOLEAN]
    BY <1>5 DEF RisingEdge, Latched
  <2>2. glimpses' \subseteq Nat \X Byte
    BY <1>5 DEF RisingEdge
  <2>3. ff' \in [Stage -> BOOLEAN]
    BY <1>5 DEF RisingEdge, Shifted, OutAnd
  <2>4. stream' \in Seq(Byte)
    BY <1>5 DEF RisingEdge
  <2> QED
    BY <1>5, <2>1, <2>2, <2>3, <2>4 DEF RisingEdge
<1>6. CASE UNCHANGED vars
  BY <1>6 DEF vars, history
<1> QED
  BY <1>2, <1>3, <1>4, <1>5, <1>6 DEF Next

(***************************************************************************)
(* Power-up has the types.                                                 *)
(***************************************************************************)
LEMMA TypeInit == Init => TypeOK
BY DEF Init, TypeOK

(***************************************************************************)
(* Type correctness of the latched detector.                               *)
(***************************************************************************)
THEOREM LatchedTypeCorrect == Spec => []TypeOK
BY TypeInit, TypeStep, PTL DEF Spec

(***************************************************************************)
(* A signature is at its last byte only after a byte has been taken.       *)
(***************************************************************************)
LEMMA NotOpenInEmpty ==
  ASSUME NEW s \in Signatures, NEW str, Len(str) = 0, NEW k \in 1 .. Len(s)
  PROVE  ~ OpenAt(s, str, k)
BY SignatureLength DEF OpenAt

(***************************************************************************)
(* The chains after an edge.                                               *)
(***************************************************************************)
LEMMA ChainEdge ==
  ASSUME TypeOK, ChainOpen, NEW b \in Byte, RisingEdge(b)
  PROVE  ChainOpen'
<1> SUFFICES ASSUME armed, NEW s \in Signatures, NEW k \in 1 .. Len(s)
             PROVE  ff'[<<s, k>>] <=> OpenAt(s, stream', k)
  BY DEF RisingEdge, ChainOpen
<1>1. s \in Seq(Byte) /\ Len(s) \in Nat
  BY SignatureLength
<1>2. stream \in Seq(Byte) /\ data_in \in Byte
  BY DEF TypeOK
<1>3. stream' = Append(stream, data_in)
  BY DEF RisingEdge
<1>4. ff'[<<s, k>>] <=> k = 1 \/ OutAnd(s, k - 1)
  BY StageForm DEF RisingEdge, Shifted
<1>5. CASE k = 1
  <2>1. Append(stream, data_in) \in Seq(Byte) /\ Len(Append(stream, data_in)) >= 1
    BY <1>2
  <2> QED
    BY <1>3, <1>4, <1>5, <2>1, OpenFirst
<1>6. CASE k # 1
  <2>1. k \in 2 .. Len(s) + 1 /\ k - 1 \in 1 .. Len(s)
    BY <1>1, <1>6
  <2>2. ff[<<s, k - 1>>] <=> OpenAt(s, stream, k - 1)
    BY <2>1 DEF ChainOpen
  <2> QED
    BY <1>1, <1>2, <1>3, <1>4, <1>6, <2>1, <2>2, OpenGrows DEF OutAnd, Cmp
<1> QED
  BY <1>5, <1>6

(***************************************************************************)
(* The steps of the reset start everything again.                          *)
(***************************************************************************)
LEMMA ResetKeeps ==
  ASSUME IInv, TypeOK', AssertReset
  PROVE  IInv'
<1>1. /\ stream' = << >> /\ Len(stream') = 0 /\ reset'
      /\ glimpses' = {<<0, data_in'>>} /\ data_in' = data_in
      /\ ff' = ChainCleared /\ output' = AllLow
  BY DEF AssertReset
<1>2. ChainOpen'
  <2> SUFFICES ASSUME NEW s \in Signatures, NEW k \in 1 .. Len(s)
               PROVE  ~ ff'[<<s, k>>] /\ ~ OpenAt(s, stream', k)
    BY DEF ChainOpen
  <2> QED
    BY <1>1, StageForm, NotOpenInEmpty DEF ChainCleared
<1>3. LatchExact'
  <2> SUFFICES ASSUME NEW s \in Signatures
               PROVE  /\ ~ output'[s]
                      /\ ~ \E g \in glimpses' : OpenAt(s, Taken(g[1])', Len(s))
    BY DEF LatchExact
  <2>1. ~ output'[s]
    BY <1>1 DEF AllLow
  <2>2. Len(SubSeq(stream', 1, 0)) = 0
    BY <1>1
  <2>3. Len(s) \in 1 .. Len(s)
    BY SignatureLength
  <2>4. ~ OpenAt(s, SubSeq(stream', 1, 0), Len(s))
    BY <2>2, <2>3, NotOpenInEmpty
  <2> QED
    BY <1>1, <2>1, <2>4 DEF Taken
<1>4. GlimpsesCover' /\ SteadyGlimpses' /\ ResetEmpties'
  BY <1>1 DEF GlimpsesCover, SteadyGlimpses, ResetEmpties
<1> QED
  BY <1>2, <1>3, <1>4 DEF IInv

(***************************************************************************)
(* Power-up satisfies the inductive invariant.                             *)
(***************************************************************************)
LEMMA IInvInit == Init => IInv
<1> SUFFICES ASSUME Init
             PROVE  IInv
  OBVIOUS
<1>1. /\ stream = << >> /\ Len(stream) = 0 /\ armed = reset
      /\ glimpses = {<<0, data_in>>}
      /\ reset => ff = ChainCleared /\ output = AllLow
  BY DEF Init
<1>2. ChainOpen
  <2> SUFFICES ASSUME armed, NEW s \in Signatures, NEW k \in 1 .. Len(s)
               PROVE  ~ ff[<<s, k>>] /\ ~ OpenAt(s, stream, k)
    BY DEF ChainOpen
  <2> QED
    BY <1>1, StageForm, NotOpenInEmpty DEF ChainCleared
<1>3. LatchExact
  <2> SUFFICES ASSUME armed, NEW s \in Signatures
               PROVE  /\ ~ output[s]
                      /\ ~ \E g \in glimpses : OpenAt(s, Taken(g[1]), Len(s))
    BY DEF LatchExact
  <2>1. ~ output[s]
    BY <1>1 DEF AllLow
  <2>2. Len(SubSeq(stream, 1, 0)) = 0
    BY <1>1
  <2>3. Len(s) \in 1 .. Len(s)
    BY SignatureLength
  <2>4. ~ OpenAt(s, SubSeq(stream, 1, 0), Len(s))
    BY <2>2, <2>3, NotOpenInEmpty
  <2> QED
    BY <1>1, <2>1, <2>4 DEF Taken
<1>4. GlimpsesCover /\ SteadyGlimpses /\ ResetEmpties
  BY <1>1 DEF GlimpsesCover, SteadyGlimpses, ResetEmpties
<1> QED
  BY <1>2, <1>3, <1>4, TypeInit DEF IInv

(***************************************************************************)
(* A byte more does not change what had been taken before.                 *)
(***************************************************************************)
LEMMA TakenStays ==
  ASSUME NEW str \in Seq(Byte), NEW b \in Byte, NEW n \in 0 .. Len(str)
  PROVE  /\ SubSeq(Append(str, b), 1, n) = SubSeq(str, 1, n)
         /\ SubSeq(Append(str, b), 1, Len(str) + 1) = Append(str, b)
         /\ SubSeq(str, 1, Len(str)) = str
OBVIOUS

(***************************************************************************)
(* What the AND gate of the last stage sees after a step.                  *)
(***************************************************************************)
LEMMA MatchMeansNext ==
  ASSUME ChainOpen', armed', NEW s \in Signatures
  PROVE  IsMatching(s)' <=> OpenAt(s, stream', Len(s)) /\ data_in' = s[Len(s)]
<1>1. Len(s) \in 1 .. Len(s)
  BY SignatureLength
<1> QED
  BY <1>1 DEF ChainOpen, IsMatching, OutAnd, Cmp

(***************************************************************************)
(* When the reset falls nothing changes: the AND gates are all low.        *)
(***************************************************************************)
LEMMA ReleaseKeeps ==
  ASSUME IInv, TypeOK', ReleaseReset
  PROVE  IInv'
<1>1. UNCHANGED <<data_in, ff, armed, stream, glimpses, drives, steady>> /\ ~ reset'
  BY DEF ReleaseReset, history
<1>2. ChainOpen'
  BY <1>1 DEF IInv, ChainOpen
<1>3. GlimpsesCover' /\ SteadyGlimpses' /\ ResetEmpties'
  BY <1>1 DEF IInv, GlimpsesCover, SteadyGlimpses, ResetEmpties
<1>4. LatchExact'
  <2> SUFFICES ASSUME armed, NEW s \in Signatures
               PROVE  output'[s] <=>
                        \E g \in glimpses : /\ OpenAt(s, Taken(g[1]), Len(s))
                                            /\ g[2] = s[Len(s)]
    BY <1>1 DEF LatchExact, Taken
  <2>1. stream = << >> /\ Len(stream) = 0 /\ Len(s) \in 1 .. Len(s)
    BY SignatureLength DEF ReleaseReset, IInv, ResetEmpties
  <2>2. ~ IsMatching(s)'
    BY <1>1, <1>2, <2>1, MatchMeansNext, NotOpenInEmpty
  <2>3. output'[s] <=> output[s] \/ IsMatching(s)'
    BY DEF ReleaseReset, Latched
  <2> QED
    BY <2>2, <2>3 DEF IInv, LatchExact
<1> QED
  BY <1>2, <1>3, <1>4 DEF IInv

(***************************************************************************)
(* A change of data_in between two edges.                                  *)
(***************************************************************************)
LEMMA DriveKeeps ==
  ASSUME IInv, TypeOK', NEW b \in Byte, Drive(b)
  PROVE  IInv'
<1>1. /\ UNCHANGED <<ff, reset, armed, stream>> /\ data_in' = b
      /\ glimpses' = glimpses \cup {<<Len(stream), b>>}
  BY DEF Drive
<1>2. stream \in Seq(Byte) /\ data_in \in Byte /\ Len(stream) \in Nat
  BY DEF IInv, TypeOK
<1>3. ChainOpen' /\ ResetEmpties'
  BY <1>1 DEF IInv, ChainOpen, ResetEmpties
<1>4. GlimpsesCover'
  BY <1>1, <1>2 DEF IInv, GlimpsesCover
<1>5. LatchExact'
  <2> SUFFICES ASSUME armed, NEW s \in Signatures
               PROVE  output'[s] <=>
                        \E g \in glimpses' : /\ OpenAt(s, Taken(g[1]), Len(s))
                                             /\ g[2] = s[Len(s)]
    BY <1>1 DEF LatchExact, Taken
  <2>1. output[s] <=>
          \E g \in glimpses : /\ OpenAt(s, Taken(g[1]), Len(s))
                              /\ g[2] = s[Len(s)]
    BY DEF IInv, LatchExact
  <2>2. Taken(Len(stream)) = stream
    BY <1>2, TakenStays DEF Taken
  <2> DEFINE new == <<Len(stream), b>>
             Seen(g) == OpenAt(s, Taken(g[1]), Len(s)) /\ g[2] = s[Len(s)]
  <2>3. Seen(new) <=> OpenAt(s, stream, Len(s)) /\ b = s[Len(s)]
    <3>1. new[1] = Len(stream) /\ new[2] = b
      OBVIOUS
    <3> QED
      BY <2>2, <3>1
  <2>4. output'[s] <=> output[s] \/ Seen(new)
    <3>1. CASE reset
      <4>1. Len(stream) = 0 /\ Len(s) \in 1 .. Len(s) /\ output' = output
        BY <3>1, SignatureLength DEF IInv, ResetEmpties, Drive
      <4>2. ~ OpenAt(s, stream, Len(s))
        BY <4>1, NotOpenInEmpty
      <4> QED
        BY <2>3, <4>1, <4>2
    <3>2. CASE ~ reset
      <4>1. output'[s] <=> output[s] \/ IsMatching(s)'
        BY <3>2 DEF Drive, Latched
      <4>2. IsMatching(s)' <=> OpenAt(s, stream, Len(s)) /\ b = s[Len(s)]
        BY <1>1, <1>3, MatchMeansNext
      <4> QED
        BY <2>3, <4>1, <4>2
    <3> QED
      BY <3>1, <3>2
  <2>5. output[s] <=> \E g \in glimpses : Seen(g)
    BY <2>1
  <2>6. glimpses' = glimpses \cup {new}
    BY <1>1
  <2> HIDE DEF new, Seen
  <2>7. (\E g \in glimpses' : Seen(g)) <=> (\E g \in glimpses : Seen(g)) \/ Seen(new)
    BY <2>6
  <2>8. output'[s] <=> \E g \in glimpses' : Seen(g)
    BY <2>4, <2>5, <2>7
  <2> QED
    BY <2>8 DEF Seen
<1>6. SteadyGlimpses'
  <2> SUFFICES ASSUME steady'
               PROVE  /\ \A g \in glimpses' :
                           g[1] >= 1 => \/ g[2] = stream[g[1]]
                                        \/ g[2] = Append(stream, b)[g[1] + 1]
                      /\ ~ (drives' = 0)
    BY <1>1 DEF SteadyGlimpses
  <2>1. steady /\ drives = 0 /\ drives' = 1
    <3>1. steady' = (steady /\ drives = 0)
      BY DEF Drive
    <3>2. steady /\ drives = 0
      BY <3>1, Zenon
    <3> QED
      BY <3>2 DEF Drive
  <2>2. Len(stream) >= 1 => data_in = stream[Len(stream)]
    BY <2>1 DEF IInv, SteadyGlimpses
  <2>3. ASSUME NEW g \in glimpses, g[1] >= 1
        PROVE  \/ g[2] = stream[g[1]]
               \/ g[2] = Append(stream, b)[g[1] + 1]
    <3>1. g[1] \in 1 .. Len(stream)
      BY <2>3 DEF IInv, GlimpsesCover
    <3>2. \/ g[2] = stream[g[1]]
          \/ g[2] = Append(stream, data_in)[g[1] + 1]
      BY <2>1, <2>3 DEF IInv, SteadyGlimpses
    <3>3. CASE g[1] = Len(stream)
      <4>1. Append(stream, data_in)[g[1] + 1] = data_in
        BY <1>2, <3>3
      <4> QED
        BY <2>2, <3>1, <3>2, <3>3, <4>1
    <3>4. CASE g[1] # Len(stream)
      <4>1. g[1] + 1 \in 1 .. Len(stream)
        BY <1>2, <3>1, <3>4
      <4>2. Append(stream, data_in)[g[1] + 1] = Append(stream, b)[g[1] + 1]
        BY <1>2, <4>1
      <4> QED
        BY <3>2, <4>2
    <3> QED
      BY <3>3, <3>4
  <2>4. ASSUME NEW g \in glimpses', g[1] >= 1
        PROVE  \/ g[2] = stream[g[1]]
               \/ g[2] = Append(stream, b)[g[1] + 1]
    <3>1. CASE g = <<Len(stream), b>>
      <4>1. g[1] = Len(stream) /\ g[2] = b
        BY <3>1
      <4>2. Append(stream, b)[Len(stream) + 1] = b
        BY <1>2
      <4> QED
        BY <4>1, <4>2
    <3> QED
      BY <1>1, <2>3, <2>4, <3>1
  <2>5. ~ (drives' = 0)
    BY <2>1
  <2> QED
    BY <2>4, <2>5
<1> QED
  BY <1>3, <1>4, <1>5, <1>6 DEF IInv

(***************************************************************************)
(* A clock edge, with the source's answer to it.                           *)
(***************************************************************************)
LEMMA EdgeKeeps ==
  ASSUME IInv, TypeOK', NEW b \in Byte, RisingEdge(b)
  PROVE  IInv'
<1>1. /\ UNCHANGED <<reset, armed, steady>> /\ data_in' = b /\ ~ reset
      /\ stream' = Append(stream, data_in)
      /\ glimpses' = glimpses \cup {<<Len(stream) + 1, b>>}
  BY DEF RisingEdge
<1>2. stream \in Seq(Byte) /\ data_in \in Byte /\ Len(stream) \in Nat
  BY DEF IInv, TypeOK
<1>3. /\ Len(stream') = Len(stream) + 1
      /\ stream' \in Seq(Byte)
      /\ stream'[Len(stream) + 1] = data_in
      /\ \A i \in 1 .. Len(stream) : stream'[i] = stream[i]
  BY <1>1, <1>2
<1>4. ChainOpen' /\ ResetEmpties'
  BY <1>1, ChainEdge DEF IInv, ResetEmpties
<1>5. GlimpsesCover'
  <2>1. \A g \in glimpses' : g[1] \in 0 .. Len(stream')
    BY <1>1, <1>2, <1>3 DEF IInv, GlimpsesCover
  <2>2. ASSUME NEW n \in 1 .. Len(stream')
        PROVE  <<n - 1, stream'[n]>> \in glimpses'
    <3>1. CASE n = Len(stream) + 1
      <4>1. n - 1 = Len(stream) /\ stream'[n] = data_in
        BY <1>2, <1>3, <3>1
      <4> QED
        BY <1>1, <4>1 DEF IInv, GlimpsesCover
    <3>2. CASE n # Len(stream) + 1
      <4>1. n \in 1 .. Len(stream)
        BY <1>2, <1>3, <3>2
      <4> QED
        BY <1>1, <1>3, <4>1 DEF IInv, GlimpsesCover
    <3> QED
      BY <3>1, <3>2
  <2> QED
    BY <1>1, <1>3, <2>1, <2>2 DEF GlimpsesCover
<1>6. LatchExact'
  <2> SUFFICES ASSUME armed, NEW s \in Signatures
               PROVE  output'[s] <=>
                        \E g \in glimpses' : /\ OpenAt(s, SubSeq(stream', 1, g[1]), Len(s))
                                             /\ g[2] = s[Len(s)]
    BY <1>1 DEF LatchExact, Taken
  <2>1. output[s] <=>
          \E g \in glimpses : /\ OpenAt(s, SubSeq(stream, 1, g[1]), Len(s))
                              /\ g[2] = s[Len(s)]
    BY DEF IInv, LatchExact, Taken
  <2>2. \A g \in glimpses : SubSeq(stream', 1, g[1]) = SubSeq(stream, 1, g[1])
    BY <1>1, <1>2, TakenStays DEF IInv, GlimpsesCover
  <2> DEFINE new == <<Len(stream) + 1, b>>
             Seen(g) == OpenAt(s, SubSeq(stream', 1, g[1]), Len(s)) /\ g[2] = s[Len(s)]
  <2>3. Seen(new) <=> OpenAt(s, stream', Len(s)) /\ b = s[Len(s)]
    <3>1. new[1] = Len(stream) + 1 /\ new[2] = b
      OBVIOUS
    <3>2. SubSeq(stream', 1, Len(stream) + 1) = stream'
      BY <1>1, <1>2, TakenStays
    <3> QED
      BY <3>1, <3>2
  <2>4. output'[s] <=> output[s] \/ Seen(new)
    <3>1. output'[s] <=> output[s] \/ IsMatching(s)'
      BY DEF RisingEdge, Latched
    <3>2. IsMatching(s)' <=> OpenAt(s, stream', Len(s)) /\ b = s[Len(s)]
      BY <1>1, <1>4, MatchMeansNext
    <3> QED
      BY <2>3, <3>1, <3>2
  <2>5. output[s] <=> \E g \in glimpses : Seen(g)
    BY <2>1, <2>2
  <2>6. glimpses' = glimpses \cup {new}
    BY <1>1
  <2> HIDE DEF new, Seen
  <2>7. (\E g \in glimpses' : Seen(g)) <=> (\E g \in glimpses : Seen(g)) \/ Seen(new)
    BY <2>6
  <2>8. output'[s] <=> \E g \in glimpses' : Seen(g)
    BY <2>4, <2>5, <2>7
  <2> QED
    BY <2>8 DEF Seen
<1>7. SteadyGlimpses'
  <2> SUFFICES ASSUME steady
               PROVE  /\ \A g \in glimpses' :
                           g[1] >= 1 => \/ g[2] = stream'[g[1]]
                                        \/ g[2] = Append(stream', b)[g[1] + 1]
                      /\ drives' = 0 => b = stream'[Len(stream')]
    BY <1>1 DEF SteadyGlimpses
  <2>1. ASSUME NEW g \in glimpses, g[1] >= 1
        PROVE  \/ g[2] = stream'[g[1]]
               \/ g[2] = Append(stream', b)[g[1] + 1]
    <3>1. g[1] \in 1 .. Len(stream)
      BY <2>1 DEF IInv, GlimpsesCover
    <3>2. \/ g[2] = stream[g[1]]
          \/ g[2] = stream'[g[1] + 1]
      BY <1>1, <2>1 DEF IInv, SteadyGlimpses
    <3>3. stream'[g[1]] = stream[g[1]]
      BY <1>3, <3>1
    <3>4. Append(stream', b)[g[1] + 1] = stream'[g[1] + 1]
      BY <1>2, <1>3, <3>1
    <3> QED
      BY <3>2, <3>3, <3>4
  <2>2. ASSUME NEW g \in glimpses', g[1] >= 1
        PROVE  \/ g[2] = stream'[g[1]]
               \/ g[2] = Append(stream', b)[g[1] + 1]
    <3>1. CASE g = <<Len(stream) + 1, b>>
      <4>1. g[1] = Len(stream) + 1 /\ g[2] = b
        BY <3>1
      <4>2. Append(stream', b)[(Len(stream) + 1) + 1] = b
        BY <1>2, <1>3
      <4> QED
        BY <4>1, <4>2
    <3> QED
      BY <1>1, <2>1, <2>2, <3>1
  <2>3. drives' = 0 => b = data_in
    BY DEF RisingEdge
  <2> QED
    BY <1>3, <2>2, <2>3
<1> QED
  BY <1>4, <1>5, <1>6, <1>7 DEF IInv

(***************************************************************************)
(* The inductive invariant holds in every reachable state.                 *)
(***************************************************************************)
LEMMA IInvHolds == Spec => []IInv
<1>1. IInv /\ [Next]_vars => IInv'
  <2> SUFFICES ASSUME IInv, [Next]_vars
               PROVE  IInv'
    OBVIOUS
  <2>1. TypeOK'
    BY TypeStep DEF IInv
  <2>2. CASE UNCHANGED vars
    BY <2>1, <2>2 DEF vars, history, IInv, ChainOpen, ResetEmpties,
                      GlimpsesCover, LatchExact, Taken, SteadyGlimpses
  <2> QED
    BY <2>1, <2>2, DriveKeeps, EdgeKeeps, ResetKeeps, ReleaseKeeps DEF Next
<1> QED
  BY <1>1, IInvInit, PTL DEF Spec

(***************************************************************************)
(* What the clockless latch computes, for every set of signatures and any  *)
(* glitches on data_in.                                                    *)
(***************************************************************************)
THEOREM LatchCorrect == Spec => []LatchExact
BY IInvHolds, PTL DEF IInv

(***************************************************************************)
(* No occurrence in the bytes taken is missed: its last byte was on        *)
(* data_in before the edge that took it.                                   *)
(***************************************************************************)
THEOREM LatchMissesNothing == Spec => []NoOccurrenceMissed
<1>1. IInv => NoOccurrenceMissed
  <2> SUFFICES ASSUME IInv, armed, NEW s \in Signatures,
                      NEW e \in 1 .. Len(stream), EndsAt(s, stream, e)
               PROVE  output[s]
    BY DEF NoOccurrenceMissed, OccursBy
  <2>1. s \in Seq(Byte) /\ Len(s) \in Nat /\ Len(s) >= 1
    BY SignatureLength
  <2>2. stream \in Seq(Byte) /\ Len(stream) \in Nat
    BY DEF IInv, TypeOK
  <2>3. /\ Len(s) <= e - 1
        /\ \A i \in 1 .. Len(s) : stream[e - Len(s) + i] = s[i]
    BY <2>1, <2>2 DEF EndsAt
  <2>4. <<e - 1, stream[e]>> \in glimpses
    BY DEF IInv, GlimpsesCover
  <2>5. stream[e] = s[Len(s)]
    <3>1. Len(s) \in 1 .. Len(s) /\ e - Len(s) + Len(s) = e
      BY <2>1, <2>2
    <3> QED
      BY <2>3, <3>1
  <2>6. OpenAt(s, Taken(e - 1), Len(s))
    <3>1. Len(Taken(e - 1)) = e - 1 /\ \A i \in 1 .. e - 1 : Taken(e - 1)[i] = stream[i]
      BY <2>2 DEF Taken
    <3>2. ASSUME NEW i \in 1 .. Len(s) - 1
          PROVE  Taken(e - 1)[(e - 1) - (Len(s) - 1) + i] = s[i]
      <4>1. /\ (e - 1) - (Len(s) - 1) + i = e - Len(s) + i
            /\ e - Len(s) + i \in 1 .. e - 1
            /\ i \in 1 .. Len(s)
        BY <2>1, <2>2, <2>3
      <4> QED
        BY <2>3, <3>1, <4>1
    <3> QED
      BY <2>3, <3>1, <3>2 DEF OpenAt
  <2> QED
    BY <2>4, <2>5, <2>6 DEF IInv, LatchExact
<1> QED
  BY <1>1, IInvHolds, PTL

(***************************************************************************)
(* With one change of data_in per clock period a signature whose last two  *)
(* bytes differ is never reported before it is there.                      *)
(***************************************************************************)
THEOREM LatchTrusted == Spec => []SteadyMeansNoFalseAlarm
<1>1. IInv => SteadyMeansNoFalseAlarm
  <2> SUFFICES ASSUME IInv, armed, steady, NEW s \in Signatures, Len(s) > 1,
                      s[Len(s)] # s[Len(s) - 1], output[s]
               PROVE  OccursBy(s, Append(stream, data_in), Len(stream) + 1)
    BY DEF SteadyMeansNoFalseAlarm
  <2>1. s \in Seq(Byte) /\ Len(s) \in Nat
    BY SignatureLength
  <2>2. stream \in Seq(Byte) /\ Len(stream) \in Nat /\ data_in \in Byte
    BY DEF IInv, TypeOK
  <2>3. PICK g \in glimpses : OpenAt(s, Taken(g[1]), Len(s)) /\ g[2] = s[Len(s)]
    BY DEF IInv, LatchExact
  <2>4. PICK n \in 0 .. Len(stream) : n = g[1]
    BY DEF IInv, GlimpsesCover
  <2>5. Len(Taken(n)) = n /\ \A i \in 1 .. n : Taken(n)[i] = stream[i]
    BY <2>2 DEF Taken
  <2>6. /\ Len(s) <= n
        /\ \A i \in 1 .. Len(s) - 1 : stream[n - (Len(s) - 1) + i] = s[i]
    <3>1. /\ Len(s) <= n
          /\ \A i \in 1 .. Len(s) - 1 : Taken(n)[n - (Len(s) - 1) + i] = s[i]
      BY <2>3, <2>4, <2>5 DEF OpenAt
    <3>2. \A i \in 1 .. Len(s) - 1 : n - (Len(s) - 1) + i \in 1 .. n
      BY <2>1, <3>1
    <3> QED
      BY <2>5, <3>1, <3>2
  <2>7. stream[n] = s[Len(s) - 1]
    <3>1. Len(s) - 1 \in 1 .. Len(s) - 1 /\ n - (Len(s) - 1) + (Len(s) - 1) = n
      BY <2>1
    <3> QED
      BY <2>6, <3>1
  <2>8. Append(stream, data_in)[n + 1] = s[Len(s)]
    <3>1. \/ g[2] = stream[n]
          \/ g[2] = Append(stream, data_in)[n + 1]
      BY <2>1, <2>4, <2>6 DEF IInv, SteadyGlimpses
    <3> QED
      BY <2>3, <2>7, <3>1
  <2>9. ASSUME NEW i \in 1 .. Len(s)
        PROVE  Append(stream, data_in)[(n + 1) - Len(s) + i] = s[i]
    <3>1. CASE i = Len(s)
      <4>1. (n + 1) - Len(s) + i = n + 1
        BY <2>1, <3>1
      <4> QED
        BY <2>8, <3>1, <4>1
    <3>2. CASE i # Len(s)
      <4>1. i \in 1 .. Len(s) - 1
        BY <2>1, <3>2
      <4>2. /\ (n + 1) - Len(s) + i = n - (Len(s) - 1) + i
            /\ n - (Len(s) - 1) + i \in 1 .. Len(stream)
        BY <2>1, <2>2, <2>6, <4>1
      <4>3. Append(stream, data_in)[n - (Len(s) - 1) + i] = stream[n - (Len(s) - 1) + i]
        BY <2>2, <4>2
      <4> QED
        BY <2>6, <4>1, <4>2, <4>3
    <3> QED
      BY <3>1, <3>2
  <2>10. EndsAt(s, Append(stream, data_in), n + 1)
    <3>1. Len(s) < n + 1 /\ n + 1 <= Len(Append(stream, data_in))
      BY <2>1, <2>2, <2>6
    <3> QED
      BY <2>9, <3>1 DEF EndsAt
  <2> QED
    BY <2>2, <2>10 DEF OccursBy
<1> QED
  BY <1>1, IInvHolds, PTL

=============================================================================
