------------------------ MODULE SequenceFinderProofs ------------------------
(***************************************************************************)
(* Proofs about SequenceFinder, for every width of the register, every     *)
(* alphabet and every set of targets.                                      *)
(***************************************************************************)
EXTENDS SequenceFinder, TLAPS, WellFoundedInduction

(***************************************************************************)
(* The inductive invariant behind the properties below.                    *)
(***************************************************************************)

\* Data is recorded only between a reset that has loaded the target and the
\* next change of the target or the next reset.
HistoryStartsAtReset ==
  (~ valid \/ Reset) => seen = << >>

ResetLoads ==
  Reset => ~ Mismatch_Occurred /\ (valid => Sequence = User_Sequence)

\* A mismatch can happen only in a target that has a byte, and starts it again.
MismatchStartsOver ==
  valid /\ Mismatch_Occurred =>
    /\ Sequence = User_Sequence
    /\ User_Sequence[1] # Nul
    /\ ~ End_Of_Sequence

\* From the first edge on End_Of_Sequence tells of an occurrence one edge ago,
\* and from then on the finder compares nothing.
EndIsFinal ==
  valid /\ Len(seen) >= 1 /\ End_Of_Sequence =>
    /\ ~ Mismatch_Occurred
    /\ Sequence[1] = Nul
    /\ Detected(Len(seen) - 1)

FoundFollowsEnd ==
  valid /\ Len(seen) >= 2 /\ Sequence_Found =>
    End_Of_Sequence /\ Detected(Len(seen) - 2)

IInv ==
  /\ TypeOK
  /\ HistoryStartsAtReset
  /\ ResetLoads
  /\ ProgressIsReal
  /\ MismatchStartsOver
  /\ EndIsFinal
  /\ FoundFollowsEnd

-----------------------------------------------------------------------------

(***************************************************************************)
(* A nonempty set of numbers has a least one.                              *)
(***************************************************************************)
LEMMA LeastNatural ==
  ASSUME NEW S, S \subseteq Nat, S # {}
  PROVE  \E z \in S : \A m \in S : z <= m
<1> DEFINE Less == OpToRel(<, Nat)
<1>1. IsWellFoundedOn(Less, Nat)
  BY NatLessThanWellFounded
<1>2. PICK z \in S : \A m \in S : ~ (<<m, z>> \in Less)
  <2> HIDE DEF Less
  <2> QED
    BY <1>1, WFMin
<1>3. ASSUME NEW m \in S, m < z
      PROVE  <<m, z>> \in Less
  <2>1. <<m, z>> \in Nat \X Nat
    OBVIOUS
  <2> QED
    BY <1>3, <2>1 DEF OpToRel
<1>4. \A m \in S : ~ (m < z)
  BY <1>2, <1>3
<1> QED
  BY <1>4

(***************************************************************************)
(* Every target has a length: the number of its bytes in front of the      *)
(* first zero.                                                             *)
(***************************************************************************)
LEMMA LengthExists ==
  ASSUME NEW t \in [1 .. Width -> Byte]
  PROVE  /\ Length(t) \in 0 .. Width
         /\ \A i \in 1 .. Length(t) : t[i] # Nul
         /\ Length(t) < Width => t[Length(t) + 1] = Nul
<1> DEFINE IsLength(n) == /\ \A i \in 1 .. n : t[i] # Nul
                          /\ n < Width => t[n + 1] = Nul
           Zeros == { i \in 1 .. Width : t[i] = Nul }
<1>1. \E n \in 0 .. Width : IsLength(n)
  <2>1. CASE Zeros = {}
    <3>1. IsLength(Width)
      BY <2>1, FinderAssumption
    <3> QED
      BY <3>1, FinderAssumption
  <2>2. CASE Zeros # {}
    <3>1. Zeros \in SUBSET Nat
      BY FinderAssumption
    <3>2. PICK z \in Zeros : \A m \in Zeros : z <= m
      BY <2>2, <3>1, LeastNatural
    <3>3. z \in 1 .. Width /\ t[z] = Nul
      BY <3>2
    <3>4. z - 1 \in 0 .. Width
      BY <3>3, FinderAssumption
    <3>5. ASSUME NEW i \in 1 .. z - 1
          PROVE  t[i] # Nul
      <4>1. i \in 1 .. Width /\ ~ (z <= i)
        BY <3>3, FinderAssumption
      <4> QED
        BY <3>2, <4>1
    <3>6. (z - 1) + 1 = z
      BY <3>3
    <3> QED
      BY <3>3, <3>4, <3>5, <3>6
  <2> QED
    BY <2>1, <2>2
<1> QED
  BY <1>1 DEF Length

(***************************************************************************)
(* What the slices of the register are: no shift leaves it, and shifts add *)
(* up.                                                                     *)
(***************************************************************************)
LEMMA ShiftType ==
  ASSUME NEW q \in [1 .. Width -> Byte], NEW n \in Nat
  PROVE  Shift(q, n) \in [1 .. Width -> Byte]
BY FinderAssumption DEF Shift

LEMMA ShiftNone ==
  ASSUME NEW q \in [1 .. Width -> Byte]
  PROVE  Shift(q, 0) = q
BY FinderAssumption DEF Shift

LEMMA ShiftOnce ==
  ASSUME NEW q \in [1 .. Width -> Byte], NEW n \in Nat
  PROVE  Shift(Shift(q, n), 1) = Shift(q, n + 1)
<1> SUFFICES ASSUME NEW i \in 1 .. Width
             PROVE  Shift(Shift(q, n), 1)[i] = Shift(q, n + 1)[i]
  BY DEF Shift
<1>1. i \in Nat /\ Width \in Nat
  BY FinderAssumption
<1>2. CASE i + 1 <= Width
  <2>1. i + 1 \in 1 .. Width
    BY <1>1, <1>2
  <2>2. Shift(Shift(q, n), 1)[i] = Shift(q, n)[i + 1]
    BY <1>2 DEF Shift
  <2>3. Shift(q, n)[i + 1] = IF i + 1 + n <= Width THEN q[i + 1 + n] ELSE Nul
    BY <2>1 DEF Shift
  <2>4. i + 1 + n = i + (n + 1)
    BY <1>1
  <2> QED
    BY <2>2, <2>3, <2>4 DEF Shift
<1>3. CASE ~ (i + 1 <= Width)
  BY <1>1, <1>3 DEF Shift
<1> QED
  BY <1>2, <1>3

(***************************************************************************)
(* The first byte of the register after n matches is the next byte of the  *)
(* target, and zero exactly at the end of the target.                      *)
(***************************************************************************)
LEMMA NextByte ==
  ASSUME NEW t \in [1 .. Width -> Byte], NEW n \in 0 .. Length(t)
  PROVE  /\ n < Length(t) => Shift(t, n)[1] = t[n + 1] /\ t[n + 1] # Nul
         /\ n = Length(t) => Shift(t, n)[1] = Nul
<1>1. PICK w : w = Length(t)
  OBVIOUS
<1>2. /\ w \in 0 .. Width
      /\ \A i \in 1 .. w : t[i] # Nul
      /\ w < Width => t[w + 1] = Nul
  BY <1>1, LengthExists
<1>3. Width \in Nat /\ Width >= 2 /\ n \in 0 .. w
  BY <1>1, FinderAssumption
<1>4. Shift(t, n)[1] = IF n + 1 <= Width THEN t[n + 1] ELSE Nul
  <2>1. 1 \in 1 .. Width /\ 1 + n = n + 1
    BY <1>2, <1>3
  <2> QED
    BY <2>1 DEF Shift
<1>5. CASE n < w
  <2>1. n + 1 \in 1 .. w /\ n + 1 <= Width
    BY <1>2, <1>3, <1>5
  <2> QED
    BY <1>1, <1>2, <1>4, <1>5, <2>1
<1>6. CASE n = w
  <2>1. CASE n < Width
    BY <1>1, <1>2, <1>3, <1>4, <1>6, <2>1
  <2>2. CASE ~ (n < Width)
    BY <1>1, <1>2, <1>3, <1>4, <1>6, <2>2
  <2> QED
    BY <2>1, <2>2
<1> QED
  BY <1>1, <1>2, <1>3, <1>5, <1>6

(***************************************************************************)
(* The registers start with their widths.                                  *)
(***************************************************************************)
LEMMA TypeInit == Init => TypeOK
<1>1. << >> \in Seq(Byte)
  OBVIOUS
<1>2. [i \in 1 .. Width |-> Nul] \in [1 .. Width -> Byte]
  BY FinderAssumption
<1> QED
  BY <1>1, <1>2, FinderAssumption DEF Init, TypeOK

(***************************************************************************)
(* Every step keeps the widths of the registers.                           *)
(***************************************************************************)
LEMMA TypeStep == TypeOK /\ [Next]_vars => TypeOK'
<1> SUFFICES ASSUME TypeOK, [Next]_vars
             PROVE  TypeOK'
  OBVIOUS
<1>0. User_Sequence \in [1 .. Width -> Byte]
  BY FinderAssumption DEF TypeOK
<1>00. << >> \in Seq(Byte)
  OBVIOUS
<1>1. ASSUME NEW t \in Targets, ProvideSequence(t)
      PROVE  TypeOK'
  BY <1>1, <1>00 DEF TypeOK, ProvideSequence, registers
<1>2. CASE AssertReset
  BY <1>0, <1>00, <1>2 DEF TypeOK, AssertReset
<1>3. CASE ResetEdge
  BY <1>0, <1>3 DEF TypeOK, ResetEdge
<1>4. CASE ReleaseReset
  BY <1>4 DEF TypeOK, ReleaseReset, registers
<1>5. ASSUME NEW b \in Byte, RisingEdge(b)
      PROVE  TypeOK'
  <2>1. Shift(Sequence, 1) \in [1 .. Width -> Byte]
    BY ShiftType DEF TypeOK
  <2>2. Shift(User_Sequence, 2) \in [1 .. Width -> Byte]
    BY <1>0, ShiftType
  <2>3. seen' \in Seq(Byte)
    BY <1>5 DEF TypeOK, RisingEdge
  <2>4. /\ Sequence' \in [1 .. Width -> Byte] /\ Previous_Data' \in Byte
        /\ Mismatch_Occurred' \in BOOLEAN /\ End_Of_Sequence' \in BOOLEAN
    <3>1. CASE AfterMismatch(b)
      BY <1>0, <2>1, <2>2, <3>1 DEF TypeOK, AfterMismatch
    <3>2. CASE AtEnd
      BY <3>2 DEF TypeOK, AtEnd
    <3>3. CASE Compare(b)
      BY <1>0, <2>1, <3>3 DEF TypeOK, Compare
    <3> QED
      BY <1>5, <3>1, <3>2, <3>3 DEF RisingEdge
  <2> QED
    BY <1>5, <2>3, <2>4 DEF TypeOK, RisingEdge
<1>6. CASE UNCHANGED vars
  BY <1>6 DEF TypeOK, vars, registers
<1> QED
  BY <1>1, <1>2, <1>3, <1>4, <1>5, <1>6 DEF Next

(***************************************************************************)
(* Type correctness: the registers keep their widths.                      *)
(***************************************************************************)
THEOREM FinderTypeCorrect == Spec => []TypeOK
<1>1. Init => TypeOK
  BY TypeInit
<1>2. TypeOK /\ [Next]_vars => TypeOK'
  BY TypeStep
<1> QED
  BY <1>1, <1>2, PTL DEF Spec

-----------------------------------------------------------------------------

(***************************************************************************)
(* Power-up satisfies the inductive invariant: nothing is valid yet.       *)
(***************************************************************************)
LEMMA IInvInit == Init => IInv
<1> SUFFICES ASSUME Init
             PROVE  IInv
  OBVIOUS
<1>1. TypeOK
  BY TypeInit
<1>2. ~ valid /\ ~ Reset /\ seen = << >>
  BY DEF Init
<1> QED
  BY <1>1, <1>2 DEF IInv, HistoryStartsAtReset, ResetLoads, ProgressIsReal,
                    MismatchStartsOver, EndIsFinal, FoundFollowsEnd

(***************************************************************************)
(* The steps of the user keep the inductive invariant: they record no data *)
(* and shift nothing.                                                      *)
(***************************************************************************)
LEMMA ProvideSequenceKeeps ==
  ASSUME IInv, TypeOK', NEW t \in Targets, ProvideSequence(t)
  PROVE  IInv'
BY DEF IInv, HistoryStartsAtReset, ResetLoads, ProgressIsReal,
       MismatchStartsOver, EndIsFinal, FoundFollowsEnd, ProvideSequence,
       registers

LEMMA AssertResetKeeps ==
  ASSUME IInv, TypeOK', AssertReset
  PROVE  IInv'
<1>1. Reset' /\ seen' = << >> /\ Len(seen') = 0
  BY DEF AssertReset
<1> QED
  BY <1>1 DEF IInv, HistoryStartsAtReset, ResetLoads, ProgressIsReal,
              MismatchStartsOver, EndIsFinal, FoundFollowsEnd, AssertReset

LEMMA ResetEdgeKeeps ==
  ASSUME IInv, TypeOK', ResetEdge
  PROVE  IInv'
<1>1. /\ Reset' /\ ~ Mismatch_Occurred' /\ Sequence' = User_Sequence'
      /\ seen' = << >> /\ Len(seen') = 0
  BY DEF ResetEdge, IInv, HistoryStartsAtReset, ResetLoads
<1> QED
  BY <1>1 DEF IInv, HistoryStartsAtReset, ResetLoads, ProgressIsReal,
              MismatchStartsOver, EndIsFinal, FoundFollowsEnd

LEMMA ReleaseResetKeeps ==
  ASSUME IInv, TypeOK', ReleaseReset
  PROVE  IInv'
<1>1. /\ ~ Reset' /\ ~ Mismatch_Occurred'
      /\ seen' = << >> /\ Len(seen') = 0
      /\ valid' => Sequence' = User_Sequence'
  BY DEF ReleaseReset, registers, IInv, HistoryStartsAtReset, ResetLoads
<1>2. User_Sequence' \in [1 .. Width -> Byte]
  BY FinderAssumption DEF TypeOK
<1>3. 0 \in 0 .. Length(User_Sequence') /\ Length(User_Sequence') \in Nat
  BY <1>2, LengthExists
<1>4. ProgressIsReal'
  <2> SUFFICES ASSUME valid'
               PROVE  /\ Sequence' = Shift(User_Sequence', 0)
                      /\ \E e \in 0 .. Len(seen') :
                           /\ 0 < Length(User_Sequence') => e = Len(seen')
                           /\ 0 <= e
                           /\ \A i \in 1 .. 0 : seen'[e - 0 + i] = User_Sequence'[i]
    BY <1>1, <1>3 DEF ProgressIsReal
  <2>1. Sequence' = Shift(User_Sequence', 0)
    BY <1>1, <1>2, ShiftNone
  <2> QED
    BY <1>1, <2>1
<1> QED
  BY <1>1, <1>4 DEF IInv, HistoryStartsAtReset, ResetLoads,
                    MismatchStartsOver, EndIsFinal, FoundFollowsEnd

(***************************************************************************)
(* An occurrence in the data stays one when a byte is appended.            *)
(***************************************************************************)
LEMMA DetectedStays ==
  ASSUME seen \in Seq(Byte), NEW b \in Byte, seen' = Append(seen, b),
         User_Sequence \in [1 .. Width -> Byte],
         User_Sequence' = User_Sequence,
         NEW n \in 0 .. Len(seen), Detected(n)
  PROVE  Detected(n)'
<1>1. PICK w : w = Length(User_Sequence)
  OBVIOUS
<1>2. w \in Nat
  BY <1>1, LengthExists
<1>3. PICK e \in 0 .. n : w <= e /\ \A i \in 1 .. w : seen[e - w + i] = User_Sequence[i]
  BY <1>1 DEF Detected, EndsAt
<1>4. ASSUME NEW i \in 1 .. w
      PROVE  seen'[e - w + i] = User_Sequence[i]
  <2>1. e - w + i \in 1 .. Len(seen)
    BY <1>2, <1>3
  <2>2. seen'[e - w + i] = seen[e - w + i]
    BY <2>1
  <2> QED
    BY <1>3, <2>2
<1> QED
  BY <1>1, <1>3, <1>4 DEF Detected, EndsAt

(***************************************************************************)
(* A rising edge after a mismatch keeps the match in progress real: the    *)
(* remembered byte is the one before the present one.                      *)
(***************************************************************************)
LEMMA AfterMismatchKeeps ==
  ASSUME IInv, TypeOK', NEW b \in Byte, RisingEdge(b), valid,
         AfterMismatch(b)
  PROVE  ProgressIsReal' /\ MismatchStartsOver' /\ ~ End_Of_Sequence'
<1> DEFINE US == User_Sequence
           L == Len(seen)
<1>1. /\ US \in [1 .. Width -> Byte] /\ seen \in Seq(Byte) /\ L \in Nat
      /\ Width \in Nat /\ Width >= 2
  BY FinderAssumption DEF IInv, TypeOK
<1>2. /\ ~ Reset /\ ~ Reset' /\ valid' /\ User_Sequence' = US
      /\ seen' = Append(seen, b)
  BY DEF RisingEdge
<1>3. /\ Len(seen') = L + 1
      /\ seen'[L + 1] = b
      /\ \A i \in 1 .. L : seen'[i] = seen[i]
  BY <1>1, <1>2
<1>4. /\ Mismatch_Occurred /\ ~ End_Of_Sequence /\ ~ End_Of_Sequence'
      /\ Sequence = US /\ US[1] # Nul
      /\ L > 0 /\ Previous_Data = seen[L]
  BY <1>2 DEF IInv, MismatchStartsOver, ProgressIsReal, AfterMismatch
<1>5. PICK w : w = Length(US)
  OBVIOUS
<1>6. /\ w \in 0 .. Width
      /\ \A i \in 1 .. w : US[i] # Nul
      /\ w < Width => US[w + 1] = Nul
  BY <1>1, <1>5, LengthExists
<1>7. w >= 1
  BY <1>1, <1>4, <1>6
<1>8. CASE ~ Restarts(b)
  <2>1. /\ Mismatch_Occurred' /\ Sequence' = US /\ Previous_Data' = b
    BY <1>8 DEF AfterMismatch
  <2> QED
    BY <1>1, <1>2, <1>3, <1>4, <2>1 DEF ProgressIsReal, MismatchStartsOver
<1>9. CASE Restarts(b) /\ OneByte
  <2>1. ~ Mismatch_Occurred' /\ Sequence' = Shift(US, 1) /\ b = US[1]
    BY <1>4, <1>9 DEF AfterMismatch, Restarts
  <2>2. \A i \in 1 .. 1 : seen'[(L + 1) - 1 + i] = US[i]
    BY <1>1, <1>3, <2>1
  <2>3. 1 \in 0 .. w /\ L + 1 \in 0 .. Len(seen') /\ 1 <= L + 1
    BY <1>1, <1>3, <1>6, <1>7
  <2>4. ProgressIsReal'
    BY <1>2, <1>3, <1>5, <2>1, <2>2, <2>3 DEF ProgressIsReal
  <2> QED
    BY <1>4, <2>1, <2>4 DEF MismatchStartsOver
<1>10. CASE Restarts(b) /\ ~ OneByte
  <2>1. /\ ~ Mismatch_Occurred' /\ Sequence' = Shift(US, 2)
        /\ Previous_Data = US[1] /\ b = US[2] /\ US[2] # Nul
    BY <1>10 DEF AfterMismatch, Restarts, OneByte
  <2>2. w >= 2
    BY <1>1, <1>6, <1>7, <2>1
  <2>3. ASSUME NEW i \in 1 .. 2
        PROVE  seen'[(L + 1) - 2 + i] = US[i]
    <3>1. CASE i = 1
      <4>1. (L + 1) - 2 + i = L /\ L \in 1 .. L
        BY <1>1, <1>4, <3>1
      <4> QED
        BY <1>3, <1>4, <2>1, <3>1, <4>1
    <3>2. CASE i = 2
      <4>1. (L + 1) - 2 + i = L + 1
        BY <1>1, <3>2
      <4> QED
        BY <1>3, <2>1, <3>2, <4>1
    <3> QED
      BY <3>1, <3>2
  <2>4. 2 \in 0 .. w /\ L + 1 \in 0 .. Len(seen') /\ 2 <= L + 1
    BY <1>1, <1>3, <1>4, <1>6, <2>2
  <2>5. ProgressIsReal'
    BY <1>2, <1>3, <1>5, <2>1, <2>3, <2>4 DEF ProgressIsReal
  <2> QED
    BY <1>4, <2>1, <2>5 DEF MismatchStartsOver
<1> QED
  BY <1>4, <1>8, <1>9, <1>10

(***************************************************************************)
(* An edge that compares the data byte extends the match or starts over.   *)
(***************************************************************************)
LEMMA CompareKeeps ==
  ASSUME IInv, TypeOK', NEW b \in Byte, RisingEdge(b), valid, Compare(b)
  PROVE  ProgressIsReal' /\ MismatchStartsOver' /\ ~ End_Of_Sequence'
<1> DEFINE US == User_Sequence
           L == Len(seen)
<1>1. /\ US \in [1 .. Width -> Byte] /\ seen \in Seq(Byte) /\ L \in Nat
      /\ Width \in Nat /\ Width >= 2
  BY FinderAssumption DEF IInv, TypeOK
<1>2. /\ ~ Reset /\ ~ Reset' /\ valid' /\ User_Sequence' = US
      /\ seen' = Append(seen, b)
  BY DEF RisingEdge
<1>3. /\ Len(seen') = L + 1
      /\ seen'[L + 1] = b
      /\ \A i \in 1 .. L : seen'[i] = seen[i]
  BY <1>1, <1>2
<1>4. ~ Mismatch_Occurred /\ Sequence[1] # Nul /\ ~ End_Of_Sequence'
  BY DEF Compare
<1>5. PICK w : w = Length(US)
  OBVIOUS
<1>6. w \in 0 .. Width /\ \A i \in 1 .. w : US[i] # Nul
  BY <1>1, <1>5, LengthExists
<1>7. PICK n \in 0 .. w :
        /\ Sequence = Shift(US, n)
        /\ \E e \in 0 .. L :
             /\ n < w => e = L
             /\ n <= e
             /\ \A i \in 1 .. n : seen[e - n + i] = US[i]
  BY <1>2, <1>4, <1>5 DEF IInv, ProgressIsReal
<1>8. n < w /\ Sequence[1] = US[n + 1]
  <2>1. n # w
    BY <1>1, <1>4, <1>5, <1>7, NextByte
  <2>2. n < w
    BY <1>6, <2>1
  <2> QED
    BY <1>1, <1>5, <1>7, <2>2, NextByte
<1>9. n <= L /\ \A i \in 1 .. n : seen[L - n + i] = US[i]
  BY <1>7, <1>8
<1>10. CASE b = Sequence[1]
  <2>1. ~ Mismatch_Occurred' /\ Sequence' = Shift(Sequence, 1)
    BY <1>10 DEF Compare
  <2>2. Sequence' = Shift(US, n + 1)
    BY <1>1, <1>6, <1>7, <2>1, ShiftOnce
  <2>3. ASSUME NEW i \in 1 .. n + 1
        PROVE  seen'[(L + 1) - (n + 1) + i] = US[i]
    <3>1. CASE i = n + 1
      <4>1. (L + 1) - (n + 1) + i = L + 1
        BY <1>1, <1>6, <3>1
      <4> QED
        BY <1>3, <1>8, <1>10, <3>1, <4>1
    <3>2. CASE i # n + 1
      <4>1. i \in 1 .. n
        BY <1>6, <3>2
      <4>2. (L + 1) - (n + 1) + i = L - n + i /\ L - n + i \in 1 .. L
        BY <1>1, <1>6, <1>9, <4>1
      <4> QED
        BY <1>3, <1>9, <4>1, <4>2
    <3> QED
      BY <3>1, <3>2
  <2>4. n + 1 \in 0 .. w /\ L + 1 \in 0 .. Len(seen') /\ n + 1 <= L + 1
    BY <1>1, <1>3, <1>6, <1>8, <1>9
  <2>5. ProgressIsReal'
    BY <1>2, <1>3, <1>5, <2>1, <2>2, <2>3, <2>4 DEF ProgressIsReal
  <2> QED
    BY <1>4, <2>1, <2>5 DEF MismatchStartsOver
<1>11. CASE b # Sequence[1]
  <2>1. Mismatch_Occurred' /\ Sequence' = US /\ Previous_Data' = b
    BY <1>11 DEF Compare
  <2>2. US[1] # Nul
    BY <1>6, <1>8
  <2> QED
    BY <1>1, <1>2, <1>3, <1>4, <2>1, <2>2
       DEF ProgressIsReal, MismatchStartsOver
<1> QED
  BY <1>4, <1>10, <1>11

(***************************************************************************)
(* An edge at the end of the target: the whole target occurred one edge    *)
(* ago or earlier.                                                         *)
(***************************************************************************)
LEMMA AtEndKeeps ==
  ASSUME IInv, TypeOK', NEW b \in Byte, RisingEdge(b), valid, AtEnd
  PROVE  /\ ProgressIsReal' /\ ~ Mismatch_Occurred' /\ Sequence'[1] = Nul
         /\ End_Of_Sequence' /\ Detected(Len(seen))
<1> DEFINE US == User_Sequence
           L == Len(seen)
<1>1. /\ US \in [1 .. Width -> Byte] /\ seen \in Seq(Byte) /\ L \in Nat
      /\ Width \in Nat /\ Width >= 2
  BY FinderAssumption DEF IInv, TypeOK
<1>2. /\ ~ Reset /\ ~ Reset' /\ valid' /\ User_Sequence' = US
      /\ seen' = Append(seen, b)
  BY DEF RisingEdge
<1>3. Len(seen') = L + 1 /\ \A i \in 1 .. L : seen'[i] = seen[i]
  BY <1>1, <1>2
<1>4. /\ ~ Mismatch_Occurred /\ ~ Mismatch_Occurred' /\ End_Of_Sequence'
      /\ Sequence[1] = Nul /\ Sequence' = Sequence
  BY DEF AtEnd
<1>5. PICK w : w = Length(US)
  OBVIOUS
<1>6. w \in 0 .. Width
  BY <1>1, <1>5, LengthExists
<1>7. PICK n \in 0 .. w :
        /\ Sequence = Shift(US, n)
        /\ \E e \in 0 .. L :
             /\ n < w => e = L
             /\ n <= e
             /\ \A i \in 1 .. n : seen[e - n + i] = US[i]
  BY <1>2, <1>4, <1>5 DEF IInv, ProgressIsReal
<1>8. n = w
  <2>1. ~ (n < w)
    BY <1>1, <1>4, <1>5, <1>7, NextByte
  <2> QED
    BY <1>6, <2>1
<1>9. PICK e \in 0 .. L : w <= e /\ \A i \in 1 .. w : seen[e - w + i] = US[i]
  BY <1>7, <1>8
<1>10. ASSUME NEW i \in 1 .. w
       PROVE  seen'[e - w + i] = US[i]
  <2>1. e - w + i \in 1 .. L
    BY <1>1, <1>6, <1>9
  <2> QED
    BY <1>3, <1>9, <2>1
<1>11. w \in 0 .. w /\ e \in 0 .. Len(seen')
  BY <1>1, <1>3, <1>6, <1>9
<1>12. ProgressIsReal'
  <2>1. Sequence' = Shift(US, w)
    BY <1>4, <1>7, <1>8
  <2>2. \E f \in 0 .. Len(seen') :
          /\ w < w => f = Len(seen')
          /\ w <= f
          /\ \A i \in 1 .. w : seen'[f - w + i] = US[i]
    BY <1>6, <1>9, <1>10, <1>11
  <2> QED
    BY <1>2, <1>4, <1>5, <1>11, <2>1, <2>2 DEF ProgressIsReal
<1>13. Detected(L)
  BY <1>5, <1>9 DEF Detected, EndsAt
<1> QED
  BY <1>4, <1>12, <1>13

(***************************************************************************)
(* Every rising edge keeps the inductive invariant.                        *)
(***************************************************************************)
LEMMA RisingEdgeKeeps ==
  ASSUME IInv, TypeOK', NEW b \in Byte, RisingEdge(b)
  PROVE  IInv'
<1>1. ~ Reset /\ ~ Reset' /\ valid' = valid /\ User_Sequence' = User_Sequence
  BY DEF RisingEdge
<1>2. CASE ~ valid
  <2>1. ~ valid' /\ seen' = << >>
    BY <1>1, <1>2 DEF RisingEdge, IInv, HistoryStartsAtReset
  <2> QED
    BY <1>1, <2>1 DEF IInv, HistoryStartsAtReset, ResetLoads, ProgressIsReal,
                      MismatchStartsOver, EndIsFinal, FoundFollowsEnd
<1>3. CASE valid
  <2>1. /\ seen \in Seq(Byte) /\ seen' = Append(seen, b)
        /\ User_Sequence \in [1 .. Width -> Byte]
    BY <1>3, FinderAssumption DEF RisingEdge, IInv, TypeOK
  <2>2. PICK k \in Nat : k = Len(seen)
    BY <2>1
  <2>3. Len(seen') = k + 1 /\ (k + 1) - 1 = k /\ (k + 1) - 2 = k - 1
    BY <2>1, <2>2
  <2>4. Sequence_Found' = End_Of_Sequence
    BY DEF RisingEdge
  <2>5. HistoryStartsAtReset' /\ ResetLoads'
    BY <1>1, <1>3 DEF HistoryStartsAtReset, ResetLoads
  <2>6. CASE AtEnd
    <3>1. /\ ProgressIsReal' /\ ~ Mismatch_Occurred' /\ Sequence'[1] = Nul
          /\ End_Of_Sequence' /\ Detected(Len(seen))
      BY <1>3, <2>6, AtEndKeeps
    <3>2. MismatchStartsOver'
      BY <3>1 DEF MismatchStartsOver
    <3>3. Detected(k)'
      BY <1>1, <2>1, <2>2, <3>1, DetectedStays
    <3>4. EndIsFinal'
      BY <2>3, <3>1, <3>3 DEF EndIsFinal, Detected, EndsAt
    <3>5. FoundFollowsEnd'
      <4>1. CASE End_Of_Sequence /\ k >= 1
        <5>1. Detected(k - 1)
          BY <1>3, <2>2, <4>1 DEF IInv, EndIsFinal
        <5>2. k - 1 \in 0 .. Len(seen)
          BY <2>2, <4>1
        <5>3. Detected(k - 1)'
          BY <1>1, <2>1, <5>1, <5>2, DetectedStays
        <5> QED
          BY <2>3, <3>1, <5>3 DEF FoundFollowsEnd, Detected, EndsAt
      <4>2. CASE ~ (End_Of_Sequence /\ k >= 1)
        <5>1. Sequence_Found' => ~ (Len(seen') >= 2)
          BY <2>3, <2>4, <4>2
        <5> QED
          BY <5>1 DEF FoundFollowsEnd
      <4> QED
        BY <4>1, <4>2
    <3> QED
      BY <2>5, <3>1, <3>2, <3>4, <3>5 DEF IInv
  <2>7. CASE AfterMismatch(b) \/ Compare(b)
    <3>1. ProgressIsReal' /\ MismatchStartsOver' /\ ~ End_Of_Sequence'
      BY <1>3, <2>7, AfterMismatchKeeps, CompareKeeps
    <3>2. End_Of_Sequence => ~ (k >= 1)
      BY <1>3, <2>2, <2>7
         DEF AfterMismatch, Compare, IInv, MismatchStartsOver, EndIsFinal
    <3>3. Sequence_Found' => ~ (Len(seen') >= 2)
      BY <2>3, <2>4, <3>2
    <3>4. EndIsFinal' /\ FoundFollowsEnd'
      BY <3>1, <3>3 DEF EndIsFinal, FoundFollowsEnd
    <3> QED
      BY <2>5, <3>1, <3>4 DEF IInv
  <2> QED
    BY <2>6, <2>7 DEF RisingEdge
<1> QED
  BY <1>2, <1>3

(***************************************************************************)
(* The inductive invariant is inductive, and holds in every reachable      *)
(* state.                                                                  *)
(***************************************************************************)
LEMMA IInvStep == IInv /\ [Next]_vars => IInv'
<1> SUFFICES ASSUME IInv, [Next]_vars
             PROVE  IInv'
  OBVIOUS
<1>1. TypeOK'
  BY TypeStep DEF IInv
<1>2. CASE UNCHANGED vars
  BY <1>1, <1>2 DEF vars, registers, IInv, HistoryStartsAtReset,
     ResetLoads, ProgressIsReal, MismatchStartsOver, EndIsFinal,
     FoundFollowsEnd, Detected, EndsAt
<1> QED
  BY <1>1, <1>2, ProvideSequenceKeeps, AssertResetKeeps, ResetEdgeKeeps,
     ReleaseResetKeeps, RisingEdgeKeeps DEF Next

LEMMA IInvHolds == Spec => []IInv
BY IInvStep, IInvInit, PTL DEF Spec

(***************************************************************************)
(* Between two edges the finder remembers a real match in progress, a      *)
(* mismatch at the present byte, or the end of the target, for every       *)
(* target and every stream of data.                                        *)
(***************************************************************************)
THEOREM FinderProgressIsReal == Spec => []ProgressIsReal
BY IInvHolds, PTL DEF IInv

(***************************************************************************)
(* From the second edge after a reset on, "found" is never said of a       *)
(* target that has not occurred in the data two edges ago.                 *)
(***************************************************************************)
THEOREM FinderFoundIsSound == Spec => []FoundIsSound
<1>1. IInv => FoundIsSound
  BY DEF IInv, FoundFollowsEnd, FoundIsSound
<1> QED
  BY <1>1, IInvHolds, PTL

(***************************************************************************)
(* Once "found" shows two edges or more after a reset, no step but a reset *)
(* or a new target takes it back.                                          *)
(***************************************************************************)
THEOREM FinderFoundStays == Spec => FoundStays
<1>1. IInv /\ [Next]_vars =>
        (valid /\ Len(seen) >= 2 /\ Sequence_Found /\ ~ Reset' /\ valid'
           => Sequence_Found')
  <2> SUFFICES ASSUME IInv, [Next]_vars, valid, Len(seen) >= 2,
                      Sequence_Found, ~ Reset', valid'
               PROVE  Sequence_Found'
    OBVIOUS
  <2>1. End_Of_Sequence
    BY DEF IInv, FoundFollowsEnd
  <2>2. ASSUME NEW b \in Byte, RisingEdge(b)
        PROVE  Sequence_Found'
    BY <2>1, <2>2 DEF RisingEdge
  <2>3. CASE \/ \E t \in Targets : ProvideSequence(t)
             \/ AssertReset
             \/ ResetEdge
             \/ ReleaseReset
             \/ UNCHANGED vars
    BY <2>3 DEF ProvideSequence, AssertReset, ResetEdge, ReleaseReset, vars,
                registers
  <2> QED
    BY <2>2, <2>3 DEF Next
<1> QED
  BY <1>1, IInvHolds, PTL DEF Spec, FoundStays

-----------------------------------------------------------------------------
(***************************************************************************)
(* The converse of FoundIsSound needs more of the state: what the finder   *)
(* remembers is the longest beginning of the target that the data ends     *)
(* with, or at a mismatch a beginning of at most one byte.                 *)
(***************************************************************************)

\* The data ends with the first j bytes of the target.
EndsWith(j) ==
  /\ j <= Len(seen)
  /\ \A i \in 1 .. j : seen[Len(seen) - j + i] = User_Sequence[i]

\* Nothing longer than what the finder remembers is open.
Longest ==
  IF Mismatch_Occurred
    THEN \A j \in 1 .. Length(User_Sequence) :
           EndsWith(j) => j = 1 /\ Length(User_Sequence) > 1
    ELSE \E n \in 0 .. Length(User_Sequence) :
           /\ Sequence = Shift(User_Sequence, n)
           /\ n < Length(User_Sequence) =>
                \A j \in n + 1 .. Length(User_Sequence) : ~ EndsWith(j)

NothingMissed == valid /\ Restartable(User_Sequence) => Longest

\* An occurrence leaves nothing to match ...
OccurrenceEnds ==
  valid /\ Restartable(User_Sequence) /\ Detected(Len(seen)) =>
    ~ Mismatch_Occurred /\ Sequence[1] = Nul

\* ... and one edge later the finder says so.
EndFollows ==
  valid /\ Restartable(User_Sequence) /\ Len(seen) >= 1 /\ Detected(Len(seen) - 1)
    => End_Of_Sequence

CompleteInv == NothingMissed /\ OccurrenceEnds /\ EndFollows /\ FoundIsComplete

(***************************************************************************)
(* What the data ended with before byte b came.                            *)
(***************************************************************************)
LEMMA EndsWithBefore ==
  ASSUME seen \in Seq(Byte), NEW b \in Byte, seen' = Append(seen, b),
         User_Sequence' = User_Sequence, NEW j \in Nat, j >= 1, EndsWith(j)'
  PROVE  b = User_Sequence[j] /\ (j > 1 => EndsWith(j - 1))
<1> DEFINE L == Len(seen)
<1>1. /\ L \in Nat /\ Len(seen') = L + 1 /\ seen'[L + 1] = b
      /\ \A i \in 1 .. L : seen'[i] = seen[i]
  OBVIOUS
<1>2. /\ j <= Len(seen')
      /\ \A i \in 1 .. j : seen'[Len(seen') - j + i] = User_Sequence[i]
  BY Zenon DEF EndsWith
<1>3. b = User_Sequence[j]
  <2>1. j \in 1 .. j /\ Len(seen') - j + j = L + 1
    BY <1>1
  <2> QED
    BY <1>1, <1>2, <2>1
<1>4. ASSUME j > 1
      PROVE  EndsWith(j - 1)
  <2>1. \A i \in 1 .. j - 1 : /\ i \in 1 .. j
                              /\ Len(seen') - j + i = L - (j - 1) + i
                              /\ L - (j - 1) + i \in 1 .. L
    BY <1>1, <1>2
  <2>2. \A i \in 1 .. j - 1 : seen[L - (j - 1) + i] = User_Sequence[i]
    BY <1>1, <1>2, <2>1
  <2>3. j - 1 <= L
    BY <1>1, <1>2
  <2> QED
    BY <2>2, <2>3 DEF EndsWith
<1> QED
  BY <1>3, <1>4

(***************************************************************************)
(* One remembered byte is enough: after a wrong byte nothing longer than   *)
(* that byte is a beginning of a restartable target.                       *)
(***************************************************************************)
LEMMA OneByteIsEnough ==
  ASSUME seen \in Seq(Byte), User_Sequence \in [1 .. Width -> Byte],
         NEW b \in Byte, seen' = Append(seen, b), User_Sequence' = User_Sequence,
         Restartable(User_Sequence), Length(User_Sequence) \in Nat,
         NEW n \in 1 .. Length(User_Sequence) - 1, EndsWith(n),
         b # User_Sequence[n + 1],
         NEW j \in 2 .. n, EndsWith(j)'
  PROVE  FALSE
<1> DEFINE L == Len(seen)
           US == User_Sequence
           text == [i \in 1 .. n + 1 |-> IF i <= n THEN US[i] ELSE b]
<1>1. /\ L \in Nat /\ Len(seen') = L + 1 /\ seen'[L + 1] = b
      /\ \A i \in 1 .. L : seen'[i] = seen[i]
  OBVIOUS
<1>2. /\ j <= Len(seen')
      /\ \A i \in 1 .. j : seen'[Len(seen') - j + i] = US[i]
  BY Zenon DEF EndsWith
<1>3. n <= L /\ \A i \in 1 .. n : seen[L - n + i] = US[i]
  BY DEF EndsWith
<1>4. \E i \in 1 .. j : text[n + 1 - j + i] # US[i]
  <2>1. b \in Byte \ {US[n + 1]}
    OBVIOUS
  <2> QED
    BY <2>1, Zenon DEF Restartable
<1>5. PICK i \in 1 .. j : text[n + 1 - j + i] # US[i]
  BY <1>4
<1>6. \A m \in 1 .. n + 1 : text[m] = IF m <= n THEN US[m] ELSE b
  OBVIOUS
<1> HIDE DEF text
<1>7. n \in Nat /\ j \in Nat /\ i \in Nat
  OBVIOUS
<1>8. PICK m \in Int : m = n + 1 - j + i
  BY <1>7
<1>9. /\ m \in 1 .. n + 1 /\ Len(seen') - j + i = L - n + m
      /\ seen'[L - n + m] = US[i]
  <2>1. m \in 1 .. n + 1 /\ Len(seen') - j + i = L - n + m
    BY <1>1, <1>7, <1>8
  <2> QED
    BY <1>2, <2>1
<1>10. seen'[L - n + m] = text[m]
  <2>1. CASE m <= n
    <3>1. m \in 1 .. n /\ L - n + m \in 1 .. L
      BY <1>1, <1>3, <1>7, <1>9, <2>1
    <3> QED
      BY <1>1, <1>3, <1>6, <1>9, <2>1, <3>1
  <2>2. CASE m = n + 1
    <3>1. L - n + m = L + 1 /\ ~ (m <= n)
      BY <1>1, <1>7, <2>2
    <3> QED
      BY <1>1, <1>6, <1>9, <3>1
  <2> QED
    BY <1>7, <1>9, <2>1, <2>2
<1> QED
  BY <1>5, <1>8, <1>9, <1>10

(***************************************************************************)
(* The register tells how many bytes have been matched.                    *)
(***************************************************************************)
LEMMA ShiftTells ==
  ASSUME NEW t \in [1 .. Width -> Byte],
         NEW n \in 0 .. Length(t), NEW m \in 0 .. Length(t), n < m
  PROVE  Shift(t, n) # Shift(t, m)
<1>1. PICK w : w = Length(t)
  OBVIOUS
<1>2. /\ w \in 0 .. Width /\ n \in 0 .. w /\ m \in 0 .. w /\ Width \in Nat
      /\ \A i \in 1 .. w : t[i] # Nul
      /\ w < Width => t[w + 1] = Nul
  BY <1>1, LengthExists, FinderAssumption
<1>3. PICK i \in 1 .. Width : i = w - m + 1
  BY <1>2
<1>4. Shift(t, m)[i] = Nul
  <2>1. i + m = w + 1 /\ (w + 1 <= Width => w < Width)
    BY <1>2, <1>3
  <2> QED
    BY <1>2, <1>3, <2>1 DEF Shift
<1>5. Shift(t, n)[i] # Nul
  <2>1. i + n \in 1 .. w /\ i + n <= Width
    BY <1>2, <1>3
  <2> QED
    BY <1>2, <1>3, <2>1 DEF Shift
<1> QED
  BY <1>4, <1>5

(***************************************************************************)
(* The beginning that the finder remembers while it compares is there.     *)
(***************************************************************************)
LEMMA RememberedIsLast ==
  ASSUME IInv, valid, ~ Reset, ~ Mismatch_Occurred,
         NEW n \in 0 .. Length(User_Sequence), n < Length(User_Sequence),
         Sequence = Shift(User_Sequence, n)
  PROVE  EndsWith(n)
<1>1. User_Sequence \in [1 .. Width -> Byte] /\ Width \in Nat
  BY FinderAssumption DEF IInv, TypeOK
<1>2. Length(User_Sequence) \in Nat
  BY <1>1, LengthExists
<1>3. PICK m \in 0 .. Length(User_Sequence) :
        /\ Sequence = Shift(User_Sequence, m)
        /\ \E e \in 0 .. Len(seen) :
             /\ m < Length(User_Sequence) => e = Len(seen)
             /\ m <= e
             /\ \A i \in 1 .. m : seen[e - m + i] = User_Sequence[i]
  BY DEF IInv, ProgressIsReal
<1>4. ~ (n < m) /\ ~ (m < n)
  BY <1>1, <1>3, ShiftTells
<1>5. m = n
  BY <1>2, <1>4
<1> QED
  BY <1>3, <1>5 DEF EndsWith

(***************************************************************************)
(* A compared byte extends every open beginning by one or breaks it.       *)
(***************************************************************************)
LEMMA CompareLongest ==
  ASSUME IInv, NEW b \in Byte, RisingEdge(b), valid, Restartable(User_Sequence),
         Longest, Compare(b)
  PROVE  Longest'
<1> DEFINE US == User_Sequence
           L == Len(seen)
<1>1. /\ US \in [1 .. Width -> Byte] /\ seen \in Seq(Byte) /\ L \in Nat
      /\ Width \in Nat /\ Width >= 2
  BY FinderAssumption DEF IInv, TypeOK
<1>2. User_Sequence' = US /\ seen' = Append(seen, b) /\ ~ Reset
  BY DEF RisingEdge
<1>3. ~ Mismatch_Occurred /\ Sequence[1] # Nul
  BY DEF Compare
<1>4. PICK w : w = Length(US)
  OBVIOUS
<1>5. w \in 0 .. Width /\ Length(US)' = w
  BY <1>1, <1>2, <1>4, LengthExists
<1>6. PICK n \in 0 .. w :
        /\ Sequence = Shift(US, n)
        /\ n < w => \A j \in n + 1 .. w : ~ EndsWith(j)
  BY <1>3, <1>4 DEF Longest
<1>7. n < w /\ Sequence[1] = US[n + 1]
  <2>1. n # w
    BY <1>1, <1>3, <1>4, <1>6, NextByte
  <2>2. n < w
    BY <1>5, <2>1
  <2> QED
    BY <1>1, <1>4, <1>6, <2>2, NextByte
<1>8. ASSUME NEW j \in 1 .. w, EndsWith(j)'
      PROVE  j <= n + 1 /\ b = US[j] /\ (j > 1 => EndsWith(j - 1))
  <2>1. j \in Nat /\ j >= 1
    BY <1>5
  <2>2. b = US[j] /\ (j > 1 => EndsWith(j - 1))
    BY <1>1, <1>2, <1>8, <2>1, EndsWithBefore
  <2>3. j > n + 1 => j - 1 \in n + 1 .. w /\ j > 1
    BY <1>5, <2>1
  <2> QED
    BY <1>5, <1>6, <1>7, <2>1, <2>2, <2>3
<1>9. CASE b = Sequence[1]
  <2>1. ~ Mismatch_Occurred' /\ Sequence' = Shift(Sequence, 1)
    BY <1>9 DEF Compare
  <2>2. Sequence' = Shift(US, n + 1) /\ n + 1 \in 0 .. w
    BY <1>1, <1>5, <1>6, <1>7, <2>1, ShiftOnce
  <2>3. \A j \in (n + 1) + 1 .. w : ~ EndsWith(j)'
    <3> SUFFICES ASSUME NEW j \in (n + 1) + 1 .. w, EndsWith(j)'
                 PROVE  FALSE
      OBVIOUS
    <3>1. j \in 1 .. w /\ ~ (j <= n + 1)
      BY <1>5
    <3> QED
      BY <1>8, <3>1
  <2> QED
    BY <1>2, <1>4, <1>5, <2>1, <2>2, <2>3 DEF Longest
<1>10. CASE b # Sequence[1]
  <2>1. Mismatch_Occurred'
    BY <1>10 DEF Compare
  <2>2. ASSUME NEW j \in 1 .. w, EndsWith(j)'
        PROVE  j = 1 /\ w > 1
    <3>1. j <= n
      <4>1. j <= n + 1 /\ j # n + 1
        BY <1>7, <1>8, <1>10, <2>2
      <4> QED
        BY <1>5, <4>1
    <3>2. n \in 1 .. w - 1 /\ w \in Nat
      BY <1>5, <1>7, <3>1
    <3>3. CASE j > 1
      <4>1. j \in 2 .. n
        BY <3>1, <3>3
      <4>2. EndsWith(n)
        BY <1>2, <1>3, <1>4, <1>6, <1>7, RememberedIsLast
      <4> QED
        BY <1>1, <1>2, <1>4, <1>7, <1>10, <2>2, <3>2, <4>1, <4>2, OneByteIsEnough
    <3>4. CASE ~ (j > 1)
      BY <1>5, <3>2, <3>4
    <3> QED
      BY <3>3, <3>4
  <2> QED
    BY <1>2, <1>4, <1>5, <2>1, <2>2 DEF Longest
<1> QED
  BY <1>9, <1>10

(***************************************************************************)
(* After a mismatch at most one byte is open, and it is remembered.        *)
(***************************************************************************)
LEMMA AfterMismatchLongest ==
  ASSUME IInv, NEW b \in Byte, RisingEdge(b), valid, Longest, AfterMismatch(b)
  PROVE  Longest'
<1> DEFINE US == User_Sequence
           L == Len(seen)
<1>1. /\ US \in [1 .. Width -> Byte] /\ seen \in Seq(Byte) /\ L \in Nat
      /\ Width \in Nat /\ Width >= 2
  BY FinderAssumption DEF IInv, TypeOK
<1>2. User_Sequence' = US /\ seen' = Append(seen, b) /\ ~ Reset
  BY DEF RisingEdge
<1>3. /\ Mismatch_Occurred /\ Sequence = US /\ US[1] # Nul
      /\ L > 0 /\ Previous_Data = seen[L]
  BY <1>2 DEF IInv, MismatchStartsOver, ProgressIsReal, AfterMismatch
<1>4. PICK w : w = Length(US)
  OBVIOUS
<1>5. /\ w \in 0 .. Width /\ Length(US)' = w
      /\ \A i \in 1 .. w : US[i] # Nul
      /\ w < Width => US[w + 1] = Nul
  BY <1>1, <1>2, <1>4, LengthExists
<1>6. w >= 1
  BY <1>1, <1>3, <1>5
<1>7. ASSUME NEW j \in 1 .. w, EndsWith(j)'
      PROVE  /\ j = 1 \/ j = 2
             /\ b = US[j]
             /\ j = 2 => Previous_Data = US[1]
  <2>1. j \in Nat /\ j >= 1
    BY <1>5
  <2>2. b = US[j] /\ (j > 1 => EndsWith(j - 1))
    BY <1>1, <1>2, <1>7, <2>1, EndsWithBefore
  <2>3. j > 1 => j - 1 = 1
    <3>1. j > 1 => j - 1 \in 1 .. w
      BY <1>5, <2>1
    <3> QED
      BY <1>3, <1>4, <2>2, <3>1 DEF Longest
  <2>4. EndsWith(1) => seen[L] = US[1]
    <3>1. 1 \in 1 .. 1 /\ L - 1 + 1 = L
      BY <1>1
    <3> QED
      BY <3>1 DEF EndsWith
  <2>5. j > 1 => j = 2
    BY <2>1, <2>3
  <2>6. j = 2 => j > 1 /\ j - 1 = 1
    OBVIOUS
  <2> QED
    BY <1>3, <2>1, <2>2, <2>4, <2>5, <2>6
<1>8. CASE ~ Restarts(b)
  <2>1. Mismatch_Occurred'
    BY <1>8 DEF AfterMismatch
  <2>2. ASSUME NEW j \in 1 .. w, EndsWith(j)'
        PROVE  j = 1 /\ w > 1
    <3>1. CASE OneByte
      <4>1. w = 1
        BY <1>1, <1>5, <1>6, <3>1 DEF OneByte
      <4> QED
        BY <1>7, <1>8, <2>2, <3>1, <4>1 DEF Restarts
    <3>2. CASE ~ OneByte
      <4>1. w > 1
        BY <1>1, <1>5, <1>6, <3>2 DEF OneByte
      <4> QED
        BY <1>7, <1>8, <2>2, <3>2, <4>1 DEF Restarts
    <3> QED
      BY <3>1, <3>2
  <2> QED
    BY <1>2, <1>4, <1>5, <2>1, <2>2 DEF Longest
<1>9. CASE Restarts(b) /\ OneByte
  <2>1. ~ Mismatch_Occurred' /\ Sequence' = Shift(US, 1)
    BY <1>3, <1>9 DEF AfterMismatch
  <2>2. w = 1
    BY <1>1, <1>5, <1>6, <1>9 DEF OneByte
  <2>3. 1 \in 0 .. w /\ ~ (1 < w)
    BY <2>2
  <2> QED
    BY <1>2, <1>4, <1>5, <2>1, <2>3 DEF Longest
<1>10. CASE Restarts(b) /\ ~ OneByte
  <2>1. ~ Mismatch_Occurred' /\ Sequence' = Shift(US, 2)
    BY <1>10 DEF AfterMismatch
  <2>2. w > 1
    BY <1>1, <1>5, <1>6, <1>10 DEF OneByte
  <2>3. 2 \in 0 .. w
    BY <1>5, <2>2
  <2>4. \A j \in 2 + 1 .. w : ~ EndsWith(j)'
    <3> SUFFICES ASSUME NEW j \in 2 + 1 .. w, EndsWith(j)'
                 PROVE  FALSE
      OBVIOUS
    <3>1. j \in 1 .. w /\ j # 1 /\ j # 2
      BY <1>5
    <3> QED
      BY <1>7, <3>1
  <2> QED
    BY <1>2, <1>4, <1>5, <2>1, <2>3, <2>4 DEF Longest
<1> QED
  BY <1>8, <1>9, <1>10

(***************************************************************************)
(* At the end of the target everything has been matched.                   *)
(***************************************************************************)
LEMMA AtEndLongest ==
  ASSUME IInv, NEW b \in Byte, RisingEdge(b), Longest, AtEnd
  PROVE  Longest'
<1>1. /\ User_Sequence \in [1 .. Width -> Byte] /\ User_Sequence' = User_Sequence
      /\ ~ Mismatch_Occurred /\ ~ Mismatch_Occurred'
      /\ Sequence[1] = Nul /\ Sequence' = Sequence
  BY FinderAssumption DEF IInv, TypeOK, RisingEdge, AtEnd
<1>2. PICK n \in 0 .. Length(User_Sequence) : Sequence = Shift(User_Sequence, n)
  BY <1>1 DEF Longest
<1>3. ~ (n < Length(User_Sequence))
  BY <1>1, <1>2, NextByte
<1>4. Length(User_Sequence)' = Length(User_Sequence)
  BY <1>1
<1> QED
  BY <1>1, <1>2, <1>3, <1>4 DEF Longest

(***************************************************************************)
(* If nothing longer is open, an occurrence that ends at the present byte  *)
(* has brought the finder to the end of the target.                        *)
(***************************************************************************)
LEMMA LongestAtOccurrence ==
  /\ TypeOK /\ Longest
  /\ Length(User_Sequence) >= 1 /\ EndsWith(Length(User_Sequence))
  => ~ Mismatch_Occurred /\ Sequence[1] = Nul
<1> SUFFICES ASSUME TypeOK, Longest, Length(User_Sequence) >= 1,
                    EndsWith(Length(User_Sequence))
             PROVE  ~ Mismatch_Occurred /\ Sequence[1] = Nul
  OBVIOUS
<1>1. User_Sequence \in [1 .. Width -> Byte] /\ Width \in Nat
  BY FinderAssumption DEF TypeOK
<1>2. PICK w : w = Length(User_Sequence)
  OBVIOUS
<1>3. w \in 0 .. Width /\ w >= 1 /\ EndsWith(w)
  BY <1>1, <1>2, LengthExists
<1>4. w \in 1 .. w
  BY <1>1, <1>3
<1>5. ~ Mismatch_Occurred
  <2>1. ~ (w = 1 /\ w > 1)
    OBVIOUS
  <2> QED
    BY <1>2, <1>3, <1>4, <2>1 DEF Longest
<1>6. PICK n \in 0 .. w :
        /\ Sequence = Shift(User_Sequence, n)
        /\ n < w => \A j \in n + 1 .. w : ~ EndsWith(j)
  BY <1>2, <1>5 DEF Longest
<1>7. n = w
  <2>1. n < w => w \in n + 1 .. w
    BY <1>1, <1>3
  <2>2. ~ (n < w)
    BY <1>3, <1>6, <2>1
  <2> QED
    BY <1>1, <1>3, <2>2
<1> QED
  BY <1>1, <1>2, <1>5, <1>6, <1>7, NextByte

(***************************************************************************)
(* The same about the next state.                                          *)
(***************************************************************************)
LEMMA LongestAtOccurrenceNext ==
  (/\ TypeOK /\ Longest
   /\ Length(User_Sequence) >= 1 /\ EndsWith(Length(User_Sequence))
   => ~ Mismatch_Occurred /\ Sequence[1] = Nul)'
BY LongestAtOccurrence, PTL

(***************************************************************************)
(* What has been detected after one byte more.                             *)
(***************************************************************************)
LEMMA DetectedNext ==
  ASSUME seen \in Seq(Byte), NEW b \in Byte, seen' = Append(seen, b),
         User_Sequence \in [1 .. Width -> Byte], User_Sequence' = User_Sequence
  PROVE  /\ \A n \in 0 .. Len(seen) : Detected(n)' => Detected(n)
         /\ Detected(Len(seen))' /\ ~ Detected(Len(seen))
              => Length(User_Sequence) >= 1 /\ EndsWith(Length(User_Sequence))'
<1> DEFINE L == Len(seen)
<1>1. PICK w : w = Length(User_Sequence)
  OBVIOUS
<1>2. w \in 0 .. Width /\ Width \in Nat /\ Length(User_Sequence)' = w
  BY <1>1, LengthExists, FinderAssumption
<1>3. L \in Nat /\ Len(seen') = L + 1 /\ \A i \in 1 .. L : seen'[i] = seen[i]
  OBVIOUS
<1>4. ASSUME NEW e \in 0 .. L, EndsAt(User_Sequence, e)'
      PROVE  EndsAt(User_Sequence, e)
  <2>1. w <= e /\ \A i \in 1 .. w : seen'[e - w + i] = User_Sequence[i]
    BY <1>1, <1>4, Zenon DEF EndsAt
  <2>2. \A i \in 1 .. w : e - w + i \in 1 .. L
    BY <1>2, <1>3, <2>1
  <2>3. \A i \in 1 .. w : seen[e - w + i] = User_Sequence[i]
    BY <1>3, <2>1, <2>2
  <2> QED
    BY <1>1, <2>1, <2>3 DEF EndsAt
<1>5. \A n \in 0 .. L : Detected(n)' => Detected(n)
  <2> SUFFICES ASSUME NEW n \in 0 .. L, Detected(n)'
               PROVE  Detected(n)
    OBVIOUS
  <2>1. PICK e \in 0 .. n : EndsAt(User_Sequence, e)'
    BY DEF Detected
  <2>2. e \in 0 .. L
    BY <1>3
  <2> QED
    BY <1>4, <2>1, <2>2 DEF Detected
<1>6. ASSUME Detected(Len(seen))', ~ Detected(L)
      PROVE  w >= 1 /\ EndsWith(w)'
  <2>1. PICK e \in 0 .. Len(seen') : EndsAt(User_Sequence, e)'
    BY <1>6, Zenon DEF Detected
  <2>2. ~ (e \in 0 .. L)
    BY <1>4, <1>6, <2>1 DEF Detected
  <2>3. e = Len(seen')
    BY <1>3, <2>2
  <2>4. EndsWith(w)'
    <3>1. w <= e /\ \A i \in 1 .. w : seen'[e - w + i] = User_Sequence[i]
      BY <1>1, <2>1, Zenon DEF EndsAt
    <3> QED
      BY <2>3, <3>1 DEF EndsWith
  <2>5. w # 0
    <3>1. w = 0 => EndsAt(User_Sequence, 0)
      BY <1>1 DEF EndsAt
    <3>2. 0 \in 0 .. L
      BY <1>3
    <3> QED
      BY <1>6, <3>1, <3>2 DEF Detected
  <2> QED
    BY <1>2, <2>4, <2>5
<1> QED
  BY <1>1, <1>2, <1>5, <1>6

(***************************************************************************)
(* Every rising edge keeps the second invariant.                           *)
(***************************************************************************)
LEMMA CompleteEdge ==
  ASSUME IInv, TypeOK', CompleteInv, NEW b \in Byte, RisingEdge(b)
  PROVE  CompleteInv'
<1>1. valid' = valid /\ User_Sequence' = User_Sequence /\ ~ Reset
  BY DEF RisingEdge
<1>2. CASE ~ (valid /\ Restartable(User_Sequence))
  <2>1. ~ (valid /\ Restartable(User_Sequence))'
    BY <1>1, <1>2
  <2> QED
    BY <2>1 DEF CompleteInv, NothingMissed, OccurrenceEnds, EndFollows, FoundIsComplete
<1>3. CASE valid /\ Restartable(User_Sequence)
  <2>1. /\ seen \in Seq(Byte) /\ seen' = Append(seen, b)
        /\ User_Sequence \in [1 .. Width -> Byte]
    BY <1>3, FinderAssumption DEF RisingEdge, IInv, TypeOK
  <2>2. PICK k \in Nat : k = Len(seen)
    BY <2>1
  <2>3. Len(seen') = k + 1 /\ (k + 1) - 1 = k /\ (k + 1) - 2 = k - 1
    BY <2>1, <2>2
  <2>4. Longest'
    BY <1>3, CompareLongest, AfterMismatchLongest, AtEndLongest
       DEF CompleteInv, NothingMissed, RisingEdge
  <2>5. Detected(k) => AtEnd
    BY <1>3, <2>2 DEF CompleteInv, OccurrenceEnds, RisingEdge, AfterMismatch, Compare
  <2>6. \A n \in 0 .. k : Detected(n)' => Detected(n)
    BY <1>1, <2>1, <2>2, DetectedNext
  <2>7. Detected(Len(seen))' => ~ Mismatch_Occurred' /\ Sequence'[1] = Nul
    <3>1. CASE Detected(k)
      BY <2>5, <3>1 DEF AtEnd
    <3>2. CASE ~ Detected(k) /\ Detected(Len(seen))'
      <4>1. Length(User_Sequence) >= 1 /\ EndsWith(Length(User_Sequence))'
        BY <1>1, <2>1, <2>2, <3>2, DetectedNext
      <4> QED
        BY <1>1, <2>4, <4>1, LongestAtOccurrenceNext
    <3> QED
      BY <3>1, <3>2
  <2>8. Detected(k)' => End_Of_Sequence'
    <3>1. k \in 0 .. k
      OBVIOUS
    <3> QED
      BY <2>5, <2>6, <3>1 DEF AtEnd
  <2>9. k >= 1 /\ Detected(k - 1)' => Sequence_Found'
    <3>1. k >= 1 => k - 1 \in 0 .. k
      OBVIOUS
    <3>2. k >= 1 /\ Detected(k - 1)' => End_Of_Sequence
      BY <1>3, <2>2, <2>6, <3>1 DEF CompleteInv, EndFollows
    <3> QED
      BY <3>2 DEF RisingEdge
  <2>10. NothingMissed' /\ OccurrenceEnds'
    BY <2>4, <2>7 DEF NothingMissed, OccurrenceEnds
  <2>11. EndFollows'
    BY <2>3, <2>8 DEF EndFollows, Detected, EndsAt
  <2>12. FoundIsComplete'
    <3>1. Len(seen') >= 2 => k >= 1
      BY <2>3
    <3> QED
      BY <2>3, <2>9, <3>1 DEF FoundIsComplete, Detected, EndsAt
  <2> QED
    BY <2>10, <2>11, <2>12 DEF CompleteInv
<1> QED
  BY <1>2, <1>3

(***************************************************************************)
(* With no data seen and the target in the register nothing is missed.     *)
(***************************************************************************)
LEMMA FreshIsComplete ==
  /\ TypeOK /\ seen = << >>
  /\ valid => Sequence = User_Sequence /\ ~ Mismatch_Occurred
  => CompleteInv
<1> SUFFICES ASSUME TypeOK, seen = << >>,
                    valid => Sequence = User_Sequence /\ ~ Mismatch_Occurred
             PROVE  CompleteInv
  OBVIOUS
<1>1. User_Sequence \in [1 .. Width -> Byte] /\ Width \in Nat /\ Len(seen) = 0
  BY FinderAssumption DEF TypeOK
<1>2. PICK w : w = Length(User_Sequence)
  OBVIOUS
<1>3. w \in 0 .. Width
  BY <1>1, <1>2, LengthExists
<1>4. EndFollows /\ FoundIsComplete
  BY <1>1 DEF EndFollows, FoundIsComplete
<1>5. NothingMissed
  <2>1. \A j \in 0 + 1 .. w : ~ EndsWith(j)
    BY <1>1 DEF EndsWith
  <2>2. valid => Sequence = Shift(User_Sequence, 0) /\ 0 \in 0 .. w
    BY <1>1, <1>3, ShiftNone
  <2> QED
    BY <1>2, <2>1, <2>2 DEF NothingMissed, Longest
<1>6. OccurrenceEnds
  <2> SUFFICES ASSUME valid, Detected(Len(seen))
               PROVE  ~ Mismatch_Occurred /\ Sequence[1] = Nul
    BY DEF OccurrenceEnds
  <2>1. w <= 0
    BY <1>1, <1>2 DEF Detected, EndsAt
  <2>2. 0 \in 0 .. w /\ 0 = w
    BY <1>3, <2>1
  <2>3. Sequence = Shift(User_Sequence, 0)
    BY <1>1, ShiftNone
  <2> QED
    BY <1>1, <1>2, <2>2, <2>3, NextByte
<1> QED
  BY <1>4, <1>5, <1>6 DEF CompleteInv

(***************************************************************************)
(* The same about the next state.                                          *)
(***************************************************************************)
LEMMA FreshIsCompleteNext ==
  (/\ TypeOK /\ seen = << >>
   /\ valid => Sequence = User_Sequence /\ ~ Mismatch_Occurred
   => CompleteInv)'
BY FreshIsComplete, PTL

(***************************************************************************)
(* Every step keeps the second invariant.                                  *)
(***************************************************************************)
LEMMA CompleteStep == IInv /\ IInv' /\ CompleteInv /\ [Next]_vars => CompleteInv'
<1> SUFFICES ASSUME IInv, IInv', CompleteInv, [Next]_vars
             PROVE  CompleteInv'
  OBVIOUS
<1>1. TypeOK' /\ TypeOK
  BY DEF IInv
<1>2. ASSUME NEW b \in Byte, RisingEdge(b)
      PROVE  CompleteInv'
  BY <1>1, <1>2, CompleteEdge
<1>3. ASSUME NEW t \in Targets, ProvideSequence(t)
      PROVE  CompleteInv'
  BY <1>1, <1>3, FreshIsCompleteNext DEF ProvideSequence
<1>4. CASE AssertReset
  BY <1>1, <1>4, FreshIsCompleteNext DEF AssertReset
<1>5. CASE ResetEdge
  BY <1>1, <1>5, FreshIsCompleteNext DEF ResetEdge, IInv, ResetLoads, HistoryStartsAtReset
<1>6. CASE ReleaseReset
  BY <1>1, <1>6, FreshIsCompleteNext
     DEF ReleaseReset, registers, IInv, ResetLoads, HistoryStartsAtReset
<1>7. CASE UNCHANGED vars
  BY <1>7 DEF vars, registers, CompleteInv, NothingMissed, OccurrenceEnds, EndFollows,
              FoundIsComplete, Longest, EndsWith, Detected, EndsAt
<1> QED
  BY <1>2, <1>3, <1>4, <1>5, <1>6, <1>7 DEF Next

(***************************************************************************)
(* For every target in which one remembered byte is enough, and for every  *)
(* stream of data, no occurrence is missed: the claim of the hardware's    *)
(* header with the one condition under which it is true.                   *)
(***************************************************************************)
THEOREM FinderFoundIsComplete == Spec => []FoundIsComplete
<1>1. Init => CompleteInv
  <2> SUFFICES ASSUME Init
               PROVE  CompleteInv
    OBVIOUS
  <2> QED
    BY TypeInit, FreshIsComplete DEF Init
<1>2. CompleteInv => FoundIsComplete
  BY DEF CompleteInv
<1> QED
  BY <1>1, <1>2, CompleteStep, IInvHolds, PTL DEF Spec

=============================================================================
