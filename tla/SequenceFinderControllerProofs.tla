------------------- MODULE SequenceFinderControllerProofs -------------------
(***************************************************************************)
(* Proofs about SequenceFinderController, for every width of the registers *)
(* and both meanings of its processes.  What the finder does with the data *)
(* it is given is taken from the theorems about SequenceFinder: the first  *)
(* theorem here is that the controller uses it as that module allows.      *)
(***************************************************************************)
EXTENDS SequenceFinderController, TLAPS

Proofs == INSTANCE SequenceFinderProofs WITH Targets <- Sequences64

-----------------------------------------------------------------------------
(***************************************************************************)
(* What SequenceFinder assumes of its constants.                           *)
(***************************************************************************)
LEMMA FinderConstants == Proofs!FinderAssumption
BY ControllerAssumption DEF Proofs!FinderAssumption, Proofs!Nul, Finder!Nul, Sequences64

(***************************************************************************)
(* The halves of the target, as the two processes drive them.              *)
(***************************************************************************)
LEMMA Halves ==
  ASSUME NEW q \in Sequences64
  PROVE  /\ SubSeq(q, 1, Half) \in [1 .. Half -> Byte]
         /\ \A i \in 1 .. Half : SubSeq(q, 1, Half)[i] = q[i]
         /\ SubSeq(q, Half + 1, Width) \in [1 .. Half -> Byte]
         /\ \A i \in 1 .. Half : SubSeq(q, Half + 1, Width)[i] = q[Half + i]
<1>1. Half \in Nat /\ Width = Half + Half /\ Width \in Nat
  BY ControllerAssumption
<1>2. q \in Seq(Byte) /\ Len(q) = Width /\ \A i \in 1 .. Width : q[i] \in Byte
  BY <1>1 DEF Sequences64
<1>3. SubSeq(q, 1, Half) = [i \in 1 .. Half |-> q[1 + i - 1]]
  BY <1>1, <1>2
<1>4. SubSeq(q, Half + 1, Width) = [i \in 1 .. Half |-> q[Half + 1 + i - 1]]
  <2>1. Width - (Half + 1) + 1 = Half
    BY <1>1
  <2> QED
    BY <1>1, <1>2, <2>1
<1>5. \A i \in 1 .. Half : /\ 1 + i - 1 = i /\ i \in 1 .. Width
                           /\ Half + 1 + i - 1 = Half + i /\ Half + i \in 1 .. Width
  BY <1>1
<1> QED
  BY <1>2, <1>3, <1>4, <1>5

(***************************************************************************)
(* Two registers make a target.                                            *)
(***************************************************************************)
LEMMA JoinedHalves ==
  ASSUME NEW first \in [1 .. Half -> Byte], NEW second \in [1 .. Half -> Byte]
  PROVE  /\ Joined(first, second) \in Sequences64
         /\ \A i \in 1 .. Half : Joined(first, second)[i] = first[i]
         /\ \A i \in 1 .. Half : Joined(first, second)[Half + i] = second[i]
<1>1. Half \in Nat /\ Width = Half + Half /\ Width \in Nat
  BY ControllerAssumption
<1>2. \A i \in 1 .. Width : i <= Half => i \in 1 .. Half
  BY <1>1
<1>3. \A i \in 1 .. Width : ~ (i <= Half) => i - Half \in 1 .. Half
  BY <1>1
<1>4. \A i \in 1 .. Half : /\ i \in 1 .. Width /\ i <= Half
                           /\ Half + i \in 1 .. Width /\ ~ (Half + i <= Half)
                           /\ (Half + i) - Half = i
  BY <1>1
<1>5. Joined(first, second)
        = [i \in 1 .. Width |-> IF i <= Half THEN first[i] ELSE second[i - Half]]
  BY DEF Joined
<1> QED
  BY <1>2, <1>3, <1>4, <1>5 DEF Sequences64

(***************************************************************************)
(* A target is the join of its halves.                                     *)
(***************************************************************************)
LEMMA SameHalves ==
  ASSUME NEW p \in Sequences64, NEW q \in Sequences64,
         \A i \in 1 .. Half : p[i] = q[i],
         \A i \in 1 .. Half : p[Half + i] = q[Half + i]
  PROVE  p = q
<1>1. Half \in Nat /\ Width = Half + Half
  BY ControllerAssumption
<1>2. ASSUME NEW i \in 1 .. Width
      PROVE  p[i] = q[i]
  <2>1. CASE i <= Half
    BY <1>1, <2>1
  <2>2. CASE ~ (i <= Half)
    <3>1. i - Half \in 1 .. Half /\ Half + (i - Half) = i
      BY <1>1, <2>2
    <3> QED
      BY <3>1
  <2> QED
    BY <2>1, <2>2
<1>3. p \in [1 .. Width -> Byte] /\ q \in [1 .. Width -> Byte]
  BY DEF Sequences64
<1>4. p = [i \in 1 .. Width |-> p[i]] /\ q = [i \in 1 .. Width |-> q[i]]
  BY <1>3
<1> QED
  BY <1>2, <1>4, Zenon

(***************************************************************************)
(* The latch of the target, whatever the two processes do: its halves come *)
(* from the registers or stay, and the finder sees a new target provided   *)
(* or nothing.                                                             *)
(***************************************************************************)
LEMMA TargetLatch ==
  ASSUME User_Sequence \in Sequences64,
         Register_Zero' \in [1 .. Half -> Byte],
         Register_One' \in [1 .. Half -> Byte],
         Process_Sequence
  PROVE  /\ User_Sequence' \in Sequences64
         /\ \/ Finder!ProvideSequence(User_Sequence')
            \/ UNCHANGED finder
         /\ \A i \in 1 .. Half :
              User_Sequence'[i] = IF Mode' = 0 /\ Runs(Register_Zero)
                                    THEN Register_Zero'[i] ELSE User_Sequence[i]
         /\ \A i \in 1 .. Half :
              User_Sequence'[Half + i] = IF Mode' = 0 /\ Runs(Register_One)
                                           THEN Register_One'[i]
                                           ELSE User_Sequence[Half + i]
         /\ Mode' = 1 => UNCHANGED finder
<1> DEFINE first  == IF Mode' = 0 /\ Runs(Register_Zero)
                       THEN Register_Zero' ELSE SubSeq(User_Sequence, 1, Half)
           second == IF Mode' = 0 /\ Runs(Register_One)
                       THEN Register_One' ELSE SubSeq(User_Sequence, Half + 1, Width)
           t == Joined(first, second)
<1>1. /\ first \in [1 .. Half -> Byte]
      /\ \A i \in 1 .. Half :
           first[i] = IF Mode' = 0 /\ Runs(Register_Zero)
                        THEN Register_Zero'[i] ELSE User_Sequence[i]
  BY Halves
<1>2. /\ second \in [1 .. Half -> Byte]
      /\ \A i \in 1 .. Half :
           second[i] = IF Mode' = 0 /\ Runs(Register_One)
                         THEN Register_One'[i] ELSE User_Sequence[Half + i]
  BY Halves
<1>3. IF t # User_Sequence THEN Finder!ProvideSequence(t) ELSE UNCHANGED finder
  BY DEF Process_Sequence
<1> HIDE DEF first, second
<1>4. /\ t \in Sequences64
      /\ \A i \in 1 .. Half : t[i] = first[i]
      /\ \A i \in 1 .. Half : t[Half + i] = second[i]
  BY <1>1, <1>2, JoinedHalves
<1> HIDE DEF t
<1>5. User_Sequence' = t
  BY <1>3 DEF finder, Finder!ProvideSequence
<1>6. Mode' = 1 => UNCHANGED finder
  <2> SUFFICES ASSUME Mode' = 1
               PROVE  t = User_Sequence
    BY <1>3
  <2>1. /\ \A i \in 1 .. Half : t[i] = User_Sequence[i]
        /\ \A i \in 1 .. Half : t[Half + i] = User_Sequence[Half + i]
    BY <1>1, <1>2, <1>4
  <2> QED
    BY <1>4, <2>1, SameHalves
<1> QED
  BY <1>1, <1>2, <1>3, <1>4, <1>5, <1>6

-----------------------------------------------------------------------------
(***************************************************************************)
(* What a change of an input does, whichever input it is.                  *)
(***************************************************************************)
LEMMA SettleType ==
  ASSUME TypeOK, Settle,
         Register_Zero' \in [1 .. Half -> Byte],
         Register_One' \in [1 .. Half -> Byte],
         Mode' \in {0, 1}
  PROVE  /\ build' \in {"simulated", "synthesised"}
         /\ User_Data' \in Byte
         /\ Trigger' \in BOOLEAN
         /\ phase' \in {"stable", "delta", "edge"}
         /\ User_Sequence' \in Sequences64
         /\ Proofs!ProvideSequence(User_Sequence') \/ UNCHANGED Proofs!vars
<1>1. User_Sequence \in Sequences64
  BY DEF TypeOK, Finder!TypeOK
<1>2. 1 \in 1 .. Half
  BY ControllerAssumption
<1>3. build' = build /\ phase' = "delta" /\ Process_Data /\ Process_Sequence
      /\ Process_Trigger
  BY DEF Settle
<1>4. User_Data' \in Byte
  BY <1>2, <1>3 DEF Process_Data, TypeOK
<1>5. Trigger' \in BOOLEAN
  <2>1. CASE Runs(Register_One)
    BY <1>3, <2>1 DEF Process_Trigger
  <2>2. CASE ~ Runs(Register_One)
    BY <1>3, <2>2 DEF Process_Trigger, TypeOK
  <2> QED
    BY <2>1, <2>2
<1>6. /\ User_Sequence' \in Sequences64
      /\ Finder!ProvideSequence(User_Sequence') \/ UNCHANGED finder
  BY <1>1, <1>3, TargetLatch
<1>7. Proofs!ProvideSequence(User_Sequence') \/ UNCHANGED Proofs!vars
  BY <1>6 DEF finder, Finder!ProvideSequence, Proofs!ProvideSequence,
              Finder!registers, Proofs!registers, Proofs!vars
<1> QED
  BY <1>3, <1>4, <1>5, <1>6, <1>7 DEF TypeOK

LEMMA PaddedType ==
  ASSUME NEW b \in Byte
  PROVE  /\ Padded(b) \in [1 .. Half -> Byte]
         /\ Padded(b)[1] = b
         /\ Padded(b)[2] = Finder!Nul
BY ControllerAssumption DEF Padded, Zeros

(***************************************************************************)
(* The inputs change in four ways; what they have in common.               *)
(***************************************************************************)
InputChanges ==
  \/ \E h \in Firsts : LoadFirst(h)
  \/ \E h \in Seconds : LoadSecond(h)
  \/ \E b \in Items : LoadData(b)
  \/ SwitchMode

InputEffect ==
  /\ Settle
  /\ MayChange
  /\ Register_Zero' \in [1 .. Half -> Byte]
  /\ Register_One' \in [1 .. Half -> Byte]
  /\ Mode' \in {0, 1}
  /\ steps' \in {"none", "zero", "both", "bad"}
  /\ changed' \in BOOLEAN
  /\ target' \in Sequences64
  /\ loads' \in Seq(Byte)
  /\ \/ loadedAt' \in {loadedAt, 0}
     \/ loadedAt' = Len(seen) /\ EdgePossible

LEMMA InputType ==
  ASSUME TypeOK, InputChanges
  PROVE  InputEffect
<1>1. ASSUME NEW h \in Firsts, LoadFirst(h)
      PROVE  InputEffect
  <2>1. h \in [1 .. Half -> Byte]
    BY ControllerAssumption
  <2>2. changed' \in BOOLEAN
    BY <1>1 DEF LoadFirst
  <2> QED
    BY <1>1, <2>1, <2>2 DEF LoadFirst, TypeOK, InputEffect
<1>2. ASSUME NEW h \in Seconds, LoadSecond(h)
      PROVE  InputEffect
  <2>1. h \in [1 .. Half -> Byte]
    BY ControllerAssumption
  <2>2. changed' \in BOOLEAN
    BY <1>2, Zenon DEF LoadSecond, TypeOK
  <2> QED
    BY <1>2, <2>1, <2>2 DEF LoadSecond, TypeOK, InputEffect
<1>3. ASSUME NEW b \in Items, LoadData(b)
      PROVE  InputEffect
  <2>1. b \in Byte
    BY ControllerAssumption
  <2>2. Padded(b) \in [1 .. Half -> Byte]
    BY <2>1, PaddedType
  <2>3. loads' \in Seq(Byte)
    BY <1>3, <2>1 DEF LoadData, TypeOK
  <2> QED
    BY <1>3, <2>2, <2>3 DEF LoadData, TypeOK, InputEffect
<1>4. CASE SwitchMode
  <2>1. Mode' \in {0, 1}
    BY <1>4 DEF SwitchMode, TypeOK
  <2>2. target' \in Sequences64
    BY <1>4, JoinedHalves DEF SwitchMode, TypeOK
  <2>3. loads' \in Seq(Byte)
    BY <1>4 DEF SwitchMode
  <2> QED
    BY <1>4, <2>1, <2>2, <2>3 DEF SwitchMode, TypeOK, InputEffect
<1> QED
  BY <1>1, <1>2, <1>3, <1>4 DEF InputChanges

(***************************************************************************)
(* Each step is a step of the finder, or one that it does not see.         *)
(***************************************************************************)
LEMMA StepIsFinders ==
  TypeOK /\ [Next]_vars => [Proofs!Next]_(Proofs!vars)
<1> SUFFICES ASSUME TypeOK, [Next]_vars
             PROVE  [Proofs!Next]_(Proofs!vars)
  OBVIOUS
<1>1. CASE InputChanges
  <2>1. /\ User_Sequence' \in Sequences64
        /\ Proofs!ProvideSequence(User_Sequence') \/ UNCHANGED Proofs!vars
    BY <1>1, InputType, SettleType DEF InputEffect
  <2> QED
    BY <2>1 DEF Proofs!Next
<1>2. CASE Process_Reset
  <2>1. Finder!AssertReset \/ Finder!ReleaseReset \/ UNCHANGED finder
    BY <1>2 DEF Process_Reset
  <2>2. Proofs!AssertReset \/ Proofs!ReleaseReset \/ UNCHANGED Proofs!vars
    BY <2>1 DEF finder, Finder!AssertReset, Finder!ReleaseReset, Proofs!AssertReset,
       Proofs!ReleaseReset, Finder!registers, Proofs!registers, Proofs!vars
  <2> QED
    BY <2>2 DEF Proofs!Next
<1>3. CASE Clock
  <2>1. Finder!ResetEdge \/ Finder!RisingEdge(User_Data)
    BY <1>3 DEF Clock
  <2>2. Finder!ResetEdge => Proofs!ResetEdge
    BY DEF Finder!ResetEdge, Proofs!ResetEdge
  <2>3. Finder!RisingEdge(User_Data) => Proofs!RisingEdge(User_Data)
    BY DEF Finder!RisingEdge, Proofs!RisingEdge, Finder!AfterMismatch,
       Proofs!AfterMismatch, Finder!AtEnd, Proofs!AtEnd, Finder!Compare,
       Proofs!Compare, Finder!Restarts, Proofs!Restarts, Finder!OneByte,
       Proofs!OneByte, Finder!Shift, Proofs!Shift, Finder!Nul, Proofs!Nul
  <2>4. User_Data \in Byte
    BY DEF TypeOK
  <2> QED
    BY <2>1, <2>2, <2>3, <2>4 DEF Proofs!Next
<1>4. CASE UNCHANGED vars
  BY <1>4 DEF vars, finder, Proofs!vars, Proofs!registers
<1> QED
  BY <1>1, <1>2, <1>3, <1>4 DEF Next, InputChanges

(***************************************************************************)
(* Power-up is a power-up of the finder.                                   *)
(***************************************************************************)
LEMMA InitIsFinders == Init => Proofs!Init
<1> SUFFICES ASSUME Init
             PROVE  Proofs!Init
  OBVIOUS
<1>1. Zeros \in [1 .. Half -> Byte]
  BY ControllerAssumption DEF Zeros
<1>2. User_Sequence \in Sequences64
  BY <1>1, JoinedHalves DEF Init
<1> QED
  BY <1>2 DEF Init, Finder!Init, Proofs!Init, Finder!Nul, Proofs!Nul

LEMMA SameTypes == Finder!TypeOK <=> Proofs!TypeOK
BY DEF Finder!TypeOK, Proofs!TypeOK

LEMMA TypeInit == Init => TypeOK
<1> SUFFICES ASSUME Init
             PROVE  TypeOK
  OBVIOUS
<1>1. Zeros \in [1 .. Half -> Byte]
  BY ControllerAssumption DEF Zeros
<1>2. Joined(Zeros, Zeros) \in Sequences64
  BY <1>1, JoinedHalves
<1>3. Finder!TypeOK
  BY InitIsFinders, SameTypes, FinderConstants, Proofs!TypeInit
<1>4. << >> \in Seq(Byte) /\ 0 \in 0 .. MaxData
  BY ControllerAssumption
<1> QED
  BY <1>1, <1>2, <1>3, <1>4, ControllerAssumption DEF Init, TypeOK

(***************************************************************************)
(* Every step keeps the types.  The finder's invariant is needed for the   *)
(* history loadedAt: during a reset no data byte has been sampled.         *)
(***************************************************************************)
LEMMA TypeStep == TypeOK /\ Proofs!IInv /\ [Next]_vars => TypeOK'
<1> SUFFICES ASSUME TypeOK, Proofs!IInv, [Next]_vars
             PROVE  TypeOK'
  OBVIOUS
<1>1. Finder!TypeOK'
  <2>1. Proofs!TypeOK
    BY SameTypes DEF TypeOK
  <2>2. Proofs!TypeOK'
    BY <2>1, StepIsFinders, FinderConstants, Proofs!TypeStep
  <2> QED
    BY <2>2 DEF Finder!TypeOK, Proofs!TypeOK
<1>2. CASE InputChanges
  <2>1. loadedAt' \in 0 .. MaxData
    <3>1. MaxData \in Nat /\ seen \in Seq(Byte) /\ loadedAt \in 0 .. MaxData
      BY ControllerAssumption DEF TypeOK, Finder!TypeOK
    <3>2. EdgePossible => Len(seen) \in 0 .. MaxData
      <4>1. Reset => seen = << >>
        BY DEF Proofs!IInv, Proofs!HistoryStartsAtReset
      <4> QED
        BY <3>1, <4>1 DEF EdgePossible
    <3> QED
      BY <1>2, <3>1, <3>2, InputType DEF InputEffect
  <2> QED
    BY <1>1, <1>2, <2>1, InputType, SettleType DEF InputEffect, TypeOK
<1>3. CASE Process_Reset
  BY <1>1, <1>3 DEF Process_Reset, inputs, history, TypeOK
<1>4. CASE Clock
  BY <1>1, <1>4 DEF Clock, inputs, history, TypeOK
<1>5. CASE UNCHANGED vars
  BY <1>1, <1>5 DEF vars, inputs, history, TypeOK
<1> QED
  BY <1>2, <1>3, <1>4, <1>5 DEF Next, InputChanges

LEMMA FinderInitInv == Init => Proofs!IInv
BY InitIsFinders, FinderConstants, Proofs!IInvInit

LEMMA FinderStep ==
  TypeOK /\ Proofs!IInv /\ [Next]_vars => Proofs!IInv'
BY StepIsFinders, FinderConstants, Proofs!IInvStep

(***************************************************************************)
(* The registers, the latches and the histories have their widths in every *)
(* reachable state, for every width of the registers.                      *)
(***************************************************************************)
THEOREM ControllerTypeCorrect == Spec => []TypeOK
BY TypeInit, TypeStep, FinderInitInv, FinderStep, PTL DEF Spec

(***************************************************************************)
(* The finder inside the controller behaves as SequenceFinder says: the    *)
(* target changes only as its user may change it, the reset rises and      *)
(* falls and the clock moves one edge at a time.                           *)
(***************************************************************************)
THEOREM ControllerImplementsFinder == Spec => Finder!Spec
<1>1. Init => Finder!Init
  BY InitIsFinders DEF Finder!Init, Proofs!Init, Finder!Nul, Proofs!Nul
<1>2. TypeOK /\ [Next]_vars => [Finder!Next]_(Finder!vars)
  BY StepIsFinders DEF Finder!vars, Proofs!vars, Finder!registers, Proofs!registers,
     Finder!Next, Proofs!Next, Finder!ProvideSequence, Proofs!ProvideSequence,
     Finder!AssertReset, Proofs!AssertReset, Finder!ResetEdge, Proofs!ResetEdge,
     Finder!ReleaseReset, Proofs!ReleaseReset, Finder!RisingEdge, Proofs!RisingEdge,
     Finder!AfterMismatch, Proofs!AfterMismatch, Finder!AtEnd, Proofs!AtEnd,
     Finder!Compare, Proofs!Compare, Finder!Restarts, Proofs!Restarts,
     Finder!OneByte, Proofs!OneByte, Finder!Shift, Proofs!Shift, Finder!Nul,
     Proofs!Nul
<1> QED
  BY <1>1, <1>2, ControllerTypeCorrect, PTL DEF Spec, Finder!Spec

LEMMA FinderRuns == Spec => Proofs!Spec
BY InitIsFinders, StepIsFinders, ControllerTypeCorrect, PTL DEF Spec, Proofs!Spec

-----------------------------------------------------------------------------
(***************************************************************************)
(* The inductive invariant: what the registers, the latches and the reset  *)
(* have to do with each other at every stage of the instructions.          *)
(***************************************************************************)

\* The reset follows the switch and the trigger one delta cycle later, and the
\* first clock under it loads the target.
ResetFollows ==
  /\ phase # "delta" => (Reset <=> Wanted)
  /\ phase = "stable" /\ Reset => valid

\* In target mode the synthesised latches are open.
LatchesOpen ==
  build = "synthesised" /\ Mode = 0 =>
    Trigger /\ User_Sequence = Joined(Register_Zero, Register_One)

\* A simulated process has seen each load that changed its register.
LoadsSeen ==
  build = "simulated" /\ Mode = 0 /\ changed =>
    /\ steps \in {"zero", "both"} =>
         \A i \in 1 .. Half : User_Sequence[i] = Register_Zero[i]
    /\ steps = "both" =>
         /\ Trigger
         /\ \A i \in 1 .. Half : User_Sequence[Half + i] = Register_One[i]

\* The user obeyed instructions 2 to 4, as in Obeyed.
Session == Mode = 1 /\ steps = "both" /\ (build = "synthesised" \/ changed)

\* Until the next target mode the finder works with the target, and its first
\* clock without the reset comes before the first data byte.
SessionStarts ==
  Session =>
    /\ valid
    /\ User_Sequence = target
    /\ seen = << >> => loads = << >> /\ phase # "stable"

\* What Register_Zero holds in data mode.
DataRegister ==
  Mode = 1 =>
    IF loads = << >> THEN \A i \in 1 .. Half : Register_Zero[i] = target[i]
                     ELSE Register_Zero = Padded(loads[Len(loads)])

\* Nothing hides a data byte from the latch.
DataLatchFollows ==
  /\ Mode = 1
  /\ build = "synthesised" \/ (loads # << >> /\ target[2] # Finder!Nul)
  => User_Data = Register_Zero[1]

\* The bytes sampled since the last load are that data byte, the one sampled
\* just before is the data byte before it.
SamplesFollow ==
  Session /\ loads # << >> =>
    /\ loadedAt <= Len(seen)
    /\ \A i \in loadedAt + 1 .. Len(seen) : seen[i] = User_Data
    /\ phase = "stable" => loadedAt < Len(seen)
    /\ Len(loads) >= 2 /\ (build = "synthesised" \/ target[2] # Finder!Nul) =>
         loadedAt >= 1 /\ seen[loadedAt] = loads[Len(loads) - 1]

\* The synthesised finder takes the first byte of the target for data.
OwnByteFirst ==
  Session /\ build = "synthesised" /\ seen # << >> => seen[1] = target[1]

IInv ==
  /\ TypeOK
  /\ Proofs!IInv
  /\ ResetFollows
  /\ LatchesOpen
  /\ LoadsSeen
  /\ SessionStarts
  /\ DataRegister
  /\ DataLatchFollows
  /\ SamplesFollow
  /\ OwnByteFirst

(***************************************************************************)
(* What the second delta cycle and the clock do to what the controller     *)
(* sees of the finder.                                                     *)
(***************************************************************************)
LEMMA ResetStep ==
  ASSUME Process_Reset
  PROVE  /\ UNCHANGED <<build, Register_Zero, Register_One, Mode, User_Data, Trigger,
                        steps, changed, target, loads, loadedAt, User_Sequence>>
         /\ phase' = "edge"
         /\ Mode = 1 => UNCHANGED <<valid, seen>>
<1>1. UNCHANGED <<build, inputs, User_Data, Trigger, history>> /\ phase' = "edge"
  BY DEF Process_Reset
<1>2. User_Sequence' = User_Sequence
  BY DEF Process_Reset, Finder!AssertReset, Finder!ReleaseReset, finder
<1>3. Mode = 1 => UNCHANGED <<valid, seen>>
  BY DEF Process_Reset, Finder!ReleaseReset, finder, Wanted
<1> QED
  BY <1>1, <1>2, <1>3 DEF inputs, history

LEMMA ClockStep ==
  ASSUME Clock
  PROVE  /\ UNCHANGED <<build, Register_Zero, Register_One, Mode, User_Data, Trigger,
                        steps, changed, target, loads, loadedAt, User_Sequence, Reset>>
         /\ phase # "delta" /\ phase' = "stable"
         /\ IF Reset THEN valid' /\ seen' = seen
                     ELSE /\ valid' = valid
                          /\ seen' = IF valid THEN Append(seen, User_Data) ELSE seen
<1>1. UNCHANGED <<build, inputs, User_Data, Trigger, history>> /\ phase' = "stable"
      /\ phase # "delta"
  BY DEF Clock
<1>2. IF Reset THEN Finder!ResetEdge ELSE Finder!RisingEdge(User_Data)
  BY DEF Clock
<1> QED
  BY <1>1, <1>2 DEF inputs, history, Finder!ResetEdge, Finder!RisingEdge

LEMMA SettleStep ==
  ASSUME TypeOK, InputEffect
  PROVE  /\ phase' = "delta" /\ build' = build
         /\ Process_Data /\ Process_Trigger
         /\ Mode' = 1 => UNCHANGED finder
         /\ User_Sequence' \in Sequences64
         /\ \A i \in 1 .. Half :
              User_Sequence'[i] = IF Mode' = 0 /\ Runs(Register_Zero)
                                    THEN Register_Zero'[i] ELSE User_Sequence[i]
         /\ \A i \in 1 .. Half :
              User_Sequence'[Half + i] = IF Mode' = 0 /\ Runs(Register_One)
                                           THEN Register_One'[i]
                                           ELSE User_Sequence[Half + i]
<1>1. Settle /\ Register_Zero' \in [1 .. Half -> Byte]
      /\ Register_One' \in [1 .. Half -> Byte]
  BY DEF InputEffect
<1>2. User_Sequence \in Sequences64
  BY DEF TypeOK, Finder!TypeOK
<1> QED
  BY <1>1, <1>2, TargetLatch DEF Settle

(***************************************************************************)
(* The reset.                                                              *)
(***************************************************************************)
LEMMA ResetFollowsStep ==
  ASSUME TypeOK, ResetFollows, [Next]_vars
  PROVE  ResetFollows'
<1>1. CASE InputChanges
  BY <1>1, InputType, SettleStep DEF ResetFollows
<1>2. CASE Process_Reset
  <2>1. Reset' <=> Wanted
    BY <1>2 DEF Process_Reset, Finder!AssertReset, Finder!ReleaseReset, finder,
       TypeOK, Finder!TypeOK
  <2> QED
    BY <1>2, <2>1, ResetStep DEF ResetFollows, Wanted
<1>3. CASE Clock
  BY <1>3, ClockStep DEF ResetFollows, Wanted
<1>4. CASE UNCHANGED vars
  BY <1>4 DEF vars, inputs, finder, ResetFollows, Wanted
<1> QED
  BY <1>1, <1>2, <1>3, <1>4 DEF Next, InputChanges

(***************************************************************************)
(* The target in the synthesised design.                                   *)
(***************************************************************************)
LEMMA LatchesOpenStep ==
  ASSUME TypeOK, LatchesOpen, [Next]_vars
  PROVE  LatchesOpen'
<1>1. CASE InputChanges
  <2> SUFFICES ASSUME build' = "synthesised", Mode' = 0
               PROVE  /\ Trigger'
                      /\ User_Sequence' = Joined(Register_Zero', Register_One')
    BY DEF LatchesOpen, Joined
  <2>1. InputEffect
    BY <1>1, InputType
  <2>2. Runs(Register_Zero) /\ Runs(Register_One)
    BY <2>1, SettleStep DEF Runs
  <2>3. Trigger'
    BY <2>1, <2>2, SettleStep DEF Process_Trigger
  <2>4. /\ User_Sequence' \in Sequences64
        /\ \A i \in 1 .. Half : User_Sequence'[i] = Register_Zero'[i]
        /\ \A i \in 1 .. Half : User_Sequence'[Half + i] = Register_One'[i]
    BY <2>1, <2>2, SettleStep
  <2>5. Register_Zero' \in [1 .. Half -> Byte] /\ Register_One' \in [1 .. Half -> Byte]
    BY <2>1 DEF InputEffect
  <2>6. /\ Joined(Register_Zero', Register_One') \in Sequences64
        /\ \A i \in 1 .. Half : Joined(Register_Zero', Register_One')[i] = Register_Zero'[i]
        /\ \A i \in 1 .. Half :
             Joined(Register_Zero', Register_One')[Half + i] = Register_One'[i]
    BY <2>5, JoinedHalves
  <2>7. User_Sequence' = Joined(Register_Zero', Register_One')
    BY <2>4, <2>6, SameHalves
  <2> QED
    BY <2>3, <2>7
<1>2. CASE Process_Reset
  BY <1>2, ResetStep DEF LatchesOpen, Joined
<1>3. CASE Clock
  BY <1>3, ClockStep DEF LatchesOpen, Joined
<1>4. CASE UNCHANGED vars
  BY <1>4 DEF vars, inputs, finder, LatchesOpen, Joined
<1> QED
  BY <1>1, <1>2, <1>3, <1>4 DEF Next, InputChanges

(***************************************************************************)
(* The target in the simulated design.                                     *)
(***************************************************************************)
LEMMA LoadsSeenStep ==
  ASSUME TypeOK, LoadsSeen, [Next]_vars
  PROVE  LoadsSeen'
<1>1. CASE InputChanges
  <2> SUFFICES ASSUME build' = "simulated", Mode' = 0, changed'
               PROVE  /\ steps' \in {"zero", "both"} =>
                           \A i \in 1 .. Half : User_Sequence'[i] = Register_Zero'[i]
                      /\ steps' = "both" =>
                           /\ Trigger'
                           /\ \A i \in 1 .. Half :
                                User_Sequence'[Half + i] = Register_One'[i]
    BY DEF LoadsSeen
  <2>1. InputEffect /\ build = "simulated"
    BY <1>1, InputType, SettleStep
  <2>2. ASSUME NEW h \in Firsts, LoadFirst(h)
        PROVE  /\ steps' # "both"
               /\ \A i \in 1 .. Half : User_Sequence'[i] = Register_Zero'[i]
    <3>1. Runs(Register_Zero)
      BY <2>2 DEF LoadFirst, Runs
    <3>2. steps' # "both"
      BY <2>2 DEF LoadFirst
    <3> QED
      BY <2>1, <3>1, <3>2, SettleStep
  <2>3. ASSUME NEW h \in Seconds, LoadSecond(h), steps' \in {"zero", "both"}
        PROVE  /\ \A i \in 1 .. Half : User_Sequence'[i] = Register_Zero'[i]
               /\ Trigger'
               /\ \A i \in 1 .. Half : User_Sequence'[Half + i] = Register_One'[i]
    <3>1. /\ Mode = 0 /\ steps \in {"zero", "both"} /\ changed
          /\ Register_Zero' = Register_Zero /\ Register_One' # Register_One
      BY <2>3 DEF LoadSecond
    <3>2. Runs(Register_One)
      BY <3>1 DEF Runs
    <3>3. Trigger'
      BY <2>1, <3>2, SettleStep DEF Process_Trigger
    <3>4. \A i \in 1 .. Half : User_Sequence[i] = Register_Zero[i]
      BY <2>1, <3>1 DEF LoadsSeen
    <3> QED
      BY <2>1, <3>1, <3>2, <3>3, <3>4, SettleStep
  <2>4. ASSUME NEW b \in Items, LoadData(b)
        PROVE  FALSE
    BY <2>4 DEF LoadData
  <2>5. CASE SwitchMode
    <3>1. steps' = "none"
      BY <2>5 DEF SwitchMode, TypeOK
    <3> QED
      BY <3>1
  <2> QED
    BY <1>1, <2>2, <2>3, <2>4, <2>5 DEF InputChanges
<1>2. CASE Process_Reset
  BY <1>2, ResetStep DEF LoadsSeen
<1>3. CASE Clock
  BY <1>3, ClockStep DEF LoadsSeen
<1>4. CASE UNCHANGED vars
  BY <1>4 DEF vars, inputs, finder, history, LoadsSeen
<1> QED
  BY <1>1, <1>2, <1>3, <1>4 DEF Next, InputChanges

(***************************************************************************)
(* What a user who obeyed the instructions leaves when the switch goes to  *)
(* data mode: the latches hold the registers and the reset is on.          *)
(***************************************************************************)
LEMMA SwitchUnderReset ==
  ASSUME TypeOK, ResetFollows, LatchesOpen, LoadsSeen, Proofs!IInv,
         MayChange, Mode = 0, steps = "both", build = "synthesised" \/ changed
  PROVE  /\ valid
         /\ seen = << >>
         /\ User_Sequence = Joined(Register_Zero, Register_One)
<1>1. Trigger /\ User_Sequence = Joined(Register_Zero, Register_One)
  <2>1. CASE build = "synthesised"
    BY <2>1 DEF LatchesOpen
  <2>2. CASE build # "synthesised"
    <3>1. build = "simulated" /\ changed
      BY <2>2 DEF TypeOK
    <3>2. /\ Trigger
          /\ \A i \in 1 .. Half : User_Sequence[i] = Register_Zero[i]
          /\ \A i \in 1 .. Half : User_Sequence[Half + i] = Register_One[i]
      BY <3>1 DEF LoadsSeen
    <3>3. /\ User_Sequence \in Sequences64
          /\ Register_Zero \in [1 .. Half -> Byte]
          /\ Register_One \in [1 .. Half -> Byte]
      BY DEF TypeOK, Finder!TypeOK
    <3>4. /\ Joined(Register_Zero, Register_One) \in Sequences64
          /\ \A i \in 1 .. Half : Joined(Register_Zero, Register_One)[i] = Register_Zero[i]
          /\ \A i \in 1 .. Half :
               Joined(Register_Zero, Register_One)[Half + i] = Register_One[i]
      BY <3>3, JoinedHalves
    <3>5. User_Sequence = Joined(Register_Zero, Register_One)
      BY <3>2, <3>3, <3>4, SameHalves
    <3> QED
      BY <3>2, <3>5
  <2> QED
    BY <2>1, <2>2
<1>2. Reset
  BY <1>1 DEF ResetFollows, Wanted, MayChange
<1>3. phase = "stable"
  BY <1>2 DEF MayChange, EdgePossible
<1> QED
  BY <1>1, <1>2, <1>3 DEF ResetFollows, Proofs!IInv, Proofs!HistoryStartsAtReset

(***************************************************************************)
(* No load of a data byte happens before the first clock: LoadData wants   *)
(* an edge to be possible and one to have passed.                          *)
(***************************************************************************)
LEMMA LoadAfterClock ==
  ASSUME MayChange, EdgePossible
  PROVE  phase = "stable"
BY DEF MayChange

LEMMA SessionStartsStep ==
  ASSUME IInv, TypeOK', [Next]_vars
  PROVE  SessionStarts'
<1> SUFFICES ASSUME Session'
             PROVE  /\ valid'
                    /\ User_Sequence' = target'
                    /\ seen' = << >> => loads' = << >> /\ phase' # "stable"
  BY DEF SessionStarts
<1>0. /\ TypeOK /\ ResetFollows /\ LatchesOpen /\ LoadsSeen /\ SessionStarts
      /\ Proofs!IInv
  BY DEF IInv
<1>1. CASE InputChanges
  <2>1. InputEffect
    BY <1>0, <1>1, InputType
  <2>2. Mode' = 1 /\ UNCHANGED finder /\ phase' = "delta" /\ build' = build
    BY <1>0, <2>1, SettleStep DEF Session
  <2>3. CASE Mode = 0
    <3>1. SwitchMode
      BY <1>1, <2>2, <2>3 DEF InputChanges, LoadFirst, LoadSecond, LoadData
    <3>2. /\ steps = "both" /\ (build = "synthesised" \/ changed) /\ loads' = << >>
          /\ target' = Joined(Register_Zero, Register_One)
      BY <2>2, <2>3, <3>1 DEF SwitchMode, Session
    <3>3. MayChange
      BY <2>1 DEF InputEffect
    <3> QED
      BY <1>0, <2>2, <2>3, <3>2, <3>3, SwitchUnderReset DEF finder
  <2>4. CASE Mode # 0
    <3>1. PICK b \in Items : LoadData(b)
      BY <1>0, <1>1, <2>2, <2>4 DEF InputChanges, LoadFirst, LoadSecond, SwitchMode,
         Session, TypeOK
    <3>2. /\ UNCHANGED <<steps, changed, target>> /\ EdgePossible /\ MayChange
          /\ Mode = 1
      BY <3>1 DEF LoadData
    <3>3. Session
      BY <2>2, <3>2 DEF Session
    <3>4. phase = "stable"
      BY <3>2, LoadAfterClock
    <3> QED
      BY <1>0, <2>2, <3>2, <3>3, <3>4 DEF finder, SessionStarts
  <2> QED
    BY <2>3, <2>4
<1>2. CASE Process_Reset
  <2>1. /\ Session /\ UNCHANGED <<valid, seen, User_Sequence, target, loads>>
        /\ phase' = "edge"
    BY <1>2, ResetStep DEF Session
  <2> QED
    BY <1>0, <2>1 DEF SessionStarts
<1>3. CASE Clock
  <2>1. /\ Session /\ UNCHANGED <<User_Sequence, target, loads, Mode>>
        /\ phase # "delta"
    BY <1>3, ClockStep DEF Session
  <2>2. ~ Reset
    BY <1>0, <2>1 DEF ResetFollows, Wanted, Session
  <2>3. valid' = valid /\ valid /\ seen' = Append(seen, User_Data)
    BY <1>0, <1>3, <2>1, <2>2, ClockStep DEF SessionStarts
  <2>4. seen' # << >>
    BY <1>0, <2>3 DEF TypeOK, Finder!TypeOK
  <2> QED
    BY <1>0, <2>1, <2>3, <2>4 DEF SessionStarts
<1>4. CASE UNCHANGED vars
  BY <1>0, <1>4 DEF vars, inputs, finder, history, SessionStarts, Session
<1> QED
  BY <1>1, <1>2, <1>3, <1>4 DEF Next, InputChanges

(***************************************************************************)
(* The data byte: what is in the register, and what is behind the latch.   *)
(***************************************************************************)
LEMMA DataRegisterStep ==
  ASSUME TypeOK, DataRegister, [Next]_vars
  PROVE  DataRegister'
<1>1. CASE InputChanges
  <2>2. ASSUME NEW h \in Firsts, LoadFirst(h)
        PROVE  DataRegister'
    BY <2>2 DEF LoadFirst, DataRegister
  <2>3. ASSUME NEW h \in Seconds, LoadSecond(h)
        PROVE  DataRegister'
    BY <2>3 DEF LoadSecond, DataRegister
  <2>4. ASSUME NEW b \in Items, LoadData(b)
        PROVE  DataRegister'
    <3>1. /\ loads' = Append(loads, b) /\ Register_Zero' = Padded(b)
          /\ loads \in Seq(Byte) /\ b \in Byte
      BY <2>4, ControllerAssumption DEF LoadData, TypeOK
    <3>2. loads' # << >> /\ loads'[Len(loads')] = b
      BY <3>1
    <3> QED
      BY <3>1, <3>2 DEF DataRegister, Padded, Zeros
  <2>5. CASE SwitchMode
    <3>1. /\ loads' = << >> /\ Register_Zero' = Register_Zero
          /\ Mode' = 1 => target' = Joined(Register_Zero, Register_One)
      BY <2>5 DEF SwitchMode, TypeOK
    <3>2. \A i \in 1 .. Half : Joined(Register_Zero, Register_One)[i] = Register_Zero[i]
      BY JoinedHalves DEF TypeOK
    <3> QED
      BY <3>1, <3>2 DEF DataRegister
  <2> QED
    BY <1>1, <2>2, <2>3, <2>4, <2>5 DEF InputChanges
<1>2. CASE Process_Reset
  BY <1>2, ResetStep DEF DataRegister, Padded, Zeros
<1>3. CASE Clock
  BY <1>3, ClockStep DEF DataRegister, Padded, Zeros
<1>4. CASE UNCHANGED vars
  BY <1>4 DEF vars, inputs, history, DataRegister, Padded, Zeros
<1> QED
  BY <1>1, <1>2, <1>3, <1>4 DEF Next, InputChanges

LEMMA DataLatchStep ==
  ASSUME TypeOK, DataRegister, DataLatchFollows, [Next]_vars
  PROVE  DataLatchFollows'
<1> SUFFICES ASSUME Mode' = 1,
                    \/ build' = "synthesised"
                    \/ loads' # << >> /\ target'[2] # Finder!Nul
             PROVE  User_Data' = Register_Zero'[1]
  BY DEF DataLatchFollows, Finder!Nul
<1>1. CASE InputChanges
  <2>1. /\ build' = build
        /\ User_Data' = IF Runs(Register_Zero) THEN Register_Zero'[1] ELSE User_Data
    BY <1>1, InputType, SettleStep DEF Process_Data
  <2>2. CASE build = "synthesised" \/ Register_Zero' # Register_Zero
    BY <2>1, <2>2 DEF Runs
  <2>3. CASE ~ (build = "synthesised" \/ Register_Zero' # Register_Zero)
    <3>1. /\ Register_Zero' = Register_Zero /\ User_Data' = User_Data
          /\ loads' # << >> /\ target'[2] # Finder!Nul
      BY <2>1, <2>3 DEF Runs
    <3>2. ASSUME NEW h \in Seconds, LoadSecond(h)
          PROVE  User_Data = Register_Zero[1]
      <4>1. Mode = 1 /\ loads # << >> /\ target[2] # Finder!Nul
        BY <3>1, <3>2 DEF LoadSecond
      <4> QED
        BY <4>1 DEF DataLatchFollows
    <3>3. ASSUME NEW b \in Items, LoadData(b)
          PROVE  User_Data = Register_Zero[1]
      <4>1. Mode = 1 /\ Register_Zero = Padded(b) /\ target[2] # Finder!Nul
            /\ b \in Byte
        BY <3>1, <3>3, ControllerAssumption DEF LoadData
      <4>2. Register_Zero[2] = Finder!Nul /\ 2 \in 1 .. Half
        BY <4>1, PaddedType, ControllerAssumption
      <4>3. loads # << >>
        BY <4>1, <4>2 DEF DataRegister
      <4> QED
        BY <4>1, <4>3 DEF DataLatchFollows
    <3>4. ~ SwitchMode
      BY <3>1 DEF SwitchMode
    <3>5. \A h \in Firsts : ~ LoadFirst(h)
      BY DEF LoadFirst
    <3> QED
      BY <1>1, <3>1, <3>2, <3>3, <3>4, <3>5 DEF InputChanges
  <2> QED
    BY <2>2, <2>3
<1>2. CASE Process_Reset
  BY <1>2, ResetStep DEF DataLatchFollows
<1>3. CASE Clock
  BY <1>3, ClockStep DEF DataLatchFollows
<1>4. CASE UNCHANGED vars
  BY <1>4 DEF vars, inputs, history, DataLatchFollows
<1> QED
  BY <1>1, <1>2, <1>3, <1>4 DEF Next, InputChanges

(***************************************************************************)
(* What the finder has sampled.                                            *)
(***************************************************************************)
LEMMA SamplesFollowStep ==
  ASSUME IInv, TypeOK', [Next]_vars
  PROVE  SamplesFollow'
<1> SUFFICES ASSUME Session', loads' # << >>
             PROVE  /\ loadedAt' <= Len(seen')
                    /\ \A i \in loadedAt' + 1 .. Len(seen') : seen'[i] = User_Data'
                    /\ phase' = "stable" => loadedAt' < Len(seen')
                    /\ /\ Len(loads') >= 2
                       /\ build' = "synthesised" \/ target'[2] # Finder!Nul
                       => /\ loadedAt' >= 1
                          /\ seen'[loadedAt'] = loads'[Len(loads') - 1]
  BY DEF SamplesFollow, Finder!Nul
<1>0. /\ TypeOK /\ ResetFollows /\ SessionStarts /\ SamplesFollow
      /\ DataRegister /\ DataLatchFollows
      /\ seen \in Seq(Byte) /\ Len(seen) \in Nat
      /\ loads \in Seq(Byte) /\ Len(loads) \in Nat /\ loadedAt \in Nat
  BY ControllerAssumption DEF IInv, TypeOK, Finder!TypeOK
<1>1. CASE InputChanges
  <2>1. InputEffect
    BY <1>0, <1>1, InputType
  <2>2. /\ Mode' = 1 /\ UNCHANGED finder /\ phase' = "delta" /\ build' = build
        /\ seen' = seen
    BY <1>0, <2>1, SettleStep DEF Session, finder
  <2>3. PICK b \in Items : LoadData(b)
    <3>1. ~ SwitchMode
      BY DEF SwitchMode
    <3>2. \A h \in Firsts : ~ LoadFirst(h)
      BY <2>2 DEF LoadFirst
    <3>3. \A h \in Seconds : ~ LoadSecond(h)
      BY <2>2 DEF LoadSecond, Session
    <3> QED
      BY <1>1, <3>1, <3>2, <3>3 DEF InputChanges
  <2>4. /\ UNCHANGED <<steps, changed, target>> /\ EdgePossible /\ MayChange
        /\ Mode = 1 /\ loads' = Append(loads, b) /\ loadedAt' = Len(seen)
    BY <2>3 DEF LoadData
  <2>5. Session /\ phase = "stable"
    BY <2>2, <2>4, LoadAfterClock DEF Session
  <2>6. Len(loads') = Len(loads) + 1
        /\ \A i \in 1 .. Len(loads) : loads'[i] = loads[i]
    BY <1>0, <2>4, ControllerAssumption
  <2>7. ASSUME Len(loads') >= 2,
               build' = "synthesised" \/ target'[2] # Finder!Nul
        PROVE  /\ Len(seen) >= 1
               /\ seen[Len(seen)] = loads'[Len(loads') - 1]
    <3>1. loads # << >> /\ Len(loads) >= 1
      BY <1>0, <2>6, <2>7
    <3>2. User_Data = Register_Zero[1]
      BY <1>0, <2>2, <2>4, <2>7, <3>1 DEF DataLatchFollows
    <3>3. Register_Zero = Padded(loads[Len(loads)]) /\ loads[Len(loads)] \in Byte
      BY <1>0, <2>4, <3>1 DEF DataRegister
    <3>4. User_Data = loads[Len(loads)]
      BY <3>2, <3>3, PaddedType
    <3>5. loadedAt < Len(seen)
          /\ \A i \in loadedAt + 1 .. Len(seen) : seen[i] = User_Data
      BY <1>0, <2>5, <3>1 DEF SamplesFollow
    <3>6. Len(seen) >= 1 /\ Len(seen) \in loadedAt + 1 .. Len(seen)
      BY <1>0, <3>5
    <3>7. Len(loads') - 1 = Len(loads) /\ Len(loads) \in 1 .. Len(loads)
      BY <1>0, <2>6, <3>1
    <3>8. loads'[Len(loads') - 1] = loads[Len(loads)]
      BY <2>6, <3>7
    <3> QED
      BY <3>4, <3>5, <3>6, <3>8
  <2>8. loadedAt' <= Len(seen') /\ \A i \in loadedAt' + 1 .. Len(seen') : FALSE
    BY <1>0, <2>2, <2>4
  <2> QED
    BY <2>2, <2>4, <2>7, <2>8
<1>2. CASE Process_Reset
  <2>1. /\ Session /\ phase' = "edge"
        /\ UNCHANGED <<seen, User_Data, loads, loadedAt, build, target>>
    BY <1>2, ResetStep DEF Session
  <2> QED
    BY <1>0, <2>1 DEF SamplesFollow
<1>3. CASE Clock
  <2>1. /\ Session /\ phase # "delta"
        /\ UNCHANGED <<User_Data, loads, loadedAt, build, target, Mode>>
    BY <1>3, ClockStep DEF Session
  <2>2. ~ Reset
    BY <1>0, <2>1 DEF ResetFollows, Wanted, Session
  <2>3. seen' = Append(seen, User_Data)
    BY <1>0, <1>3, <2>1, <2>2, ClockStep DEF SessionStarts
  <2>4. User_Data \in Byte
    BY <1>0 DEF TypeOK
  <2>5. /\ Len(seen') = Len(seen) + 1 /\ seen'[Len(seen) + 1] = User_Data
        /\ \A i \in 1 .. Len(seen) : seen'[i] = seen[i]
    BY <1>0, <2>3, <2>4
  <2>6. /\ loadedAt <= Len(seen)
        /\ \A i \in loadedAt + 1 .. Len(seen) : seen[i] = User_Data
        /\ /\ Len(loads) >= 2
           /\ build = "synthesised" \/ target[2] # Finder!Nul
           => loadedAt >= 1 /\ seen[loadedAt] = loads[Len(loads) - 1]
    BY <1>0, <2>1 DEF SamplesFollow
  <2>7. ASSUME NEW i \in loadedAt + 1 .. Len(seen) + 1
        PROVE  seen'[i] = User_Data
    <3>1. CASE i = Len(seen) + 1
      BY <2>5, <3>1
    <3>2. CASE i # Len(seen) + 1
      <4>1. i \in loadedAt + 1 .. Len(seen) /\ i \in 1 .. Len(seen)
        BY <1>0, <3>2
      <4> QED
        BY <2>5, <2>6, <4>1
    <3> QED
      BY <3>1, <3>2
  <2>8. loadedAt >= 1 => seen'[loadedAt] = seen[loadedAt]
    <3>1. loadedAt >= 1 => loadedAt \in 1 .. Len(seen)
      BY <1>0, <2>6
    <3> QED
      BY <2>5, <3>1
  <2>9. loadedAt' <= Len(seen') /\ loadedAt' < Len(seen')
    BY <1>0, <2>1, <2>5, <2>6
  <2> QED
    BY <2>1, <2>5, <2>6, <2>7, <2>8, <2>9
<1>4. CASE UNCHANGED vars
  <2>1. /\ Session
        /\ UNCHANGED <<phase, seen, User_Data, loads, loadedAt, build, target>>
    BY <1>4 DEF vars, inputs, finder, history, Session
  <2> QED
    BY <1>0, <2>1 DEF SamplesFollow
<1> QED
  BY <1>1, <1>2, <1>3, <1>4 DEF Next, InputChanges

LEMMA OwnByteFirstStep ==
  ASSUME IInv, TypeOK', [Next]_vars
  PROVE  OwnByteFirst'
<1> SUFFICES ASSUME Session', build' = "synthesised", seen' # << >>
             PROVE  seen'[1] = target'[1]
  BY DEF OwnByteFirst
<1>0. /\ TypeOK /\ ResetFollows /\ LatchesOpen /\ LoadsSeen /\ SessionStarts
      /\ DataRegister /\ DataLatchFollows /\ OwnByteFirst /\ Proofs!IInv
      /\ seen \in Seq(Byte) /\ User_Data \in Byte
  BY DEF IInv, TypeOK, Finder!TypeOK
<1>1. CASE InputChanges
  <2>1. InputEffect
    BY <1>0, <1>1, InputType
  <2>2. Mode' = 1 /\ seen' = seen /\ build' = build
    BY <1>0, <2>1, SettleStep DEF Session, finder
  <2>3. CASE Mode = 0
    <3>1. SwitchMode
      BY <1>1, <2>2, <2>3 DEF InputChanges, LoadFirst, LoadSecond, LoadData
    <3>2. steps = "both" /\ MayChange
      BY <2>1, <2>3, <3>1 DEF SwitchMode, Session, InputEffect
    <3>3. seen = << >>
      BY <1>0, <2>2, <2>3, <3>2, SwitchUnderReset
    <3> QED
      BY <2>2, <3>3
  <2>4. CASE Mode # 0
    <3>1. PICK b \in Items : LoadData(b)
      BY <1>0, <1>1, <2>2, <2>4 DEF InputChanges, LoadFirst, LoadSecond, SwitchMode,
         Session, TypeOK
    <3>2. Session /\ target' = target
      BY <2>2, <3>1 DEF LoadData, Session
    <3> QED
      BY <1>0, <2>2, <3>2 DEF OwnByteFirst
  <2> QED
    BY <2>3, <2>4
<1>2. CASE Process_Reset
  <2>1. Session /\ UNCHANGED <<seen, target, build>>
    BY <1>2, ResetStep DEF Session
  <2> QED
    BY <1>0, <2>1 DEF OwnByteFirst
<1>3. CASE Clock
  <2>1. /\ Session /\ phase # "delta" /\ UNCHANGED <<build, target, Mode>>
    BY <1>3, ClockStep DEF Session
  <2>2. ~ Reset
    BY <1>0, <2>1 DEF ResetFollows, Wanted, Session
  <2>3. seen' = Append(seen, User_Data)
    BY <1>0, <1>3, <2>1, <2>2, ClockStep DEF SessionStarts
  <2>4. CASE seen = << >>
    <3>1. loads = << >>
      BY <1>0, <2>1, <2>4 DEF SessionStarts
    <3>2. 1 \in 1 .. Half
      BY ControllerAssumption
    <3>3. User_Data = target[1]
      BY <1>0, <2>1, <3>1, <3>2 DEF DataRegister, DataLatchFollows, Session
    <3>4. seen'[1] = User_Data
      BY <1>0, <2>3, <2>4
    <3> QED
      BY <2>1, <3>3, <3>4
  <2>5. CASE seen # << >>
    <3>1. seen'[1] = seen[1]
      BY <1>0, <2>3, <2>5
    <3> QED
      BY <1>0, <2>1, <2>5, <3>1 DEF OwnByteFirst
  <2> QED
    BY <2>4, <2>5
<1>4. CASE UNCHANGED vars
  <2>1. Session /\ UNCHANGED <<seen, target, build>>
    BY <1>4 DEF vars, inputs, finder, history, Session
  <2> QED
    BY <1>0, <2>1 DEF OwnByteFirst
<1> QED
  BY <1>1, <1>2, <1>3, <1>4 DEF Next, InputChanges

(***************************************************************************)
(* The inductive invariant holds in every reachable state.                 *)
(***************************************************************************)
LEMMA IInvInit == Init => IInv
<1> SUFFICES ASSUME Init
             PROVE  IInv
  OBVIOUS
<1>1. TypeOK /\ Proofs!IInv
  BY TypeInit, FinderInitInv
<1>2. ResetFollows /\ LoadsSeen /\ SessionStarts /\ SamplesFollow /\ OwnByteFirst
  BY DEF Init, Finder!Init, ResetFollows, LoadsSeen, SessionStarts, SamplesFollow,
     OwnByteFirst, Session
<1>3. LatchesOpen
  BY DEF Init, LatchesOpen
<1>4. Zeros \in [1 .. Half -> Byte] /\ Zeros[1] = Finder!Nul
  BY ControllerAssumption DEF Zeros
<1>5. DataRegister
  BY <1>4, JoinedHalves DEF Init, DataRegister
<1>6. DataLatchFollows
  BY <1>4 DEF Init, DataLatchFollows
<1> QED
  BY <1>1, <1>2, <1>3, <1>5, <1>6 DEF IInv

LEMMA IInvStep == IInv /\ [Next]_vars => IInv'
<1> SUFFICES ASSUME IInv, [Next]_vars
             PROVE  IInv'
  OBVIOUS
<1>1. TypeOK' /\ Proofs!IInv'
  BY TypeStep, FinderStep DEF IInv
<1>2. ResetFollows' /\ LatchesOpen' /\ LoadsSeen'
  BY ResetFollowsStep, LatchesOpenStep, LoadsSeenStep DEF IInv
<1>3. DataRegister' /\ DataLatchFollows'
  BY DataRegisterStep, DataLatchStep DEF IInv
<1>4. SessionStarts' /\ SamplesFollow' /\ OwnByteFirst'
  BY <1>1, SessionStartsStep, SamplesFollowStep, OwnByteFirstStep
<1> QED
  BY <1>1, <1>2, <1>3, <1>4 DEF IInv

LEMMA IInvHolds == Spec => []IInv
BY IInvInit, IInvStep, PTL DEF Spec

(***************************************************************************)
(* The target the finder works with is the target in the registers when    *)
(* the switch went to data mode, for a user who obeyed the instructions,   *)
(* whatever was in the latches before and in both meanings of the text.    *)
(***************************************************************************)
THEOREM ControllerTargetTaken == Spec => []TargetTaken
<1>1. IInv => TargetTaken
  BY DEF IInv, SessionStarts, Session, Obeyed, TargetTaken
<1> QED
  BY <1>1, IInvHolds, PTL

-----------------------------------------------------------------------------
(***************************************************************************)
(* What the finder reports of the data the controller gives it.            *)
(***************************************************************************)
LEMMA LengthOfTarget ==
  ASSUME NEW t \in Sequences64
  PROVE  /\ Finder!Length(t) = Proofs!Length(t)
         /\ Finder!Length(t) \in 0 .. Width
         /\ \A i \in 1 .. Finder!Length(t) : t[i] # Finder!Nul
<1>1. Finder!Length(t) = Proofs!Length(t)
  BY DEF Finder!Length, Proofs!Length, Finder!Nul, Proofs!Nul
<1>2. /\ Proofs!Length(t) \in 0 .. Width
      /\ \A i \in 1 .. Proofs!Length(t) : t[i] # Proofs!Nul
  BY FinderConstants, Proofs!LengthExists DEF Sequences64
<1> QED
  BY <1>1, <1>2 DEF Finder!Nul, Proofs!Nul

\* A target of one or two bytes is restartable.
LEMMA ShortOccurrenceFound ==
  ASSUME IInv, Proofs!FoundIsComplete, valid, User_Sequence = target,
         Finder!Length(target) \in {1, 2},
         NEW e \in 0 .. Len(seen) - 2, Finder!Length(target) <= e,
         \A i \in 1 .. Finder!Length(target) :
           seen[e - Finder!Length(target) + i] = target[i]
  PROVE  Sequence_Found
<1>1. PICK w : w = Finder!Length(target)
  OBVIOUS
<1>2. target \in Sequences64 /\ Len(seen) \in Nat
  BY DEF IInv, TypeOK, Finder!TypeOK
<1>3. Proofs!Length(User_Sequence) = w
  BY <1>1, <1>2, LengthOfTarget
<1>4. \A k \in 1 .. w - 1 : \A j \in 2 .. k : FALSE
  BY <1>1
<1>5. Proofs!Restartable(User_Sequence)
  BY <1>3, <1>4 DEF Proofs!Restartable
<1>6. Proofs!EndsAt(User_Sequence, e)
  BY <1>1, <1>3 DEF Proofs!EndsAt
<1>7. Proofs!Detected(Len(seen) - 2)
  BY <1>6 DEF Proofs!Detected
<1>8. Len(seen) >= 2
  BY <1>2
<1> QED
  BY <1>5, <1>7, <1>8 DEF Proofs!FoundIsComplete

(***************************************************************************)
(* In the synthesised design the first data byte is the target's own first *)
(* byte, and a target of one byte is found with no data.                   *)
(***************************************************************************)
THEOREM ControllerOwnByteIsData == Spec => []OwnByteIsData
<1>1. IInv /\ Proofs!FoundIsComplete => OwnByteIsData
  <2> SUFFICES ASSUME IInv, Proofs!FoundIsComplete,
                      Obeyed, build = "synthesised", seen # << >>
               PROVE  /\ seen[1] = target[1]
                      /\ Finder!Length(target) = 1 /\ Len(seen) >= 3 => Sequence_Found
    BY DEF OwnByteIsData
  <2>1. Session
    BY DEF Obeyed, Session
  <2>2. seen[1] = target[1] /\ valid /\ User_Sequence = target
    BY <2>1 DEF IInv, OwnByteFirst, SessionStarts
  <2>3. ASSUME Finder!Length(target) = 1, Len(seen) >= 3
        PROVE  Sequence_Found
    <3>1. Len(seen) \in Nat
      BY DEF IInv, TypeOK, Finder!TypeOK
    <3>2. 1 \in 0 .. Len(seen) - 2
      BY <2>3, <3>1
    <3>3. \A i \in 1 .. Finder!Length(target) :
            seen[1 - Finder!Length(target) + i] = target[i]
      BY <2>2, <2>3
    <3> QED
      BY <2>2, <2>3, <3>2, <3>3, ShortOccurrenceFound
  <2> QED
    BY <2>2, <2>3
<1>2. Spec => []Proofs!FoundIsComplete
  BY FinderRuns, FinderConstants, Proofs!FinderFoundIsComplete, PTL
<1> QED
  BY <1>1, <1>2, IInvHolds, PTL

(***************************************************************************)
(* A target of two different bytes is found at the third clock after its   *)
(* last byte was loaded, however long each byte stayed in the register.    *)
(***************************************************************************)
THEOREM ControllerShortTargetFound == Spec => []ShortTargetFound
<1>1. IInv /\ Proofs!FoundIsComplete => ShortTargetFound
  <2> SUFFICES ASSUME IInv, Proofs!FoundIsComplete, Obeyed,
                      Finder!Length(target) = 2, Len(loads) >= 2,
                      loads[Len(loads) - 1] = target[1],
                      loads[Len(loads)] = target[2],
                      Len(seen) >= loadedAt + 3
               PROVE  Sequence_Found
    BY DEF ShortTargetFound
  <2>1. /\ Session /\ Mode = 1
        /\ loadedAt \in Nat /\ Len(seen) \in Nat
        /\ loads \in Seq(Byte) /\ Len(loads) \in Nat /\ loads # << >>
        /\ target \in Sequences64
    BY ControllerAssumption DEF Obeyed, Session, IInv, TypeOK, Finder!TypeOK
  <2>2. valid /\ User_Sequence = target
    BY <2>1 DEF IInv, SessionStarts
  <2>3. target[2] # Finder!Nul
    BY <2>1, LengthOfTarget
  <2>4. loads[Len(loads)] \in Byte
    BY <2>1
  <2>5. User_Data = loads[Len(loads)]
    BY <2>1, <2>3, <2>4, PaddedType DEF IInv, DataRegister, DataLatchFollows
  <2>6. /\ \A i \in loadedAt + 1 .. Len(seen) : seen[i] = User_Data
        /\ loadedAt >= 1 /\ seen[loadedAt] = loads[Len(loads) - 1]
    BY <2>1, <2>3 DEF IInv, SamplesFollow
  <2>7. loadedAt + 1 \in loadedAt + 1 .. Len(seen)
    BY <2>1
  <2>8. seen[loadedAt] = target[1] /\ seen[loadedAt + 1] = target[2]
    BY <2>5, <2>6, <2>7
  <2>9. loadedAt + 1 \in 0 .. Len(seen) - 2 /\ 2 <= loadedAt + 1
    BY <2>1, <2>6
  <2>10. PICK e : e = loadedAt + 1
    OBVIOUS
  <2>11. \A i \in 1 .. 2 : seen[e - 2 + i] = target[i]
    <3>1. e - 2 + 1 = loadedAt /\ e - 2 + 2 = loadedAt + 1
      BY <2>1, <2>10
    <3>2. \A i \in 1 .. 2 : i = 1 \/ i = 2
      OBVIOUS
    <3> QED
      BY <2>8, <3>1, <3>2
  <2>12. /\ Finder!Length(target) \in {1, 2}
         /\ e \in 0 .. Len(seen) - 2 /\ Finder!Length(target) <= e
         /\ \A i \in 1 .. Finder!Length(target) :
              seen[e - Finder!Length(target) + i] = target[i]
    <3>1. \A i \in 1 .. 2 : seen[e - 2 + i] = target[i]
      BY <2>11
    <3>2. e \in 0 .. Len(seen) - 2 /\ 2 <= e
      BY <2>9, <2>10
    <3>3. PICK w : w = Finder!Length(target)
      OBVIOUS
    <3>4. w = 2
      BY <3>3
    <3> QED
      BY <3>1, <3>2, <3>3, <3>4
  <2> QED
    BY <2>2, <2>12, ShortOccurrenceFound
<1>2. Spec => []Proofs!FoundIsComplete
  BY FinderRuns, FinderConstants, Proofs!FinderFoundIsComplete, PTL
<1> QED
  BY <1>1, <1>2, IInvHolds, PTL

(***************************************************************************)
(* Data bytes that each stay for two clocks never show a target of three   *)
(* or more bytes none of which is doubled: its middle byte would have an   *)
(* equal neighbour.                                                        *)
(***************************************************************************)
THEOREM ControllerLongTargetNeedsEveryClock == Spec => []LongTargetNeedsEveryClock
<1>1. IInv /\ Proofs!FoundIsSound => LongTargetNeedsEveryClock
  <2> SUFFICES ASSUME IInv, Proofs!FoundIsSound, Obeyed,
                      Finder!Length(target) >= 3,
                      \A i \in 1 .. Finder!Length(target) - 1 : target[i] # target[i + 1],
                      Len(seen) >= 2, HeldTwice, Sequence_Found
               PROVE  FALSE
    BY DEF LongTargetNeedsEveryClock
  <2>1. Session /\ target \in Sequences64 /\ Len(seen) \in Nat
    BY DEF Obeyed, Session, IInv, TypeOK, Finder!TypeOK
  <2>2. valid /\ User_Sequence = target
    BY <2>1 DEF IInv, SessionStarts
  <2>3. PICK w : w = Finder!Length(target)
    OBVIOUS
  <2>4. w \in Nat /\ Proofs!Length(target) = w
    BY <2>1, <2>3, LengthOfTarget, FinderConstants DEF Proofs!FinderAssumption
  <2>5. PICK e \in 0 .. Len(seen) - 2 : Proofs!EndsAt(User_Sequence, e)
    BY <2>2 DEF Proofs!FoundIsSound, Proofs!Detected
  <2>6. w <= e /\ \A i \in 1 .. w : seen[e - w + i] = target[i]
    BY <2>2, <2>4, <2>5 DEF Proofs!EndsAt
  <2>7. /\ w >= 3
        /\ target[1] # target[2] /\ target[2] # target[3]
    <3>1. w >= 3 /\ 1 \in 1 .. w - 1 /\ 2 \in 1 .. w - 1
      BY <2>3, <2>4
    <3>2. \A i \in 1 .. w - 1 : target[i] # target[i + 1]
      BY <2>3
    <3> QED
      BY <3>1, <3>2
  <2>8. /\ seen[e - w + 1] = target[1]
        /\ seen[e - w + 2] = target[2]
        /\ seen[e - w + 3] = target[3]
    BY <2>4, <2>6, <2>7
  <2>9. PICK m : m = e - w + 2
    OBVIOUS
  <2>10. /\ m \in 1 .. Len(seen) - 1
         /\ m - 1 = e - w + 1 /\ m + 1 = e - w + 3
    BY <2>1, <2>4, <2>5, <2>6, <2>7, <2>9
  <2>11. seen[m] = seen[m + 1] \/ seen[m - 1] = seen[m]
    BY <2>10 DEF HeldTwice
  <2> QED
    BY <2>7, <2>8, <2>9, <2>10, <2>11
<1>2. Spec => []Proofs!FoundIsSound
  BY FinderRuns, FinderConstants, Proofs!FinderFoundIsSound, PTL
<1> QED
  BY <1>1, <1>2, IInvHolds, PTL

=============================================================================
