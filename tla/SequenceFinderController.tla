---------------------- MODULE SequenceFinderController ----------------------
(***************************************************************************)
(* SequenceFinderController.vhd around SequenceFinder.vhd: two processor   *)
(* registers and a hand switch feed the finder.  With Mode = 0 the two     *)
(* registers are the halves of the target, with Mode = 1 the leading byte  *)
(* of Register_Zero is the data byte.                                      *)
(*                                                                         *)
(* None of the three processes is clocked, and two of them leave Mode out  *)
(* of their sensitivity lists.  The text therefore has two meanings:       *)
(* "simulated", where a process runs when a signal of its list changes,    *)
(* and "synthesised", where the assignments are transparent latches open   *)
(* for one value of Mode.  The variable build is one or the other.         *)
(*                                                                         *)
(* The finder is SequenceFinder itself: each step here that the finder     *)
(* sees is one of its actions.  The first two processes run in one step    *)
(* (Settle) and the reset process in the next (Process_Reset), as in two   *)
(* delta cycles.  The registers belong to the clock's domain and the       *)
(* switch is slower, so at most one input changes between two edges.       *)
(***************************************************************************)
EXTENDS Integers, Sequences

CONSTANTS
  Byte, Width, MaxData, \* of the finder
  Firsts, Seconds,      \* bound: the halves of targets the user loads
  Items,                \* bound: the data bytes the user loads
  MaxLoads              \* bound: data bytes loaded in one period of Mode 1

VARIABLES
  build,
  Register_Zero, Register_One, Mode,
  User_Data, Trigger,
  phase,     \* "stable", "delta" (Reset may lag) or "edge" (input changed)
  Reset, User_Sequence, Sequence, Previous_Data, Mismatch_Occurred,
  End_Of_Sequence, Sequence_Found, valid, seen,
  steps,     \* history: instructions obeyed: "none", "zero", "both", "bad"
  changed,   \* history: each of these loads changed its register
  target,    \* history: the registers when Mode last became 1
  loads,     \* history: the data bytes loaded since Mode became 1
  loadedAt   \* history: the bytes sampled when the last of them was loaded

Half == Width \div 2
Sequences64 == [1 .. Width -> Byte]

Finder == INSTANCE SequenceFinder WITH Targets <- Sequences64

\* A register holds four bytes in the code.  With one byte the first data byte
\* could leave the register as it was, and a simulator would not see it.
ASSUME ControllerAssumption ==
  /\ Half \in Nat /\ Half >= 2 /\ Width = 2 * Half
  /\ Finder!Nul \in Byte
  /\ MaxData \in Nat
  /\ Firsts \cup Seconds \subseteq [1 .. Half -> Byte]
  /\ Items \subseteq Byte
  /\ MaxLoads \in Nat

finder == <<Reset, User_Sequence, Sequence, Previous_Data, Mismatch_Occurred,
            End_Of_Sequence, Sequence_Found, valid, seen>>
inputs == <<Register_Zero, Register_One, Mode>>
history == <<steps, changed, target, loads, loadedAt>>
vars == <<build, inputs, User_Data, Trigger, phase, finder, history>>

TypeOK ==
  /\ build \in {"simulated", "synthesised"}
  /\ Register_Zero \in [1 .. Half -> Byte]
  /\ Register_One \in [1 .. Half -> Byte]
  /\ Mode \in {0, 1}
  /\ User_Data \in Byte
  /\ Trigger \in BOOLEAN
  /\ phase \in {"stable", "delta", "edge"}
  /\ Finder!TypeOK
  /\ steps \in {"none", "zero", "both", "bad"}
  /\ changed \in BOOLEAN
  /\ target \in Sequences64
  /\ loads \in Seq(Byte)
  /\ loadedAt \in 0 .. MaxData

-----------------------------------------------------------------------------

Zeros == [i \in 1 .. Half |-> Finder!Nul]

\* "Fill the remaining 24 bits with zeros" (instruction 5).
Padded(b) == [Zeros EXCEPT ![1] = b]

Joined(first, second) ==
  [i \in 1 .. Width |-> IF i <= Half THEN first[i] ELSE second[i - Half]]

\* A process runs: the simulator waits for an event on its list, a latch
\* follows its inputs.
Runs(signal) == build = "synthesised" \/ signal' # signal

\* Slips: the data byte is taken from the other end of the register; the process
\* waits for an event in the synthesised design too.
DataFromTheRight ==
  User_Data' = IF Mode' = 1 /\ Runs(Register_Zero)
                 THEN Register_Zero'[Half] ELSE User_Data

DataAsSimulated ==
  User_Data' = IF Mode' = 1 /\ Register_Zero' # Register_Zero
                 THEN Register_Zero'[1] ELSE User_Data

\* The latch SFC_User_Data.
Process_Data ==
  User_Data' = IF Mode' = 1 /\ Runs(Register_Zero)
                 THEN Register_Zero'[1] ELSE User_Data

\* A slip: the first half is also taken in data mode.
SequenceInAnyMode ==
  LET first  == IF Runs(Register_Zero)
                  THEN Register_Zero' ELSE SubSeq(User_Sequence, 1, Half)
      second == IF Mode' = 0 /\ Runs(Register_One)
                  THEN Register_One' ELSE SubSeq(User_Sequence, Half + 1, Width)
      t == Joined(first, second)
  IN  IF t # User_Sequence THEN Finder!ProvideSequence(t) ELSE UNCHANGED finder

\* The latch SFC_User_Sequence, whose halves two processes drive.
Process_Sequence ==
  LET first  == IF Mode' = 0 /\ Runs(Register_Zero)
                  THEN Register_Zero' ELSE SubSeq(User_Sequence, 1, Half)
      second == IF Mode' = 0 /\ Runs(Register_One)
                  THEN Register_One' ELSE SubSeq(User_Sequence, Half + 1, Width)
      t == Joined(first, second)
  IN  IF t # User_Sequence THEN Finder!ProvideSequence(t) ELSE UNCHANGED finder

Process_Trigger ==
  Trigger' = IF Runs(Register_One) THEN Mode' = 0 ELSE Trigger

Wanted == Mode = 0 /\ Trigger

Process_Reset ==
  /\ phase = "delta"
  /\ phase' = "edge"
  /\ CASE Wanted /\ ~ Reset -> Finder!AssertReset
       [] ~ Wanted /\ Reset -> Finder!ReleaseReset
       [] OTHER             -> UNCHANGED finder
  /\ UNCHANGED <<build, inputs, User_Data, Trigger, history>>

Settle ==
  /\ phase' = "delta"
  /\ Process_Data
  /\ Process_Sequence
  /\ Process_Trigger
  /\ UNCHANGED build

\* The edge is within the finder's bound on data.
EdgePossible == Reset \/ Len(seen) < MaxData

\* An input may change: an edge has passed since the last change, or the
\* bound has stopped the clock.
MayChange == phase = "stable" \/ (phase = "edge" /\ ~ EdgePossible)

-----------------------------------------------------------------------------

\* Power-up: registers and flip-flops are zero, and every process has run once.
Init ==
  /\ build \in {"simulated", "synthesised"}
  /\ Mode \in {0, 1}
  /\ Register_Zero = Zeros
  /\ Register_One = Zeros
  /\ User_Data = Finder!Nul
  /\ Trigger = (Mode = 0)
  /\ phase = "delta"
  /\ Finder!Init
  /\ User_Sequence = Joined(Zeros, Zeros)
  /\ steps = "none"
  /\ changed = TRUE
  /\ target = Joined(Zeros, Zeros)
  /\ loads = << >>
  /\ loadedAt = 0

\* Instruction 3, first part.
LoadFirst(h) ==
  /\ MayChange
  /\ Mode = 0
  /\ Register_Zero' = h
  /\ UNCHANGED <<Register_One, Mode, target, loads, loadedAt>>
  /\ steps' = IF steps = "bad" THEN "bad" ELSE "zero"
  /\ changed' = (h # Register_Zero)
  /\ Settle

\* Instruction 3, second part; in data mode this is a mistake of the user.
LoadSecond(h) ==
  /\ MayChange
  /\ Register_One' = h
  /\ UNCHANGED <<Register_Zero, Mode, target, loads, loadedAt>>
  /\ steps' = IF Mode = 0 /\ steps \in {"zero", "both"} THEN "both" ELSE "bad"
  /\ changed' = (changed /\ h # Register_One)
  /\ Settle

\* Instruction 5.
LoadData(b) ==
  /\ MayChange
  /\ Mode = 1
  /\ Len(loads) < MaxLoads /\ EdgePossible
  /\ Register_Zero' = Padded(b)
  /\ loads' = Append(loads, b)
  /\ loadedAt' = Len(seen)
  /\ UNCHANGED <<Register_One, Mode, steps, changed, target>>
  /\ Settle

\* Instruction 4, and back to instruction 2.
SwitchMode ==
  /\ MayChange
  /\ Mode' = 1 - Mode
  /\ UNCHANGED <<Register_Zero, Register_One>>
  /\ steps' = IF Mode = 1 THEN "none" ELSE steps
  /\ changed' = IF Mode = 1 THEN TRUE ELSE changed
  /\ target' = IF Mode = 0 THEN Joined(Register_Zero, Register_One) ELSE target
  /\ loads' = << >>
  /\ loadedAt' = 0
  /\ Settle

\* A rising edge of SFC_clk.
Clock ==
  /\ phase \in {"stable", "edge"}
  /\ IF Reset THEN Finder!ResetEdge ELSE Finder!RisingEdge(User_Data)
  /\ phase' = "stable"
  /\ UNCHANGED <<build, inputs, User_Data, Trigger, history>>

Next ==
  \/ \E h \in Firsts : LoadFirst(h)
  \/ \E h \in Seconds : LoadSecond(h)
  \/ \E b \in Items : LoadData(b)
  \/ SwitchMode
  \/ Process_Reset
  \/ Clock

Spec == Init /\ [][Next]_vars

-----------------------------------------------------------------------------
(***************************************************************************)
(* Properties.                                                             *)
(***************************************************************************)

\* The user obeyed instructions 2 to 4 and is in data mode.  A simulator
\* does not see a load that leaves the register as it was.
Obeyed ==
  /\ Mode = 1 /\ steps = "both" /\ phase # "delta"
  /\ build = "synthesised" \/ changed

(***************************************************************************)
(* A user who obeys the instructions has the finder reset with the target  *)
(* that was in the registers when the switch was thrown, whatever the      *)
(* sessions before left in the latches and in the trigger.                 *)
(***************************************************************************)
TargetTaken == Obeyed => valid /\ User_Sequence = target

(***************************************************************************)
(* A target of two different bytes is found however many clocks each data  *)
(* byte stays in the register, two clocks after its last byte was sampled, *)
(* which is three clocks after it was loaded.                              *)
(***************************************************************************)
ShortTargetFound ==
  LET n == Len(loads)
  IN  /\ Obeyed
      /\ Finder!Length(target) = 2 /\ target[1] # target[2]
      /\ n >= 2 /\ loads[n - 1] = target[1] /\ loads[n] = target[2]
      /\ Len(seen) >= loadedAt + 3
      => Sequence_Found

\* Each byte the finder sampled, the last one apart, was there for two clocks.
HeldTwice ==
  \A i \in 1 .. Len(seen) - 1 :
    \/ seen[i] = seen[i + 1]
    \/ i > 1 /\ seen[i - 1] = seen[i]

(***************************************************************************)
(* The data register is sampled at every clock: a target of three or more  *)
(* bytes without a doubled byte is never found when each data byte stays   *)
(* for two clocks, whatever the user loads.                                *)
(***************************************************************************)
LongTargetNeedsEveryClock ==
  /\ Obeyed
  /\ Finder!Length(target) >= 3
  /\ \A i \in 1 .. Finder!Length(target) - 1 : target[i] # target[i + 1]
  /\ Len(seen) >= 2 /\ HeldTwice
  => ~ Sequence_Found

(***************************************************************************)
(* Throwing the switch opens the data latch while the first half of the    *)
(* target is still in Register_Zero: in the synthesised design the first   *)
(* data byte is the target's own first byte, and a target of one byte is   *)
(* reported two clocks later with no data loaded.                          *)
(***************************************************************************)
OwnByteIsData ==
  Obeyed /\ build = "synthesised" /\ seen # << >> =>
    /\ seen[1] = target[1]
    /\ Finder!Length(target) = 1 /\ Len(seen) >= 3 => Sequence_Found

=============================================================================
