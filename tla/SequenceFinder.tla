--------------------------- MODULE SequenceFinder ---------------------------
(***************************************************************************)
(* SequenceFinder.vhd: a matcher for one sequence, provided at run time in *)
(* a 64-bit register and terminated by a zero byte.  The register          *)
(* Sequence holds what is still to be matched, its first byte first, and   *)
(* is shifted by one byte per match; after a mismatch the finder remembers *)
(* a single byte (Previous_Data) and tries to restart from that byte and   *)
(* the next one together.                                                  *)
(*                                                                         *)
(* Four processes, sensitive to the clock and the reset, load their        *)
(* registers at the same edge from the values before it.  Reset is         *)
(* asynchronous; it loads Sequence and clears Mismatch_Occurred and        *)
(* Sequence_Found, but neither Previous_Data nor End_Of_Sequence, which    *)
(* three of the processes drive with the same value.                       *)
(*                                                                         *)
(* The ports are named without the prefix "SF" and its underscore, which   *)
(* TLA+ reads as strong fairness.                                          *)
(***************************************************************************)
EXTENDS Integers, Sequences

CONSTANTS
  Byte,     \* the values of a byte; 0 terminates a sequence
  Width,    \* the number of bytes in User_Sequence (8 in the code)
  Targets,  \* the sequences the user provides
  MaxData   \* bound: data bytes taken between two resets

Nul == 0

ASSUME FinderAssumption ==
  /\ Nul \in Byte
  /\ Width \in Nat /\ Width >= 2
  /\ Targets \subseteq [1 .. Width -> Byte]
  /\ MaxData \in Nat

VARIABLES
  Reset,
  User_Sequence,
  Sequence,
  Previous_Data,
  Mismatch_Occurred,
  End_Of_Sequence,
  Sequence_Found,  \* whether the output is 0x10000000 (else it is 0)
  valid,              \* history: the last new sequence has been loaded by a reset
  seen                \* history: the data bytes taken since that reset

registers == <<Sequence, Previous_Data, Mismatch_Occurred, End_Of_Sequence,
               Sequence_Found>>

vars == <<Reset, User_Sequence, registers, valid, seen>>

TypeOK ==
  /\ Reset \in BOOLEAN
  /\ User_Sequence \in Targets
  /\ Sequence \in [1 .. Width -> Byte]
  /\ Previous_Data \in Byte
  /\ Mismatch_Occurred \in BOOLEAN
  /\ End_Of_Sequence \in BOOLEAN
  /\ Sequence_Found \in BOOLEAN
  /\ valid \in BOOLEAN
  /\ seen \in Seq(Byte)

-----------------------------------------------------------------------------

\* A slip: no zeros are appended.
ShiftUnfilled(q, n) == [i \in 1 .. Width - n |-> q[i + n]]

\* q(63 - 8n downto 0) & zeros: drop n bytes at the front, fill with zeros.
Shift(q, n) == [i \in 1 .. Width |-> IF i + n <= Width THEN q[i + n] ELSE Nul]

\* The target has a single byte.
OneByte == User_Sequence[2] = Nul

\* A slip: only the second byte is compared.
RestartsOnSecond(b) ==
  IF OneByte THEN b = User_Sequence[1] ELSE b = User_Sequence[2]

\* The data byte b lets the finder leave the mismatch state.
Restarts(b) ==
  IF OneByte THEN b = User_Sequence[1]
             ELSE /\ Previous_Data = User_Sequence[1]
                  /\ b = User_Sequence[2]

\* Power-up: no register has an initial value in the code; the flip-flops of
\* the device start at 0.
Init ==
  /\ Reset = FALSE
  /\ User_Sequence \in Targets
  /\ Sequence = [i \in 1 .. Width |-> Nul]
  /\ Previous_Data = Nul
  /\ Mismatch_Occurred = FALSE
  /\ End_Of_Sequence = FALSE
  /\ Sequence_Found = FALSE
  /\ valid = FALSE
  /\ seen = << >>

\* The user provides a sequence, prior to the reset (instruction 1) or at the
\* latest while the reset is high.
ProvideSequence(t) ==
  /\ User_Sequence' = t
  /\ valid' = FALSE
  /\ seen' = << >>
  /\ UNCHANGED <<Reset, registers>>

\* Reset rises.
AssertReset ==
  /\ ~ Reset
  /\ Reset' = TRUE
  /\ Sequence' = User_Sequence
  /\ Mismatch_Occurred' = FALSE
  /\ Sequence_Found' = FALSE
  /\ valid' = TRUE
  /\ seen' = << >>
  /\ UNCHANGED <<User_Sequence, Previous_Data, End_Of_Sequence>>

\* The clock moves while the reset is high: Sequence follows its source.
ResetEdge ==
  /\ Reset
  /\ Sequence' = User_Sequence
  /\ valid' = TRUE
  /\ UNCHANGED <<Reset, User_Sequence, Previous_Data, Mismatch_Occurred,
                 End_Of_Sequence, Sequence_Found, seen>>

ReleaseReset ==
  /\ Reset
  /\ Reset' = FALSE
  /\ UNCHANGED <<User_Sequence, registers, valid, seen>>

\* Slips: the wrong byte is not remembered; the restart forgets that two
\* bytes have been matched.
AfterMismatchForgets(b) ==
  /\ Mismatch_Occurred
  /\ UNCHANGED <<End_Of_Sequence, Previous_Data>>
  /\ Mismatch_Occurred' = ~ Restarts(b)
  /\ Sequence' = IF ~ Restarts(b) THEN User_Sequence
                 ELSE IF OneByte THEN Shift(Sequence, 1)
                                 ELSE Shift(User_Sequence, 2)

AfterMismatchShiftsOnce(b) ==
  /\ Mismatch_Occurred
  /\ UNCHANGED End_Of_Sequence
  /\ Mismatch_Occurred' = ~ Restarts(b)
  /\ IF Restarts(b)
       THEN Sequence' = Shift(Sequence, 1) /\ UNCHANGED Previous_Data
       ELSE Sequence' = User_Sequence /\ Previous_Data' = b

\* The edge after a mismatch, with data byte b ("Special Case").
AfterMismatch(b) ==
  /\ Mismatch_Occurred
  /\ UNCHANGED End_Of_Sequence
  /\ IF Restarts(b)
       THEN /\ Mismatch_Occurred' = FALSE
            /\ Sequence' = IF OneByte THEN Shift(Sequence, 1)
                                      ELSE Shift(User_Sequence, 2)
            /\ UNCHANGED Previous_Data
       ELSE /\ Mismatch_Occurred' = TRUE
            /\ Sequence' = User_Sequence
            /\ Previous_Data' = b

\* A slip: the sequence is loaded again when it has been found.
AtEndReloads ==
  /\ ~ Mismatch_Occurred
  /\ Sequence[1] = Nul
  /\ End_Of_Sequence' = TRUE
  /\ Sequence' = User_Sequence
  /\ UNCHANGED <<Previous_Data, Mismatch_Occurred>>

\* Nothing left to match: the data byte is ignored.
AtEnd ==
  /\ ~ Mismatch_Occurred
  /\ Sequence[1] = Nul
  /\ End_Of_Sequence' = TRUE
  /\ UNCHANGED <<Sequence, Previous_Data, Mismatch_Occurred>>

\* The normal case: data byte b is compared with the next expected byte.
Compare(b) ==
  /\ ~ Mismatch_Occurred
  /\ Sequence[1] # Nul
  /\ End_Of_Sequence' = FALSE
  /\ IF b = Sequence[1]
       THEN /\ Mismatch_Occurred' = FALSE
            /\ Sequence' = Shift(Sequence, 1)
            /\ UNCHANGED Previous_Data
       ELSE /\ Mismatch_Occurred' = TRUE
            /\ Sequence' = User_Sequence
            /\ Previous_Data' = b

\* A rising edge with data byte b on SF_User_Data.
RisingEdge(b) ==
  /\ ~ Reset
  /\ Len(seen) < MaxData
  /\ AfterMismatch(b) \/ AtEnd \/ Compare(b)
  /\ Sequence_Found' = End_Of_Sequence
  /\ seen' = IF valid THEN Append(seen, b) ELSE seen
  /\ UNCHANGED <<Reset, User_Sequence, valid>>

Next ==
  \/ \E t \in Targets : ProvideSequence(t)
  \/ AssertReset
  \/ ResetEdge
  \/ ReleaseReset
  \/ \E b \in Byte : RisingEdge(b)

Spec == Init /\ [][Next]_vars

-----------------------------------------------------------------------------
(***************************************************************************)
(* Properties.                                                             *)
(***************************************************************************)

\* The number of bytes in front of the terminator.
Length(t) == CHOOSE n \in 0 .. Width :
               /\ \A i \in 1 .. n : t[i] # Nul
               /\ n < Width => t[n + 1] = Nul

\* The target t ends at the e-th of the data bytes seen.
EndsAt(t, e) ==
  /\ Length(t) <= e
  /\ \A i \in 1 .. Length(t) : seen[e - Length(t) + i] = t[i]

Detected(n) == \E e \in 0 .. n : EndsAt(User_Sequence, e)

(***************************************************************************)
(* One remembered byte is enough to restart in the target t: whenever the  *)
(* first k bytes of t are followed by a wrong byte x, no suffix of two or  *)
(* more of these k + 1 bytes is again a beginning of t.                    *)
(***************************************************************************)
Restartable(t) ==
  \A k \in 1 .. Length(t) - 1 : \A x \in Byte \ {t[k + 1]} :
    LET text == [i \in 1 .. k + 1 |-> IF i <= k THEN t[i] ELSE x]
    IN  \A j \in 2 .. k : \E i \in 1 .. j : text[k + 1 - j + i] # t[i]

(***************************************************************************)
(* From the second edge after a reset on, the output says "found" only if  *)
(* the target occurred in the data since that reset and has been complete  *)
(* for two edges.                                                          *)
(***************************************************************************)
FoundIsSound ==
  valid /\ Len(seen) >= 2 /\ Sequence_Found => Detected(Len(seen) - 2)

(***************************************************************************)
(* For a target in which one remembered byte is enough, no occurrence is   *)
(* missed, and the output follows two edges after the last byte of the     *)
(* first occurrence.                                                       *)
(***************************************************************************)
FoundIsComplete ==
  /\ valid
  /\ Len(seen) >= 2
  /\ Restartable(User_Sequence)
  /\ Detected(Len(seen) - 2)
  => Sequence_Found

(***************************************************************************)
(* Once "found" shows two edges or more after a reset it stays until the   *)
(* next reset, whatever the data.                                          *)
(***************************************************************************)
FoundStays ==
  [][valid /\ Len(seen) >= 2 /\ Sequence_Found /\ ~ Reset' /\ valid'
       => Sequence_Found']_vars

(***************************************************************************)
(* Between two edges the finder remembers exactly one of three things: a   *)
(* match in progress that ends at the present byte, a mismatch whose byte  *)
(* is the present one, or the end of the target.                           *)
(***************************************************************************)
ProgressIsReal ==
  valid /\ ~ Reset =>
    IF Mismatch_Occurred
      THEN Len(seen) > 0 /\ Previous_Data = seen[Len(seen)]
      ELSE \E n \in 0 .. Length(User_Sequence) :
             /\ Sequence = Shift(User_Sequence, n)
             /\ \E e \in 0 .. Len(seen) :
                  /\ n < Length(User_Sequence) => e = Len(seen)
                  /\ n <= e
                  /\ \A i \in 1 .. n : seen[e - n + i] = User_Sequence[i]

(***************************************************************************)
(* SequenceFinder.vhd:16, "SF_Sequence_Found indicates whether the target  *)
(* sequence is detected": the output is high only if the target has        *)
(* occurred in the data since the reset that line 17 asks for.             *)
(***************************************************************************)
FoundMeansDetected ==
  valid /\ Sequence_Found => Detected(Len(seen))

(***************************************************************************)
(* SequenceFinder.vhd:10, "correct output generated 2 clock cycles after   *)
(* the last data entry", for every target.                                 *)
(***************************************************************************)
CorrectAfterTwoClocks ==
  valid /\ Len(seen) >= 2 /\ Detected(Len(seen) - 2) => Sequence_Found

=============================================================================
