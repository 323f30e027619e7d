-------------------------- MODULE TriggeredDetector --------------------------
(***************************************************************************)
(* The clockless detector that data_triggered_based/seq_match.py generates *)
(* (its output for five signatures is seq_detect.vhd beside it).  A stage  *)
(* is a comparator with an enable input (byte_compare.vhd) whose process   *)
(* runs when reset or data_in changes, but not when its enable does: it    *)
(* keeps its old result as long as the enable is low at that moment.  The  *)
(* enable of stage 1 is "data_in is not zero"; that of stage k+1 is the    *)
(* AND of this signal with the result of stage k.                          *)
(*                                                                         *)
(* A change of data_in reaches the comparators and the signal enable one   *)
(* delta cycle later, both at once; the AND gates follow in the next delta *)
(* cycle.  Every comparator therefore reads the new byte, stage 1 the new  *)
(* enable, and the other stages the AND gates of before the change: one    *)
(* change of data_in is one atomic step.                                   *)
(***************************************************************************)
EXTENDS Integers, Sequences

CONSTANTS
  Byte,        \* the values of data_in
  Zero,        \* the value "00000000", which disables every stage
  Signatures,  \* the lines of the generator's input file, as byte strings
  MaxChanges   \* bound: bytes shown between two resets

ASSUME TriggeredAssumption ==
  /\ Zero \in Byte
  /\ Signatures \subseteq Seq(Byte \ {Zero})
  /\ << >> \notin Signatures
  /\ MaxChanges \in Nat

VARIABLES
  reset,
  data_in,
  cmp,     \* cmp[<<s, k>>]: result held by the comparator of stage k of signature s
  output,  \* output[s]: the pull-up latch and output port of signature s
  armed,   \* history: a reset has been applied since power-up
  shown    \* history: the values of data_in since the reset was released

vars == <<reset, data_in, cmp, output, armed, shown>>

Stage == UNION { {s} \X (1 .. Len(s)) : s \in Signatures }

\* A slip: the generator emits comparators for the first stages only.
StagesLowShort == [st \in { t \in Stage : t[2] = 1 } |-> FALSE]

StagesLow == [st \in Stage |-> FALSE]

OutputsLow == [s \in Signatures |-> FALSE]

TypeOK ==
  /\ reset \in BOOLEAN
  /\ data_in \in Byte
  /\ cmp \in [Stage -> BOOLEAN]
  /\ output \in [Signatures -> BOOLEAN]
  /\ armed \in BOOLEAN
  /\ shown \in Seq(Byte)

-----------------------------------------------------------------------------

\* The signal enable for the byte b.
Enable(b) == b # Zero

\* A slip: the AND with the signal enable is missing between the stages.
StageEnableAlways(st, b) ==
  IF st[2] = 1 THEN Enable(b) ELSE cmp[<<st[1], st[2] - 1>>]

\* The enable input of stage st when its process runs for the new byte b.
StageEnable(st, b) ==
  IF st[2] = 1 THEN Enable(b)
               ELSE Enable(data_in) /\ cmp[<<st[1], st[2] - 1>>]

\* A slip: a comparator goes low when its enable does.
ComparedCleared(b) == [st \in Stage |-> StageEnable(st, b) /\ b = st[1][st[2]]]

\* The results of the comparators after their processes ran for byte b.
Compared(b) ==
  [st \in Stage |-> IF StageEnable(st, b) THEN b = st[1][st[2]] ELSE cmp[st]]

\* A slip: the output is not held.
PulledUpOnce(b, res) == [s \in Signatures |-> Enable(b) /\ res[<<s, Len(s)>>]]

\* The pull-up latches after byte b and the results res have settled.
PulledUp(b, res) ==
  [s \in Signatures |-> output[s] \/ (Enable(b) /\ res[<<s, Len(s)>>])]

Init ==
  /\ reset \in BOOLEAN
  /\ data_in \in Byte
  /\ cmp \in [Stage -> BOOLEAN]
  /\ output \in [Signatures -> BOOLEAN]
  /\ reset => cmp = StagesLow /\ output = OutputsLow
  /\ armed = reset
  /\ shown = << >>

\* data_in changes.  While the reset is high every result stays low.
Change(b) ==
  /\ b # data_in
  /\ Len(shown) < MaxChanges
  /\ data_in' = b
  /\ IF reset THEN UNCHANGED <<cmp, output, shown>>
              ELSE /\ cmp' = Compared(b)
                   /\ output' = PulledUp(b, cmp')
                   /\ shown' = Append(shown, b)
  /\ UNCHANGED <<reset, armed>>

\* A slip: byte_compare has no reset.
AssertResetKeepsStages ==
  /\ ~ reset
  /\ reset' = TRUE
  /\ output' = OutputsLow
  /\ armed' = TRUE
  /\ shown' = << >>
  /\ UNCHANGED <<data_in, cmp>>

AssertReset ==
  /\ ~ reset
  /\ reset' = TRUE
  /\ cmp' = StagesLow
  /\ output' = OutputsLow
  /\ armed' = TRUE
  /\ shown' = << >>
  /\ UNCHANGED data_in

\* The comparators run once when the reset falls: the byte that is there counts.
ReleaseReset ==
  /\ reset
  /\ Len(shown) < MaxChanges
  /\ reset' = FALSE
  /\ cmp' = Compared(data_in)
  /\ output' = PulledUp(data_in, cmp')
  /\ shown' = Append(shown, data_in)
  /\ UNCHANGED <<data_in, armed>>

Next ==
  \/ \E b \in Byte : Change(b)
  \/ AssertReset
  \/ ReleaseReset

Spec == Init /\ [][Next]_vars

-----------------------------------------------------------------------------
(***************************************************************************)
(* Properties.                                                             *)
(***************************************************************************)

\* The n bytes of shown that end at position e are the first n bytes of sig.
ShownAt(sig, n, e) ==
  /\ n <= e
  /\ \A i \in 1 .. n : shown[e - n + i] = sig[i]

\* The first n bytes of sig can be found in shown in this order, the first two
\* next to each other, each but the first behind a byte that is not zero, and
\* the last of them at e.
Scattered(sig, n, e) ==
  \E pos \in [1 .. n -> 1 .. Len(shown)] :
    /\ \A i \in 1 .. n : shown[pos[i]] = sig[i]
    /\ \A i \in 2 .. n : pos[i - 1] < pos[i] /\ shown[pos[i] - 1] # Zero
    /\ n > 1 => pos[2] = pos[1] + 1
    /\ pos[n] = e

\* The first two bytes of sig end at position e, the first of them does not come
\* again up to position f, and the bytes up to the n-th follow f without a gap,
\* with no zero at f.
Resumed(sig, n, e, f) ==
  /\ ShownAt(sig, 2, e)
  /\ e <= f /\ f + n - 2 <= Len(shown)
  /\ \A p \in e + 1 .. f : shown[p] # sig[1]
  /\ \A i \in 3 .. n : shown[f + i - 2] = sig[i]
  /\ n > 2 => shown[f] # Zero

(***************************************************************************)
(* A signature whose bytes are shown one after the other, each of them as  *)
(* a change of data_in, is reported at once, whatever was shown before.    *)
(***************************************************************************)
ShownIsReported ==
  armed =>
    \A s \in Signatures :
      (\E e \in 1 .. Len(shown) : ShownAt(s, Len(s), e)) => output[s]

(***************************************************************************)
(* The stages keep old results, so the converse does not hold: after the   *)
(* first two bytes of a signature the others may be interspersed with any  *)
(* bytes.  What holds is that an output never reports a signature whose    *)
(* bytes were not shown in order, with the first two adjacent and none of  *)
(* the others right after a zero: the zero takes the enable from the       *)
(* stages behind the first for one change of data_in.                      *)
(***************************************************************************)
ReportedIsScattered ==
  armed =>
    \A s \in Signatures :
      output[s] => \E e \in 1 .. Len(shown) : Scattered(s, Len(s), e)

(***************************************************************************)
(* Where the detector can be trusted: a signature of at most two bytes is  *)
(* reported only if its bytes were shown next to each other.               *)
(***************************************************************************)
ShortSignaturesExact ==
  armed =>
    \A s \in Signatures :
      Len(s) <= 2 /\ output[s] => \E e \in 1 .. Len(shown) : ShownAt(s, Len(s), e)

(***************************************************************************)
(* A match once begun stays open: when the first two bytes of a signature  *)
(* have been shown, any bytes may follow, zeros among them, as long as the *)
(* first is not one of them; the others then complete the signature, if    *)
(* they are shown one after the other and not right after a zero.  Only    *)
(* the first byte, shown again, or the reset can close it.                 *)
(***************************************************************************)
OpenMatchResumes ==
  armed =>
    \A s \in Signatures :
      Len(s) > 2 /\ (\E e, f \in 1 .. Len(shown) : Resumed(s, Len(s), e, f)) => output[s]

(***************************************************************************)
(* Two equal bytes in a row are one value of data_in and no event, and to  *)
(* put a zero or another byte between them does not help: a signature that *)
(* begins with a doubled byte is never reported.                           *)
(***************************************************************************)
DoubledStartNeverReported ==
  armed =>
    \A s \in Signatures : Len(s) > 1 /\ s[1] = s[2] => ~ output[s]

=============================================================================
