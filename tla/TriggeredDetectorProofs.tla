----------------------- MODULE TriggeredDetectorProofs -----------------------
(***************************************************************************)
(* Proofs about TriggeredDetector, for every set of signatures over every  *)
(* alphabet.                                                               *)
(***************************************************************************)
EXTENDS TriggeredDetector, TLAPS

(***************************************************************************)
(* The inductive invariant behind the properties below.                    *)
(***************************************************************************)

\* While the reset is high nothing is stored anywhere.
ResetLow == reset => cmp = StagesLow /\ output = OutputsLow /\ shown = << >> /\ armed

\* The present byte is the last one shown.
LastShown == armed /\ ~ reset => shown # << >> /\ data_in = shown[Len(shown)]

\* A stage is high when the bytes up to its own have just been shown.
StagesComplete ==
  armed => \A s \in Signatures : \A k \in 1 .. Len(s) :
             ShownAt(s, k, Len(shown)) => cmp[<<s, k>>]

\* The result of the first stage is never old when the next one uses it.
FirstStageFresh ==
  armed => \A s \in Signatures :
             cmp[<<s, 1>>] /\ Enable(data_in) => ShownAt(s, 1, Len(shown))

\* A stage is high only when the bytes up to its own have been shown in order.
StagesScattered ==
  armed => \A s \in Signatures : \A k \in 1 .. Len(s) :
             cmp[<<s, k>>] => \E e \in 1 .. Len(shown) : Scattered(s, k, e)

\* Two bytes in a row differ.
NoRepeat == armed => \A i \in 2 .. Len(shown) : shown[i - 1] # shown[i]

\* An open match keeps its second stage high, and the stages behind it go high
\* one after the other when their bytes are shown.
StagesResume ==
  armed => \A s \in Signatures : \A k \in 2 .. Len(s) : \A e, f \in 1 .. Len(shown) :
             Resumed(s, k, e, f) /\ f + k - 2 = Len(shown) => cmp[<<s, k>>]

IInv ==
  /\ TypeOK
  /\ ResetLow
  /\ LastShown
  /\ StagesComplete
  /\ FirstStageFresh
  /\ StagesScattered
  /\ ShownIsReported
  /\ ReportedIsScattered
  /\ NoRepeat
  /\ StagesResume
  /\ OpenMatchResumes

-----------------------------------------------------------------------------

(***************************************************************************)
(* A signature is a nonempty string of bytes that are not zero: a line of  *)
(* the input file of seq_match.py.                                         *)
(***************************************************************************)
LEMMA SignatureBytes ==
  ASSUME NEW s \in Signatures
  PROVE  /\ s \in Seq(Byte) /\ Len(s) \in Nat /\ Len(s) \in 1 .. Len(s)
         /\ Len(s) = 1 \/ Len(s) > 1
         /\ \A k \in 1 .. Len(s) : s[k] \in Byte /\ s[k] # Zero
<1>1. s \in Seq(Byte \ {Zero}) /\ s # << >>
  BY TriggeredAssumption
<1>2. Len(s) \in Nat /\ s \in Seq(Byte) /\ \A k \in 1 .. Len(s) : s[k] \in Byte \ {Zero}
  BY <1>1
<1>3. Len(s) # 0
  BY <1>1
<1>4. \A n \in Nat : n # 0 => n \in 1 .. n /\ (n = 1 \/ n > 1)
  OBVIOUS
<1> QED
  BY <1>2, <1>3, <1>4

(***************************************************************************)
(* The stages are the pairs of a signature and one of its positions.       *)
(***************************************************************************)
LEMMA StageForm ==
  ASSUME NEW s \in Signatures, NEW k \in 1 .. Len(s)
  PROVE  <<s, k>> \in Stage /\ <<s, k>>[1] = s /\ <<s, k>>[2] = k
BY DEF Stage

(***************************************************************************)
(* One stage when the comparators run for byte b: the heart of what        *)
(* "runs when reset or data_in changes" means.                             *)
(***************************************************************************)
LEMMA StageRuns ==
  ASSUME NEW b \in Byte, NEW s \in Signatures, NEW k \in 1 .. Len(s)
  PROVE  /\ k = 1 /\ b # Zero => (Compared(b)[<<s, k>>] <=> b = s[k])
         /\ k = 1 /\ b = Zero => Compared(b)[<<s, k>>] = cmp[<<s, k>>]
         /\ k > 1 /\ data_in # Zero /\ cmp[<<s, k - 1>>]
              => (Compared(b)[<<s, k>>] <=> b = s[k])
         /\ k > 1 /\ ~ (data_in # Zero /\ cmp[<<s, k - 1>>])
              => Compared(b)[<<s, k>>] = cmp[<<s, k>>]
<1>1. <<s, k>> \in Stage /\ <<s, k>>[1] = s /\ <<s, k>>[2] = k
  BY StageForm
<1>2. Compared(b)[<<s, k>>]
        = IF StageEnable(<<s, k>>, b) THEN b = s[k] ELSE cmp[<<s, k>>]
  BY <1>1 DEF Compared
<1>3. StageEnable(<<s, k>>, b)
        = IF k = 1 THEN b # Zero ELSE data_in # Zero /\ cmp[<<s, k - 1>>]
  BY <1>1 DEF StageEnable, Enable
<1>4. k > 1 => k # 1
  OBVIOUS
<1> QED
  BY <1>2, <1>3, <1>4

(***************************************************************************)
(* Every step keeps the types.                                             *)
(***************************************************************************)
LEMMA TypeStep == TypeOK /\ [Next]_vars => TypeOK'
<1> SUFFICES ASSUME TypeOK, [Next]_vars
             PROVE  TypeOK'
  OBVIOUS
<1> USE DEF TypeOK
<1>1. ASSUME NEW b \in Byte, NEW res \in [Stage -> BOOLEAN]
      PROVE  /\ PulledUp(b, res) \in [Signatures -> BOOLEAN]
             /\ Append(shown, b) \in Seq(Byte)
  BY DEF PulledUp
<1>2. ASSUME NEW b \in Byte
      PROVE  Compared(b) \in [Stage -> BOOLEAN]
  <2> SUFFICES ASSUME NEW st \in Stage
               PROVE  (IF StageEnable(st, b) THEN b = st[1][st[2]] ELSE cmp[st]) \in BOOLEAN
    BY DEF Compared
  <2> QED
    OBVIOUS
<1>3. << >> \in Seq(Byte)
  OBVIOUS
<1>4. ASSUME NEW b \in Byte, Change(b)
      PROVE  TypeOK'
  BY <1>1, <1>2, <1>4 DEF Change
<1>5. CASE AssertReset
  BY <1>3, <1>5 DEF AssertReset, StagesLow, OutputsLow
<1>6. CASE ReleaseReset
  BY <1>1, <1>2, <1>6 DEF ReleaseReset
<1>7. CASE UNCHANGED vars
  BY <1>7 DEF vars
<1> QED
  BY <1>4, <1>5, <1>6, <1>7 DEF Next

(***************************************************************************)
(* Power-up has the types.                                                 *)
(***************************************************************************)
LEMMA TypeInit == Init => TypeOK
<1>1. << >> \in Seq(Byte)
  OBVIOUS
<1> QED
  BY <1>1 DEF Init, TypeOK

(***************************************************************************)
(* Type correctness of the data-triggered detector.                        *)
(***************************************************************************)
THEOREM TriggeredTypeCorrect == Spec => []TypeOK
BY TypeInit, TypeStep, PTL DEF Spec

-----------------------------------------------------------------------------
(***************************************************************************)
(* The bytes shown, after one more.                                        *)
(***************************************************************************)
LEMMA ShownGrows ==
  ASSUME TypeOK, NEW b \in Byte, shown' = Append(shown, b)
  PROVE  /\ Len(shown) \in Nat /\ Len(shown') = Len(shown) + 1
         /\ \A i \in 1 .. Len(shown) : shown'[i] = shown[i]
         /\ shown'[Len(shown) + 1] = b
BY DEF TypeOK

(***************************************************************************)
(* A string of bytes that ends with the new byte ended, without its last   *)
(* one, with the byte before.                                              *)
(***************************************************************************)
LEMMA ShownAtGrows ==
  ASSUME TypeOK, NEW b \in Byte, shown' = Append(shown, b),
         NEW s \in Signatures, NEW k \in 1 .. Len(s)
  PROVE  /\ \A e \in 1 .. Len(shown) : ShownAt(s, k, e)' <=> ShownAt(s, k, e)
         /\ k = 1 => (ShownAt(s, k, Len(shown))' <=> b = s[1])
         /\ k > 1 /\ ShownAt(s, k, Len(shown))'
              => /\ k - 1 \in 1 .. Len(s) /\ ShownAt(s, k - 1, Len(shown)) /\ b = s[k]
                 /\ Len(shown) >= 1 /\ shown[Len(shown)] = s[k - 1]
<1>1. /\ Len(shown) \in Nat /\ Len(shown') = Len(shown) + 1
      /\ \A i \in 1 .. Len(shown) : shown'[i] = shown[i]
      /\ shown'[Len(shown) + 1] = b
  BY ShownGrows
<1>2. Len(s) \in Nat /\ k \in Nat
  BY SignatureBytes
<1>3. ASSUME NEW e \in 1 .. Len(shown)
      PROVE  ShownAt(s, k, e)' <=> ShownAt(s, k, e)
  <2>1. k <= e => \A i \in 1 .. k : e - k + i \in 1 .. Len(shown)
    BY <1>1, <1>2
  <2> QED
    BY <1>1, <2>1 DEF ShownAt
<1>4. CASE k = 1
  BY <1>1, <1>2, <1>4 DEF ShownAt
<1>5. ASSUME k > 1, ShownAt(s, k, Len(shown))'
      PROVE  /\ k - 1 \in 1 .. Len(s) /\ ShownAt(s, k - 1, Len(shown)) /\ b = s[k]
             /\ Len(shown) >= 1 /\ shown[Len(shown)] = s[k - 1]
  <2>1. /\ k <= Len(shown')
        /\ \A i \in 1 .. k : shown'[Len(shown') - k + i] = s[i]
    BY <1>5, Zenon DEF ShownAt
  <2>2. \A i \in 1 .. k - 1 : /\ Len(shown') - k + i \in 1 .. Len(shown)
                              /\ Len(shown') - k + i = Len(shown) - (k - 1) + i
                              /\ i \in 1 .. k
    BY <1>1, <1>2, <2>1
  <2>3. \A i \in 1 .. k - 1 : shown[Len(shown) - (k - 1) + i] = s[i]
    BY <1>1, <2>1, <2>2
  <2>4. ShownAt(s, k - 1, Len(shown)) /\ k - 1 \in 1 .. Len(s) /\ Len(shown) >= 1
    BY <1>1, <1>2, <1>5, <2>1, <2>3 DEF ShownAt
  <2>5. Len(shown') - k + k = Len(shown) + 1 /\ k \in 1 .. k
    BY <1>1, <1>2
  <2>6. b = s[k]
    BY <1>1, <2>1, <2>5
  <2>7. k - 1 \in 1 .. k - 1 /\ Len(shown) - (k - 1) + (k - 1) = Len(shown)
    BY <1>1, <1>2, <1>5
  <2> QED
    BY <2>3, <2>4, <2>6, <2>7
<1>6. k = 1 \/ k > 1
  BY <1>2
<1> QED
  BY <1>3, <1>4, <1>5, <1>6

(***************************************************************************)
(* Bytes that were shown in order stay so.                                 *)
(***************************************************************************)
LEMMA ScatteredStays ==
  ASSUME TypeOK, NEW b \in Byte, shown' = Append(shown, b),
         NEW s \in Signatures, NEW k \in 1 .. Len(s),
         NEW e \in 1 .. Len(shown), Scattered(s, k, e)
  PROVE  e \in 1 .. Len(shown') /\ Scattered(s, k, e)'
<1>1. /\ Len(shown) \in Nat /\ Len(shown') = Len(shown) + 1
      /\ \A i \in 1 .. Len(shown) : shown'[i] = shown[i]
  BY ShownGrows
<1>2. PICK pos \in [1 .. k -> 1 .. Len(shown)] :
        /\ \A i \in 1 .. k : shown[pos[i]] = s[i]
        /\ \A i \in 2 .. k : pos[i - 1] < pos[i] /\ shown[pos[i] - 1] # Zero
        /\ k > 1 => pos[2] = pos[1] + 1
        /\ pos[k] = e
  BY DEF Scattered
<1>3. pos \in [1 .. k -> 1 .. Len(shown')]
  BY <1>1
<1>4. \A i \in 1 .. k : shown'[pos[i]] = s[i]
  BY <1>1, <1>2
<1>5. \A i \in 2 .. k : shown'[pos[i] - 1] # Zero
  <2> TAKE i \in 2 .. k
  <2>1. k \in Nat
    BY SignatureBytes
  <2>2. i \in 1 .. k /\ i - 1 \in 1 .. k
    BY <2>1
  <2>3. pos[i] \in 1 .. Len(shown) /\ pos[i - 1] \in 1 .. Len(shown)
    BY <2>2
  <2>4. pos[i - 1] < pos[i] /\ shown[pos[i] - 1] # Zero
    BY <1>2
  <2>5. pos[i] - 1 \in 1 .. Len(shown)
    BY <1>1, <2>3, <2>4
  <2> QED
    BY <1>1, <2>4, <2>5
<1>6. \E p \in [1 .. k -> 1 .. Len(shown')] :
        /\ \A i \in 1 .. k : shown'[p[i]] = s[i]
        /\ \A i \in 2 .. k : p[i - 1] < p[i] /\ shown'[p[i] - 1] # Zero
        /\ k > 1 => p[2] = p[1] + 1
        /\ p[k] = e
  BY <1>2, <1>3, <1>4, <1>5
<1>7. Scattered(s, k, e)'
  BY <1>6, Zenon DEF Scattered
<1> QED
  BY <1>1, <1>7

(***************************************************************************)
(* A byte that is shown is "scattered" by itself.                          *)
(***************************************************************************)
LEMMA ShownIsScattered ==
  ASSUME TypeOK, NEW s \in Signatures, ShownAt(s, 1, Len(shown))
  PROVE  Len(shown) \in 1 .. Len(shown) /\ Scattered(s, 1, Len(shown))
<1>1. Len(shown) \in Nat /\ Len(shown) >= 1
  BY DEF TypeOK, ShownAt
<1>2. shown[Len(shown)] = s[1]
  <2>1. shown[Len(shown) - 1 + 1] = s[1] /\ Len(shown) - 1 + 1 = Len(shown)
    BY <1>1 DEF ShownAt
  <2> QED
    BY <2>1
<1> DEFINE pos == [i \in 1 .. 1 |-> Len(shown)]
<1>3. pos \in [1 .. 1 -> 1 .. Len(shown)]
  BY <1>1
<1>4. \A i \in 1 .. 1 : i = 1 /\ pos[i] = Len(shown)
  OBVIOUS
<1> HIDE DEF pos
<1>5. /\ \A i \in 1 .. 1 : shown[pos[i]] = s[i]
      /\ \A i \in 2 .. 1 : pos[i - 1] < pos[i] /\ shown[pos[i] - 1] # Zero
      /\ pos[1] = Len(shown)
  BY <1>2, <1>4
<1> QED
  BY <1>1, <1>3, <1>5 DEF Scattered

(***************************************************************************)
(* The new byte is the first of a signature.                               *)
(***************************************************************************)
LEMMA ScatteredFirst ==
  ASSUME TypeOK, NEW b \in Byte, shown' = Append(shown, b),
         NEW s \in Signatures, b = s[1]
  PROVE  Len(shown') \in 1 .. Len(shown') /\ Scattered(s, 1, Len(shown))'
<1>1. /\ Len(shown) \in Nat /\ Len(shown') = Len(shown) + 1
      /\ shown'[Len(shown) + 1] = b
  BY ShownGrows
<1> DEFINE pos == [i \in 1 .. 1 |-> Len(shown')]
<1>2. pos \in [1 .. 1 -> 1 .. Len(shown')]
  BY <1>1
<1>3. \A i \in 1 .. 1 : i = 1 /\ pos[i] = Len(shown')
  OBVIOUS
<1> HIDE DEF pos
<1>4. \A i \in 1 .. 1 : shown'[pos[i]] = s[i]
  BY <1>1, <1>3
<1>5. /\ \A i \in 2 .. 1 : pos[i - 1] < pos[i] /\ shown'[pos[i] - 1] # Zero
      /\ pos[1] = Len(shown')
  BY <1>3
<1> QED
  BY <1>1, <1>2, <1>4, <1>5 DEF Scattered

(***************************************************************************)
(* The new byte follows the first k bytes of a signature; if k is 1, these *)
(* must have ended with the byte before, which must not be zero.           *)
(***************************************************************************)
LEMMA ScatteredGrows ==
  ASSUME TypeOK, NEW b \in Byte, shown' = Append(shown, b),
         NEW s \in Signatures, NEW k \in 1 .. Len(s), k + 1 \in 1 .. Len(s),
         NEW e \in 1 .. Len(shown), Scattered(s, k, e),
         k = 1 => e = Len(shown), b = s[k + 1], shown[Len(shown)] # Zero
  PROVE  Len(shown') \in 1 .. Len(shown') /\ Scattered(s, k + 1, Len(shown))'
<1>1. /\ Len(shown) \in Nat /\ Len(shown') = Len(shown) + 1
      /\ \A i \in 1 .. Len(shown) : shown'[i] = shown[i]
      /\ shown'[Len(shown) + 1] = b
  BY ShownGrows
<1>2. PICK old \in [1 .. k -> 1 .. Len(shown)] :
        /\ \A i \in 1 .. k : shown[old[i]] = s[i]
        /\ \A i \in 2 .. k : old[i - 1] < old[i] /\ shown[old[i] - 1] # Zero
        /\ k > 1 => old[2] = old[1] + 1
        /\ old[k] = e
  BY DEF Scattered
<1>3. k \in Nat /\ k >= 1
  BY SignatureBytes
<1> DEFINE pos == [i \in 1 .. k + 1 |-> IF i = k + 1 THEN Len(shown') ELSE old[i]]
<1>4. \A i \in 1 .. k : i \in 1 .. k + 1 /\ pos[i] = old[i]
  BY <1>3
<1>5. pos[k + 1] = Len(shown')
  BY <1>3
<1>6. pos \in [1 .. k + 1 -> 1 .. Len(shown')]
  <2>1. \A i \in 1 .. k + 1 : i # k + 1 => i \in 1 .. k
    BY <1>3
  <2>2. \A i \in 1 .. k + 1 : pos[i] \in 1 .. Len(shown')
    BY <1>1, <2>1
  <2> QED
    BY <2>2
<1>7. \A i \in 1 .. k + 1 : i \in 1 .. k \/ i = k + 1
  BY <1>3
<1> HIDE DEF pos
<1>8. \A i \in 1 .. k + 1 : shown'[pos[i]] = s[i]
  <2> TAKE i \in 1 .. k + 1
  <2>1. CASE i = k + 1
    BY <1>1, <1>5, <2>1
  <2>2. CASE i \in 1 .. k
    <3>1. old[i] \in 1 .. Len(shown) /\ pos[i] = old[i] /\ shown[old[i]] = s[i]
      BY <1>2, <1>4, <2>2
    <3> QED
      BY <1>1, <3>1
  <2> QED
    BY <1>7, <2>1, <2>2
<1>9. \A i \in 2 .. k + 1 : pos[i - 1] < pos[i]
  <2> TAKE i \in 2 .. k + 1
  <2>1. i - 1 \in 1 .. k /\ pos[i - 1] = old[i - 1]
    BY <1>3, <1>4
  <2>2. CASE i = k + 1
    <3>1. old[i - 1] \in 1 .. Len(shown)
      BY <2>1
    <3> QED
      BY <1>1, <1>5, <2>1, <2>2, <3>1
  <2>3. CASE i # k + 1
    <3>1. i \in 2 .. k /\ i \in 1 .. k
      BY <1>3, <2>3
    <3> QED
      BY <1>2, <1>4, <2>1, <3>1
  <2> QED
    BY <2>2, <2>3
<1>10. pos[2] = pos[1] + 1
  <2>1. CASE k = 1
    BY <1>1, <1>2, <1>4, <1>5, <2>1
  <2>2. CASE k # 1
    <3>1. 1 \in 1 .. k /\ 2 \in 1 .. k /\ k > 1
      BY <1>3, <2>2
    <3> QED
      BY <1>2, <1>4, <3>1
  <2> QED
    BY <2>1, <2>2
<1>11. \A i \in 2 .. k + 1 : shown'[pos[i] - 1] # Zero
  <2> TAKE i \in 2 .. k + 1
  <2>1. CASE i = k + 1
    <3>1. Len(shown) >= 1 /\ Len(shown') - 1 = Len(shown)
      BY <1>1
    <3>2. shown'[Len(shown)] = shown[Len(shown)]
      BY <1>1, <3>1
    <3> QED
      BY <1>5, <2>1, <3>1, <3>2
  <2>2. CASE i # k + 1
    <3>1. i \in 2 .. k /\ i \in 1 .. k /\ i - 1 \in 1 .. k
      BY <1>3, <2>2
    <3>2. old[i - 1] \in 1 .. Len(shown) /\ old[i] \in 1 .. Len(shown)
      BY <3>1
    <3>3. old[i - 1] < old[i] /\ shown[old[i] - 1] # Zero /\ pos[i] = old[i]
      BY <1>2, <1>4, <3>1
    <3>4. old[i] - 1 \in 1 .. Len(shown)
      BY <1>1, <3>2, <3>3
    <3> QED
      BY <1>1, <3>3, <3>4
  <2> QED
    BY <2>1, <2>2
<1>12. \E p \in [1 .. k + 1 -> 1 .. Len(shown')] :
         /\ \A i \in 1 .. k + 1 : shown'[p[i]] = s[i]
         /\ \A i \in 2 .. k + 1 : p[i - 1] < p[i] /\ shown'[p[i] - 1] # Zero
         /\ k + 1 > 1 => p[2] = p[1] + 1
         /\ p[k + 1] = Len(shown')
  BY <1>5, <1>6, <1>8, <1>9, <1>10, <1>11
<1>13. Scattered(s, k + 1, Len(shown))'
  BY <1>12, Zenon DEF Scattered
<1> QED
  BY <1>1, <1>13

-----------------------------------------------------------------------------
(***************************************************************************)
(* The comparators run for byte b with the reset low: at a change of       *)
(* data_in, or when the reset falls.                                       *)
(***************************************************************************)
Runs(b) ==
  /\ cmp' = Compared(b)
  /\ output' = PulledUp(b, cmp')
  /\ shown' = Append(shown, b)
  /\ data_in' = b
  /\ ~ reset'
  /\ armed' = armed
  /\ shown # << >> => b # data_in

(***************************************************************************)
(* The two kinds of step that run the comparators.                         *)
(***************************************************************************)
LEMMA RunSteps ==
  ASSUME TypeOK, ResetLow
  PROVE  /\ \A b \in Byte : Change(b) /\ ~ reset => Runs(b)
         /\ ReleaseReset => Runs(data_in) /\ data_in \in Byte
BY DEF TypeOK, ResetLow, Change, ReleaseReset, Runs

(***************************************************************************)
(* A stage is high only while the reset is low; the byte on data_in is     *)
(* then the last one shown.                                                *)
(***************************************************************************)
LEMMA HighIsShown ==
  ASSUME armed, LastShown, ResetLow, NEW s \in Signatures, NEW k \in 1 .. Len(s),
         cmp[<<s, k>>]
  PROVE  shown # << >> /\ data_in = shown[Len(shown)]
<1>1. <<s, k>> \in Stage
  BY StageForm
<1>2. ~ reset
  BY <1>1 DEF ResetLow, StagesLow
<1> QED
  BY <1>2 DEF LastShown

(***************************************************************************)
(* Stage k is enabled when stage k - 1 has just seen its byte.             *)
(***************************************************************************)
LEMMA CompleteRuns ==
  ASSUME IInv, NEW b \in Byte, Runs(b)
  PROVE  StagesComplete'
<1> SUFFICES ASSUME armed, NEW s \in Signatures, NEW k \in 1 .. Len(s),
                    ShownAt(s, k, Len(shown))'
             PROVE  cmp'[<<s, k>>]
  BY DEF StagesComplete, Runs
<1>1. TypeOK /\ StagesComplete /\ LastShown /\ ResetLow
  BY DEF IInv
<1>2. shown' = Append(shown, b) /\ cmp' = Compared(b)
  BY DEF Runs
<1>3. Len(s) \in Nat /\ \A i \in 1 .. Len(s) : s[i] \in Byte /\ s[i] # Zero
  BY SignatureBytes
<1>4. CASE k = 1
  <2>1. b = s[1] /\ b # Zero
    BY <1>1, <1>2, <1>3, <1>4, ShownAtGrows
  <2> QED
    BY <1>2, <1>4, <2>1, StageRuns
<1>5. CASE k > 1
  <2>1. /\ k - 1 \in 1 .. Len(s) /\ ShownAt(s, k - 1, Len(shown)) /\ b = s[k]
        /\ Len(shown) >= 1 /\ shown[Len(shown)] = s[k - 1]
    BY <1>1, <1>2, <1>5, ShownAtGrows
  <2>2. cmp[<<s, k - 1>>]
    BY <1>1, <2>1 DEF StagesComplete
  <2>3. shown # << >>
    BY <2>1
  <2>4. data_in # Zero
    BY <1>1, <1>3, <2>1, <2>3 DEF LastShown, ResetLow
  <2> QED
    BY <1>2, <1>5, <2>1, <2>2, <2>4, StageRuns
<1> QED
  BY <1>3, <1>4, <1>5

(***************************************************************************)
(* Only a zero leaves the result of the first stage as it was.             *)
(***************************************************************************)
LEMMA FreshRuns ==
  ASSUME IInv, NEW b \in Byte, Runs(b)
  PROVE  FirstStageFresh'
<1> SUFFICES ASSUME NEW s \in Signatures, cmp'[<<s, 1>>], b # Zero
             PROVE  ShownAt(s, 1, Len(shown))'
  BY DEF FirstStageFresh, Enable, Runs
<1>1. TypeOK /\ shown' = Append(shown, b) /\ cmp' = Compared(b)
  BY DEF IInv, Runs
<1>2. 1 \in 1 .. Len(s)
  BY SignatureBytes
<1>3. b = s[1]
  <2>1. b # Zero => (Compared(b)[<<s, 1>>] <=> b = s[1])
    BY <1>2, StageRuns
  <2> QED
    BY <1>1, <2>1
<1> QED
  BY <1>1, <1>2, <1>3, ShownAtGrows

(***************************************************************************)
(* A stage goes high only behind one that is.                              *)
(***************************************************************************)
LEMMA ScatteredRuns ==
  ASSUME IInv, NEW b \in Byte, Runs(b)
  PROVE  StagesScattered'
<1> SUFFICES ASSUME armed, NEW s \in Signatures, NEW k \in 1 .. Len(s), cmp'[<<s, k>>]
             PROVE  \E e \in 1 .. Len(shown') : Scattered(s, k, e)'
  BY DEF StagesScattered, Runs
<1>1. TypeOK /\ StagesScattered /\ FirstStageFresh /\ LastShown /\ ResetLow
  BY DEF IInv
<1>2. shown' = Append(shown, b) /\ cmp' = Compared(b)
  BY DEF Runs
<1>3. Len(s) \in Nat /\ k \in Nat /\ k >= 1 /\ 1 \in 1 .. Len(s)
  BY SignatureBytes
<1>4. CASE cmp'[<<s, k>>] = cmp[<<s, k>>]
  <2>1. PICK e \in 1 .. Len(shown) : Scattered(s, k, e)
    BY <1>1, <1>4 DEF StagesScattered
  <2> QED
    BY <1>1, <1>2, <2>1, ScatteredStays
<1>5. CASE k = 1 /\ b = s[k]
  BY <1>1, <1>2, <1>5, ScatteredFirst
<1>6. CASE k > 1 /\ data_in # Zero /\ cmp[<<s, k - 1>>] /\ b = s[k]
  <2>1. k - 1 \in 1 .. Len(s) /\ (k - 1) + 1 = k
    BY <1>3, <1>6
  <2>2. PICK e \in 1 .. Len(shown) :
          Scattered(s, k - 1, e) /\ (k - 1 = 1 => e = Len(shown))
    <3>1. CASE k - 1 = 1
      <4>1. ShownAt(s, 1, Len(shown))
        BY <1>1, <1>6, <3>1 DEF FirstStageFresh, Enable
      <4>2. Len(shown) \in 1 .. Len(shown) /\ Scattered(s, 1, Len(shown))
        BY <1>1, <1>3, <4>1, ShownIsScattered
      <4> QED
        BY <3>1, <4>2
    <3>2. CASE k - 1 # 1
      BY <1>1, <1>6, <2>1, <3>2 DEF StagesScattered
    <3> QED
      BY <3>1, <3>2
  <2>3. shown[Len(shown)] # Zero
    BY <1>1, <1>6, <2>1, HighIsShown
  <2>4. /\ Len(shown') \in 1 .. Len(shown')
        /\ Scattered(s, (k - 1) + 1, Len(shown))'
    BY <1>1, <1>2, <1>6, <2>1, <2>2, <2>3, ScatteredGrows
  <2> QED
    BY <2>1, <2>4
<1>7. \/ cmp'[<<s, k>>] = cmp[<<s, k>>]
      \/ k = 1 /\ b = s[k]
      \/ k > 1 /\ data_in # Zero /\ cmp[<<s, k - 1>>] /\ b = s[k]
  <2>1. Compared(b)[<<s, k>>]
    BY <1>2
  <2>2. CASE k = 1
    BY <1>2, <2>1, <2>2, StageRuns
  <2>3. CASE k > 1
    BY <1>2, <2>1, <2>3, StageRuns
  <2>4. k = 1 \/ k > 1
    BY <1>3
  <2> QED
    BY <2>2, <2>3, <2>4, Zenon
<1> QED
  BY <1>4, <1>5, <1>6, <1>7

(***************************************************************************)
(* The output ports after a run.                                           *)
(***************************************************************************)
LEMMA OutputRuns ==
  ASSUME NEW b \in Byte, Runs(b), NEW s \in Signatures
  PROVE  output'[s] <=> output[s] \/ (b # Zero /\ cmp'[<<s, Len(s)>>])
BY DEF Runs, PulledUp, Enable

(***************************************************************************)
(* A run reports the signatures that the new byte completes.               *)
(***************************************************************************)
LEMMA ReportRuns ==
  ASSUME IInv, NEW b \in Byte, Runs(b)
  PROVE  ShownIsReported'
<1> SUFFICES ASSUME armed, NEW s \in Signatures,
                    NEW e \in 1 .. Len(shown'), ShownAt(s, Len(s), e)'
             PROVE  output'[s]
  BY DEF ShownIsReported, Runs
<1>1. TypeOK /\ ShownIsReported /\ shown' = Append(shown, b) /\ armed'
  BY DEF IInv, Runs
<1>2. Len(s) \in 1 .. Len(s) /\ s[Len(s)] # Zero /\ Len(s) \in Nat
  BY SignatureBytes
<1>3. Len(shown) \in Nat /\ Len(shown') = Len(shown) + 1
  BY <1>1, ShownGrows
<1>4. CASE e \in 1 .. Len(shown)
  <2>1. ShownAt(s, Len(s), e)
    BY <1>1, <1>2, <1>4, ShownAtGrows
  <2>2. output[s]
    BY <1>1, <1>4, <2>1 DEF ShownIsReported
  <2> QED
    BY <2>2, OutputRuns
<1>5. CASE e = Len(shown')
  <2>1. ShownAt(s, Len(s), Len(shown))'
    BY <1>5
  <2>2. cmp'[<<s, Len(s)>>]
    BY <1>1, <1>2, <2>1, CompleteRuns DEF StagesComplete
  <2>3. b = s[Len(s)]
    <3>1. CASE Len(s) = 1
      BY <1>1, <1>2, <2>1, <3>1, ShownAtGrows
    <3>2. CASE Len(s) > 1
      BY <1>1, <1>2, <2>1, <3>2, ShownAtGrows
    <3> QED
      BY <3>1, <3>2, SignatureBytes
  <2> QED
    BY <1>2, <2>2, <2>3, OutputRuns
<1> QED
  BY <1>3, <1>4, <1>5

(***************************************************************************)
(* A run reports nothing that was not shown in order.                      *)
(***************************************************************************)
LEMMA OnlyScatteredRuns ==
  ASSUME IInv, NEW b \in Byte, Runs(b)
  PROVE  ReportedIsScattered'
<1> SUFFICES ASSUME armed, NEW s \in Signatures, output'[s]
             PROVE  \E e \in 1 .. Len(shown') : Scattered(s, Len(s), e)'
  BY DEF ReportedIsScattered, Runs
<1>1. TypeOK /\ ReportedIsScattered /\ shown' = Append(shown, b) /\ armed'
  BY DEF IInv, Runs
<1>2. Len(s) \in 1 .. Len(s)
  BY SignatureBytes
<1>3. CASE output[s]
  <2>1. PICK e \in 1 .. Len(shown) : Scattered(s, Len(s), e)
    BY <1>1, <1>3 DEF ReportedIsScattered
  <2> QED
    BY <1>1, <1>2, <2>1, ScatteredStays
<1>4. CASE cmp'[<<s, Len(s)>>]
  BY <1>1, <1>2, <1>4, ScatteredRuns DEF StagesScattered
<1> QED
  BY <1>3, <1>4, OutputRuns

(***************************************************************************)
(* Two bytes in a row differ, since data_in has changed in between.        *)
(***************************************************************************)
LEMMA RepeatRuns ==
  ASSUME IInv, NEW b \in Byte, Runs(b)
  PROVE  NoRepeat'
<1> SUFFICES ASSUME armed, NEW i \in 2 .. Len(shown')
             PROVE  shown'[i - 1] # shown'[i]
  BY DEF NoRepeat, Runs
<1>1. TypeOK /\ NoRepeat /\ LastShown /\ ResetLow /\ shown' = Append(shown, b)
  BY DEF IInv, Runs
<1>2. /\ Len(shown) \in Nat /\ Len(shown') = Len(shown) + 1
      /\ \A j \in 1 .. Len(shown) : shown'[j] = shown[j]
      /\ shown'[Len(shown) + 1] = b
  BY <1>1, ShownGrows
<1>3. CASE i \in 2 .. Len(shown)
  <2>1. i \in 1 .. Len(shown) /\ i - 1 \in 1 .. Len(shown)
    BY <1>2, <1>3
  <2> QED
    BY <1>1, <1>2, <1>3, <2>1 DEF NoRepeat
<1>4. CASE i = Len(shown')
  <2>1. Len(shown) \in 1 .. Len(shown) /\ i - 1 = Len(shown)
    BY <1>2, <1>4
  <2>2. shown # << >>
    BY <2>1
  <2>3. data_in = shown[Len(shown)] /\ b # data_in
    BY <1>1, <2>2 DEF LastShown, ResetLow, Runs
  <2> QED
    BY <1>2, <1>4, <2>1, <2>3
<1> QED
  BY <1>2, <1>3, <1>4

(***************************************************************************)
(* An open match that ends before the new byte was there before it.        *)
(***************************************************************************)
LEMMA ResumedBefore ==
  ASSUME TypeOK, NEW b \in Byte, shown' = Append(shown, b),
         NEW s \in Signatures, NEW k \in 2 .. Len(s), NEW m \in 2 .. k,
         NEW e \in 1 .. Len(shown'), NEW f \in 1 .. Len(shown'),
         Resumed(s, k, e, f)', NEW g \in 1 .. f, e <= g, m > 2 => g = f,
         g + m - 2 <= Len(shown)
  PROVE  e \in 1 .. Len(shown) /\ g \in 1 .. Len(shown) /\ Resumed(s, m, e, g)
<1>1. /\ Len(shown) \in Nat /\ Len(shown') = Len(shown) + 1
      /\ \A j \in 1 .. Len(shown) : shown'[j] = shown[j]
  BY ShownGrows
<1>2. Len(s) \in Nat /\ k \in Nat /\ m \in Nat /\ 2 \in 1 .. Len(s)
  BY SignatureBytes
<1>3. e \in 1 .. Len(shown) /\ g \in 1 .. Len(shown)
  BY <1>1, <1>2
<1>4. /\ ShownAt(s, 2, e)'
      /\ \A p \in e + 1 .. f : shown'[p] # s[1]
      /\ \A i \in 3 .. k : shown'[f + i - 2] = s[i]
      /\ k > 2 => shown'[f] # Zero
  BY DEF Resumed
<1>5. ShownAt(s, 2, e)
  BY <1>2, <1>3, <1>4, ShownAtGrows
<1>6. \A p \in e + 1 .. g : shown[p] # s[1]
  <2> TAKE p \in e + 1 .. g
  <2>1. p \in 1 .. Len(shown) /\ p \in e + 1 .. f
    BY <1>1, <1>3
  <2> QED
    BY <1>1, <1>4, <2>1
<1>7. \A i \in 3 .. m : shown[g + i - 2] = s[i]
  <2> TAKE i \in 3 .. m
  <2>1. g = f /\ i \in 3 .. k /\ g + i - 2 \in 1 .. Len(shown)
    BY <1>1, <1>2, <1>3
  <2> QED
    BY <1>1, <1>4, <2>1
<1>8. m > 2 => shown[g] # Zero
  BY <1>1, <1>2, <1>3, <1>4
<1> QED
  BY <1>3, <1>5, <1>6, <1>7, <1>8 DEF Resumed

(***************************************************************************)
(* A run keeps the second stage of an open match, and brings the next one  *)
(* when its byte is shown.                                                 *)
(***************************************************************************)
LEMMA ResumeRuns ==
  ASSUME IInv, NEW b \in Byte, Runs(b)
  PROVE  StagesResume'
<1> SUFFICES ASSUME armed, NEW s \in Signatures, NEW k \in 2 .. Len(s),
                    NEW e \in 1 .. Len(shown'), NEW f \in 1 .. Len(shown'),
                    Resumed(s, k, e, f)', f + k - 2 = Len(shown')
             PROVE  cmp'[<<s, k>>]
  BY DEF StagesResume, Runs
<1>1. /\ TypeOK /\ StagesResume /\ FirstStageFresh /\ NoRepeat /\ LastShown /\ ResetLow
      /\ shown' = Append(shown, b) /\ cmp' = Compared(b) /\ armed'
  BY DEF IInv, Runs
<1>2. /\ Len(shown) \in Nat /\ Len(shown') = Len(shown) + 1
      /\ \A j \in 1 .. Len(shown) : shown'[j] = shown[j]
      /\ shown'[Len(shown) + 1] = b
  BY <1>1, ShownGrows
<1>3. /\ Len(s) \in Nat /\ k \in Nat /\ k \in 1 .. Len(s) /\ k > 1
      /\ 1 \in 1 .. Len(s) /\ 2 \in 1 .. Len(s) /\ 2 \in 2 .. Len(s)
  BY SignatureBytes
<1>4. /\ ShownAt(s, 2, e)' /\ e <= f
      /\ \A p \in e + 1 .. f : shown'[p] # s[1]
      /\ \A i \in 3 .. k : shown'[f + i - 2] = s[i]
      /\ k > 2 => shown'[f] # Zero
  BY DEF Resumed
<1>5. CASE k = 2 /\ e = Len(shown')
  BY <1>1, <1>3, <1>4, <1>5, CompleteRuns DEF StagesComplete
<1>6. CASE k = 2 /\ e # Len(shown')
  <2>1. f = Len(shown) + 1 /\ e \in 1 .. Len(shown) /\ Len(shown) \in 1 .. Len(shown)
    BY <1>2, <1>6
  <2>2. Resumed(s, 2, e, Len(shown))
    BY <1>1, <1>2, <1>6, <2>1, ResumedBefore
  <2>3. cmp[<<s, 2>>]
    BY <1>1, <1>2, <1>3, <2>1, <2>2 DEF StagesResume
  <2>4. ~ (data_in # Zero /\ cmp[<<s, 1>>])
    <3> SUFFICES ASSUME data_in # Zero, cmp[<<s, 1>>]
                 PROVE  FALSE
      OBVIOUS
    <3>1. ShownAt(s, 1, Len(shown))
      BY <1>1 DEF FirstStageFresh, Enable
    <3>2. shown[Len(shown)] = s[1]
      <4>1. 1 \in 1 .. 1 /\ Len(shown) - 1 + 1 = Len(shown)
        BY <1>2
      <4> QED
        BY <3>1, <4>1 DEF ShownAt
    <3>3. CASE e < Len(shown)
      BY <1>2, <2>1, <2>2, <3>2, <3>3 DEF Resumed
    <3>4. CASE e = Len(shown)
      <4>1. /\ 2 <= e /\ shown[e - 2 + 1] = s[1]
        BY <2>2 DEF Resumed, ShownAt
      <4>2. e - 2 + 1 = e - 1 /\ e \in 2 .. Len(shown)
        BY <1>2, <3>4, <4>1
      <4> QED
        BY <1>1, <3>2, <3>4, <4>1, <4>2 DEF NoRepeat
    <3> QED
      BY <2>1, <3>3, <3>4
  <2>5. Compared(b)[<<s, 2>>] = cmp[<<s, 2>>]
    BY <1>3, <2>4, StageRuns
  <2> QED
    BY <1>1, <1>6, <2>3, <2>5
<1>7. CASE k > 2
  <2>1. /\ f \in 1 .. Len(shown) /\ f + (k - 1) - 2 = Len(shown) /\ k - 1 \in 2 .. k
        /\ k - 1 \in 2 .. Len(s) /\ k - 1 \in 1 .. Len(s) /\ k \in 3 .. k
        /\ Len(shown) >= 1
    BY <1>2, <1>3, <1>7
  <2>2. e \in 1 .. Len(shown) /\ Resumed(s, k - 1, e, f)
    <3>1. f \in 1 .. f /\ f + (k - 1) - 2 <= Len(shown)
      BY <1>2, <2>1
    <3> QED
      BY <1>1, <1>4, <2>1, <3>1, ResumedBefore
  <2>3. cmp[<<s, k - 1>>]
    BY <1>1, <2>1, <2>2 DEF StagesResume
  <2>4. b = s[k]
    <3>1. f + k - 2 = Len(shown) + 1
      BY <1>2
    <3> QED
      BY <1>2, <1>4, <2>1, <3>1
  <2>5. shown[Len(shown)] # Zero
    <3>1. CASE k = 3
      <4>1. f = Len(shown)
        BY <1>2, <2>1, <3>1
      <4> QED
        BY <1>2, <1>4, <1>7, <2>1, <4>1
    <3>2. CASE k # 3
      <4>1. k - 1 \in 3 .. k - 1
        BY <1>3, <1>7, <3>2
      <4>2. shown[f + (k - 1) - 2] = s[k - 1]
        BY <2>2, <4>1 DEF Resumed
      <4> QED
        BY <2>1, <4>2, SignatureBytes
    <3> QED
      BY <3>1, <3>2
  <2>6. data_in = shown[Len(shown)]
    BY <1>1, <2>1, <2>3, HighIsShown
  <2> QED
    BY <1>1, <1>3, <2>3, <2>4, <2>5, <2>6, StageRuns
<1> QED
  BY <1>3, <1>5, <1>6, <1>7

(***************************************************************************)
(* A run reports an open match that the new byte completes.                *)
(***************************************************************************)
LEMMA OpenMatchRuns ==
  ASSUME IInv, NEW b \in Byte, Runs(b)
  PROVE  OpenMatchResumes'
<1> SUFFICES ASSUME armed, NEW s \in Signatures, Len(s) > 2,
                    NEW e \in 1 .. Len(shown'), NEW f \in 1 .. Len(shown'),
                    Resumed(s, Len(s), e, f)'
             PROVE  output'[s]
  BY DEF OpenMatchResumes, Runs
<1>1. TypeOK /\ OpenMatchResumes /\ shown' = Append(shown, b) /\ armed'
  BY DEF IInv, Runs
<1>2. /\ Len(s) \in Nat /\ Len(s) \in 1 .. Len(s) /\ Len(s) \in 2 .. Len(s)
      /\ Len(s) \in 3 .. Len(s) /\ s[Len(s)] # Zero
  BY SignatureBytes
<1>3. /\ Len(shown) \in Nat /\ Len(shown') = Len(shown) + 1
      /\ shown'[Len(shown) + 1] = b
  BY <1>1, ShownGrows
<1>4. /\ f + Len(s) - 2 <= Len(shown') /\ e <= f
      /\ shown'[f + Len(s) - 2] = s[Len(s)]
  BY <1>2 DEF Resumed
<1>5. CASE f + Len(s) - 2 <= Len(shown)
  <2>1. f \in 1 .. f
    BY <1>3
  <2>2. e \in 1 .. Len(shown) /\ f \in 1 .. Len(shown) /\ Resumed(s, Len(s), e, f)
    BY <1>1, <1>2, <1>4, <1>5, <2>1, ResumedBefore
  <2>3. output[s]
    BY <1>1, <2>2 DEF OpenMatchResumes
  <2> QED
    BY <2>3, OutputRuns
<1>6. CASE f + Len(s) - 2 = Len(shown')
  <2>1. cmp'[<<s, Len(s)>>]
    BY <1>1, <1>2, <1>6, ResumeRuns DEF StagesResume
  <2>2. b # Zero
    BY <1>2, <1>3, <1>4, <1>6
  <2> QED
    BY <2>1, <2>2, OutputRuns
<1> QED
  BY <1>2, <1>3, <1>4, <1>5, <1>6

(***************************************************************************)
(* A run of the comparators keeps the invariant.                           *)
(***************************************************************************)
LEMMA RunsKeep ==
  ASSUME IInv, TypeOK', NEW b \in Byte, Runs(b)
  PROVE  IInv'
<1>1. TypeOK /\ shown' = Append(shown, b) /\ data_in' = b /\ ~ reset'
  BY DEF IInv, Runs
<1>2. Len(shown) \in Nat /\ Len(shown') = Len(shown) + 1 /\ shown'[Len(shown) + 1] = b
  BY <1>1, ShownGrows
<1>3. shown' # << >>
  BY <1>2
<1>4. LastShown' /\ ResetLow'
  BY <1>1, <1>2, <1>3 DEF LastShown, ResetLow
<1> QED
  BY <1>4, CompleteRuns, FreshRuns, ScatteredRuns, ReportRuns, OnlyScatteredRuns,
     RepeatRuns, ResumeRuns, OpenMatchRuns DEF IInv

(***************************************************************************)
(* Everything is low and nothing has been shown while the reset is high.   *)
(***************************************************************************)
LEMMA LowIsInvariant ==
  ASSUME TypeOK, ResetLow, ~ reset => ~ armed
  PROVE  IInv
<1>1. CASE reset
  <2>1. /\ cmp = StagesLow /\ output = OutputsLow /\ shown = << >> /\ Len(shown) = 0
    BY <1>1 DEF ResetLow
  <2>2. \A s \in Signatures : \A k \in 1 .. Len(s) :
          ~ cmp[<<s, k>>] /\ ~ ShownAt(s, k, Len(shown))
    <3> TAKE s \in Signatures
    <3> TAKE k \in 1 .. Len(s)
    <3>1. <<s, k>> \in Stage
      BY StageForm
    <3>2. ~ (k <= 0)
      BY SignatureBytes
    <3> QED
      BY <2>1, <3>1, <3>2 DEF StagesLow, ShownAt
  <2>3. \A s \in Signatures : ~ output[s] /\ 1 \in 1 .. Len(s)
    BY <2>1, SignatureBytes DEF OutputsLow
  <2>4. StagesComplete /\ StagesScattered
    BY <2>2 DEF StagesComplete, StagesScattered
  <2>5. FirstStageFresh
    BY <2>2, <2>3 DEF FirstStageFresh
  <2>6. ShownIsReported /\ ReportedIsScattered
    BY <2>1, <2>3 DEF ShownIsReported, ReportedIsScattered
  <2>7. LastShown
    BY <1>1 DEF LastShown
  <2>8. NoRepeat /\ StagesResume /\ OpenMatchResumes
    BY <2>1 DEF NoRepeat, StagesResume, OpenMatchResumes
  <2> QED
    BY <2>4, <2>5, <2>6, <2>7, <2>8 DEF IInv
<1>2. CASE ~ reset
  BY <1>2 DEF IInv, LastShown, StagesComplete, FirstStageFresh, StagesScattered,
              ShownIsReported, ReportedIsScattered, NoRepeat, StagesResume,
              OpenMatchResumes
<1> QED
  BY <1>1, <1>2

(***************************************************************************)
(* A step into such a state.                                               *)
(***************************************************************************)
LEMMA LowNext == TypeOK' /\ ResetLow' /\ reset' => IInv'
<1>1. TypeOK /\ ResetLow /\ reset => IInv
  BY LowIsInvariant
<1> QED
  BY <1>1, PTL

(***************************************************************************)
(* Power-up satisfies the invariant.                                       *)
(***************************************************************************)
LEMMA IInvInit == Init => IInv
<1> SUFFICES ASSUME Init
             PROVE  IInv
  OBVIOUS
<1>1. ResetLow /\ (~ reset => ~ armed)
  BY DEF Init, ResetLow
<1> QED
  BY <1>1, TypeInit, LowIsInvariant

(***************************************************************************)
(* Every step keeps the invariant.                                         *)
(***************************************************************************)
LEMMA IInvStep == IInv /\ [Next]_vars => IInv'
<1> SUFFICES ASSUME IInv, [Next]_vars
             PROVE  IInv'
  OBVIOUS
<1>1. TypeOK /\ TypeOK'
  BY TypeStep DEF IInv
<1>2. ASSUME NEW b \in Byte, Change(b), ~ reset
      PROVE  IInv'
  BY <1>1, <1>2, RunSteps, RunsKeep DEF IInv
<1>3. ASSUME NEW b \in Byte, Change(b), reset
      PROVE  IInv'
  <2>1. ResetLow' /\ reset'
    BY <1>3 DEF Change, IInv, ResetLow
  <2> QED
    BY <1>1, <2>1, LowNext
<1>4. CASE AssertReset
  <2>1. ResetLow' /\ reset'
    BY <1>4 DEF AssertReset, ResetLow
  <2> QED
    BY <1>1, <2>1, LowNext
<1>5. CASE ReleaseReset
  BY <1>1, <1>5, RunSteps, RunsKeep DEF IInv
<1>6. CASE UNCHANGED vars
  <2>1. /\ ResetLow' /\ LastShown' /\ StagesComplete' /\ FirstStageFresh'
    BY <1>6 DEF IInv, vars, ResetLow, LastShown, StagesComplete, FirstStageFresh, ShownAt
  <2>2. ShownIsReported'
    BY <1>6 DEF IInv, vars, ShownIsReported, ShownAt
  <2>3. /\ shown' = shown /\ cmp' = cmp /\ output' = output /\ armed' = armed
    BY <1>6 DEF vars
  <2>4. ASSUME NEW s, NEW k, NEW e, Scattered(s, k, e)
        PROVE  Scattered(s, k, e)'
    BY <2>3, <2>4 DEF Scattered
  <2>5. StagesScattered' /\ ReportedIsScattered'
    BY <2>3, <2>4 DEF IInv, StagesScattered, ReportedIsScattered
  <2>6. NoRepeat'
    BY <2>3 DEF IInv, NoRepeat
  <2>7. ASSUME NEW s, NEW k, NEW e, NEW f, Resumed(s, k, e, f)'
        PROVE  Resumed(s, k, e, f)
    BY <2>3, <2>7 DEF Resumed, ShownAt
  <2>8. StagesResume'
    BY <2>3, <2>7 DEF IInv, StagesResume
  <2>9. OpenMatchResumes'
    BY <2>3, <2>7 DEF IInv, OpenMatchResumes
  <2> QED
    BY <1>1, <2>1, <2>2, <2>5, <2>6, <2>8, <2>9 DEF IInv
<1> QED
  BY <1>2, <1>3, <1>4, <1>5, <1>6 DEF Next

(***************************************************************************)
(* The inductive invariant holds.                                          *)
(***************************************************************************)
LEMMA IInvHolds == Spec => []IInv
BY IInvInit, IInvStep, PTL DEF Spec

-----------------------------------------------------------------------------
(***************************************************************************)
(* A signature that is shown is reported at once.                          *)
(***************************************************************************)
THEOREM TriggeredShownIsReported == Spec => []ShownIsReported
BY IInvHolds, PTL DEF IInv

(***************************************************************************)
(* A signature is reported only if its bytes were shown in order, the      *)
(* first two of them next to each other.                                   *)
(***************************************************************************)
THEOREM TriggeredReportedIsScattered == Spec => []ReportedIsScattered
BY IInvHolds, PTL DEF IInv

(***************************************************************************)
(* Signatures of at most two bytes are reported only if they were shown.   *)
(***************************************************************************)
THEOREM TriggeredShortSignaturesExact == Spec => []ShortSignaturesExact
<1>1. IInv => ShortSignaturesExact
  <2> SUFFICES ASSUME IInv, armed, NEW s \in Signatures, Len(s) <= 2, output[s]
               PROVE  \E e \in 1 .. Len(shown) : ShownAt(s, Len(s), e)
    BY DEF ShortSignaturesExact
  <2>1. PICK e \in 1 .. Len(shown) : Scattered(s, Len(s), e)
    BY DEF IInv, ReportedIsScattered
  <2>2. PICK pos \in [1 .. Len(s) -> 1 .. Len(shown)] :
          /\ \A i \in 1 .. Len(s) : shown[pos[i]] = s[i]
          /\ Len(s) > 1 => pos[2] = pos[1] + 1
          /\ pos[Len(s)] = e
    BY <2>1 DEF Scattered
  <2>3. Len(s) = 1 \/ Len(s) = 2
    <3>1. Len(s) \in Nat /\ (Len(s) = 1 \/ Len(s) > 1)
      BY SignatureBytes
    <3>2. \A n \in Nat : n > 1 /\ n <= 2 => n = 2
      OBVIOUS
    <3> QED
      BY <3>1, <3>2
  <2>4. CASE Len(s) = 1
    <3>1. 1 \in 1 .. Len(s) /\ pos[1] = e /\ shown[e] = s[1]
      BY <2>2, <2>4
    <3>2. \A i \in 1 .. 1 : i = 1 /\ e - 1 + i = e
      OBVIOUS
    <3>3. ShownAt(s, 1, e)
      BY <3>1, <3>2 DEF ShownAt
    <3> QED
      BY <2>4, <3>3
  <2>5. CASE Len(s) = 2
    <3>1. 1 \in 1 .. Len(s) /\ 2 \in 1 .. Len(s)
      BY <2>5
    <3>2. /\ pos[2] = e /\ pos[1] \in 1 .. Len(shown) /\ pos[2] = pos[1] + 1
          /\ shown[pos[1]] = s[1] /\ shown[e] = s[2]
      BY <2>2, <2>5, <3>1
    <3>3. e >= 2 /\ pos[1] = e - 1
      BY <3>2
    <3>4. \A i \in 1 .. 2 : \/ i = 1 /\ e - 2 + i = e - 1
                            \/ i = 2 /\ e - 2 + i = e
      OBVIOUS
    <3>5. ShownAt(s, 2, e)
      BY <3>2, <3>3, <3>4 DEF ShownAt
    <3> QED
      BY <2>5, <3>5
  <2> QED
    BY <2>3, <2>4, <2>5
<1> QED
  BY <1>1, IInvHolds, PTL

(***************************************************************************)
(* An open match is completed by its other bytes.                          *)
(***************************************************************************)
THEOREM TriggeredOpenMatchResumes == Spec => []OpenMatchResumes
BY IInvHolds, PTL DEF IInv

(***************************************************************************)
(* A signature that begins with a doubled byte is never reported.          *)
(***************************************************************************)
THEOREM TriggeredDoubledStart == Spec => []DoubledStartNeverReported
<1>1. IInv => DoubledStartNeverReported
  <2> SUFFICES ASSUME IInv, armed, NEW s \in Signatures, Len(s) > 1, s[1] = s[2], output[s]
               PROVE  FALSE
    BY DEF DoubledStartNeverReported
  <2>1. PICK e \in 1 .. Len(shown) : Scattered(s, Len(s), e)
    BY DEF IInv, ReportedIsScattered
  <2>2. PICK pos \in [1 .. Len(s) -> 1 .. Len(shown)] :
          /\ \A i \in 1 .. Len(s) : shown[pos[i]] = s[i]
          /\ pos[2] = pos[1] + 1
    BY <2>1 DEF Scattered
  <2>3. 1 \in 1 .. Len(s) /\ 2 \in 1 .. Len(s)
    BY SignatureBytes
  <2>4. /\ pos[1] \in 1 .. Len(shown) /\ pos[2] \in 1 .. Len(shown)
        /\ shown[pos[1]] = s[1] /\ shown[pos[2]] = s[2]
    BY <2>2, <2>3
  <2>5. pos[2] \in 2 .. Len(shown) /\ pos[2] - 1 = pos[1]
    BY <2>2, <2>4
  <2> QED
    BY <2>4, <2>5 DEF IInv, NoRepeat
<1> QED
  BY <1>1, IInvHolds, PTL

=============================================================================
