------------------------ MODULE DetectorChainProofs ------------------------
(***************************************************************************)
(* What the chains and the definitions of SignatureSet are about, proved   *)
(* once for all detectors that are built of them.                          *)
(***************************************************************************)
EXTENDS DetectorChain, TLAPS

(***************************************************************************)
(* Signatures are sequences of positive length.                            *)
(***************************************************************************)
LEMMA SignatureLength ==
  ASSUME NEW s \in Signatures
  PROVE  s \in Seq(Byte) /\ Len(s) \in Nat /\ Len(s) >= 1
<1>1. s \in Seq(Byte) /\ s # << >>
  BY SignaturesAssumption
<1>2. Len(s) \in Nat
  BY <1>1
<1>3. Len(s) # 0
  BY <1>1
<1> QED
  BY <1>1, <1>2, <1>3

(***************************************************************************)
(* The stages are the pairs of a signature and one of its positions.       *)
(***************************************************************************)
LEMMA StageForm ==
  ASSUME NEW s, NEW k
  PROVE  <<s, k>> \in Stage <=> s \in Signatures /\ k \in 1 .. Len(s)
BY DEF Stage

(***************************************************************************)
(* A stage is such a pair (byte_compare and FF are instantiated once per   *)
(* position of each signature).                                            *)
(***************************************************************************)
LEMMA StagePair ==
  ASSUME NEW st \in Stage
  PROVE  \E s \in Signatures : \E k \in 1 .. Len(s) : st = <<s, k>>
BY DEF Stage

(***************************************************************************)
(* One edge moves the matched prefixes one byte further: the heart of the  *)
(* argument, about byte strings only.                                      *)
(***************************************************************************)
LEMMA OpenGrows ==
  ASSUME NEW str \in Seq(Byte), NEW b \in Byte,
         NEW s \in Seq(Byte), NEW k \in 2 .. Len(s) + 1
  PROVE  OpenAt(s, Append(str, b), k) <=> OpenAt(s, str, k - 1) /\ b = s[k - 1]
<1> DEFINE longer == Append(str, b)
<1>1. Len(longer) = Len(str) + 1 /\ longer[Len(str) + 1] = b
  OBVIOUS
<1>2. ASSUME k - 1 <= Len(str), NEW i \in 1 .. k - 2
      PROVE  longer[Len(longer) - (k - 1) + i] = str[Len(str) - (k - 2) + i]
  <2>1. Len(str) - (k - 2) + i \in 1 .. Len(str)
    BY <1>2
  <2>2. Len(longer) - (k - 1) + i = Len(str) - (k - 2) + i
    BY <1>1
  <2> QED
    BY <2>1, <2>2
<1>3. /\ 1 .. k - 1 = (1 .. k - 2) \cup {k - 1}
      /\ Len(longer) - (k - 1) + (k - 1) = Len(str) + 1
      /\ (k - 1) - 1 = k - 2
      /\ k <= Len(longer) <=> k - 1 <= Len(str)
  BY <1>1
<1> HIDE DEF longer
<1>4. OpenAt(s, longer, k) <=> OpenAt(s, str, k - 1) /\ b = s[k - 1]
  BY <1>1, <1>2, <1>3 DEF OpenAt
<1> QED
  BY <1>4 DEF longer

(***************************************************************************)
(* The first stage is open as soon as one byte has been taken.             *)
(***************************************************************************)
LEMMA OpenFirst ==
  ASSUME NEW str \in Seq(Byte), NEW s
  PROVE  OpenAt(s, str, 1) <=> Len(str) >= 1
BY DEF OpenAt

(***************************************************************************)
(* A signature ends at the newest byte exactly if the stage after its last *)
(* byte would be open.                                                     *)
(***************************************************************************)
LEMMA EndsIsOpen ==
  ASSUME NEW str \in Seq(Byte), NEW s \in Seq(Byte)
  PROVE  EndsAt(s, str, Len(str)) <=> OpenAt(s, str, Len(s) + 1)
<1>1. /\ Len(s) < Len(str) <=> Len(s) + 1 <= Len(str)
      /\ (Len(s) + 1) - 1 = Len(s)
  OBVIOUS
<1> QED
  BY <1>1 DEF EndsAt, OpenAt

(***************************************************************************)
(* A new byte adds at most the occurrence that ends at it.                 *)
(***************************************************************************)
LEMMA OccursGrows ==
  ASSUME NEW str \in Seq(Byte), NEW b \in Byte, NEW s \in Seq(Byte)
  PROVE  /\ OccursBy(s, Append(str, b), Len(str)) <=> OccursBy(s, str, Len(str))
         /\ OccursBy(s, Append(str, b), Len(str) + 1)
              <=> \/ OccursBy(s, str, Len(str))
                  \/ EndsAt(s, Append(str, b), Len(str) + 1)
<1>1. ASSUME NEW e \in 1 .. Len(str)
      PROVE  EndsAt(s, Append(str, b), e) <=> EndsAt(s, str, e)
  <2>1. CASE Len(s) < e
    <3>1. ASSUME NEW i \in 1 .. Len(s)
          PROVE  Append(str, b)[e - Len(s) + i] = str[e - Len(s) + i]
      <4>1. e - Len(s) + i \in 1 .. Len(str)
        BY <2>1
      <4> QED
        BY <4>1
    <3>2. e <= Len(Append(str, b)) /\ e <= Len(str)
      OBVIOUS
    <3> QED
      BY <3>1, <3>2 DEF EndsAt
  <2>2. CASE ~ (Len(s) < e)
    BY <2>2 DEF EndsAt
  <2> QED
    BY <2>1, <2>2
<1>2. 1 .. Len(str) + 1 = (1 .. Len(str)) \cup {Len(str) + 1}
  OBVIOUS
<1> QED
  BY <1>1, <1>2 DEF OccursBy

(***************************************************************************)
(* No signature has occurred before the first byte was taken, and none is  *)
(* complete with the first byte: a chain opens at its first edge.          *)
(***************************************************************************)
LEMMA NothingOccursInEmpty ==
  ASSUME NEW s
  PROVE  ~ OccursBy(s, << >>, 0) /\ ~ OccursBy(s, << >>, -1)
BY DEF OccursBy

=============================================================================
