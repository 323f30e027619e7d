---------------------------- MODULE SignatureSet ----------------------------
(***************************************************************************)
(* The signatures a detector is generated from, and what it means for one  *)
(* of them to occur in a stream of bytes.  Shared by the abstract matcher  *)
(* and the detectors.                                                      *)
(***************************************************************************)
EXTENDS Integers, Sequences

CONSTANTS
  Byte,        \* the values of data_in (std_logic_vector(7 downto 0) in the code)
  Signatures,  \* the lines of the generator's input file, as byte strings
  MaxEdges     \* bound: clock edges with the reset low between two resets

ASSUME SignaturesAssumption ==
  /\ Signatures \subseteq Seq(Byte)
  /\ << >> \notin Signatures

ASSUME MaxEdgesAssumption == MaxEdges \in Nat

(***************************************************************************)
(* sig is the piece of str that ends at position e and does not include    *)
(* the first byte of str.                                                  *)
(***************************************************************************)
EndsAt(sig, str, e) ==
  /\ Len(sig) < e
  /\ e <= Len(str)
  /\ \A i \in 1 .. Len(sig) : str[e - Len(sig) + i] = sig[i]

(***************************************************************************)
(* str has at least n bytes and its last n-1 bytes are the first n-1 bytes *)
(* of sig: the match of sig is open to its n-th byte.                      *)
(***************************************************************************)
OpenAt(sig, str, n) ==
  /\ n <= Len(str)
  /\ \A i \in 1 .. n - 1 : str[Len(str) - (n - 1) + i] = sig[i]

\* sig has occurred in the first n bytes of str.
OccursBy(sig, str, n) == \E e \in 1 .. n : EndsAt(sig, str, e)

=============================================================================
