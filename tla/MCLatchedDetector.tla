-------------------------- MODULE MCLatchedDetector --------------------------
(***************************************************************************)
(* LatchedDetector for TLC: a signature that overlaps itself and one that  *)
(* ends in a repeated byte.                                                *)
(***************************************************************************)
EXTENDS LatchedDetector

MCByte == {"a", "b"}

MCSignatures == { <<"a", "b", "a">>, <<"b", "b">> }

=============================================================================
