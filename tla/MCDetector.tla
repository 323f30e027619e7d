----------------------------- MODULE MCDetector -----------------------------
(***************************************************************************)
(* Detector for TLC: a signature with a repeated first byte, one that      *)
(* overlaps itself, and a single byte (a chain of one stage).              *)
(***************************************************************************)
EXTENDS Detector

MCByte == {"a", "b"}

MCSignatures == { <<"a", "a", "b">>, <<"a", "b", "a">>, <<"b">> }

=============================================================================
