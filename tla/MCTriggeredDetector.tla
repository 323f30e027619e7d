------------------------- MODULE MCTriggeredDetector -------------------------
(***************************************************************************)
(* TriggeredDetector for TLC: signatures of one, two and four bytes; one   *)
(* has its first byte twice, another is a doubled byte.                    *)
(***************************************************************************)
EXTENDS TriggeredDetector

MCByte == {"-", "a", "b", "c"}

MCSignatures == { <<"a", "b", "a", "c">>, <<"a", "a">>, <<"b", "c">>, <<"c">> }

=============================================================================
