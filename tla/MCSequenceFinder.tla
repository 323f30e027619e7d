-------------------------- MODULE MCSequenceFinder --------------------------
(***************************************************************************)
(* SequenceFinder for TLC: registers of four bytes; targets of every       *)
(* length from none to four, with and without repetitions, among them two  *)
(* that cannot be restarted from one remembered byte.                      *)
(***************************************************************************)
EXTENDS SequenceFinder

MCByte == 0 .. 2

MCTargets == { <<0, 0, 0, 0>>, <<1, 0, 0, 0>>, <<1, 1, 0, 0>>, <<1, 2, 0, 0>>,
               <<1, 2, 1, 0>>, <<1, 1, 2, 0>>, <<1, 2, 2, 1>>, <<1, 2, 1, 1>> }

=============================================================================
