--------------------- MODULE MCSequenceFinderController ---------------------
(***************************************************************************)
(* SequenceFinderController for TLC: registers of two bytes; targets of    *)
(* one, two and three bytes; both meanings of the processes.               *)
(***************************************************************************)
EXTENDS SequenceFinderController

MCByte == 0 .. 2
MCFirsts == { <<1, 0>>, <<1, 2>> }
MCSeconds == { <<0, 0>>, <<1, 0>> }
MCItems == { 1, 2 }

=============================================================================
