---------------------------- MODULE MCEmacLiteIf ----------------------------
(***************************************************************************)
(* EmacLiteIf for TLC.  The values of the constants are in the .cfg files: *)
(* a pool smaller than a queue, as in the code, and more frames than pbufs.*)
(***************************************************************************)
EXTENDS EmacLiteIf
=============================================================================
