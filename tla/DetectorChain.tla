---------------------------- MODULE DetectorChain ----------------------------
(***************************************************************************)
(* The matching chains, common to every generated detector.  Signature s   *)
(* of length n becomes n stages.  Stage k holds one flip-flop (FF.vhd) and *)
(* one combinational comparator with byte k of s (byte_compare.vhd); the   *)
(* flip-flop of stage 1 is fed with '1', that of stage k+1 with the AND of *)
(* flip-flop and comparator of stage k.  The generator counts stages from  *)
(* 0, this module from 1.                                                  *)
(***************************************************************************)
EXTENDS SignatureSet

VARIABLES
  data_in,  \* the data input
  ff        \* ff[<<s, k>>]: output of the flip-flop of stage k of signature s

\* One stage per byte of every signature.
Stage == UNION { {s} \X (1 .. Len(s)) : s \in Signatures }

AllLow == [s \in Signatures |-> FALSE]

\* byte_compare of stage k of signature s.
Cmp(s, k) == data_in = s[k]

\* The AND gate of stage k of signature s.
OutAnd(s, k) == ff[<<s, k>>] /\ Cmp(s, k)

\* The AND gate of the last stage.
IsMatching(s) == OutAnd(s, Len(s))

\* Slips of a generator: the AND gates left out, so that only the comparator
\* of the stage before counts; and a loop that ends one stage early.
ShiftedWithoutAnd == [st \in Stage |-> LET s == st[1] k == st[2]
                                      IN  k = 1 \/ Cmp(s, k - 1)]

ShiftedShort == [st \in { t \in Stage : t[2] < Len(t[1]) } |->
                   LET s == st[1] k == st[2] IN k = 1 \/ OutAnd(s, k - 1)]

\* What the flip-flops load at the next edge.
Shifted == [st \in Stage |-> LET s == st[1] k == st[2]
                            IN  k = 1 \/ OutAnd(s, k - 1)]

\* A slip: the generator wires flip-flops for the first stages only.
ChainClearedShort == [st \in { t \in Stage : t[2] = 1 } |-> FALSE]

\* The flip-flops of all stages low, as a reset leaves them.
ChainCleared == [st \in Stage |-> FALSE]

=============================================================================
