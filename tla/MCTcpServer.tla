---------------------------- MODULE MCTcpServer ----------------------------
(***************************************************************************)
(* TcpServer for TLC: seven bytes in segments of up to three, a window of  *)
(* six (its half and its quarter, the thresholds of tcp_recved, differ     *)
(* and are smaller than the segment size), numbers modulo 64.  Once the    *)
(* numbers of the data do not wrap, once they do.                          *)
(***************************************************************************)
EXTENDS TcpServer

=============================================================================
