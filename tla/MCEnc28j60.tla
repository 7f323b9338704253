--------------------------- MODULE MCEnc28j60 ----------------------------
(* A receive buffer that three short frames fill and wrap around, three    *)
(* frames to send, one link change besides the first, one misread header.  *)
EXTENDS Enc28j60

MCLengths == {1, 2}
=============================================================================
