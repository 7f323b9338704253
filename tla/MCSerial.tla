------------------------------ MODULE MCSerial ------------------------------
(***************************************************************************)
(* A ring of five slots: long enough for two short lines, short enough for *)
(* the nearly-full branch, the full ring and the wrap of both pointers.    *)
(***************************************************************************)
EXTENDS Serial
=============================================================================
