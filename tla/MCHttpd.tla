------------------------------ MODULE MCHttpd ------------------------------
(* Either two connections whose POSTs overlap in any way, or one that      *)
(* makes every kind of request; a send buffer that holds less than a       *)
(* response, so that every response is sent in parts.                      *)
EXTENDS Httpd

CONSTANTS c1, c2

MCConns == {c1, c2}
MCBlocks == 1..6
MCContentLens == {0, 2}
MCAll == {"part", "bad", "host", "get", "post", "no_handler", "chain", "short"}
MCRequests == {[c \in MCConns |-> {"post"}], [c \in MCConns |-> IF c = c1 THEN MCAll ELSE {}]}
MCMaxRecv == [c \in MCConns |-> IF c = c1 THEN 2 ELSE 1]
=============================================================================
