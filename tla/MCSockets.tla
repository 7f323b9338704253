------------------------------ MODULE MCSockets ------------------------------
(* Keys that leave room for the padding in their last block (19 bytes, with *)
(* the GUID) and keys that do not (20, and 24 as clients send them);        *)
(* frames of each type with both forms of the length; messages on both      *)
(* sides of the short length and of the send buffer.                        *)
EXTENDS Sockets

\* Stands for the compression function: every byte of the block counts.
MCTransform(h, block) ==
    [i \in 1..20 |-> (h[i] + 3 * block[i] + 5 * block[i + 20] + 7 * block[i + 40]
                          + 11 * block[60 + (i % 4) + 1]) % 256]

Key(n) == [i \in 1..n |-> (17 * i) % 251]
MCRequests ==
    {[get |-> TRUE, key |-> Key(n), ends |-> TRUE] : n \in {19, 20, 24}}
    \cup {[get |-> FALSE, key |-> Key(24), ends |-> TRUE],
          [get |-> TRUE, key |-> Key(24), ends |-> FALSE], [get |-> TRUE, key |-> NULL, ends |-> TRUE]}

Frame(fin, type, long, payload) ==
    [fin |-> fin, type |-> type, long |-> long, mask |-> <<200, 3, 77, 140>>, payload |-> payload]
MCClientFrames ==
    {Frame(TRUE, WS_TYPE_TEXT, long, <<1, 2, 255, 128, 9>>) : long \in BOOLEAN}
    \cup {Frame(FALSE, WS_TYPE_TEXT, FALSE, <<7>>), Frame(TRUE, WS_TYPE_PING, FALSE, <<5>>),
          Frame(TRUE, WS_TYPE_PONG, FALSE, <<>>), Frame(TRUE, WS_TYPE_CLOSE, FALSE, <<3, 232>>)}
=============================================================================
