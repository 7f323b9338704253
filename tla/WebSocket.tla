------------------------------ MODULE WebSocket ------------------------------
(***************************************************************************)
(* src/websocket.cpp, what goes over the connection: the answer to the     *)
(* handshake, the frames the server sends and how it takes a received one  *)
(* apart.  A received buffer is a sequence of bytes.  What is sent is a    *)
(* sequence of items: a byte is <<b>>, and the text of a message is one    *)
(* item, <<message, size>>.                                                *)
(***************************************************************************)
EXTENDS Crypto

CONSTANT NULL

WS_GUID == [i \in 1..36 |-> 40 + i]
WS_FIN_FLAG == 128
WS_MASKED_FLAG == 128
WS_TYPE_TEXT == 1
WS_TYPE_CLOSE == 8
WS_TYPE_PING == 9
WS_TYPE_PONG == 10
WS_SEND_BUFFER_SIZE == 512
WS_RECV_BUFFER_SIZE == 512

-----------------------------------------------------------------------------
(* The handshake. *)

CONCAT_KEY == 128

(* request: whether it starts with GET /, the key and whether its line     *)
(* ends.                                                                   *)
get_key(request) == IF request.ends THEN request.key ELSE NULL

create_key_accept(request) ==
    LET key  == get_key(request)
        room == CONCAT_KEY - Len(WS_GUID) - 1
        copy == SubSeq(key, 1, IF Len(key) < room THEN Len(key) ELSE room)
    IN  IF key = NULL THEN NULL
        ELSE base64_encode(sha1_final(sha1_update(sha1_init, copy \o WS_GUID)))

process_handshake(request) == IF request.get THEN create_key_accept(request) ELSE NULL

-----------------------------------------------------------------------------
(* Frames sent. *)

Wire(bytes) == [i \in DOMAIN bytes |-> <<bytes[i]>>]

set_size_to_frame_one_more(size) ==
    IF size < 127 THEN <<size>>
    ELSE <<126, (size \div 256) % 256, size % 256>>

set_size_to_frame(size) ==
    IF size < 126 THEN <<size>>
    ELSE IF size < 65536 THEN <<126, (size \div 256) % 256, size % 256>>
    ELSE <<127>> \o Zeros(6) \o <<(size \div 256) % 256, size % 256>>

MessageFits(m) == m[2] + 10 <= WS_SEND_BUFFER_SIZE

(* The frame send_message puts together. *)
MessageFrame(m) == Wire(<<WS_TYPE_TEXT + WS_FIN_FLAG>> \o set_size_to_frame(m[2])) \o <<m>>

pong_frame == Wire(<<WS_FIN_FLAG + WS_TYPE_PONG, 0>>)
close_frame == Wire(<<WS_FIN_FLAG + WS_TYPE_CLOSE, 0>>)

-----------------------------------------------------------------------------
(* Frames received: msg[i] of the code is at i + 1. *)

LenByte(msg) == msg[2] % 128
is_masked_msg(msg) == msg[2] >= WS_MASKED_FLAG
is_fin_msg(msg) == msg[1] >= WS_FIN_FLAG
Type(msg) == msg[1] % 16

get_message_len(msg) ==
    CASE LenByte(msg) = 126 -> msg[3] * 256 + msg[4]
      [] LenByte(msg) = 127 -> 0
      [] OTHER -> LenByte(msg)

(* Offset behind the length. *)
LengthEnd(msg) ==
    CASE LenByte(msg) = 126 -> 4
      [] LenByte(msg) = 127 -> 10
      [] OTHER -> 2

get_mask(msg) == SubSeq(msg, LengthEnd(msg) + 1, LengthEnd(msg) + 4)
get_payload_ptr(msg) == LengthEnd(msg) + IF is_masked_msg(msg) THEN 4 ELSE 0

(* The exclusive or of two bytes. *)
BitOf(a, w) == (a \div w) % 2
XorBit(a, b, w) == w * ((BitOf(a, w) + BitOf(b, w)) % 2)
Xor(a, b) ==
    XorBit(a, b, 1) + XorBit(a, b, 2) + XorBit(a, b, 4) + XorBit(a, b, 8)
    + XorBit(a, b, 16) + XorBit(a, b, 32) + XorBit(a, b, 64) + XorBit(a, b, 128)

unmask_message_payload(pld, mask) == [i \in DOMAIN pld |-> Xor(mask[((i - 1) % 4) + 1], pld[i])]

(* Enough for the header. *)
HasHeader(msg) == Len(msg) >= 2 /\ Len(msg) >= get_payload_ptr(msg)

(* The payload handed to msg_handler.  recv_buf is zero behind what was    *)
(* received.                                                               *)
Payload(msg) ==
    LET at   == get_payload_ptr(msg)
        recv == msg \o Zeros(WS_RECV_BUFFER_SIZE - Len(msg))
        pld  == SubSeq(recv, at + 1, at + get_message_len(msg))
    IN  IF is_masked_msg(msg) THEN unmask_message_payload(pld, get_mask(msg)) ELSE pld

-----------------------------------------------------------------------------
(* The client's side (external), after RFC 6455. *)

(* A frame of a client, its length in the short form or in the 16 bit one. *)
ClientFrame(f) ==
    <<f.type + IF f.fin THEN WS_FIN_FLAG ELSE 0>>
    \o (IF f.long THEN <<126 + WS_MASKED_FLAG, Len(f.payload) \div 256, Len(f.payload) % 256>>
        ELSE <<Len(f.payload) + WS_MASKED_FLAG>>)
    \o f.mask
    \o [i \in DOMAIN f.payload |-> Xor(f.payload[i], f.mask[((i - 1) % 4) + 1])]

(* The frame that starts at item i of a stream: its header, where its text *)
(* is, its size, whether it is whole and what is behind it.                *)
IsByte(s, i) == i <= Len(s) /\ Len(s[i]) = 1
IsLong(s, i) == s[i + 1][1] % 128 = 126
HeaderAt(s, i) ==
    IsByte(s, i) /\ IsByte(s, i + 1) /\ (IsLong(s, i) => IsByte(s, i + 2) /\ IsByte(s, i + 3))
TextAt(s, i) == i + IF IsLong(s, i) THEN 4 ELSE 2
SizeAt(s, i) == IF IsLong(s, i) THEN 256 * s[i + 2][1] + s[i + 3][1] ELSE s[i + 1][1]
TypeAt(s, i) == s[i][1] % 16
IsWhole(s, i) ==
    /\ HeaderAt(s, i)
    /\ SizeAt(s, i) # 0 =>
          TextAt(s, i) <= Len(s) /\ Len(s[TextAt(s, i)]) = 2 /\ s[TextAt(s, i)][2] = SizeAt(s, i)
Behind(s, i) == TextAt(s, i) + IF SizeAt(s, i) = 0 THEN 0 ELSE 1

(* Where the client finds frames in a stream, its end included. *)
Further(s, found) == found \cup {Behind(s, i) : i \in {j \in found : IsWhole(s, j)}}
FrameStarts(s) ==
    LET starts[k \in 0..Len(s)] == IF k = 0 THEN {1} ELSE Further(s, starts[k - 1])
    IN  starts[Len(s)]
=============================================================================
