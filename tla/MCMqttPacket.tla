--------------------------- MODULE MCMqttPacket ---------------------------
(* Instance of MqttPacket: every packet type with every combination of     *)
(* optional fields; payloads around the border of a two-byte length field. *)
EXTENDS MqttPacket

CONSTANT Border   \* payload lengths that put the remaining length around 127

Str(n) == [i \in 1..n |-> 96 + i]
Optional == {MQTTString_initializer, CString(<<>>), CString(Str(2)), LenString(Str(1))}

Connects ==
    [type : {CONNECT}, MQTTVersion : {3, 4}, clientID : {CString(Str(1))},
     keepAliveInterval : {60}, cleansession : {1}, willFlag : {0, 1}, willQoS : {2}, willRetain : {1},
     topicName : {CString(Str(1))}, message : {CString(<<>>)},
     username : Optional, password : Optional]

Publishes ==
    [type : {PUBLISH}, dup : {0, 1}, qos : 0..2, retained : {0, 1}, packetid : {1, 65535},
     topicName : {CString(Str(2))}, payload : {<<>>, Str(2)}]
    \cup [type : {PUBLISH}, dup : {0}, qos : {1}, retained : {0}, packetid : {258},
          topicName : {CString(Str(1))}, payload : {Str(n) : n \in Border}]

Subscribes ==
    UNION {[type : {SUBSCRIBE}, dup : {0}, packetid : {513},
            topicFilters : [1..n -> {CString(Str(1)), CString(<<>>)}],
            requestedQoSs : [1..n -> {0, 2}]] : n \in 0..2}

Unsubscribes ==
    UNION {[type : {UNSUBSCRIBE}, dup : {1}, packetid : {513},
            topicFilters : [1..n -> {CString(Str(1)), LenString(Str(2))}]] : n \in 0..2}

Others ==
    [type : Acks, dup : {0, 1}, packetid : {1, 65535}]
    \cup [type : {CONNACK}, sessionPresent : {0, 1}, connack_rc : {0, 5}]
    \cup [type : {SUBACK}, packetid : {258}, grantedQoSs : {<<>>, <<1>>, <<2, 128>>}]
    \cup [type : {UNSUBACK}, packetid : {258}]
    \cup [type : {PINGREQ, DISCONNECT}]

MCMessages == Connects \cup Publishes \cup Subscribes \cup Unsubscribes \cup Others

(* Length fields of one to five bytes, with the value 1 where they end, and*)
(* lengths that do not fit the receive buffer.                             *)
MCNoise ==
    {<<48>> \o [i \in 1..n |-> 128] \o <<c, 1, 2, 3, 4>> : n \in 0..4, c \in {0, 1, 3, 127, 128}}
MCSlack == -1..1
=============================================================================
