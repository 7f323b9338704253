---------------------------- MODULE MCMqttSession ---------------------------
(* Two messages each way, QoS 1 and 2 out and QoS 2 in; two identifiers;   *)
(* topics of up to three levels over two words.                            *)
EXTENDS MqttSession

CONSTANTS p1, p2, m1, m2

MCQos == [m \in {p1, p2, m1, m2} |-> IF m = p1 THEN 1 ELSE 2]
MCFilters == {<<1, SEP, PLUS>>, <<PLUS, SEP, 2, 1, SEP, HASH>>}
MCTopicNames ==
    LET level == {<<1>>, <<2, 1>>}
    IN  level \cup {a \o <<SEP>> \o b : a, b \in level}
              \cup {a \o <<SEP>> \o b \o <<SEP, 2>> : a, b \in level}
=============================================================================
