------------------------------ MODULE MCDevice ------------------------------
(* Forms that change the network, only what is published, the broker, or   *)
(* which sensors are enabled; a short and a long password; one more        *)
(* network in the air than the list holds.                                 *)
EXTENDS Device

Home == [conn |-> "WIFI", ssid |-> "home", auth |-> 5, dhcp |-> TRUE, eth_dhcp |-> TRUE, mqtt |-> 0,
         enabled |-> <<TRUE, FALSE, FALSE>>, publish |-> [is_num |-> TRUE, avg_cnt |-> 180]]

MCForms == {Home, [Home EXCEPT !.mqtt = 1],
            [Home EXCEPT !.publish = [is_num |-> FALSE, avg_cnt |-> 180]],
            [Home EXCEPT !.dhcp = FALSE, !.auth = 4],
            [Home EXCEPT !.conn = "ETHERNET", !.eth_dhcp = FALSE, !.enabled = <<TRUE, FALSE, TRUE>>]}
MCShort == {"abc"}
MCLong == {"abcdefgh"}
=============================================================================
