------------------------------- MODULE MCMqtt -------------------------------
(* The MQTT client with short packets and a small send buffer, for TLC.    *)
EXTENDS Mqtt

OneConn == {1}
ShortPackets == [CONNECT |-> 2, SUBSCRIBE |-> 1, PUBLISH |-> 2, PINGREQ |-> 1, PUBACK |-> 1,
                 PUBREC |-> 1, PUBREL |-> 1, PUBCOMP |-> 1, PINGRESP |-> 1]
SomePackets == {"PUBLISH1", "SHORT"}
NoPackets == {}
=============================================================================
