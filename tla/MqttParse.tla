----------------------------- MODULE MqttParse -----------------------------
(***************************************************************************)
(* The MQTT client's parser (mqtt_parse in protocols/mqtt/mqtt.c): it cuts *)
(* the byte stream from the broker into packets, and rebuilds in the       *)
(* receive part of the send buffer those that arrive in several segments.  *)
(*                                                                         *)
(* One action is one turn of the loop.  A packet is a header byte, a       *)
(* length byte (all packets are shorter than 128 bytes) and its contents;  *)
(* a byte is <<packet, position>>.                                         *)
(***************************************************************************)
EXTENDS Integers, Sequences, SequencesExt

CONSTANTS
    MQTT_SENDBUFFER_LENGTH,
    Word,          \* 2^16
    Queued,        \* bytes in the send queue meanwhile
    MaxPackets,    \* bound on the packets of the stream
    Lengths        \* the lengths of packets, without header and length byte

VARIABLES
    lengths,                  \* the length of each packet of the stream
    to_come,                  \* the part of the stream that has not arrived
    data,                     \* the part of the segment that is not read yet
    receive_buffer, receive_packet_length,
    aborted,                  \* the connection was aborted
    handled,                  \* history: packets handed on
    wrong                     \* history: something else was handed on, or memory overwritten

stream == <<lengths, to_come>>
vars == <<stream, data, receive_buffer, receive_packet_length, aborted, handled, wrong>>

PacketBytes(p) == [i \in 1 .. lengths[p] + 2 |-> <<p, i>>]

Init ==
    /\ lengths \in [1 .. MaxPackets -> Lengths]
    /\ to_come = FlattenSeq([p \in 1 .. MaxPackets |-> PacketBytes(p)])
    /\ data = <<>> /\ receive_buffer = <<>> /\ receive_packet_length = 0
    /\ aborted = FALSE /\ handled = 0 /\ wrong = FALSE

Arrive ==
    /\ data = <<>> /\ ~aborted
    /\ \E n \in 1 .. Len(to_come) :
         /\ data' = SubSeq(to_come, 1, n)
         /\ to_come' = SubSeq(to_come, n + 1, Len(to_come))
    /\ UNCHANGED <<lengths, receive_buffer, receive_packet_length, aborted, handled, wrong>>

-----------------------------------------------------------------------------
Drop(s, n) == SubSeq(s, n + 1, Len(s))

(* The field is complete with the byte behind the header.                  *)
mqtt_parse_length_field(s) == [llen |-> IF Len(s) > 1 THEN 1 ELSE 0,
                               length |-> IF Len(s) > 1 THEN lengths[s[2][1]] ELSE 0]

mqtt_buffer_free(n) == (Queued + n + Len(receive_buffer)) % Word <= MQTT_SENDBUFFER_LENGTH

(* The first n bytes of the segment are read into the receive buffer; if   *)
(* there is no room the connection is aborted and the rest is dropped.     *)
mqtt_write_to_receive_buffer(n) ==
    IF mqtt_buffer_free(n)
    THEN receive_buffer' = receive_buffer \o SubSeq(data, 1, n) /\ data' = Drop(data, n) /\ UNCHANGED aborted
    ELSE aborted' = TRUE /\ data' = <<>> /\ UNCHANGED receive_buffer

mqtt_handle_packet(bytes) ==
    /\ handled' = handled + 1
    /\ wrong' = (handled = MaxPackets \/ bytes # PacketBytes(handled + 1))

ParseWhole ==
    LET field == mqtt_parse_length_field(data)
        whole == field.length + field.llen + 1
    IN  /\ receive_buffer = <<>>
        /\ IF field.llen = 1 /\ whole <= Len(data)
           THEN /\ mqtt_handle_packet(SubSeq(data, 1, whole))
                /\ data' = Drop(data, whole)
                /\ UNCHANGED <<receive_buffer, receive_packet_length, aborted>>
           ELSE /\ receive_packet_length' = IF field.llen = 0 THEN receive_packet_length ELSE field.length
                /\ mqtt_write_to_receive_buffer(Len(data))
                /\ UNCHANGED <<handled, wrong>>

ParseLengthKnown ==
    LET fragment_length == (receive_packet_length - Len(receive_buffer)) % Word
    IN  /\ receive_buffer # <<>> /\ receive_packet_length # 0
        /\ \/ /\ Len(receive_buffer) + Len(data) < receive_packet_length
              /\ mqtt_write_to_receive_buffer(Len(data))
              /\ UNCHANGED <<handled, wrong>>
           \/ /\ Len(receive_buffer) + Len(data) >= receive_packet_length
              /\ fragment_length <= Len(data)
              /\ mqtt_write_to_receive_buffer(fragment_length)
              /\ IF aborted' THEN UNCHANGED <<handled, wrong>> ELSE mqtt_handle_packet(receive_buffer')
           \/ /\ Len(receive_buffer) + Len(data) >= receive_packet_length
              /\ fragment_length > Len(data)     \* the difference was negative
              /\ IF mqtt_buffer_free(fragment_length)
                 THEN wrong' = TRUE /\ UNCHANGED <<data, aborted>>
                 ELSE aborted' = TRUE /\ data' = <<>> /\ UNCHANGED wrong
              /\ UNCHANGED <<receive_buffer, handled>>
        /\ UNCHANGED receive_packet_length

ParseLengthUnknown ==
    /\ receive_buffer # <<>> /\ receive_packet_length = 0
    /\ mqtt_write_to_receive_buffer(1)
    /\ receive_packet_length' = IF aborted' THEN 0 ELSE mqtt_parse_length_field(receive_buffer').length
    /\ UNCHANGED <<handled, wrong>>

(* After a wrong packet, or an overwritten memory, nothing is claimed.     *)
mqtt_parse ==
    /\ data # <<>> /\ ~wrong
    /\ ParseWhole \/ ParseLengthKnown \/ ParseLengthUnknown
    /\ UNCHANGED stream

Next == Arrive \/ mqtt_parse

Spec == Init /\ [][Next]_vars

-----------------------------------------------------------------------------
(* Fragmented packets are stored and will be rebuilt (mqtt.c's buffer      *)
(* layout), and eventually a completed packet will be passed on            *)
(* (mqtt_parse): each call of mqtt_handle_packet gets the next packet of   *)
(* the stream, whole, however the stream is cut into segments.             *)
PacketsRebuilt == ~wrong
=============================================================================
