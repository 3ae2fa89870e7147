-------------------------------- MODULE Mqtt --------------------------------
(***************************************************************************)
(* The MQTT client (protocols/mqtt/mqtt.c) on a uIP TCP connection, and a  *)
(* broker.                                                                 *)
(*                                                                         *)
(* The client is one record, and its functions are operators from records  *)
(* to records.  mqtt_main is called with the flags of a TCP event; what it *)
(* asks of uIP is left in the fields uip_send and uip_abort, which the     *)
(* action of the event then carries out.  A byte of a packet is a pair     *)
(* <<kind, position>>.  Packets from the broker arrive whole (MqttParse    *)
(* models the others), so that the receive part of the buffer stays empty  *)
(* here.                                                                   *)
(*                                                                         *)
(* The ages of the last input and output are kept instead of their times:  *)
(* uIP gives a connection up long before the 16-bit difference wraps.      *)
(***************************************************************************)
EXTENDS Integers, Sequences, SequencesExt, FiniteSets

CONSTANTS
    Conns,                    \* the uIP connections that are not in use elsewhere
    MQTT_SENDBUFFER_LENGTH,
    ByteBase,                 \* 256: the values of an uint8_t
    MSS,
    MQTT_KEEPALIVE,           \* in ticks
    UIP_MAXRTX,
    Length,                   \* the length of each kind of packet sent
    LongPackets,              \* the kinds that have 128 to 255 bytes after the length field
    Inbound,                  \* the kinds of packet a broker sends unasked
    MaxInflow                 \* bound on the packets on the way to the client

ASSUME MqttAssumption ==
    /\ Conns \subseteq Nat \ {0} /\ MaxInflow \in Nat
    /\ MQTT_SENDBUFFER_LENGTH \in 1 .. ByteBase
    /\ Length["CONNECT"] <= MSS /\ Length["CONNECT"] <= MQTT_SENDBUFFER_LENGTH
    /\ LongPackets \subseteq DOMAIN Length
    /\ Inbound \subseteq {"PUBLISH", "PUBLISH1", "PUBLISH2", "PUBREC", "PUBREL",
                          "PINGREQ", "SUBACK", "SHORT"}

VARIABLES
    mqtt,       \* the client's state
    conns,      \* of each uIP connection: the TCP state
    sent,       \* the segment that is not acknowledged yet
    nrtx,       \* how often it was sent again
    got,        \* the broker received it
    inflow,     \* packets on the way to the client
    broker,     \* of each connection: what the broker owes, and the last byte received
    hung,       \* the broker answers no more
    no_room     \* history: the PINGREQ waited for was never written

tcp == <<conns, sent, nrtx, got>>
vars == <<mqtt, tcp, inflow, broker, hung, no_room>>

Kinds == DOMAIN Length
Nobody == 0
NoByte == <<"none", 0>>
NoSession == [session |-> FALSE, owes |-> {}, last |-> NoByte]
Packet(kind) == [i \in 1 .. Length[kind] |-> <<kind, i>>]

-----------------------------------------------------------------------------
(* The send buffer.  The head is an uint8_t.                               *)
mqtt_buffer_free(m, length) == Len(m.buffer) + length <= MQTT_SENDBUFFER_LENGTH

(* MQTT_LF_LENGTH takes the length field of a long packet for one byte;    *)
(* mqtt_buffer_write_length_field writes two.                              *)
RoomFor(kind) == IF kind \in LongPackets THEN Length[kind] - 1 ELSE Length[kind]

mqtt_construct(m, kind) ==
    LET buffer == m.buffer \o Packet(kind)
    IN  IF mqtt_buffer_free(m, RoomFor(kind))
        THEN [m EXCEPT !.buffer = SubSeq(buffer, 1, Len(buffer) % ByteBase)]
        ELSE m

mqtt_flush_buffer(m) ==
    IF m.last_length = 0 /\ m.buffer # <<>>
    THEN LET n == IF Len(m.buffer) < MSS THEN Len(m.buffer) ELSE MSS
         IN  [m EXCEPT !.last_length = n, !.uip_send = SubSeq(m.buffer, 1, n), !.out_age = 0]
    ELSE m

mqtt_retransmit(m) ==
    IF m.last_length > 0 THEN [m EXCEPT !.uip_send = SubSeq(m.buffer, 1, m.last_length)] ELSE m

AckDropsAll(m) == [m EXCEPT !.buffer = <<>>, !.last_length = 0]     \* a mutant
mqtt_received_ack(m) ==
    IF m.last_length > 0
    THEN [m EXCEPT !.buffer = SubSeq(@, m.last_length + 1, Len(@)), !.last_length = 0]
    ELSE m

-----------------------------------------------------------------------------
(* The protocol.                                                           *)
mqtt_is_connected(m) == m.conn # Nobody /\ m.stage = "CONNECTED"

mqtt_abort_connection(m) == [m EXCEPT !.conn = Nobody, !.uip_abort = TRUE]

ResetKeepsBuffer(m) ==     \* a mutant: what was still to be sent outlives the connection
    [m EXCEPT !.last_length = 0, !.ping_outstanding = FALSE,
              !.in_age = 0, !.out_age = 0, !.stage = "DISCONNECTED"]

ResetKeepsPing(m) ==     \* a mutant: the ping flag outlives the connection
    [m EXCEPT !.buffer = <<>>, !.last_length = 0, !.in_age = 0, !.out_age = 0,
              !.stage = "DISCONNECTED"]

mqtt_reset_state(m) ==
    [m EXCEPT !.buffer = <<>>, !.last_length = 0, !.ping_outstanding = FALSE,
              !.in_age = 0, !.out_age = 0, !.stage = "DISCONNECTED"]

(* A callback of the application: it may publish, and does so only when    *)
(* the client is connected.                                                *)
Callback(m, publishes) ==
    IF publishes /\ mqtt_is_connected(m) THEN mqtt_construct(m, "PUBLISH") ELSE m

Acknowledgement == [PUBLISH1 |-> "PUBACK", PUBLISH2 |-> "PUBREC", PUBREC |-> "PUBREL",
                    PUBREL |-> "PUBCOMP", PINGREQ |-> "PINGRESP"]

(* CONNREFUSED is a CONNACK that is too short or reports an error, SHORT a *)
(* PUBLISH, PUBREC or PUBREL that ends before its topic or message id.     *)
mqtt_handle_packet(m0, kind, publishes) ==
    LET m == [m0 EXCEPT !.in_age = 0]
    IN  CASE m.stage = "CONNECT" /\ kind # "CONNACK" -> mqtt_abort_connection(m)
          [] m.stage = "CONNECT" /\ kind = "CONNACK" ->
               Callback(mqtt_construct([m EXCEPT !.stage = "CONNECTED"], "SUBSCRIBE"), publishes)
          [] m.stage = "CONNECTED" /\ kind = "PINGRESP" -> [m EXCEPT !.ping_outstanding = FALSE]
          [] m.stage = "CONNECTED" /\ kind \in {"PUBLISH", "PUBLISH1", "PUBLISH2"} ->
               LET called == Callback(m, publishes)
               IN  IF kind = "PUBLISH" THEN called
                   ELSE mqtt_construct(called, Acknowledgement[kind])
          [] m.stage = "CONNECTED" /\ kind \in {"PUBREC", "PUBREL", "PINGREQ"} ->
               mqtt_construct(m, Acknowledgement[kind])
          [] m.stage = "CONNECTED" /\ kind = "SHORT" -> mqtt_abort_connection(m)
          [] OTHER -> m

(* All packets of a segment, also those behind one that made it abort.     *)
mqtt_parse(m, packets, publishes) ==
    FoldLeft(LAMBDA a, kind : mqtt_handle_packet(a, kind, publishes), m, packets)

Overdue(m) == m.in_age > MQTT_KEEPALIVE \/ m.out_age > MQTT_KEEPALIVE

PollNoPing(m, publishes) ==     \* a mutant: the missing answer is not looked at
    IF Overdue(m)
    THEN Callback([mqtt_construct(m, "PINGREQ") EXCEPT !.in_age = 0,
                      !.ping_outstanding = TRUE], publishes)
    ELSE Callback(m, publishes)

mqtt_poll(m, publishes) ==
    CASE Overdue(m) /\ m.ping_outstanding -> mqtt_abort_connection(m)
      [] Overdue(m) /\ ~m.ping_outstanding ->
           Callback([mqtt_construct(m, "PINGREQ") EXCEPT !.in_age = 0,
                        !.ping_outstanding = TRUE], publishes)
      [] OTHER -> Callback(m, publishes)

(* The uIP callback, for any connection whose callback it is: it never     *)
(* asks for which one it is called.                                        *)
mqtt_main(m0, flags, packets, publishes) ==
    LET m1 == IF "connected" \notin flags THEN m0
              ELSE mqtt_flush_buffer([mqtt_construct(m0, "CONNECT") EXCEPT !.stage = "CONNECT"])
        m2 == IF "acked" \in flags THEN mqtt_received_ack(m1) ELSE m1
        m3 == IF "rexmit" \in flags THEN mqtt_retransmit(m2) ELSE m2
        m4 == IF packets # <<>> THEN mqtt_parse(m3, packets, publishes) ELSE m3
    IN  CASE flags \cap {"aborted", "timedout", "closed"} # {} -> [m0 EXCEPT !.conn = Nobody]
          [] "poll" \in flags /\ m4.stage = "CONNECTED" ->
               mqtt_flush_buffer(mqtt_poll(m4, publishes))
          [] "poll" \in flags /\ m4.stage = "CONNECT" /\ m4.in_age > MQTT_KEEPALIVE ->
               mqtt_abort_connection(m4)
          [] OTHER -> m4

-----------------------------------------------------------------------------
Init ==
    /\ mqtt = [conn |-> Nobody, stage |-> "DISCONNECTED", buffer |-> <<>>, last_length |-> 0,
               ping_outstanding |-> FALSE, in_age |-> 0, out_age |-> 0,
               uip_send |-> <<>>, uip_abort |-> FALSE]
    /\ conns = [c \in Conns |-> "CLOSED"]
    /\ sent = [c \in Conns |-> <<>>] /\ nrtx = [c \in Conns |-> 0]
    /\ got = [c \in Conns |-> FALSE]
    /\ inflow = [c \in Conns |-> <<>>]
    /\ broker = [c \in Conns |-> NoSession]
    /\ hung = FALSE /\ no_room = FALSE

Older(age) == IF age > MQTT_KEEPALIVE THEN age ELSE age + 1

(* uip_connect: a free connection if there is one.                         *)
uip_connect(m) ==
    IF \E c \in Conns : conns[c] = "CLOSED"
    THEN LET c == CHOOSE c \in Conns : conns[c] = "CLOSED" /\ \A d \in Conns : conns[d] = "CLOSED" => c <= d
         IN  /\ mqtt' = [m EXCEPT !.conn = c]
             /\ conns' = [conns EXCEPT ![c] = "SYN_SENT"]
    ELSE mqtt' = [m EXCEPT !.conn = Nobody] /\ UNCHANGED conns

mqtt_init(m) == uip_connect(mqtt_reset_state(m)) /\ no_room' = FALSE

Aged(m) == [m EXCEPT !.in_age = Older(@), !.out_age = Older(@)]

mqtt_periodic ==
    /\ IF mqtt.conn = Nobody
       THEN mqtt_init(Aged(mqtt))
       ELSE mqtt' = Aged(mqtt) /\ UNCHANGED <<conns, no_room>>
    /\ UNCHANGED <<sent, nrtx, got, inflow, broker, hung>>

(* The application publishes outside of the callbacks.                     *)
Publish ==
    /\ Callback(mqtt, TRUE) # mqtt
    /\ mqtt' = Callback(mqtt, TRUE)
    /\ UNCHANGED <<tcp, inflow, broker, hung, no_room>>

-----------------------------------------------------------------------------
(* uIP, as far as the client sees it: the events of connection c, after    *)
(* which its TCP state is st.  A retransmission counts in nrtx; any other  *)
(* call of the application resets it.  No more is sent than MSS allows,    *)
(* and again no more than before.                                          *)
Call(c, flags, n, publishes, st) ==
    \E m \in {mqtt_main(mqtt, flags, SubSeq(inflow[c], 1, n), publishes)} :
    LET up == st = "ESTABLISHED" /\ ~m.uip_abort
        old == IF up /\ "acked" \notin flags THEN sent[c] ELSE <<>>
        limit == IF old = <<>> THEN MSS ELSE Len(old)
        new == IF up THEN SubSeq(m.uip_send, 1, Min({limit, Len(m.uip_send)})) ELSE <<>>
    IN  /\ mqtt' = [m EXCEPT !.uip_send = <<>>, !.uip_abort = FALSE]
        /\ conns' = [conns EXCEPT ![c] = IF m.uip_abort THEN "CLOSED" ELSE st]
        /\ sent' = [sent EXCEPT ![c] = IF new # <<>> THEN new ELSE old]
        /\ nrtx' = [nrtx EXCEPT ![c] = IF "rexmit" \in flags THEN @ + 1 ELSE 0]
        /\ got' = [got EXCEPT ![c] = @ /\ old # <<>>]
        /\ inflow' = [inflow EXCEPT ![c] = IF up THEN SubSeq(@, n + 1, Len(@)) ELSE <<>>]
        /\ broker' = [broker EXCEPT ![c] = IF up THEN @ ELSE NoSession]

Connected(c) ==
    /\ conns[c] = "SYN_SENT"
    /\ Call(c, {"connected"}, 0, FALSE, "ESTABLISHED")
    /\ UNCHANGED <<hung, no_room>>

(* A segment from the broker, with an acknowledgement, packets, or both.   *)
Segment(c) ==
    /\ conns[c] = "ESTABLISHED"
    /\ \E acked \in {got[c], FALSE}, n \in 0 .. Len(inflow[c]), publishes \in BOOLEAN :
         /\ acked \/ n > 0
         /\ publishes => n > 0
         /\ Call(c, IF acked THEN {"acked"} ELSE {}, n, publishes, "ESTABLISHED")
    /\ UNCHANGED <<hung, no_room>>

(* uIP polls a connection that has nothing outstanding.                    *)
Poll(c) ==
    /\ conns[c] = "ESTABLISHED" /\ sent[c] = <<>>
    /\ \E publishes \in BOOLEAN : Call(c, {"poll"}, 0, publishes, "ESTABLISHED")
    /\ no_room' = IF mqtt.stage = "CONNECTED" /\ Overdue(mqtt) /\ ~mqtt.ping_outstanding
                  THEN ~mqtt_buffer_free(mqtt, RoomFor("PINGREQ")) ELSE no_room
    /\ UNCHANGED hung

Rexmit(c) ==
    /\ conns[c] = "ESTABLISHED" /\ sent[c] # <<>> /\ nrtx[c] < UIP_MAXRTX
    /\ Call(c, {"rexmit"}, 0, FALSE, "ESTABLISHED")
    /\ UNCHANGED <<hung, no_room>>

(* SYN, FIN and data are given up after the last retransmission.           *)
TimedOut(c) ==
    /\ conns[c] # "CLOSED"
    /\ conns[c] = "ESTABLISHED" => sent[c] # <<>> /\ nrtx[c] = UIP_MAXRTX
    /\ Call(c, {"timedout"}, 0, FALSE, "CLOSED")
    /\ UNCHANGED <<hung, no_room>>

Reset(c) ==
    /\ conns[c] # "CLOSED"
    /\ Call(c, {"aborted"}, 0, FALSE, "CLOSED")
    /\ UNCHANGED <<hung, no_room>>

(* The broker closes the connection: uIP calls for the FIN, and again for  *)
(* the acknowledgement of its own FIN.                                     *)
Fin(c) ==
    /\ conns[c] = "ESTABLISHED" /\ sent[c] = <<>> /\ inflow[c] = <<>>
    /\ Call(c, {"closed"}, 0, FALSE, "LAST_ACK")
    /\ UNCHANGED <<hung, no_room>>

FinAcked(c) ==
    /\ conns[c] = "LAST_ACK"
    /\ Call(c, {"closed"}, 0, FALSE, "CLOSED")
    /\ UNCHANGED <<hung, no_room>>

-----------------------------------------------------------------------------
(* The broker.                                                             *)
Replies == [CONNECT |-> "CONNACK", PINGREQ |-> "PINGRESP"]

BrokerGets(c) ==
    LET ended == {k \in DOMAIN Replies : <<k, Length[k]>> \in Range(sent[c])}
    IN  /\ sent[c] # <<>> /\ ~got[c]
        /\ got' = [got EXCEPT ![c] = TRUE]
        /\ broker' = [broker EXCEPT ![c].last = Last(sent[c]),
                                    ![c].owes = @ \cup {Replies[k] : k \in ended}]
        /\ UNCHANGED <<mqtt, conns, sent, nrtx, inflow, hung, no_room>>

BrokerSends(c) ==
    /\ ~hung /\ conns[c] = "ESTABLISHED" /\ Len(inflow[c]) < MaxInflow
    /\ \/ \E kind \in broker[c].owes :
            /\ broker' = [broker EXCEPT ![c].owes = @ \ {kind},
                                       ![c].session = @ \/ kind = "CONNACK"]
            /\ inflow' = [inflow EXCEPT ![c] = Append(@, kind)]
       \/ /\ "CONNACK" \in broker[c].owes
          /\ broker' = [broker EXCEPT ![c].owes = {}]
          /\ inflow' = [inflow EXCEPT ![c] = Append(@, "CONNREFUSED")]
       \/ /\ broker[c].session
          /\ \E kind \in Inbound : inflow' = [inflow EXCEPT ![c] = Append(@, kind)]
          /\ UNCHANGED broker
    /\ UNCHANGED <<mqtt, tcp, hung, no_room>>

BrokerHangs ==
    /\ ~hung /\ hung' = TRUE
    /\ UNCHANGED <<mqtt, tcp, inflow, broker, no_room>>

Next ==
    \/ mqtt_periodic \/ Publish \/ BrokerHangs
    \/ \E c \in Conns :
         \/ Connected(c) \/ Segment(c) \/ Poll(c) \/ Rexmit(c) \/ TimedOut(c) \/ Reset(c)
         \/ Fin(c) \/ FinAcked(c) \/ BrokerGets(c) \/ BrokerSends(c)

Spec == Init /\ [][Next]_vars

(* The scheduler runs mqtt_periodic and uIP's timers for ever.             *)
FairSpec ==
    /\ Spec /\ WF_vars(mqtt_periodic)
    /\ \A c \in Conns : WF_vars(Poll(c)) /\ WF_vars(Rexmit(c) \/ TimedOut(c))

-----------------------------------------------------------------------------
TypeOK ==
    /\ mqtt.conn \in Conns \cup {Nobody}
    /\ mqtt.stage \in {"DISCONNECTED", "CONNECT", "CONNECTED"}
    /\ mqtt.buffer \in Seq(Kinds \X Nat) /\ Len(mqtt.buffer) <= MQTT_SENDBUFFER_LENGTH
    /\ mqtt.last_length \in 0 .. Len(mqtt.buffer)
    /\ mqtt.ping_outstanding \in BOOLEAN
    /\ {mqtt.in_age, mqtt.out_age} \subseteq 0 .. MQTT_KEEPALIVE + 1
    /\ conns \in [Conns -> {"CLOSED", "SYN_SENT", "ESTABLISHED", "LAST_ACK"}]
    /\ nrtx \in [Conns -> 0 .. UIP_MAXRTX] /\ got \in [Conns -> BOOLEAN]

(* The client knows of every connection that it opened: only one           *)
(* simultaneous connection (mqtt.c's limitations).                         *)
OneConnection ==
    \A c \in Conns : conns[c] \in {"SYN_SENT", "ESTABLISHED"} => mqtt.conn = c

(* The configurations in which the send buffer works.  At the default of   *)
(* 256 bytes the 8 bit head of an exactly full buffer is 0 and what it     *)
(* holds is lost; with a second connection, opened while uIP still has the *)
(* first one, both drain the same buffer.                                  *)
OneStream == MQTT_SENDBUFFER_LENGTH < ByteBase /\ Cardinality(Conns) = 1

(* The send buffer is a byte stream to the broker, over retransmissions,   *)
(* partial segments, acknowledgements and packets queued meanwhile; only   *)
(* the end of the connection drops what the broker has not received.  For  *)
(* the configurations of OneStream.                                        *)
Up == mqtt.conn # Nobody /\ conns[mqtt.conn] = "ESTABLISHED"
ToReceive ==
    IF Up THEN SubSeq(mqtt.buffer, (IF got[mqtt.conn] THEN mqtt.last_length ELSE 0) + 1, Len(mqtt.buffer))
    ELSE <<>>
Received == IF mqtt.conn # Nobody /\ got[mqtt.conn] THEN sent[mqtt.conn] ELSE <<>>
Stream == INSTANCE PacketStream WITH up <- Up, todo <- ToReceive, heard <- Received
ImplementsPacketStream ==
    Stream!Init /\ [][OneStream => Stream!Next]_<<Up, ToReceive, Received>>

(* The broker receives whole packets, the first of which is a CONNECT, in  *)
(* the configurations of OneStream.                                        *)
Follows(b, last) ==
    IF last = NoByte THEN b = <<"CONNECT", 1>>
    ELSE \/ b = <<last[1], last[2] + 1>>
         \/ last[2] = Length[last[1]] /\ b[1] # "CONNECT" /\ b[2] = 1
StreamWellFormed ==
    [][\A c \in Conns : OneStream /\ got'[c] /\ ~got[c] =>
         \A i \in DOMAIN sent[c] :
             Follows(sent[c][i], IF i = 1 THEN broker[c].last ELSE sent[c][i - 1])]_vars

(* A ping that is waited for has been asked for: the PINGREQ is still to   *)
(* be received, or the broker has to answer it, or its answer is on the    *)
(* way.  The exception is the PINGREQ for which mqtt_poll had no room.     *)
PingAccounted ==
    mqtt_is_connected(mqtt) /\ mqtt.ping_outstanding =>
        \/ no_room
        \/ <<"PINGREQ", Length["PINGREQ"]>> \in Range(ToReceive)
        \/ "PINGRESP" \in broker[mqtt.conn].owes \cup Range(inflow[mqtt.conn])

(* A broker that stays silent, though its TCP may go on acknowledging, is  *)
(* noticed, and the connection given up.                                   *)
SilenceNoticed == hung ~> ~mqtt_is_connected(mqtt)
=============================================================================
