----------------------------- MODULE WatchAsync -----------------------------
(***************************************************************************)
(* The event reporter (services/watchasync) and the DNS resolver it uses.  *)
(* Pin interrupts put events into a ring; the main loop takes them one by  *)
(* one, looks the server up or asks the resolver for it, and reports each  *)
(* event over a TCP connection of its own.                                 *)
(*                                                                         *)
(* Events are numbered as they are accepted.  TCP is uIP's and the peer's: *)
(* a connection may fail at any time, before or after the peer received    *)
(* the data, and uIP asks for lost data again.  A callback with NULL (no   *)
(* address) connects all the same: whoever is there is peer NoName.        *)
(* Build modelled: DNS_SUPPORT, no CONF_WATCHASYNC_SUMMARIZE.              *)
(***************************************************************************)
EXTENDS Resolver

CONSTANTS
    CONF_WATCHASYNC_BUFFERSIZE,
    CONF_WATCHASYNC_SERVER,
    MaxConns,     \* connections that uIP has for watchasync
    MaxEvents     \* bound on the number of events accepted

ASSUME WatchAsyncAssumption ==
    /\ CONF_WATCHASYNC_BUFFERSIZE \in Nat \ {0} /\ MaxEvents \in Nat
    /\ CONF_WATCHASYNC_SERVER \in Names /\ MaxConns \in Nat \ {0}

VARIABLES
    wa_buffer, wa_buffer_left, wa_buffer_right,
    wa_sendstate,
    conn,         \* the connection in state NEW, and what it sent
    closing,      \* the number of connections in state OLD
    wa_query,     \* history: watchasync's last query
    accepted,     \* history: the number of events put into the ring
    confirmed,    \* history: the number of events acknowledged
    received      \* history: the event that a peer received last

queue == <<wa_buffer, wa_buffer_left, wa_buffer_right, accepted>>
sender == <<wa_sendstate, conn, closing, wa_query, confirmed, received>>
wa == <<queue, sender>>
all == <<vars, wa>>

Places == 0 .. CONF_WATCHASYNC_BUFFERSIZE - 1
NextPlace(p) == (p + 1) % CONF_WATCHASYNC_BUFFERSIZE
NoEvent == 0
NoConn == [phase |-> "none", event |-> NoEvent, got |-> FALSE]

WaInit ==
    /\ Init
    /\ wa_buffer = [p \in Places |-> NoEvent]
    /\ wa_buffer_left = 0 /\ wa_buffer_right = 0
    /\ wa_sendstate = 0
    /\ conn = NoConn /\ closing = 0
    /\ wa_query = NoQuery
    /\ accepted = 0 /\ confirmed = 0 /\ received = NoEvent

-----------------------------------------------------------------------------
(* The pin interrupt's call: the event is dropped when the ring is full.   *)
RingNeverFull == FALSE     \* a mutant
RingFull == NextPlace(wa_buffer_right) = wa_buffer_left

addToRingbuffer ==
    /\ ~RingFull
    /\ accepted < MaxEvents
    /\ accepted' = accepted + 1
    /\ wa_buffer_right' = NextPlace(wa_buffer_right)
    /\ wa_buffer' = [wa_buffer EXCEPT ![NextPlace(wa_buffer_right)] = accepted + 1]
    /\ UNCHANGED <<vars, wa_buffer_left, sender>>

(* The callback, with an address or without one, makes a connection.       *)
watchasync_dns_query_cb(busy) ==
    IF closing < MaxConns
    THEN /\ conn' = [NoConn EXCEPT !.phase = "syn"]
         /\ wa_sendstate' = busy
    ELSE /\ wa_sendstate' = 2
         /\ UNCHANGED conn

(* The slots in which resolv_lookup finds the name; it returns NULL when   *)
(* there is none.  Which address it finds decides nothing here.            *)
resolv_lookup(name) == {i \in Slots : names[i].state = "DONE" /\ names[i].name = name}

sendmessage ==
    IF resolv_lookup(CONF_WATCHASYNC_SERVER) = {}
    THEN /\ wa_sendstate' = 1
         /\ resolv_query(CONF_WATCHASYNC_SERVER)
         /\ wa_query' = issued + 1
         /\ UNCHANGED conn
    ELSE /\ watchasync_dns_query_cb(1)
         /\ UNCHANGED <<vars, wa_query>>

Resend ==
    /\ wa_sendstate = 2
    /\ sendmessage
    /\ UNCHANGED <<queue, closing, confirmed, received>>

SendNext ==
    /\ wa_sendstate = 0
    /\ wa_buffer_left # wa_buffer_right
    /\ wa_buffer_left' = NextPlace(wa_buffer_left)
    /\ sendmessage
    /\ UNCHANGED <<wa_buffer, wa_buffer_right, accepted, closing, confirmed, received>>

watchasync_mainloop == Resend \/ SendNext

-----------------------------------------------------------------------------
(* watchasync_net_main, for the connection in state NEW.                   *)

(* uip_connected, and uip_rexmit when data or its acknowledgement is lost. *)
Transmit ==
    /\ conn.phase \in {"syn", "sent"}
    /\ conn' = [conn EXCEPT !.phase = "sent", !.event = wa_buffer[wa_buffer_left]]
    /\ UNCHANGED <<vars, queue, wa_sendstate, closing, wa_query, confirmed, received>>

(* The peer's TCP takes the data once, however often it is sent.           *)
PeerReceives ==
    /\ conn.phase = "sent" /\ ~conn.got
    /\ conn' = [conn EXCEPT !.got = TRUE]
    /\ received' = conn.event
    /\ UNCHANGED <<vars, queue, wa_sendstate, closing, wa_query, confirmed>>

Acked ==
    /\ conn.phase = "sent" /\ conn.got
    /\ wa_sendstate' = 0
    /\ confirmed' = confirmed + 1
    /\ conn' = NoConn
    /\ closing' = closing + 1
    /\ UNCHANGED <<vars, queue, wa_query, received>>

FailedForgotten ==     \* a mutant: the failure of a connection is not noted
    /\ conn # NoConn
    /\ conn' = NoConn
    /\ UNCHANGED <<vars, queue, wa_sendstate, closing, wa_query, confirmed, received>>

(* uip_aborted or uip_timedout, or uip_closed: uIP still waits for the     *)
(* acknowledgement of its own FIN.                                         *)
Failed ==
    /\ conn # NoConn
    /\ wa_sendstate' = 2
    /\ conn' = NoConn
    /\ closing' \in {closing, closing + 1}
    /\ UNCHANGED <<vars, queue, wa_query, confirmed, received>>

(* A connection in state OLD ends.                                         *)
Closed ==
    /\ closing > 0
    /\ closing' = closing - 1
    /\ UNCHANGED <<vars, queue, wa_sendstate, conn, wa_query, confirmed, received>>

-----------------------------------------------------------------------------
(* The resolver's steps, with the callback where watchasync's query ends.  *)
CalledBack ==
    /\ IF wa_query # NoQuery /\ query'[wa_query].calls > query[wa_query].calls
       THEN watchasync_dns_query_cb(wa_sendstate)
       ELSE UNCHANGED <<wa_sendstate, conn>>
    /\ UNCHANGED <<queue, closing, wa_query, confirmed, received>>

Poll == resolv_periodic /\ CalledBack
Answer == \E p \in packets, kind \in Answers : resolv_newdata(p, kind) /\ CalledBack
OtherClient == \E n \in Names : resolv_query(n) /\ UNCHANGED wa

WaNext ==
    \/ Poll \/ Answer \/ OtherClient
    \/ addToRingbuffer \/ Resend \/ SendNext
    \/ Transmit \/ PeerReceives \/ Acked \/ Failed \/ Closed

WaSpec == WaInit /\ [][WaNext]_all

(* uIP polls, the main loop runs, and a network that keeps on trying gets  *)
(* data through in the end.                                                *)
WaFairSpec ==
    /\ WaSpec
    /\ WF_all(Poll) /\ WF_all(watchasync_mainloop) /\ WF_all(Closed)
    /\ SF_all(Transmit) /\ SF_all(PeerReceives) /\ SF_all(Acked)

-----------------------------------------------------------------------------
WaTypeOK ==
    /\ wa_buffer \in [Places -> 0 .. MaxEvents]
    /\ wa_buffer_left \in Places /\ wa_buffer_right \in Places
    /\ wa_sendstate \in 0 .. 2
    /\ conn \in [phase : {"none", "syn", "sent"}, event : 0 .. MaxEvents, got : BOOLEAN]
    /\ closing \in 0 .. MaxConns
    /\ wa_query \in Queries \cup {NoQuery}
    /\ accepted \in 0 .. MaxEvents /\ confirmed \in 0 .. MaxEvents
    /\ received \in 0 .. MaxEvents

(* The ring holds, in the order in which they happened, exactly the events *)
(* that no peer has confirmed: the one being sent in its place until it is *)
(* confirmed, the others after it (addToRingbuffer, watchasync_mainloop).  *)
RingHoldsUnconfirmed ==
    LET first == IF wa_sendstate = 0 THEN NextPlace(wa_buffer_left) ELSE wa_buffer_left
        Place(k) == (first + k) % CONF_WATCHASYNC_BUFFERSIZE
        n == accepted - confirmed
    IN  /\ \A k \in 0 .. n - 1 : wa_buffer[Place(k)] = confirmed + 1 + k
        /\ NextPlace(wa_buffer_right) = Place(n)

(* Peers get the events in order and none is left out, although one may    *)
(* come again after a failure (SendNext moves on only after an ack).       *)
NoneSkipped == [][received' \in {received, received + 1}]_all

(* Data that uIP asks for again is what was sent at first, whatever events *)
(* the pin interrupts added meanwhile: watchasync_net_main composes it     *)
(* anew from the left end of the ring.                                     *)
RetransmissionSame ==
    [][conn.phase = "sent" /\ conn'.phase = "sent" => conn'.event = conn.event]_all

(* The resolver dropped watchasync's query without a callback: nothing is  *)
(* then ever sent again, because wa_sendstate stays 1.                     *)
Forsaken ==
    /\ wa_sendstate = 1 /\ conn = NoConn
    /\ wa_query # NoQuery /\ query[wa_query].end \in {"evicted", "unanswered"}

(* The next query would exceed the bound of the model.                     *)
OutOfQueries ==
    issued = MaxQueries /\ wa_sendstate # 1 /\ resolv_lookup(CONF_WATCHASYNC_SERVER) = {}

(* Every event accepted is confirmed in the end, however often connections *)
(* fail, unless a query was dropped without a callback.                    *)
EventsConfirmed ==
    \A n \in 1 .. MaxEvents :
        accepted >= n ~> confirmed >= n \/ Forsaken \/ OutOfQueries
=============================================================================
