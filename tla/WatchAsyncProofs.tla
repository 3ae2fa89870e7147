-------------------------- MODULE WatchAsyncProofs --------------------------
(***************************************************************************)
(* Proofs about the event reporter and the resolver together, for every    *)
(* size of the ring and of the table, and any number of events.            *)
(*                                                                         *)
(* Every step of the two is a step of the resolver or leaves it alone, so  *)
(* what ResolverProofs shows holds here.  WInv adds what the ring needs:   *)
(* a query that is pending keeps wa_sendstate at 1, so that no callback    *)
(* comes while a connection is being used, and the connection carries the  *)
(* event at the left end of the ring.                                      *)
(***************************************************************************)
EXTENDS WatchAsync, ResolverProofs

Size == CONF_WATCHASYNC_BUFFERSIZE
At(p, k) == (p + k) % Size

(* While a query is pending, watchasync waits for it and nothing else.     *)
WaitsForQuery ==
    /\ wa_query <= issued
    /\ wa_query # NoQuery /\ query[wa_query].end = "pending" => wa_sendstate = 1 /\ conn = NoConn

(* A connection in use is the only thing watchasync waits for.             *)
Connected ==
    /\ conn # NoConn => wa_sendstate = 1 /\ closing < MaxConns
    /\ conn.phase = "none" => conn = NoConn

(* What the connection carries, and what its peer has, is the first event  *)
(* that is not confirmed.                                                  *)
Delivery ==
    /\ received \in {confirmed, confirmed + 1}
    /\ conn.phase = "sent" => conn.event = confirmed + 1
    /\ conn.got => conn.phase = "sent" /\ received = confirmed + 1

(* The place of the first event that is not confirmed.                     *)
First == IF wa_sendstate = 0 THEN NextPlace(wa_buffer_left) ELSE wa_buffer_left
Unconfirmed == accepted - confirmed

Ring ==
    /\ IF wa_sendstate = 0 THEN Unconfirmed \in 0 .. Size - 1 ELSE Unconfirmed \in 1 .. Size
    /\ \A k \in 0 .. Unconfirmed - 1 : wa_buffer[At(First, k)] = confirmed + 1 + k
    /\ At(wa_buffer_right, 1) = At(First, Unconfirmed)

WInv ==
    /\ RInv
    /\ WaTypeOK
    /\ WaitsForQuery
    /\ Connected
    /\ Delivery
    /\ Ring

-----------------------------------------------------------------------------
(* Places of the ring: one time around at most.                            *)
LEMMA Around ==
    ASSUME NEW p \in Places, NEW k \in 0 .. Size
    PROVE  At(p, k) = (IF p + k < Size THEN p + k ELSE p + k - Size) /\ At(p, k) \in Places
<1>1. Size \in Nat \ {0}
  BY WatchAsyncAssumption DEF Size
<1> HIDE DEF Size
<1>2. p \in 0 .. Size - 1
  BY DEF Places, Size
<1>3. CASE p + k < Size
  BY <1>1, <1>2, <1>3 DEF At, Places, Size
<1>4. CASE p + k >= Size
  <2>1. (p + k) % Size = p + k - Size
    BY <1>1, <1>2, <1>4
  <2>2. QED
    BY <1>1, <1>2, <1>4, <2>1 DEF At, Places, Size
<1>5. QED
  BY <1>1, <1>2, <1>3, <1>4

(* Different places are followed by different ones.                        *)
LEMMA NextDistinct ==
    ASSUME NEW p \in Places, NEW r \in Places, At(p, 1) = At(r, 1)
    PROVE  p = r
<1>1. Size \in Nat \ {0} /\ 1 \in 0 .. Size /\ Places = 0 .. Size - 1
  BY WatchAsyncAssumption DEF Size, Places
<1> HIDE DEF Size, Places
<1>2. /\ At(p, 1) = (IF p + 1 < Size THEN p + 1 ELSE p + 1 - Size)
      /\ At(r, 1) = (IF r + 1 < Size THEN r + 1 ELSE r + 1 - Size)
  BY <1>1, Around
<1>3. QED
  BY <1>1, <1>2

(* Going around in two parts, and places less than one time around apart.  *)
LEMMA OneMore ==
    ASSUME NEW p \in Places, NEW k \in 0 .. Size - 1
    PROVE  At(At(p, 1), k) = At(p, k + 1) /\ At(At(p, k), 1) = At(p, k + 1)
<1>1. Size \in Nat \ {0} /\ Places = 0 .. Size - 1 /\ {1, k, k + 1} \subseteq 0 .. Size
  BY WatchAsyncAssumption DEF Size, Places
<1> HIDE DEF Size, Places
<1>2. At(p, 1) \in Places /\ At(p, k) \in Places
  BY <1>1, Around
<1>3. /\ At(p, 1) = (IF p + 1 < Size THEN p + 1 ELSE p + 1 - Size)
      /\ At(p, k) = (IF p + k < Size THEN p + k ELSE p + k - Size)
      /\ At(p, k + 1) = (IF p + (k + 1) < Size THEN p + (k + 1) ELSE p + (k + 1) - Size)
  BY <1>1, Around
<1>4. /\ At(At(p, 1), k) = (IF At(p, 1) + k < Size THEN At(p, 1) + k ELSE At(p, 1) + k - Size)
      /\ At(At(p, k), 1) = (IF At(p, k) + 1 < Size THEN At(p, k) + 1 ELSE At(p, k) + 1 - Size)
  BY <1>1, <1>2, Around
<1>5. QED
  BY <1>1, <1>3, <1>4

LEMMA PlacesDistinct ==
    ASSUME NEW p \in Places, NEW j \in 0 .. Size - 1, NEW k \in 0 .. Size - 1, At(p, j) = At(p, k)
    PROVE  j = k
<1>1. Size \in Nat \ {0} /\ Places = 0 .. Size - 1 /\ j \in 0 .. Size /\ k \in 0 .. Size
  BY WatchAsyncAssumption DEF Size, Places
<1> HIDE DEF Size, Places
<1>2. At(p, j) = (IF p + j < Size THEN p + j ELSE p + j - Size)
  BY <1>1, Around
<1>3. At(p, k) = (IF p + k < Size THEN p + k ELSE p + k - Size)
  BY <1>1, Around
<1>4. (IF p + j < Size THEN p + j ELSE p + j - Size) = (IF p + k < Size THEN p + k ELSE p + k - Size)
  BY <1>2, <1>3
<1>5. /\ p \in Int /\ j \in Int /\ k \in Int /\ Size \in Int
      /\ 0 <= p /\ p < Size /\ 0 <= j /\ j < Size /\ 0 <= k /\ k < Size
  BY <1>1
<1>6. QED
  BY <1>4, <1>5

LEMMA FullCircle == ASSUME NEW p \in Places PROVE At(p, Size) = p
<1>1. Size \in Nat \ {0} /\ Places = 0 .. Size - 1 /\ Size \in 0 .. Size
  BY WatchAsyncAssumption DEF Size, Places
<1> HIDE DEF Size, Places
<1>2. At(p, Size) = (IF p + Size < Size THEN p + Size ELSE p + Size - Size)
  BY <1>1, Around
<1>3. QED
  BY <1>1, <1>2

-----------------------------------------------------------------------------
(* Every step is a step of the resolver, or one that leaves it alone.      *)
LEMMA ResolverStep == [WaNext]_all => [Next]_vars
<1> SUFFICES ASSUME [WaNext]_all PROVE [Next]_vars
  OBVIOUS
<1>1. CASE Poll \/ Answer \/ OtherClient
  BY <1>1 DEF Poll, Answer, OtherClient, Next
<1>2. CASE Resend \/ SendNext
  BY <1>2, WatchAsyncAssumption DEF Resend, SendNext, sendmessage, Next
<1>3. CASE addToRingbuffer \/ Transmit \/ PeerReceives \/ Acked \/ Failed \/ Closed
  BY <1>3 DEF addToRingbuffer, Transmit, PeerReceives, Acked, Failed, Closed
<1>4. CASE UNCHANGED all
  BY <1>4 DEF all
<1>5. QED
  BY <1>1, <1>2, <1>3, <1>4 DEF WaNext

(* A query that has ended stays as it is; the callback ends one.           *)
EndsByCallback(q) ==
    /\ query[q].end # "pending" => query'[q] = query[q]
    /\ query'[q].calls > query[q].calls => query'[q].end # "pending"

LEMMA PollEnds == ASSUME RInv, resolv_periodic, NEW q \in Queries PROVE EndsByCallback(q)
<1>1. query[q] \in Record
  BY Types
<1>2. CASE \A i \in Slots : ~Holds(i, q)
  <2>1. query'[q] = query[q]
    BY <1>2, PollBySlot
  <2>2. QED
    BY <1>1, <2>1 DEF EndsByCallback, Record
<1>3. ASSUME NEW i \in Slots, Holds(i, q) PROVE EndsByCallback(q)
  <2>1. names[i].state \in Open /\ names[i].query = q /\ query[q].end = "pending"
    BY <1>3 DEF Holds, RInv, PendingInTable
  <2>2. StillOpen(i) \/ Ending(i)
    BY <2>1, PollBySlot, PolledSlot
  <2>3. QED
    BY <1>1, <2>1, <2>2 DEF EndsByCallback, StillOpen, Ending, Record
<1>4. QED
  BY <1>2, <1>3

LEMMA AnswerEnds ==
    ASSUME RInv, NEW p \in packets, NEW kind \in Answers, resolv_newdata(p, kind), NEW q \in Queries
    PROVE  EndsByCallback(q)
<1>1. query[q] \in Record
  BY Types
<1>2. CASE ~Accepts(p.id)
  <2>1. query' = query
    BY <1>2 DEF resolv_newdata
  <2>2. QED
    BY <1>1, <2>1 DEF EndsByCallback, Record
<1>3. CASE Accepts(p.id)
  <2>1. CASE q = names[p.id].query
    <3>1. query'[q].end \in {"called", "unanswered"} /\ p.id \in Slots
      BY <1>3, <2>1, AnswerCloses
    <3>2. query[q].end = "pending"
      BY <1>3, <2>1, <3>1 DEF Accepts, Open, RInv, PendingInTable
    <3>3. QED
      BY <3>1, <3>2 DEF EndsByCallback
  <2>2. CASE q # names[p.id].query
    <3>1. query'[q] = query[q]
      BY <1>3, <2>2, AnswerCloses
    <3>2. QED
      BY <1>1, <3>1 DEF EndsByCallback, Record
  <2>3. QED
    BY <2>1, <2>2
<1>4. QED
  BY <1>2, <1>3

(* A new query leaves every earlier one as it is, or evicts it.            *)
LEMMA QueryEvicts ==
    ASSUME RInv, NEW n \in Names, resolv_query(n), NEW q \in Queries, q <= issued
    PROVE  query'[q].end = "pending" => query[q].end = "pending"
<1> DEFINE v == VictimSlot
           old == names[v].query
           new == issued + 1
<1>1. query \in [Queries -> Record] /\ issued \in Nat /\ q # new
  BY Types, ResolverAssumption DEF Queries
<1>2. query' = [(IF names[v].state \in Open THEN [query EXCEPT ![old].end = "evicted"] ELSE query)
                   EXCEPT ![new].name = n, ![new].end = "pending"]
  BY DEF resolv_query, Ended
<1> HIDE DEF v, old, new
<1>3. query'[q] = query[q] \/ query'[q] = [query[q] EXCEPT !.end = "evicted"]
  BY <1>1, <1>2
<1>4. QED
  BY <1>1, <1>3 DEF Record

-----------------------------------------------------------------------------
(* Steps that keep to the events in the ring keep the ring in order.       *)
LEMMA SameRing ==
    ASSUME Ring, UNCHANGED <<queue, confirmed>>, wa_sendstate' = 0 <=> wa_sendstate = 0
    PROVE  Ring'
<1>1. /\ wa_buffer' = wa_buffer /\ wa_buffer_right' = wa_buffer_right
      /\ Unconfirmed' = Unconfirmed /\ First' = First /\ confirmed' = confirmed
  BY DEF queue, Unconfirmed, First, NextPlace
<1>2. QED
  BY <1>1 DEF Ring, At, Size

(* A connection is made, or none is left and it is tried again.            *)
LEMMA ConnectsOrRetries ==
    ASSUME WaTypeOK, Connected, Delivery, conn = NoConn, watchasync_dns_query_cb(1),
           UNCHANGED <<closing, wa_query, confirmed, received>>
    PROVE  /\ wa_sendstate' \in {1, 2} /\ closing' \in 0 .. MaxConns
           /\ conn' \in [phase : {"none", "syn", "sent"}, event : 0 .. MaxEvents, got : BOOLEAN]
           /\ Connected' /\ Delivery'
<1>1. closing \in 0 .. MaxConns /\ MaxConns \in Nat
  BY WatchAsyncAssumption DEF WaTypeOK
<1>2. CASE closing < MaxConns
  <2>1. conn' = [phase |-> "syn", event |-> 0, got |-> FALSE] /\ wa_sendstate' = 1
    BY <1>2 DEF watchasync_dns_query_cb, NoConn, NoEvent
  <2>2. QED
    BY <1>1, <1>2, <2>1, WatchAsyncAssumption DEF Connected, Delivery, NoConn
<1>3. CASE ~(closing < MaxConns)
  <2>1. conn' = conn /\ wa_sendstate' = 2
    BY <1>3 DEF watchasync_dns_query_cb
  <2>2. QED
    BY <1>1, <2>1 DEF WaTypeOK, Connected, Delivery
<1>4. QED
  BY <1>2, <1>3

(* The callback comes only while watchasync waits for it.                  *)
LEMMA CallbackWInv ==
    ASSUME WInv, RInv', CalledBack, issued' = issued,
           wa_query # NoQuery => EndsByCallback(wa_query)
    PROVE  WInv'
<1> DEFINE called == wa_query # NoQuery /\ query'[wa_query].calls > query[wa_query].calls
<1>1. /\ wa_query' = wa_query /\ closing' = closing /\ confirmed' = confirmed
      /\ received' = received /\ UNCHANGED queue
  BY DEF CalledBack
<1>2. wa_query # NoQuery => query[wa_query] \in Record /\ wa_query \in Queries
  BY Types DEF WInv, WaTypeOK
<1>3. CASE called
  <2>1. query[wa_query].end = "pending" /\ query'[wa_query].end # "pending"
    BY <1>2, <1>3 DEF EndsByCallback, Record
  <2>2. wa_sendstate = 1 /\ conn = NoConn
    BY <1>3, <2>1 DEF WInv, WaitsForQuery
  <2>3. watchasync_dns_query_cb(wa_sendstate)
    BY <1>3 DEF CalledBack
  <2>4. /\ wa_sendstate' \in {1, 2} /\ closing' \in 0 .. MaxConns
        /\ conn' \in [phase : {"none", "syn", "sent"}, event : 0 .. MaxEvents, got : BOOLEAN]
        /\ Connected' /\ Delivery'
    BY <1>1, <2>2, <2>3, ConnectsOrRetries DEF WInv
  <2>5. WaTypeOK' /\ WaitsForQuery'
    BY <1>1, <2>1, <2>4 DEF WInv, WaTypeOK, WaitsForQuery, queue
  <2>6. Ring'
    BY <1>1, <2>2, <2>4, SameRing DEF WInv
  <2>7. QED
    BY <2>4, <2>5, <2>6 DEF WInv
<1>4. CASE ~called
  <2>1. wa_sendstate' = wa_sendstate /\ conn' = conn
    BY <1>4 DEF CalledBack
  <2>2. WaitsForQuery'
    BY <1>1, <2>1 DEF WInv, WaitsForQuery, EndsByCallback
  <2>3. WaTypeOK' /\ Connected' /\ Delivery'
    BY <1>1, <2>1 DEF WInv, WaTypeOK, Connected, Delivery, queue
  <2>4. Ring'
    BY <1>1, <2>1, SameRing DEF WInv
  <2>5. QED
    BY <2>2, <2>3, <2>4 DEF WInv
<1>5. QED
  BY <1>3, <1>4

(* sendmessage asks the resolver or connects, while nothing is awaited.    *)
LEMMA Sends ==
    ASSUME WInv, RInv', wa_sendstate \in {0, 2}, sendmessage,
           UNCHANGED <<closing, confirmed, received>>
    PROVE  /\ wa_sendstate' \in {1, 2} /\ closing' \in 0 .. MaxConns
           /\ conn' \in [phase : {"none", "syn", "sent"}, event : 0 .. MaxEvents, got : BOOLEAN]
           /\ wa_query' \in Queries \cup {NoQuery}
           /\ WaitsForQuery' /\ Connected' /\ Delivery'
<1>1. conn = NoConn /\ closing \in 0 .. MaxConns /\ wa_query \in Queries \cup {NoQuery}
  BY DEF WInv, Connected, WaTypeOK
<1>2. CASE resolv_lookup(CONF_WATCHASYNC_SERVER) = {}
  <2>1. /\ wa_sendstate' = 1 /\ conn' = conn /\ wa_query' = issued + 1 /\ issued' = issued + 1
        /\ issued < MaxQueries
    BY <1>2 DEF sendmessage, resolv_query
  <2>2. issued + 1 \in Queries /\ issued \in Nat
    BY <2>1, Types, ResolverAssumption DEF WInv, Queries
  <2>3. WaitsForQuery'
    BY <1>1, <2>1, <2>2 DEF WaitsForQuery, NoConn
  <2>4. Connected' /\ Delivery'
    BY <1>1, <2>1 DEF WInv, Connected, Delivery, NoConn
  <2>5. QED
    BY <1>1, <2>1, <2>2, <2>3, <2>4 DEF WInv, WaTypeOK
<1>3. CASE resolv_lookup(CONF_WATCHASYNC_SERVER) # {}
  <2>1. watchasync_dns_query_cb(1) /\ UNCHANGED vars /\ wa_query' = wa_query
    BY <1>3 DEF sendmessage
  <2>2. /\ wa_sendstate' \in {1, 2} /\ closing' \in 0 .. MaxConns
        /\ conn' \in [phase : {"none", "syn", "sent"}, event : 0 .. MaxEvents, got : BOOLEAN]
        /\ Connected' /\ Delivery'
    BY <1>1, <2>1, ConnectsOrRetries DEF WInv
  <2>3. ~(wa_query # NoQuery /\ query[wa_query].end = "pending") /\ wa_query <= issued
    BY DEF WInv, WaitsForQuery
  <2>4. WaitsForQuery'
    BY <2>1, <2>3 DEF WaitsForQuery, vars
  <2>5. QED
    BY <1>1, <2>1, <2>2, <2>4
<1>4. QED
  BY <1>2, <1>3

LEMMA ResendWInv == ASSUME WInv, RInv', Resend PROVE WInv'
<1>1. wa_sendstate = 2 /\ sendmessage /\ UNCHANGED <<queue, closing, confirmed, received>>
  BY DEF Resend
<1>2. Ring'
  BY <1>1, Sends, SameRing DEF WInv
<1>3. WaTypeOK'
  BY <1>1, Sends DEF WInv, WaTypeOK, queue
<1>4. QED
  BY <1>1, <1>2, <1>3, Sends DEF WInv

(* The next event is the one that was next to the left end of the ring.    *)
LEMMA SendNextWInv == ASSUME WInv, RInv', SendNext PROVE WInv'
<1>1. /\ wa_sendstate = 0 /\ wa_buffer_left # wa_buffer_right
      /\ wa_buffer_left' = NextPlace(wa_buffer_left)
      /\ sendmessage /\ UNCHANGED <<closing, confirmed, received>>
      /\ UNCHANGED <<wa_buffer, wa_buffer_right, accepted>>
  BY DEF SendNext
<1>2. wa_sendstate' \in {1, 2} /\ WaitsForQuery' /\ Connected' /\ Delivery'
  BY <1>1, Sends
<1>3. /\ wa_buffer_left \in Places /\ wa_buffer_right \in Places
      /\ accepted \in Nat /\ confirmed \in Nat
  BY WatchAsyncAssumption DEF WInv, WaTypeOK
<1>4. First = NextPlace(wa_buffer_left) /\ First' = First
  BY <1>1, <1>2 DEF First
<1>5. First = At(wa_buffer_left, 1) /\ Size \in Nat \ {0}
  BY <1>4, WatchAsyncAssumption DEF NextPlace, At, Size
<1>6. First \in Places
  BY <1>3, <1>5, Around
<1>7. Unconfirmed \in 0 .. Size - 1 /\ At(wa_buffer_right, 1) = At(First, Unconfirmed)
  BY <1>1 DEF WInv, Ring
<1>8. Unconfirmed # 0
  <2>1. SUFFICES ASSUME Unconfirmed = 0 PROVE FALSE
    OBVIOUS
  <2>2. At(First, 0) = First
    BY <1>5, <1>6, Around DEF Places, Size
  <2>3. At(wa_buffer_right, 1) = At(wa_buffer_left, 1)
    BY <1>5, <1>7, <2>1, <2>2
  <2>4. QED
    BY <1>1, <1>3, <2>3, NextDistinct
<1>9. Ring'
  <2>1. Unconfirmed' = Unconfirmed
    BY <1>1 DEF Unconfirmed
  <2>2. Unconfirmed' \in 1 .. Size
    BY <1>5, <1>7, <1>8, <2>1
  <2>3. QED
    BY <1>1, <1>2, <1>4, <1>7, <2>1, <2>2 DEF WInv, Ring, At, Size
<1>10. WaTypeOK'
  BY <1>1, <1>4, <1>6, Sends DEF WInv, WaTypeOK
<1>11. QED
  BY <1>2, <1>9, <1>10 DEF WInv

-----------------------------------------------------------------------------
(* What a state of WInv says of the ring.                                  *)
LEMMA RingTypes ==
    ASSUME WInv
    PROVE  /\ Size \in Nat \ {0} /\ Places = 0 .. Size - 1
           /\ wa_buffer \in [Places -> 0 .. MaxEvents] /\ MaxEvents \in Nat
           /\ wa_buffer_left \in Places /\ wa_buffer_right \in Places /\ First \in Places
           /\ accepted \in 0 .. MaxEvents /\ confirmed \in 0 .. MaxEvents
           /\ Unconfirmed = accepted - confirmed /\ Unconfirmed \in 0 .. Size
           /\ wa_sendstate = 0 => First = At(wa_buffer_left, 1) /\ Unconfirmed < Size
           /\ wa_sendstate # 0 => First = wa_buffer_left /\ Unconfirmed > 0
           /\ \A k \in 0 .. Unconfirmed - 1 : wa_buffer[At(First, k)] = confirmed + 1 + k
           /\ At(wa_buffer_right, 1) = At(First, Unconfirmed)
<1>1. Size \in Nat \ {0} /\ Places = 0 .. Size - 1 /\ MaxEvents \in Nat
  BY WatchAsyncAssumption DEF Size, Places
<1>2. /\ wa_buffer \in [Places -> 0 .. MaxEvents]
      /\ wa_buffer_left \in Places /\ wa_buffer_right \in Places
      /\ accepted \in 0 .. MaxEvents /\ confirmed \in 0 .. MaxEvents
  BY DEF WInv, WaTypeOK
<1>3. First = (IF wa_sendstate = 0 THEN At(wa_buffer_left, 1) ELSE wa_buffer_left)
  BY DEF First, NextPlace, At, Size
<1> HIDE DEF Size, Places
<1>4. 1 \in 0 .. Size
  BY <1>1
<1>5. First \in Places
  BY <1>2, <1>3, <1>4, Around
<1>6. /\ IF wa_sendstate = 0 THEN Unconfirmed \in 0 .. Size - 1 ELSE Unconfirmed \in 1 .. Size
      /\ \A k \in 0 .. Unconfirmed - 1 : wa_buffer[At(First, k)] = confirmed + 1 + k
      /\ At(wa_buffer_right, 1) = At(First, Unconfirmed)
  BY DEF WInv, Ring
<1>7. QED
  BY <1>1, <1>2, <1>3, <1>5, <1>6 DEF Unconfirmed

LEMMA RingNumbers ==
    ASSUME WInv
    PROVE  /\ Size \in Nat /\ Size > 0 /\ MaxEvents \in Nat
           /\ accepted \in 0 .. MaxEvents /\ confirmed \in 0 .. MaxEvents
  BY RingTypes

(* An event is written behind the others: not over one of them, because    *)
(* with Size events in the ring, or one less while nothing is being sent,  *)
(* RingFull holds.                                                         *)
LEMMA AddWInv == ASSUME WInv, RInv', addToRingbuffer PROVE WInv'
<1> DEFINE new == At(wa_buffer_right, 1)
<1>1. /\ new # wa_buffer_left /\ accepted < MaxEvents /\ accepted' = accepted + 1
      /\ wa_buffer_right' = new /\ wa_buffer' = [wa_buffer EXCEPT ![new] = accepted + 1]
      /\ UNCHANGED vars /\ UNCHANGED <<wa_buffer_left, sender>>
  BY DEF addToRingbuffer, RingFull, NextPlace, At, Size
<1>2. /\ First' = First /\ Unconfirmed' = Unconfirmed + 1
      /\ confirmed' = confirmed /\ wa_sendstate' = wa_sendstate
  <2>1. confirmed' = confirmed /\ wa_sendstate' = wa_sendstate /\ wa_buffer_left' = wa_buffer_left
    BY <1>1 DEF sender
  <2>2. accepted \in Int /\ confirmed \in Int /\ accepted' = accepted + 1
    BY <1>1, RingNumbers
  <2>3. QED
    BY <2>1, <2>2 DEF First, NextPlace, Unconfirmed
<1> HIDE DEF new, Size, Places, First, Unconfirmed
<1>3. new \in Places /\ new = At(First, Unconfirmed)
  BY RingTypes, Around DEF new
<1>4. Unconfirmed \in 0 .. Size - 1 /\ (wa_sendstate = 0 => Unconfirmed + 1 < Size)
  <2>1. CASE wa_sendstate = 0
    <3>1. SUFFICES ASSUME Unconfirmed = Size - 1 PROVE FALSE
      BY <2>1, RingTypes
    <3>2. new = At(wa_buffer_left, Size)
      <4>1. Size - 1 \in 0 .. Size - 1 /\ (Size - 1) + 1 = Size
        BY RingTypes
      <4>2. At(At(wa_buffer_left, 1), Size - 1) = At(wa_buffer_left, (Size - 1) + 1)
        BY <4>1, RingTypes, OneMore
      <4>3. QED
        BY <1>3, <2>1, <3>1, <4>1, <4>2, RingTypes
    <3>3. At(wa_buffer_left, Size) = wa_buffer_left
      BY RingTypes, FullCircle
    <3>4. QED
      BY <1>1, <3>2, <3>3
  <2>2. CASE wa_sendstate # 0
    <3>1. At(wa_buffer_left, Size) = wa_buffer_left
      BY RingTypes, FullCircle
    <3>2. Unconfirmed # Size
      BY <1>1, <1>3, <2>2, <3>1, RingTypes
    <3>3. QED
      BY <2>2, <3>2, RingTypes
  <2>3. QED
    BY <2>1, <2>2
<1>5. Ring'
  <2>1. IF wa_sendstate = 0 THEN Unconfirmed' \in 0 .. Size - 1 ELSE Unconfirmed' \in 1 .. Size
    BY <1>2, <1>4, RingNumbers
  <2>2. ASSUME NEW k \in 0 .. Unconfirmed PROVE wa_buffer'[At(First, k)] = confirmed + 1 + k
    <3>1. k \in 0 .. Size - 1 /\ k \in 0 .. Size
      BY <1>4, <2>2, RingNumbers
    <3>2. At(First, k) \in Places
      BY <3>1, Around, RingTypes
    <3>3. CASE k = Unconfirmed
      BY <1>1, <1>3, <3>3, RingTypes
    <3>4. CASE k # Unconfirmed
      <4>1. At(First, k) # new
        BY <1>3, <1>4, <3>1, <3>4, PlacesDistinct, RingTypes
      <4>2. k \in 0 .. Unconfirmed - 1
        BY <1>4, <2>2, <3>4
      <4>3. QED
        BY <1>1, <3>2, <4>1, <4>2, RingTypes
    <3>5. QED
      BY <3>3, <3>4
  <2>3. At(wa_buffer_right', 1) = At(First, Unconfirmed + 1)
    BY <1>1, <1>3, <1>4, OneMore, RingTypes
  <2>4. (Unconfirmed + 1) - 1 = Unconfirmed
    BY <1>4
  <2>5. QED
    BY <1>2, <2>1, <2>2, <2>3, <2>4 DEF Ring, At, Size
<1>6. WaTypeOK'
  <2>1. wa_buffer' \in [Places -> 0 .. MaxEvents] /\ accepted' \in 0 .. MaxEvents
    <3>1. accepted + 1 \in 0 .. MaxEvents
      BY <1>1, RingNumbers
    <3>2. wa_buffer \in [Places -> 0 .. MaxEvents]
      BY RingTypes
    <3>3. QED
      BY <1>1, <1>3, <3>1, <3>2
  <2>2. QED
    BY <1>1, <1>3, <2>1 DEF WInv, WaTypeOK, sender
<1>7. WaitsForQuery' /\ Connected' /\ Delivery'
  BY <1>1 DEF WInv, WaitsForQuery, Connected, Delivery, sender, vars
<1>8. QED
  BY <1>5, <1>6, <1>7 DEF WInv

-----------------------------------------------------------------------------
(* The first event that is not confirmed is at the left end while it is    *)
(* being sent.                                                             *)
LEMMA LeftIsNext ==
    ASSUME WInv, wa_sendstate # 0
    PROVE  wa_buffer[wa_buffer_left] = confirmed + 1 /\ confirmed + 1 \in 0 .. MaxEvents
<1>1. /\ First = wa_buffer_left /\ Unconfirmed > 0 /\ Unconfirmed \in 0 .. Size
      /\ Size \in Nat \ {0} /\ Places = 0 .. Size - 1 /\ wa_buffer_left \in Places
      /\ confirmed \in 0 .. MaxEvents /\ accepted \in 0 .. MaxEvents /\ MaxEvents \in Nat
      /\ \A k \in 0 .. Unconfirmed - 1 : wa_buffer[At(First, k)] = confirmed + 1 + k
      /\ Unconfirmed = accepted - confirmed
  BY RingTypes
<1> HIDE DEF Size, Places, First, Unconfirmed
<1>2. 0 \in 0 .. Unconfirmed - 1 /\ 0 \in 0 .. Size
  BY <1>1
<1>3. At(wa_buffer_left, 0) =
         (IF wa_buffer_left + 0 < Size THEN wa_buffer_left + 0 ELSE wa_buffer_left + 0 - Size)
  BY <1>1, <1>2, Around
<1>4. At(wa_buffer_left, 0) = wa_buffer_left
  BY <1>1, <1>3
<1>5. wa_buffer[wa_buffer_left] = confirmed + 1 + 0
  BY <1>1, <1>2, <1>4
<1>6. QED
  BY <1>1, <1>5

(* The connection, as a record.                                            *)
LEMMA ConnTypes ==
    ASSUME WInv
    PROVE  /\ conn \in [phase : {"none", "syn", "sent"}, event : 0 .. MaxEvents, got : BOOLEAN]
           /\ conn.phase \in {"syn", "sent"} => conn # NoConn /\ wa_sendstate = 1
  BY DEF WInv, WaTypeOK, Connected, NoConn

LEMMA TransmitWInv == ASSUME WInv, RInv', Transmit PROVE WInv'
<1> DEFINE next == wa_buffer[wa_buffer_left]
<1>1. /\ conn.phase \in {"syn", "sent"} /\ conn' = [conn EXCEPT !.phase = "sent", !.event = next]
      /\ UNCHANGED vars /\ UNCHANGED queue
      /\ UNCHANGED <<wa_sendstate, closing, wa_query, confirmed, received>>
  BY DEF Transmit
<1>2. wa_sendstate = 1 /\ conn # NoConn
  BY <1>1, ConnTypes
<1>3. next = confirmed + 1 /\ next \in 0 .. MaxEvents
  BY <1>2, LeftIsNext
<1> HIDE DEF next
<1>4. /\ conn' \in [phase : {"none", "syn", "sent"}, event : 0 .. MaxEvents, got : BOOLEAN]
      /\ conn'.phase = "sent" /\ conn'.event = next /\ conn'.got = conn.got
  BY <1>1, <1>3, ConnTypes
<1>5. WaTypeOK'
  BY <1>1, <1>4 DEF WInv, WaTypeOK, queue
<1>6. WaitsForQuery' /\ Connected'
  BY <1>1, <1>2, <1>4 DEF WInv, WaitsForQuery, Connected, vars
<1>7. Delivery'
  BY <1>1, <1>3, <1>4 DEF WInv, Delivery
<1>8. Ring'
  BY <1>1, SameRing DEF WInv
<1>9. QED
  BY <1>5, <1>6, <1>7, <1>8 DEF WInv

LEMMA PeerReceivesWInv == ASSUME WInv, RInv', PeerReceives PROVE WInv'
<1>1. /\ conn.phase = "sent" /\ conn' = [conn EXCEPT !.got = TRUE] /\ received' = conn.event
      /\ UNCHANGED vars /\ UNCHANGED queue /\ UNCHANGED <<wa_sendstate, closing, wa_query, confirmed>>
  BY DEF PeerReceives
<1>2. /\ conn' \in [phase : {"none", "syn", "sent"}, event : 0 .. MaxEvents, got : BOOLEAN]
      /\ conn'.phase = "sent" /\ conn'.event = conn.event /\ conn.event \in 0 .. MaxEvents
  BY <1>1, ConnTypes
<1>3. conn.event = confirmed + 1 /\ wa_sendstate = 1 /\ conn # NoConn
  BY <1>1, ConnTypes DEF WInv, Delivery
<1>4. WaTypeOK'
  BY <1>1, <1>2 DEF WInv, WaTypeOK, queue
<1>5. WaitsForQuery' /\ Connected'
  BY <1>1, <1>2, <1>3 DEF WInv, WaitsForQuery, Connected, vars
<1>6. Delivery'
  BY <1>1, <1>2, <1>3 DEF WInv, Delivery
<1>7. Ring'
  BY <1>1, SameRing DEF WInv
<1>8. QED
  BY <1>4, <1>5, <1>6, <1>7 DEF WInv

(* The acknowledged event leaves the ring: its place is free at once, and  *)
(* the left end stays on it until the next one is sent.                    *)
LEMMA AckedWInv == ASSUME WInv, RInv', Acked PROVE WInv'
<1>1. /\ conn.phase = "sent" /\ conn.got /\ wa_sendstate' = 0 /\ confirmed' = confirmed + 1
      /\ conn' = NoConn /\ closing' = closing + 1
      /\ UNCHANGED vars /\ UNCHANGED queue /\ UNCHANGED <<wa_query, received>>
  BY DEF Acked
<1>2. wa_sendstate = 1 /\ conn # NoConn
  BY <1>1, ConnTypes
<1>3. received = confirmed + 1 /\ closing < MaxConns /\ closing \in 0 .. MaxConns /\ MaxConns \in Nat
  BY <1>1, <1>2, WatchAsyncAssumption DEF WInv, Delivery, Connected, WaTypeOK
<1>4. WaTypeOK'
  <2>1. confirmed + 1 \in 0 .. MaxEvents
    BY <1>2, LeftIsNext
  <2>2. closing + 1 \in 0 .. MaxConns
    BY <1>3
  <2>3. NoConn \in [phase : {"none", "syn", "sent"}, event : 0 .. MaxEvents, got : BOOLEAN]
    BY RingTypes DEF NoConn, NoEvent
  <2>4. QED
    BY <1>1, <2>1, <2>2, <2>3 DEF WInv, WaTypeOK, queue
<1>5. WaitsForQuery'
  BY <1>1, <1>2 DEF WInv, WaitsForQuery, vars
<1>6. Connected' /\ Delivery'
  BY <1>1, <1>3 DEF Connected, Delivery, NoConn
<1>7. Ring'
  <2>1. First = wa_buffer_left /\ Unconfirmed \in 1 .. Size
    BY <1>2, RingTypes
  <2>2. First' = At(First, 1) /\ Unconfirmed' = Unconfirmed - 1 /\ Unconfirmed' \in 0 .. Size - 1
    <3>1. First' = At(First, 1)
      BY <1>1, <2>1 DEF First, NextPlace, At, Size, queue
    <3>2. Unconfirmed' = Unconfirmed - 1
      <4>1. accepted' = accepted /\ confirmed' = confirmed + 1
        BY <1>1 DEF queue
      <4>2. accepted \in Int /\ confirmed \in Int
        BY RingNumbers
      <4>3. QED
        BY <4>1, <4>2 DEF Unconfirmed
    <3>3. Size \in Nat
      BY RingNumbers
    <3>4. QED
      BY <2>1, <3>1, <3>2, <3>3
  <2> HIDE DEF First, Unconfirmed, Size, Places
  <2>3. ASSUME NEW k \in 0 .. Unconfirmed - 1 PROVE At(At(First, 1), k) = At(First, k + 1)
    <3>1. k \in 0 .. Size - 1
      BY <2>1, <2>3, RingTypes
    <3>2. QED
      BY <3>1, OneMore, RingTypes
  <2>4. ASSUME NEW k \in 0 .. Unconfirmed' - 1 PROVE wa_buffer'[At(First', k)] = confirmed' + 1 + k
    <3>1. k \in 0 .. Unconfirmed - 1 /\ k + 1 \in 0 .. Unconfirmed - 1
      BY <2>1, <2>2, <2>4, RingTypes
    <3>2. wa_buffer[At(First, k + 1)] = confirmed + 1 + (k + 1)
      BY <3>1, RingTypes
    <3>3. confirmed + 1 + (k + 1) = (confirmed + 1) + 1 + k
      <4>1. k \in Int /\ confirmed \in Int
        BY <2>4, RingNumbers
      <4>2. QED
        BY <4>1
    <3>4. QED
      BY <1>1, <2>2, <2>3, <3>1, <3>2, <3>3 DEF queue
  <2>5. At(wa_buffer_right', 1) = At(First', Unconfirmed')
    <3>1. Unconfirmed - 1 \in 0 .. Unconfirmed - 1 /\ (Unconfirmed - 1) + 1 = Unconfirmed
      BY <2>1, RingTypes
    <3>2. At(At(First, 1), Unconfirmed - 1) = At(First, (Unconfirmed - 1) + 1)
      BY <2>3, <3>1
    <3>3. QED
      BY <1>1, <2>2, <3>1, <3>2, RingTypes DEF queue
  <2>6. QED
    BY <1>1, <2>2, <2>4, <2>5 DEF Ring, At, Size
<1>8. QED
  BY <1>4, <1>5, <1>6, <1>7 DEF WInv

LEMMA FailedWInv == ASSUME WInv, RInv', Failed PROVE WInv'
<1>1. /\ conn # NoConn /\ wa_sendstate' = 2 /\ conn' = NoConn /\ closing' \in {closing, closing + 1}
      /\ UNCHANGED vars /\ UNCHANGED queue /\ UNCHANGED <<wa_query, confirmed, received>>
  BY DEF Failed
<1>2. wa_sendstate = 1 /\ closing < MaxConns /\ closing \in 0 .. MaxConns /\ MaxConns \in Nat
  BY <1>1, WatchAsyncAssumption DEF WInv, Connected, WaTypeOK
<1>3. NoConn \in [phase : {"none", "syn", "sent"}, event : 0 .. MaxEvents, got : BOOLEAN]
  BY RingTypes DEF NoConn, NoEvent
<1>4. WaTypeOK'
  BY <1>1, <1>2, <1>3 DEF WInv, WaTypeOK, queue
<1>5. WaitsForQuery'
  BY <1>1 DEF WInv, WaitsForQuery, vars
<1>6. Connected' /\ Delivery'
  BY <1>1 DEF WInv, Connected, Delivery, NoConn
<1>7. Ring'
  BY <1>1, <1>2, SameRing DEF WInv
<1>8. QED
  BY <1>4, <1>5, <1>6, <1>7 DEF WInv

LEMMA ClosedWInv == ASSUME WInv, RInv', Closed PROVE WInv'
<1>1. /\ closing > 0 /\ closing' = closing - 1 /\ UNCHANGED vars /\ UNCHANGED queue
      /\ UNCHANGED <<wa_sendstate, conn, wa_query, confirmed, received>>
  BY DEF Closed
<1>2. closing \in 0 .. MaxConns /\ MaxConns \in Nat
  BY WatchAsyncAssumption DEF WInv, WaTypeOK
<1>3. WaTypeOK' /\ Connected'
  BY <1>1, <1>2 DEF WInv, WaTypeOK, Connected, queue
<1>4. WaitsForQuery' /\ Delivery'
  BY <1>1 DEF WInv, WaitsForQuery, Delivery, vars
<1>5. Ring'
  BY <1>1, SameRing DEF WInv
<1>6. QED
  BY <1>3, <1>4, <1>5 DEF WInv

(* Another client's query may evict watchasync's, and changes nothing else *)
(* for it.                                                                 *)
LEMMA OtherClientWInv == ASSUME WInv, RInv', OtherClient PROVE WInv'
<1>1. PICK n \in Names : resolv_query(n)
  BY DEF OtherClient
<1>2. UNCHANGED queue /\ UNCHANGED sender
  BY DEF OtherClient, wa
<1>3. issued' = issued + 1 /\ issued \in Nat
  <2>1. issued' = issued + 1
    BY <1>1 DEF resolv_query
  <2>2. issued \in 0 .. MaxQueries
    BY DEF WInv, RInv, TypeOK
  <2>3. QED
    BY <2>1, <2>2, ResolverAssumption
<1>4. WaitsForQuery'
  <2>1. wa_query \in Queries \cup {NoQuery} /\ wa_query <= issued /\ wa_query' = wa_query
    BY <1>2 DEF WInv, WaTypeOK, WaitsForQuery, sender
  <2>2. wa_query # NoQuery /\ query'[wa_query].end = "pending" => query[wa_query].end = "pending"
    BY <1>1, <2>1, QueryEvicts DEF WInv
  <2>3. wa_query <= issued + 1
    BY <1>3, <2>1, ResolverAssumption DEF Queries, NoQuery
  <2>4. QED
    BY <1>2, <1>3, <2>1, <2>2, <2>3 DEF WInv, WaitsForQuery, sender
<1>5. WaTypeOK' /\ Connected' /\ Delivery'
  BY <1>2 DEF WInv, WaTypeOK, Connected, Delivery, queue, sender
<1>6. Ring'
  BY <1>2, SameRing DEF WInv, sender
<1>7. QED
  BY <1>4, <1>5, <1>6 DEF WInv

LEMMA StutterWInv == ASSUME WInv, RInv', UNCHANGED all PROVE WInv'
<1>1. UNCHANGED vars /\ UNCHANGED queue /\ UNCHANGED sender
  BY DEF all, wa
<1>2. WaitsForQuery' /\ WaTypeOK' /\ Connected' /\ Delivery'
  BY <1>1 DEF WInv, WaitsForQuery, WaTypeOK, Connected, Delivery, vars, queue, sender
<1>3. Ring'
  BY <1>1, SameRing DEF WInv, sender
<1>4. QED
  BY <1>2, <1>3 DEF WInv

-----------------------------------------------------------------------------
LEMMA InitWInv == WaInit => WInv
<1> SUFFICES ASSUME WaInit PROVE WInv
  OBVIOUS
<1>1. RInv
  BY InitRInv DEF WaInit
<1>2. WaTypeOK
  BY WatchAsyncAssumption DEF WaInit, WaTypeOK, Places, NoConn, NoEvent, NoQuery
<1>3. WaitsForQuery /\ Connected /\ Delivery
  BY DEF WaInit, Init, WaitsForQuery, Connected, Delivery, NoConn, NoEvent, NoQuery
<1>4. Ring
  <2>1. wa_sendstate = 0 /\ wa_buffer_left = 0 /\ wa_buffer_right = 0 /\ Unconfirmed = 0
    BY DEF WaInit, Unconfirmed
  <2>2. Size \in Nat \ {0} /\ Places = 0 .. Size - 1
    BY WatchAsyncAssumption DEF Size, Places
  <2>3. First = At(0, 1)
    BY <2>1 DEF First, NextPlace, At, Size
  <2> HIDE DEF Size, Places, First, Unconfirmed
  <2>4. 0 \in Places /\ 0 \in 0 .. Size /\ 1 \in 0 .. Size
    BY <2>2
  <2>5. First \in Places
    BY <2>3, <2>4, Around
  <2>6. At(First, 0) = (IF First + 0 < Size THEN First + 0 ELSE First + 0 - Size)
    BY <2>4, <2>5, Around
  <2>7. At(First, 0) = First
    BY <2>2, <2>5, <2>6
  <2>8. QED
    BY <2>1, <2>2, <2>3, <2>7 DEF Ring
<1>5. QED
  BY <1>1, <1>2, <1>3, <1>4 DEF WInv

LEMMA NextWInv == WInv /\ [WaNext]_all => WInv'
<1> SUFFICES ASSUME WInv, [WaNext]_all PROVE WInv'
  OBVIOUS
<1>1. RInv'
  BY ResolverStep, NextRInv DEF WInv
<1>2. wa_query # NoQuery => wa_query \in Queries
  BY DEF WInv, WaTypeOK
<1>3. CASE Poll
  BY <1>1, <1>2, <1>3, PollEnds, CallbackWInv DEF Poll, resolv_periodic, WInv
<1>4. CASE Answer
  <2>1. PICK p \in packets, kind \in Answers : resolv_newdata(p, kind) /\ CalledBack
    BY <1>4 DEF Answer
  <2>2. wa_query # NoQuery => EndsByCallback(wa_query)
    BY <1>2, <2>1, AnswerEnds DEF WInv
  <2>3. issued' = issued
    BY <2>1 DEF resolv_newdata
  <2>4. QED
    BY <1>1, <2>1, <2>2, <2>3, CallbackWInv
<1>5. CASE OtherClient \/ addToRingbuffer \/ Resend \/ SendNext
  BY <1>1, <1>5, OtherClientWInv, AddWInv, ResendWInv, SendNextWInv
<1>6. CASE Transmit \/ PeerReceives \/ Acked \/ Failed \/ Closed
  BY <1>1, <1>6, TransmitWInv, PeerReceivesWInv, AckedWInv, FailedWInv, ClosedWInv
<1>7. CASE UNCHANGED all
  BY <1>1, <1>7, StutterWInv
<1>8. QED
  BY <1>3, <1>4, <1>5, <1>6, <1>7 DEF WaNext

LEMMA AlwaysWInv == WaSpec => []WInv
  BY InitWInv, NextWInv, PTL DEF WaSpec

-----------------------------------------------------------------------------
(* The resolver, used by watchasync and by others, is the resolver of the  *)
(* module Resolver: watchasync_mainloop and the callback make no step that *)
(* Resolver does not have, so its theorems hold for the two together.      *)
THEOREM UsesResolver == WaSpec => Spec
<1>1. WaInit => Init
  BY DEF WaInit
<1>2. QED
  BY <1>1, ResolverStep, PTL DEF WaSpec, Spec

(* The resolver calls watchasync back at most once for each of its         *)
(* queries, whatever other clients ask for meanwhile.                      *)
THEOREM CallbackOnceComposed == WaSpec => []CalledAtMostOnce
  BY UsesResolver, CallbackOnce, PTL

(* The ring of every size holds exactly the events that no peer has        *)
(* confirmed, in order: addToRingbuffer never overwrites one of them, and  *)
(* watchasync_mainloop never passes over one.                              *)
THEOREM NoEventLost == WaSpec => []RingHoldsUnconfirmed
<1>1. WInv => RingHoldsUnconfirmed
  BY DEF WInv, Ring, RingHoldsUnconfirmed, First, Unconfirmed, NextPlace, At, Size
<1>2. QED
  BY <1>1, AlwaysWInv, PTL

(* Peers receive the events in the order in which they happened, and none  *)
(* is left out, whatever connections fail and queries are answered late.   *)
THEOREM EventsInOrder == WaSpec => NoneSkipped
<1>1. WInv /\ [WaNext]_all => [received' \in {received, received + 1}]_all
  <2> SUFFICES ASSUME WInv, WaNext PROVE received' \in {received, received + 1}
    BY DEF all
  <2>1. CASE PeerReceives
    <3>1. received' = confirmed + 1
      BY <2>1 DEF PeerReceives, WInv, Delivery
    <3>2. QED
      BY <3>1 DEF WInv, Delivery
  <2>2. CASE ~PeerReceives
    BY <2>2 DEF WaNext, Poll, Answer, OtherClient, CalledBack, addToRingbuffer, Resend, SendNext,
                Transmit, Acked, Failed, Closed, wa, sender
  <2>3. QED
    BY <2>1, <2>2
<1>2. QED
  BY <1>1, AlwaysWInv, PTL DEF WaSpec, NoneSkipped

(* What watchasync_net_main composes for uip_rexmit is the event it sent   *)
(* at first: the left end of the ring does not change under a connection.  *)
THEOREM RetransmitsTheSame == WaSpec => RetransmissionSame
<1>1. WInv /\ [WaNext]_all => [conn.phase = "sent" /\ conn'.phase = "sent" => conn'.event = conn.event]_all
  <2> SUFFICES ASSUME WInv, WaNext, conn.phase = "sent", conn'.phase = "sent"
               PROVE  conn'.event = conn.event
    BY DEF all
  <2>1. WInv' /\ conn.event = confirmed + 1 /\ conn'.event = confirmed' + 1
    BY NextWInv DEF WInv, Delivery
  <2>2. CASE Acked
    BY <2>2 DEF Acked, NoConn
  <2>3. CASE ~Acked
    <3>1. confirmed' = confirmed
      BY <2>3 DEF WaNext, Poll, Answer, OtherClient, CalledBack, addToRingbuffer, Resend, SendNext,
                  Transmit, PeerReceives, Failed, Closed, wa, sender
    <3>2. QED
      BY <2>1, <3>1
  <2>4. QED
    BY <2>2, <2>3
<1>2. QED
  BY <1>1, AlwaysWInv, PTL DEF WaSpec, RetransmissionSame
=============================================================================
