-------------------------------- MODULE Dhcp --------------------------------
(***************************************************************************)
(* The DHCP client (protocols/dhcp/dhcp.c): discovery, request, lease      *)
(* renewal, and the fall-back to the static address.                       *)
(*                                                                         *)
(* Messages are lost, delayed and duplicated: a server that was asked may  *)
(* answer at any later time, any number of times.  uIP polls the client    *)
(* every 10 ticks, which is at least once between two calls of             *)
(* dhcp_periodic.  The 32-bit counters wrap at Width.                      *)
(***************************************************************************)
EXTENDS Integers, FiniteSets

CONSTANTS
    HZ,              \* the calls of dhcp_periodic that make a tick_sec, one a second
    RetryLimit,      \* 10
    Width,           \* 2^32
    Servers,         \* a server's number is also the address that it offers
    Leases           \* the lease times that servers give

ASSUME DhcpAssumption ==
    /\ HZ \in Nat \ {0} /\ RetryLimit \in Nat
    /\ Width \in Nat /\ Width > 4 * RetryLimit + 10
    /\ Servers \subseteq Nat \ {0}
    /\ Leases \subseteq 0 .. Width - 1

VARIABLES
    state, retry_counter, retry_timer, lease_time_seconds, ticks,
    ipaddr, serverid,    \* what the last reply said
    tick_sec, counter,
    hostaddr,
    conn,                \* the UDP connection is open
    polled,              \* uIP polled since the last call of dhcp_periodic
    asked,               \* where a DISCOVER (to all) and REQUESTs have been sent
    age,                 \* history: calls of dhcp_periodic since the last ACK, on top
                         \* of those that counter held then
    renewals             \* history: requests sent since the last ACK

timers == <<retry_counter, retry_timer, ticks, tick_sec>>
client == <<state, timers, lease_time_seconds, ipaddr, serverid, hostaddr, conn>>
history == <<age, renewals>>
vars == <<client, counter, polled, asked, history>>

NoAddr == 0
StaticAddr == -1
Broadcast == -2
Min2(a, b) == IF a < b THEN a ELSE b
MaxTicks == (Width - 1) \div 2
MaxAge == HZ * (MaxTicks + 1)           \* bounds the history

LEASE_RENEW_T1(lease) == lease \div 2
LEASE_REBIND_T2(lease) == ((lease * 7) % Width) \div 8

(* Without a free UDP connection the client gives up at once.              *)
Init ==
    /\ state = "INITIAL"
    /\ retry_counter = 0 /\ retry_timer = 5 /\ ticks = 0 /\ tick_sec = 0
    /\ lease_time_seconds = 0 /\ ipaddr = NoAddr /\ serverid = NoAddr
    /\ hostaddr = NoAddr /\ conn \in BOOLEAN
    /\ counter = 0 /\ polled = FALSE /\ asked = {}
    /\ age = 0 /\ renewals = 0

-----------------------------------------------------------------------------
(* The timer.                                                              *)
Tick(t) == Min2(t + 1, MaxTicks)

dhcp_periodic ==
    /\ polled \/ ~conn
    /\ polled' = FALSE
    /\ IF counter + 1 >= HZ THEN counter' = 0 /\ tick_sec' = Tick(tick_sec)
                            ELSE counter' = counter + 1 /\ UNCHANGED tick_sec
    /\ age' = IF state = "CONFIGURED" THEN Min2(age + 1, MaxAge) ELSE age
    /\ UNCHANGED <<state, retry_counter, retry_timer, ticks, lease_time_seconds, ipaddr,
                   serverid, hostaddr, conn, asked, renewals>>

-----------------------------------------------------------------------------
(* dhcp_net_main with new data: a reply, whatever the state, is stored     *)
(* before it is looked at.                                                 *)
Offer(s) ==
    /\ Broadcast \in asked
    /\ ipaddr' = s /\ serverid' = s
    /\ IF state = "DISCOVERING"
       THEN /\ state' = "REQUESTING"
            /\ retry_timer' = 2 /\ retry_counter' = 1 /\ tick_sec' = 0
            /\ asked' = asked \cup {s}
       ELSE UNCHANGED <<state, retry_timer, retry_counter, tick_sec, asked>>
    /\ UNCHANGED <<ticks, lease_time_seconds, hostaddr, history>>

Ack(s, lease) ==
    /\ s \in asked
    /\ ipaddr' = s /\ serverid' = s
    /\ IF state \in {"REQUESTING", "CONFIGURED"}
       THEN /\ hostaddr' = s
            /\ state' = "CONFIGURED"
            /\ lease_time_seconds' = lease
            /\ ticks' = 0 /\ tick_sec' = 0
            /\ age' = counter /\ renewals' = 0
       ELSE UNCHANGED <<hostaddr, state, lease_time_seconds, ticks, tick_sec, history>>
    /\ UNCHANGED <<retry_counter, retry_timer, asked>>

Nak(s) ==
    /\ s \in asked
    /\ ipaddr' = NoAddr /\ serverid' = s
    /\ UNCHANGED <<state, timers, lease_time_seconds, hostaddr, asked, history>>

Reply ==
    /\ conn
    /\ \E s \in Servers : Offer(s) \/ Nak(s) \/ \E lease \in Leases : Ack(s, lease)
    /\ UNCHANGED <<counter, polled, conn>>

-----------------------------------------------------------------------------
(* dhcp_net_main without data, state by state.                             *)
RetryIsDue == tick_sec > retry_timer

(* The last of the retries ends the client for good.                       *)
dhcp_set_static ==
    /\ retry_counter' = retry_counter + 1
    /\ conn' = FALSE
    /\ hostaddr' = StaticAddr
    /\ UNCHANGED <<retry_timer, tick_sec>>

RetryAgainAlways(timer) ==     \* a mutant: the retries are not counted
    /\ retry_timer' = timer
    /\ tick_sec' = 0
    /\ UNCHANGED <<retry_counter, conn, hostaddr>>

RetryAgain(timer) ==
    IF retry_counter > RetryLimit THEN dhcp_set_static
    ELSE /\ retry_counter' = retry_counter + 1
         /\ retry_timer' = timer
         /\ tick_sec' = 0
         /\ UNCHANGED <<conn, hostaddr>>

Discover ==
    /\ state \in {"INITIAL", "DISCOVERING"} /\ RetryIsDue
    /\ asked' = asked \cup {Broadcast}
    /\ state' = "DISCOVERING"
    /\ RetryAgain(2 * (retry_counter + 1))
    /\ UNCHANGED <<ticks, lease_time_seconds, renewals>>

(* The request goes to the server of the last reply.                       *)
send_request == asked' = asked \cup {serverid}

RequestAgain ==
    /\ state = "REQUESTING" /\ RetryIsDue
    /\ send_request
    /\ RetryAgain(2)
    /\ UNCHANGED <<state, ticks, lease_time_seconds, renewals>>

Elapsed == (ticks + tick_sec) % Width

ReachedAfter(t) == Elapsed > t /\ ticks < t     \* a mutant
Reached(t) == Elapsed >= t /\ ticks < t

MarkOnly(t) == ticks' = t /\ UNCHANGED tick_sec     \* a mutant: tick_sec counts twice

(* The accumulation at the end, which follows each of the cases below.     *)
Accumulate(t) ==
    IF Elapsed < lease_time_seconds THEN ticks' = Elapsed /\ tick_sec' = 0
                                    ELSE ticks' = t /\ tick_sec' = 0

Renew ==
    LET lease == lease_time_seconds
        t1 == LEASE_RENEW_T1(lease)
        t2 == LEASE_REBIND_T2(lease)
    IN  /\ state = "CONFIGURED" /\ lease > 0
        /\ \/ /\ Reached(t1)
              /\ send_request /\ Accumulate(t1)
              /\ renewals' = Min2(renewals + 1, 2)
              /\ UNCHANGED <<state, retry_counter, retry_timer>>
           \/ /\ ~Reached(t1) /\ Reached(t2)
              /\ send_request /\ Accumulate(t2)
              /\ renewals' = Min2(renewals + 1, 2)
              /\ UNCHANGED <<state, retry_counter, retry_timer>>
           \/ /\ ~Reached(t1) /\ ~Reached(t2) /\ Elapsed >= lease
              /\ state' = "INITIAL"
              /\ retry_counter' = 0 /\ retry_timer' = 5
              /\ ticks' = 0 /\ tick_sec' = 0
              /\ UNCHANGED <<asked, renewals>>
           \/ /\ ~Reached(t1) /\ ~Reached(t2) /\ Elapsed < lease
              /\ Accumulate(Elapsed)
              /\ UNCHANGED <<state, retry_counter, retry_timer, asked, renewals>>
        /\ UNCHANGED <<conn, hostaddr, lease_time_seconds>>

Idle ==
    /\ \/ state # "CONFIGURED" /\ ~RetryIsDue
       \/ state = "CONFIGURED" /\ lease_time_seconds = 0
    /\ UNCHANGED <<state, timers, lease_time_seconds, hostaddr, conn, asked, renewals>>

Poll ==
    /\ conn
    /\ Discover \/ RequestAgain \/ Renew \/ Idle
    /\ polled' = TRUE
    /\ UNCHANGED <<ipaddr, serverid, counter, age>>

Next == dhcp_periodic \/ Reply \/ Poll

Spec == Init /\ [][Next]_vars

(* The scheduler runs the timer, and uIP's, for ever.                      *)
FairSpec == Spec /\ WF_vars(dhcp_periodic) /\ WF_vars(Poll)

-----------------------------------------------------------------------------
TypeOK ==
    /\ state \in {"INITIAL", "DISCOVERING", "REQUESTING", "CONFIGURED"}
    /\ retry_counter \in 0 .. RetryLimit + 2
    /\ retry_timer \in 0 .. 2 * (RetryLimit + 1) + 3
    /\ lease_time_seconds \in Leases \cup {0}
    /\ ticks \in 0 .. Width - 1 /\ tick_sec \in 0 .. MaxTicks
    /\ ipaddr \in Servers \cup {NoAddr} /\ serverid \in Servers \cup {NoAddr}
    /\ hostaddr \in Servers \cup {NoAddr, StaticAddr}
    /\ counter \in 0 .. HZ - 1
    /\ conn \in BOOLEAN /\ polled \in BOOLEAN
    /\ asked \subseteq Servers \cup {Broadcast}
    /\ age \in 0 .. MaxAge /\ renewals \in 0 .. 2

(* With a lease, ticks and tick_sec together count the time since the last *)
(* ACK, through every renewal request and its marks, in units of HZ calls  *)
(* of dhcp_periodic, none lost and none counted twice; the lease is up     *)
(* when as many units are.  The timer makes one call a second, so that a   *)
(* unit is HZ seconds, not one: the address is kept HZ times as long as    *)
(* the server gave it, against the comment in dhcp_periodic.               *)
ElapsedExact ==
    state = "CONFIGURED" /\ lease_time_seconds \in 1 .. MaxTicks =>
        /\ age = HZ * (ticks + tick_sec) + counter
        /\ ticks + tick_sec <= lease_time_seconds

(* A lease is given up only after every renewal request there is time for: *)
(* one at T1 and one at T2, or one where the two coincide, to whichever    *)
(* server the last reply came from.                                        *)
RenewedBeforeExpiry ==
    [][state = "CONFIGURED" /\ state' = "INITIAL" =>
         renewals >= Cardinality({LEASE_RENEW_T1(lease_time_seconds),
                                  LEASE_REBIND_T2(lease_time_seconds)} \ {0})]_vars

(* A client that has its connection gets an address in the end: a lease,   *)
(* or the static one after its retries, also after a lease that was not    *)
(* renewed.                                                                *)
Settles == conn /\ state # "CONFIGURED" ~> ~conn \/ state = "CONFIGURED"
=============================================================================
