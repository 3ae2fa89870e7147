----------------------------- MODULE DhcpProofs -----------------------------
(***************************************************************************)
(* Proofs about the DHCP client's count of its lease, for every number of  *)
(* retries, every width of its counters and every lease time.              *)
(*                                                                         *)
(* ElapsedExact alone is not inductive: the two ends of a renewal, which   *)
(* set ticks to a mark rather than to the time elapsed, would lose time.   *)
(* They never do, because uIP polls the client between two calls of        *)
(* dhcp_periodic: tick_sec is at most 1, so that no mark is jumped over    *)
(* and each one is reached strictly before the lease ends (Counted).       *)
(***************************************************************************)
EXTENDS Dhcp, FiniteSetTheorems, TLAPS

Leased == state = "CONFIGURED" /\ lease_time_seconds > 0

Counted ==
    Leased =>
        /\ conn
        /\ tick_sec <= 1
        /\ ticks + tick_sec <= lease_time_seconds
        /\ polled => tick_sec = 0 /\ ticks < lease_time_seconds
        /\ lease_time_seconds <= MaxTicks => age = HZ * (ticks + tick_sec) + counter

(* The marks that have been passed have had their requests.                *)
Requested ==
    Leased =>
        LET t1 == LEASE_RENEW_T1(lease_time_seconds)
            t2 == LEASE_REBIND_T2(lease_time_seconds)
        IN  /\ 0 < t1 /\ t1 <= ticks => renewals >= 1
            /\ 0 < t2 /\ t2 <= ticks => renewals >= 1
            /\ 0 < t1 /\ t1 <= ticks /\ 0 < t2 /\ t2 <= ticks /\ t1 # t2 => renewals >= 2

Connected ==
    /\ conn => retry_counter <= RetryLimit + 1
    /\ state \in {"REQUESTING", "CONFIGURED"} => serverid \in Servers

DInv == TypeOK /\ Counted /\ Requested /\ Connected

(* The type invariant in three parts.                                      *)
NumbersOK ==
    /\ retry_counter \in 0 .. RetryLimit + 2 /\ retry_timer \in 0 .. 2 * (RetryLimit + 1) + 3
    /\ lease_time_seconds \in Leases \cup {0}
    /\ ticks \in 0 .. Width - 1 /\ tick_sec \in 0 .. MaxTicks
    /\ counter \in 0 .. HZ - 1 /\ age \in 0 .. MaxAge /\ renewals \in 0 .. 2

FlagsOK ==
    /\ state \in {"INITIAL", "DISCOVERING", "REQUESTING", "CONFIGURED"}
    /\ conn \in BOOLEAN /\ polled \in BOOLEAN

AddressesOK ==
    /\ ipaddr \in Servers \cup {NoAddr} /\ serverid \in Servers \cup {NoAddr}
    /\ hostaddr \in Servers \cup {NoAddr, StaticAddr}
    /\ asked \subseteq Servers \cup {Broadcast}

(* The three parts make up the type invariant.                             *)
LEMMA TypeParts == TypeOK <=> NumbersOK /\ FlagsOK /\ AddressesOK
  BY DEF TypeOK, NumbersOK, FlagsOK, AddressesOK

(* So they do after a step.                                                *)
LEMMA TypePartsNext == TypeOK' <=> NumbersOK' /\ FlagsOK' /\ AddressesOK'
  BY DEF TypeOK, NumbersOK, FlagsOK, AddressesOK

-----------------------------------------------------------------------------
(* Arithmetic: a sum that fits is not changed by its width.                *)
LEMMA ModSmall ==
    ASSUME NEW x \in Nat, x < Width
    PROVE  x % Width = x
  BY DhcpAssumption

(* Any sum is brought into range by its width.                             *)
LEMMA ModRange ==
    ASSUME NEW x \in Nat
    PROVE  x % Width \in 0 .. Width - 1 /\ x % Width <= x
  BY DhcpAssumption

(* The largest count of ticks fits the counters.                           *)
LEMMA MaxTicksRange == MaxTicks \in 1 .. Width - 1
  BY DhcpAssumption DEF MaxTicks

(* The bound on the history, and what a count of ticks comes to below it.  *)
LEMMA AgeRange ==
    /\ MaxAge \in Nat /\ HZ - 1 <= MaxAge
    /\ \A t \in 0 .. MaxTicks : HZ * t \in Nat /\ HZ * t + HZ <= MaxAge
    /\ \A t \in Nat : HZ * (t + 1) = HZ * t + HZ
<1>1. HZ \in Nat /\ HZ >= 1 /\ MaxTicks \in Nat
  BY DhcpAssumption, MaxTicksRange
<1>2. \A a, b \in Nat : HZ * a \in Nat /\ HZ * (a + b) = HZ * a + HZ * b
  BY <1>1
<1>3. MaxAge = HZ * MaxTicks + HZ /\ MaxAge \in Nat /\ HZ * MaxTicks \in Nat
  BY <1>1, <1>2 DEF MaxAge
<1>4. ASSUME NEW t \in 0 .. MaxTicks PROVE HZ * t \in Nat /\ HZ * t + HZ <= MaxAge
  <2>1. PICK d \in Nat : MaxTicks = t + d
    BY <1>1, <1>4
  <2>2. t \in Nat /\ HZ * MaxTicks = HZ * t + HZ * d /\ HZ * t \in Nat /\ HZ * d \in Nat
    BY <1>1, <1>2, <2>1
  <2>3. QED
    BY <1>1, <1>3, <2>2
<1>5. \A t \in Nat : HZ * (t + 1) = HZ * t + HZ
  BY <1>1
<1>6. HZ - 1 <= MaxAge
  BY <1>1, <1>3
<1>7. QED
  BY <1>3, <1>4, <1>5, <1>6

(* Both marks of a lease lie before its end, T2 also when 7 * lease        *)
(* overflows (LEASE_RENEW_T1, LEASE_REBIND_T2).                            *)
LEMMA Marks ==
    ASSUME NEW lease \in 1 .. Width - 1
    PROVE  /\ LEASE_RENEW_T1(lease) \in 0 .. lease - 1
           /\ LEASE_REBIND_T2(lease) \in 0 .. lease - 1
<1>1. LEASE_RENEW_T1(lease) \in 0 .. lease - 1
  BY DhcpAssumption DEF LEASE_RENEW_T1
<1>2. lease * 7 \in Nat
  BY DhcpAssumption
<1>3. PICK x \in Nat : x = (lease * 7) % Width /\ x <= lease * 7
  BY <1>2, ModRange, DhcpAssumption
<1>4. x \div 8 \in 0 .. lease - 1
  BY <1>3, DhcpAssumption
<1>5. QED
  BY <1>1, <1>3, <1>4 DEF LEASE_REBIND_T2

(* While the client has a lease, its count does not wrap.                  *)
LEMMA ElapsedIs ==
    ASSUME DInv, Leased
    PROVE  /\ lease_time_seconds \in 1 .. Width - 1
           /\ ticks \in Nat /\ tick_sec \in Nat
           /\ Elapsed = ticks + tick_sec
<1>1. lease_time_seconds \in 1 .. Width - 1 /\ ticks \in Nat /\ tick_sec \in Nat
  BY DhcpAssumption, MaxTicksRange DEF DInv, TypeOK, Leased
<1>2. ticks + tick_sec < Width
  BY <1>1, DhcpAssumption DEF DInv, Counted
<1>3. QED
  BY <1>1, <1>2, ModSmall DEF Elapsed

-----------------------------------------------------------------------------
(* The invariant holds after dhcp_init.                                    *)
LEMMA InitDInv == Init => DInv
<1> SUFFICES ASSUME Init PROVE DInv
  OBVIOUS
<1>1. NumbersOK
  BY DhcpAssumption, MaxTicksRange, AgeRange DEF Init, NumbersOK
<1>2. FlagsOK /\ AddressesOK
  BY DEF Init, FlagsOK, AddressesOK
<1>3. Counted /\ Requested /\ Connected
  BY DhcpAssumption DEF Init, Counted, Requested, Connected, Leased
<1>4. QED
  BY <1>1, <1>2, <1>3, TypeParts DEF DInv

(* The timer preserves it: it adds at most one to a count that the last    *)
(* poll has brought below the end of the lease.                            *)
LEMMA PeriodicDInv ==
    ASSUME DInv, dhcp_periodic
    PROVE  DInv'
<1>1. NumbersOK'
  <2>1. Tick(tick_sec) \in 0 .. MaxTicks /\ Min2(age + 1, MaxAge) \in 0 .. MaxAge
    BY MaxTicksRange, AgeRange, DhcpAssumption DEF DInv, TypeOK, Tick, Min2
  <2>2. QED
    BY <2>1, DhcpAssumption DEF DInv, TypeOK, dhcp_periodic, NumbersOK
<1>2. FlagsOK' /\ AddressesOK'
  BY DEF DInv, TypeOK, dhcp_periodic, FlagsOK, AddressesOK
<1>3. Counted'
  <2>1. SUFFICES ASSUME Leased' PROVE Counted'
    BY DEF Counted
  <2>2. Leased /\ conn /\ polled
    BY <2>1 DEF DInv, Counted, Leased, dhcp_periodic
  <2>3. tick_sec = 0 /\ ticks < lease_time_seconds /\ lease_time_seconds \in 1 .. Width - 1
        /\ ticks \in Nat /\ counter \in 0 .. HZ - 1
    BY <2>2, ElapsedIs DEF DInv, TypeOK, Counted
  <2>4. Tick(0) = 1
    BY MaxTicksRange, DhcpAssumption DEF Tick, Min2
  <2>5. ticks' = ticks /\ lease_time_seconds' = lease_time_seconds /\ conn' /\ polled' = FALSE
        /\ tick_sec' = (IF counter + 1 >= HZ THEN 1 ELSE 0)
    BY <2>2, <2>3, <2>4 DEF dhcp_periodic
  <2>6. ASSUME lease_time_seconds <= MaxTicks
        PROVE  age' = HZ * (ticks' + tick_sec') + counter'
    <3>1. age = HZ * ticks + counter
      BY <2>2, <2>3, <2>6 DEF DInv, Counted
    <3>2. HZ * ticks \in Nat /\ HZ * ticks + HZ <= MaxAge /\ HZ * (ticks + 1) = HZ * ticks + HZ
      BY <2>3, <2>6, AgeRange, MaxTicksRange, DhcpAssumption
    <3>3. age' = HZ * ticks + counter + 1
      BY <2>2, <2>3, <3>1, <3>2, AgeRange, DhcpAssumption DEF dhcp_periodic, Leased, Min2
    <3>4. CASE counter + 1 >= HZ
      BY <2>3, <2>5, <3>2, <3>3, <3>4, DhcpAssumption DEF dhcp_periodic
    <3>5. CASE ~(counter + 1 >= HZ)
      BY <2>3, <2>5, <3>2, <3>3, <3>5, DhcpAssumption DEF dhcp_periodic
    <3>6. QED
      BY <3>4, <3>5
  <2>7. QED
    BY <2>3, <2>5, <2>6 DEF Counted
<1>4. Requested' /\ Connected'
  BY DEF DInv, Requested, Connected, Leased, dhcp_periodic
<1>5. QED
  BY <1>1, <1>2, <1>3, <1>4, TypePartsNext DEF DInv

(* A reply preserves it: an accepted ACK starts the count anew, and        *)
(* nothing else touches the count.                                         *)
LEMMA ReplyDInv ==
    ASSUME DInv, Reply
    PROVE  DInv'
<1>1. PICK s \in Servers : Offer(s) \/ Nak(s) \/ \E lease \in Leases : Ack(s, lease)
  BY DEF Reply
<1>2. UNCHANGED <<counter, polled, conn>> /\ conn
  BY DEF Reply
<1>3. CASE Offer(s)
  <2>1. NumbersOK'
    BY <1>2, <1>3, DhcpAssumption, MaxTicksRange DEF DInv, TypeOK, Offer, NumbersOK, history
  <2>2. FlagsOK' /\ AddressesOK'
    BY <1>2, <1>3 DEF DInv, TypeOK, Offer, FlagsOK, AddressesOK
  <2>3. Counted' /\ Requested' /\ Connected'
    BY <1>2, <1>3, DhcpAssumption DEF DInv, Counted, Requested, Connected, Leased, Offer, history
  <2>4. QED
    BY <2>1, <2>2, <2>3, TypePartsNext DEF DInv
<1>4. CASE Nak(s)
  <2>1. TypeOK'
    BY <1>2, <1>4 DEF DInv, TypeOK, Nak, timers, history
  <2>2. Counted' /\ Requested' /\ Connected'
    BY <1>2, <1>4 DEF DInv, Counted, Requested, Connected, Leased, Nak, timers, history
  <2>3. QED
    BY <2>1, <2>2 DEF DInv
<1>5. ASSUME NEW lease \in Leases, Ack(s, lease) PROVE DInv'
  <2>1. NumbersOK'
    BY <1>2, <1>5, DhcpAssumption, MaxTicksRange, AgeRange DEF DInv, TypeOK, Ack, NumbersOK, history
  <2>2. FlagsOK' /\ AddressesOK'
    BY <1>2, <1>5 DEF DInv, TypeOK, Ack, FlagsOK, AddressesOK
  <2>3. CASE state \in {"REQUESTING", "CONFIGURED"}
    <3>1. Connected'
      BY <1>2, <1>5, <2>3 DEF DInv, Connected, Ack
    <3>2. ticks' = 0 /\ tick_sec' = 0 /\ age' = counter' /\ lease_time_seconds' = lease /\ conn' /\ lease \in Int
          /\ counter' \in Int /\ HZ \in Int
      BY <1>2, <1>5, <2>3, DhcpAssumption DEF Ack, DInv, TypeOK
    <3>3. Counted'
      <4>1. age' = HZ * (ticks' + tick_sec') + counter'
        <5>1. HZ * 0 = 0 /\ ticks' = 0 /\ tick_sec' = 0 /\ age' = counter' /\ counter' \in Int
          BY <3>2, DhcpAssumption
        <5>2. age' = HZ * 0 + counter'
          BY <5>1
        <5>3. ticks' + tick_sec' = 0
          BY <5>1
        <5>4. QED
          BY <5>2, <5>3
      <4>2. Leased' => tick_sec' <= 1 /\ ticks' + tick_sec' <= lease_time_seconds' /\ ticks' < lease_time_seconds'
        BY <3>2 DEF Leased
      <4>3. QED
        BY <3>2, <4>1, <4>2 DEF Counted
    <3>4. Requested'
      <4>1. SUFFICES ASSUME Leased' PROVE Requested'
        BY DEF Requested
      <4>2. lease \in 1 .. Width - 1
        BY <3>2, <4>1, DhcpAssumption DEF Leased
      <4>3. LEASE_RENEW_T1(lease) \in Nat /\ LEASE_REBIND_T2(lease) \in Nat
        BY <4>2, Marks
      <4>4. QED
        BY <3>2, <4>3 DEF Requested
    <3>5. QED
      BY <2>1, <2>2, <3>1, <3>3, <3>4, TypePartsNext DEF DInv
  <2>4. CASE state \notin {"REQUESTING", "CONFIGURED"}
    <3>1. Counted' /\ Requested' /\ Connected'
      BY <1>2, <1>5, <2>4 DEF DInv, Counted, Requested, Connected, Leased, Ack, history
    <3>2. QED
      BY <2>1, <2>2, <3>1, TypePartsNext DEF DInv
  <2>5. QED
    BY <2>3, <2>4
<1>6. QED
  BY <1>1, <1>3, <1>4, <1>5

-----------------------------------------------------------------------------
(* A retry stays within the limit, and is no business of a client with a   *)
(* lease.                                                                  *)
LEMMA RetryDInv ==
    ASSUME DInv, Poll, Discover \/ RequestAgain
    PROVE  DInv'
<1>1. PICK timer \in 0 .. 2 * (RetryLimit + 1) + 3 :
          RetryAgain(timer) \/ (retry_counter > RetryLimit /\ dhcp_set_static)
  <2>1. CASE Discover /\ retry_counter <= RetryLimit
    BY <2>1, DhcpAssumption DEF DInv, TypeOK, Discover
  <2>2. CASE Discover /\ retry_counter > RetryLimit
    BY <2>2, DhcpAssumption DEF Discover, RetryAgain
  <2>3. CASE RequestAgain
    BY <2>3, DhcpAssumption DEF RequestAgain
  <2>4. QED
    BY <2>1, <2>2, <2>3, DhcpAssumption DEF DInv, TypeOK
<1>2. /\ state' \in {"DISCOVERING", "REQUESTING"}
      /\ state' = "REQUESTING" => state = "REQUESTING"
      /\ UNCHANGED <<ticks, lease_time_seconds, renewals, ipaddr, serverid, counter, age>>
      /\ conn /\ polled'
      /\ asked' = asked \cup {Broadcast} \/ (state = "REQUESTING" /\ asked' = asked \cup {serverid})
  BY DEF Poll, Discover, RequestAgain, send_request
<1>3. /\ retry_counter' \in 0 .. RetryLimit + 2 /\ retry_timer' \in 0 .. 2 * (RetryLimit + 1) + 3
      /\ tick_sec' \in 0 .. MaxTicks
      /\ conn' => retry_counter' <= RetryLimit + 1
  <2>1. retry_counter \in 0 .. RetryLimit + 1
    BY <1>2, DhcpAssumption DEF DInv, TypeOK, Connected
  <2>2. CASE dhcp_set_static
    BY <2>1, <2>2, DhcpAssumption DEF DInv, TypeOK, dhcp_set_static
  <2>3. CASE retry_counter' = retry_counter + 1 /\ retry_timer' = timer /\ tick_sec' = 0
             /\ ~(retry_counter > RetryLimit)
    BY <2>1, <2>3, DhcpAssumption, MaxTicksRange
  <2>4. QED
    BY <1>1, <2>2, <2>3 DEF RetryAgain
<1>4. conn' \in BOOLEAN /\ hostaddr' \in Servers \cup {NoAddr, StaticAddr}
  BY <1>1 DEF DInv, TypeOK, RetryAgain, dhcp_set_static
<1>5. NumbersOK'
  BY <1>2, <1>3 DEF DInv, TypeOK, NumbersOK
<1>6. FlagsOK'
  BY <1>2, <1>4 DEF Poll, FlagsOK
<1>7. AddressesOK'
  BY <1>2, <1>4 DEF DInv, TypeOK, Connected, AddressesOK
<1>8. Counted' /\ Requested' /\ Connected'
  BY <1>2, <1>3 DEF DInv, Counted, Requested, Connected, Leased
<1>9. QED
  BY <1>5, <1>6, <1>7, <1>8, TypePartsNext DEF DInv

(* What reaching one of the marks of a lease means: the count stood right  *)
(* before it, and the accumulation moves it right there.                   *)
LEMMA ReachedIs ==
    ASSUME DInv, Leased, NEW t \in 0 .. lease_time_seconds - 1, Reached(t)
    PROVE  /\ ticks + tick_sec = t /\ tick_sec = 1
           /\ Accumulate(t) => ticks' = t /\ tick_sec' = 0
<1>1. /\ lease_time_seconds \in Nat /\ ticks \in Nat /\ tick_sec \in Nat
      /\ Elapsed = ticks + tick_sec /\ tick_sec <= 1
  BY ElapsedIs DEF DInv, Counted
<1>2. ticks + tick_sec = t /\ tick_sec = 1
  BY <1>1 DEF Reached
<1>3. QED
  BY <1>1, <1>2 DEF Accumulate

(* A mark that is not reached now has been passed or is still ahead.       *)
LEMMA NotReachedIs ==
    ASSUME DInv, Leased, NEW t \in 0 .. lease_time_seconds - 1, ~Reached(t)
    PROVE  t <= ticks \/ ticks + tick_sec < t
<1>1. ticks \in Nat /\ tick_sec \in Nat /\ Elapsed = ticks + tick_sec /\ lease_time_seconds \in Nat
  BY ElapsedIs
<1>2. QED
  BY <1>1 DEF Reached

(* A renewal request counts one, up to two.                                *)
LEMMA OneMoreRenewal ==
    ASSUME DInv, renewals' = Min2(renewals + 1, 2)
    PROVE  /\ renewals' \in 1 .. 2
           /\ renewals >= 1 => renewals' = 2
  BY DEF DInv, TypeOK, Min2

(* A poll of a client with a lease: each of its four cases.                *)
LEMMA RenewDInv ==
    ASSUME DInv, Poll, Renew
    PROVE  DInv'
<1> DEFINE lease == lease_time_seconds
           t1 == LEASE_RENEW_T1(lease)
           t2 == LEASE_REBIND_T2(lease)
<1>1. Leased
  BY DEF Renew, Leased
<1>2. lease \in 1 .. Width - 1 /\ ticks \in Nat /\ tick_sec \in Nat /\ Elapsed = ticks + tick_sec
  BY <1>1, ElapsedIs
<1>3. t1 \in 0 .. lease - 1 /\ t2 \in 0 .. lease - 1
  BY <1>2, Marks
<1>4. /\ UNCHANGED <<conn, hostaddr, lease_time_seconds, ipaddr, serverid, counter, age>>
      /\ polled' = TRUE /\ conn
  BY DEF Renew, Poll
<1>5. AddressesOK'
  BY <1>1, <1>4 DEF Renew, DInv, TypeOK, Connected, AddressesOK, send_request, Leased
<1>6. FlagsOK'
  BY <1>4 DEF Renew, DInv, TypeOK, FlagsOK
<1> HIDE DEF lease, t1, t2
<1>7. ASSUME NEW t \in {t1, t2}, Reached(t), Accumulate(t), renewals' = Min2(renewals + 1, 2),
             UNCHANGED <<state, retry_counter, retry_timer>>
      PROVE  DInv'
  <2>1. ticks + tick_sec = t /\ tick_sec = 1 /\ ticks' = t /\ tick_sec' = 0
    BY <1>1, <1>3, <1>7, ReachedIs DEF lease
  <2>2. renewals' \in 1 .. 2 /\ (renewals >= 1 => renewals' = 2)
    BY <1>7, OneMoreRenewal
  <2>3. NumbersOK'
    BY <1>2, <1>3, <1>4, <1>7, <2>1, <2>2, MaxTicksRange, DhcpAssumption DEF DInv, TypeOK, NumbersOK, lease
  <2>4. Counted'
    BY <1>1, <1>2, <1>3, <1>4, <1>7, <2>1 DEF DInv, Counted, Leased, lease
  <2>5. Requested'
    BY <1>1, <1>2, <1>3, <1>4, <1>7, <2>1, <2>2 DEF DInv, Requested, Leased, lease, t1, t2
  <2>6. Connected'
    BY <1>4, <1>7 DEF DInv, Connected
  <2>7. QED
    BY <1>5, <1>6, <2>3, <2>4, <2>5, <2>6, TypePartsNext DEF DInv
<1>8. ASSUME state' = "INITIAL", retry_counter' = 0, retry_timer' = 5, ticks' = 0, tick_sec' = 0,
             UNCHANGED renewals
      PROVE  DInv'
  <2>1. NumbersOK'
    BY <1>4, <1>8, MaxTicksRange, DhcpAssumption DEF DInv, TypeOK, NumbersOK
  <2>2. Counted' /\ Requested' /\ Connected'
    BY <1>8, DhcpAssumption DEF Counted, Requested, Connected, Leased
  <2>3. QED
    BY <1>5, <1>6, <2>1, <2>2, TypePartsNext DEF DInv
<1>9. ASSUME ~Reached(t1), ~Reached(t2), Elapsed < lease, Accumulate(Elapsed),
             UNCHANGED <<state, retry_counter, retry_timer, renewals>>
      PROVE  DInv'
  <2>1. ticks' = ticks + tick_sec /\ tick_sec' = 0 /\ ticks + tick_sec < lease
    BY <1>2, <1>9 DEF Accumulate, lease
  <2>2. (t1 <= ticks \/ ticks + tick_sec < t1) /\ (t2 <= ticks \/ ticks + tick_sec < t2)
    BY <1>1, <1>3, <1>9, NotReachedIs DEF lease
  <2>3. NumbersOK'
    BY <1>2, <1>4, <1>9, <2>1, MaxTicksRange, DhcpAssumption DEF DInv, TypeOK, NumbersOK, lease
  <2>4. Counted'
    BY <1>1, <1>2, <1>4, <1>9, <2>1 DEF DInv, Counted, Leased, lease
  <2>5. Requested'
    BY <1>1, <1>2, <1>3, <1>4, <1>9, <2>1, <2>2 DEF DInv, Requested, Leased, lease, t1, t2
  <2>6. Connected'
    BY <1>4, <1>9 DEF DInv, Connected
  <2>7. QED
    BY <1>5, <1>6, <2>3, <2>4, <2>5, <2>6, TypePartsNext DEF DInv
<1>10. QED
  BY <1>7, <1>8, <1>9 DEF Renew, lease, t1, t2

(* A poll with nothing to do preserves the invariant.                      *)
LEMMA IdleDInv ==
    ASSUME DInv, Poll, Idle
    PROVE  DInv'
<1>1. /\ UNCHANGED <<state, retry_counter, retry_timer, ticks, tick_sec, lease_time_seconds,
                     hostaddr, conn, asked, renewals, ipaddr, serverid, counter, age>>
      /\ polled' = TRUE /\ ~Leased
  BY DEF Poll, Idle, timers, Leased
<1>2. TypeOK'
  BY <1>1 DEF DInv, TypeOK
<1>3. Counted' /\ Requested' /\ Connected'
  BY <1>1 DEF DInv, Counted, Requested, Connected, Leased
<1>4. QED
  BY <1>2, <1>3 DEF DInv

(* Every step preserves the invariant.                                     *)
LEMMA NextDInv ==
    ASSUME DInv, [Next]_vars
    PROVE  DInv'
<1>1. CASE Poll
  BY <1>1, RetryDInv, RenewDInv, IdleDInv DEF Poll
<1>2. CASE UNCHANGED vars
  <2>1. TypeOK'
    BY <1>2 DEF DInv, TypeOK, vars, client, timers, history
  <2>2. Counted' /\ Requested' /\ Connected'
    BY <1>2 DEF DInv, Counted, Requested, Connected, Leased, vars, client, timers, history
  <2>3. QED
    BY <2>1, <2>2 DEF DInv
<1>3. QED
  BY <1>1, <1>2, PeriodicDInv, ReplyDInv DEF Next

(* The inductive invariant holds in every behaviour.                       *)
THEOREM DhcpInvariant == Spec => []DInv
  BY InitDInv, NextDInv, PTL DEF Spec

(* The client's types: among others, its retries stay within their limit.  *)
THEOREM DhcpTypes == Spec => []TypeOK
<1>1. DInv => TypeOK
  BY DEF DInv
<1>2. QED
  BY <1>1, DhcpInvariant, PTL

(* With a lease, ticks and tick_sec together count the time since the ACK  *)
(* in units of HZ calls of dhcp_periodic, which are HZ seconds, and the    *)
(* count never exceeds the lease (dhcp_net_main, STATE_CONFIGURED).        *)
THEOREM LeaseCountExact == Spec => []ElapsedExact
<1>1. DInv => ElapsedExact
  <2>1. SUFFICES ASSUME DInv, state = "CONFIGURED", lease_time_seconds \in 1 .. MaxTicks
                 PROVE  /\ age = HZ * (ticks + tick_sec) + counter
                        /\ ticks + tick_sec <= lease_time_seconds
    BY DEF ElapsedExact
  <2>2. QED
    BY <2>1, MaxTicksRange, DhcpAssumption DEF DInv, Counted, Leased
<1>2. QED
  BY <1>1, DhcpInvariant, PTL

-----------------------------------------------------------------------------
(* How many marks a lease has, at most.                                    *)
LEMMA MarkCount ==
    ASSUME NEW t1 \in Nat, NEW t2 \in Nat, NEW r \in Nat,
           0 < t1 => r >= 1, 0 < t2 => r >= 1, 0 < t1 /\ 0 < t2 /\ t1 # t2 => r >= 2
    PROVE  r >= Cardinality({t1, t2} \ {0})
<1>1. CASE t1 = 0 /\ t2 = 0
  <2>1. {t1, t2} \ {0} = {}
    BY <1>1
  <2>2. QED
    BY <2>1, FS_EmptySet
<1>2. CASE t1 > 0 /\ t2 > 0 /\ t1 # t2
  <2>1. {t1, t2} \ {0} = {t1} \cup {t2}
    BY <1>2
  <2>2. IsFiniteSet({t1}) /\ Cardinality({t1}) = 1
    BY FS_Singleton
  <2>3. Cardinality({t1} \cup {t2}) = 2
    BY <1>2, <2>2, FS_AddElement
  <2>4. QED
    BY <1>2, <2>1, <2>3
<1>3. ASSUME NEW t \in Nat, t > 0, {t1, t2} \ {0} = {t} PROVE r >= Cardinality({t1, t2} \ {0})
  <2>1. Cardinality({t}) = 1
    BY FS_Singleton
  <2>2. r >= 1
    BY <1>3
  <2>3. QED
    BY <1>3, <2>1, <2>2
<1>4. CASE t1 > 0 /\ (t2 = 0 \/ t2 = t1)
  <2>1. {t1, t2} \ {0} = {t1}
    BY <1>4
  <2>2. QED
    BY <1>3, <1>4, <2>1
<1>5. CASE t1 = 0 /\ t2 > 0
  <2>1. {t1, t2} \ {0} = {t2}
    BY <1>5
  <2>2. QED
    BY <1>3, <1>5, <2>1
<1>6. QED
  BY <1>1, <1>2, <1>4, <1>5

(* A lease is given up only after a request at each of its marks, for      *)
(* every lease time, also one whose T2 overflows.                          *)
THEOREM LeaseRenewedFirst == Spec => RenewedBeforeExpiry
<1> DEFINE t1 == LEASE_RENEW_T1(lease_time_seconds)
           t2 == LEASE_REBIND_T2(lease_time_seconds)
           Last == state = "CONFIGURED" /\ state' = "INITIAL" =>
                       renewals >= Cardinality({t1, t2} \ {0})
<1>1. ASSUME DInv, [Next]_vars PROVE Last
  <2>1. SUFFICES ASSUME state = "CONFIGURED", state' = "INITIAL"
                 PROVE  renewals >= Cardinality({t1, t2} \ {0})
    OBVIOUS
  <2>2. Poll /\ Renew
    BY <1>1, <2>1 DEF Next, dhcp_periodic, Reply, Offer, Nak, Ack, Poll, Discover, RequestAgain, Idle,
       vars, client
  <2>3. Leased /\ ~Reached(t1) /\ ~Reached(t2) /\ Elapsed >= lease_time_seconds
    BY <2>1, <2>2 DEF Renew, Leased
  <2>4. /\ lease_time_seconds \in 1 .. Width - 1 /\ ticks \in Nat /\ tick_sec \in Nat
        /\ ticks + tick_sec >= lease_time_seconds
    BY <1>1, <2>3, ElapsedIs
  <2>5. t1 \in 0 .. lease_time_seconds - 1 /\ t2 \in 0 .. lease_time_seconds - 1
    BY <2>4, Marks
  <2> HIDE DEF t1, t2
  <2>6. t1 <= ticks /\ t2 <= ticks
    BY <1>1, <2>3, <2>4, <2>5, NotReachedIs
  <2>7. /\ 0 < t1 => renewals >= 1
        /\ 0 < t2 => renewals >= 1
        /\ 0 < t1 /\ 0 < t2 /\ t1 # t2 => renewals >= 2
    BY <1>1, <2>3, <2>6 DEF DInv, Requested, t1, t2
  <2>8. t1 \in Nat /\ t2 \in Nat /\ renewals \in Nat
    BY <1>1, <2>4, <2>5 DEF DInv, TypeOK
  <2>9. QED
    BY <2>7, <2>8, MarkCount
<1>2. QED
  BY <1>1, DhcpInvariant, PTL DEF Spec, RenewedBeforeExpiry
=============================================================================
