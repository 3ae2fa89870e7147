----------------------------- MODULE ZBusProofs -----------------------------
(***************************************************************************)
(* Proofs about the zBus link and the lock of the packet buffer, for every *)
(* buffer length, every number of connections and all bytes that arrive.   *)
(*                                                                         *)
(* The properties speak of users of the buffer; the code only has lengths, *)
(* the lock, and what UCSRB enables.  Wiring ties the latter to the        *)
(* former: the receiver is off while a received packet waits, and the      *)
(* transmitter is on while one is being sent.  It holds, like the          *)
(* properties, until a transmission ends before the call of the main loop  *)
(* that queued it has returned (outrun).                                   *)
(***************************************************************************)
EXTENDS ZBus, TLAPS

Wiring ==
    ~outrun =>
      /\ Received => usart = "off"
      /\ usart = "off" => bus_blocked = 0
      /\ EmptyFrame => ~MainUses
      /\ Sending => usart = "tx"
      /\ Sending /\ pc = "dispatch" => queued.by = "dispatch"

ZInv ==
    /\ TypeOK
    /\ BufferExclusive
    /\ LockHeldByUser
    /\ PacketsIntact
    /\ Wiring

(* The type invariant in three parts: numbers, flags, and the main loop.   *)
NumbersOK ==
    /\ zbus_txlen \in 0..ZBUS_BUFFER_LEN /\ zbus_rxlen \in 0..ZBUS_BUFFER_LEN
    /\ zbus_index \in 0..ZBUS_BUFFER_LEN /\ bus_blocked \in 0..3

FlagsOK ==
    /\ send_escape_data \in {None, START, STOP, "\\"} /\ recv_escape_data \in BOOLEAN
    /\ usart \in {"rx", "tx", "off"} /\ locked \in BOOLEAN /\ outrun \in BOOLEAN

MainOK ==
    /\ pc \in {"idle", "zbus", "enc", "dispatch", "unlock"} /\ polls \in 0..Connections
    /\ buf \in {FromLine} \cup Packets
    /\ queued \in [packet : Packets, by : {"idle", "zbus", "enc", "dispatch"}]

(* The three parts make up the type invariant.                             *)
LEMMA TypeParts == TypeOK <=> NumbersOK /\ FlagsOK /\ MainOK
  BY DEF TypeOK, NumbersOK, FlagsOK, MainOK

(* So they do after a step.                                                *)
LEMMA TypePartsNext == TypeOK' <=> NumbersOK' /\ FlagsOK' /\ MainOK'
  BY DEF TypeOK, NumbersOK, FlagsOK, MainOK

(* The invariant holds after zbus_core_init.                               *)
LEMMA InitZInv == Init => ZInv
<1> SUFFICES ASSUME Init PROVE ZInv
  OBVIOUS
<1>1. NumbersOK
  BY ZBusAssumption DEF Init, NumbersOK
<1>5. FlagsOK
  BY DEF Init, FlagsOK
<1>2. MainOK
  BY ZBusAssumption DEF Init, MainOK, Packets
<1>3. BufferExclusive /\ LockHeldByUser /\ PacketsIntact /\ Wiring
  BY DEF Init, BufferExclusive, LockHeldByUser, PacketsIntact, Wiring, Receiving, Received, Sending, MainUses, InUse, EmptyFrame
<1>4. QED
  BY <1>1, <1>2, <1>3, <1>5, TypeParts DEF ZInv

(* The transmit interrupt preserves the invariant: the lock is released    *)
(* with the last byte, when only the transmission holds it.                *)
LEMMA TransmitZInv ==
    ASSUME ZInv, Transmit
    PROVE  ZInv'
<1>0. NumbersOK /\ FlagsOK /\ MainOK
  BY TypeParts DEF ZInv
<1>1. NumbersOK'
  BY <1>0, ZBusAssumption DEF NumbersOK, Transmit, TxEscape, TxData, TxStop, TxDone
<1>2. FlagsOK'
  BY <1>0 DEF FlagsOK, Transmit, TxEscape, TxData, TxStop, TxDone
<1>3. MainOK'
  BY <1>0 DEF MainOK, Transmit
<1>4. BufferExclusive' /\ LockHeldByUser' /\ PacketsIntact' /\ Wiring'
  BY <1>0 DEF ZInv, NumbersOK, FlagsOK, Transmit, TxEscape, TxData, TxStop, TxDone,
     BufferExclusive, LockHeldByUser, PacketsIntact, Wiring, Receiving, Received, Sending, MainUses, InUse, EmptyFrame
<1>5. QED
  BY <1>1, <1>2, <1>3, <1>4, TypePartsNext DEF ZInv

(* The receive interrupt preserves it: a start marker takes the lock only  *)
(* when it is free, and a frame has a user to its end unless it is empty.  *)
LEMMA ReceiveZInv ==
    ASSUME ZInv, NEW data \in Bytes, Receive(data)
    PROVE  ZInv'
<1>0. NumbersOK /\ FlagsOK /\ MainOK
  BY TypeParts DEF ZInv
<1>1. NumbersOK'
  BY <1>0, ZBusAssumption DEF NumbersOK, Receive, RxByte, RxStart, RxStop, RxAppend
<1>2. FlagsOK'
  BY <1>0 DEF FlagsOK, Receive, RxByte, RxStart, RxStop, RxAppend
<1>3. MainOK'
  BY <1>0 DEF MainOK, Receive, RxByte, RxStart, RxStop, RxAppend
<1>4. BufferExclusive' /\ LockHeldByUser' /\ PacketsIntact' /\ Wiring'
  BY <1>0 DEF ZInv, NumbersOK, FlagsOK, Receive, RxByte, RxStart, RxStop, RxAppend,
     BufferExclusive, LockHeldByUser, PacketsIntact, Wiring, Receiving, Received, Sending, MainUses, InUse, EmptyFrame
<1>5. QED
  BY <1>1, <1>2, <1>3, <1>4, TypePartsNext DEF ZInv

(* What Route does to the link: nothing, or it queues a packet, which it   *)
(* does only when the bus is silent.                                       *)
LEMMA RouteTypes ==
    ASSUME ZInv, pc \in {"zbus", "enc", "dispatch"}, NEW next \in {"dispatch", "unlock"},
           Route(next), polls' \in 0..Connections, UNCHANGED outrun
    PROVE  TypeOK'
<1>0. NumbersOK /\ FlagsOK /\ MainOK
  BY TypeParts DEF ZInv
<1>1. NumbersOK'
  BY <1>0, ZBusAssumption DEF NumbersOK, Route, zbus_txstart, link
<1>2. FlagsOK'
  BY <1>0 DEF FlagsOK, Route, zbus_txstart, link
<1>3. queued' = queued \/ queued' = [packet |-> Fresh, by |-> pc]
  BY DEF Route, zbus_txstart
<1>4. Fresh \in Packets /\ buf' = Fresh /\ pc' = next
  BY DEF Route, Fresh, Packets
<1>5. MainOK'
  BY <1>0, <1>3, <1>4 DEF MainOK
<1>6. QED
  BY <1>1, <1>2, <1>5, TypePartsNext

(* Routing a packet preserves the invariant.                               *)
LEMMA RouteZInv ==
    ASSUME ZInv, pc \in {"zbus", "enc", "dispatch"}, NEW next \in {"dispatch", "unlock"},
           pc = "dispatch" <=> next = "dispatch",
           Route(next), polls' \in 0..Connections, UNCHANGED outrun
    PROVE  ZInv'
<1>0. NumbersOK /\ FlagsOK /\ TypeOK'
  BY TypeParts, RouteTypes DEF ZInv
<1>1. CASE UNCHANGED <<link, queued>>
  BY <1>0, <1>1 DEF ZInv, NumbersOK, FlagsOK, Route, link,
     BufferExclusive, LockHeldByUser, PacketsIntact, Wiring, Receiving, Received, Sending, MainUses, InUse, EmptyFrame
<1>2. CASE ~UNCHANGED <<link, queued>>
  <2>1. /\ zbus_rxlen' = 0 /\ zbus_txlen' # 0 /\ bus_blocked' = 3 /\ usart' = "tx"
        /\ queued'.packet = Fresh /\ queued'.by = pc /\ buf' = Fresh /\ pc' = next /\ locked' = locked
    BY <1>0, <1>2 DEF Route, zbus_txstart, TxRefused, NumbersOK
  <2>2. QED
    BY <1>0, <2>1 DEF ZInv, FlagsOK, BufferExclusive, LockHeldByUser, PacketsIntact, Wiring,
       Receiving, Received, Sending, MainUses, InUse, EmptyFrame
<1>3. QED
  BY <1>1, <1>2

(* Every step of the main loop preserves the invariant.                    *)
LEMMA MainLoopZInv ==
    ASSUME ZInv, MainLoop
    PROVE  ZInv'
<1>0. NumbersOK /\ FlagsOK /\ MainOK
  BY TypeParts DEF ZInv
<1> USE DEF BufferExclusive, LockHeldByUser, PacketsIntact, Wiring, Receiving, Received, Sending, MainUses, InUse, EmptyFrame
<1>1. CASE zbus_process
  <2>1. NumbersOK' /\ FlagsOK'
    BY <1>0, <1>1 DEF NumbersOK, FlagsOK, zbus_process
  <2>2. MainOK'
    BY <1>0, <1>1 DEF MainOK, zbus_process
  <2>3. QED
    BY <1>0, <1>1, <2>1, <2>2, TypePartsNext DEF ZInv, NumbersOK, FlagsOK, zbus_process
<1>2. CASE network_process
  <2>1. NumbersOK' /\ FlagsOK'
    BY <1>0, <1>2 DEF NumbersOK, FlagsOK, network_process, link
  <2>2. MainOK'
    BY <1>0, <1>2 DEF MainOK, network_process, Fresh, Packets
  <2>3. QED
    BY <1>0, <1>2, <2>1, <2>2, TypePartsNext DEF ZInv, NumbersOK, FlagsOK, network_process, link
<1>3. CASE router_input
  <2>1. polls' \in 0..Connections
    BY <1>0, <1>3 DEF MainOK, router_input
  <2>2. QED
    BY <1>3, <2>1, RouteZInv DEF router_input
<1>4. CASE periodic_process
  <2>1. NumbersOK' /\ FlagsOK'
    BY <1>0, <1>4 DEF NumbersOK, FlagsOK, periodic_process, link
  <2>2. MainOK'
    BY <1>0, <1>4, ZBusAssumption DEF MainOK, periodic_process
  <2>3. QED
    BY <1>0, <1>4, <2>1, <2>2, TypePartsNext DEF ZInv, NumbersOK, FlagsOK, periodic_process, link
<1>5. CASE PollConnection
  <2>1. polls' \in 0..Connections
    BY <1>0, <1>5, ZBusAssumption DEF MainOK, PollConnection
  <2>2. CASE Route("dispatch")
    BY <1>5, <2>1, <2>2, RouteZInv DEF PollConnection
  <2>3. CASE UNCHANGED <<link, locked, pc, buf, queued>>
    <3>1. NumbersOK' /\ FlagsOK'
      BY <1>0, <1>5, <2>3 DEF NumbersOK, FlagsOK, PollConnection, link
    <3>2. MainOK'
      BY <1>0, <2>1, <2>3 DEF MainOK
    <3>3. QED
      BY <1>5, <2>3, <3>1, <3>2, TypePartsNext DEF ZInv, PollConnection, link
  <2>4. QED
    BY <1>5, <2>2, <2>3 DEF PollConnection
<1>6. CASE zbus_core_periodic
  <2>1. ~outrun => usart = "tx"
    BY <1>0, <1>6 DEF ZInv, FlagsOK, zbus_core_periodic
  <2>2. ~outrun => usart' = "tx"
    BY <1>6, <2>1 DEF zbus_core_periodic
  <2>3. NumbersOK' /\ FlagsOK'
    BY <1>0, <1>6 DEF NumbersOK, FlagsOK, zbus_core_periodic
  <2>4. MainOK'
    BY <1>0, <1>6 DEF MainOK, zbus_core_periodic
  <2>5. QED
    BY <1>0, <1>6, <2>1, <2>2, <2>3, <2>4, TypePartsNext DEF ZInv, zbus_core_periodic
<1>7. CASE EndDispatch
  <2>1. TypeOK'
    BY <1>0, <1>7, TypePartsNext DEF NumbersOK, FlagsOK, MainOK, EndDispatch, link
  <2>2. QED
    BY <1>7, <2>1 DEF ZInv, EndDispatch, link
<1>8. CASE uip_buf_unlock
  <2>1. NumbersOK' /\ MainOK'
    BY <1>0, <1>8 DEF NumbersOK, MainOK, uip_buf_unlock, link
  <2>2. FlagsOK'
    BY <1>0, <1>8 DEF FlagsOK, uip_buf_unlock, link
  <2>3. pc' = "idle" /\ UNCHANGED link /\ UNCHANGED <<buf, queued, outrun>>
    BY <1>8 DEF uip_buf_unlock
  <2>7. ~outrun => (locked' <=> zbus_txlen > 0)
    BY <1>0, <1>8 DEF ZInv, FlagsOK, uip_buf_unlock
  <2>4. LockHeldByUser'
    BY <1>0, <1>8, <2>3, <2>7 DEF ZInv, NumbersOK, uip_buf_unlock, link
  <2>5. BufferExclusive' /\ PacketsIntact' /\ Wiring'
    BY <1>0, <1>8, <2>3 DEF ZInv, NumbersOK, uip_buf_unlock, link
  <2>6. QED
    BY <2>1, <2>2, <2>4, <2>5, TypePartsNext DEF ZInv
<1>9. QED
  BY <1>1, <1>2, <1>3, <1>4, <1>5, <1>6, <1>7, <1>8 DEF MainLoop

(* A step that changes nothing preserves it.                               *)
LEMMA StutterZInv ==
    ASSUME ZInv, UNCHANGED vars
    PROVE  ZInv'
<1>1. TypeOK'
  BY TypeParts, TypePartsNext DEF ZInv, vars, link, NumbersOK, FlagsOK, MainOK
<1>2. QED
  BY <1>1 DEF ZInv, vars, link, BufferExclusive, LockHeldByUser, PacketsIntact, Wiring,
     Receiving, Received, Sending, MainUses, InUse, EmptyFrame

(* Every step preserves the invariant.                                     *)
LEMMA NextZInv ==
    ASSUME ZInv, [Next]_vars
    PROVE  ZInv'
  BY TransmitZInv, ReceiveZInv, MainLoopZInv, StutterZInv DEF Next

(* The inductive invariant holds in every behaviour.                       *)
THEOREM ZBusInvariant == Spec => []ZInv
<1>1. ZInv /\ [Next]_vars => ZInv'
  BY NextZInv
<1>2. QED
  BY <1>1, InitZInv, PTL DEF Spec

(* The receive interrupt, a received packet, a transmission and the main   *)
(* loop never use uip_buf together, for every buffer length, number of     *)
(* connections and sequence of bytes, until a transmission ends before the *)
(* call that queued it has returned.                                       *)
THEOREM BufferHasOneUser == Spec => []BufferExclusive
<1>1. ZInv => BufferExclusive
  BY DEF ZInv
<1>2. QED
  BY <1>1, ZBusInvariant, PTL

(* The lock is held exactly as long as there is a user of uip_buf, or an   *)
(* empty frame has left it for ever, until a transmission ends before the  *)
(* call that queued it has returned.                                       *)
THEOREM LockIsExact == Spec => []LockHeldByUser
<1>1. ZInv => LockHeldByUser
  BY DEF ZInv
<1>2. QED
  BY <1>1, ZBusInvariant, PTL

(* No packet that zBus is receiving, has received or is sending is         *)
(* overwritten, those queued by a dispatch excepted, until a transmission  *)
(* ends before the call that queued it has returned.                       *)
THEOREM PacketsStayIntact == Spec => []PacketsIntact
<1>1. ZInv => PacketsIntact
  BY DEF ZInv
<1>2. QED
  BY <1>1, ZBusInvariant, PTL

-----------------------------------------------------------------------------
(* The refinement: who owns the buffer, as nested conditions.              *)
LEMMA OwnerIs ==
    owner = IF MainUses THEN "main" ELSE IF Sending THEN "transmitter"
            ELSE IF Receiving \/ Received \/ EmptyFrame THEN "receiver" ELSE "none"
  BY DEF owner

(* The same after a step.                                                  *)
LEMMA OwnerIsNext ==
    owner' = IF MainUses' THEN "main" ELSE IF Sending' THEN "transmitter"
             ELSE IF Receiving' \/ Received' \/ EmptyFrame' THEN "receiver" ELSE "none"
  BY DEF owner

(* The transmit interrupt only ever gives the buffer back.                 *)
LEMMA TransmitOwner ==
    ASSUME ZInv, Transmit, ~outrun'
    PROVE  [Buffer!Next]_owner
<1>0. ~outrun
  BY DEF Transmit, TxEscape, TxData, TxStop, TxDone
<1>1. owner' = owner \/ (owner = "transmitter" /\ owner' = "none")
  BY <1>0, OwnerIs, OwnerIsNext DEF ZInv, TypeOK, BufferExclusive, Wiring, Transmit, TxEscape, TxData,
     TxStop, TxDone, Receiving, Received, Sending, MainUses, InUse, EmptyFrame
<1>2. QED
  BY <1>1 DEF Buffer!Next, Buffer!Release

(* The receive interrupt only takes a buffer that nobody has.              *)
LEMMA ReceiveOwner ==
    ASSUME ZInv, NEW data \in Bytes, Receive(data), ~outrun'
    PROVE  [Buffer!Next]_owner
<1>0. ~outrun
  BY DEF Receive
<1>1. owner' = owner \/ (owner = "none" /\ owner' = "receiver")
  BY <1>0, OwnerIs, OwnerIsNext DEF ZInv, TypeOK, BufferExclusive, LockHeldByUser, Wiring, Receive, RxByte,
     RxStart, RxStop, RxAppend, Receiving, Received, Sending, MainUses, InUse, EmptyFrame
<1>2. QED
  BY <1>1 DEF Buffer!Next, Buffer!Acquire

(* The main loop takes it free or from the receiver, and gives it back or  *)
(* on to the transmitter.                                                  *)
LEMMA MainLoopOwner ==
    ASSUME ZInv, MainLoop, ~outrun'
    PROVE  [Buffer!Next]_owner
<1>0. ~outrun
  BY DEF MainLoop, zbus_process, network_process, router_input, periodic_process, PollConnection,
     zbus_core_periodic, EndDispatch, uip_buf_unlock
<1>1. CASE pc # "idle" /\ pc' # "idle"
  BY <1>1, OwnerIs, OwnerIsNext DEF MainUses
<1>2. CASE zbus_process
  <2>1. owner = "receiver" /\ owner' = "main"
    BY <1>0, <1>2, OwnerIs, OwnerIsNext DEF ZInv, BufferExclusive, zbus_process, MainUses, Sending, Received
  <2>2. QED
    BY <2>1 DEF Buffer!Next, Buffer!TakePacket
<1>3. CASE network_process \/ periodic_process
  <2>1. owner = "none" /\ owner' = "main"
    BY <1>0, <1>3, OwnerIs, OwnerIsNext DEF ZInv, LockHeldByUser, network_process, periodic_process,
       MainUses, InUse
  <2>2. QED
    BY <2>1 DEF Buffer!Next, Buffer!Acquire
<1>4. CASE uip_buf_unlock
  <2>1. owner = "main" /\ pc' = "idle" /\ UNCHANGED link
    BY <1>4, OwnerIs DEF uip_buf_unlock, MainUses
  <2>2. owner' \in {"transmitter", "none"}
    BY <1>0, <1>4, <2>1, OwnerIsNext DEF ZInv, BufferExclusive, Wiring, uip_buf_unlock, link, MainUses,
       Sending, Receiving, Received, EmptyFrame
  <2>3. QED
    BY <2>1, <2>2 DEF Buffer!Next, Buffer!QueuePacket, Buffer!Release
<1>5. CASE router_input \/ PollConnection \/ zbus_core_periodic \/ EndDispatch
  <2>1. pc # "idle" /\ pc' # "idle"
    BY <1>5 DEF router_input, PollConnection, zbus_core_periodic, EndDispatch, Route
  <2>2. QED
    BY <1>1, <2>1
<1>6. QED
  BY <1>2, <1>3, <1>4, <1>5 DEF MainLoop

(* The code's lock implements the ownership protocol of PacketBuffer: the  *)
(* buffer passes from the receiver to the main loop and from there to the  *)
(* transmitter, and nobody takes one in use, in every step up to the first *)
(* transmission that ends before the call that queued it has returned.     *)
THEOREM LockImplementsPacketBuffer == Spec => ImplementsPacketBuffer
<1>1. Init => Buffer!Init
  BY OwnerIs DEF Init, Buffer!Init, MainUses, Sending, Receiving, Received, EmptyFrame
<1>2. UNCHANGED vars => UNCHANGED owner
  BY OwnerIs, OwnerIsNext DEF vars, link, MainUses, Sending, Receiving, Received, EmptyFrame
<1>3. ZInv /\ [Next]_vars => [Buffer!Next \/ outrun']_owner
  BY <1>2, TransmitOwner, ReceiveOwner, MainLoopOwner DEF Next
<1>4. QED
  BY <1>1, <1>3, ZBusInvariant, PTL DEF Spec, ImplementsPacketBuffer
=============================================================================
