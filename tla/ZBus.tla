-------------------------------- MODULE ZBus --------------------------------
(***************************************************************************)
(* The zBus link (protocols/zbus), which shares the packet buffer uip_buf  *)
(* and its lock with the Ethernet link and the timers of the main loop.    *)
(*                                                                         *)
(* The USART's receive and transmit interrupts run between any two steps   *)
(* of the main loop.  The main loop takes a packet from zBus or Ethernet,  *)
(* hands it to the router, and may queue an answer or the packet itself on *)
(* zBus; or it dispatches timers, which poll uIP's connections.            *)
(*                                                                         *)
(* Any bytes may arrive, which covers lost, damaged and invented ones.     *)
(* Build modelled: AVR, ROUTER_SUPPORT and IP_FORWARDING_SUPPORT with      *)
(* ENC28J60_SUPPORT and ZBUS_SUPPORT; no RFM12, USB or ZBUS_RAW_SUPPORT.   *)
(***************************************************************************)
EXTENDS Integers

CONSTANTS
    ZBUS_BUFFER_LEN,
    Connections      \* the connections that one dispatch polls

ASSUME ZBusAssumption ==
    /\ ZBUS_BUFFER_LEN \in Nat \ {0}
    /\ Connections \in Nat

VARIABLES
    zbus_txlen, zbus_rxlen, zbus_index, bus_blocked,
    send_escape_data, recv_escape_data,
    usart,           \* what UCSRB enables: "rx", "tx" or "off"
    locked,          \* _uip_buf_lock # 0
    pc,              \* where the main loop is
    polls,           \* connections still to be polled in this dispatch
    buf,             \* history: whose packet is in uip_buf
    queued,          \* history: the packet given to zbus_txstart, and by whom
    outrun           \* history: has a transmission ended before the call of
                     \* the main loop that queued it had returned?

link == <<zbus_txlen, zbus_rxlen, zbus_index, bus_blocked, send_escape_data,
          recv_escape_data, usart>>
vars == <<link, locked, pc, polls, buf, queued, outrun>>

Bytes == {"\\", "0", "1", "x"}     \* x stands for all the others
START == "0"
STOP == "1"
None == "none"

FromLine == 0                      \* buf: bytes of the line, or
Packets == {1, 2}                  \* a packet of the main loop
Fresh == IF buf = 1 THEN 2 ELSE 1

Init ==
    /\ zbus_txlen = 0 /\ zbus_rxlen = 0 /\ zbus_index = 0 /\ bus_blocked = 0
    /\ send_escape_data = None /\ recv_escape_data = FALSE
    /\ usart = "rx"
    /\ locked = FALSE
    /\ pc = "idle" /\ polls = 0
    /\ buf = 1
    /\ queued = [packet |-> 1, by |-> "idle"]
    /\ outrun = FALSE

-----------------------------------------------------------------------------
(* The transmitter.                                                        *)

TxRefused == zbus_txlen # 0 \/ zbus_rxlen # 0 \/ bus_blocked # 0

zbus_txstart(size, packet) ==
    IF TxRefused THEN UNCHANGED <<link, queued>>
    ELSE /\ zbus_index' = 0
         /\ zbus_txlen' = size
         /\ bus_blocked' = 3
         /\ usart' = "tx"
         /\ send_escape_data' = START
         /\ queued' = [packet |-> packet, by |-> pc]
         /\ UNCHANGED <<zbus_rxlen, recv_escape_data>>

(* The transmit interrupt: a byte has left the USART.                      *)
TxEscape ==
    /\ send_escape_data # None
    /\ send_escape_data' = None
    /\ UNCHANGED <<zbus_txlen, zbus_rxlen, zbus_index, bus_blocked, usart, locked, outrun>>

TxDataAgain ==
    /\ send_escape_data = None
    /\ zbus_index < zbus_txlen
    /\ send_escape_data' \in {None, "\\"}
    /\ bus_blocked' = 3
    /\ UNCHANGED <<zbus_txlen, zbus_rxlen, zbus_index, usart, locked, outrun>>

TxData ==
    /\ send_escape_data = None
    /\ zbus_index < zbus_txlen
    /\ send_escape_data' \in {None, "\\"}
    /\ zbus_index' = zbus_index + 1
    /\ bus_blocked' = 3
    /\ UNCHANGED <<zbus_txlen, zbus_rxlen, usart, locked, outrun>>

(* The lock is released whether or not the main loop still works on the    *)
(* buffer.  The shortest packet takes 20 ms to send at 19200 baud, which a *)
(* dispatch with a slow timer function can outlast.                        *)
TxStop ==
    /\ send_escape_data = None
    /\ zbus_txlen # 0 /\ zbus_index >= zbus_txlen
    /\ zbus_txlen' = 0
    /\ locked' = FALSE
    /\ send_escape_data' = STOP
    /\ outrun' = (outrun \/ pc # "idle")
    /\ UNCHANGED <<zbus_rxlen, zbus_index, bus_blocked, usart>>

TxDone ==
    /\ send_escape_data = None
    /\ zbus_txlen = 0
    /\ bus_blocked' = 0
    /\ zbus_rxlen' = 0
    /\ usart' = "rx"
    /\ UNCHANGED <<zbus_txlen, zbus_index, send_escape_data, locked, outrun>>

Transmit ==
    /\ usart = "tx"
    /\ TxEscape \/ TxData \/ TxStop \/ TxDone
    /\ UNCHANGED <<recv_escape_data, pc, polls, buf, queued>>

-----------------------------------------------------------------------------
(* The receive interrupt.                                                  *)

RxStartUnlocked ==
    /\ locked' = TRUE /\ zbus_index' = 0 /\ bus_blocked' = 3
    /\ UNCHANGED <<zbus_rxlen, usart, buf>>

RxStart ==
    IF locked THEN UNCHANGED <<zbus_rxlen, zbus_index, bus_blocked, usart, locked, buf>>
    ELSE /\ locked' = TRUE
         /\ zbus_index' = 0
         /\ bus_blocked' = 3
         /\ UNCHANGED <<zbus_rxlen, usart, buf>>

RxStopAlways ==
    /\ usart' = "off" /\ zbus_rxlen' = zbus_index
    /\ bus_blocked' = 0
    /\ UNCHANGED <<zbus_index, locked, buf>>

RxStop ==
    /\ IF bus_blocked # 0 THEN usart' = "off" /\ zbus_rxlen' = zbus_index
                          ELSE UNCHANGED <<usart, zbus_rxlen>>
    /\ bus_blocked' = 0
    /\ UNCHANGED <<zbus_index, locked, buf>>

RxAppend ==
    IF zbus_index >= ZBUS_BUFFER_LEN \/ bus_blocked = 0
    THEN UNCHANGED <<zbus_rxlen, zbus_index, bus_blocked, usart, locked, buf>>
    ELSE /\ bus_blocked' = 3
         /\ zbus_index' = zbus_index + 1
         /\ buf' = IF zbus_index = 0 THEN FromLine ELSE buf
         /\ UNCHANGED <<zbus_rxlen, usart, locked>>

RxByte(data) ==
    IF recv_escape_data
    THEN /\ recv_escape_data' = FALSE
         /\ CASE data = START -> RxStart
              [] data = STOP  -> RxStop
              [] data = "\\"  -> RxAppend
              [] OTHER        -> UNCHANGED <<zbus_rxlen, zbus_index, bus_blocked, usart, locked, buf>>
    ELSE IF data = "\\"
    THEN /\ recv_escape_data' = TRUE
         /\ UNCHANGED <<zbus_rxlen, zbus_index, bus_blocked, usart, locked, buf>>
    ELSE RxAppend /\ UNCHANGED recv_escape_data

Receive(data) ==
    /\ usart = "rx"
    /\ IF zbus_rxlen # 0 \/ zbus_txlen # 0
       THEN UNCHANGED <<zbus_rxlen, zbus_index, bus_blocked, recv_escape_data, usart, locked, buf>>
       ELSE RxByte(data)
    /\ UNCHANGED <<zbus_txlen, send_escape_data, pc, polls, queued, outrun>>

-----------------------------------------------------------------------------
(* The main loop: zbus_process, network_process and periodic_process.      *)

zbus_process ==
    /\ pc = "idle" /\ zbus_rxlen # 0
    /\ pc' = "zbus"
    /\ IF zbus_txlen > 0 THEN UNCHANGED <<zbus_rxlen, usart>>
                         ELSE zbus_rxlen' = 0 /\ usart' = "rx"
    /\ UNCHANGED <<zbus_txlen, zbus_index, bus_blocked, send_escape_data, recv_escape_data,
                   locked, polls, buf, queued, outrun>>

network_process ==
    /\ pc = "idle" /\ ~locked
    /\ locked' = TRUE
    /\ pc' = "enc"
    /\ buf' = Fresh
    /\ UNCHANGED <<link, polls, queued, outrun>>

(* router_input and router_output: the packet is dropped, goes out through *)
(* the Ethernet controller's own memory, or is queued on zBus.             *)
Route(next) ==
    /\ buf' = Fresh
    /\ \/ UNCHANGED <<link, queued>>
       \/ \E size \in 1..ZBUS_BUFFER_LEN : zbus_txstart(size, Fresh)
    /\ pc' = next
    /\ UNCHANGED locked

router_input ==
    /\ pc \in {"zbus", "enc"}
    /\ Route("unlock")
    /\ UNCHANGED <<polls, outrun>>

periodic_process ==
    /\ pc = "idle" /\ ~locked
    /\ locked' = TRUE
    /\ pc' = "dispatch"
    /\ polls' = Connections
    /\ UNCHANGED <<link, buf, queued, outrun>>

(* uip_tcp_timer and uip_udp_timer, one connection at a time.              *)
PollConnection ==
    /\ pc = "dispatch" /\ polls > 0
    /\ polls' = polls - 1
    /\ \/ UNCHANGED <<link, locked, pc, buf, queued>>
       \/ Route("dispatch")
    /\ UNCHANGED outrun

zbus_core_periodic ==
    /\ pc = "dispatch"
    /\ bus_blocked # 0
    /\ IF bus_blocked = 1 /\ zbus_txlen > 0
       THEN bus_blocked' = 3 /\ usart' = "tx" /\ send_escape_data' = START
       ELSE bus_blocked' = bus_blocked - 1 /\ UNCHANGED <<usart, send_escape_data>>
    /\ UNCHANGED <<zbus_txlen, zbus_rxlen, zbus_index, recv_escape_data, locked, pc, polls, buf, queued, outrun>>

EndDispatch ==
    /\ pc = "dispatch" /\ polls = 0
    /\ pc' = "unlock"
    /\ UNCHANGED <<link, locked, polls, buf, queued, outrun>>

UnlockBlindly ==
    /\ pc = "unlock"
    /\ locked' = FALSE
    /\ pc' = "idle"
    /\ UNCHANGED <<link, polls, buf, queued, outrun>>

UnlockForgotten ==
    /\ pc = "unlock"
    /\ pc' = "idle"
    /\ UNCHANGED <<link, locked, polls, buf, queued, outrun>>

uip_buf_unlock ==
    /\ pc = "unlock"
    /\ locked' = (zbus_txlen > 0 /\ locked)
    /\ pc' = "idle"
    /\ UNCHANGED <<link, polls, buf, queued, outrun>>

MainLoop ==
    \/ zbus_process \/ network_process \/ router_input
    \/ periodic_process \/ PollConnection \/ zbus_core_periodic \/ EndDispatch
    \/ uip_buf_unlock

Next == Transmit \/ (\E data \in Bytes : Receive(data)) \/ MainLoop

Spec == Init /\ [][Next]_vars

(* The interrupts of a transmission come by themselves, and the main loop  *)
(* never stops; no byte need ever arrive.  zbus_core_periodic, which runs  *)
(* every 200 ms, starts a transmission again at its third run without an   *)
(* interrupt, or lets the next one start before the stop marker has left;  *)
(* but a byte takes half a millisecond, so it does not do so for ever,     *)
(* hence SF for each kind of byte.                                         *)
FairSpec ==
    /\ Spec
    /\ WF_vars(Transmit)
    /\ SF_vars(Transmit /\ TxData) /\ SF_vars(Transmit /\ TxStop) /\ SF_vars(Transmit /\ TxDone)
    /\ SF_vars(Transmit /\ send_escape_data = STOP)
    /\ WF_vars(zbus_process) /\ WF_vars(router_input)
    /\ WF_vars(PollConnection) /\ WF_vars(EndDispatch) /\ WF_vars(uip_buf_unlock)

-----------------------------------------------------------------------------
TypeOK ==
    /\ zbus_txlen \in 0..ZBUS_BUFFER_LEN
    /\ zbus_rxlen \in 0..ZBUS_BUFFER_LEN
    /\ zbus_index \in 0..ZBUS_BUFFER_LEN
    /\ bus_blocked \in 0..3
    /\ send_escape_data \in {None, START, STOP, "\\"}
    /\ recv_escape_data \in BOOLEAN
    /\ usart \in {"rx", "tx", "off"}
    /\ locked \in BOOLEAN
    /\ pc \in {"idle", "zbus", "enc", "dispatch", "unlock"}
    /\ polls \in 0..Connections
    /\ buf \in {FromLine} \cup Packets
    /\ queued \in [packet : Packets, by : {"idle", "zbus", "enc", "dispatch"}]
    /\ outrun \in BOOLEAN

(* Who is using the buffer.                                                *)
Receiving == usart = "rx" /\ bus_blocked # 0
Received == zbus_rxlen # 0
Sending == zbus_txlen # 0
MainUses == pc # "idle"
InUse == Receiving \/ Received \/ Sending \/ MainUses

(* A stop marker has come right behind its start marker: the receiver is   *)
(* off, the length is 0, and zbus_process returns at its first test.       *)
EmptyFrame == usart = "off" /\ zbus_rxlen = 0

(* The receive interrupt, a received packet, a transmission and the main   *)
(* loop never use uip_buf together, except that the main loop's call that  *)
(* queued a transmission is still to return (uip_buf_lock in the START     *)
(* case of the receive interrupt, network_process and periodic_process).   *)
(* This holds until a transmission ends before that call has returned: the *)
(* transmit interrupt then frees the buffer under the main loop.           *)
BufferExclusive ==
    ~outrun =>
      /\ ~(Receiving /\ (Received \/ Sending \/ MainUses))
      /\ ~(Received /\ (Sending \/ MainUses))
      /\ Sending /\ MainUses => pc \in {"dispatch", "unlock"}

(* The lock is never released under a user of the buffer, and is left      *)
(* behind by the last one in one case only: an empty frame, which nobody   *)
(* takes, stops every timer and the Ethernet link for ever.  Again until a *)
(* transmission ends before the call that queued it has returned.          *)
LockHeldByUser == ~outrun => (locked <=> InUse \/ EmptyFrame)

(* Nothing overwrites a packet that zBus is receiving, has received or is  *)
(* sending, as long as no call outlasts the transmission it queued.  Left  *)
(* out are the packets queued by a dispatch, which the code does not keep: *)
(* uip_tcp_timer goes on to the next connection, whose packet takes their  *)
(* place.                                                                  *)
PacketsIntact ==
    ~outrun =>
      /\ (Receiving /\ zbus_index > 0) \/ Received \/ pc = "zbus" => buf = FromLine
      /\ Sending /\ queued.by # "dispatch" => buf = queued.packet

owner ==
    CASE MainUses -> "main"
      [] ~MainUses /\ Sending -> "transmitter"
      [] ~MainUses /\ ~Sending /\ (Receiving \/ Received \/ EmptyFrame) -> "receiver"
      [] OTHER -> "none"

Buffer == INSTANCE PacketBuffer

(* The lock as zBus, Ethernet and the timers use it implements the         *)
(* ownership protocol: a received packet reaches the main loop, only the   *)
(* main loop starts a transmission, and nobody takes a buffer in use; an   *)
(* empty frame keeps it for ever.  Every step is one of the protocol up to *)
(* the first transmission that ends before its call has returned.          *)
ImplementsPacketBuffer == Buffer!Init /\ [][Buffer!Next \/ outrun']_owner

(* Every transmission ends, and the receiver is enabled again afterwards   *)
(* (the last branch of the transmit interrupt).                            *)
SendingEnds == Sending ~> usart = "rx"

(* Whoever holds the lock gives it back, except a reception that waits for *)
(* the stop marker of its frame, and an empty frame.                       *)
LockReleased == locked /\ ~Receiving /\ ~EmptyFrame ~> ~locked
=============================================================================
