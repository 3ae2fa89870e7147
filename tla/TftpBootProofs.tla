--------------------------- MODULE TftpBootProofs ---------------------------
(***************************************************************************)
(* Proofs about the bootloader, for any number of clients, images and      *)
(* sizes of the flash, over a network that loses, repeats and reorders.    *)
(*                                                                         *)
(* That the application started is complete depends on the countdown:      *)
(* while it runs nothing has been programmed, or everything (Counting).    *)
(* That in turn needs all blocks up to transfered to be the one client's   *)
(* that the connection is bound to (Bound).                                *)
(***************************************************************************)
EXTENDS TftpBoot, TLAPS

Bound ==
    /\ \A b \in Blocks : flash[b] \in {Nobody, conn}
    /\ conn \in Clients => Programmed(conn, transfered)
    /\ conn = Nobody => transfered = 0

Counting == bootload_delay # 0 \/ started => Untouched \/ (conn \in Clients /\ Complete(conn))

AcksBound == \A c \in Clients, n \in Numbers : ACK(c, n) \in to_client => conn = c /\ Programmed(c, n)

InImage == \A c \in Clients : client[c].block <= Last[c]

TInv == TypeOK /\ Bound /\ Counting /\ AcksBound /\ InImage

(* The type invariant in three parts.                                      *)
FlagsOK == finished \in BOOLEAN /\ started \in BOOLEAN

ServerOK ==
    /\ conn \in Clients \cup {Nobody}
    /\ transfered \in Numbers
    /\ bootload_delay \in 0 .. CONF_BOOTLOAD_DELAY
    /\ flash \in [Blocks -> Clients \cup {Nobody}]
    /\ to_client \subseteq [type : {"ACK", "ERROR"}, to : Clients, block : Numbers]

ClientsOK ==
    /\ to_server \subseteq [type : {"WRQ", "DATA"}, from : Clients, block : Numbers]
    /\ client \in [Clients -> [phase : {"idle", "writing", "done", "failed"}, block : Numbers]]

(* The parts make up the type invariant.                                   *)
LEMMA TypeParts == TypeOK <=> FlagsOK /\ ServerOK /\ ClientsOK
  BY DEF TypeOK, FlagsOK, ServerOK, ClientsOK

(* So they do after a step.                                                *)
LEMMA TypePartsNext == TypeOK' <=> FlagsOK' /\ ServerOK' /\ ClientsOK'
  BY DEF TypeOK, FlagsOK, ServerOK, ClientsOK

(* Answers tell their client and their block.                              *)
LEMMA Answers ==
    ASSUME NEW c \in Clients, NEW n \in Numbers, NEW d \in Clients, NEW m \in Numbers
    PROVE  /\ ACK(c, n) = ACK(d, m) => c = d /\ n = m
           /\ ACK(c, n) # ERROR(d)
           /\ ACK(c, n) \in [type : {"ACK", "ERROR"}, to : Clients, block : Numbers]
           /\ ERROR(c) \in [type : {"ACK", "ERROR"}, to : Clients, block : Numbers]
  BY TftpAssumption DEF ACK, ERROR, Numbers

(* The invariant holds when the bootloader starts.                         *)
LEMMA InitTInv == Init => TInv
<1> SUFFICES ASSUME Init PROVE TInv
  OBVIOUS
<1>0. FlagsOK
  BY DEF Init, FlagsOK
<1>1. ServerOK
  BY TftpAssumption DEF Init, ServerOK, Numbers
<1>2. ClientsOK
  BY TftpAssumption DEF Init, ClientsOK, Numbers
<1>3. Bound /\ Counting /\ AcksBound
  BY TftpAssumption DEF Init, Bound, Counting, AcksBound, Untouched
<1>4. ASSUME NEW c \in Clients PROVE client[c].block <= Last[c]
  <2>1. client[c].block = 0
    BY DEF Init
  <2>2. Last[c] \in 1 .. MaxBlocks
    BY TftpAssumption
  <2>3. QED
    BY <2>1, <2>2, TftpAssumption
<1>5. QED
  BY <1>0, <1>1, <1>2, <1>3, <1>4, TypeParts DEF TInv, InImage

(* Before a packet of its client is handled, all of the flash that has     *)
(* been programmed is that client's.                                       *)
LEMMA AcceptedClient ==
    ASSUME TInv, NEW c \in Clients, Accepts(c)
    PROVE  /\ ~started /\ transfered \in Numbers /\ flash \in [Blocks -> Clients \cup {Nobody}]
           /\ \A b \in Blocks : flash[b] \in {Nobody, c}
           /\ Programmed(c, transfered)
           /\ \A d \in Clients, n \in Numbers : ACK(d, n) \in to_client => d = c /\ Programmed(c, n)
<1>1. ~started /\ transfered \in Numbers /\ flash \in [Blocks -> Clients \cup {Nobody}]
  BY DEF TInv, TypeOK, Accepts
<1>2. CASE conn = c
  BY <1>1, <1>2 DEF TInv, Bound, AcksBound
<1>3. CASE conn = Nobody
  BY <1>1, <1>3, TftpAssumption DEF TInv, Bound, AcksBound, Programmed, Blocks
<1>4. QED
  BY <1>2, <1>3 DEF Accepts

(* An answer about blocks that are programmed keeps AcksBound and the      *)
(* types of the answers.                                                   *)
LEMMA SendAcksBound ==
    ASSUME TInv, NEW c \in Clients, Accepts(c), conn' = c, NEW m \in Numbers, NEW reply, Send(reply),
           (reply = ACK(c, m) /\ Programmed(c, m)') \/ reply = ERROR(c),
           \A b \in Blocks : flash[b] = c => flash'[b] = c
    PROVE  /\ AcksBound'
           /\ to_client' \subseteq [type : {"ACK", "ERROR"}, to : Clients, block : Numbers]
<1>1. ASSUME NEW d \in Clients, NEW n \in Numbers, ACK(d, n) \in to_client'
      PROVE  d = c /\ Programmed(d, n)'
  <2>1. CASE ACK(d, n) \in to_client
    <3>1. d = c /\ Programmed(c, n)
      BY <2>1, AcceptedClient
    <3>2. QED
      BY <3>1 DEF Programmed
  <2>2. CASE ACK(d, n) = reply
    BY <2>2, Answers
  <2>3. QED
    BY <1>1, <2>1, <2>2 DEF Send
<1>2. AcksBound'
  BY <1>1 DEF AcksBound
<1>3. to_client' \subseteq [type : {"ACK", "ERROR"}, to : Clients, block : Numbers]
  BY Answers DEF TInv, TypeOK, Send
<1>4. QED
  BY <1>2, <1>3

(* Handling a packet preserves the invariant.                              *)
LEMMA HandleTInv ==
    ASSUME TInv, NEW c \in Clients, tftp_handle_packet(c)
    PROVE  TInv'
<1>1. Accepts(c) /\ conn' = c /\ UNCHANGED <<started, to_server, client>> /\ ~started
  BY DEF tftp_handle_packet, Accepts
<1>2. ClientsOK' /\ InImage'
  BY <1>1 DEF TInv, TypeOK, ClientsOK, InImage
<1>3. /\ transfered \in Numbers /\ flash \in [Blocks -> Clients \cup {Nobody}]
      /\ \A b \in Blocks : flash[b] \in {Nobody, c}
      /\ Programmed(c, transfered)
  BY <1>1, AcceptedClient
<1>4. bootload_delay \in 0 .. CONF_BOOTLOAD_DELAY
  BY DEF TInv, TypeOK
<1>0. FlagsOK'
  <2>1. started' \in BOOLEAN
    BY <1>1, TypeParts DEF TInv, FlagsOK
  <2>2. finished' \in BOOLEAN
    BY TypeParts DEF TInv, FlagsOK, tftp_handle_packet, WriteRequest, Data, OtherBlock, NextBlock, OtherType
  <2>3. QED
    BY <2>1, <2>2 DEF FlagsOK
<1>5. CASE WriteRequest(c)
  <2>1. transfered' = 0 /\ finished' = FALSE /\ UNCHANGED <<bootload_delay, flash>> /\ Send(ACK(c, 0))
    BY <1>5 DEF WriteRequest
  <2>2. 0 \in Numbers /\ Programmed(c, 0)'
    BY TftpAssumption DEF Numbers, Programmed, Blocks
  <2>3. AcksBound' /\ to_client' \subseteq [type : {"ACK", "ERROR"}, to : Clients, block : Numbers]
    BY <1>1, <2>1, <2>2, SendAcksBound
  <2>4. ServerOK'
    BY <1>1, <1>3, <1>4, <2>1, <2>2, <2>3 DEF ServerOK
  <2>5. Bound'
    BY <1>1, <1>3, <2>1, <2>2, TftpAssumption DEF Bound
  <2>6. Counting'
    BY <1>1, <2>1, TftpAssumption DEF TInv, Counting, Untouched, Complete, Programmed, Accepts
  <2>7. QED
    BY <1>0, <1>2, <2>3, <2>4, <2>5, <2>6, TypePartsNext DEF TInv
<1>6. ASSUME NEW n \in Numbers, n = transfered + 1, NextBlock(c, n)
      PROVE  TInv'
  <2>1. /\ flash' = [b \in Blocks |-> IF b = n THEN c ELSE flash[b]]
        /\ transfered' = n /\ Send(ACK(c, n))
        /\ bootload_delay' = IF n = Last[c] THEN 1 ELSE 0
    BY <1>6 DEF NextBlock, flash_page
  <2>2. \A b \in Blocks : flash'[b] \in {Nobody, c} /\ (flash[b] = c => flash'[b] = c)
    BY <1>3, <2>1
  <2>3. Programmed(c, n)'
    BY <1>3, <1>6, <2>1, TftpAssumption DEF Programmed, Blocks, Numbers
  <2>4. AcksBound' /\ to_client' \subseteq [type : {"ACK", "ERROR"}, to : Clients, block : Numbers]
    BY <1>1, <2>1, <2>2, <2>3, SendAcksBound
  <2>5. bootload_delay' \in 0 .. CONF_BOOTLOAD_DELAY
    BY <2>1, TftpAssumption
  <2>6. ServerOK'
    BY <1>1, <1>3, <2>1, <2>4, <2>5, TypeParts DEF ServerOK, TInv
  <2>7. Bound'
    BY <1>1, <2>1, <2>2, <2>3, TftpAssumption DEF Bound
  <2>8. Counting'
    BY <1>1, <2>1, <2>3 DEF Counting, Complete
  <2>9. QED
    BY <1>0, <1>2, <2>4, <2>6, <2>7, <2>8, TypePartsNext DEF TInv
<1>7. ASSUME NEW n \in Numbers, OtherBlock(c, n)
      PROVE  TInv'
  <2>1. bootload_delay' = 0 /\ UNCHANGED <<transfered, finished, flash>>
    BY <1>7 DEF OtherBlock
  <2>2. PICK reply : Send(reply) /\ ((reply = ACK(c, n) /\ n = transfered) \/ reply = ERROR(c))
    BY <1>7 DEF OtherBlock
  <2>3. n = transfered => Programmed(c, n)'
    BY <1>3, <2>1 DEF Programmed
  <2>4. AcksBound' /\ to_client' \subseteq [type : {"ACK", "ERROR"}, to : Clients, block : Numbers]
    BY <1>1, <2>1, <2>2, <2>3, SendAcksBound
  <2>5. ServerOK'
    BY <1>1, <1>3, <1>4, <2>1, <2>4, TftpAssumption DEF ServerOK
  <2>6. Bound'
    BY <1>1, <1>3, <2>1, TftpAssumption DEF Bound, Programmed
  <2>7. Counting'
    BY <1>1, <2>1 DEF Counting
  <2>8. QED
    BY <1>0, <1>2, <2>4, <2>5, <2>6, <2>7, TypePartsNext DEF TInv
<1>8. ASSUME NEW n \in Numbers, Data(c, n) PROVE TInv'
  BY <1>3, <1>6, <1>7, <1>8, TftpAssumption DEF Data, Numbers
<1>9. CASE OtherType(c)
  <2>1. UNCHANGED <<transfered, bootload_delay, flash>> /\ Send(ERROR(c))
    BY <1>9 DEF OtherType
  <2>2. 0 \in Numbers
    BY TftpAssumption DEF Numbers
  <2>3. AcksBound' /\ to_client' \subseteq [type : {"ACK", "ERROR"}, to : Clients, block : Numbers]
    BY <1>1, <2>1, <2>2, SendAcksBound
  <2>4. ServerOK'
    BY <1>1, <1>3, <1>4, <2>1, <2>3 DEF ServerOK
  <2>5. Bound'
    BY <1>1, <1>3, <2>1, TftpAssumption DEF Bound, Programmed
  <2>6. Counting'
    BY <1>1, <2>1, TftpAssumption DEF TInv, Counting, Untouched, Complete, Programmed, Accepts
  <2>7. QED
    BY <1>0, <1>2, <2>3, <2>4, <2>5, <2>6, TypePartsNext DEF TInv
<1>10. QED
  BY <1>5, <1>8, <1>9 DEF tftp_handle_packet

(* The countdown preserves the invariant.                                  *)
LEMMA PeriodicTInv == TInv /\ periodic_process => TInv'
<1> SUFFICES ASSUME TInv, periodic_process PROVE TInv'
  OBVIOUS
<1>1. /\ bootload_delay # 0 /\ bootload_delay' = bootload_delay - 1
      /\ UNCHANGED <<conn, transfered, finished, flash, to_server, to_client, client>>
  BY DEF periodic_process
<1>2. FlagsOK'
  BY TypeParts DEF TInv, FlagsOK, periodic_process
<1>3. ServerOK' /\ ClientsOK'
  <2>1. ServerOK /\ ClientsOK
    BY TypeParts DEF TInv
  <2>2. bootload_delay' \in 0 .. CONF_BOOTLOAD_DELAY
    BY <1>1, <2>1, TftpAssumption DEF ServerOK
  <2>3. QED
    BY <1>1, <2>1, <2>2 DEF ServerOK, ClientsOK
<1>4. Bound' /\ AcksBound' /\ InImage'
  BY <1>1 DEF TInv, Bound, AcksBound, InImage, Programmed
<1>5. Untouched \/ (conn \in Clients /\ Complete(conn))
  BY <1>1 DEF TInv, Counting
<1>6. Counting'
  BY <1>1, <1>5 DEF Counting, Untouched, Complete, Programmed
<1>7. QED
  BY <1>2, <1>3, <1>4, <1>6, TypePartsNext DEF TInv

(* What the clients do preserves the invariant.                            *)
LEMMA ClientTInv ==
    ASSUME TInv, NEW c \in Clients, Client(c)
    PROVE  TInv'
<1>1. UNCHANGED <<conn, transfered, finished, bootload_delay, started, flash, to_client>>
  BY DEF Client, Begin, Acked, Refused, GivesUp, server
<1>2. FlagsOK'
  BY <1>1, TypeParts DEF TInv, FlagsOK
<1>3. ServerOK'
  BY <1>1, TypeParts DEF TInv, ServerOK
<1>4. Bound' /\ Counting' /\ AcksBound'
  BY <1>1 DEF TInv, Bound, Counting, AcksBound, Untouched, Complete, Programmed
<1>5. /\ client \in [Clients -> [phase : {"idle", "writing", "done", "failed"}, block : Numbers]]
      /\ to_server \subseteq [type : {"WRQ", "DATA"}, from : Clients, block : Numbers]
  BY DEF TInv, TypeOK
<1>6. Last[c] \in 1 .. MaxBlocks /\ client[c].block \in 0 .. Last[c]
  BY <1>5, TftpAssumption DEF TInv, InImage, Numbers
<1>7. PICK phase \in {"writing", "done", "failed"}, n \in 0 .. Last[c] :
        /\ ClientAt(c, phase, n)
        /\ to_server' \in {to_server, to_server \cup {WRQ(c)}, to_server \cup {DATA(c, n)}}
  <2>1. CASE Begin(c)
    BY <2>1, <1>6, TftpAssumption DEF Begin
  <2>2. CASE Acked(c)
    BY <2>2, <1>6, TftpAssumption DEF Acked
  <2>3. CASE Refused(c) \/ GivesUp(c)
    BY <2>3, <1>6 DEF Refused, GivesUp
  <2>4. QED
    BY <2>1, <2>2, <2>3 DEF Client
<1>8. n \in Numbers /\ 0 \in Numbers
  BY <1>6, <1>7, TftpAssumption DEF Numbers
<1>9. client' = [client EXCEPT ![c] = [phase |-> phase, block |-> n]]
  BY <1>7 DEF ClientAt
<1>10. ClientsOK'
  <2>1. client' \in [Clients -> [phase : {"idle", "writing", "done", "failed"}, block : Numbers]]
    BY <1>5, <1>7, <1>8, <1>9
  <2>2. to_server' \subseteq [type : {"WRQ", "DATA"}, from : Clients, block : Numbers]
    BY <1>5, <1>7, <1>8 DEF WRQ, DATA
  <2>3. QED
    BY <2>1, <2>2 DEF ClientsOK
<1>11. InImage'
  <2>1. ASSUME NEW d \in Clients PROVE client'[d].block <= Last[d]
    <3>1. CASE d = c
      <4>1. client'[d].block = n
        BY <1>5, <1>9, <3>1
      <4>2. QED
        BY <4>1, <3>1, <1>6, <1>7
    <3>2. CASE d # c
      <4>1. client'[d] = client[d]
        BY <1>5, <1>9, <3>2
      <4>2. QED
        BY <4>1 DEF TInv, InImage
    <3>3. QED
      BY <3>1, <3>2
  <2>2. QED
    BY <2>1 DEF InImage
<1>12. QED
  BY <1>2, <1>3, <1>4, <1>10, <1>11, TypePartsNext DEF TInv

(* The invariant is inductive.                                             *)
LEMMA NextTInv == TInv /\ [Next]_vars => TInv'
<1>1. CASE UNCHANGED vars
  <2>1. TInv => TInv'
    BY <1>1 DEF TInv, TypeOK, Bound, Counting, AcksBound, InImage, Untouched, Complete, Programmed, vars, server
  <2>2. QED
    BY <2>1
<1>2. QED
  BY <1>1, HandleTInv, ClientTInv, PeriodicTInv DEF Next

(* Every reachable state of the bootloader satisfies the invariant.        *)
THEOREM BootInvariant == Spec => []TInv
<1>1. QED
  BY InitTInv, NextTInv, PTL DEF Spec

(* For any clients and any sizes of their images, what tftp_handle_packet  *)
(* and the countdown of periodic_process start is what was there, or all   *)
(* of one image that there is room for below the bootloader, whatever the  *)
(* network repeats, loses or delays.                                       *)
THEOREM StartedIsComplete == Spec => []StartsComplete
<1>1. TInv => StartsComplete
  BY DEF TInv, Counting, StartsComplete
<1>2. QED
  BY <1>1, BootInvariant, PTL

(* For any clients and any sizes of their images, the blocks up to one     *)
(* that tftp_handle_packet acknowledges are in the flash as far as they    *)
(* lie below the bootloader, also later, when another client has come.     *)
THEOREM AcknowledgedIsProgrammed == Spec => []AckedIsProgrammed
<1>1. TInv => AckedIsProgrammed
  BY DEF TInv, AcksBound, AckedIsProgrammed
<1>2. QED
  BY <1>1, BootInvariant, PTL
=============================================================================
