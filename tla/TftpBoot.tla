------------------------------ MODULE TftpBoot ------------------------------
(***************************************************************************)
(* The bootloader: a TFTP server that programs an image into the flash     *)
(* (services/tftp/tftp-bootload.c), the countdown after which it starts    *)
(* the application, and the clients that send their images to it.          *)
(*                                                                         *)
(* Packets are lost, delayed, duplicated and reordered: what a client sent *)
(* once may arrive at any later time, any number of times, and an answer   *)
(* may be lost.  Clients send a block until it is acknowledged and stop at *)
(* the first error; packets of other types may come from them at any time. *)
(*                                                                         *)
(* Build modelled: BOOTLOADER_SUPPORT without TFTP_UPLOAD_SUPPORT, which   *)
(* the configuration excludes, without TFTPOMATIC, BOOTP and TFTP_CRC.     *)
(* No image has so many blocks that their 16-bit number, or the address of *)
(* one in flash_base_t, wraps.                                             *)
(***************************************************************************)
EXTENDS Integers

CONSTANTS
    Clients,
    Last,                  \* the number of a client's last block, which is short
    AppBlocks,             \* the blocks below BOOTLOADER_START_ADDRESS
    MaxBlocks,             \* bound on the blocks of an image, fit or not
    CONF_BOOTLOAD_DELAY,
    Nobody

ASSUME TftpAssumption ==
    /\ AppBlocks \in Nat /\ MaxBlocks \in Nat /\ CONF_BOOTLOAD_DELAY \in Nat \ {0}
    /\ Last \in [Clients -> 1 .. MaxBlocks]
    /\ Nobody \notin Clients

VARIABLES
    conn,                  \* whose port and address the UDP connection has
    transfered, finished,
    bootload_delay,
    started,               \* the application runs
    flash,                 \* whose image each block is from
    to_server, to_client,  \* the packets sent, and the answers that arrive
    client                 \* how far each client is

server == <<conn, transfered, finished, bootload_delay, started, flash, to_client>>
vars == <<server, to_server, client>>

Blocks == 1 .. AppBlocks
Numbers == 0 .. MaxBlocks
WRQ(c) == [type |-> "WRQ", from |-> c, block |-> 0]
DATA(c, n) == [type |-> "DATA", from |-> c, block |-> n]
ACK(c, n) == [type |-> "ACK", to |-> c, block |-> n]
ERROR(c) == [type |-> "ERROR", to |-> c, block |-> 0]

Init ==
    /\ conn = Nobody
    /\ transfered = 0 /\ finished = FALSE
    /\ bootload_delay = CONF_BOOTLOAD_DELAY
    /\ started = FALSE
    /\ flash = [b \in Blocks |-> Nobody]
    /\ to_server = {} /\ to_client = {}
    /\ client = [c \in Clients |-> [phase |-> "idle", block |-> 0]]

-----------------------------------------------------------------------------
(* tftp_handle_packet.                                                     *)

AcceptsAll(c) == ~started     \* a mutant: the connection is not bound

(* uIP's demultiplexing: the first packet binds the connection for good.   *)
Accepts(c) == ~started /\ conn \in {Nobody, c}

Send(reply) == to_client' \in {to_client, to_client \cup {reply}}

WriteRequest(c) ==
    /\ WRQ(c) \in to_server
    /\ transfered' = 0 /\ finished' = FALSE
    /\ Send(ACK(c, 0))
    /\ UNCHANGED <<bootload_delay, flash>>

(* A block in the bootloader's own pages is dropped, which its sender is   *)
(* not told: it is acknowledged like any other.                            *)
flash_page(c, n) == flash' = [b \in Blocks |-> IF b = n THEN c ELSE flash[b]]

NextBlockCounting(c, n) ==   \* a mutant: the countdown goes on
    /\ flash_page(c, n)
    /\ finished' = (finished \/ n = Last[c])
    /\ bootload_delay' = IF n = Last[c] THEN 1 ELSE bootload_delay
    /\ transfered' = n
    /\ Send(ACK(c, n))

(* The next block; after the last one, the application is started soon.    *)
NextBlock(c, n) ==
    /\ flash_page(c, n)
    /\ finished' = (finished \/ n = Last[c])
    /\ bootload_delay' = IF n = Last[c] THEN 1 ELSE 0
    /\ transfered' = n
    /\ Send(ACK(c, n))

(* A block that is not the next one stops the countdown all the same.      *)
OtherBlockSilent(c, n) ==   \* a mutant: a duplicate is not acknowledged again
    /\ bootload_delay' = 0
    /\ n # transfered /\ Send(ERROR(c))
    /\ UNCHANGED <<transfered, finished, flash>>

OtherBlock(c, n) ==
    /\ bootload_delay' = 0
    /\ Send(IF n = transfered THEN ACK(c, n) ELSE ERROR(c))
    /\ UNCHANGED <<transfered, finished, flash>>

Data(c, n) ==
    /\ DATA(c, n) \in to_server
    /\ IF n <= transfered \/ n > transfered + 1 THEN OtherBlock(c, n) ELSE NextBlock(c, n)

(* A read request, an acknowledgement, an error or anything else.          *)
OtherType(c) ==
    /\ Send(ERROR(c))
    /\ UNCHANGED <<transfered, finished, bootload_delay, flash>>

tftp_handle_packet(c) ==
    /\ Accepts(c)
    /\ conn' = c
    /\ WriteRequest(c) \/ OtherType(c) \/ \E n \in Numbers : Data(c, n)
    /\ UNCHANGED <<started, to_server, client>>

(* The end of periodic_process: the countdown to the application.          *)
periodic_process ==
    /\ ~started /\ bootload_delay # 0
    /\ bootload_delay' = bootload_delay - 1
    /\ started' = (bootload_delay' = 0)
    /\ UNCHANGED <<conn, transfered, finished, flash, to_server, to_client, client>>

-----------------------------------------------------------------------------
(* A client, outside of this repository: it writes its image in lockstep.  *)
ClientAt(c, phase, n) == client' = [client EXCEPT ![c] = [phase |-> phase, block |-> n]]

Begin(c) ==
    /\ client[c].phase = "idle"
    /\ ClientAt(c, "writing", 0)
    /\ to_server' = to_server \cup {WRQ(c)}
    /\ UNCHANGED server

Acked(c) ==
    LET n == client[c].block IN
    /\ client[c].phase = "writing"
    /\ ACK(c, n) \in to_client
    /\ IF n = Last[c] THEN ClientAt(c, "done", n) /\ UNCHANGED to_server
       ELSE ClientAt(c, "writing", n + 1) /\ to_server' = to_server \cup {DATA(c, n + 1)}
    /\ UNCHANGED server

(* An error ends it, and it may give up at any time.                       *)
Refused(c) ==
    /\ client[c].phase = "writing"
    /\ ERROR(c) \in to_client
    /\ ClientAt(c, "failed", client[c].block)
    /\ UNCHANGED <<server, to_server>>

GivesUp(c) ==
    /\ client[c].phase = "writing"
    /\ ClientAt(c, "failed", client[c].block)
    /\ UNCHANGED <<server, to_server>>

Client(c) == Begin(c) \/ Acked(c) \/ Refused(c) \/ GivesUp(c)

Next == periodic_process \/ \E c \in Clients : tftp_handle_packet(c) \/ Client(c)

Spec == Init /\ [][Next]_vars

(* What the client sends now gets through in the end, because it is sent   *)
(* again and again, and so does one of the answers to it.                  *)
Current(c) ==
    /\ Accepts(c)
    /\ conn' = c
    /\ client[c].phase = "writing"
    /\ IF client[c].block = 0 THEN WriteRequest(c) ELSE Data(c, client[c].block)
    /\ to_client' # to_client
    /\ UNCHANGED <<started, to_server, client>>

FairSpec ==
    /\ Spec
    /\ WF_vars(periodic_process)
    /\ \A c \in Clients : SF_vars(Current(c)) /\ WF_vars(Acked(c) \/ Refused(c))

-----------------------------------------------------------------------------
TypeOK ==
    /\ conn \in Clients \cup {Nobody}
    /\ transfered \in Numbers /\ finished \in BOOLEAN
    /\ bootload_delay \in 0 .. CONF_BOOTLOAD_DELAY
    /\ started \in BOOLEAN
    /\ flash \in [Blocks -> Clients \cup {Nobody}]
    /\ to_server \subseteq [type : {"WRQ", "DATA"}, from : Clients, block : Numbers]
    /\ to_client \subseteq [type : {"ACK", "ERROR"}, to : Clients, block : Numbers]
    /\ client \in [Clients -> [phase : {"idle", "writing", "done", "failed"}, block : Numbers]]

(* What of a client's blocks 1 to n, or of its image, there is room for.   *)
Programmed(c, n) == \A b \in Blocks : b <= n => flash[b] = c
Complete(c) == Programmed(c, Last[c])
Untouched == \A b \in Blocks : flash[b] = Nobody

(* The bootloader starts the application that was there, or all of one     *)
(* client's that there is room for, never less of it and never a mixture,  *)
(* whatever packets arrive twice or late while the countdown runs.  An     *)
(* image that is too large is started all the same, cut off.               *)
StartsComplete == started => Untouched \/ \E c \in Clients : Complete(c)

(* Of the blocks up to one that the client has seen acknowledged, all that *)
(* lie below the bootloader are in the flash; a client that is done has    *)
(* all of its image there, if there is room for it.                        *)
AckedIsProgrammed ==
    \A c \in Clients, n \in Numbers : ACK(c, n) \in to_client => Programmed(c, n)

(* The client that the bootloader listens to comes to an end, unless the   *)
(* application was started under its way.                                  *)
TransferEnds ==
    \A c \in Clients : conn = c ~> client[c].phase \in {"done", "failed"} \/ started
=============================================================================
