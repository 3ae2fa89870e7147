---------------------------- MODULE PacketBuffer ----------------------------
(***************************************************************************)
(* What the lock of the one packet buffer uip_buf promises its users: the  *)
(* buffer has at most one owner, an interrupt handler or the main loop     *)
(* takes it only when nobody has it, and it is passed on in two ways only: *)
(* a packet received by a link goes to the main loop, and a packet the     *)
(* main loop queues goes to the transmitter.                               *)
(***************************************************************************)
VARIABLE owner

Owners == {"none", "receiver", "main", "transmitter"}

Init == owner = "none"

Acquire == owner = "none" /\ owner' \in {"receiver", "main"}
TakePacket == owner = "receiver" /\ owner' = "main"
QueuePacket == owner = "main" /\ owner' = "transmitter"
Release == owner \in {"main", "transmitter"} /\ owner' = "none"

Next == Acquire \/ TakePacket \/ QueuePacket \/ Release

Spec == Init /\ [][Next]_owner
=============================================================================
