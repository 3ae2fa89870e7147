----------------------------- MODULE MCTftpBoot -----------------------------
(* Three clients for TLC, with images of one block, of as many as there    *)
(* are in the flash, and of two more than there is room for.              *)
EXTENDS TftpBoot

CONSTANTS c1, c2, c3

ThreeClients == {c1, c2, c3}
ThreeImages == [c \in ThreeClients |-> IF c = c1 THEN 1 ELSE IF c = c2 THEN 3 ELSE 5]
=============================================================================
