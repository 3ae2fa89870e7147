------------------------------- MODULE MCDhcp -------------------------------
(* The DHCP client with two servers, for TLC.                              *)
EXTENDS Dhcp

TwoServers == {1, 2}

(* No lease time, one second, short ones, and one whose T2 overflows.      *)
SomeLeases == {0, 1, 2, 5, 16}
=============================================================================
