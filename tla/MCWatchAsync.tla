---------------------------- MODULE MCWatchAsync ----------------------------
(* The resolver with watchasync and another client, for TLC.               *)
EXTENDS WatchAsync

TwoNames == {1, 2}
AllAnswers == {"address", "error", "other"}
=============================================================================
