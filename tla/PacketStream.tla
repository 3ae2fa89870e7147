---------------------------- MODULE PacketStream ----------------------------
(***************************************************************************)
(* What the MQTT client's send buffer promises: a byte stream.  What is    *)
(* written is received in the order of writing, each byte once, and only   *)
(* the end of the connection may drop what is still to be received.        *)
(***************************************************************************)
EXTENDS Sequences, SequencesExt, Naturals

VARIABLES
    up,        \* there is a connection
    todo,      \* written and not received yet
    heard      \* what was received last, as long as it may be sent again

Init == up = FALSE /\ todo = <<>> /\ heard = <<>>

(* Also the first bytes of a connection, as it is opened.                  *)
Write ==
    /\ up'
    /\ IsPrefix(todo, todo')
    /\ heard' \in {heard, <<>>}

Receive ==
    /\ up /\ up'
    /\ heard = <<>> /\ heard' # <<>>
    /\ todo = heard' \o todo'

Abandon == ~up' /\ todo' = <<>> /\ heard' = <<>>

Next == Write \/ Receive \/ Abandon

Spec == Init /\ [][Next]_<<up, todo, heard>>
=============================================================================
