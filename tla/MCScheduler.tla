---------------------------- MODULE MCScheduler ----------------------------
(* The scheduler with small static table and few dynamic slots.           *)
EXTENDS Scheduler

Indices == 0 .. NumStatic - 1
MCStaticInterval == [t \in Indices |-> 2 - t]
MCStaticDelay == [t \in Indices |-> 2 - t]

=============================================================================
