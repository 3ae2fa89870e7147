--------------------------- MODULE SchedulerTypes ---------------------------
(***************************************************************************)
(* First part of the proofs about the scheduler: the inductive invariant   *)
(* IInv, facts about bytes and timers, and type correctness.               *)
(*                                                                         *)
(* None of the safety properties is inductive by itself: what the          *)
(* dispatcher stores at the end of a read-modify-write depends on what it  *)
(* loaded at the beginning.  IInv says, for every program counter, how the *)
(* value in the registers relates to the control block in memory.          *)
(***************************************************************************)
EXTENDS Scheduler, TLAPS

InApi == pc \in {"api_main", "api_callback"}

(* The loop index rests at 0 outside scheduler_dispatch_timer.             *)
IndexAtRest == pc \in {"main", "api_main"} => i = 0

(* The state byte in a register is the one in memory, except for a timer   *)
(* an interrupt handler may have written to in between.                    *)
Fresh ==
    /\ pc \in {"mark2", "finish2"} /\ i \notin IsrSlots => reg.st = state[i]
    /\ InApi /\ reg.which \notin IsrSlots => reg.st = state[reg.which]

(* The API only works on dynamic timers that exist.                        *)
ApiOnDynamic == InApi => reg.which \in Dynamic /\ reg.st # DELETED

(* The RUNNING flag in a register belongs to the current timer.            *)
RunningInRegister ==
    /\ pc = "mark2" => "RUNNING" \notin reg.st
    /\ InApi /\ "RUNNING" \in reg.st => pc = "api_callback" /\ reg.which = i

(* From the test of its state byte to its invocation a timer is runnable.  *)
StillRunnable == pc \in {"hi", "mark", "mark2"} /\ i \notin IsrSlots => "RUNNABLE" \in state[i]

(* The timer of an interrupt handler is never deleted and not a one-shot.  *)
IsrPeriodic ==
    /\ \A t \in IsrSlots : state[t] # DELETED /\ "ONESHOT" \notin state[t]
    /\ pc \in {"mark2", "finish2"} /\ i \in IsrSlots => reg.st # DELETED /\ "ONESHOT" \notin reg.st
    /\ InApi /\ reg.which \in IsrSlots => "ONESHOT" \notin reg.st

(* RequestHonoured, with the timer that is being invoked included.         *)
Requests ==
    \A t \in Dynamic \ IsrSlots : state[t] # DELETED =>
        /\ asked[t] = "stop" <=> "SUSPENDED" \in state[t]
        /\ ~("SUSPENDED" \in state[t] /\ "RUNNABLE" \in state[t])
        /\ {"SUSPENDED", "RUNNABLE", "RUNNING"} \cap state[t] # {}

(* The history variable counts like the delay of a static timer.           *)
DueIsDelay == \A t \in Static : due[t] = delay[t]

(* A timer that passed the test for delay = 0 has a zero high byte.        *)
HighByteZero == pc \in {"mark", "mark2"} /\ i \in Static => delay[i] < ByteBase

IInv ==
    /\ TypeOK
    /\ IndexAtRest
    /\ StaticAlive
    /\ RunningOnlyCurrent
    /\ Fresh
    /\ ApiOnDynamic
    /\ RunningInRegister
    /\ StillRunnable
    /\ IsrPeriodic
    /\ Requests
    /\ OneshotAtMostOnce
    /\ DueIsDelay
    /\ HighByteZero

-----------------------------------------------------------------------------
(* The two bytes of a word.                                                *)

(* Splitting a delay into the two bytes the AVR loads loses nothing.       *)
LEMMA ByteSplit ==
    ASSUME NEW w \in Word
    PROVE  /\ Lo(w) \in 0 .. ByteBase - 1
           /\ Hi(w) \in 0 .. ByteBase - 1
           /\ w = ByteBase * Hi(w) + Lo(w)
<1> DEFINE b == ByteBase
           q == w \div b
           r == w % b
<1>1. b \in Nat /\ b > 1 /\ w \in Nat /\ w <= b * b - 1
  BY SchedulerAssumption DEF Word, SCHEDULER_INTERVAL_MAX
<1>2. q \in Int /\ r \in 0 .. b - 1 /\ w = b * q + r
  BY <1>1, SMT
<1>3. q >= 0
  <2>1. CASE q <= -1
    <3>1. b * q <= -b
      BY <1>1, <1>2, <2>1, SMT
    <3>2. QED
      BY <1>1, <1>2, <3>1, SMT
  <2>2. QED
    BY <1>2, <2>1, SMT
<1>4. q <= b - 1
  <2>1. CASE q >= b
    <3>1. b * q >= b * b
      BY <1>1, <1>2, <2>1, SMT
    <3>2. QED
      BY <1>1, <1>2, <3>1, SMT
  <2>2. QED
    BY <1>1, <1>2, <2>1, SMT
<1>5. QED
  BY <1>1, <1>2, <1>3, <1>4 DEF Lo, Hi

(* Any two bytes make a word: a torn delay is still a 16 bit value.        *)
LEMMA ByteJoin ==
    ASSUME NEW h \in 0 .. ByteBase - 1, NEW l \in 0 .. ByteBase - 1
    PROVE  ByteBase * h + l \in Word
<1>1. ByteBase \in Nat /\ ByteBase > 1
  BY SchedulerAssumption
<1>2. ByteBase * h <= ByteBase * (ByteBase - 1) /\ ByteBase * h >= 0 /\ ByteBase * h \in Int
  BY <1>1, SMT
<1>3. ByteBase * (ByteBase - 1) = ByteBase * ByteBase - ByteBase
  BY <1>1, SMT
<1>4. QED
  BY <1>1, <1>2, <1>3, SMT DEF Word, SCHEDULER_INTERVAL_MAX

(* A word whose two bytes, read at different times, both look like zero    *)
(* was below one byte when the high byte was read.                         *)
LEMMA ExpiredIsSmall ==
    ASSUME NEW w \in Word, NEW l \in 0 .. ByteBase - 1, Expired(l, Hi(w))
    PROVE  w < ByteBase
<1>1. ByteBase \in Nat /\ ByteBase > 1
  BY SchedulerAssumption
<1>2. Hi(w) \in 0 .. ByteBase - 1 /\ Lo(w) \in 0 .. ByteBase - 1 /\ w = ByteBase * Hi(w) + Lo(w)
  BY ByteSplit
<1>3. ByteBase * Hi(w) >= 0 /\ ByteBase * Hi(w) \in Int
  BY <1>1, <1>2, SMT
<1>4. ByteBase * Hi(w) = 0
  BY <1>3, SMT DEF Expired
<1>5. QED
  BY <1>1, <1>2, <1>4, SMT DEF Word, SCHEDULER_INTERVAL_MAX

-----------------------------------------------------------------------------
(* Type correctness.                                                       *)

(* Static timers come first, then the dynamic slots; they do not overlap.  *)
LEMMA TimersFacts ==
    /\ 0 \in Timers
    /\ Static \subseteq Timers
    /\ Dynamic \subseteq Timers
    /\ Static \cap Dynamic = {}
    /\ \A t \in Timers : t \in Static \/ t \in Dynamic
    /\ IsrSlots \subseteq Dynamic
    /\ \A t \in Timers : t \in Nat
  BY SchedulerAssumption DEF Timers, Static, Dynamic

(* The constants the code stores (SCHEDULER_INTERVAL_MAX, TIMER_DELETED)   *)
(* and the empty registers have the right types.                           *)
LEMMA RegisterType ==
    /\ NoReg \in [lo : 0 .. ByteBase - 1, st : SUBSET Flag, fn : API, which : Timers]
    /\ SCHEDULER_INTERVAL_MAX \in Word
    /\ 0 \in Word
    /\ DELETED \in SUBSET Flag
<1>1. ByteBase \in Nat /\ ByteBase > 1 /\ ByteBase * ByteBase \in Nat /\ ByteBase * ByteBase >= 1
  BY SchedulerAssumption, SMT
<1>2. QED
  BY <1>1, TimersFacts DEF NoReg, Registers, API, DELETED, Flag, Word, SCHEDULER_INTERVAL_MAX

(* Every initial state is well typed.                                      *)
LEMMA InitTypeOK == Init => TypeOK
<1> SUFFICES ASSUME Init PROVE TypeOK
  OBVIOUS
<1>1. state \in [Timers -> SUBSET Flag]
  BY TimersFacts DEF Init, Flag, DELETED
<1>2. delay \in [Timers -> Word] /\ interval \in [Timers -> Word] /\ due \in [Timers -> Word]
  BY TimersFacts, RegisterType, SchedulerAssumption DEF Init
<1>3. asked \in [Timers -> {"run", "stop", "gone"}] /\ runs \in [Timers -> 0 .. 2]
  BY DEF Init
<1>4. periodic_hz_tick \in 0 .. TicksPerHz - 1 /\ calls \in 0 .. MaxCalls
  BY SchedulerAssumption DEF Init
<1>5. QED
  BY <1>1, <1>2, <1>3, <1>4, TimersFacts, RegisterType, Zenon DEF Init, TypeOK, PC

(* Advance keeps the control state well typed.                             *)
LEMMA AdvanceType ==
    ASSUME TypeOK, Advance
    PROVE  /\ pc' \in PC
           /\ i' \in Timers
           /\ uip_buf_locked' \in BOOLEAN
           /\ reg' \in [lo : 0 .. ByteBase - 1, st : SUBSET Flag, fn : API, which : Timers]
  BY TimersFacts, RegisterType DEF TypeOK, Advance, HasNext, PC

(* Every step keeps the state well typed.  The delay stays a word because  *)
(* scheduler_tick does not decrement below zero, and a reset joins bytes   *)
(* of two words.                                                           *)
LEMMA NextTypeOK == TypeOK /\ [Next]_vars => TypeOK'
<1> SUFFICES ASSUME TypeOK, [Next]_vars PROVE TypeOK'
  OBVIOUS
<1> USE DEF TypeOK
<1>1. CASE Tick
  <2>1. periodic_hz_tick' \in 0 .. TicksPerHz - 1 /\ newtick' \in BOOLEAN
    <3>1. CASE periodic_hz_tick + 1 >= TicksPerHz
      BY <1>1, <3>1, SchedulerAssumption DEF Tick, HzOverflow
    <3>2. CASE ~(periodic_hz_tick + 1 >= TicksPerHz)
      <4>1. periodic_hz_tick' = periodic_hz_tick + 1 /\ newtick' = newtick
        BY <1>1, <3>2 DEF Tick, HzOverflow
      <4>2. periodic_hz_tick' \in 0 .. TicksPerHz - 1
        BY <4>1, <3>2, SchedulerAssumption
      <4>3. QED
        BY <4>1, <4>2
    <3>3. QED
      BY <3>1, <3>2
  <2>2. \A w \in Word : Decrement(w) \in Word
    BY SchedulerAssumption DEF Decrement, Word, SCHEDULER_INTERVAL_MAX
  <2>3. \A w \in Word : w > 0 => w - 1 \in Word
    BY SchedulerAssumption DEF Word, SCHEDULER_INTERVAL_MAX
  <2>4. delay' \in [Timers -> Word] /\ due' \in [Timers -> Word]
    BY <1>1, <2>2, <2>3 DEF Tick, scheduler_tick
  <2>5. QED
    BY <1>1, <2>1, <2>4 DEF Tick
<1>2. CASE NetLock \/ NetUnlock
  BY <1>2, Zenon DEF NetLock, NetUnlock, blocks, history
<1>3. CASE periodic_process
  BY <1>3, TimersFacts, Zenon DEF periodic_process, blocks, history, PC
<1>4. CASE CheckLow
  <2>1. CASE Ready(state[i])
    <3>1. Lo(delay[i]) \in 0 .. ByteBase - 1
      BY ByteSplit
    <3>2. QED
      BY <1>4, <2>1, <3>1, RegisterType, TimersFacts
      DEF CheckLow, Registers, API, DELETED, blocks, history, PC
  <2>2. CASE ~Ready(state[i])
    BY <1>4, <2>2, AdvanceType DEF CheckLow, blocks, history
  <2>3. QED
    BY <2>1, <2>2
<1>5. CASE CheckHigh
  BY <1>5, AdvanceType DEF CheckHigh, blocks, history, PC
<1>6. CASE LoadState("mark", "mark2") \/ LoadState("finish", "finish2")
  BY <1>6, SchedulerAssumption, TimersFacts DEF LoadState, Registers, API, blocks, history, PC
<1>7. CASE Invoke
  <2>1. (reg.st \ {"RUNNABLE"}) \cup {"RUNNING"} \in SUBSET Flag
    BY DEF Flag
  <2>2. state' \in [Timers -> SUBSET Flag] /\ runs' \in [Timers -> 0 .. 2]
    BY <1>7, <2>1 DEF Invoke
  <2>3. QED
    BY <1>7, <2>2, RegisterType DEF Invoke, PC
<1>8. CASE Return
  BY <1>8 DEF Return, blocks, history, PC
<1>9. CASE FinishStatic
  <2>1. Restarted(reg.st) \in SUBSET Flag
    BY DEF Restarted, Flag
  <2>2. StaticInterval[i] \in Word
    BY <1>9, SchedulerAssumption DEF FinishStatic
  <2>3. QED
    BY <1>9, <2>1, <2>2, AdvanceType DEF FinishStatic, Reload, Store
<1>10. CASE FinishDynamic
  <2>1. Restarted(reg.st) \in SUBSET Flag /\ Stopped(reg.st) \in SUBSET Flag
    BY DEF Restarted, Stopped, Flag
  <2>2. state' \in [Timers -> SUBSET Flag]
    BY <1>10, <2>1, RegisterType DEF FinishDynamic, Store
  <2>3. delay' \in [Timers -> Word] /\ due' \in [Timers -> Word]
    BY <1>10, RegisterType, SchedulerAssumption DEF FinishDynamic, Reload
  <2>4. asked' \in [Timers -> {"run", "stop", "gone"}]
    BY <1>10 DEF FinishDynamic
  <2>5. UNCHANGED <<interval, periodic_hz_tick, newtick, calls, runs>> /\ Advance
    BY <1>10 DEF FinishDynamic
  <2>6. QED
    BY <2>2, <2>3, <2>4, <2>5, AdvanceType
<1>11. CASE Api
  <2>0. MayCall => calls' \in 0 .. MaxCalls
    BY SchedulerAssumption DEF MayCall
  <2>1. ASSUME NEW d \in Word, NEW int \in Word, NEW flags \in SUBSET Flag, add_timer(d, int, flags)
        PROVE  TypeOK'
    <3>1. calls' \in 0 .. MaxCalls
      BY <2>1, <2>0 DEF add_timer
    <3>2. /\ state' \in [Timers -> SUBSET Flag]
          /\ delay' \in [Timers -> Word]
          /\ interval' \in [Timers -> Word]
          /\ due' \in [Timers -> Word]
          /\ asked' \in [Timers -> {"run", "stop", "gone"}]
          /\ runs' \in [Timers -> 0 .. 2]
      <4>1. PICK t \in Dynamic :
               /\ delay' = [delay EXCEPT ![t] = d]
               /\ interval' = [interval EXCEPT ![t] = int]
               /\ state' = [state EXCEPT ![t] = flags]
               /\ due' = [due EXCEPT ![t] = d]
               /\ asked' = [asked EXCEPT ![t] = IF "SUSPENDED" \in flags THEN "stop" ELSE "run"]
               /\ runs' = [runs EXCEPT ![t] = 0]
        BY <2>1, Zenon DEF add_timer, Reload, Store
      <4>2. state' \in [Timers -> SUBSET Flag]
        BY <4>1, Zenon
      <4>3. delay' \in [Timers -> Word] /\ interval' \in [Timers -> Word] /\ due' \in [Timers ->
            Word]
        BY <4>1, Zenon
      <4>4. asked' \in [Timers -> {"run", "stop", "gone"}] /\ runs' \in [Timers -> 0 .. 2]
        <5>1. (IF "SUSPENDED" \in flags THEN "stop" ELSE "run") \in {"run", "stop", "gone"}
          OBVIOUS
        <5>2. asked' \in [Timers -> {"run", "stop", "gone"}]
          BY <4>1, <5>1, Zenon
        <5>0. 0 \in 0 .. 2
          OBVIOUS
        <5>3. runs' \in [Timers -> 0 .. 2]
          BY <4>1, <5>0, Zenon
        <5>4. QED
          BY <5>2, <5>3
      <4>5. QED
        BY <4>2, <4>3, <4>4
    <3>3. UNCHANGED <<periodic_hz_tick, newtick, uip_buf_locked, pc, i, reg>>
      BY <2>1 DEF add_timer
    <3>4. QED
      BY <3>1, <3>2, <3>3
  <2>2. CASE scheduler_add_timer
    <3>1. {"SUSPENDED"} \in SUBSET Flag /\ {"RUNNABLE"} \in SUBSET Flag
      BY DEF Flag
    <3>2. QED
      BY <2>1, <2>2, <3>1, SchedulerAssumption DEF scheduler_add_timer
  <2>3. CASE scheduler_add_oneshot_timer
    <3>1. {"ONESHOT", "RUNNABLE"} \in SUBSET Flag
      BY DEF Flag
    <3>2. QED
      BY <2>1, <2>3, <3>1, RegisterType, SchedulerAssumption DEF scheduler_add_oneshot_timer
  <2>4. CASE scheduler_delete_timer
    <3>0. PICK t \in Mine :
             /\ Reload(t, SCHEDULER_INTERVAL_MAX)
             /\ Store(t, DELETED)
             /\ asked' = [asked EXCEPT ![t] = "gone"]
      BY <2>4 DEF scheduler_delete_timer
    <3>1. state' \in [Timers -> SUBSET Flag] /\ delay' \in [Timers -> Word]
      BY <3>0, RegisterType, Zenon DEF Reload, Store
    <3>2. asked' \in [Timers -> {"run", "stop", "gone"}]
      BY <3>0
    <3>3. UNCHANGED <<interval, periodic_hz_tick, newtick, uip_buf_locked, pc, i, reg, due, runs>>
      BY <2>4 DEF scheduler_delete_timer
    <3>4. QED
      BY <2>0, <2>4, <3>1, <3>2, <3>3 DEF scheduler_delete_timer
  <2>5. CASE scheduler_set_timer_interval
    <3>1. interval' \in [Timers -> Word]
      BY <2>5, SchedulerAssumption, Zenon DEF scheduler_set_timer_interval
    <3>2. QED
      BY <2>0, <2>5, <3>1 DEF scheduler_set_timer_interval, history
  <2>6. CASE ApiBegin
    <3>1. PICK t \in Mine, fn \in API :
             /\ reg' = Registers(0, state[t], fn, t)
             /\ IF fn = "reset"
                THEN Reload(t, ByteBase * Hi(interval[t]) + Lo(delay[t]))
                ELSE UNCHANGED delay
      BY <2>6 DEF ApiBegin
    <3>2. t \in Timers
      BY <3>1, TimersFacts DEF Mine
    <3>3. ByteBase * Hi(interval[t]) + Lo(delay[t]) \in Word
      BY <3>2, ByteSplit, ByteJoin
    <3>4. delay' \in [Timers -> Word]
      BY <3>1, <3>3 DEF Reload
    <3>5. reg' \in [lo : 0 .. ByteBase - 1, st : SUBSET Flag, fn : API, which : Timers]
      BY <3>1, <3>2, SchedulerAssumption DEF Registers
    <3>6. QED
      BY <2>6, <3>4, <3>5, SchedulerAssumption DEF ApiBegin, MayCall, history, PC
  <2>7. QED
    BY <1>11, <2>2, <2>3, <2>4, <2>5, <2>6 DEF Api
<1>12. CASE ApiEnd
  <2>1. NewState(reg.fn, reg.st) \in SUBSET Flag
    BY DEF NewState, Suspended, Resumed, Flag
  <2>2. ByteBase * Hi(delay[reg.which]) + Lo(interval[reg.which]) \in Word
    BY ByteSplit, ByteJoin
  <2>3. delay' \in [Timers -> Word] /\ due' \in [Timers -> Word]
    BY <1>12, <2>2 DEF ApiEnd, Reload
  <2>4. QED
    BY <1>12, <2>1, <2>3, RegisterType, Zenon DEF ApiEnd, Store, NewAsked, PC
<1>13. CASE IsrSuspend
  <2>1. \A t \in Timers : Suspended(state[t]) \in SUBSET Flag
    BY DEF Suspended, Flag
  <2>2. QED
    BY <1>13, <2>1, TimersFacts DEF IsrSuspend, Store
<1>14. CASE IsrReset
  <2>1. \A t \in Timers : Resumed(state[t]) \in SUBSET Flag
    BY DEF Resumed, Flag
  <2>2. QED
    BY <1>14, <2>1, TimersFacts, SchedulerAssumption DEF IsrReset, Store, Reload
<1>15. CASE UNCHANGED vars
  BY <1>15 DEF vars, blocks, history
<1>16. QED
  BY <1>1, <1>2, <1>3, <1>4, <1>5, <1>6, <1>7, <1>8, <1>9, <1>10, <1>11, <1>12, <1>13, <1>14, <1>15
  DEF Next, Dispatch

(* The timer control blocks, the loop index, the registers and the tick    *)
(* counters never leave the ranges their C types and loop bounds give      *)
(* them; in particular no delay underflows.                                *)
THEOREM TypeCorrect == Spec => []TypeOK
<1>1. QED
  BY InitTypeOK, NextTypeOK, PTL DEF Spec

-----------------------------------------------------------------------------
(* The inductive invariant.                                                *)

(* The invariant holds after reset: the generated control blocks are       *)
(* RUNNABLE, dynamic slots are free.                                       *)
LEMMA InitIInv == Init => IInv
  BY InitTypeOK, TimersFacts
  DEF Init, IInv, IndexAtRest, StaticAlive, RunningOnlyCurrent, Fresh, ApiOnDynamic,
    RunningInRegister, StillRunnable, IsrPeriodic, Requests, OneshotAtMostOnce, DueIsDelay,
    HighByteZero, Processing, InApi, DELETED

=============================================================================
