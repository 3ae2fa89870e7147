----------------------- MODULE SchedulerDispatchProofs -----------------------
(***************************************************************************)
(* Second part of the proofs about the scheduler: the tick, the network    *)
(* interrupts and every step of the dispatcher preserve IInv.              *)
(***************************************************************************)
EXTENDS SchedulerTypes

Dispatcher == Tick \/ NetLock \/ NetUnlock \/ periodic_process \/ Dispatch

(* scheduler_tick, uip_buf_lock, uip_buf_unlock, periodic_process and      *)
(* scheduler_dispatch_timer preserve the invariant.                        *)
LEMMA DispatcherIInv == IInv /\ Dispatcher => IInv'
<1> SUFFICES ASSUME IInv, Dispatcher PROVE IInv'
  OBVIOUS
<1>1. TypeOK'
  BY NextTypeOK DEF IInv, Next, Dispatcher
<1>2. state \in [Timers -> SUBSET Flag] /\ asked \in [Timers -> {"run", "stop", "gone"}] /\ runs \in
      [Timers -> 0 .. 2]
  BY DEF IInv, TypeOK
<1>3. delay \in [Timers -> Word] /\ due \in [Timers -> Word]
  BY DEF IInv, TypeOK
<1>4. i \in Timers /\ reg.st \in SUBSET Flag /\ reg.which \in Timers /\ reg.lo \in 0 .. ByteBase - 1
  BY DEF IInv, TypeOK
<1>5. CASE Tick
  <2>1. IndexAtRest' /\ ApiOnDynamic' /\ RunningInRegister'
    BY <1>2, <1>4, <1>5, TimersFacts
    DEF IInv, IndexAtRest, ApiOnDynamic, RunningInRegister, InApi, Tick, scheduler_tick
  <2>2. Fresh' /\ StillRunnable' /\ IsrPeriodic'
    BY <1>2, <1>4, <1>5, TimersFacts
    DEF IInv, Fresh, StillRunnable, IsrPeriodic, InApi, Tick, scheduler_tick
  <2>3. StaticAlive' /\ RunningOnlyCurrent'
    BY <1>2, <1>4, <1>5, TimersFacts
    DEF IInv, StaticAlive, RunningOnlyCurrent, Processing, Tick, scheduler_tick
  <2>4. Requests' /\ OneshotAtMostOnce'
    BY <1>2, <1>4, <1>5, TimersFacts
    DEF IInv, Requests, OneshotAtMostOnce, Processing, Tick, scheduler_tick
  <2>5. DueIsDelay'
    <3>1. \A t \in Timers : delay[t] \in Nat
      BY <1>3 DEF Word
    <3>2. QED
      BY <1>2, <1>3, <1>5, <3>1, TimersFacts
      DEF IInv, DueIsDelay, Tick, scheduler_tick, Counts, Decrement
  <2>6. HighByteZero'
    <3>1. \A t \in Timers : delay'[t] <= delay[t]
      BY <1>3, <1>5 DEF Word, Tick, scheduler_tick, Decrement
    <3>2. \A t \in Timers : delay[t] \in Int /\ delay'[t] \in Int
      BY <1>1, <1>3 DEF TypeOK, Word
    <3>3. QED
      BY <1>2, <1>3, <1>4, <1>5, <3>1, <3>2, SchedulerAssumption DEF IInv, HighByteZero, Tick
  <2>7. QED
    BY <1>1, <2>1, <2>2, <2>3, <2>4, <2>5, <2>6 DEF IInv
<1>6. CASE NetLock
  BY <1>1, <1>6, TimersFacts
  DEF IInv, IndexAtRest, StaticAlive, RunningOnlyCurrent, Fresh, ApiOnDynamic,
    RunningInRegister, StillRunnable, IsrPeriodic, Requests, OneshotAtMostOnce, DueIsDelay,
    HighByteZero, Processing, InApi, NetLock, blocks, history
<1>7. CASE NetUnlock
  BY <1>1, <1>7, TimersFacts
  DEF IInv, IndexAtRest, StaticAlive, RunningOnlyCurrent, Fresh, ApiOnDynamic,
    RunningInRegister, StillRunnable, IsrPeriodic, Requests, OneshotAtMostOnce, DueIsDelay,
    HighByteZero, Processing, InApi, NetUnlock, blocks, history
<1>8. CASE periodic_process
  BY <1>1, <1>8, TimersFacts, Zenon
  DEF IInv, IndexAtRest, StaticAlive, RunningOnlyCurrent, Fresh, ApiOnDynamic,
    RunningInRegister, StillRunnable, IsrPeriodic, Requests, OneshotAtMostOnce, DueIsDelay,
    HighByteZero, Processing, InApi, periodic_process, blocks, history
<1>9. CASE CheckLow
  <2>1. IndexAtRest' /\ ApiOnDynamic' /\ RunningInRegister'
    BY <1>2, <1>4, <1>9, TimersFacts
    DEF IInv, IndexAtRest, ApiOnDynamic, RunningInRegister, InApi, CheckLow, Ready, Advance,
      blocks, history, NoReg, Registers
  <2>2. Fresh' /\ StillRunnable' /\ IsrPeriodic'
    BY <1>2, <1>4, <1>9, TimersFacts
    DEF IInv, Fresh, StillRunnable, IsrPeriodic, InApi, CheckLow, Ready, Advance, blocks,
      history, NoReg, Registers
  <2>3. StaticAlive' /\ RunningOnlyCurrent'
    BY <1>2, <1>4, <1>9, TimersFacts, Zenon
    DEF IInv, StaticAlive, RunningOnlyCurrent, Processing, CheckLow, Ready, Advance, blocks,
      history, NoReg, Registers
  <2>4. Requests' /\ OneshotAtMostOnce'
    BY <1>2, <1>4, <1>9, TimersFacts
    DEF IInv, Requests, OneshotAtMostOnce, Processing, CheckLow, Ready, Advance, blocks,
      history, NoReg, Registers
  <2>5. DueIsDelay' /\ HighByteZero'
    BY <1>3, <1>4, <1>9, TimersFacts
    DEF IInv, DueIsDelay, HighByteZero, CheckLow, Ready, Advance, blocks, history, NoReg, Registers
  <2>6. QED
    BY <1>1, <2>1, <2>2, <2>3, <2>4, <2>5 DEF IInv
<1>10. CASE CheckHigh
  <2>1. IndexAtRest' /\ ApiOnDynamic' /\ RunningInRegister'
    BY <1>2, <1>4, <1>10, TimersFacts
    DEF IInv, IndexAtRest, ApiOnDynamic, RunningInRegister, InApi, CheckHigh, Advance, blocks,
      history, NoReg, Registers
  <2>2. Fresh' /\ StillRunnable' /\ IsrPeriodic'
    BY <1>2, <1>4, <1>10, TimersFacts
    DEF IInv, Fresh, StillRunnable, IsrPeriodic, InApi, CheckHigh, Advance, blocks, history,
      NoReg, Registers
  <2>3. StaticAlive' /\ RunningOnlyCurrent'
    BY <1>2, <1>4, <1>10, TimersFacts, Zenon
    DEF IInv, StaticAlive, RunningOnlyCurrent, Processing, CheckHigh, Advance, blocks, history,
      NoReg, Registers
  <2>4. Requests' /\ OneshotAtMostOnce'
    BY <1>2, <1>4, <1>10, TimersFacts
    DEF IInv, Requests, OneshotAtMostOnce, Processing, CheckHigh, Advance, blocks, history,
      NoReg, Registers
  <2>5. DueIsDelay'
    BY <1>3, <1>4, <1>10, TimersFacts
    DEF IInv, DueIsDelay, CheckHigh, Advance, blocks, history, NoReg, Registers
  <2>6. HighByteZero'
    <3>1. Expired(reg.lo, Hi(delay[i])) => delay[i] < ByteBase
      BY <1>3, <1>4, ExpiredIsSmall
    <3>2. QED
      BY <1>2, <1>3, <1>4, <1>10, <3>1 DEF IInv, HighByteZero, CheckHigh, Advance, blocks
  <2>7. QED
    BY <1>1, <2>1, <2>2, <2>3, <2>4, <2>5, <2>6 DEF IInv
<1>11. CASE LoadState("mark", "mark2")
  <2>1. IndexAtRest' /\ ApiOnDynamic'
    BY <1>2, <1>4, <1>11, TimersFacts
    DEF IInv, IndexAtRest, ApiOnDynamic, InApi, LoadState, Registers, blocks, history
  <2>2. Fresh' /\ StillRunnable' /\ IsrPeriodic'
    BY <1>2, <1>4, <1>11, TimersFacts
    DEF IInv, Fresh, StillRunnable, IsrPeriodic, InApi, LoadState, Registers, blocks, history
  <2>3. StaticAlive' /\ RunningOnlyCurrent'
    BY <1>2, <1>4, <1>11, TimersFacts
    DEF IInv, StaticAlive, RunningOnlyCurrent, Processing, LoadState, Registers, blocks, history
  <2>4. Requests' /\ OneshotAtMostOnce'
    BY <1>2, <1>4, <1>11, TimersFacts
    DEF IInv, Requests, OneshotAtMostOnce, Processing, LoadState, Registers, blocks, history
  <2>5. DueIsDelay' /\ HighByteZero'
    BY <1>3, <1>4, <1>11, TimersFacts
    DEF IInv, DueIsDelay, HighByteZero, LoadState, Registers, blocks, history
  <2>6. RunningInRegister'
    BY <1>2, <1>3, <1>4, <1>11
    DEF IInv, RunningInRegister, RunningOnlyCurrent, Processing, InApi, LoadState, Registers
  <2>7. QED
    BY <1>1, <2>1, <2>2, <2>3, <2>4, <2>5, <2>6 DEF IInv
<1>12. CASE LoadState("finish", "finish2")
  <2>1. IndexAtRest' /\ ApiOnDynamic' /\ RunningInRegister'
    BY <1>2, <1>4, <1>12, TimersFacts
    DEF IInv, IndexAtRest, ApiOnDynamic, RunningInRegister, InApi, LoadState, Registers, blocks,
      history
  <2>2. Fresh' /\ StillRunnable' /\ IsrPeriodic'
    BY <1>2, <1>4, <1>12, TimersFacts
    DEF IInv, Fresh, StillRunnable, IsrPeriodic, InApi, LoadState, Registers, blocks, history
  <2>3. StaticAlive' /\ RunningOnlyCurrent'
    BY <1>2, <1>4, <1>12, TimersFacts
    DEF IInv, StaticAlive, RunningOnlyCurrent, Processing, LoadState, Registers, blocks, history
  <2>4. Requests' /\ OneshotAtMostOnce'
    BY <1>2, <1>4, <1>12, TimersFacts
    DEF IInv, Requests, OneshotAtMostOnce, Processing, LoadState, Registers, blocks, history
  <2>5. DueIsDelay' /\ HighByteZero'
    BY <1>3, <1>4, <1>12, TimersFacts
    DEF IInv, DueIsDelay, HighByteZero, LoadState, Registers, blocks, history
  <2>6. QED
    BY <1>1, <2>1, <2>2, <2>3, <2>4, <2>5 DEF IInv
<1>13. CASE Invoke
  <2>1. IndexAtRest' /\ ApiOnDynamic' /\ RunningInRegister'
    BY <1>2, <1>4, <1>13, TimersFacts
    DEF IInv, IndexAtRest, ApiOnDynamic, RunningInRegister, InApi, Invoke, NoReg, Registers
  <2>2. Fresh' /\ StillRunnable'
    BY <1>2, <1>4, <1>13, TimersFacts
    DEF IInv, Fresh, StillRunnable, InApi, Invoke, NoReg, Registers
  <2>3. RunningOnlyCurrent'
    BY <1>2, <1>4, <1>13, TimersFacts
    DEF IInv, RunningOnlyCurrent, Processing, Invoke, NoReg, Registers
  <2>4. DueIsDelay' /\ HighByteZero'
    BY <1>3, <1>4, <1>13, TimersFacts
    DEF IInv, DueIsDelay, HighByteZero, Invoke, NoReg, Registers
  <2>5. StaticAlive'
    <3>1. i \in Static => reg.st = {"RUNNABLE"}
      BY <1>13, TimersFacts DEF IInv, StaticAlive, Fresh, Processing, Invoke
    <3>2. ({"RUNNABLE"} \ {"RUNNABLE"}) \cup {"RUNNING"} = {"RUNNING"}
      OBVIOUS
    <3>3. QED
      BY <1>2, <1>3, <1>4, <1>13, <3>1, <3>2, TimersFacts, Zenon DEF IInv, StaticAlive, Processing, Invoke
  <2>6. IsrPeriodic'
    BY <1>2, <1>3, <1>4, <1>13, TimersFacts
    DEF IInv, IsrPeriodic, InApi, DELETED, Invoke, NoReg, Registers
  <2>7. Requests'
    BY <1>2, <1>3, <1>4, <1>13, TimersFacts
    DEF IInv, Requests, Fresh, StillRunnable, DELETED, Invoke
  <2>8. OneshotAtMostOnce'
    <3>1. "ONESHOT" \in reg.st => i \notin IsrSlots
      BY <1>13 DEF IInv, IsrPeriodic, Invoke
    <3>2. "ONESHOT" \in reg.st /\ i \in Dynamic => runs[i] = 0
      BY <1>13, <3>1 DEF IInv, OneshotAtMostOnce, Fresh, Processing, Invoke
    <3>3. QED
      BY <1>2, <1>3, <1>4, <1>13, <3>2, TimersFacts
      DEF IInv, OneshotAtMostOnce, RunningOnlyCurrent, Processing, Invoke
  <2>9. QED
    BY <1>1, <2>1, <2>2, <2>3, <2>4, <2>5, <2>6, <2>7, <2>8 DEF IInv
<1>14. CASE Return
  BY <1>1, <1>14, TimersFacts
  DEF IInv, IndexAtRest, StaticAlive, RunningOnlyCurrent, Fresh, ApiOnDynamic,
    RunningInRegister, StillRunnable, IsrPeriodic, Requests, OneshotAtMostOnce, DueIsDelay,
    HighByteZero, Processing, InApi, Return, blocks, history
<1>15. CASE FinishStatic
  <2>1. IndexAtRest' /\ ApiOnDynamic' /\ RunningInRegister'
    BY <1>2, <1>4, <1>15, TimersFacts
    DEF IInv, IndexAtRest, ApiOnDynamic, RunningInRegister, InApi, FinishStatic, Restarted,
      Store, Reload, Advance, NoReg, Registers
  <2>2. Fresh' /\ StillRunnable' /\ IsrPeriodic'
    BY <1>2, <1>4, <1>15, TimersFacts
    DEF IInv, Fresh, StillRunnable, IsrPeriodic, InApi, FinishStatic, Restarted, Store, Reload,
      Advance, NoReg, Registers
  <2>3. RunningOnlyCurrent'
    BY <1>2, <1>4, <1>15, TimersFacts
    DEF IInv, RunningOnlyCurrent, Processing, FinishStatic, Restarted, Store, Reload, Advance,
      NoReg, Registers
  <2>4. Requests' /\ OneshotAtMostOnce'
    BY <1>2, <1>4, <1>15, TimersFacts
    DEF IInv, Requests, OneshotAtMostOnce, Processing, FinishStatic, Restarted, Store, Reload,
      Advance, NoReg, Registers
  <2>5. DueIsDelay' /\ HighByteZero'
    BY <1>3, <1>4, <1>15, TimersFacts
    DEF IInv, DueIsDelay, HighByteZero, FinishStatic, Restarted, Store, Reload, Advance, NoReg,
      Registers
  <2>6. StaticAlive'
    <3>1. reg.st = {"RUNNING"}
      BY <1>15, TimersFacts DEF IInv, StaticAlive, Fresh, Processing, FinishStatic
    <3>2. Restarted({"RUNNING"}) = {"RUNNABLE"}
      BY DEF Restarted
    <3>3. QED
      BY <1>2, <1>3, <1>4, <1>15, <3>1, <3>2, TimersFacts, Zenon
      DEF IInv, StaticAlive, Processing, FinishStatic, Store, Advance
  <2>7. QED
    BY <1>1, <2>1, <2>2, <2>3, <2>4, <2>5, <2>6 DEF IInv
<1>16. CASE FinishDynamic
  <2>1. IndexAtRest' /\ ApiOnDynamic' /\ RunningInRegister'
    BY <1>2, <1>4, <1>16, TimersFacts
    DEF IInv, IndexAtRest, ApiOnDynamic, RunningInRegister, InApi, FinishDynamic, AutoDelete,
      MayRestart, Stopped, Restarted, Store, Reload, Advance, NoReg, Registers, DELETED
  <2>2. Fresh' /\ StillRunnable'
    BY <1>2, <1>4, <1>16, TimersFacts
    DEF IInv, Fresh, StillRunnable, InApi, FinishDynamic, AutoDelete, MayRestart, Stopped,
      Restarted, Store, Reload, Advance, NoReg, Registers, DELETED
  <2>3. StaticAlive' /\ RunningOnlyCurrent'
    BY <1>2, <1>4, <1>16, TimersFacts
    DEF IInv, StaticAlive, RunningOnlyCurrent, Processing, FinishDynamic, AutoDelete,
      MayRestart, Stopped, Restarted, Store, Reload, Advance, NoReg, Registers, DELETED
  <2>4. OneshotAtMostOnce'
    BY <1>2, <1>4, <1>16, TimersFacts
    DEF IInv, OneshotAtMostOnce, Processing, FinishDynamic, AutoDelete, MayRestart, Stopped,
      Restarted, Store, Reload, Advance, NoReg, Registers, DELETED
  <2>5. DueIsDelay' /\ HighByteZero'
    BY <1>3, <1>4, <1>16, TimersFacts
    DEF IInv, DueIsDelay, HighByteZero, FinishDynamic, AutoDelete, MayRestart, Stopped,
      Restarted, Store, Reload, Advance, NoReg, Registers, DELETED
  <2>6. IsrPeriodic'
    <3>1. i \in IsrSlots => reg.st # DELETED /\ "ONESHOT" \notin reg.st
      BY <1>16 DEF IInv, IsrPeriodic, FinishDynamic
    <3>2. i \in IsrSlots => state'[i] # DELETED /\ "ONESHOT" \notin state'[i]
      <4>1. CASE MayRestart(reg.st)
        <5>1. i \in IsrSlots => state'[i] = (reg.st \ {"RUNNING"}) \cup {"RUNNABLE"}
          BY <1>2, <1>4, <1>16, <3>1, <4>1 DEF FinishDynamic, AutoDelete, Restarted, Store
        <5>2. QED
          BY <3>1, <5>1 DEF DELETED
      <4>2. CASE ~MayRestart(reg.st)
        <5>1. i \in IsrSlots => "SUSPENDED" \in reg.st /\ state'[i] = reg.st \ {"RUNNING"}
          BY <1>2, <1>4, <1>16, <3>1, <4>2 DEF FinishDynamic, AutoDelete, MayRestart, Stopped, Store
        <5>2. QED
          BY <3>1, <5>1 DEF DELETED
      <4>3. QED
        BY <4>1, <4>2
    <3>3. \A t \in Timers \ {i} : state'[t] = state[t]
      BY <1>2, <1>4, <1>16 DEF FinishDynamic, Store
    <3>4. pc' \in {"lo", "main"}
      BY <1>16 DEF FinishDynamic, Advance
    <3>5. QED
      BY <3>2, <3>3, <3>4, TimersFacts DEF IInv, IsrPeriodic, InApi
  <2>7. Requests'
    BY <1>2, <1>3, <1>4, <1>16, TimersFacts
    DEF IInv, Requests, Fresh, FinishDynamic, AutoDelete, MayRestart, Stopped, Restarted,
        Store, DELETED
  <2>8. QED
    BY <1>1, <2>1, <2>2, <2>3, <2>4, <2>5, <2>6, <2>7 DEF IInv
<1>17. QED
  BY <1>5, <1>6, <1>7, <1>8, <1>9, <1>10, <1>11, <1>12, <1>13, <1>14, <1>15, <1>16
  DEF Dispatcher, Dispatch

=============================================================================
