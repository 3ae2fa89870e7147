--------------------------- MODULE SchedulerProofs ---------------------------
(***************************************************************************)
(* Third part of the proofs about the scheduler: the dynamic timer API and *)
(* the receiver interrupt preserve IInv, and the theorems, for every       *)
(* number of timers, every interval and every word size.                   *)
(***************************************************************************)
EXTENDS SchedulerDispatchProofs

Callers == Api \/ ApiEnd \/ IsrSuspend \/ IsrReset

(* The functions of dynamic.c, called by main loop code or by the FS20     *)
(* receiver interrupt, preserve the invariant.                             *)
LEMMA CallersIInv == IInv /\ Callers => IInv'
<1> SUFFICES ASSUME IInv, Callers PROVE IInv'
  OBVIOUS
<1>1. TypeOK'
  BY NextTypeOK DEF IInv, Next, Callers
<1>2. state \in [Timers -> SUBSET Flag] /\ asked \in [Timers -> {"run", "stop", "gone"}] /\ runs \in
      [Timers -> 0 .. 2]
  BY DEF IInv, TypeOK
<1>3. delay \in [Timers -> Word] /\ due \in [Timers -> Word]
  BY DEF IInv, TypeOK
<1>4. i \in Timers /\ reg.st \in SUBSET Flag /\ reg.which \in Timers /\ reg.lo \in 0 .. ByteBase - 1
  BY DEF IInv, TypeOK
<1>5. CASE scheduler_add_timer
  <2>1. IndexAtRest' /\ ApiOnDynamic' /\ RunningInRegister'
    BY <1>2, <1>4, <1>5, TimersFacts
    DEF IInv, IndexAtRest, ApiOnDynamic, RunningInRegister, InApi, scheduler_add_timer,
      add_timer, MayCall, Free, Store, Reload, DELETED
  <2>2. Fresh' /\ StillRunnable' /\ IsrPeriodic'
    BY <1>2, <1>4, <1>5, TimersFacts
    DEF IInv, Fresh, StillRunnable, IsrPeriodic, InApi, scheduler_add_timer, add_timer, MayCall,
      Free, Store, Reload, DELETED
  <2>3. StaticAlive' /\ RunningOnlyCurrent'
    BY <1>2, <1>4, <1>5, TimersFacts
    DEF IInv, StaticAlive, RunningOnlyCurrent, Processing, scheduler_add_timer, add_timer,
      MayCall, Free, Store, Reload, DELETED
  <2>4. OneshotAtMostOnce'
    BY <1>2, <1>4, <1>5, TimersFacts
    DEF IInv, OneshotAtMostOnce, Processing, scheduler_add_timer, add_timer, MayCall, Free,
      Store, Reload, DELETED
  <2>5. DueIsDelay' /\ HighByteZero'
    BY <1>3, <1>4, <1>5, TimersFacts
    DEF IInv, DueIsDelay, HighByteZero, scheduler_add_timer, add_timer, MayCall, Free, Store,
      Reload, DELETED
  <2>6. Requests'
    <3>1. PICK t \in Dynamic, stop \in BOOLEAN :
             /\ state' = [state EXCEPT ![t] = IF stop THEN {"SUSPENDED"} ELSE {"RUNNABLE"}]
             /\ asked' = [asked EXCEPT ![t] = IF stop THEN "stop" ELSE "run"]
      BY <1>5, Zenon DEF scheduler_add_timer, add_timer, Store
    <3>2. QED
      BY <1>2, <3>1, TimersFacts DEF IInv, Requests
  <2>7. QED
    BY <1>1, <2>1, <2>2, <2>3, <2>4, <2>5, <2>6 DEF IInv
<1>6. CASE scheduler_add_oneshot_timer
  <2>1. IndexAtRest' /\ ApiOnDynamic' /\ RunningInRegister'
    BY <1>2, <1>4, <1>6, TimersFacts
    DEF IInv, IndexAtRest, ApiOnDynamic, RunningInRegister, InApi, scheduler_add_oneshot_timer,
      add_timer, MayCall, Free, Store, Reload, DELETED
  <2>2. Fresh' /\ StillRunnable' /\ IsrPeriodic'
    BY <1>2, <1>4, <1>6, TimersFacts
    DEF IInv, Fresh, StillRunnable, IsrPeriodic, InApi, scheduler_add_oneshot_timer, add_timer,
      MayCall, Free, Store, Reload, DELETED
  <2>3. StaticAlive' /\ RunningOnlyCurrent'
    BY <1>2, <1>4, <1>6, TimersFacts
    DEF IInv, StaticAlive, RunningOnlyCurrent, Processing, scheduler_add_oneshot_timer,
      add_timer, MayCall, Free, Store, Reload, DELETED
  <2>4. Requests' /\ OneshotAtMostOnce'
    <3>1. PICK t \in Dynamic :
             /\ state' = [state EXCEPT ![t] = {"ONESHOT", "RUNNABLE"}]
             /\ asked' = [asked EXCEPT ![t] = IF "SUSPENDED" \in {"ONESHOT", "RUNNABLE"} THEN "stop" ELSE "run"]
             /\ runs' = [runs EXCEPT ![t] = 0]
      BY <1>6, Zenon DEF scheduler_add_oneshot_timer, add_timer, Store
    <3>2. asked'[t] = "run" /\ \A u \in Timers \ {t} : asked'[u] = asked[u]
      BY <1>2, <3>1, TimersFacts
    <3>3. UNCHANGED <<pc, i>>
      BY <1>6 DEF scheduler_add_oneshot_timer, add_timer
    <3>4. Requests'
      BY <1>2, <3>1, <3>2, TimersFacts DEF IInv, Requests
    <3>5. OneshotAtMostOnce'
      BY <1>2, <3>1, <3>3, TimersFacts DEF IInv, OneshotAtMostOnce
    <3>6. QED
      BY <3>4, <3>5
  <2>5. DueIsDelay' /\ HighByteZero'
    BY <1>3, <1>4, <1>6, TimersFacts
    DEF IInv, DueIsDelay, HighByteZero, scheduler_add_oneshot_timer, add_timer, MayCall, Free,
      Store, Reload, DELETED
  <2>6. QED
    BY <1>1, <2>1, <2>2, <2>3, <2>4, <2>5 DEF IInv
<1>7. CASE scheduler_delete_timer
  <2>1. IndexAtRest' /\ ApiOnDynamic' /\ RunningInRegister'
    BY <1>2, <1>4, <1>7, TimersFacts
    DEF IInv, IndexAtRest, ApiOnDynamic, RunningInRegister, InApi, scheduler_delete_timer, Mine,
      MayCall, Store, Reload, history, DELETED
  <2>2. Fresh' /\ StillRunnable' /\ IsrPeriodic'
    BY <1>2, <1>4, <1>7, TimersFacts
    DEF IInv, Fresh, StillRunnable, IsrPeriodic, InApi, scheduler_delete_timer, Mine, MayCall,
      Store, Reload, history, DELETED
  <2>3. StaticAlive' /\ RunningOnlyCurrent'
    BY <1>2, <1>4, <1>7, TimersFacts
    DEF IInv, StaticAlive, RunningOnlyCurrent, Processing, scheduler_delete_timer, Mine,
      MayCall, Store, Reload, history, DELETED
  <2>4. Requests' /\ OneshotAtMostOnce'
    BY <1>2, <1>4, <1>7, TimersFacts
    DEF IInv, Requests, OneshotAtMostOnce, Processing, scheduler_delete_timer, Mine, MayCall,
      Store, Reload, history, DELETED
  <2>5. DueIsDelay' /\ HighByteZero'
    BY <1>3, <1>4, <1>7, TimersFacts
    DEF IInv, DueIsDelay, HighByteZero, scheduler_delete_timer, Mine, MayCall, Store, Reload,
      history, DELETED
  <2>6. QED
    BY <1>1, <2>1, <2>2, <2>3, <2>4, <2>5 DEF IInv
<1>8. CASE scheduler_set_timer_interval
  BY <1>1, <1>8, TimersFacts, Zenon
  DEF IInv, IndexAtRest, StaticAlive, RunningOnlyCurrent, Fresh, ApiOnDynamic,
    RunningInRegister, StillRunnable, IsrPeriodic, Requests, OneshotAtMostOnce, DueIsDelay,
    HighByteZero, Processing, InApi, scheduler_set_timer_interval, MayCall, history
<1>9. CASE ApiBegin
  <2>1. IndexAtRest' /\ ApiOnDynamic'
    BY <1>2, <1>4, <1>9, TimersFacts
    DEF IInv, IndexAtRest, ApiOnDynamic, InApi, ApiBegin, Mine, MayCall, Reload, Registers,
      history, DELETED
  <2>2. Fresh' /\ StillRunnable' /\ IsrPeriodic'
    BY <1>2, <1>4, <1>9, TimersFacts
    DEF IInv, Fresh, StillRunnable, IsrPeriodic, InApi, ApiBegin, Mine, MayCall, Reload,
      Registers, history, DELETED
  <2>3. StaticAlive' /\ RunningOnlyCurrent'
    BY <1>2, <1>4, <1>9, TimersFacts
    DEF IInv, StaticAlive, RunningOnlyCurrent, Processing, ApiBegin, Mine, MayCall, Reload,
      Registers, history, DELETED
  <2>4. Requests' /\ OneshotAtMostOnce'
    BY <1>2, <1>4, <1>9, TimersFacts
    DEF IInv, Requests, OneshotAtMostOnce, Processing, ApiBegin, Mine, MayCall, Reload,
      Registers, history, DELETED
  <2>5. DueIsDelay' /\ HighByteZero'
    BY <1>3, <1>4, <1>9, TimersFacts
    DEF IInv, DueIsDelay, HighByteZero, ApiBegin, Mine, MayCall, Reload, Registers, history, DELETED
  <2>6. RunningInRegister'
    BY <1>2, <1>3, <1>4, <1>9, TimersFacts
    DEF IInv, RunningInRegister, RunningOnlyCurrent, Processing, InApi, ApiBegin, Mine,
        MayCall, Registers
  <2>7. QED
    BY <1>1, <2>1, <2>2, <2>3, <2>4, <2>5, <2>6 DEF IInv
<1>10. CASE ApiEnd
  <2>1. IndexAtRest' /\ ApiOnDynamic' /\ RunningInRegister'
    BY <1>2, <1>4, <1>10, TimersFacts
    DEF IInv, IndexAtRest, ApiOnDynamic, RunningInRegister, InApi, ApiEnd, Store, Reload,
      NewState, NewAsked, Suspended, Resumed, NoReg, Registers, DELETED
  <2>2. Fresh' /\ StillRunnable' /\ IsrPeriodic'
    BY <1>2, <1>4, <1>10, TimersFacts, Zenon
    DEF IInv, Fresh, StillRunnable, IsrPeriodic, InApi, ApiEnd, Store, Reload, NewState,
      NewAsked, Suspended, Resumed, NoReg, Registers, DELETED
  <2>3. Requests'
    BY <1>2, <1>4, <1>10, TimersFacts, Zenon
    DEF IInv, Requests, ApiEnd, Store, Reload, NewState, NewAsked, Suspended, Resumed, NoReg,
      Registers, DELETED
  <2>4. HighByteZero'
    BY <1>3, <1>4, <1>10, TimersFacts
    DEF IInv, HighByteZero, ApiEnd
  <2>5. StaticAlive'
    BY <1>2, <1>3, <1>4, <1>10, TimersFacts
    DEF IInv, StaticAlive, ApiOnDynamic, InApi, Processing, ApiEnd, Store
  <2>6. RunningOnlyCurrent'
    BY <1>2, <1>3, <1>4, <1>10, TimersFacts
    DEF IInv, RunningOnlyCurrent, RunningInRegister, InApi, Processing, ApiEnd, Store,
        NewState, Suspended, Resumed
  <2>7. OneshotAtMostOnce'
    BY <1>2, <1>3, <1>4, <1>10, TimersFacts, Zenon
    DEF IInv, OneshotAtMostOnce, Fresh, IsrPeriodic, ApiOnDynamic, RunningInRegister, InApi,
        Processing, ApiEnd, Store, NewState, Suspended, Resumed
  <2>8. DueIsDelay'
    <3>1. reg.which \notin Static
      BY <1>10, TimersFacts DEF IInv, ApiOnDynamic, InApi, ApiEnd
    <3>2. \A t \in Static : delay'[t] = delay[t] /\ due'[t] = due[t]
      BY <1>3, <1>10, <3>1, TimersFacts DEF ApiEnd, Reload
    <3>3. QED
      BY <3>2 DEF IInv, DueIsDelay
  <2>9. QED
    BY <1>1, <2>1, <2>2, <2>3, <2>4, <2>5, <2>6, <2>7, <2>8 DEF IInv
<1>11. CASE IsrSuspend
  <2>1. IndexAtRest' /\ ApiOnDynamic' /\ RunningInRegister'
    BY <1>2, <1>4, <1>11, TimersFacts
    DEF IInv, IndexAtRest, ApiOnDynamic, RunningInRegister, InApi, IsrSuspend, Store, Suspended,
      DELETED
  <2>2. Fresh' /\ StillRunnable' /\ IsrPeriodic'
    BY <1>2, <1>4, <1>11, TimersFacts
    DEF IInv, Fresh, StillRunnable, IsrPeriodic, InApi, IsrSuspend, Store, Suspended, DELETED
  <2>3. StaticAlive' /\ RunningOnlyCurrent'
    BY <1>2, <1>4, <1>11, TimersFacts
    DEF IInv, StaticAlive, RunningOnlyCurrent, Processing, IsrSuspend, Store, Suspended, DELETED
  <2>4. Requests' /\ OneshotAtMostOnce'
    BY <1>2, <1>4, <1>11, TimersFacts
    DEF IInv, Requests, OneshotAtMostOnce, Processing, IsrSuspend, Store, Suspended, DELETED
  <2>5. DueIsDelay' /\ HighByteZero'
    BY <1>3, <1>4, <1>11, TimersFacts
    DEF IInv, DueIsDelay, HighByteZero, IsrSuspend, Store, Suspended, DELETED
  <2>6. QED
    BY <1>1, <2>1, <2>2, <2>3, <2>4, <2>5 DEF IInv
<1>12. CASE IsrReset
  <2>1. IndexAtRest' /\ ApiOnDynamic' /\ RunningInRegister'
    BY <1>2, <1>4, <1>12, TimersFacts
    DEF IInv, IndexAtRest, ApiOnDynamic, RunningInRegister, InApi, IsrReset, Store, Reload,
      Resumed, DELETED
  <2>2. Fresh' /\ StillRunnable' /\ IsrPeriodic'
    BY <1>2, <1>4, <1>12, TimersFacts
    DEF IInv, Fresh, StillRunnable, IsrPeriodic, InApi, IsrReset, Store, Reload, Resumed, DELETED
  <2>3. StaticAlive' /\ RunningOnlyCurrent'
    BY <1>2, <1>4, <1>12, TimersFacts
    DEF IInv, StaticAlive, RunningOnlyCurrent, Processing, IsrReset, Store, Reload, Resumed, DELETED
  <2>4. Requests' /\ OneshotAtMostOnce'
    BY <1>2, <1>4, <1>12, TimersFacts
    DEF IInv, Requests, OneshotAtMostOnce, Processing, IsrReset, Store, Reload, Resumed, DELETED
  <2>5. DueIsDelay' /\ HighByteZero'
    <3>1. \A t \in Static : t \notin IsrSlots
      BY TimersFacts
    <3>2. \A t \in Static : delay'[t] = delay[t] /\ due'[t] = due[t]
      BY <1>3, <1>12, <3>1, TimersFacts DEF IsrReset, Reload
    <3>3. pc' = pc /\ i' = i
      BY <1>12 DEF IsrReset
    <3>4. QED
      BY <3>2, <3>3 DEF IInv, DueIsDelay, HighByteZero
  <2>6. QED
    BY <1>1, <2>1, <2>2, <2>3, <2>4, <2>5 DEF IInv
<1>13. QED
  BY <1>5, <1>6, <1>7, <1>8, <1>9, <1>10, <1>11, <1>12 DEF Callers, Api

(* Every step preserves the relation between registers and memory, and     *)
(* with it the safety properties.                                          *)
LEMMA NextIInv == IInv /\ [Next]_vars => IInv'
<1> SUFFICES ASSUME IInv, [Next]_vars PROVE IInv'
  OBVIOUS
<1>1. CASE Dispatcher
  BY <1>1, DispatcherIInv
<1>2. CASE Callers
  BY <1>2, CallersIInv
<1>3. CASE UNCHANGED vars
  <2>1. TypeOK'
    BY NextTypeOK DEF IInv
  <2>2. QED
    BY <1>3, <2>1, TimersFacts, Zenon
    DEF IInv, IndexAtRest, StaticAlive, RunningOnlyCurrent, Fresh, ApiOnDynamic,
      RunningInRegister, StillRunnable, IsrPeriodic, Requests, OneshotAtMostOnce, DueIsDelay,
      HighByteZero, Processing, InApi, vars, blocks, history
<1>4. QED
  BY <1>1, <1>2, <1>3 DEF Next, Dispatcher, Callers

(* The invariant holds in every reachable state of the scheduler.          *)
LEMMA Inductive == Spec => []IInv
<1>1. QED
  BY InitIInv, NextIInv, PTL DEF Spec

(* A control block is free exactly when its timer was deleted.             *)
Gone == \A t \in Dynamic \ IsrSlots : asked[t] = "gone" <=> state[t] = DELETED

(* A timer that is being invoked or finished has a control block, unless   *)
(* its function deleted it: no step of the dispatcher revives a deleted    *)
(* timer, and only a delete or the end of a one-shot timer frees a block.  *)
LEMMA NextGone == IInv /\ Gone /\ [Next]_vars => Gone'
<1> SUFFICES ASSUME IInv, Gone, [Next]_vars PROVE Gone'
  OBVIOUS
<1>1. state \in [Timers -> SUBSET Flag] /\ asked \in [Timers -> {"run", "stop", "gone"}] /\ i \in Timers
  BY DEF IInv, TypeOK
<1>2. CASE Tick \/ NetLock \/ NetUnlock \/ periodic_process
  BY <1>2 DEF Gone, Tick, NetLock, NetUnlock, periodic_process, blocks, history
<1>3. CASE CheckLow \/ CheckHigh \/ LoadState("mark", "mark2") \/ Return \/ LoadState("finish", "finish2")
  BY <1>3 DEF Gone, CheckLow, CheckHigh, LoadState, Return, blocks, history
<1>4. CASE Invoke
  <2>1. state' = [state EXCEPT ![i] = (reg.st \ {"RUNNABLE"}) \cup {"RUNNING"}] /\ asked' = asked
    BY <1>4 DEF Invoke
  <2>2. state'[i] # DELETED
    BY <1>1, <2>1 DEF DELETED
  <2>3. i \notin IsrSlots => state[i] # DELETED
    BY <1>4 DEF Invoke, IInv, StillRunnable, DELETED
  <2>4. QED
    BY <1>1, <2>1, <2>2, <2>3, TimersFacts DEF Gone
<1>5. CASE FinishStatic
  BY <1>1, <1>5, TimersFacts DEF Gone, FinishStatic, Store
<1>6. CASE FinishDynamic
  <2>1. i \notin IsrSlots => reg.st = state[i]
    BY <1>6 DEF IInv, Fresh, FinishDynamic
  <2>2. \/ state' = [state EXCEPT ![i] = DELETED] /\ asked' = [asked EXCEPT ![i] = "gone"]
        \/ /\ MayRestart(reg.st) /\ asked' = asked
           /\ state' = [state EXCEPT ![i] = Restarted(reg.st)]
        \/ /\ ~MayRestart(reg.st) /\ asked' = asked
           /\ state' = [state EXCEPT ![i] = Stopped(reg.st)]
    BY <1>6 DEF FinishDynamic, Store
  <2>3. MayRestart(reg.st) => reg.st # DELETED /\ Restarted(reg.st) # DELETED
    BY DEF MayRestart, Restarted, DELETED
  <2>4. ~MayRestart(reg.st) => (reg.st = DELETED <=> Stopped(reg.st) = DELETED)
    BY DEF MayRestart, Stopped, DELETED
  <2>5. QED
    BY <1>1, <2>1, <2>2, <2>3, <2>4, TimersFacts DEF Gone
<1>7. CASE scheduler_add_timer \/ scheduler_add_oneshot_timer
  <2>1. PICK t \in Dynamic, flags \in SUBSET Flag :
           /\ flags # DELETED
           /\ state' = [state EXCEPT ![t] = flags]
           /\ asked' = [asked EXCEPT ![t] = IF "SUSPENDED" \in flags THEN "stop" ELSE "run"]
    <3>1. ASSUME NEW d, NEW int, NEW flags \in SUBSET Flag, flags # DELETED, add_timer(d, int, flags)
          PROVE  \E t \in Dynamic, f \in SUBSET Flag :
                    /\ f # DELETED
                    /\ state' = [state EXCEPT ![t] = f]
                    /\ asked' = [asked EXCEPT ![t] = IF "SUSPENDED" \in f THEN "stop" ELSE "run"]
      BY <3>1, Zenon DEF add_timer, Store
    <3>2. /\ {"SUSPENDED"} \in SUBSET Flag /\ {"RUNNABLE"} \in SUBSET Flag
          /\ {"ONESHOT", "RUNNABLE"} \in SUBSET Flag
          /\ {"SUSPENDED"} # DELETED /\ {"RUNNABLE"} # DELETED /\ {"ONESHOT", "RUNNABLE"} # DELETED
      BY DEF Flag, DELETED
    <3>3. QED
      BY <1>7, <3>1, <3>2 DEF scheduler_add_timer, scheduler_add_oneshot_timer
  <2>2. asked'[t] # "gone" /\ state'[t] # DELETED
    BY <1>1, <2>1, TimersFacts
  <2>3. QED
    BY <1>1, <2>1, <2>2, TimersFacts DEF Gone
<1>8. CASE scheduler_delete_timer
  BY <1>1, <1>8, TimersFacts DEF Gone, scheduler_delete_timer, Mine, Store
<1>9. CASE scheduler_set_timer_interval \/ ApiBegin
  BY <1>9 DEF Gone, scheduler_set_timer_interval, ApiBegin, history
<1>10. CASE ApiEnd
  <2>1. /\ state' = [state EXCEPT ![reg.which] = NewState(reg.fn, reg.st)]
        /\ asked' = [asked EXCEPT ![reg.which] = NewAsked(reg.fn)]
    BY <1>10 DEF ApiEnd, Store
  <2>2. NewState(reg.fn, reg.st) # DELETED /\ NewAsked(reg.fn) # "gone"
    BY DEF NewState, NewAsked, Suspended, Resumed, DELETED
  <2>3. QED
    BY <1>1, <2>1, <2>2, TimersFacts DEF Gone
<1>11. CASE IsrSuspend \/ IsrReset
  BY <1>1, <1>11, TimersFacts DEF Gone, IsrSuspend, IsrReset, Store
<1>12. CASE UNCHANGED vars
  BY <1>12 DEF Gone, vars, blocks, history
<1>13. QED
  BY <1>2, <1>3, <1>4, <1>5, <1>6, <1>7, <1>8, <1>9, <1>10, <1>11, <1>12 DEF Next, Dispatch, Api

(* In every reachable state the free control blocks are those of the       *)
(* deleted timers.                                                         *)
LEMMA AlwaysGone == Spec => []Gone
<1>1. Init => Gone
  BY TimersFacts DEF Init, Gone, DELETED
<1>2. QED
  BY <1>1, Inductive, NextGone, PTL DEF Spec

-----------------------------------------------------------------------------
(* The safety properties.                                                  *)

(* scheduler_dispatch_timer never loses a static timer: between            *)
(* invocations each is RUNNABLE, whatever timer functions, interrupts and  *)
(* the dynamic timer API do, for any number of timers.                     *)
THEOREM StaticTimersAlive == Spec => []StaticAlive
<1>1. IInv => StaticAlive
  BY DEF IInv
<1>2. QED
  BY <1>1, Inductive, PTL

(* The RUNNING flag marks exactly a timer whose function is executing: no  *)
(* path through scheduler_dispatch_timer leaves it behind, and no          *)
(* overlapping suspend, resume or reset resurrects it.                     *)
THEOREM NoTimerLeftRunning == Spec => []RunningOnlyCurrent
<1>1. IInv => RunningOnlyCurrent
  BY DEF IInv
<1>2. QED
  BY <1>1, Inductive, PTL

(* For timers that only main loop code touches, the last suspend, resume,  *)
(* reset or delete is in force once the timer is not being invoked, and a  *)
(* control block is not freed before it is asked for.                      *)
THEOREM RequestsHonoured == Spec => []RequestHonoured
<1>1. IInv /\ Gone => RequestHonoured
  <2> SUFFICES ASSUME IInv, Gone, NEW t \in Dynamic \ IsrSlots, "RUNNING" \notin state[t]
               PROVE  state[t] \ {"ONESHOT"} = CASE asked[t] = "gone" -> DELETED
                                                 [] asked[t] = "stop" -> {"SUSPENDED"}
                                                 [] asked[t] = "run"  -> {"RUNNABLE"}
    BY DEF RequestHonoured, InForce
  <2>1. state[t] \in SUBSET Flag /\ asked[t] \in {"run", "stop", "gone"}
    BY TimersFacts DEF IInv, TypeOK
  <2>2. CASE asked[t] = "gone"
    BY <2>2 DEF Gone, DELETED
  <2>3. CASE asked[t] # "gone"
    <3>1. state[t] # DELETED
      BY <2>3 DEF Gone
    <3>2. asked[t] = "stop" <=> "SUSPENDED" \in state[t]
      BY <3>1 DEF IInv, Requests
    <3>3. ~("SUSPENDED" \in state[t] /\ "RUNNABLE" \in state[t])
      BY <3>1 DEF IInv, Requests
    <3>4. "SUSPENDED" \in state[t] \/ "RUNNABLE" \in state[t]
      BY <3>1 DEF IInv, Requests
    <3>5. CASE "SUSPENDED" \in state[t]
      <4>1. state[t] \ {"ONESHOT"} = {"SUSPENDED"}
        BY <2>1, <3>3, <3>5 DEF Flag
      <4>2. QED
        BY <3>2, <3>5, <4>1
    <3>6. CASE "RUNNABLE" \in state[t]
      <4>1. state[t] \ {"ONESHOT"} = {"RUNNABLE"}
        BY <2>1, <3>3, <3>6 DEF Flag
      <4>2. asked[t] = "run"
        BY <2>1, <2>3, <3>2, <3>3, <3>6
      <4>3. QED
        BY <4>1, <4>2
    <3>7. QED
      BY <3>4, <3>5, <3>6
  <2>4. QED
    BY <2>2, <2>3
<1>2. QED
  BY <1>1, Inductive, AlwaysGone, PTL

(* A one-shot timer is invoked at most once, even if its function resets,  *)
(* suspends, deletes or re-adds timers, its own included.                  *)
THEOREM OneshotInvokedOnce == Spec => []OneshotAtMostOnce
<1>1. IInv => OneshotAtMostOnce
  BY DEF IInv
<1>2. QED
  BY <1>1, Inductive, PTL

(* The dispatcher never calls the function of a timer that main loop code  *)
(* suspended or deleted last, even if the call came from the timer         *)
(* function that ran just before.                                          *)
THEOREM SuspendedNeverInvoked == Spec => SuspendedNotInvoked
<1>1. IInv /\ Gone /\ [Next]_vars =>
         [\A t \in Dynamic \ IsrSlots : Invoked(t) => asked[t] = "run"]_vars
  <2> SUFFICES ASSUME IInv, Gone, NEW t \in Dynamic \ IsrSlots, Invoked(t) PROVE asked[t] = "run"
    OBVIOUS
  <2>1. "RUNNABLE" \in state[t] /\ state[t] # DELETED
    BY DEF IInv, StillRunnable, Invoked, DELETED
  <2>2. "SUSPENDED" \notin state[t]
    BY <2>1 DEF IInv, Requests
  <2>3. asked[t] # "stop"
    BY <2>1, <2>2 DEF IInv, Requests
  <2>4. asked[t] # "gone"
    BY <2>1 DEF Gone
  <2>5. asked[t] \in {"run", "stop", "gone"}
    BY TimersFacts DEF IInv, TypeOK
  <2>6. QED
    BY <2>3, <2>4, <2>5
<1>2. QED
  BY <1>1, Inductive, AlwaysGone, PTL DEF Spec, SuspendedNotInvoked

(* The torn 16 bit read in scheduler_dispatch_timer makes a static timer   *)
(* early by less than 256 ticks, for every interval and any interleaving.  *)
THEOREM StaticEarliness == Spec => EarlyByLessThanAByte
<1>1. IInv /\ [Next]_vars => [\A t \in Static : Invoked(t) => due[t] < ByteBase]_vars
  BY DEF IInv, Invoked, DueIsDelay, HighByteZero
<1>2. QED
  BY <1>1, Inductive, PTL DEF Spec, EarlyByLessThanAByte

=============================================================================
