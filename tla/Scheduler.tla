------------------------------ MODULE Scheduler ------------------------------
(***************************************************************************)
(* The e6 scheduler: static timers generated by the meta scripts, dynamic  *)
(* timers added at run time, the tick interrupt that counts their delays   *)
(* down, and the main loop that dispatches the ones that are due.          *)
(*                                                                         *)
(* Three contexts run on one AVR core.  The tick interrupt (Tick) may hit  *)
(* between any two steps of the main loop.  The main loop is cut where an  *)
(* interrupt matters: between the two byte loads of a 16 bit delay, and    *)
(* between the load and the store of a read-modify-write of a state byte.  *)
(* A receiver interrupt (the FS20 decoder) may use the dynamic timer API   *)
(* on the timers in IsrSlots.                                              *)
(*                                                                         *)
(* Build modelled: AVR, UIP_SUPPORT and SCHEDULER_DYNAMIC_SUPPORT, neither *)
(* RFM12_IP_SUPPORT nor BOOTLOADER_SUPPORT.                                *)
(***************************************************************************)
EXTENDS Integers

CONSTANTS
    ByteBase,        \* values of one byte (256 on the AVR)
    NumStatic,       \* scheduler_static_timer_max
    NumDynamic,      \* scheduler_dynamic_timer_max
    StaticInterval,  \* scheduler_static_timers[i].interval
    StaticDelay,     \* the initial delays statictimer() distributes
    TicksPerHz,      \* CONF_MTICKS_PER_SEC / HZ
    Intervals,       \* the intervals and delays callers ask for
    FlashWords,      \* what a RAM read at the flash address of a table yields
    IsrSlots,        \* dynamic timers driven from the receiver interrupt
    MaxCalls         \* bound on the API calls made by main loop code

Static == 0 .. NumStatic - 1
Dynamic == NumStatic .. NumStatic + NumDynamic - 1
Timers == Static \cup Dynamic

SCHEDULER_INTERVAL_MAX == ByteBase * ByteBase - 1
Word == 0 .. SCHEDULER_INTERVAL_MAX

(* A state byte is the set of its flags; TIMER_DELETED is the empty set.   *)
Flag == {"SUSPENDED", "RUNNABLE", "RUNNING", "ONESHOT"}
DELETED == {}

ASSUME SchedulerAssumption ==
    /\ ByteBase \in Nat \ {0, 1}
    /\ NumStatic \in Nat \ {0}
    /\ NumDynamic \in Nat
    /\ StaticInterval \in [Static -> Word \ {0}]
    /\ StaticDelay \in [Static -> Word \ {0}]
    /\ TicksPerHz \in Nat \ {0}
    /\ Intervals \subseteq Word
    /\ FlashWords \subseteq Word
    /\ IsrSlots \subseteq Dynamic
    /\ MaxCalls \in Nat

VARIABLES
    state, delay, interval,   \* the timer control blocks
    periodic_hz_tick, newtick,
    uip_buf_locked,           \* _uip_buf_lock # 0
    pc, i,                    \* where the main loop is, and its loop index
    reg,                      \* what the main loop holds in registers
    calls,                    \* API calls made so far (bounded by MaxCalls)
    due, asked, runs          \* history: see below

(***************************************************************************)
(* History variables, never read by the code:                              *)
(*   due[t]    ticks that must still pass before t may be invoked, by the  *)
(*             interval or delay the timer was armed with;                 *)
(*   asked[t]  the last request for t: "run", "stop" (suspend) or "gone":  *)
(*             deleted, by a caller or as a one-shot timer that is over;     *)
(*   runs[t]   invocations since the control block was filled, up to 2.    *)
(***************************************************************************)
history == <<due, asked, runs>>
blocks == <<state, delay, interval>>
vars == <<blocks, periodic_hz_tick, newtick, uip_buf_locked, pc, i, reg, calls, history>>

PC == {"main", "lo", "hi", "mark", "mark2", "callback", "finish", "finish2", "api_main", "api_callback"}
API == {"suspend", "resume", "reset"}
Registers(lo, st, fn, which) == [lo |-> lo, st |-> st, fn |-> fn, which |-> which]
NoReg == Registers(0, DELETED, "resume", 0)

TypeOK ==
    /\ state \in [Timers -> SUBSET Flag]
    /\ delay \in [Timers -> Word]
    /\ interval \in [Timers -> Word]
    /\ periodic_hz_tick \in 0 .. TicksPerHz - 1
    /\ newtick \in BOOLEAN
    /\ uip_buf_locked \in BOOLEAN
    /\ pc \in PC
    /\ i \in Timers
    /\ reg \in [lo : 0 .. ByteBase - 1, st : SUBSET Flag, fn : API, which : Timers]
    /\ calls \in 0 .. MaxCalls
    /\ due \in [Timers -> Word]
    /\ asked \in [Timers -> {"run", "stop", "gone"}]
    /\ runs \in [Timers -> 0 .. 2]

Init ==
    /\ state = [t \in Timers |-> IF t \in Static THEN {"RUNNABLE"}
                                 ELSE IF t \in IsrSlots THEN {"SUSPENDED"} ELSE DELETED]
    /\ delay = [t \in Timers |-> IF t \in Static THEN StaticDelay[t] ELSE 0]
    /\ interval = [t \in Timers |-> IF t \in Static THEN StaticInterval[t] ELSE 0]
    /\ periodic_hz_tick = 0
    /\ newtick = FALSE
    /\ uip_buf_locked = FALSE
    /\ pc = "main"
    /\ i = 0
    /\ reg = NoReg
    /\ calls = 0
    /\ due = delay
    /\ asked = [t \in Timers |-> IF t \in Static THEN "run" ELSE IF t \in IsrSlots THEN "stop" ELSE "gone"]
    /\ runs = [t \in Timers |-> 0]

Lo(w) == w % ByteBase
Hi(w) == w \div ByteBase

-----------------------------------------------------------------------------
(* The tick interrupt, CONF_MTICKS_PER_SEC times a second.                 *)

Decrement(c) == IF c > 0 THEN c - 1 ELSE c

Counts(st) == "RUNNABLE" \in st

scheduler_tick ==
    /\ delay' = [t \in Timers |-> IF Counts(state[t]) THEN Decrement(delay[t]) ELSE delay[t]]
    /\ due' = [t \in Timers |-> IF "RUNNABLE" \in state[t] /\ due[t] > 0 THEN due[t] - 1 ELSE due[t]]

HzOverflow(n) == n >= TicksPerHz

Tick ==
    /\ IF HzOverflow(periodic_hz_tick + 1)
       THEN newtick' = TRUE /\ periodic_hz_tick' = 0
       ELSE newtick' = newtick /\ periodic_hz_tick' = periodic_hz_tick + 1
    /\ scheduler_tick
    /\ UNCHANGED <<state, interval, uip_buf_locked, pc, i, reg, calls, asked, runs>>

(* A network interrupt takes the packet buffer, and network code outside   *)
(* this module gives it back; the end of a transmission that a timer       *)
(* function has started does so even during a dispatch.                    *)
NetLock ==
    /\ ~uip_buf_locked
    /\ uip_buf_locked' = TRUE
    /\ UNCHANGED <<blocks, periodic_hz_tick, newtick, pc, i, reg, calls, history>>

NetUnlock ==
    /\ uip_buf_locked
    /\ uip_buf_locked' = FALSE
    /\ UNCHANGED <<blocks, periodic_hz_tick, newtick, pc, i, reg, calls, history>>

-----------------------------------------------------------------------------
(* periodic_process() and scheduler_dispatch_timer().                      *)

periodic_process ==
    /\ pc = "main"
    /\ newtick
    /\ newtick' = FALSE
    /\ IF uip_buf_locked
       THEN UNCHANGED <<uip_buf_locked, pc, i>>
       ELSE uip_buf_locked' = TRUE /\ pc' = "lo" /\ i' = 0
    /\ UNCHANGED <<blocks, periodic_hz_tick, reg, calls, history>>

(* The next loop index, or the end of the dispatch: uip_buf_unlock(),      *)
(* which leaves the lock to a transmission a timer function has started.   *)
(* Registers that are dead are forgotten.                                  *)
HasNextButOne == i + 2 \in Timers   \* mutant: the last timer is never reached
HasNext == i + 1 \in Timers

Advance ==
    /\ IF HasNext
       THEN pc' = "lo" /\ i' = i + 1 /\ UNCHANGED uip_buf_locked
       ELSE pc' = "main" /\ i' = 0 /\ uip_buf_locked' \in BOOLEAN
    /\ reg' = NoReg

(* state & TIMER_RUNNABLE, then the first byte of delay ...                *)
Exists(st) == st # DELETED           \* mutant: suspended timers are invoked
Ready(st) == "RUNNABLE" \in st

CheckLow ==
    /\ pc = "lo"
    /\ IF Ready(state[i])
       THEN /\ reg' = Registers(Lo(delay[i]), DELETED, "resume", 0)
            /\ pc' = "hi"
            /\ UNCHANGED <<i, uip_buf_locked>>
       ELSE Advance
    /\ UNCHANGED <<blocks, periodic_hz_tick, newtick, calls, history>>

(* ... and the second one: delay == 0 is decided on the two together.      *)
LowByteZero(lo, hi) == lo = 0        \* mutant: an 8 bit comparison
LastTick(lo, hi) == lo + ByteBase * hi <= 1   \* mutant: one tick early
Expired(lo, hi) == lo + ByteBase * hi = 0

CheckHigh ==
    /\ pc = "hi"
    /\ IF Expired(reg.lo, Hi(delay[i]))
       THEN pc' = "mark" /\ UNCHANGED <<i, uip_buf_locked, reg>>
       ELSE Advance
    /\ UNCHANGED <<blocks, periodic_hz_tick, newtick, calls, history>>

LoadState(from, to) ==
    /\ pc = from
    /\ pc' = to
    /\ reg' = Registers(0, state[i], "resume", 0)
    /\ UNCHANGED <<blocks, periodic_hz_tick, newtick, uip_buf_locked, i, calls, history>>

(* RUNNABLE off, RUNNING on, and the call of the timer function.           *)
Invoke ==
    /\ pc = "mark2"
    /\ pc' = "callback"
    /\ state' = [state EXCEPT ![i] = (reg.st \ {"RUNNABLE"}) \cup {"RUNNING"}]
    /\ runs' = [runs EXCEPT ![i] = IF @ < 2 THEN @ + 1 ELSE @]
    /\ reg' = NoReg
    /\ UNCHANGED <<delay, interval, periodic_hz_tick, newtick, uip_buf_locked, i, calls, due, asked>>

Return ==
    /\ pc = "callback"
    /\ pc' = "finish"
    /\ UNCHANGED <<blocks, periodic_hz_tick, newtick, uip_buf_locked, i, reg, calls, history>>

Reload(t, w) == delay' = [delay EXCEPT ![t] = w]
Store(t, st) == state' = [state EXCEPT ![t] = st]

RestartedIdle(st) == st \ {"RUNNING"}   \* mutant: not set back to runnable
Restarted(st) == (st \ {"RUNNING"}) \cup {"RUNNABLE"}

StillRunning(st) == st                  \* mutant: RUNNING is left set
Stopped(st) == st \ {"RUNNING"}

NeverAutoDelete(st) == FALSE            \* mutant: one-shots are restarted
AutoDelete(st) == "ONESHOT" \in st

RestartUnlessDeleted(st) == st # DELETED   \* mutant: a suspend is ignored
MayRestart(st) == st # DELETED /\ "SUSPENDED" \notin st

(* After a static timer's function.                                        *)
FinishStatic ==
    /\ pc = "finish2"
    /\ i \in Static
    /\ Reload(i, StaticInterval[i])
    /\ due' = [due EXCEPT ![i] = StaticInterval[i]]
    /\ Store(i, Restarted(reg.st))
    /\ Advance
    /\ UNCHANGED <<interval, periodic_hz_tick, newtick, calls, asked, runs>>

(* After a dynamic timer's function: auto-delete, restart, or leave it.    *)
(* The restart reads its interval from the static table, which lies in     *)
(* flash, with an ordinary load.                                           *)
FinishDynamic ==
    /\ pc = "finish2"
    /\ i \in Dynamic
    /\ \/ /\ AutoDelete(reg.st)
          /\ Reload(i, SCHEDULER_INTERVAL_MAX)
          /\ Store(i, DELETED)
          /\ asked' = [asked EXCEPT ![i] = "gone"]
          /\ UNCHANGED due
       \/ /\ ~AutoDelete(reg.st)
          /\ MayRestart(reg.st)
          /\ \E w \in FlashWords : Reload(i, w)
          /\ due' = [due EXCEPT ![i] = interval[i]]
          /\ Store(i, Restarted(reg.st))
          /\ UNCHANGED asked
       \/ /\ ~AutoDelete(reg.st)
          /\ ~MayRestart(reg.st)
          /\ Store(i, Stopped(reg.st))
          /\ UNCHANGED <<delay, due, asked>>
    /\ Advance
    /\ UNCHANGED <<interval, periodic_hz_tick, newtick, calls, runs>>

Dispatch ==
    \/ CheckLow
    \/ CheckHigh
    \/ LoadState("mark", "mark2")
    \/ Invoke
    \/ Return
    \/ LoadState("finish", "finish2")
    \/ FinishStatic
    \/ FinishDynamic

-----------------------------------------------------------------------------
(* The dynamic timer API, called by timer functions and by other main loop *)
(* code with the handles of timers that exist.                             *)

MayCall ==
    /\ pc \in {"main", "callback"}
    /\ calls < MaxCalls
    /\ calls' = calls + 1

(* The timers that exist: a caller has the handle of one it added and has  *)
(* not deleted.                                                            *)
Mine == {t \in Dynamic : state[t] # DELETED}

Free(t) == t \in Dynamic /\ state[t] = DELETED /\ \A u \in Dynamic : u < t => state[u] # DELETED

add_timer(d, int, flags) ==
    /\ MayCall
    /\ \E t \in Dynamic :
         /\ Free(t)
         /\ Reload(t, d)
         /\ interval' = [interval EXCEPT ![t] = int]
         /\ Store(t, flags)
         /\ due' = [due EXCEPT ![t] = d]
         /\ asked' = [asked EXCEPT ![t] = IF "SUSPENDED" \in flags THEN "stop" ELSE "run"]
         /\ runs' = [runs EXCEPT ![t] = 0]
    /\ UNCHANGED <<periodic_hz_tick, newtick, uip_buf_locked, pc, i, reg>>

scheduler_add_timer ==
    \E int \in Intervals, suspended \in BOOLEAN :
        add_timer(int, int, IF suspended THEN {"SUSPENDED"} ELSE {"RUNNABLE"})

scheduler_add_oneshot_timer ==
    \E d \in Intervals : add_timer(d, 0, {"ONESHOT", "RUNNABLE"})

scheduler_delete_timer ==
    /\ MayCall
    /\ \E t \in Mine \ IsrSlots :
         /\ Reload(t, SCHEDULER_INTERVAL_MAX)
         /\ Store(t, DELETED)
         /\ asked' = [asked EXCEPT ![t] = "gone"]
    /\ UNCHANGED <<interval, periodic_hz_tick, newtick, uip_buf_locked, pc, i, reg, due, runs>>

scheduler_set_timer_interval ==
    /\ MayCall
    /\ \E t \in Mine, int \in Intervals : interval' = [interval EXCEPT ![t] = int]
    /\ UNCHANGED <<state, delay, periodic_hz_tick, newtick, uip_buf_locked, pc, i, reg, history>>

Suspended(st) == (st \ {"RUNNABLE"}) \cup {"SUSPENDED"}
Resumed(st) == (st \ {"SUSPENDED"}) \cup {"RUNNABLE"}
NewState(fn, st) == IF fn = "suspend" THEN Suspended(st) ELSE Resumed(st)
NewAsked(fn) == IF fn = "suspend" THEN "stop" ELSE "run"

(* scheduler_suspend_timer, scheduler_resume_timer, scheduler_reset_timer: *)
(* the state byte is loaded here and stored in ApiEnd; a reset stores the  *)
(* high byte of the delay here and the low byte in ApiEnd.                 *)
ApiBegin ==
    /\ MayCall
    /\ \E t \in Mine, fn \in API :
         /\ reg' = Registers(0, state[t], fn, t)
         /\ IF fn = "reset"
            THEN Reload(t, ByteBase * Hi(interval[t]) + Lo(delay[t]))
            ELSE UNCHANGED delay
    /\ pc' = IF pc = "main" THEN "api_main" ELSE "api_callback"
    /\ UNCHANGED <<state, interval, periodic_hz_tick, newtick, uip_buf_locked, i, history>>

ApiEnd ==
    LET t == reg.which IN
    /\ pc \in {"api_main", "api_callback"}
    /\ pc' = IF pc = "api_main" THEN "main" ELSE "callback"
    /\ Store(t, NewState(reg.fn, reg.st))
    /\ asked' = [asked EXCEPT ![t] = NewAsked(reg.fn)]
    /\ IF reg.fn = "reset"
       THEN /\ Reload(t, ByteBase * Hi(delay[t]) + Lo(interval[t]))
            /\ due' = [due EXCEPT ![t] = interval[t]]
       ELSE UNCHANGED <<delay, due>>
    /\ reg' = NoReg
    /\ UNCHANGED <<interval, periodic_hz_tick, newtick, uip_buf_locked, i, calls, runs>>

(* The FS20 level-change interrupt: FS20_TIMER_STOP suspends its timer,    *)
(* FS20_TIMER_START sets the interval and resets the timer, and            *)
(* FS20_TIMER_RESTART resets it.  One step each: main loop code cannot run *)
(* in between, and a tick in between decrements a delay that is about to   *)
(* be overwritten (the intervals the decoder asks for fit in a byte).      *)
IsrSuspend ==
    /\ \E t \in IsrSlots :
         /\ Store(t, Suspended(state[t]))
         /\ asked' = [asked EXCEPT ![t] = "stop"]
    /\ UNCHANGED <<delay, interval, periodic_hz_tick, newtick, uip_buf_locked, pc, i, reg, calls, due, runs>>

IsrReset ==
    /\ \E t \in IsrSlots, int \in Intervals :
         /\ interval' = [interval EXCEPT ![t] = int]
         /\ Reload(t, int)
         /\ due' = [due EXCEPT ![t] = int]
         /\ Store(t, Resumed(state[t]))
         /\ asked' = [asked EXCEPT ![t] = "run"]
    /\ UNCHANGED <<periodic_hz_tick, newtick, uip_buf_locked, pc, i, reg, calls, runs>>

-----------------------------------------------------------------------------
Api ==
    \/ scheduler_add_timer
    \/ scheduler_add_oneshot_timer
    \/ scheduler_delete_timer
    \/ scheduler_set_timer_interval
    \/ ApiBegin

Next ==
    \/ Tick
    \/ NetLock
    \/ NetUnlock
    \/ periodic_process
    \/ Dispatch
    \/ Api
    \/ ApiEnd
    \/ IsrSuspend
    \/ IsrReset

Spec == Init /\ [][Next]_vars

-----------------------------------------------------------------------------
(* Properties.                                                             *)

Invoked(t) == pc = "mark2" /\ pc' = "callback" /\ i = t
Processing == {"callback", "api_callback", "finish", "finish2"}

(* A static timer is never lost: whatever the timer functions do with the  *)
(* API, every static timer is RUNNABLE, except the one whose function      *)
(* scheduler_dispatch_timer is executing, which is RUNNING.                *)
StaticAlive ==
    \A t \in Static : state[t] = IF pc \in Processing /\ i = t THEN {"RUNNING"} ELSE {"RUNNABLE"}

(* No timer is left RUNNING by scheduler_dispatch_timer: only the timer    *)
(* whose function is executing has the flag, even if that function         *)
(* suspends, resets, deletes or re-adds timers.                            *)
RunningOnlyCurrent ==
    \A t \in Timers : "RUNNING" \in state[t] => pc \in Processing /\ i = t

(* What the last call on timer t asked for is in force, unless the timer   *)
(* function is executing: a deleted timer has no control block, and a      *)
(* block is free only if the timer was deleted.                            *)
InForce(t) ==
    "RUNNING" \notin state[t] =>
        state[t] \ {"ONESHOT"} = CASE asked[t] = "gone" -> DELETED
                                   [] asked[t] = "stop" -> {"SUSPENDED"}
                                   [] asked[t] = "run"  -> {"RUNNABLE"}

(* The last request made for a timer by main loop code is in force: a      *)
(* suspend, reset, delete or re-add during the timer's own invocation      *)
(* survives the end of the invocation in scheduler_dispatch_timer.  Timers *)
(* that an interrupt handler drives are left out: see IsrRequestHonoured.  *)
RequestHonoured == \A t \in Dynamic \ IsrSlots : InForce(t)

(* The same for a timer that an interrupt handler suspends and resets:     *)
(* "If the timer is currently suspended it will be resumed"                *)
(* (scheduler_reset_timer), whatever the dispatcher was doing to it.       *)
IsrRequestHonoured == \A t \in IsrSlots : InForce(t)

(* A one-shot timer is invoked at most once, whatever is done to it        *)
(* during its invocation ("invoked exactly once",                          *)
(* scheduler_add_oneshot_timer).                                           *)
OneshotAtMostOnce ==
    \A t \in Dynamic : "ONESHOT" \in state[t] =>
        runs[t] = IF pc \in Processing /\ i = t /\ "RUNNING" \in state[t] THEN 1 ELSE 0

(* The control block of a one-shot timer that nobody deleted is not freed  *)
(* before the timer function has been called ("delay until the timer is    *)
(* invoked exactly once", scheduler_add_oneshot_timer).                    *)
OneshotNotLost ==
    [][\A t \in Dynamic :
          pc = "finish2" /\ i = t /\ "ONESHOT" \in state[t] /\ state'[t] = DELETED => runs[t] > 0]_vars

(* All the times that timer t is ever armed with fit in one byte.          *)
Short(t) ==
    IF t \in Static THEN StaticDelay[t] < ByteBase /\ StaticInterval[t] < ByteBase
    ELSE \A n \in Intervals : n < ByteBase

(* No static timer and no one-shot timer whose times fit in one byte is    *)
(* invoked before the ticks it was armed with have passed, although        *)
(* scheduler_tick counts between any two steps of                          *)
(* scheduler_dispatch_timer ("invoke all runnable static timers with a     *)
(* delay counter of zero").  With longer times the two byte loads of the   *)
(* delay make it early: EarlyByLessThanAByte.                              *)
NotEarly ==
    [][\A t \in Timers :
          Invoked(t) /\ (t \in Static \/ "ONESHOT" \in state[t]) /\ Short(t) => due[t] = 0]_vars

(* However the tick interrupt hits the two byte loads of a delay, a static *)
(* timer is invoked less than one byte's worth of ticks too early.         *)
EarlyByLessThanAByte ==
    [][\A t \in Static : Invoked(t) => due[t] < ByteBase]_vars

(* A periodic dynamic timer is not called more often than its interval     *)
(* says ("interval at which the timer func is called",                     *)
(* scheduler_add_timer).                                                   *)
DynamicIntervalKept ==
    [][\A t \in Dynamic : Invoked(t) => due[t] = 0]_vars

(* The function of a suspended timer is not called until the timer is      *)
(* resumed or reset, and that of a deleted timer never again, whichever    *)
(* timer function made the call (scheduler_suspend_timer,                  *)
(* scheduler_delete_timer); for the timers of main loop code.              *)
SuspendedNotInvoked ==
    [][\A t \in Dynamic \ IsrSlots : Invoked(t) => asked[t] = "run"]_vars

-----------------------------------------------------------------------------
(* Liveness.  The tick interrupt keeps coming, and main loop code returns: *)
(* timer functions run to completion, and the loop in ethersex.c calls     *)
(* periodic_process again and again.  Nothing is assumed of the network,   *)
(* which may hold the packet buffer whenever periodic_process looks.       *)
Fairness == WF_vars(Tick) /\ WF_vars(periodic_process) /\ WF_vars(Dispatch) /\ WF_vars(ApiEnd)
FairSpec == Spec /\ Fairness

Dispatching == pc = "lo"
Calling(t) == pc = "callback" /\ i = t

(* If dispatches keep happening, every static timer keeps being invoked:   *)
(* no timer function and no API call stops a static timer for good.        *)
StaticServed ==
    []<>Dispatching => \A t \in Static : []<>Calling(t)

(* If dispatches keep happening, a one-shot timer does not stay armed for  *)
(* ever: unless it is suspended or deleted, it is invoked                  *)
(* ("invoked exactly once", scheduler_add_oneshot_timer).                  *)
OneshotServed ==
    []<>Dispatching => \A t \in Dynamic : ~<>[](state[t] = {"ONESHOT", "RUNNABLE"})

=============================================================================
