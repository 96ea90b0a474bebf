------------------------------- MODULE Fsecs -------------------------------
(***************************************************************************)
(* fsecs.c and ftimer.c: the running time of f by the timer the driver was *)
(* built with, the K-best cycle counter, or the mean of RUNS calls by the  *)
(* interval timer, which counts down from MAX_ETIME, or gettimeofday.      *)
(*                                                                         *)
(* A call of f is a step.  Both clocks are read as seconds and             *)
(* microseconds; results are left undivided.  spent is auxiliary: the time *)
(* f has really taken.                                                     *)
(***************************************************************************)
EXTENDS Fcyc

CONSTANTS
  MICROS,        \* microseconds in a second
  MAX_ETIME,     \* seconds: 86400
  RUNS,          \* 10
  Clocks,        \* microseconds since the epoch
  Durations      \* microseconds f may take

ASSUME TimerAssumption ==
  /\ {MICROS, MAX_ETIME, RUNS} \subseteq Nat \ {0}
  /\ Clocks \subseteq Nat /\ Durations \subseteq Nat

VARIABLES
  timer,         \* "fcyc", "itimer", "gettod": config.h
  begun,         \* when f was called first
  now, turns, spent

timerVars == <<timer, begun, now, turns, spent>>
vars == <<cacheVars, clockVars, sampleVars, pc, result, timerVars>>

Init ==
  /\ FcycInit /\ pc = "init" /\ result = 0
  /\ timer = "fcyc" /\ begun = 0 /\ now = 0 /\ turns = 0 /\ spent = 0

(* The setters are called; Mhz only scales the result. *)
init_fsecs ==
  /\ pc = "init" /\ pc' = "idle"
  /\ timer' \in {"fcyc", "itimer", "gettod"}
  /\ UNCHANGED <<cacheVars, clockVars, sampleVars, result, begun, now, turns, spent>>

StartFtimer ==
  /\ pc = "idle" /\ timer # "fcyc"
  /\ pc' = "timer" /\ turns' = 0 /\ spent' = 0
  /\ now' \in Clocks /\ begun' = now'
  /\ UNCHANGED <<cacheVars, clockVars, sampleVars, result, timer>>

TimeOf(t) == [tv_sec |-> t \div MICROS, tv_usec |-> t % MICROS]

(* Microseconds between two readings.  (Mutated: of the microseconds, the  *)
(* later are taken to be the greater.)                                     *)
Between_Abs(stv, etv) ==
  LET u == etv.tv_usec - stv.tv_usec
  IN  MICROS * (etv.tv_sec - stv.tv_sec) + (IF u < 0 THEN -u ELSE u)
Between(stv, etv) ==
  MICROS * (etv.tv_sec - stv.tv_sec) + (etv.tv_usec - stv.tv_usec)

(* What get_etime returns once us microseconds have gone by. *)
get_etime(us) ==
  Between(TimeOf(MAX_ETIME * MICROS - us), TimeOf(MAX_ETIME * MICROS))

(* f has been called once more.  When the interval timer is down to 0, its *)
(* signal ends the program.                                                *)
Call(d) ==
  LET end == now + d
  IN  /\ pc = "timer" /\ turns < RUNS
      /\ now' = end /\ turns' = turns + 1 /\ spent' = spent + d
      /\ pc' = IF timer = "itimer" /\ end - begun >= MAX_ETIME * MICROS
               THEN "exit" ELSE pc
      /\ UNCHANGED <<cacheVars, clockVars, sampleVars, result, timer, begun>>

FtimerEnds ==
  /\ pc = "timer" /\ turns = RUNS /\ pc' = "idle"
  /\ result' = IF timer = "gettod" THEN Between(TimeOf(begun), TimeOf(now))
               ELSE get_etime(now - begun) - get_etime(0)
  /\ UNCHANGED <<cacheVars, clockVars, sampleVars, timerVars>>

Next ==
  \/ init_fsecs
  \/ timer = "fcyc" /\ Fcyc /\ UNCHANGED timerVars
  \/ StartFtimer \/ FtimerEnds \/ \E d \in Durations : Call(d)

Spec == Init /\ [][Next]_vars

-----------------------------------------------------------------------------
(* Every variable holds a value of its kind; and the buffer through which  *)
(* clear() reads cache_bytes bytes has that many.                          *)
TypeOK ==
  /\ pc \in {"init", "idle", "turn", "callibrate", "run", "timer", "exit"}
  /\ cache_buf \in {0, cache_bytes} /\ samplecount \in 0 .. maxsamples
  /\ events \in 0 .. NEVENT /\ gap \in 0 .. THRESHOLD - 1
  /\ ticks \in Nat /\ stray \in BOOLEAN /\ owed \in TickCosts \union {0}
  /\ {cyc_per_tick, begun, now, spent} \subseteq Nat /\ turns \in 0 .. RUNS

(* What the driver is told: the shortest sample, or the time all the calls *)
(* of f took together, over every change of second and minute.             *)
TimeOfRuns ==
  pc = "idle" =>
    /\ \A m \in 1 .. samplecount : result <= taken[m].time
    /\ turns = RUNS => result = spent
=============================================================================
