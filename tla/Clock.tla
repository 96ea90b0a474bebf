-------------------------------- MODULE Clock --------------------------------
(***************************************************************************)
(* clock.c: cycles between two readings of a 64-bit counter that is read   *)
(* as two words, and the correction for timer interrupts (ticks), whose    *)
(* cost in cycles is estimated by watching the counter in a loop.          *)
(*                                                                         *)
(* Every tick has a cost of its own, and may come anywhere.  Between a     *)
(* call of times and the reading of the counter next to it, it is counted  *)
(* at another time than its cycles are, or without them.  Ticks are        *)
(* milliseconds apart: one that comes there is the only one near it.       *)
(***************************************************************************)
EXTENDS Integers

CONSTANTS
  WORD,          \* values of an unsigned: 2^32
  NEVENT, THRESHOLD, RECORDTHRESH,      \* 100, 1000, 3000
  TickCosts,     \* cycles a tick takes
  CheapTick, DearTick,                  \* the least and the most of them
  TurnCosts      \* cycles a turn of callibrate's loop takes

(* What the thresholds are for: a turn without a tick is short, so that    *)
(* the cycles until THRESHOLD is passed do not exceed RECORDTHRESH.        *)
ASSUME TickAssumption ==
  /\ {WORD, NEVENT, THRESHOLD, RECORDTHRESH} \subseteq Nat \ {0}
  /\ TurnCosts \subseteq Nat
  /\ \A c \in TurnCosts : THRESHOLD + c <= RECORDTHRESH
  /\ {CheapTick, DearTick} \subseteq Nat /\ TickCosts \subseteq Nat \ {0}
  /\ \A t \in TickCosts : CheapTick <= t /\ t <= DearTick

VARIABLES
  cyc_per_tick,  \* 0: not known
  events,        \* callibrate's e
  gap,           \* newt - oldt
  ticks,         \* what times would return now, less oldc
  stray,         \* one of them has left no cycles in the gap
  owed           \* cycles still to come of a tick that has been counted

clockVars == <<cyc_per_tick, events, gap, ticks, stray, owed>>

ClockInit ==
  cyc_per_tick = 0 /\ events = 0 /\ gap = 0 /\ ticks = 0 /\ stray = FALSE /\ owed = 0

(* The counter, which wraps; its words may wrap between two readings.      *)
access_counter(t) == [hi |-> (t \div WORD) % WORD, lo |-> t % WORD]

(* start_counter at from, get_counter at to.  (Mutated: no borrow.)        *)
get_counter_NoBorrow(from, to) ==
  ((to.hi - from.hi) % WORD) * WORD + ((to.lo - from.lo) % WORD)
get_counter(from, to) ==
  LET lo     == (to.lo - from.lo) % WORD
      borrow == IF lo > to.lo THEN 1 ELSE 0
  IN  ((to.hi - from.hi - borrow) % WORD) * WORD + lo

(* The lowest price seen, of those that can be a tick's.  (Mutated: of     *)
(* all.)                                                                   *)
Price_Any(cpt) == IF cyc_per_tick = 0 \/ cyc_per_tick > cpt THEN cpt ELSE cyc_per_tick
Price(cpt) ==
  IF (cyc_per_tick = 0 \/ cyc_per_tick > cpt) /\ cpt > RECORDTHRESH
  THEN cpt ELSE cyc_per_tick

(* callibrate begins: a tick may come between times and start_counter.     *)
StartCallibrate ==
  /\ events' = 0 /\ gap' = 0 /\ owed' = 0
  /\ stray' \in BOOLEAN /\ ticks' = IF stray' THEN 1 ELSE 0
  /\ UNCHANGED cyc_per_tick

(* A turn of its loop, which takes c cycles and up to two ticks, of t and  *)
(* of u (0 where there is none).  If late, t comes between the reading of  *)
(* the counter and the call of times.                                      *)
Hits(t) == IF t > 0 THEN 1 ELSE 0
callibrate(c, t, u, late) ==
  LET newt == gap + owed + c + (IF late THEN 0 ELSE t + u)
      newc == ticks + Hits(t) + Hits(u)
  IN  /\ events < NEVENT
      /\ stray \/ owed > 0 => t = 0 /\ u = 0
      /\ late => t > 0 /\ u = 0 /\ ticks = 0 /\ newt >= THRESHOLD
      /\ owed' = IF late THEN t ELSE 0
      /\ IF newt >= THRESHOLD
         THEN gap' = 0 /\ ticks' = 0 /\ stray' = FALSE
         ELSE gap' = newt /\ ticks' = newc /\ UNCHANGED stray
      /\ IF newt >= THRESHOLD /\ newc > 0
         THEN cyc_per_tick' = Price(newt \div newc) /\ events' = events + 1
         ELSE UNCHANGED <<cyc_per_tick, events>>

(* get_comp_counter, when time has passed since start_comp_counter. *)
Compensated(time, count) == time - count * cyc_per_tick
=============================================================================
