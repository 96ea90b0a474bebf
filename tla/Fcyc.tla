-------------------------------- MODULE Fcyc --------------------------------
(***************************************************************************)
(* fcyc.c: the K-best scheme.  fcyc times f again and again, keeps the     *)
(* kbest shortest times in ascending order in values, and stops when they  *)
(* lie within epsilon of each other or after maxsamples.  Each time it may *)
(* clear the cache, by reading through a buffer, and correct for ticks.    *)
(*                                                                         *)
(* A turn of fcyc's loop is a step, but for callibrate.  f takes any time, *)
(* and starts at any value of the counter.  taken is auxiliary: of every   *)
(* sample, f's own cycles, those of the tick that came meanwhile, the time *)
(* a perfect counter would show, and the price of a tick.                  *)
(***************************************************************************)
EXTENDS Clock, Sequences, FiniteSets

CONSTANTS
  Params,       \* what the setters may have been called with
  CacheSizes,
  Times,        \* cycles f may take
  Starts        \* values of the counter at start_counter

(* No sample is so long that the counter comes round. *)
ASSUME SamplerAssumption ==
  /\ \A p \in Params : /\ p.kbest \in Nat \ {0} /\ p.maxsamples \in Nat \ {0}
                      /\ p.epsilon \in Nat      \* in percent
                      /\ {p.compensate, p.clear_cache} \subseteq BOOLEAN
  /\ CacheSizes \subseteq Nat \ {0} /\ Times \subseteq Nat /\ Starts \subseteq Nat
  /\ \A own \in Times : own + DearTick < WORD * WORD

VARIABLES
  param,         \* kbest, maxsamples, epsilon, compensate, clear_cache
  cache_bytes,
  cache_buf,     \* the size of the buffer, 0 for NULL
  values,        \* the best, zero where there is none yet
  samplecount,
  pc,            \* "init", "idle", "turn", "callibrate", "run", or "exit"; in
                 \* ftimer.c "timer"
  result,        \* what fcyc or ftimer returned last
  taken

cacheVars  == <<param, cache_bytes, cache_buf>>
sampleVars == <<values, samplecount, taken>>

kbest      == param.kbest
maxsamples == param.maxsamples
epsilon    == param.epsilon
Index      == 0 .. kbest - 1

FcycInit ==
  /\ ClockInit
  /\ param \in Params /\ cache_bytes \in CacheSizes /\ cache_buf = 0
  /\ values = <<>> /\ samplecount = 0 /\ taken = <<>>

(* The buffer of another size goes, and clear() gets one of this size when *)
(* it needs it.  (Mutated: the old buffer stays.)                          *)
Resized_Keep(bytes) == cache_buf
Resized(bytes) == IF bytes = cache_bytes THEN cache_buf ELSE 0

set_fcyc_cache_size(bytes) ==
  /\ pc = "idle"
  /\ cache_buf' = Resized(bytes) /\ cache_bytes' = bytes
  /\ UNCHANGED <<param, pc, result, clockVars, sampleVars>>

(* fcyc is called: init_sampler. *)
StartFcyc ==
  /\ pc = "idle" /\ pc' = "turn"
  /\ values' = [j \in Index |-> 0] /\ samplecount' = 0 /\ taken' = <<>>
  /\ UNCHANGED <<cacheVars, clockVars, result>>

(* A turn up to the call of f: clear(), and start_comp_counter as long as  *)
(* the price of a tick is not known.                                       *)
Prepare ==
  /\ pc = "turn"
  /\ cache_buf' = IF param.clear_cache /\ cache_buf = 0 THEN cache_bytes ELSE cache_buf
  /\ IF param.compensate /\ cyc_per_tick = 0
     THEN pc' = "callibrate" /\ StartCallibrate
     ELSE pc' = "run" /\ UNCHANGED clockVars
  /\ UNCHANGED <<param, cache_bytes, result, sampleVars>>

NoCache ==
  /\ pc = "turn" /\ param.clear_cache /\ cache_buf = 0
  /\ pc' = "exit"
  /\ UNCHANGED <<cacheVars, clockVars, result, sampleVars>>

Callibrate ==
  /\ pc = "callibrate"
  /\ \/ /\ \E c \in TurnCosts, t, u \in TickCosts \union {0}, late \in BOOLEAN :
              callibrate(c, t, u, late)
        /\ UNCHANGED pc
     \/ /\ events = NEVENT /\ pc' = "run" /\ owed' = 0
        /\ UNCHANGED <<cyc_per_tick, events, gap, ticks, stray>>
  /\ UNCHANGED <<cacheVars, result, sampleVars>>

(* The insertion sort of add_sample: the entry at pos sinks past those     *)
(* that are greater, to its place.  (Mutated: one turn only.)              *)
Sorted_OneSwap(vals, pos) ==
  IF pos > 0 /\ vals[pos - 1] > vals[pos]
  THEN [vals EXCEPT ![pos - 1] = vals[pos], ![pos] = vals[pos - 1]] ELSE vals

Sorted(vals, pos) ==
  LET sink[p \in Index] ==
        IF p > 0 /\ vals[p - 1] > vals[pos] THEN sink[p - 1] ELSE p
  IN  [j \in Index |-> CASE j = sink[pos] -> vals[pos]
                         [] j \in sink[pos] + 1 .. pos -> vals[j - 1]
                         [] OTHER -> vals[j]]

(* A time takes the next place, or that of the longest one kept.           *)
add_sample(val) ==
  CASE samplecount < kbest ->
         Sorted([values EXCEPT ![samplecount] = val], samplecount)
    [] samplecount >= kbest /\ val < values[kbest - 1] ->
         Sorted([values EXCEPT ![kbest - 1] = val], kbest - 1)
    [] OTHER -> values

(* Have K samples agreed?  (Mutated: there may be fewer; the places of the *)
(* others hold 0.)                                                         *)
has_converged_Early(vals, count) == (100 + epsilon) * vals[0] >= 100 * vals[kbest - 1]
has_converged(vals, count) ==
  count >= kbest /\ (100 + epsilon) * vals[0] >= 100 * vals[kbest - 1]

Enough(vals, count) == has_converged(vals, count) \/ count >= maxsamples

(* f takes own cycles from start on, with a tick of t in between (or none, *)
(* t = 0), and one more outside the readings of the counter if late.       *)
Sample(start, own, t, late) ==
  LET end      == start + own + t
      time     == get_counter(access_counter(start), access_counter(end))
      count    == IF late THEN Hits(t) + 1 ELSE Hits(t)
      Shown(x) == IF param.compensate THEN Compensated(x, count) ELSE x
      vals     == add_sample(Shown(time))
  IN  /\ pc = "run"
      /\ samplecount' = samplecount + 1
      /\ taken' = Append(taken, [own |-> own, tick |-> t, price |-> cyc_per_tick,
                               time |-> Shown(end - start)])
      /\ IF Enough(vals, samplecount + 1)
         THEN pc' = "idle" /\ result' = vals[0]
         ELSE pc' = "turn" /\ UNCHANGED result
      /\ values' = vals
      /\ UNCHANGED <<cacheVars, clockVars>>

(* Without the correction, ticks are part of f's time. *)
Fcyc ==
  \/ StartFcyc \/ Prepare \/ NoCache \/ Callibrate
  \/ \E bytes \in CacheSizes : set_fcyc_cache_size(bytes)
  \/ \E start \in Starts, own \in Times, t \in TickCosts \union {0}, late \in BOOLEAN :
       /\ param.compensate \/ (t = 0 /\ ~late)
       /\ Sample(start, own, t, late)

-----------------------------------------------------------------------------
(* Properties.                                                             *)

(* values[j] has at most j samples below it, and more than j not above it: *)
(* the first entries of values are the shortest samples of this call in    *)
(* ascending order, equal ones as often as they occurred; and samples are  *)
(* the cycles that have passed, however the words of the counter wrapped.  *)
KBest ==
  \A j \in 0 .. kbest - 1 : j < samplecount =>
     /\ Cardinality({m \in 1 .. samplecount : taken[m].time < values[j]}) <= j
     /\ Cardinality({m \in 1 .. samplecount : taken[m].time <= values[j]}) > j

(* At the m-th sample, some kbest of the samples so far are within epsilon *)
(* of the shortest.  (With a negative shortest time, which the correction  *)
(* can produce, none is.)                                                  *)
ConvergedAt(m) ==
  \E s \in 1 .. m :
     /\ \A l \in 1 .. m : taken[s].time <= taken[l].time
     /\ Cardinality({l \in 1 .. m :
           100 * taken[l].time <= (100 + epsilon) * taken[s].time}) >= kbest

(* fcyc stops at the first sample with which kbest of all samples agree,   *)
(* and otherwise at the limit.                                             *)
StopsWhenConverged ==
  /\ \A m \in 1 .. samplecount - 1 : ~ConvergedAt(m)
  /\ pc \in {"turn", "callibrate", "run"} =>
        /\ samplecount < maxsamples
        /\ samplecount > 0 => ~ConvergedAt(samplecount)
  /\ (pc = "idle" /\ samplecount > 0) =>
        ConvergedAt(samplecount) \/ samplecount = maxsamples

(* The price of a tick lies between that of the cheapest and a little more *)
(* than that of the dearest, wherever ticks fall between the readings of   *)
(* the two clocks; so what is left in a corrected time of the tick in it   *)
(* is at most what this tick took more than the cheapest.                  *)
Excess(t) == IF t > 0 THEN t - CheapTick ELSE 0
TicksPaidFor ==
  /\ cyc_per_tick # 0 => CheapTick <= cyc_per_tick /\ cyc_per_tick <= DearTick + RECORDTHRESH
  /\ param.compensate =>
       \A m \in 1 .. samplecount :
          taken[m].price # 0 => taken[m].time <= taken[m].own + Excess(taken[m].tick)
=============================================================================
