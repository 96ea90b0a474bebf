---------------------------- MODULE MemSbrk_proof ----------------------------
(***************************************************************************)
(* Wherever the arena lies, as long as no granted sum has wrapped the heap *)
(* is the areas handed out, and the break stays in front of the arena's    *)
(* end even after one has.                                                 *)
(***************************************************************************)
EXTENDS MemSbrk, TLAPS

(* A granted increment whose sum does not wrap moves the break up by       *)
(* itself and keeps it in the arena.                                       *)
LEMMA GrantedSum ==
  ASSUME NEW brk \in mem_start_brk .. mem_max_addr,
         NEW incr \in Increments, ~SbrkFails(brk, incr),
         brk + incr < UINT_MOD
  PROVE  /\ incr \in Nat
         /\ SbrkBreak(brk, incr) = brk + incr
         /\ brk + incr <= mem_max_addr
<1>1. incr \in -(INT_MAX + 1) .. INT_MAX
  BY IncrementsAssumption
<1>2. INT_MAX \in Nat /\ mem_start_brk \in Nat /\ MAX_HEAP \in Nat
  BY ArenaAssumption
<1>3. incr >= 0
  BY <1>1, <1>2 DEF SbrkFails
<1>4. Wrap(brk + incr) = brk + incr
  BY <1>1, <1>2 DEF Wrap, UINT_MOD, mem_max_addr
<1> QED
  BY <1>1, <1>2, <1>3, <1>4 DEF SbrkFails, SbrkBreak, mem_max_addr

(* What the induction needs besides: the break is an address, and areas    *)
(* are records of numbers.                                                 *)
IInv ==
  /\ mem_brk \in Nat /\ mem_brk <= mem_max_addr
  /\ wrapped \in BOOLEAN
  /\ areas \subseteq [lo : Nat, size : Nat]
  /\ wrapped \/ Tiled

LEMMA InitTiles == Init => IInv
<1> SUFFICES ASSUME Init PROVE IInv
  OBVIOUS
<1>1. mem_start_brk \in Nat /\ MAX_HEAP \in Nat
  BY ArenaAssumption
<1>2. mem_brk = mem_start_brk /\ areas = {} /\ wrapped = FALSE
  BY DEF Init
<1>3. Tiled
  BY <1>1, <1>2 DEF Tiled
<1>4. mem_brk \in Nat /\ mem_brk <= mem_max_addr
  BY <1>1, <1>2 DEF mem_max_addr
<1> QED
  BY <1>2, <1>3, <1>4, Zenon DEF IInv

LEMMA SbrkTiles ==
  ASSUME IInv, NEW incr \in Increments, mem_sbrk(incr), ~wrapped'
  PROVE  IInv'
<1> DEFINE new == [lo |-> mem_brk, size |-> incr]
<1>1. /\ mem_start_brk \in Nat /\ MAX_HEAP \in Nat /\ mem_max_addr \in Nat
      /\ mem_brk \in mem_start_brk .. mem_max_addr /\ Tiled
  <2>1. ~wrapped
    BY Zenon DEF mem_sbrk
  <2>2. Tiled
    BY <2>1, Zenon DEF IInv
  <2> QED
    BY <2>2, ArenaAssumption DEF IInv, Tiled, mem_max_addr
<1>2. /\ incr \in Nat /\ mem_brk' = mem_brk + incr
      /\ mem_brk + incr <= mem_max_addr
  <2>1. ~(mem_brk + incr >= UINT_MOD)
    BY Zenon DEF mem_sbrk
  <2>2. incr \in Int /\ UINT_MOD \in Int
    BY ArenaAssumption, IncrementsAssumption DEF UINT_MOD
  <2>3. mem_brk + incr < UINT_MOD
    BY <1>1, <2>1, <2>2
  <2> QED
    BY <1>1, <2>3, GrantedSum DEF mem_sbrk
<1>3. areas' = areas \union {new}
  BY Zenon DEF mem_sbrk
<1>4. new \in [lo : Nat, size : Nat] /\ new.lo = mem_brk /\ new.size = incr
  BY <1>1, <1>2
<1>5. areas' \subseteq [lo : Nat, size : Nat]
  BY <1>3, <1>4 DEF IInv
<1>6. \A r \in areas : /\ r.lo \in Nat /\ r.size \in Nat
                       /\ mem_start_brk <= r.lo /\ r.lo + r.size <= mem_brk
  BY <1>1 DEF IInv, Tiled
<1>7. mem_brk' \in mem_start_brk .. mem_max_addr
  BY <1>1, <1>2
<1>8. \A r \in areas' : /\ r.size >= 0
                        /\ mem_start_brk <= r.lo /\ r.lo + r.size <= mem_brk'
  <2>1. TAKE r \in areas'
  <2>2. CASE r \in areas
    BY <1>1, <1>2, <1>6, <2>2
  <2>3. CASE r = new
    BY <1>1, <1>2, <1>4, <2>3
  <2> QED
    BY <1>3, <2>2, <2>3
<1>9. \A r, s \in areas' :
         r # s => r.lo + r.size <= s.lo \/ s.lo + s.size <= r.lo
  <2>1. TAKE r, s \in areas'
  <2>2. HAVE r # s
  <2>3. CASE r \in areas /\ s \in areas
    BY <1>1, <2>2, <2>3 DEF Tiled
  <2>4. CASE r = new /\ s \in areas
    BY <1>4, <1>6, <2>4
  <2>5. CASE r \in areas /\ s = new
    BY <1>4, <1>6, <2>5
  <2> QED
    BY <1>3, <2>2, <2>3, <2>4, <2>5
<1>10. \A x \in mem_start_brk .. mem_brk' - 1 :
          \E r \in areas' : r.lo <= x /\ x < r.lo + r.size
  <2>1. TAKE x \in mem_start_brk .. mem_brk' - 1
  <2>2. CASE x < mem_brk
    <3>1. x \in mem_start_brk .. mem_brk - 1
      BY <1>1, <2>1, <2>2, <1>2
    <3>2. \E r \in areas : r.lo <= x /\ x < r.lo + r.size
      BY <1>1, <3>1 DEF Tiled
    <3> QED
      BY <3>2, <1>3
  <2>3. CASE x >= mem_brk
    <3>1. new.lo <= x /\ x < new.lo + new.size
      BY <1>1, <1>2, <1>4, <2>1, <2>3
    <3> QED
      BY <3>1, <1>3
  <2> QED
    BY <2>2, <2>3, <1>1, <1>2, <2>1
<1>11. Tiled'
  <2>1. mem_brk' >= mem_start_brk
    BY <1>1, <1>7
  <2> QED
    BY <1>8, <1>9, <1>10, <2>1, Zenon DEF Tiled
<1>12. mem_brk' \in Nat /\ mem_brk' <= mem_max_addr
  BY <1>1, <1>7
<1>13. wrapped' \in BOOLEAN
  BY Zenon DEF mem_sbrk
<1> QED
  BY <1>5, <1>11, <1>12, <1>13, Zenon DEF IInv, mem_max_addr

LEMMA NextTiles ==
  ASSUME IInv, [Next]_vars
  PROVE  IInv'
<1>1. mem_start_brk \in Nat /\ MAX_HEAP \in Nat /\ INT_MAX \in Nat
  BY ArenaAssumption
<1>2. CASE mem_reset_brk
  <2>1. mem_brk' = mem_start_brk /\ areas' = {} /\ wrapped' = FALSE
    BY <1>2 DEF mem_reset_brk
  <2>2. Tiled'
    BY <1>1, <2>1 DEF Tiled
  <2>3. mem_brk' \in Nat /\ mem_brk' <= mem_max_addr
    BY <1>1, <2>1 DEF mem_max_addr
  <2> QED
    BY <2>1, <2>2, <2>3, Zenon DEF IInv, mem_max_addr
<1>3. ASSUME NEW incr \in Increments, mem_sbrk(incr)
      PROVE  IInv'
  <2>1. CASE wrapped'
    <3>1. incr \in Int /\ -(INT_MAX + 1) <= incr /\ incr <= INT_MAX /\ ~(incr < 0)
      BY <1>1, <1>3, IncrementsAssumption DEF mem_sbrk, SbrkFails
    <3>2. ~(Wrap(mem_brk + incr) > mem_max_addr) /\ mem_brk' = Wrap(mem_brk + incr)
      BY <1>3 DEF mem_sbrk, SbrkFails, SbrkBreak
    <3>3. mem_brk \in Nat /\ mem_max_addr \in Nat
      BY <1>1 DEF IInv, mem_max_addr
    <3>4. Wrap(mem_brk + incr) \in Nat
      BY <1>1, <3>1, <3>3 DEF Wrap, UINT_MOD
    <3>5. mem_brk' \in Nat /\ mem_brk' <= mem_max_addr
      BY <3>2, <3>3, <3>4
    <3>6. areas' = {}
      BY <1>3, <2>1, Zenon DEF mem_sbrk
    <3>7. wrapped' = TRUE
      BY <1>3, <2>1, Zenon DEF mem_sbrk
    <3> QED
      BY <3>5, <3>6, <3>7, Zenon DEF IInv, mem_max_addr
  <2>2. CASE ~wrapped'
    BY <1>3, <2>2, SbrkTiles
  <2> QED
    BY <2>1, <2>2
<1>4. CASE UNCHANGED vars
  BY <1>4, Zenon DEF vars, IInv, Tiled
<1> QED
  BY <1>2, <1>3, <1>4 DEF Next, mem_sbrk_fails

(* Wherever the arena lies: until a sum of the break and an int passes     *)
(* 2^32, the areas mem_sbrk has handed out since the last reset are        *)
(* disjoint, lie in the arena and make up the heap; and the break never    *)
(* passes the arena's end.                                                 *)
THEOREM AreasAreTheHeap ==
  Spec => []AreasTileHeap
<1>1. Init => IInv
  BY InitTiles
<1>2. IInv /\ [Next]_vars => IInv'
  BY NextTiles
<1>3. IInv => AreasTileHeap
  BY DEF IInv, AreasTileHeap
<1> QED
  BY <1>1, <1>2, <1>3, PTL DEF Spec
=============================================================================
