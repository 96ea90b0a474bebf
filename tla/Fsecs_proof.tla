----------------------------- MODULE Fsecs_proof -----------------------------
(***************************************************************************)
(* Proofs about the timers: the counter in two words, the price of a tick, *)
(* the K best of any number of samples, and the two clocks of ftimer.      *)
(***************************************************************************)
EXTENDS Fsecs, FiniteSetTheorems, SequenceTheorems, TLAPS

-----------------------------------------------------------------------------
(* Numbers in two digits, as both clocks have them.                        *)

LEMMA Digits ==
  ASSUME NEW w \in Nat, w > 0, NEW t \in Int
  PROVE  /\ t \div w \in Int /\ t % w \in 0 .. w - 1
         /\ t = (t % w) + w * (t \div w)
<1>1. t = (t % w) + w * (t \div w)
  OBVIOUS
<1>2. t \div w \in Int /\ t % w \in 0 .. w - 1
  OBVIOUS
<1> QED
  BY <1>1, <1>2

LEMMA DigitsOnly ==
  ASSUME NEW w \in Nat, w > 0, NEW q \in Int, NEW r \in 0 .. w - 1,
         NEW t \in Int, t = r + w * q
  PROVE  t % w = r /\ t \div w = q
OBVIOUS

(* The counter, read as two words, tells the time that has passed, if that *)
(* is less than a round of it.                                             *)
LEMMA CounterIs ==
  ASSUME NEW a \in Nat, NEW b \in Nat, a <= b, b - a < WORD * WORD
  PROVE  get_counter(access_counter(a), access_counter(b)) = b - a
<1>1. WORD \in Nat /\ WORD > 0
  BY TickAssumption
<1> DEFINE p == a \div WORD
           r == a % WORD
           q == b \div WORD
           s == b % WORD
           brw == IF r <= s THEN 0 ELSE 1
           d == q - p - brw
           lo == IF r <= s THEN s - r ELSE s - r + WORD
<1>2. p \in Int /\ r \in 0 .. WORD - 1 /\ a = r + WORD * p
  BY <1>1, Digits
<1>3. q \in Int /\ s \in 0 .. WORD - 1 /\ b = s + WORD * q
  BY <1>1, Digits
<1>4. p % WORD \in 0 .. WORD - 1 /\ p \div WORD \in Int
      /\ p = (p % WORD) + WORD * (p \div WORD)
  BY <1>1, <1>2, Digits
<1>5. q % WORD \in 0 .. WORD - 1 /\ q \div WORD \in Int
      /\ q = (q % WORD) + WORD * (q \div WORD)
  BY <1>1, <1>3, Digits
<1>6. /\ access_counter(a).hi = p % WORD /\ access_counter(a).lo = r
      /\ access_counter(b).hi = q % WORD /\ access_counter(b).lo = s
  BY DEF access_counter
<1> HIDE DEF p, q, r, s
<1>7. (s - r) % WORD = lo /\ lo \in 0 .. WORD - 1
  <2>1. CASE r <= s
    <3>1. s - r \in 0 .. WORD - 1 /\ s - r = (s - r) + WORD * 0
      BY <1>1, <1>2, <1>3, <2>1
    <3>2. (s - r) % WORD = s - r
      BY <1>1, <3>1, DigitsOnly
    <3> QED
      BY <2>1, <3>1, <3>2
  <2>2. CASE ~(r <= s)
    <3>1. s - r + WORD \in 0 .. WORD - 1 /\ s - r = (s - r + WORD) + WORD * (-1)
      BY <1>1, <1>2, <1>3, <2>2
    <3>2. (s - r) % WORD = s - r + WORD
      BY <1>1, <1>2, <1>3, <3>1, DigitsOnly
    <3> QED
      BY <2>2, <3>1, <3>2
  <2> QED
    BY <2>1, <2>2
<1>8. (IF lo > s THEN 1 ELSE 0) = brw
  BY <1>1, <1>2, <1>3
<1>9. d \in Int /\ b - a = lo + WORD * d
  BY <1>1, <1>2, <1>3
<1>10. brw \in {0, 1}
  OBVIOUS
<1> HIDE DEF lo, brw
<1>11. ((q % WORD) - (p % WORD) - brw) % WORD = d
  <2>1. d >= 0
    <3>1. d <= -1 => WORD * d <= -WORD
      BY <1>1, <1>9
    <3> QED
      BY <1>1, <1>7, <1>9, <3>1
  <2>2. d < WORD
    <3>1. d >= WORD => WORD * d >= WORD * WORD
      BY <1>1, <1>9
    <3>2. WORD * d \in Int /\ WORD * WORD \in Int
      BY <1>1, <1>9
    <3> QED
      BY <1>1, <1>7, <1>9, <3>1, <3>2
  <2>3. PICK p1 \in Int, q1 \in Int : p = (p % WORD) + WORD * p1 /\ q = (q % WORD) + WORD * q1
    BY <1>4, <1>5
  <2>4. PICK p0 \in Int, q0 \in Int : p0 = p % WORD /\ q0 = q % WORD
    BY <1>1, <1>4, <1>5
  <2>5. q0 - p0 - brw = d + WORD * (p1 - q1)
    BY <1>1, <1>10, <2>3, <2>4
  <2>6. PICK e \in Int, z \in Int, m \in Int :
          /\ e = q0 - p0 - brw /\ z = d /\ m = p1 - q1
    BY <1>1, <1>9, <1>10
  <2>7. z \in 0 .. WORD - 1 /\ e = z + WORD * m
    BY <1>1, <2>1, <2>2, <2>5, <2>6
  <2>8. e % WORD = z
    BY <1>1, <2>7, DigitsOnly
  <2> QED
    BY <2>4, <2>6, <2>8
<1>12. get_counter(access_counter(a), access_counter(b)) = d * WORD + lo
  BY <1>6, <1>7, <1>8, <1>11 DEF get_counter
<1> QED
  BY <1>1, <1>7, <1>9, <1>12

(* Seconds and microseconds, too, whichever of the microseconds are more.  *)
LEMMA BetweenIs ==
  ASSUME NEW a \in Int, NEW b \in Int
  PROVE  Between(TimeOf(a), TimeOf(b)) = b - a
<1>1. MICROS \in Nat /\ MICROS > 0
  BY TimerAssumption
<1>2. a = (a % MICROS) + MICROS * (a \div MICROS) /\ b = (b % MICROS) + MICROS * (b \div MICROS)
  BY <1>1, Digits
<1>3. PICK p \in Int, q \in Int, r \in Int, s \in Int :
        p = a \div MICROS /\ q = b \div MICROS /\ r = a % MICROS /\ s = b % MICROS
  BY <1>1, Digits
<1>4. Between(TimeOf(a), TimeOf(b)) = MICROS * (q - p) + (s - r)
  BY <1>3 DEF Between, TimeOf
<1> QED
  BY <1>1, <1>2, <1>3, <1>4

-----------------------------------------------------------------------------
(* The insertion sort.                                                     *)

Low(S) == CHOOSE x \in S : \A y \in S : x <= y

LEMMA LowIs ==
  ASSUME NEW S, S \subseteq Nat, S # {}
  PROVE  Low(S) \in S /\ \A y \in S : Low(S) <= y
<1> DEFINE R == OpToRel(<, Nat)
<1>1. IsWellFoundedOn(R, Nat)
  BY NatLessThanWellFounded, Zenon
<1>2. \A x, y \in Nat : x < y => <<x, y>> \in R
  BY Zenon DEF OpToRel
<1> HIDE DEF R
<1>3. PICK x \in S : \A y \in S : ~(<<y, x>> \in R)
  BY <1>1, WFMin, Zenon
<1>4. \A y \in S : x <= y
  <2> SUFFICES ASSUME NEW y \in S
               PROVE  x <= y
    OBVIOUS
  <2>1. x \in Nat /\ y \in Nat
    OBVIOUS
  <2>2. ~(y < x)
    BY <1>2, <1>3, <2>1
  <2> QED
    BY <2>1, <2>2
<1> QED
  BY <1>4, Zenon DEF Low

(* From p the entry sinks through the places in T to this one. *)
Rest(T, p) == Low({s \in 0 .. p : \A q \in s + 1 .. p : q \in T})

LEMMA RestIs ==
  ASSUME NEW T, NEW p \in Nat
  PROVE  /\ p \notin T => Rest(T, p) = p
         /\ p \in T /\ p > 0 => Rest(T, p) = Rest(T, p - 1)
<1> DEFINE S(n) == {s \in 0 .. n : \A q \in s + 1 .. n : q \in T}
<1>1. \A n \in Nat : S(n) \subseteq Nat /\ n \in S(n)
  OBVIOUS
<1>2. CASE p \notin T
  <2>1. \A s \in S(p) : s = p
    <3> SUFFICES ASSUME NEW s \in S(p)
                 PROVE  s = p
      OBVIOUS
    <3>1. s \in Nat /\ s <= p
      OBVIOUS
    <3>2. s < p => p \in s + 1 .. p
      BY <3>1
    <3> QED
      BY <1>2, <3>1, <3>2
  <2>2. Low(S(p)) \in S(p)
    <3> HIDE DEF S
    <3> QED
      BY <1>1, LowIs
  <2> QED
    BY <1>2, <2>1, <2>2 DEF Rest
<1>3. CASE p \in T /\ p > 0
  <2>1. p - 1 \in Nat
    BY <1>3
  <2>2. \A s : s \in S(p) <=> s = p \/ s \in S(p - 1)
    <3> SUFFICES ASSUME NEW s
                 PROVE  s \in S(p) <=> s = p \/ s \in S(p - 1)
      OBVIOUS
    <3>1. CASE s \in 0 .. p - 1
      <4>1. \A q : q \in s + 1 .. p <=> q = p \/ q \in s + 1 .. p - 1
        BY <2>1, <3>1
      <4> QED
        BY <1>3, <2>1, <3>1, <4>1
    <3>2. CASE s = p
      BY <1>1, <3>2
    <3>3. CASE s \notin 0 .. p
      BY <2>1, <3>3
    <3> QED
      BY <2>1, <3>1, <3>2, <3>3
  <2> HIDE DEF S
  <2>3. PICK a, b : a = Low(S(p)) /\ b = Low(S(p - 1))
    OBVIOUS
  <2>4. a \in S(p) /\ \A y \in S(p) : a <= y
    BY <1>1, <2>3, LowIs
  <2>5. b \in S(p - 1) /\ \A y \in S(p - 1) : b <= y
    BY <1>1, <2>1, <2>3, LowIs
  <2>6. a <= p - 1 /\ a <= b
    BY <1>1, <2>1, <2>2, <2>4, <2>5
  <2>7. a # p /\ a \in Nat /\ b \in Nat
    BY <1>1, <2>1, <2>4, <2>5, <2>6
  <2>8. b <= a
    BY <2>2, <2>4, <2>5, <2>7
  <2>9. a = b
    BY <2>6, <2>7, <2>8
  <2> QED
    BY <1>3, <2>3, <2>9 DEF Rest, S
<1> QED
  BY <1>2, <1>3

(* The turns of the loop end where the entry in front is not greater.      *)
LEMMA SinksTo ==
  ASSUME NEW T, NEW n \in Nat, T \subseteq 1 .. n - 1,
         NEW f, f = [p \in 0 .. n - 1 |-> IF p \in T THEN f[p - 1] ELSE p],
         NEW pos \in 0 .. n - 1
  PROVE  /\ f[pos] \in 0 .. pos /\ f[pos] \notin T
         /\ \A q \in f[pos] + 1 .. pos : q \in T
<1> DEFINE U == {p \in 0 .. pos : f[p] = f[pos] /\ \A q \in p + 1 .. pos : q \in T}
<1>1. U \subseteq Nat /\ pos \in U
  OBVIOUS
<1>2. PICK u \in U : \A y \in U : u <= y
  <2> HIDE DEF U
  <2> QED
    BY <1>1, LowIs
<1>3. u \in 0 .. pos /\ f[u] = f[pos] /\ \A q \in u + 1 .. pos : q \in T
  OBVIOUS
<1>4. u \notin T
  <2> SUFFICES ASSUME u \in T
               PROVE  FALSE
    OBVIOUS
  <2>1. u - 1 \in 0 .. pos /\ f[u] = f[u - 1]
    BY <1>3
  <2>2. \A q \in u .. pos : q = u \/ q \in u + 1 .. pos
    BY <1>3
  <2>3. u - 1 \in U
    BY <1>3, <2>1, <2>2
  <2> HIDE DEF U
  <2>4. u <= u - 1
    BY <1>2, <2>3
  <2> QED
    BY <1>3, <2>4
<1>5. f[u] = u
  BY <1>3, <1>4
<1> QED
  BY <1>3, <1>4, <1>5

LEMMA SortedIs ==
  ASSUME kbest \in Nat, NEW vals \in [Index -> Int], NEW pos \in Index
  PROVE  \E s \in 0 .. pos :
           /\ \A q \in s .. pos - 1 : vals[q] > vals[pos]
           /\ s > 0 => vals[s - 1] <= vals[pos]
           /\ Sorted(vals, pos) =
                [j \in Index |-> CASE j = s -> vals[pos]
                                   [] j \in s + 1 .. pos -> vals[j - 1]
                                   [] OTHER -> vals[j]]
<1> DEFINE T == {p \in Index : p > 0 /\ vals[p - 1] > vals[pos]}
<1>1. T \subseteq 1 .. kbest - 1 /\ pos \in 0 .. kbest - 1 /\ Index = 0 .. kbest - 1
  BY DEF Index
<1>2. PICK G : G = [p \in Index |-> Rest(T, p)]
  OBVIOUS
<1>3. G = [p \in Index |-> IF p > 0 /\ vals[p - 1] > vals[pos] THEN G[p - 1] ELSE p]
  <2>1. \A p \in Index : Rest(T, p) = IF p \in T THEN G[p - 1] ELSE p
    <3> SUFFICES ASSUME NEW p \in Index
                 PROVE  Rest(T, p) = IF p \in T THEN G[p - 1] ELSE p
      OBVIOUS
    <3>1. p \in Nat
      BY <1>1
    <3>2. p \in T => p > 0 /\ G[p - 1] = Rest(T, p - 1)
      BY <1>1, <1>2, <3>1
    <3> HIDE DEF T
    <3> QED
      BY <3>1, <3>2, RestIs
  <2>2. \A p \in Index : p \in T <=> p > 0 /\ vals[p - 1] > vals[pos]
    OBVIOUS
  <2> HIDE DEF T
  <2>3. G = [p \in Index |-> IF p \in T THEN G[p - 1] ELSE p]
    BY <1>2, <2>1
  <2> QED
    BY <2>2, <2>3
<1>4. PICK f : /\ f = [p \in Index |-> IF p > 0 /\ vals[p - 1] > vals[pos]
                                       THEN f[p - 1] ELSE p]
               /\ Sorted(vals, pos) =
                    [j \in Index |-> CASE j = f[pos] -> vals[pos]
                                       [] j \in f[pos] + 1 .. pos -> vals[j - 1]
                                       [] OTHER -> vals[j]]
  BY <1>3, Zenon DEF Sorted
<1>5. f = [p \in 0 .. kbest - 1 |-> IF p \in T THEN f[p - 1] ELSE p]
  BY <1>1, <1>4
<1>6. \A p \in T : vals[p - 1] > vals[pos]
  OBVIOUS
<1>7. \A p \in Index : p > 0 /\ p \notin T => vals[p - 1] <= vals[pos]
  BY <1>1
<1> HIDE DEF T
<1>8. /\ f[pos] \in 0 .. pos /\ f[pos] \notin T
      /\ \A q \in f[pos] + 1 .. pos : q \in T
  BY <1>1, <1>5, SinksTo
<1>9. \A q \in f[pos] .. pos - 1 : vals[q] > vals[pos]
  <2> SUFFICES ASSUME NEW q \in f[pos] .. pos - 1
               PROVE  vals[q] > vals[pos]
    OBVIOUS
  <2>1. q + 1 \in T /\ (q + 1) - 1 = q
    BY <1>1, <1>8
  <2> QED
    BY <1>6, <2>1
<1>10. f[pos] > 0 => vals[f[pos] - 1] <= vals[pos]
  BY <1>1, <1>7, <1>8
<1> QED
  BY <1>4, <1>8, <1>9, <1>10

(* The first entries of vals, count of them at most, in ascending order.   *)
Ascending(vals, count) ==
  \A i, j \in Index : (i <= j /\ j < count) => vals[i] <= vals[j]

(* r is vals with val put in at s, in front of the first that is greater.  *)
PutIn(vals, count, val, r, s) ==
  /\ r \in [Index -> Int] /\ s \in Index /\ s <= count
  /\ \A j \in Index : j < s => r[j] = vals[j] /\ vals[j] <= val
  /\ r[s] = val
  /\ \A j \in Index : (s < j /\ j <= count) => r[j] = vals[j - 1] /\ vals[j - 1] > val
  /\ s < count => vals[s] > val

LEMMA AddIs ==
  ASSUME kbest \in Nat \ {0}, values \in [Index -> Int], samplecount \in Nat,
         Ascending(values, samplecount), NEW val \in Int
  PROVE  \/ /\ add_sample(val) = values
            /\ samplecount >= kbest /\ val >= values[kbest - 1]
         \/ \E s : PutIn(values, samplecount, val, add_sample(val), s)
<1>1. Index = 0 .. kbest - 1 /\ kbest \in Nat /\ kbest > 0
  BY DEF Index
<1>2. \A pos \in Index : [values EXCEPT ![pos] = val] \in [Index -> Int]
  OBVIOUS
<1>3. ASSUME NEW pos \in Index, pos <= samplecount,
             samplecount <= pos \/ (pos = kbest - 1 /\ values[pos] > val),
             add_sample(val) = Sorted([values EXCEPT ![pos] = val], pos)
      PROVE  \E s : PutIn(values, samplecount, val, add_sample(val), s)
  <2>1. PICK w : w = [values EXCEPT ![pos] = val]
    OBVIOUS
  <2>2. /\ w \in [Index -> Int] /\ w[pos] = val
        /\ \A j \in Index : j # pos => w[j] = values[j]
    BY <1>2, <2>1
  <2>3. PICK s \in 0 .. pos :
           /\ \A q \in s .. pos - 1 : w[q] > w[pos]
           /\ s > 0 => w[s - 1] <= w[pos]
           /\ Sorted(w, pos) =
                [j \in Index |-> CASE j = s -> w[pos]
                                   [] j \in s + 1 .. pos -> w[j - 1]
                                   [] OTHER -> w[j]]
    BY <1>1, <2>2, SortedIs
  <2>4. PICK r : r = add_sample(val)
    OBVIOUS
  <2>5. r = [j \in Index |-> CASE j = s -> w[pos]
                               [] j \in s + 1 .. pos -> w[j - 1]
                               [] OTHER -> w[j]]
    BY <1>3, <2>1, <2>3, <2>4
  <2>6. s \in Index /\ s <= pos /\ s \in Nat /\ pos \in Nat /\ pos <= kbest - 1
    BY <1>1, <2>3
  <2>7. r[s] = val
    BY <2>2, <2>5, <2>6
  <2>8. \A j \in Index : (s < j /\ j <= pos) => j - 1 \in Index /\ r[j] = w[j - 1] /\ j - 1 # pos
    BY <1>1, <2>5, <2>6
  <2>9. \A j \in Index : j < s => r[j] = w[j] /\ j # pos
    BY <1>1, <2>5, <2>6
  <2>10. \A q \in s .. pos - 1 : q \in Index /\ values[q] > val
    BY <1>1, <2>2, <2>3, <2>6
  <2>11. s > 0 => s - 1 \in Index /\ values[s - 1] <= val
    <3> SUFFICES ASSUME s > 0
                 PROVE  s - 1 \in Index /\ values[s - 1] <= val
      OBVIOUS
    <3>1. s - 1 \in Index /\ s - 1 # pos
      BY <1>1, <2>6
    <3>2. w[s - 1] <= w[pos]
      BY <2>3
    <3>3. w[s - 1] = values[s - 1] /\ w[pos] = val
      BY <2>2, <3>1
    <3> QED
      BY <3>1, <3>2, <3>3
  <2>12. r \in [Index -> Int]
    <3>1. \A j \in Index : (CASE j = s -> w[pos]
                              [] j \in s + 1 .. pos -> w[j - 1]
                              [] OTHER -> w[j]) \in Int
      <4> SUFFICES ASSUME NEW j \in Index
                   PROVE  (CASE j = s -> w[pos]
                              [] j \in s + 1 .. pos -> w[j - 1]
                              [] OTHER -> w[j]) \in Int
        OBVIOUS
      <4>1. j \in s + 1 .. pos => j - 1 \in Index
        BY <1>1, <2>6
      <4> QED
        BY <2>2, <4>1
    <3> QED
      BY <2>5, <3>1
  <2>13. \A j \in Index : j < s => r[j] = values[j] /\ values[j] <= val
    <3> SUFFICES ASSUME NEW j \in Index, j < s
                 PROVE  r[j] = values[j] /\ values[j] <= val
      OBVIOUS
    <3>1. r[j] = values[j]
      BY <2>2, <2>9
    <3>2. s > 0 /\ j <= s - 1 /\ s - 1 < samplecount /\ s - 1 \in Index
      BY <1>1, <1>3, <2>6
    <3>3. values[j] <= values[s - 1]
      BY <3>2 DEF Ascending
    <3>4. values[j] \in Int /\ values[s - 1] \in Int
      BY <3>2
    <3> QED
      BY <2>11, <3>1, <3>2, <3>3, <3>4
  <2>14. \A j \in Index : (s < j /\ j <= samplecount) =>
            r[j] = values[j - 1] /\ values[j - 1] > val
    <3> SUFFICES ASSUME NEW j \in Index, s < j, j <= samplecount
                 PROVE  r[j] = values[j - 1] /\ values[j - 1] > val
      OBVIOUS
    <3>1. j <= pos
      BY <1>1, <1>3, <2>6
    <3>2. r[j] = values[j - 1]
      BY <2>2, <2>8, <3>1
    <3>3. j - 1 \in s .. pos - 1
      BY <1>1, <2>6, <3>1
    <3> QED
      BY <2>10, <3>2, <3>3
  <2>15. s < samplecount => values[s] > val
    BY <1>1, <1>3, <2>6, <2>10
  <2>16. s <= samplecount
    BY <1>3, <2>6
  <2> QED
    BY <2>4, <2>6, <2>7, <2>12, <2>13, <2>14, <2>15, <2>16 DEF PutIn
<1>4. CASE samplecount < kbest
  <2>1. add_sample(val) = Sorted([values EXCEPT ![samplecount] = val], samplecount)
    BY <1>4 DEF add_sample
  <2>2. samplecount \in Index /\ samplecount <= samplecount
    BY <1>1, <1>4
  <2>3. \E s : PutIn(values, samplecount, val, add_sample(val), s)
    BY <1>3, <2>1, <2>2, Zenon
  <2> QED
    BY <2>3
<1>5. CASE samplecount >= kbest /\ val < values[kbest - 1]
  <2>1. add_sample(val) = Sorted([values EXCEPT ![kbest - 1] = val], kbest - 1)
    BY <1>1, <1>5 DEF add_sample
  <2>2. kbest - 1 \in Index /\ kbest - 1 <= samplecount /\ values[kbest - 1] > val
    BY <1>1, <1>5
  <2> QED
    BY <1>3, <2>1, <2>2
<1>6. CASE samplecount >= kbest /\ ~(val < values[kbest - 1])
  <2>1. add_sample(val) = values
    BY <1>1, <1>6 DEF add_sample
  <2>2. values[kbest - 1] \in Int
    BY <1>1
  <2> QED
    BY <1>6, <2>1, <2>2
<1> QED
  BY <1>1, <1>4, <1>5, <1>6

-----------------------------------------------------------------------------
(* How many of the first c samples are below x, and how many not above.    *)

Less(t, c, x)   == {m \in 1 .. c : t[m].time < x}
AtMost(t, c, x) == {m \in 1 .. c : t[m].time <= x}

LEMMA OneMore ==
  ASSUME NEW c \in Nat, NEW A, A \subseteq 1 .. c
  PROVE  /\ IsFiniteSet(A) /\ Cardinality(A) \in Nat /\ Cardinality(A) <= c
         /\ Cardinality(A \union {c + 1}) = Cardinality(A) + 1
<1>1. IsFiniteSet(1 .. c) /\ Cardinality(1 .. c) = c
  BY FS_Interval
<1>2. IsFiniteSet(A) /\ Cardinality(A) \in Nat /\ Cardinality(A) <= c
  BY <1>1, FS_Subset, FS_CardinalityType
<1>3. c + 1 \notin A
  OBVIOUS
<1> QED
  BY <1>2, <1>3, FS_AddElement

LEMMA NoFewer ==
  ASSUME NEW c \in Nat, NEW B, B \subseteq 1 .. c, NEW A, A \subseteq B
  PROVE  Cardinality(A) <= Cardinality(B)
BY OneMore, FS_Subset

LEMMA CountsIn ==
  ASSUME NEW t, NEW c \in Nat, NEW x
  PROVE  /\ Less(t, c, x) \subseteq 1 .. c /\ AtMost(t, c, x) \subseteq 1 .. c
         /\ Cardinality(Less(t, c, x)) \in Nat /\ Cardinality(Less(t, c, x)) <= c
         /\ Cardinality(AtMost(t, c, x)) \in Nat /\ Cardinality(AtMost(t, c, x)) <= c
<1>1. Less(t, c, x) \subseteq 1 .. c /\ AtMost(t, c, x) \subseteq 1 .. c
  BY DEF Less, AtMost
<1> QED
  BY <1>1, OneMore

(* u goes on where t ends. *)
Continues(u, t, c) ==
  /\ \A m \in 1 .. c : t[m].time \in Int /\ u[m].time = t[m].time
  /\ u[c + 1].time \in Int

LEMMA LessNext ==
  ASSUME NEW t, NEW u, NEW c \in Nat, Continues(u, t, c), NEW x \in Int
  PROVE  Cardinality(Less(u, c + 1, x)) =
           Cardinality(Less(t, c, x)) + IF u[c + 1].time < x THEN 1 ELSE 0
<1>1. \A m : m \in 1 .. c + 1 <=> m \in 1 .. c \/ m = c + 1
  OBVIOUS
<1>2. Less(t, c, x) \subseteq 1 .. c /\ Cardinality(Less(t, c, x)) \in Nat
  BY CountsIn
<1>3. CASE u[c + 1].time < x
  <2>1. Less(u, c + 1, x) = Less(t, c, x) \union {c + 1}
    BY <1>1, <1>3 DEF Less, Continues
  <2>2. Cardinality(Less(t, c, x) \union {c + 1}) = Cardinality(Less(t, c, x)) + 1
    BY <1>2, OneMore
  <2> QED
    BY <1>3, <2>1, <2>2
<1>4. CASE ~(u[c + 1].time < x)
  <2>1. Less(u, c + 1, x) = Less(t, c, x)
    BY <1>1, <1>4 DEF Less, Continues
  <2> QED
    BY <1>2, <1>4, <2>1
<1> QED
  BY <1>3, <1>4

LEMMA AtMostNext ==
  ASSUME NEW t, NEW u, NEW c \in Nat, Continues(u, t, c), NEW x \in Int
  PROVE  Cardinality(AtMost(u, c + 1, x)) =
           Cardinality(AtMost(t, c, x)) + IF u[c + 1].time <= x THEN 1 ELSE 0
<1>1. \A m : m \in 1 .. c + 1 <=> m \in 1 .. c \/ m = c + 1
  OBVIOUS
<1>2. AtMost(t, c, x) \subseteq 1 .. c /\ Cardinality(AtMost(t, c, x)) \in Nat
  BY CountsIn
<1>3. CASE u[c + 1].time <= x
  <2>1. AtMost(u, c + 1, x) = AtMost(t, c, x) \union {c + 1}
    BY <1>1, <1>3 DEF AtMost, Continues
  <2>2. Cardinality(AtMost(t, c, x) \union {c + 1}) = Cardinality(AtMost(t, c, x)) + 1
    BY <1>2, OneMore
  <2> QED
    BY <1>3, <2>1, <2>2
<1>4. CASE ~(u[c + 1].time <= x)
  <2>1. AtMost(u, c + 1, x) = AtMost(t, c, x)
    BY <1>1, <1>4 DEF AtMost, Continues
  <2> QED
    BY <1>2, <1>4, <2>1
<1> QED
  BY <1>3, <1>4

(* More are below, or not above, a greater number. *)
LEMMA CountsGrow ==
  ASSUME NEW t, NEW c \in Nat, \A m \in 1 .. c : t[m].time \in Int,
         NEW x \in Int, NEW y \in Int, x <= y
  PROVE  /\ Cardinality(Less(t, c, x)) <= Cardinality(Less(t, c, y))
         /\ Cardinality(AtMost(t, c, x)) <= Cardinality(AtMost(t, c, y))
<1>1. Less(t, c, x) \subseteq Less(t, c, y)
  BY DEF Less
<1>2. AtMost(t, c, x) \subseteq AtMost(t, c, y)
  BY DEF AtMost
<1> QED
  BY <1>1, <1>2, CountsIn, NoFewer

(* vals[j] has at most j of the samples below it, and more not above it.   *)
Ranked(vals, t, c) ==
  \A j \in Index : j < c =>
    /\ Cardinality(Less(t, c, vals[j])) <= j
    /\ Cardinality(AtMost(t, c, vals[j])) > j

(* A sample is kept or is not one of the shortest. *)
Kept(vals, c, val, r) ==
  \/ r = vals /\ c >= kbest /\ val >= vals[kbest - 1]
  \/ \E s : PutIn(vals, c, val, r, s)

LEMMA AscendingNext ==
  ASSUME kbest \in Nat \ {0}, NEW c \in Nat, NEW vals \in [Index -> Int], NEW val \in Int,
         Ascending(vals, c), NEW r, Kept(vals, c, val, r)
  PROVE  Ascending(r, c + 1)
<1>1. Index = 0 .. kbest - 1 /\ kbest \in Nat /\ kbest > 0
  BY DEF Index
<1>2. CASE r = vals /\ c >= kbest
  BY <1>1, <1>2 DEF Ascending
<1>3. CASE \E s : PutIn(vals, c, val, r, s)
  <2>1. PICK s : PutIn(vals, c, val, r, s)
    BY <1>3
  <2>2. s \in Nat /\ r[s] = val
    BY <1>1, <2>1 DEF PutIn
  <2> SUFFICES ASSUME NEW i \in Index, NEW j \in Index, i <= j, j < c + 1
               PROVE  r[i] <= r[j]
    BY DEF Ascending
  <2>3. i \in Nat /\ j \in Nat /\ j <= c
    BY <1>1
  <2>4. i < s => r[i] = vals[i] /\ vals[i] <= val
    BY <2>1 DEF PutIn
  <2>5. j < s => r[j] = vals[j]
    BY <2>1 DEF PutIn
  <2>6. s < j => r[j] = vals[j - 1] /\ vals[j - 1] > val
    BY <2>1, <2>3 DEF PutIn
  <2>7. s < i => r[i] = vals[i - 1]
    BY <2>1, <2>3 DEF PutIn
  <2>8. vals[i] \in Int /\ vals[j] \in Int
    OBVIOUS
  <2>9. /\ j > 0 => j - 1 \in Index /\ vals[j - 1] \in Int
        /\ i > 0 => i - 1 \in Index
    BY <1>1
  <2>10. CASE j < s
    <3>1. j < c
      <4>1. s <= c
        BY <2>1 DEF PutIn
      <4> QED
        BY <2>2, <2>3, <2>10, <4>1
    <3>2. vals[i] <= vals[j]
      BY <3>1 DEF Ascending
    <3>3. i < s
      BY <2>2, <2>3, <2>10
    <3> QED
      BY <2>4, <2>5, <2>10, <3>2, <3>3
  <2>11. CASE j = s
    <3>1. i < s \/ i = s
      BY <2>2, <2>3, <2>11
    <3> QED
      BY <2>2, <2>4, <2>11, <3>1
  <2>12. CASE s < j
    <3>1. CASE i <= s
      <4>1. r[i] <= val /\ r[i] \in Int
        BY <2>2, <2>3, <2>4, <2>8, <3>1
      <4> QED
        BY <2>2, <2>3, <2>6, <2>9, <2>12, <4>1
    <3>2. CASE s < i
      <4>1. i > 0 /\ j > 0 /\ i - 1 <= j - 1 /\ j - 1 < c
        BY <2>2, <2>3, <3>2
      <4>2. vals[i - 1] <= vals[j - 1]
        BY <2>9, <4>1 DEF Ascending
      <4> QED
        BY <2>6, <2>7, <2>12, <3>2, <4>2
    <3> QED
      BY <2>2, <2>3, <3>1, <3>2
  <2> QED
    BY <2>2, <2>3, <2>10, <2>11, <2>12
<1> QED
  BY <1>2, <1>3 DEF Kept

LEMMA RankedNext ==
  ASSUME kbest \in Nat \ {0}, NEW c \in Nat, NEW vals \in [Index -> Int], NEW val \in Int,
         Ascending(vals, c), NEW r, Kept(vals, c, val, r),
         NEW t, NEW u, Continues(u, t, c), u[c + 1].time = val, Ranked(vals, t, c)
  PROVE  Ranked(r, u, c + 1)
<1>1. Index = 0 .. kbest - 1 /\ kbest \in Nat /\ kbest > 0
  BY DEF Index
<1>2. \A m \in 1 .. c : t[m].time \in Int
  BY DEF Continues
<1>3. ASSUME NEW x \in Int
      PROVE  /\ Cardinality(Less(u, c + 1, x)) =
                  Cardinality(Less(t, c, x)) + IF val < x THEN 1 ELSE 0
             /\ Cardinality(AtMost(u, c + 1, x)) =
                  Cardinality(AtMost(t, c, x)) + IF val <= x THEN 1 ELSE 0
             /\ Cardinality(Less(t, c, x)) \in Nat /\ Cardinality(Less(t, c, x)) <= c
             /\ Cardinality(AtMost(t, c, x)) \in Nat
  <2>1. Cardinality(Less(u, c + 1, x)) =
          Cardinality(Less(t, c, x)) + IF u[c + 1].time < x THEN 1 ELSE 0
    BY LessNext
  <2>2. Cardinality(AtMost(u, c + 1, x)) =
          Cardinality(AtMost(t, c, x)) + IF u[c + 1].time <= x THEN 1 ELSE 0
    BY AtMostNext
  <2> QED
    BY <2>1, <2>2, CountsIn
<1> SUFFICES ASSUME NEW j \in Index, j < c + 1
             PROVE  /\ Cardinality(Less(u, c + 1, r[j])) <= j
                    /\ Cardinality(AtMost(u, c + 1, r[j])) > j
  BY DEF Ranked
<1>4. j \in Nat /\ j <= c
  BY <1>1
<1>5. ASSUME NEW k \in Index, k < c
      PROVE  /\ Cardinality(Less(t, c, vals[k])) <= k
             /\ Cardinality(AtMost(t, c, vals[k])) > k
             /\ vals[k] \in Int /\ k \in Nat
  BY <1>1, <1>5 DEF Ranked
<1>6. CASE r = vals /\ c >= kbest /\ val >= vals[kbest - 1]
  <2>1. j < c /\ kbest - 1 \in Index /\ j <= kbest - 1 /\ kbest - 1 < c
    BY <1>1, <1>6
  <2>2. vals[j] <= vals[kbest - 1]
    BY <2>1 DEF Ascending
  <2>3. vals[j] \in Int /\ vals[kbest - 1] \in Int
    BY <2>1
  <2>4. ~(val < vals[j])
    BY <1>6, <2>2, <2>3
  <2>5. /\ Cardinality(Less(t, c, vals[j])) <= j
        /\ Cardinality(AtMost(t, c, vals[j])) > j
    BY <1>5, <2>1
  <2>6. PICK x \in Int : x = vals[j]
    BY <2>3
  <2>7. /\ Cardinality(Less(u, c + 1, x)) = Cardinality(Less(t, c, x))
        /\ Cardinality(AtMost(u, c + 1, x)) >= Cardinality(AtMost(t, c, x))
        /\ Cardinality(AtMost(u, c + 1, x)) \in Nat /\ Cardinality(AtMost(t, c, x)) \in Nat
    BY <1>3, <2>4, <2>6
  <2>8. r[j] = x
    BY <1>6, <2>6
  <2> QED
    BY <1>4, <2>5, <2>6, <2>7, <2>8
<1>7. CASE \E s : PutIn(vals, c, val, r, s)
  <2>1. PICK s : PutIn(vals, c, val, r, s)
    BY <1>7
  <2>2. s \in Nat /\ s \in Index /\ r[s] = val /\ s <= c
    BY <1>1, <2>1 DEF PutIn
  <2>3. CASE j < s
    <3>1. r[j] = vals[j] /\ vals[j] <= val /\ j < c
      BY <1>4, <2>1, <2>2, <2>3 DEF PutIn
    <3>2. PICK x \in Int : x = vals[j]
      OBVIOUS
    <3>3. /\ Cardinality(Less(t, c, x)) <= j
          /\ Cardinality(AtMost(t, c, x)) > j
      BY <1>5, <3>1, <3>2
    <3>4. ~(val < x)
      BY <3>1, <3>2
    <3>5. /\ Cardinality(Less(u, c + 1, x)) = Cardinality(Less(t, c, x))
          /\ Cardinality(AtMost(u, c + 1, x)) >= Cardinality(AtMost(t, c, x))
          /\ Cardinality(AtMost(u, c + 1, x)) \in Nat /\ Cardinality(AtMost(t, c, x)) \in Nat
      BY <1>3, <3>4
    <3>6. r[j] = x
      BY <3>1, <3>2
    <3> QED
      BY <1>4, <3>3, <3>5, <3>6
  <2>4. CASE j = s
    <3>1. /\ Cardinality(Less(u, c + 1, val)) = Cardinality(Less(t, c, val))
          /\ Cardinality(AtMost(u, c + 1, val)) = Cardinality(AtMost(t, c, val)) + 1
          /\ Cardinality(Less(t, c, val)) \in Nat /\ Cardinality(Less(t, c, val)) <= c
          /\ Cardinality(AtMost(t, c, val)) \in Nat
      BY <1>3
    <3>2. Cardinality(Less(t, c, val)) <= s
      <4>1. CASE s < c
        <5>1. vals[s] >= val /\ vals[s] \in Int
          BY <2>1, <2>2, <4>1 DEF PutIn
        <5>2. Cardinality(Less(t, c, val)) <= Cardinality(Less(t, c, vals[s]))
          <6>1. PICK y \in Int : y = vals[s] /\ val <= y
            BY <5>1
          <6>2. Cardinality(Less(t, c, val)) <= Cardinality(Less(t, c, y))
            BY <1>2, <6>1, CountsGrow
          <6> QED
            BY <6>1, <6>2
        <5>3. Cardinality(Less(t, c, vals[s])) <= s /\ Cardinality(Less(t, c, vals[s])) \in Nat
          BY <1>5, <2>2, <4>1, CountsIn
        <5> QED
          BY <2>2, <3>1, <5>2, <5>3
      <4>2. CASE s = c
        BY <3>1, <4>2
      <4> QED
        BY <2>2, <4>1, <4>2
    <3>3. Cardinality(AtMost(t, c, val)) >= s
      <4>1. CASE s > 0
        <5>1. s - 1 \in Index /\ s - 1 < s /\ s - 1 < c
          BY <1>1, <2>2, <4>1
        <5>2. vals[s - 1] <= val /\ vals[s - 1] \in Int
          BY <2>1, <5>1 DEF PutIn
        <5>3. Cardinality(AtMost(t, c, vals[s - 1])) <= Cardinality(AtMost(t, c, val))
          BY <1>2, <5>2, CountsGrow
        <5>4. /\ Cardinality(AtMost(t, c, vals[s - 1])) > s - 1
              /\ Cardinality(AtMost(t, c, vals[s - 1])) \in Nat
          BY <1>5, <5>1, CountsIn
        <5> QED
          BY <2>2, <3>1, <5>3, <5>4
      <4>2. CASE s = 0
        BY <3>1, <4>2
      <4> QED
        BY <2>2, <4>1, <4>2
    <3>4. r[j] = val /\ j = s
      BY <2>2, <2>4
    <3> QED
      BY <2>2, <3>1, <3>2, <3>3, <3>4
  <2>5. CASE s < j
    <3>1. r[j] = vals[j - 1] /\ vals[j - 1] > val
      BY <1>4, <2>1, <2>5 DEF PutIn
    <3>2. j - 1 \in Index /\ j - 1 < c
      BY <1>1, <1>4, <2>2, <2>5
    <3>3. PICK x \in Int : x = vals[j - 1]
      BY <3>2
    <3>4. /\ Cardinality(Less(t, c, x)) <= j - 1
          /\ Cardinality(AtMost(t, c, x)) > j - 1
      BY <1>5, <3>2, <3>3
    <3>5. val < x /\ val <= x
      BY <3>1, <3>3
    <3>6. /\ Cardinality(Less(u, c + 1, x)) = Cardinality(Less(t, c, x)) + 1
          /\ Cardinality(AtMost(u, c + 1, x)) = Cardinality(AtMost(t, c, x)) + 1
          /\ Cardinality(Less(t, c, x)) \in Nat /\ Cardinality(AtMost(t, c, x)) \in Nat
      BY <1>3, <3>5
    <3>7. r[j] = x
      BY <3>1, <3>3
    <3> QED
      BY <1>4, <3>4, <3>6, <3>7
  <2> QED
    BY <1>4, <2>2, <2>3, <2>4, <2>5
<1> QED
  BY <1>6, <1>7 DEF Kept

(* The first of the best is the shortest sample. *)
LEMMA FirstIsLeast ==
  ASSUME kbest \in Nat \ {0}, NEW c \in Nat, c > 0, NEW vals \in [Index -> Int], NEW t,
         \A m \in 1 .. c : t[m].time \in Int, Ranked(vals, t, c)
  PROVE  /\ vals[0] \in Int
         /\ \A m \in 1 .. c : vals[0] <= t[m].time
         /\ \E m \in 1 .. c : t[m].time = vals[0]
<1>1. 0 \in Index /\ vals[0] \in Int
  BY DEF Index
<1>2. /\ Cardinality(Less(t, c, vals[0])) <= 0
      /\ Cardinality(AtMost(t, c, vals[0])) > 0
  BY <1>1 DEF Ranked
<1>3. /\ Less(t, c, vals[0]) \subseteq 1 .. c /\ AtMost(t, c, vals[0]) \subseteq 1 .. c
      /\ Cardinality(Less(t, c, vals[0])) \in Nat
  BY CountsIn
<1>4. Less(t, c, vals[0]) = {}
  <2>1. Cardinality(Less(t, c, vals[0])) = 0
    BY <1>2, <1>3
  <2>2. IsFiniteSet(Less(t, c, vals[0]))
    BY <1>3, OneMore
  <2> QED
    BY <2>1, <2>2, FS_EmptySet
<1>5. AtMost(t, c, vals[0]) # {}
  BY <1>2, FS_EmptySet
<1>6. \A m \in 1 .. c : vals[0] <= t[m].time
  BY <1>1, <1>4 DEF Less
<1>7. \E m \in 1 .. c : t[m].time <= vals[0]
  BY <1>5 DEF AtMost
<1> QED
  BY <1>1, <1>6, <1>7

(* Whether K samples agree can be told from the K best. *)
Agree(t, m) ==
  \E s \in 1 .. m :
     /\ \A l \in 1 .. m : t[s].time <= t[l].time
     /\ Cardinality({l \in 1 .. m :
           100 * t[l].time <= (100 + epsilon) * t[s].time}) >= kbest

LEMMA BestAgree ==
  ASSUME kbest \in Nat \ {0}, epsilon \in Nat, NEW c \in Nat, c > 0,
         NEW vals \in [Index -> Int], NEW t,
         \A m \in 1 .. c : t[m].time \in Int, Ranked(vals, t, c)
  PROVE  has_converged(vals, c) <=> Agree(t, c)
<1>1. /\ vals[0] \in Int
      /\ \A m \in 1 .. c : vals[0] <= t[m].time
      /\ \E m \in 1 .. c : t[m].time = vals[0]
  BY FirstIsLeast
<1>2. PICK lim \in Int : lim = (100 + epsilon) * vals[0]
  BY <1>1
<1> DEFINE S == {l \in 1 .. c : 100 * t[l].time <= lim}
<1>3. S \subseteq 1 .. c /\ Cardinality(S) \in Nat /\ Cardinality(S) <= c
  BY OneMore
<1>4. Agree(t, c) <=> Cardinality(S) >= kbest
  <2>1. \A s \in 1 .. c : (\A l \in 1 .. c : t[s].time <= t[l].time) <=> t[s].time = vals[0]
    BY <1>1
  <2>2. \A s \in 1 .. c : t[s].time = vals[0] =>
          {l \in 1 .. c : 100 * t[l].time <= (100 + epsilon) * t[s].time} = S
    BY <1>2
  <2> HIDE DEF S
  <2> QED
    BY <1>1, <2>1, <2>2 DEF Agree
<1>5. kbest \in Nat /\ kbest > 0 /\ kbest - 1 \in Index
  BY DEF Index
<1>6. PICK x \in Int : x = vals[kbest - 1]
  BY <1>5
<1>7. has_converged(vals, c) <=> (c >= kbest /\ lim >= 100 * x)
  BY <1>2, <1>6 DEF has_converged
<1>8. ASSUME c >= kbest, lim >= 100 * x
      PROVE  Cardinality(S) >= kbest
  <2>1. AtMost(t, c, x) \subseteq S
    BY <1>8 DEF AtMost
  <2>2. Cardinality(AtMost(t, c, x)) > kbest - 1
    BY <1>5, <1>6, <1>8 DEF Ranked
  <2> HIDE DEF S
  <2>3. Cardinality(AtMost(t, c, x)) <= Cardinality(S)
    BY <1>3, <2>1, NoFewer
  <2>4. Cardinality(AtMost(t, c, x)) \in Nat
    BY CountsIn
  <2> QED
    BY <1>3, <1>5, <2>2, <2>3, <2>4
<1>9. ASSUME Cardinality(S) >= kbest
      PROVE  c >= kbest /\ lim >= 100 * x
  <2>1. c >= kbest
    <3> HIDE DEF S
    <3> QED
      BY <1>3, <1>5, <1>9
  <2>2. ASSUME lim < 100 * x
        PROVE  FALSE
    <3>1. S \subseteq Less(t, c, x)
      BY <2>2 DEF Less
    <3> HIDE DEF S
    <3>2. Less(t, c, x) \subseteq 1 .. c /\ Cardinality(Less(t, c, x)) \in Nat
      BY CountsIn
    <3>3. Cardinality(S) <= Cardinality(Less(t, c, x))
      BY <3>1, <3>2, NoFewer
    <3>4. Cardinality(Less(t, c, x)) <= kbest - 1
      BY <1>5, <1>6, <2>1 DEF Ranked
    <3> QED
      BY <1>3, <1>5, <1>9, <3>2, <3>3, <3>4
  <2> QED
    BY <2>1, <2>2
<1> QED
  BY <1>4, <1>7, <1>8, <1>9

LEMMA AgreeSame ==
  ASSUME NEW t, NEW u, NEW m, \A l \in 1 .. m : u[l].time = t[l].time
  PROVE  Agree(u, m) <=> Agree(t, m)
<1>1. \A s \in 1 .. m :
        {l \in 1 .. m : 100 * u[l].time <= (100 + epsilon) * u[s].time} =
          {l \in 1 .. m : 100 * t[l].time <= (100 + epsilon) * t[s].time}
  OBVIOUS
<1> QED
  BY <1>1 DEF Agree

-----------------------------------------------------------------------------
(* The invariant.                                                          *)

Turning == {"turn", "callibrate", "run"}
SampleKind == [own : Nat, tick : Nat, price : Nat, time : Int]

SamplerKinds ==
  /\ param \in Params /\ cache_bytes \in CacheSizes /\ cache_buf \in {0, cache_bytes}
  /\ pc \in Turning \union {"init", "idle", "timer", "exit"}
  /\ samplecount \in Nat /\ samplecount <= maxsamples
  /\ pc \in Turning => samplecount < maxsamples
  /\ samplecount > 0 \/ pc \in Turning => values \in [Index -> Int]
  /\ taken \in Seq(SampleKind) /\ Len(taken) = samplecount

(* The ticks counted in have their cycles in the gap, but for one that has *)
(* strayed, and then it is the only one; a tick whose cycles are owed has  *)
(* ended the gap it was counted in.                                        *)
PriceKind(c) == CheapTick <= c /\ c <= DearTick + RECORDTHRESH

ClockKinds ==
  /\ events \in 0 .. NEVENT /\ gap \in 0 .. THRESHOLD - 1
  /\ ticks \in Nat /\ stray \in BOOLEAN /\ owed \in TickCosts \union {0}
  /\ stray => ticks = 1
  /\ owed > 0 => ticks = 0
  /\ stray \/ ticks * CheapTick <= gap
  /\ cyc_per_tick \in Nat /\ (cyc_per_tick # 0 => PriceKind(cyc_per_tick))

(* One timer runs; the samples are the one's, the turns are the others'.   *)
TimersApart ==
  /\ {begun, now, spent} \subseteq Nat /\ turns \in 0 .. RUNS /\ now = begun + spent
  /\ pc = "init" \/ timer # "fcyc" => samplecount = 0
  /\ pc = "init" \/ timer = "fcyc" => turns = 0
  /\ pc \in Turning => timer = "fcyc"
  /\ pc = "timer" => timer # "fcyc"
  /\ pc = "idle" /\ turns = RUNS => result = spent

BestInv ==
  /\ Ascending(values, samplecount) /\ Ranked(values, taken, samplecount)
  /\ pc = "idle" /\ samplecount > 0 => result = values[0]

PaidFor ==
  param.compensate =>
    \A m \in 1 .. samplecount :
       taken[m].price # 0 => taken[m].time <= taken[m].own + Excess(taken[m].tick)

SamplerInv ==
  SamplerKinds /\ ClockKinds /\ TimersApart /\ BestInv /\ StopsWhenConverged /\ PaidFor

LEMMA ParamKinds ==
  ASSUME param \in Params
  PROVE  /\ kbest \in Nat \ {0} /\ maxsamples \in Nat \ {0} /\ epsilon \in Nat
         /\ param.compensate \in BOOLEAN /\ param.clear_cache \in BOOLEAN
BY SamplerAssumption DEF kbest, maxsamples, epsilon

LEMMA SamplerInit ==
  Init => SamplerInv
<1> SUFFICES ASSUME Init
             PROVE  SamplerInv
  OBVIOUS
<1>1. /\ param \in Params /\ cache_bytes \in CacheSizes /\ cache_buf = 0
      /\ values = <<>> /\ samplecount = 0 /\ taken = <<>> /\ pc = "init" /\ result = 0
      /\ timer = "fcyc" /\ begun = 0 /\ now = 0 /\ turns = 0 /\ spent = 0
      /\ cyc_per_tick = 0 /\ events = 0 /\ gap = 0
      /\ ticks = 0 /\ stray = FALSE /\ owed = 0
  BY DEF Init, FcycInit, ClockInit
<1>2. maxsamples \in Nat /\ maxsamples > 0
  BY <1>1, ParamKinds
<1>3. \A j \in Index : ~(j < 0)
  BY DEF Index
<1>4. taken \in Seq(SampleKind) /\ Len(taken) = 0
  BY <1>1, EmptySeq
<1>5. SamplerKinds
  BY <1>1, <1>2, <1>4 DEF SamplerKinds, Turning
<1>6. ClockKinds
  <2>1. CheapTick \in Nat /\ NEVENT \in Nat /\ THRESHOLD \in Nat /\ THRESHOLD > 0
    BY TickAssumption
  <2>2. ticks * CheapTick <= gap
    BY <1>1, <2>1
  <2>3. events \in 0 .. NEVENT /\ gap \in 0 .. THRESHOLD - 1 /\ owed \in TickCosts \union {0}
    BY <1>1, <2>1
  <2>4. ~(owed > 0) /\ ticks \in Nat /\ cyc_per_tick \in Nat
    BY <1>1
  <2> QED
    BY <1>1, <2>2, <2>3, <2>4, Zenon DEF ClockKinds
<1>7. TimersApart
  BY <1>1, TimerAssumption DEF TimersApart, Turning
<1>8. BestInv
  BY <1>1, <1>3 DEF BestInv, Ascending, Ranked
<1>9. StopsWhenConverged
  BY <1>1 DEF StopsWhenConverged
<1>10. PaidFor
  BY <1>1 DEF PaidFor
<1> QED
  BY <1>5, <1>6, <1>7, <1>8, <1>9, <1>10 DEF SamplerInv

(* A step that takes no sample. *)
LEMMA BestSame ==
  ASSUME SamplerInv, UNCHANGED <<param, values, samplecount, taken>>,
         \/ samplecount = 0 /\ pc' \notin Turning
         \/ pc' \in Turning /\ pc \in Turning
         \/ pc' \notin Turning \union {"idle"}
         \/ pc' = pc /\ result' = result
  PROVE  BestInv' /\ StopsWhenConverged' /\ PaidFor'
<1>1. /\ param' = param /\ values' = values /\ samplecount' = samplecount /\ taken' = taken
  OBVIOUS
<1>2. Ascending(values, samplecount)' /\ Ranked(values, taken, samplecount)'
  BY <1>1 DEF SamplerInv, BestInv, Ascending, Ranked, Index, kbest
<1>3. samplecount \in Nat
  BY DEF SamplerInv, SamplerKinds
<1>4. ASSUME pc' = "idle", samplecount > 0
      PROVE  result' = values[0]
  <2>1. pc' = pc /\ result' = result
    BY <1>3, <1>4 DEF Turning
  <2> QED
    BY <1>4, <2>1 DEF SamplerInv, BestInv
<1>5. PaidFor'
  BY <1>1, Zenon DEF SamplerInv, PaidFor
<1>6. \A m : ConvergedAt(m)' <=> ConvergedAt(m)
  BY <1>1, Zenon DEF ConvergedAt, epsilon, kbest
<1>7. maxsamples' = maxsamples
  BY <1>1 DEF maxsamples
<1>8. StopsWhenConverged'
  BY <1>1, <1>3, <1>6, <1>7 DEF SamplerInv, SamplerKinds, StopsWhenConverged, Turning
<1> QED
  BY <1>1, <1>2, <1>4, <1>5, <1>8 DEF BestInv

LEMMA PrepareKeeps ==
  ASSUME SamplerInv, timer = "fcyc", UNCHANGED timerVars, StartFcyc \/ Prepare \/ NoCache
  PROVE  SamplerInv'
<1> USE DEF timerVars, cacheVars, clockVars, sampleVars
<1>1. param \in Params /\ samplecount \in Nat /\ taken \in Seq(SampleKind)
  BY DEF SamplerInv, SamplerKinds
<1>2. kbest \in Nat \ {0} /\ maxsamples \in Nat \ {0}
  BY <1>1, ParamKinds
<1>3. CASE StartFcyc
  <2>1. /\ pc = "idle" /\ pc' = "turn" /\ values' = [j \in Index |-> 0]
        /\ samplecount' = 0 /\ taken' = <<>>
        /\ param' = param /\ cache_bytes' = cache_bytes /\ cache_buf' = cache_buf
        /\ cyc_per_tick' = cyc_per_tick /\ events' = events /\ gap' = gap
        /\ ticks' = ticks /\ stray' = stray /\ owed' = owed
        /\ result' = result /\ timer' = timer /\ begun' = begun /\ now' = now
        /\ turns' = turns /\ spent' = spent
    BY <1>3 DEF StartFcyc
  <2>2. Index' = Index /\ maxsamples' = maxsamples /\ kbest' = kbest
    BY <2>1 DEF Index, kbest, maxsamples
  <2>3. values' \in [Index' -> Int]
    BY <2>1, <2>2
  <2>4. taken' \in Seq(SampleKind) /\ Len(taken') = 0
    BY <2>1, EmptySeq
  <2>5. SamplerKinds'
    BY <1>2, <2>1, <2>2, <2>3, <2>4 DEF SamplerInv, SamplerKinds, Turning
  <2>6. ClockKinds'
    BY <2>1 DEF SamplerInv, ClockKinds
  <2>7. TimersApart'
    BY <2>1 DEF SamplerInv, TimersApart, Turning
  <2>8. \A j \in Index : ~(j < 0)
    BY DEF Index
  <2>9. Ascending(values, samplecount)'
    BY <2>1, <2>2, <2>8 DEF Ascending
  <2>10. Ranked(values, taken, samplecount)'
    BY <2>1, <2>2, <2>8 DEF Ranked
  <2>11. BestInv'
    BY <2>1, <2>9, <2>10 DEF BestInv
  <2>12. StopsWhenConverged'
    BY <1>2, <2>1, <2>2 DEF StopsWhenConverged
  <2>13. PaidFor'
    BY <2>1 DEF PaidFor
  <2> QED
    BY <2>5, <2>6, <2>7, <2>11, <2>12, <2>13 DEF SamplerInv
<1>4. CASE Prepare \/ NoCache
  <2>1. /\ pc = "turn" /\ pc' \in {"callibrate", "run", "exit"}
        /\ cache_buf' \in {cache_buf, cache_bytes} /\ cache_bytes' = cache_bytes
        /\ param' = param /\ values' = values /\ samplecount' = samplecount
        /\ taken' = taken /\ result' = result /\ timer' = timer /\ begun' = begun
        /\ now' = now /\ turns' = turns /\ spent' = spent
    BY <1>4 DEF Prepare, NoCache
  <2>2. /\ cyc_per_tick' = cyc_per_tick
        /\ \/ /\ events' = 0 /\ gap' = 0 /\ owed' = 0
              /\ stray' \in BOOLEAN /\ ticks' = IF stray' THEN 1 ELSE 0
           \/ /\ events' = events /\ gap' = gap
              /\ ticks' = ticks /\ stray' = stray /\ owed' = owed
    BY <1>4 DEF Prepare, NoCache, StartCallibrate
  <2>3. Index' = Index /\ maxsamples' = maxsamples
    BY <2>1 DEF Index, kbest, maxsamples
  <2>4. SamplerKinds'
    BY <2>1, <2>3 DEF SamplerInv, SamplerKinds, Turning
  <2>5. ClockKinds'
    <3>1. 0 * CheapTick = 0
      BY TickAssumption
    <3> QED
      BY <2>2, <3>1, TickAssumption DEF SamplerInv, ClockKinds
  <2>6. TimersApart'
    BY <2>1 DEF SamplerInv, TimersApart, Turning
  <2>7. BestInv' /\ StopsWhenConverged' /\ PaidFor'
    BY <2>1, BestSame DEF Turning
  <2> QED
    BY <2>4, <2>5, <2>6, <2>7 DEF SamplerInv
<1> QED
  BY <1>3, <1>4

(* A quotient lies between two numbers if its dividend lies between their  *)
(* products with the divisor.                                              *)
LEMMA QuotientBetween ==
  ASSUME NEW x \in Nat, NEW n \in Nat, n > 0, NEW lo \in Nat, NEW hi \in Nat,
         n * lo <= x, x <= n * hi
  PROVE  x \div n \in Nat /\ lo <= x \div n /\ x \div n <= hi
<1>1. PICK q \in Int, r \in 0 .. n - 1 : x = n * q + r /\ q = x \div n
  OBVIOUS
<1>2. ASSUME q < lo
      PROVE  FALSE
  <2>1. q + 1 <= lo /\ n * (q + 1) = n * q + n
    BY <1>2
  <2>2. n * (q + 1) <= n * lo
    BY <2>1
  <2> QED
    BY <1>1, <2>1, <2>2
<1>3. ASSUME q > hi
      PROVE  FALSE
  <2>1. hi + 1 <= q /\ n * (hi + 1) = n * hi + n
    BY <1>3
  <2>2. n * (hi + 1) <= n * q
    BY <2>1
  <2> QED
    BY <1>1, <2>1, <2>2
<1> QED
  BY <1>1, <1>2, <1>3

LEMMA HitCosts ==
  ASSUME NEW t \in TickCosts \union {0}
  PROVE  /\ t \in Nat /\ Hits(t) \in 0 .. 1 /\ (t > 0 <=> Hits(t) = 1)
         /\ Hits(t) * CheapTick <= t /\ t <= Hits(t) * DearTick
<1>1. CheapTick \in Nat /\ DearTick \in Nat /\ TickCosts \subseteq Nat \ {0}
  BY TickAssumption
<1>2. CASE t = 0
  BY <1>1, <1>2 DEF Hits
<1>3. CASE t \in TickCosts
  <2>1. CheapTick <= t /\ t <= DearTick /\ t \in Nat /\ t > 0
    BY <1>1, <1>3, TickAssumption
  <2> QED
    BY <1>1, <2>1 DEF Hits
<1> QED
  BY <1>2, <1>3

(* A turn of callibrate's loop. *)
LEMMA TurnKeeps ==
  ASSUME ClockKinds, NEW c \in TurnCosts, NEW t \in TickCosts \union {0},
         NEW u \in TickCosts \union {0}, NEW late \in BOOLEAN, callibrate(c, t, u, late)
  PROVE  ClockKinds'
<1>1. /\ events \in 0 .. NEVENT /\ gap \in 0 .. THRESHOLD - 1
      /\ ticks \in Nat /\ stray \in BOOLEAN /\ owed \in TickCosts \union {0} /\ owed \in Nat
      /\ stray => ticks = 1
      /\ owed > 0 => ticks = 0
      /\ stray \/ ticks * CheapTick <= gap
      /\ cyc_per_tick \in Nat /\ (cyc_per_tick # 0 => PriceKind(cyc_per_tick))
  BY HitCosts DEF ClockKinds
<1>2. /\ THRESHOLD \in Nat /\ THRESHOLD > 0 /\ RECORDTHRESH \in Nat /\ NEVENT \in Nat
      /\ CheapTick \in Nat /\ DearTick \in Nat
      /\ c \in Nat /\ THRESHOLD + c <= RECORDTHRESH
  BY TickAssumption
<1>3. PICK h \in 0 .. 1 : /\ h = Hits(t) /\ t \in Nat /\ (t > 0 <=> h = 1)
                          /\ h * CheapTick <= t /\ t <= h * DearTick
  BY HitCosts
<1>4. PICK k \in 0 .. 1 : /\ k = Hits(u) /\ u \in Nat /\ (u > 0 <=> k = 1)
                          /\ k * CheapTick <= u /\ u <= k * DearTick
  BY HitCosts
<1>5. PICK newt \in Nat : newt = gap + owed + c + (IF late THEN 0 ELSE t + u)
  BY <1>1, <1>2, <1>3, <1>4
<1>6. PICK newc \in Nat : newc = ticks + h + k
  BY <1>1
<1>7. /\ events < NEVENT
      /\ stray \/ owed > 0 => t = 0 /\ u = 0
      /\ late => t > 0 /\ u = 0 /\ ticks = 0 /\ newt >= THRESHOLD
      /\ owed' = IF late THEN t ELSE 0
      /\ IF newt >= THRESHOLD
         THEN gap' = 0 /\ ticks' = 0 /\ stray' = FALSE
         ELSE gap' = newt /\ ticks' = newc /\ stray' = stray
      /\ IF newt >= THRESHOLD /\ newc > 0
         THEN cyc_per_tick' = Price(newt \div newc) /\ events' = events + 1
         ELSE cyc_per_tick' = cyc_per_tick /\ events' = events
  BY <1>3, <1>4, <1>5, <1>6 DEF callibrate
<1>8. /\ newc * CheapTick = ticks * CheapTick + h * CheapTick + k * CheapTick
      /\ newc * DearTick = ticks * DearTick + h * DearTick + k * DearTick
      /\ ticks * CheapTick \in Nat /\ ticks * DearTick \in Nat
  BY <1>1, <1>2, <1>6
<1>9. ~stray /\ ~late => newc * CheapTick <= newt
  BY <1>1, <1>2, <1>3, <1>4, <1>5, <1>8
<1>10. newc > 0 => newt <= newc * DearTick + RECORDTHRESH
  <2>1. newc > 0 => owed = 0
    BY <1>1, <1>3, <1>4, <1>6, <1>7
  <2>2. t + u <= h * DearTick + k * DearTick /\ h * DearTick \in Nat /\ k * DearTick \in Nat
    <3>1. h * DearTick \in Nat /\ k * DearTick \in Nat
      BY <1>2
    <3>2. t \in Nat /\ u \in Nat /\ t <= h * DearTick /\ u <= k * DearTick
      BY <1>3, <1>4
    <3> QED
      BY <3>1, <3>2
  <2>3. newc > 0 => newt <= gap + c + t + u
    BY <1>1, <1>2, <1>3, <1>4, <1>5, <2>1
  <2>4. gap + c <= RECORDTHRESH /\ gap \in Nat
    BY <1>1, <1>2
  <2>5. h * DearTick + k * DearTick <= newc * DearTick
    BY <1>8, <2>2
  <2> QED
    BY <1>2, <1>3, <1>4, <2>2, <2>3, <2>4, <2>5
<1>11. stray \/ late => newc = 1 /\ (newc > 0 => newt <= RECORDTHRESH)
  BY <1>1, <1>2, <1>3, <1>4, <1>5, <1>6, <1>7
<1>12. cyc_per_tick' \in Nat /\ (cyc_per_tick' # 0 => PriceKind(cyc_per_tick'))
  <2>1. CASE newt >= THRESHOLD /\ newc > 0
    <3>1. newc * (DearTick + RECORDTHRESH) = newc * DearTick + newc * RECORDTHRESH
      BY <1>2
    <3>2. newc * RECORDTHRESH >= RECORDTHRESH /\ newc * DearTick \in Nat
      BY <1>2, <2>1
    <3>3. newt <= newc * (DearTick + RECORDTHRESH)
      BY <1>2, <1>10, <2>1, <3>1, <3>2
    <3>4. newc * 0 = 0 /\ DearTick + RECORDTHRESH \in Nat
      BY <1>2
    <3>5. newt \div newc \in Nat /\ newt \div newc <= DearTick + RECORDTHRESH
      BY <2>1, <3>3, <3>4, QuotientBetween
    <3>6. CASE stray \/ late
      <4>1. newt \div newc = newt
        BY <1>11, <3>6
      <4>2. Price(newt \div newc) = cyc_per_tick
        BY <1>2, <1>11, <2>1, <3>6, <4>1 DEF Price
      <4> QED
        BY <1>1, <1>7, <2>1, <4>2
    <3>7. CASE ~(stray \/ late)
      <4>1. CheapTick <= newt \div newc
        BY <1>2, <1>9, <2>1, <3>3, <3>4, <3>7, QuotientBetween
      <4>2. Price(newt \div newc) \in {cyc_per_tick, newt \div newc}
        BY DEF Price
      <4> QED
        BY <1>1, <1>7, <2>1, <3>5, <4>1, <4>2 DEF PriceKind
    <3> QED
      BY <3>6, <3>7
  <2> QED
    BY <1>1, <1>7, <2>1
<1>13. /\ events' \in 0 .. NEVENT /\ gap' \in 0 .. THRESHOLD - 1
       /\ ticks' \in Nat /\ stray' \in BOOLEAN /\ owed' \in TickCosts \union {0}
  <2>1. owed' = t \/ owed' = 0
    BY <1>7
  <2>2. events' \in 0 .. NEVENT /\ gap' \in 0 .. THRESHOLD - 1 /\ ticks' \in Nat
    BY <1>1, <1>2, <1>5, <1>6, <1>7
  <2>3. stray' \in BOOLEAN
    BY <1>1, <1>7, Zenon
  <2> QED
    BY <2>1, <2>2, <2>3, Zenon
<1>14. /\ stray' => ticks' = 1
       /\ owed' > 0 => ticks' = 0
       /\ stray' \/ ticks' * CheapTick <= gap'
  <2>1. CASE newt >= THRESHOLD
    <3>1. 0 * CheapTick = 0
      BY <1>2
    <3> QED
      BY <1>7, <2>1, <3>1
  <2>2. CASE newt < THRESHOLD
    <3>1. ~late
      BY <1>2, <1>7, <2>2
    <3>2. gap' = newt /\ ticks' = newc /\ stray' = stray /\ owed' = 0
      BY <1>2, <1>7, <2>2, <3>1
    <3> QED
      BY <1>9, <1>11, <3>1, <3>2
  <2> QED
    BY <1>2, <2>1, <2>2
<1> QED
  BY <1>12, <1>13, <1>14 DEF ClockKinds

LEMMA CallibrateKeeps ==
  ASSUME SamplerInv, timer = "fcyc", UNCHANGED timerVars, Callibrate
  PROVE  SamplerInv'
<1> USE DEF timerVars, cacheVars, sampleVars
<1>1. /\ pc = "callibrate" /\ pc' \in {"callibrate", "run"}
      /\ cache_buf' = cache_buf /\ cache_bytes' = cache_bytes
      /\ param' = param /\ values' = values /\ samplecount' = samplecount
      /\ taken' = taken /\ result' = result /\ timer' = timer /\ begun' = begun
      /\ now' = now /\ turns' = turns /\ spent' = spent
  BY DEF Callibrate
<1>2. Index' = Index /\ maxsamples' = maxsamples
  BY <1>1 DEF Index, kbest, maxsamples
<1>3. SamplerKinds'
  BY <1>1, <1>2 DEF SamplerInv, SamplerKinds, Turning
<1>4. TimersApart'
  BY <1>1 DEF SamplerInv, TimersApart, Turning
<1>5. BestInv' /\ StopsWhenConverged' /\ PaidFor'
  BY <1>1, BestSame DEF Turning
<1>6. ClockKinds'
  <2>1. ClockKinds
    BY DEF SamplerInv
  <2>2. ASSUME NEW c \in TurnCosts, NEW t \in TickCosts \union {0},
               NEW u \in TickCosts \union {0}, NEW late \in BOOLEAN, callibrate(c, t, u, late)
        PROVE  ClockKinds'
    BY <2>1, <2>2, TurnKeeps
  <2>3. CASE /\ events = NEVENT /\ owed' = 0
             /\ UNCHANGED <<cyc_per_tick, events, gap, ticks, stray>>
    BY <2>1, <2>3 DEF ClockKinds
  <2> QED
    BY <2>2, <2>3 DEF Callibrate
<1> QED
  BY <1>3, <1>4, <1>5, <1>6 DEF SamplerInv

LEMMA CacheKeeps ==
  ASSUME SamplerInv, timer = "fcyc", UNCHANGED timerVars,
         NEW bytes \in CacheSizes, set_fcyc_cache_size(bytes)
  PROVE  SamplerInv'
<1> USE DEF timerVars, clockVars, sampleVars
<1>1. /\ pc = "idle" /\ pc' = pc /\ cache_bytes' = bytes /\ cache_buf' = Resized(bytes)
      /\ param' = param /\ values' = values /\ samplecount' = samplecount
      /\ taken' = taken /\ result' = result /\ timer' = timer /\ begun' = begun
      /\ now' = now /\ turns' = turns /\ spent' = spent
      /\ cyc_per_tick' = cyc_per_tick /\ events' = events /\ gap' = gap
      /\ ticks' = ticks /\ stray' = stray /\ owed' = owed
  BY DEF set_fcyc_cache_size
<1>2. Index' = Index /\ maxsamples' = maxsamples
  BY <1>1 DEF Index, kbest, maxsamples
<1>3. cache_buf' \in {0, cache_bytes'}
  BY <1>1 DEF SamplerInv, SamplerKinds, Resized
<1>4. SamplerKinds'
  BY <1>1, <1>2, <1>3 DEF SamplerInv, SamplerKinds, Turning
<1>5. ClockKinds'
  BY <1>1 DEF SamplerInv, ClockKinds
<1>6. TimersApart'
  BY <1>1 DEF SamplerInv, TimersApart, Turning
<1>7. BestInv' /\ StopsWhenConverged' /\ PaidFor'
  BY <1>1, BestSame
<1> QED
  BY <1>4, <1>5, <1>6, <1>7 DEF SamplerInv

LEMMA SampleKeeps ==
  ASSUME SamplerInv, timer = "fcyc", UNCHANGED timerVars,
         NEW start \in Starts, NEW own \in Times, NEW t \in TickCosts \union {0},
         NEW late \in BOOLEAN, param.compensate \/ (t = 0 /\ ~late),
         Sample(start, own, t, late)
  PROVE  SamplerInv'
<1> USE DEF timerVars, clockVars, cacheVars
<1>1. /\ param \in Params /\ samplecount \in Nat /\ taken \in Seq(SampleKind)
      /\ Len(taken) = samplecount
      /\ ClockKinds /\ TimersApart /\ BestInv /\ StopsWhenConverged /\ PaidFor
  BY DEF SamplerInv, SamplerKinds
<1>2. /\ kbest \in Nat \ {0} /\ maxsamples \in Nat \ {0} /\ epsilon \in Nat
      /\ param.compensate \in BOOLEAN
  BY <1>1, ParamKinds
<1>3. /\ cyc_per_tick \in Nat /\ (cyc_per_tick # 0 => CheapTick <= cyc_per_tick)
      /\ CheapTick \in Nat /\ DearTick \in Nat
      /\ t \in Nat /\ t <= DearTick /\ Hits(t) \in 0 .. 1
      /\ IF t > 0 THEN Hits(t) = 1 /\ CheapTick <= t ELSE Hits(t) = 0
  <2>1. /\ cyc_per_tick \in Nat /\ (cyc_per_tick # 0 => CheapTick <= cyc_per_tick)
        /\ CheapTick \in Nat /\ DearTick \in Nat
    BY <1>1, TickAssumption DEF ClockKinds, PriceKind
  <2> QED
    BY <2>1, HitCosts
<1>4. start \in Nat /\ own \in Nat /\ own + DearTick < WORD * WORD /\ WORD * WORD \in Int
  BY SamplerAssumption, TickAssumption
<1>5. PICK end : end = start + own + t
  OBVIOUS
<1>6. end \in Nat /\ start <= end /\ end - start = own + t
  BY <1>3, <1>4, <1>5
<1>7. PICK time : time = get_counter(access_counter(start), access_counter(end))
  OBVIOUS
<1>8. time = end - start
  <2>1. end - start < WORD * WORD
    BY <1>3, <1>4, <1>6
  <2> QED
    BY <1>4, <1>6, <1>7, <2>1, CounterIs
<1>9. PICK count \in Nat : count = IF late THEN Hits(t) + 1 ELSE Hits(t)
  BY <1>3
<1>10. PICK val : val = IF param.compensate THEN Compensated(time, count) ELSE time
  OBVIOUS
<1>11. PICK vals : vals = add_sample(val)
  OBVIOUS
<1>12. PICK e : e = [own |-> own, tick |-> t, price |-> cyc_per_tick, time |-> val]
  OBVIOUS
<1>13. /\ pc = "run" /\ samplecount' = samplecount + 1
       /\ taken' = Append(taken, e)
       /\ IF Enough(vals, samplecount + 1)
          THEN pc' = "idle" /\ result' = vals[0]
          ELSE pc' = "turn" /\ result' = result
       /\ values' = vals
       /\ param' = param /\ cache_bytes' = cache_bytes /\ cache_buf' = cache_buf
       /\ cyc_per_tick' = cyc_per_tick /\ events' = events /\ gap' = gap
       /\ ticks' = ticks /\ stray' = stray /\ owed' = owed
       /\ timer' = timer /\ begun' = begun /\ now' = now /\ turns' = turns /\ spent' = spent
  <2>1. val = IF param.compensate THEN Compensated(end - start, count) ELSE end - start
    BY <1>8, <1>10
  <2> QED
    BY <1>5, <1>7, <1>9, <1>10, <1>11, <1>12, <2>1 DEF Sample
<1>14. val \in Int /\ (param.compensate /\ cyc_per_tick # 0 => val <= own + Excess(t))
  <2>1. time \in Int /\ time = own + t
    BY <1>3, <1>4, <1>6, <1>8
  <2>2. count * cyc_per_tick \in Nat
    BY <1>3
  <2>3. t > 0 /\ cyc_per_tick # 0 => count * cyc_per_tick >= CheapTick
    <3>1. t > 0 => count = 1 \/ count = 2
      BY <1>3, <1>9
    <3> QED
      BY <1>3, <3>1
  <2>4. CASE param.compensate
    <3>1. val = time - count * cyc_per_tick
      BY <1>10, <2>4 DEF Compensated
    <3> QED
      BY <1>3, <1>4, <2>1, <2>2, <2>3, <3>1 DEF Excess
  <2>5. CASE ~param.compensate
    BY <1>10, <2>1, <2>5
  <2> QED
    BY <2>4, <2>5
<1>15. e \in SampleKind /\ e.time = val
  BY <1>3, <1>4, <1>12, <1>14 DEF SampleKind
<1>16. PICK u : u = taken'
  OBVIOUS
<1>17. /\ u \in Seq(SampleKind) /\ Len(u) = samplecount + 1 /\ u[samplecount + 1] = e
       /\ \A m \in 1 .. samplecount : u[m] = taken[m]
  BY <1>1, <1>13, <1>15, <1>16
<1>18. \A m \in 1 .. samplecount : taken[m].time \in Int
  <2>1. \A m \in 1 .. samplecount : taken[m] \in SampleKind
    BY <1>1
  <2>2. \A s \in SampleKind : s.time \in Int
    BY DEF SampleKind
  <2> QED
    BY <2>1, <2>2
<1>19. Continues(u, taken, samplecount) /\ u[samplecount + 1].time = val
  BY <1>14, <1>15, <1>17, <1>18 DEF Continues
<1>20. values \in [Index -> Int] /\ samplecount < maxsamples
  BY <1>13 DEF SamplerInv, SamplerKinds, Turning
<1>21. Ascending(values, samplecount) /\ Ranked(values, taken, samplecount)
  BY <1>1 DEF BestInv
<1>22. Kept(values, samplecount, val, vals)
  BY <1>1, <1>2, <1>11, <1>14, <1>20, <1>21, AddIs DEF Kept
<1>23. vals \in [Index -> Int]
  BY <1>20, <1>22 DEF Kept, PutIn
<1>24. PICK c \in Nat : c = samplecount
  BY <1>1
<1>25. Ascending(vals, c + 1)
  BY <1>2, <1>14, <1>20, <1>21, <1>22, <1>24, AscendingNext
<1>26. Ranked(vals, u, c + 1)
  BY <1>2, <1>14, <1>19, <1>20, <1>21, <1>22, <1>24, RankedNext
<1>27. PICK d \in Nat : d = c + 1 /\ d > 0 /\ samplecount' = d
  BY <1>13, <1>24
<1>28. \A m \in 1 .. d : u[m].time \in Int
  <2>1. \A m \in 1 .. d : m \in 1 .. c \/ m = c + 1
    BY <1>27
  <2> QED
    BY <1>17, <1>18, <1>19, <1>14, <1>24, <2>1
<1>29. has_converged(vals, d) <=> Agree(u, d)
  BY <1>2, <1>23, <1>26, <1>27, <1>28, BestAgree
<1>30. Index' = Index /\ maxsamples' = maxsamples /\ kbest' = kbest /\ epsilon' = epsilon
  BY <1>13 DEF Index, kbest, maxsamples, epsilon
<1>31. SamplerKinds'
  <2>1. samplecount' \in Nat /\ samplecount' <= maxsamples' /\ pc' \in {"idle", "turn"}
    BY <1>1, <1>2, <1>13, <1>20, <1>30
  <2>2. pc' = "turn" => samplecount' < maxsamples'
    BY <1>2, <1>13, <1>20, <1>30, <2>1 DEF Enough
  <2>3. values' \in [Index' -> Int] /\ taken' \in Seq(SampleKind) /\ Len(taken') = samplecount'
    BY <1>13, <1>16, <1>17, <1>23, <1>30
  <2> QED
    BY <1>13, <2>1, <2>2, <2>3 DEF SamplerInv, SamplerKinds, Turning
<1>32. ClockKinds'
  BY <1>1, <1>13 DEF ClockKinds
<1>33. TimersApart'
  <2>1. turns = 0 /\ RUNS # 0
    BY <1>1, TimerAssumption DEF TimersApart
  <2> QED
    BY <1>1, <1>13, <2>1 DEF TimersApart, Turning
<1>34. BestInv'
  <2>1. Ascending(values, samplecount)'
    BY <1>13, <1>25, <1>27, <1>30 DEF Ascending
  <2>2. Ranked(values, taken, samplecount)'
    BY <1>13, <1>16, <1>26, <1>27, <1>30 DEF Ranked
  <2>3. pc' = "idle" => result' = values'[0]
    BY <1>13
  <2> QED
    BY <2>1, <2>2, <2>3 DEF BestInv
<1>35. StopsWhenConverged'
  <2>1. \A m : ConvergedAt(m)' <=> Agree(u, m)
    BY <1>16, <1>30 DEF ConvergedAt, Agree
  <2>2. \A m : ConvergedAt(m) <=> Agree(taken, m)
    BY DEF ConvergedAt, Agree
  <2>3. ASSUME NEW m \in 1 .. samplecount
        PROVE  ConvergedAt(m)' <=> ConvergedAt(m)
    <3>1. \A l \in 1 .. m : u[l].time = taken[l].time
      BY <1>1, <1>17
    <3>2. Agree(u, m) <=> Agree(taken, m)
      BY <3>1, AgreeSame
    <3> QED
      BY <2>1, <2>2, <3>2
  <2>4. \A m \in 1 .. samplecount : ~ConvergedAt(m)
    <3>1. samplecount > 0 => ~ConvergedAt(samplecount)
      BY <1>1, <1>13 DEF StopsWhenConverged
    <3>2. \A m \in 1 .. samplecount - 1 : ~ConvergedAt(m)
      BY <1>1 DEF StopsWhenConverged
    <3>3. \A m \in 1 .. samplecount : m \in 1 .. samplecount - 1 \/ (m = samplecount /\ samplecount > 0)
      BY <1>1
    <3> QED
      BY <3>1, <3>2, <3>3
  <2>5. \A m \in 1 .. samplecount' - 1 : ~ConvergedAt(m)'
    BY <1>1, <1>13, <2>3, <2>4
  <2>6. has_converged(vals, d) <=> ConvergedAt(d)'
    BY <1>29, <2>1
  <2>7. /\ pc' = "idle" => ConvergedAt(d)' \/ samplecount' = maxsamples'
        /\ pc' = "turn" => ~ConvergedAt(d)' /\ samplecount' < maxsamples'
    BY <1>1, <1>2, <1>13, <1>20, <1>24, <1>27, <1>30, <2>6 DEF Enough
  <2> QED
    BY <1>13, <1>27, <2>5, <2>7 DEF StopsWhenConverged
<1>36. PaidFor'
  <2> SUFFICES ASSUME param.compensate, NEW m \in 1 .. d, u[m].price # 0
               PROVE  u[m].time <= u[m].own + Excess(u[m].tick)
    BY <1>13, <1>16, <1>27, Zenon DEF PaidFor
  <2>1. CASE m \in 1 .. samplecount
    BY <1>1, <1>17, <2>1 DEF PaidFor
  <2>2. CASE m = samplecount + 1
    <3>1. u[m] = e /\ e.own = own /\ e.tick = t /\ e.price = cyc_per_tick
      BY <1>12, <1>17, <2>2
    <3> QED
      BY <1>14, <1>15, <3>1
  <2> QED
    BY <1>1, <1>24, <1>27, <2>1, <2>2
<1> QED
  BY <1>31, <1>32, <1>33, <1>34, <1>35, <1>36 DEF SamplerInv

(* The other two timers. *)
LEMMA FtimerKeeps ==
  ASSUME SamplerInv,
         \/ init_fsecs \/ StartFtimer \/ FtimerEnds
         \/ \E d \in Durations : Call(d)
  PROVE  SamplerInv'
<1> USE DEF timerVars, clockVars, cacheVars, sampleVars
<1>1. /\ param' = param /\ cache_bytes' = cache_bytes /\ cache_buf' = cache_buf
      /\ values' = values /\ samplecount' = samplecount /\ taken' = taken
      /\ cyc_per_tick' = cyc_per_tick /\ events' = events /\ gap' = gap
      /\ ticks' = ticks /\ stray' = stray /\ owed' = owed
  BY DEF init_fsecs, StartFtimer, FtimerEnds, Call
<1>2. ClockKinds'
  BY <1>1 DEF SamplerInv, ClockKinds
<1>3. Index' = Index /\ maxsamples' = maxsamples
  BY <1>1 DEF Index, kbest, maxsamples
<1>4. pc' \notin Turning /\ pc' \in {"idle", "timer", "exit"}
  BY DEF init_fsecs, StartFtimer, FtimerEnds, Call, Turning
<1>5. SamplerKinds'
  BY <1>1, <1>3, <1>4 DEF SamplerInv, SamplerKinds
<1>6. samplecount = 0
  BY DEF SamplerInv, TimersApart, init_fsecs, StartFtimer, FtimerEnds, Call
<1>7. BestInv' /\ StopsWhenConverged' /\ PaidFor'
  BY <1>1, <1>4, <1>6, BestSame
<1> SUFFICES TimersApart'
  BY <1>2, <1>5, <1>7 DEF SamplerInv
<1>8. TimersApart
  BY DEF SamplerInv
<1>9. RUNS \in Nat \ {0} /\ Clocks \subseteq Nat /\ Durations \subseteq Nat
  BY TimerAssumption
<1>10. CASE init_fsecs
  BY <1>1, <1>6, <1>8, <1>9, <1>10 DEF init_fsecs, TimersApart, Turning
<1>11. CASE StartFtimer
  <2>1. /\ pc' = "timer" /\ timer' = timer /\ timer # "fcyc" /\ turns' = 0 /\ spent' = 0
        /\ now' \in Clocks /\ begun' = now'
    BY <1>11, Zenon DEF StartFtimer
  <2>2. 0 \in 0 .. RUNS /\ now' \in Nat
    BY <1>9, <2>1
  <2>3. samplecount' = 0 /\ begun' \in Nat /\ begun' = now'
    BY <1>1, <1>6, <2>1, <2>2, Zenon
  <2>4. now' = begun' + spent'
    <3>1. PICK a \in Nat : a = begun' /\ a = now'
      BY <2>3, Zenon
    <3>2. spent' = 0
      BY <2>1
    <3>3. a + 0 = a
      OBVIOUS
    <3> QED
      BY <3>1, <3>2, <3>3, Zenon
  <2>5. {begun', now', spent'} \subseteq Nat /\ turns' \in 0 .. RUNS
    <3>1. turns' = 0 /\ spent' = 0
      BY <2>1
    <3> QED
      BY <2>2, <2>3, <3>1
  <2> QED
    BY <2>1, <2>3, <2>4, <2>5, Zenon DEF TimersApart, Turning
<1>12. CASE \E d \in Durations : Call(d)
  <2>1. PICK d \in Durations : Call(d)
    BY <1>12
  <2>2. /\ pc = "timer" /\ pc' \in {"timer", "exit"} /\ timer' = timer /\ begun' = begun
        /\ now' = now + d /\ turns < RUNS /\ turns' = turns + 1 /\ spent' = spent + d
        /\ result' = result
    BY <2>1 DEF Call
  <2>3. d \in Nat
    BY <1>9
  <2> QED
    BY <1>1, <1>4, <1>6, <1>8, <1>9, <2>2, <2>3 DEF TimersApart
<1>13. CASE FtimerEnds
  <2>1. /\ pc = "timer" /\ turns = RUNS /\ pc' = "idle" /\ timer' = timer /\ begun' = begun
        /\ now' = now /\ turns' = turns /\ spent' = spent
        /\ result' = IF timer = "gettod" THEN Between(TimeOf(begun), TimeOf(now))
                     ELSE get_etime(now - begun) - get_etime(0)
    BY <1>13 DEF FtimerEnds
  <2>2. begun \in Nat /\ now \in Nat /\ spent \in Nat /\ now = begun + spent
    BY <1>8 DEF TimersApart
  <2>3. \A us \in Int : get_etime(us) = us
    <3> SUFFICES ASSUME NEW us \in Int
                 PROVE  get_etime(us) = us
      OBVIOUS
    <3>1. PICK a \in Int, b \in Int : b = MAX_ETIME * MICROS /\ a = b - us
      BY TimerAssumption
    <3>2. get_etime(us) = Between(TimeOf(a), TimeOf(b))
      BY <3>1 DEF get_etime
    <3> QED
      BY <3>1, <3>2, BetweenIs
  <2>4. Between(TimeOf(begun), TimeOf(now)) = now - begun
    BY <2>2, BetweenIs
  <2>5. result' = spent
    <3>1. get_etime(now - begun) = now - begun /\ get_etime(0) = 0
      BY <2>2, <2>3
    <3> QED
      BY <2>1, <2>2, <2>4, <3>1
  <2>6. turns \in 0 .. RUNS /\ timer # "fcyc"
    BY <1>8, <2>1 DEF TimersApart
  <2> QED
    BY <1>1, <1>4, <1>6, <2>1, <2>2, <2>5, <2>6 DEF TimersApart
<1> QED
  BY <1>10, <1>11, <1>12, <1>13

LEMMA SamplerStep ==
  SamplerInv /\ [Next]_vars => SamplerInv'
<1> SUFFICES ASSUME SamplerInv, [Next]_vars
             PROVE  SamplerInv'
  OBVIOUS
<1>1. CASE timer = "fcyc" /\ Fcyc /\ UNCHANGED timerVars
  <2>1. CASE StartFcyc \/ Prepare \/ NoCache
    BY <1>1, <2>1, PrepareKeeps
  <2>2. CASE Callibrate
    BY <1>1, <2>2, CallibrateKeeps
  <2>3. CASE \E bytes \in CacheSizes : set_fcyc_cache_size(bytes)
    BY <1>1, <2>3, CacheKeeps
  <2>4. CASE \E start \in Starts, own \in Times, t \in TickCosts \union {0}, late \in BOOLEAN :
               /\ param.compensate \/ (t = 0 /\ ~late)
               /\ Sample(start, own, t, late)
    BY <1>1, <2>4, SampleKeeps
  <2> QED
    BY <1>1, <2>1, <2>2, <2>3, <2>4 DEF Fcyc
<1>2. CASE init_fsecs \/ StartFtimer \/ FtimerEnds \/ \E d \in Durations : Call(d)
  BY <1>2, FtimerKeeps
<1>3. CASE UNCHANGED vars
  <2>1. /\ param' = param /\ cache_bytes' = cache_bytes /\ cache_buf' = cache_buf
        /\ values' = values /\ samplecount' = samplecount /\ taken' = taken
        /\ cyc_per_tick' = cyc_per_tick /\ events' = events /\ gap' = gap
        /\ ticks' = ticks /\ stray' = stray /\ owed' = owed
        /\ pc' = pc /\ result' = result /\ timer' = timer /\ begun' = begun /\ now' = now
        /\ turns' = turns /\ spent' = spent
    BY <1>3 DEF vars, cacheVars, clockVars, sampleVars, timerVars
  <2>2. Index' = Index /\ maxsamples' = maxsamples
    BY <2>1 DEF Index, kbest, maxsamples
  <2>3. SamplerKinds'
    BY <2>1, <2>2 DEF SamplerInv, SamplerKinds
  <2>4. ClockKinds' /\ TimersApart'
    BY <2>1 DEF SamplerInv, ClockKinds, TimersApart
  <2>5. BestInv' /\ StopsWhenConverged' /\ PaidFor'
    BY <2>1, BestSame
  <2> QED
    BY <2>3, <2>4, <2>5 DEF SamplerInv
<1> QED
  BY <1>1, <1>2, <1>3 DEF Next

LEMMA SamplerAlways ==
  Spec => []SamplerInv
BY SamplerInit, SamplerStep, PTL DEF Spec

(* The sampler and the timers are in states they know, and the buffer      *)
(* clear() reads through is as large as it reads, or not there.            *)
THEOREM TypeCorrect == Spec => []TypeOK
<1>1. SamplerInv => TypeOK
  BY ParamKinds DEF SamplerInv, SamplerKinds, ClockKinds, TimersApart, TypeOK, Turning
<1> QED
  BY <1>1, SamplerAlways, PTL

(* For any number of samples of any length, with the counter's words       *)
(* wrapping as they will: values holds the K shortest in ascending order.  *)
THEOREM KeepsTheBest == Spec => []KBest
<1>1. SamplerInv => KBest
  BY DEF SamplerInv, BestInv, Ranked, KBest, Index, Less, AtMost
<1> QED
  BY <1>1, SamplerAlways, PTL

(* fcyc takes no sample more once K of them agree, and stops before only   *)
(* at the limit.                                                           *)
THEOREM StopsInTime == Spec => []StopsWhenConverged
<1>1. SamplerInv => StopsWhenConverged
  BY DEF SamplerInv
<1> QED
  BY <1>1, SamplerAlways, PTL

(* Whatever each tick costs and wherever it falls, the price of a tick is  *)
(* never below the cheapest, nor above the dearest by more than            *)
(* RECORDTHRESH, and what is left of a tick in a corrected time is at most *)
(* what it cost more than the cheapest.                                    *)
THEOREM TicksArePaid == Spec => []TicksPaidFor
<1>1. SamplerInv => TicksPaidFor
  BY DEF SamplerInv, ClockKinds, PriceKind, PaidFor, TicksPaidFor
<1> QED
  BY <1>1, SamplerAlways, PTL

(* The driver is told the shortest sample, or by the other two timers the  *)
(* time that all the calls took together.                                  *)
THEOREM TimeIsRight == Spec => []TimeOfRuns
<1>1. SamplerInv => TimeOfRuns
  <2> SUFFICES ASSUME SamplerInv, pc = "idle"
               PROVE  /\ \A m \in 1 .. samplecount : result <= taken[m].time
                      /\ turns = RUNS => result = spent
    BY DEF TimeOfRuns
  <2>1. kbest \in Nat \ {0} /\ samplecount \in Nat
    BY ParamKinds DEF SamplerInv, SamplerKinds
  <2>2. turns = RUNS => result = spent
    BY DEF SamplerInv, TimersApart
  <2>3. CASE samplecount = 0
    BY <2>2, <2>3
  <2>4. CASE samplecount > 0
    <3>1. values \in [Index -> Int] /\ taken \in Seq(SampleKind) /\ Len(taken) = samplecount
      BY <2>4 DEF SamplerInv, SamplerKinds
    <3>2. \A m \in 1 .. samplecount : taken[m] \in SampleKind
      BY <3>1
    <3>3. \A s \in SampleKind : s.time \in Int
      BY DEF SampleKind
    <3>4. Ranked(values, taken, samplecount) /\ result = values[0]
      BY <2>4 DEF SamplerInv, BestInv
    <3>5. \A m \in 1 .. samplecount : values[0] <= taken[m].time
      BY <2>1, <2>4, <3>1, <3>2, <3>3, <3>4, FirstIsLeast
    <3> QED
      BY <2>2, <3>4, <3>5
  <2> QED
    BY <2>1, <2>3, <2>4
<1> QED
  BY <1>1, SamplerAlways, PTL
=============================================================================
