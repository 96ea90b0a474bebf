------------------------- MODULE MmSegregated_proof --------------------------
(***************************************************************************)
(* Theorems about MmSegregated, for every arena, set of ids, set of sizes  *)
(* and number of lists: under SoundSpec the allocator that the Makefile    *)
(* builds keeps its blocks a tiling of the heap and its free lists exact,  *)
(* leaks no block, finds the best fit, keeps the clients' data and         *)
(* implements MallocContract.                                              *)
(*                                                                         *)
(* The first part is about the operators: the free lists, and what         *)
(* insert_node and delete_node do to them; then what coalesce, place,      *)
(* extend_heap and TakeOver do to a heap as a whole, its tags, its free    *)
(* lists and the payloads in it.  The second is what the steps of a call   *)
(* make of it.                                                             *)
(*                                                                         *)
(* That a list of n nodes has no cycle and loses none is a fact about its  *)
(* length, so it needs induction.  It is had here from the minimum of a    *)
(* set of numbers, which needs no predicate as a parameter.                *)
(*                                                                         *)
(* A list link is written into a free block and no tag, and a tag into no  *)
(* list link of another block, so the facts about tags (TraceClient_proof) *)
(* and those about lists can be taken together.                            *)
(***************************************************************************)
EXTENDS MmSegregated, TraceClient_proof, WellFoundedInduction

(* A set of natural numbers has a least element. *)
LEMMA LeastNumber ==
  ASSUME NEW T, T \subseteq Nat, T # {}
  PROVE  \E n \in T : \A k \in T : n <= k
<1> DEFINE R == OpToRel(<, Nat)
<1>1. IsWellFoundedOn(R, Nat)
  BY NatLessThanWellFounded, Zenon
<1>2. \A x, y \in Nat : x < y => <<x, y>> \in R
  BY Zenon DEF OpToRel
<1> HIDE DEF R
<1>3. PICK x \in T : \A y \in T : ~(<<y, x>> \in R)
  BY <1>1, WFMin, Zenon
<1>4. \A y \in T : x <= y
  <2> SUFFICES ASSUME NEW y \in T
               PROVE  x <= y
    OBVIOUS
  <2>1. x \in Nat /\ y \in Nat
    OBVIOUS
  <2>2. ~(y < x)
    BY <1>2, <1>3, <2>1
  <2> QED
    BY <2>1, <2>2
<1> QED
  BY <1>4

(* Every size has a list. *)
LEMMA ListOfSize ==
  ASSUME NEW size \in Nat
  PROVE  /\ ListOf(size) \in 0 .. LIST_MAX - 1
         /\ ListOf(size) > 0 => size >= 2 ^ ListOf(size)
         /\ ListOf(size) < LIST_MAX - 1 => size < 2 ^ (ListOf(size) + 1)
<1> DEFINE T == {k \in 0 .. LIST_MAX - 1 :
                   k < LIST_MAX - 1 => size < 2 ^ (k + 1)}
<1>1. LIST_MAX \in Nat /\ LIST_MAX > 0
  BY ListAssumption
<1>2. LIST_MAX - 1 \in T /\ T \subseteq Nat
  BY <1>1
<1>3. PICK k \in T : \A j \in T : k <= j
  BY <1>2, LeastNumber
<1>4. k \in 0 .. LIST_MAX - 1 /\ (k < LIST_MAX - 1 => size < 2 ^ (k + 1))
  OBVIOUS
<1>5. ASSUME k > 0
      PROVE  size >= 2 ^ k
  <2>1. k - 1 \notin T /\ k - 1 \in 0 .. LIST_MAX - 1
    BY <1>1, <1>3, <1>4, <1>5
  <2>2. ~(size < 2 ^ ((k - 1) + 1)) /\ (k - 1) + 1 = k
    BY <1>4, <2>1
  <2>3. ~(size < 2 ^ k) /\ k \in Nat
    BY <1>4, <2>2
  <2> QED
    BY <2>3
<1> QED
  BY <1>4, <1>5 DEF ListOf

-----------------------------------------------------------------------------
(* Doubly linked lists, apart from the memory that holds them: F the       *)
(* nodes, and their sizes and links as functions of the nodes.             *)

(* A number of its own for every node that grows along the links: no list  *)
(* has a cycle.                                                            *)
Numbered(F, succ, num, N) ==
  /\ N \in Nat /\ num \in [F -> 0 .. N]
  /\ \A b \in F : succ[b] # NULL => num[b] < num[succ[b]]

Acyclic(F, succ) == \E N, num : Numbered(F, succ, num, N)

(* The list a node belongs to. *)
ListIn(size, b) == ListOf(size[b])

Lists(F, size, pred, succ, head) ==
  /\ NULL \notin F
  /\ \A b \in F : /\ size[b] \in Nat
                  /\ pred[b] \in F \union {NULL} /\ succ[b] \in F \union {NULL}
  /\ \A b \in F : pred[b] = NULL => head[ListIn(size, b)] = b
  /\ \A b \in F : pred[b] # NULL => /\ succ[pred[b]] = b
                                    /\ ListIn(size, pred[b]) = ListIn(size, b)
                                    /\ size[pred[b]] <= size[b]
  /\ \A b \in F : succ[b] # NULL => pred[succ[b]] = b
  /\ head \in [0 .. LIST_MAX - 1 -> F \union {NULL}]
  /\ \A k \in 0 .. LIST_MAX - 1 :
        head[k] # NULL => ListIn(size, head[k]) = k /\ pred[head[k]] = NULL
  /\ Acyclic(F, succ)

(* It is a matter of the nodes' own sizes and links only. *)
LEMMA SameLists ==
  ASSUME NEW F, NEW size, NEW pred, NEW succ, NEW head,
         Lists(F, size, pred, succ, head),
         NEW size2, NEW pred2, NEW succ2,
         \A b \in F : size2[b] = size[b] /\ pred2[b] = pred[b] /\ succ2[b] = succ[b]
  PROVE  Lists(F, size2, pred2, succ2, head)
<1>1. Acyclic(F, succ2)
  BY DEF Lists, Acyclic, Numbered
<1> QED
  BY <1>1 DEF Lists, ListIn

(* Where a node of this size, and of the list k for it, may enter: behind  *)
(* p and in front of q.                                                    *)
Between(F, size, pred, succ, head, k, n, p, q) ==
  /\ p \in F \union {NULL} /\ q \in F \union {NULL}
  /\ p = NULL => q = head[k]
  /\ p # NULL => succ[p] = q /\ ListIn(size, p) = k /\ size[p] <= n
  /\ q # NULL => pred[q] = p /\ ListIn(size, q) = k /\ n <= size[q]

(* The list heads when x comes first on list k, p being in front of it.    *)
NewHead(head, k, p, x) == IF p = NULL THEN [head EXCEPT ![k] = x] ELSE head

(* Unlinking b. *)
Gone(F, pred, succ, b, pred2, succ2) ==
  \A c \in F \ {b} :
     /\ pred2[c] = IF c = succ[b] THEN pred[b] ELSE pred[c]
     /\ succ2[c] = IF c = pred[b] THEN succ[b] ELSE succ[c]

LEMMA Unlink ==
  ASSUME NEW F, NEW size, NEW pred, NEW succ, NEW head,
         Lists(F, size, pred, succ, head), NEW b \in F,
         NEW pred2, NEW succ2, Gone(F, pred, succ, b, pred2, succ2)
  PROVE  Lists(F \ {b}, size, pred2, succ2,
               NewHead(head, ListIn(size, b), pred[b], succ[b]))
<1> DEFINE G == F \ {b}
           K == 0 .. LIST_MAX - 1
           head2 == NewHead(head, ListIn(size, b), pred[b], succ[b])
<1> USE DEF Lists, NewHead, Gone
<1>1. PICK N, num : Numbered(F, succ, num, N)
  BY DEF Acyclic
<1>2. /\ pred[b] # b /\ succ[b] # b
      /\ pred[b] # NULL => num[pred[b]] < num[b]
      /\ succ[b] # NULL => num[b] < num[succ[b]]
      /\ \A c \in F : num[c] \in Int
  BY <1>1 DEF Numbered
<1>3. /\ pred[b] \in G \union {NULL} /\ succ[b] \in G \union {NULL}
      /\ pred[b] # NULL => pred[b] # succ[b]
  BY <1>2
<1>4. \A c \in G : pred[c] = b => c = succ[b]
  OBVIOUS
<1>5. \A c \in G : succ[c] = b => c = pred[b]
  OBVIOUS
<1>6. \A c \in G : pred2[c] \in G \union {NULL} /\ succ2[c] \in G \union {NULL}
  BY <1>3, <1>4, <1>5
<1>7. ListIn(size, b) \in K
  BY ListOfSize DEF ListIn
<1>8. succ[b] # NULL => ListIn(size, succ[b]) = ListIn(size, b) /\ size[b] <= size[succ[b]]
  OBVIOUS
<1>9. \A c \in G : pred2[c] = NULL => head2[ListIn(size, c)] = c
  <2> SUFFICES ASSUME NEW c \in G, pred2[c] = NULL
               PROVE  head2[ListIn(size, c)] = c
    OBVIOUS
  <2>1. CASE c = succ[b]
    <3>1. pred[b] = NULL
      BY <2>1
    <3> QED
      BY <1>7, <1>8, <2>1, <3>1
  <2>2. CASE c # succ[b]
    <3>1. pred[c] = NULL /\ head[ListIn(size, c)] = c
      BY <2>2
    <3>2. pred[b] = NULL => ListIn(size, c) # ListIn(size, b)
      BY <3>1
    <3> QED
      BY <1>7, <3>1, <3>2
  <2> QED
    BY <2>1, <2>2
<1>10. \A c \in G : pred2[c] # NULL => /\ succ2[pred2[c]] = c
                                       /\ ListIn(size, pred2[c]) = ListIn(size, c)
                                       /\ size[pred2[c]] <= size[c]
  <2> SUFFICES ASSUME NEW c \in G, pred2[c] # NULL
               PROVE  /\ succ2[pred2[c]] = c
                      /\ ListIn(size, pred2[c]) = ListIn(size, c)
                      /\ size[pred2[c]] <= size[c]
    OBVIOUS
  <2>1. CASE c = succ[b]
    <3>1. pred2[c] = pred[b] /\ pred[b] \in G
      BY <1>3, <2>1
    <3>2. succ2[pred[b]] = c
      BY <2>1, <3>1
    <3>3. /\ ListIn(size, pred[b]) = ListIn(size, c)
          /\ size[pred[b]] <= size[b] /\ size[b] <= size[c]
      BY <1>8, <2>1, <3>1
    <3> QED
      BY <3>1, <3>2, <3>3
  <2>2. CASE c # succ[b]
    <3>1. pred2[c] = pred[c] /\ pred[c] \in G /\ pred[c] # pred[b]
      BY <1>4, <2>2
    <3> QED
      BY <3>1
  <2> QED
    BY <2>1, <2>2
<1>11. \A c \in G : succ2[c] # NULL => pred2[succ2[c]] = c
  BY <1>3, <1>5
<1>12. head2 \in [K -> G \union {NULL}]
  <2>1. ASSUME NEW k \in K, head[k] = b
        PROVE  k = ListIn(size, b) /\ pred[b] = NULL
    BY <2>1
  <2> QED
    BY <1>3, <1>7, <2>1
<1>13. \A k \in K : head2[k] # NULL =>
          ListIn(size, head2[k]) = k /\ pred2[head2[k]] = NULL
  <2> SUFFICES ASSUME NEW k \in K, head2[k] # NULL
               PROVE  ListIn(size, head2[k]) = k /\ pred2[head2[k]] = NULL
    OBVIOUS
  <2>1. CASE pred[b] = NULL /\ k = ListIn(size, b)
    <3>1. head2[k] = succ[b]
      BY <1>7, <2>1
    <3> QED
      BY <1>3, <1>8, <2>1, <3>1
  <2>2. CASE ~(pred[b] = NULL /\ k = ListIn(size, b))
    <3>1. head2[k] = head[k]
      BY <1>7, <2>2
    <3>2. ListIn(size, head[k]) = k /\ pred[head[k]] = NULL /\ head[k] \in F
      BY <3>1
    <3>3. head[k] # b
      BY <2>2, <3>2
    <3>4. head[k] # succ[b]
      BY <3>2, <3>1
    <3> QED
      BY <3>1, <3>2, <3>3, <3>4
  <2> QED
    BY <2>1, <2>2
<1>14. Acyclic(G, succ2)
  <2> DEFINE num2 == [c \in G |-> num[c]]
  <2>1. N \in Nat /\ num2 \in [G -> 0 .. N]
    BY <1>1 DEF Numbered
  <2>2. ASSUME NEW c \in G, succ2[c] # NULL
        PROVE  num2[c] < num2[succ2[c]]
    <3>1. num2[c] = num[c] /\ num2[succ2[c]] = num[succ2[c]] /\ succ2[c] \in G
      BY <1>6, <2>2
    <3>2. CASE c = pred[b]
      <4>1. succ2[c] = succ[b] /\ num[c] < num[b] /\ num[b] < num[succ[b]]
        BY <1>2, <2>2, <3>2
      <4> QED
        BY <1>2, <1>3, <2>2, <3>1, <4>1
    <3>3. CASE c # pred[b]
      BY <1>1, <2>2, <3>1, <3>3 DEF Numbered
    <3> QED
      BY <3>2, <3>3
  <2> QED
    BY <2>1, <2>2 DEF Acyclic, Numbered
<1> QED
  BY <1>6, <1>9, <1>10, <1>11, <1>12, <1>13, <1>14

(* Linking b in between p and q. *)
Entered(F, pred, succ, b, p, q, pred2, succ2) ==
  \A c \in F \union {b} :
     /\ pred2[c] = IF c = b THEN p ELSE IF c = q THEN b ELSE pred[c]
     /\ succ2[c] = IF c = b THEN q ELSE IF c = p THEN b ELSE succ[c]

LEMMA LinkIn ==
  ASSUME NEW F, NEW size, NEW pred, NEW succ, NEW head,
         Lists(F, size, pred, succ, head),
         NEW b, b \notin F, b # NULL, size[b] \in Nat,
         NEW p, NEW q,
         Between(F, size, pred, succ, head, ListIn(size, b), size[b], p, q),
         NEW pred2, NEW succ2, Entered(F, pred, succ, b, p, q, pred2, succ2)
  PROVE  Lists(F \union {b}, size, pred2, succ2,
               NewHead(head, ListIn(size, b), p, b))
<1> DEFINE G == F \union {b}
           K == 0 .. LIST_MAX - 1
           k == ListIn(size, b)
           head2 == NewHead(head, k, p, b)
<1> USE DEF Lists, Between, NewHead
<1>1. PICK N, num : Numbered(F, succ, num, N)
  BY DEF Acyclic
<1>2. /\ k \in K
      /\ p # b /\ q # b /\ NULL \notin G
      /\ (p # NULL /\ q # NULL) => p # q
  <2>1. k \in K
    BY ListOfSize DEF ListIn
  <2>2. (p # NULL /\ q # NULL) => num[p] < num[q] /\ num[p] \in Int
    BY <1>1 DEF Numbered
  <2> QED
    BY <2>1, <2>2
<1>3. /\ pred2[b] = p /\ succ2[b] = q
      /\ p # NULL => succ2[p] = b
      /\ q # NULL => pred2[q] = b
      /\ \A c \in F \ {p} : succ2[c] = succ[c]
      /\ \A c \in F \ {q} : pred2[c] = pred[c]
  BY <1>2 DEF Entered
<1>4. \A c \in G : /\ size[c] \in Nat
                   /\ pred2[c] \in G \union {NULL} /\ succ2[c] \in G \union {NULL}
  BY <1>3
<1>5. \A c \in F \ {p} : succ[c] # NULL => succ[c] # q
  OBVIOUS
<1>6. \A c \in F \ {q} : pred[c] # NULL => pred[c] # p
  OBVIOUS
<1>7. \A c \in G : pred2[c] = NULL => head2[ListIn(size, c)] = c
  <2> SUFFICES ASSUME NEW c \in G, pred2[c] = NULL
               PROVE  head2[ListIn(size, c)] = c
    OBVIOUS
  <2>1. CASE c = b
    BY <1>2, <1>3, <2>1
  <2>2. CASE c # b
    <3>1. c \in F /\ c # q /\ pred[c] = NULL /\ head[ListIn(size, c)] = c
      BY <1>2, <1>3, <2>2
    <3>2. p = NULL => ListIn(size, c) # k
      BY <3>1
    <3> QED
      BY <1>2, <3>1, <3>2
  <2> QED
    BY <2>1, <2>2
<1>8. \A c \in G : pred2[c] # NULL => /\ succ2[pred2[c]] = c
                                      /\ ListIn(size, pred2[c]) = ListIn(size, c)
                                      /\ size[pred2[c]] <= size[c]
  <2> SUFFICES ASSUME NEW c \in G, pred2[c] # NULL
               PROVE  /\ succ2[pred2[c]] = c
                      /\ ListIn(size, pred2[c]) = ListIn(size, c)
                      /\ size[pred2[c]] <= size[c]
    OBVIOUS
  <2>1. CASE c = b
    BY <1>3, <2>1
  <2>2. CASE c = q
    BY <1>2, <1>3, <2>2
  <2>3. CASE c # b /\ c # q
    <3>1. c \in F \ {q} /\ pred2[c] = pred[c] /\ pred[c] # p
      BY <1>3, <1>6, <2>3
    <3> QED
      BY <1>3, <3>1
  <2> QED
    BY <2>1, <2>2, <2>3
<1>9. \A c \in G : succ2[c] # NULL => pred2[succ2[c]] = c
  <2> SUFFICES ASSUME NEW c \in G, succ2[c] # NULL
               PROVE  pred2[succ2[c]] = c
    OBVIOUS
  <2>1. CASE c = b \/ c = p
    BY <1>2, <1>3, <2>1
  <2>2. CASE c # b /\ c # p
    BY <1>3, <1>5, <2>2
  <2> QED
    BY <2>1, <2>2
<1>10. head2 \in [K -> G \union {NULL}]
  BY <1>2
<1>11. \A j \in K : head2[j] # NULL =>
          ListIn(size, head2[j]) = j /\ pred2[head2[j]] = NULL
  <2> SUFFICES ASSUME NEW j \in K, head2[j] # NULL
               PROVE  ListIn(size, head2[j]) = j /\ pred2[head2[j]] = NULL
    OBVIOUS
  <2>1. CASE p = NULL /\ j = k
    BY <1>2, <1>3, <2>1
  <2>2. CASE ~(p = NULL /\ j = k)
    <3>1. head2[j] = head[j] /\ head[j] \in F
      BY <1>2, <2>2
    <3>2. ListIn(size, head[j]) = j /\ pred[head[j]] = NULL
      BY <3>1
    <3>3. head[j] # q
      BY <2>2, <3>1, <3>2
    <3> QED
      BY <1>3, <3>1, <3>2, <3>3
  <2> QED
    BY <2>1, <2>2
<1>12. Acyclic(G, succ2)
  <2> DEFINE at   == IF p = NULL THEN 1 ELSE 2 * num[p] + 3
             num2 == [c \in G |-> IF c = b THEN at ELSE 2 * num[c] + 2]
  <2>1. \A c \in F : num[c] \in 0 .. N /\ N \in Nat
    BY <1>1 DEF Numbered
  <2>2. at \in 0 .. 2 * N + 3
    <3>1. CASE p = NULL
      BY <1>1, <3>1 DEF Numbered
    <3>2. CASE p # NULL
      <4>1. num[p] \in 0 .. N /\ N \in Nat
        BY <2>1, <3>2
      <4> QED
        BY <3>2, <4>1
    <3> QED
      BY <3>1, <3>2
  <2>3. \A c \in F : 2 * num[c] + 2 \in 0 .. 2 * N + 3
    BY <2>1
  <2>4. 2 * N + 3 \in Nat
    BY <1>1 DEF Numbered
  <2>5. num2 \in [G -> 0 .. 2 * N + 3]
    BY <2>2, <2>3
  <2>6. num2[b] = at /\ \A c \in F : num2[c] = 2 * num[c] + 2
    OBVIOUS
  <2>7. ASSUME NEW c \in G, succ2[c] # NULL
        PROVE  num2[c] < num2[succ2[c]]
    <3>1. CASE c = b
      <4>1. succ2[c] = q /\ q \in F
        BY <1>3, <2>7, <3>1
      <4>2. p # NULL => num[p] < num[q]
        BY <1>1, <4>1 DEF Numbered
      <4> QED
        BY <2>1, <2>6, <3>1, <4>1, <4>2
    <3>2. CASE c = p
      <4>1. succ2[c] = b /\ p \in F
        BY <1>2, <1>3, <2>7, <3>2
      <4> QED
        BY <2>1, <2>6, <1>2, <3>2, <4>1
    <3>3. CASE c # b /\ c # p
      <4>1. succ2[c] = succ[c] /\ c \in F /\ succ[c] \in F
        BY <1>3, <2>7, <3>3
      <4>2. num[c] < num[succ[c]]
        BY <1>1, <2>7, <4>1 DEF Numbered
      <4> QED
        BY <2>1, <2>6, <4>1, <4>2
    <3> QED
      BY <3>1, <3>2, <3>3
  <2> HIDE DEF num2
  <2> QED
    BY <2>4, <2>5, <2>7 DEF Acyclic, Numbered
<1> QED
  BY <1>2, <1>4, <1>7, <1>8, <1>9, <1>10, <1>11, <1>12

(* A walk from the head of a list stays on it and meets every node of it;  *)
(* no smaller set holds the walk.                                          *)
LEMMA WalkMeetsAll ==
  ASSUME NEW F, NEW size, NEW pred, NEW succ, NEW head,
         Lists(F, size, pred, succ, head),
         NEW k \in 0 .. LIST_MAX - 1, NEW X \in SUBSET F,
         \A b \in X : ListIn(size, b) = k,
         head[k] \in X \union {NULL},
         \A b \in X : succ[b] \in X \union {NULL}
  PROVE  X = {b \in F : ListIn(size, b) = k}
<1> DEFINE Y == {b \in F \ X : ListIn(size, b) = k}
<1> USE DEF Lists
<1>1. PICK N, num : Numbered(F, succ, num, N)
  BY DEF Acyclic
<1> SUFFICES ASSUME Y # {}
             PROVE  FALSE
  OBVIOUS
<1> DEFINE T == {num[b] : b \in Y}
<1>2. T \subseteq Nat /\ T # {}
  BY <1>1 DEF Numbered
<1>3. PICK n \in T : \A j \in T : n <= j
  BY <1>2, LeastNumber
<1>4. PICK b \in Y : num[b] = n
  OBVIOUS
<1>5. pred[b] # NULL
  OBVIOUS
<1>6. pred[b] \in F /\ succ[pred[b]] = b /\ ListIn(size, pred[b]) = k
  BY <1>5
<1>7. pred[b] \in Y
  BY <1>6
<1>8. num[pred[b]] < num[b] /\ num[pred[b]] \in Int /\ num[b] \in Int
  BY <1>1, <1>6 DEF Numbered
<1>9. num[b] <= num[pred[b]]
  BY <1>3, <1>4, <1>7
<1> QED
  BY <1>8, <1>9

-----------------------------------------------------------------------------
(* insert_node's walk is a recursive function, which is a function only if *)
(* its equation has a solution.  It has one for every walk that is         *)
(* determined by where it is: the end of it, where it has one.             *)
WalkEquation(E, Ends, nx, f) ==
  f = [x \in E |-> IF x \notin Ends THEN f[nx[x]] ELSE x]

(* C cannot be left. *)
StaysWithin(C, Ends, nx) == \A z \in C : z \notin Ends => nx[z] \in C

(* Where a walk from x can end. *)
EndsOf(E, Ends, nx, x) ==
  {y \in Ends : \A C \in SUBSET E : x \in C /\ StaysWithin(C, Ends, nx) => y \in C}

LEMMA WalkExists ==
  ASSUME NEW E, NEW Ends \in SUBSET E, NEW nx,
         \A x \in E : x \notin Ends => nx[x] \in E
  PROVE  \E f : WalkEquation(E, Ends, nx, f)
<1> DEFINE R(x) == EndsOf(E, Ends, nx, x)
           f == [x \in E |-> CHOOSE y : y \in R(x)]
<1>1. ASSUME NEW x \in Ends
      PROVE  R(x) = {x}
  <2>1. StaysWithin({x}, Ends, nx) /\ {x} \in SUBSET E
    BY DEF StaysWithin
  <2> QED
    BY <2>1 DEF EndsOf
<1>2. ASSUME NEW x \in E, x \notin Ends
      PROVE  R(x) = R(nx[x])
  <2>1. R(nx[x]) \subseteq R(x)
    BY <1>2 DEF EndsOf, StaysWithin
  <2>2. ASSUME NEW y \in R(x), NEW C \in SUBSET E,
               nx[x] \in C, StaysWithin(C, Ends, nx)
        PROVE  y \in C
    <3>1. StaysWithin(C \union {x}, Ends, nx) /\ C \union {x} \in SUBSET E
      BY <2>2 DEF StaysWithin
    <3>2. y \in C \union {x} /\ y \in Ends
      BY <3>1 DEF EndsOf
    <3> QED
      BY <1>2, <3>2
  <2>3. R(x) \subseteq R(nx[x])
    BY <2>2 DEF EndsOf
  <2> QED
    BY <2>1, <2>3
<1> HIDE DEF R
<1>3. ASSUME NEW x \in E
      PROVE  f[x] = IF x \notin Ends THEN f[nx[x]] ELSE x
  BY <1>1, <1>2
<1>4. WalkEquation(E, Ends, nx, f)
  BY <1>3 DEF WalkEquation
<1> QED
  BY <1>4

(* The lists of a heap whose nodes are F. *)
SizesOf(h, F) == [b \in F |-> Size(h.mem, b)]
PredsOf(h, F) == [b \in F |-> PRED_NODE(h.mem, b)]
SuccsOf(h, F) == [b \in F |-> SUCC_NODE(h.mem, b)]

HeapLists(h, F) ==
  Lists(F, SizesOf(h, F), PredsOf(h, F), SuccsOf(h, F), h.lists)

(* insert_node's walk, step by step: a function of where it is. *)
Steps(h, n, walk) ==
  \A p, q \in Node :
     walk[<<p, q>>] =
       IF q # NULL /\ Size(h.mem, q) < n /\ SUCC_NODE(h.mem, q) \in Node
       THEN walk[<<q, SUCC_NODE(h.mem, q)>>] ELSE <<p, q>>

LEMMA GapSteps ==
  ASSUME NEW h, NEW n
  PROVE  \E walk : Steps(h, n, walk) /\ Gap(h, n) = walk[<<NULL, h.lists[ListOf(n)]>>]
<1> DEFINE E    == Node \X Node
           On(at) == /\ at[2] # NULL /\ Size(h.mem, at[2]) < n
                     /\ SUCC_NODE(h.mem, at[2]) \in Node
           Ends == {x \in E : ~On(x)}
           nx   == [x \in E |-> <<x[2], SUCC_NODE(h.mem, x[2])>>]
           W(f) == f = [at \in E |->
                          IF On(at) THEN f[<<at[2], SUCC_NODE(h.mem, at[2])>>]
                          ELSE at]
           seek == CHOOSE f : W(f)
<1>1. Gap(h, n) = seek[<<NULL, h.lists[ListOf(n)]>>]
  BY DEF Gap
<1>2. \A at \in E : at \notin Ends => nx[at] \in E
  OBVIOUS
<1>3. PICK f : WalkEquation(E, Ends, nx, f)
  <2> HIDE DEF E, Ends, nx
  <2>1. Ends \in SUBSET E
    BY DEF Ends
  <2> QED
    BY <1>2, <2>1, WalkExists
<1>4. W(f)
  BY <1>3 DEF WalkEquation
<1>5. W(seek)
  <2> HIDE DEF W
  <2> QED
    BY <1>4
<1> HIDE DEF seek
<1>6. Steps(h, n, seek)
  BY <1>5 DEF Steps
<1> QED
  BY <1>1, <1>6

(* insert_node's walk ends at the place for a block of size n. *)
LEMMA GapFound ==
  ASSUME NEW h, NEW F \in SUBSET Addr, HeapLists(h, F), NEW n \in Nat
  PROVE  \E p, q : /\ Gap(h, n) = <<p, q>>
                   /\ Between(F, SizesOf(h, F), PredsOf(h, F), SuccsOf(h, F),
                              h.lists, ListOf(n), n, p, q)
<1> DEFINE size == SizesOf(h, F)
           pred == PredsOf(h, F)
           succ == SuccsOf(h, F)
           head == h.lists
           k    == ListOf(n)
<1>1. Lists(F, size, pred, succ, head)
  BY DEF HeapLists
<1>2. \A b \in F : /\ size[b] = Size(h.mem, b)
                   /\ pred[b] = PRED_NODE(h.mem, b)
                   /\ succ[b] = SUCC_NODE(h.mem, b)
  BY DEF SizesOf, PredsOf, SuccsOf
<1>7. PICK seek : /\ Steps(h, n, seek)
                  /\ Gap(h, n) = seek[<<NULL, h.lists[ListOf(n)]>>]
  BY GapSteps
<1>3. Gap(h, n) = seek[<<NULL, head[k]>>]
  BY <1>7
<1>8. \A p, q \in Node :
         seek[<<p, q>>] =
           IF q # NULL /\ Size(h.mem, q) < n /\ SUCC_NODE(h.mem, q) \in Node
           THEN seek[<<q, SUCC_NODE(h.mem, q)>>] ELSE <<p, q>>
  BY <1>7 DEF Steps
<1> HIDE DEF size, pred, succ
<1> DEFINE
      Here(p, q) == /\ p \in F \union {NULL} /\ q \in F \union {NULL}
                    /\ p = NULL => q = head[k]
                    /\ p # NULL => succ[p] = q /\ ListIn(size, p) = k /\ size[p] <= n
                    /\ q # NULL => pred[q] = p /\ ListIn(size, q) = k
      Good(p, q) == \E p2, q2 : /\ seek[<<p, q>>] = <<p2, q2>>
                                /\ Between(F, size, pred, succ, head, k, n, p2, q2)
<1>9. PICK N, num : Numbered(F, succ, num, N)
  BY <1>1 DEF Lists, Acyclic
<1>10. F \union {NULL} \subseteq Node
  BY DEF Node
<1>11. ASSUME NEW p, NEW q, Here(p, q), q = NULL \/ size[q] >= n
       PROVE  Good(p, q)
  <2>1. p \in Node /\ q \in Node /\ ~(q # NULL /\ Size(h.mem, q) < n)
    <3>1. q # NULL => size[q] = Size(h.mem, q) /\ size[q] \in Nat
      BY <1>1, <1>2, <1>11 DEF Lists
    <3> QED
      BY <1>10, <1>11, <3>1
  <2>2. seek[<<p, q>>] = <<p, q>>
    BY <1>8, <2>1
  <2>3. Between(F, size, pred, succ, head, k, n, p, q)
    BY <1>11 DEF Between
  <2> QED
    BY <2>2, <2>3
<1>12. ASSUME NEW p, NEW q, Here(p, q), ~Good(p, q)
       PROVE  /\ q \in F /\ Here(q, succ[q]) /\ ~Good(q, succ[q])
              /\ succ[q] # NULL => num[q] < num[succ[q]]
  <2>1. q \in F /\ q # NULL /\ size[q] < n
    <3>1. q \in F => size[q] \in Nat
      BY <1>1 DEF Lists
    <3> QED
      BY <1>11, <1>12, <3>1
  <2>2. /\ succ[q] \in F \union {NULL} /\ size[q] \in Nat /\ q # NULL
        /\ succ[q] # NULL => pred[succ[q]] = q
    BY <1>1, <2>1 DEF Lists
  <2>3. succ[q] # NULL => ListIn(size, succ[q]) = ListIn(size, q)
    BY <1>1, <2>1, <2>2 DEF Lists
  <2>4. Here(q, succ[q])
    BY <1>12, <2>1, <2>2, <2>3
  <2>5. p \in Node /\ q \in Node /\ Size(h.mem, q) < n
        /\ SUCC_NODE(h.mem, q) = succ[q] /\ succ[q] \in Node
    <3>1. p \in Node /\ q \in Node /\ succ[q] \in Node
      BY <1>10, <1>12, <2>2
    <3>2. SUCC_NODE(h.mem, q) = succ[q] /\ size[q] = Size(h.mem, q)
      BY <1>2, <2>1
    <3> QED
      BY <2>1, <3>1, <3>2
  <2>6. seek[<<p, q>>] = seek[<<q, succ[q]>>]
    BY <1>2, <1>8, <2>1, <2>5
  <2>7. ~Good(q, succ[q])
    BY <1>12, <2>6
  <2>8. succ[q] # NULL => num[q] < num[succ[q]]
    BY <1>9, <2>1 DEF Numbered
  <2> QED
    BY <2>1, <2>4, <2>7, <2>8
<1>13. Here(NULL, head[k])
  <2>1. k \in 0 .. LIST_MAX - 1
    BY ListOfSize
  <2> QED
    BY <1>1, <2>1 DEF Lists
<1>14. Good(NULL, head[k])
  <2> SUFFICES ASSUME ~Good(NULL, head[k])
               PROVE  FALSE
    OBVIOUS
  <2> DEFINE Bad == {q \in F : \E p : Here(p, q) /\ ~Good(p, q)}
             T   == {N - num[q] : q \in Bad}
  <2> HIDE DEF Here, Good
  <2>1. head[k] \in Bad
    BY <1>12, <1>13
  <2>2. \A q \in Bad : num[q] \in 0 .. N /\ N \in Nat
    BY <1>9 DEF Numbered
  <2>3. T \subseteq Nat /\ T # {}
    BY <2>1, <2>2
  <2>4. PICK t \in T : \A j \in T : t <= j
    BY <2>3, LeastNumber
  <2>5. PICK q \in Bad : t = N - num[q]
    OBVIOUS
  <2>6. PICK p : Here(p, q) /\ ~Good(p, q)
    OBVIOUS
  <2>7. /\ Here(q, succ[q]) /\ ~Good(q, succ[q])
        /\ succ[q] # NULL => num[q] < num[succ[q]]
    BY <1>12, <2>6
  <2>8. succ[q] \in Bad
    BY <1>12, <2>7
  <2>9. succ[q] # NULL
    BY <1>1, <2>8 DEF Lists
  <2>10. N - num[q] <= N - num[succ[q]]
    BY <2>4, <2>5, <2>8
  <2> QED
    BY <2>2, <2>7, <2>8, <2>9, <2>10
<1> QED
  BY <1>3, <1>14 DEF size, pred, succ

-----------------------------------------------------------------------------
(* A heap as the operations pass it along.                                 *)
Record(h) == h = [mem |-> h.mem, lists |-> h.lists] /\ Memory(h.mem)

LEMMA RecordFacts ==
  ASSUME NEW m, Memory(m), NEW L
  PROVE  LET r == [mem |-> m, lists |-> L]
         IN  Record(r) /\ r.mem = m /\ r.lists = L
BY DEF Record

LEMMA WriteMemory ==
  ASSUME NEW m, Memory(m), NEW a, NEW v
  PROVE  Memory([m EXCEPT ![a] = v])
BY DEF Memory

LEMMA SetPredFacts ==
  ASSUME NEW h, Record(h), NEW p, NEW q
  PROVE  LET h2 == SetPred(h, p, q)
         IN  /\ Record(h2) /\ h2.lists = h.lists
             /\ h2.mem = [h.mem EXCEPT ![p] = [link |-> q]]
<1> DEFINE m2 == [h.mem EXCEPT ![p] = [link |-> q]]
<1>1. SetPred(h, p, q) = [mem |-> m2, lists |-> h.lists]
  BY DEF SetPred, Record, PRED_PTR
<1>2. Memory(m2)
  BY WriteMemory DEF Record
<1> HIDE DEF m2
<1>3. LET h2 == SetPred(h, p, q)
      IN  Record(h2) /\ h2.lists = h.lists /\ h2.mem = m2
  BY <1>1, <1>2, RecordFacts
<1> QED
  BY <1>3 DEF m2

LEMMA SetSuccFacts ==
  ASSUME NEW h, Record(h), NEW p, NEW q
  PROVE  LET h2 == SetSucc(h, p, q)
         IN  /\ Record(h2) /\ h2.lists = h.lists
             /\ h2.mem = [h.mem EXCEPT ![p + 4] = [link |-> q]]
<1> DEFINE m2 == [h.mem EXCEPT ![p + 4] = [link |-> q]]
<1>1. SetSucc(h, p, q) = [mem |-> m2, lists |-> h.lists]
  BY DEF SetSucc, Record, SUCC_PTR, WSIZE
<1>2. Memory(m2)
  BY WriteMemory DEF Record
<1> HIDE DEF m2
<1>3. LET h2 == SetSucc(h, p, q)
      IN  Record(h2) /\ h2.lists = h.lists /\ h2.mem = m2
  BY <1>1, <1>2, RecordFacts
<1> QED
  BY <1>3 DEF m2

LEMMA SetHeadFacts ==
  ASSUME NEW h, Record(h), NEW k, NEW p
  PROVE  LET h2 == SetHead(h, k, p)
         IN  /\ Record(h2) /\ h2.mem = h.mem
             /\ h2.lists = [h.lists EXCEPT ![k] = p]
<1> DEFINE L2 == [h.lists EXCEPT ![k] = p]
<1>1. SetHead(h, k, p) = [mem |-> h.mem, lists |-> L2] /\ Memory(h.mem)
  BY DEF SetHead, Record
<1> HIDE DEF L2
<1>2. LET h2 == SetHead(h, k, p)
      IN  Record(h2) /\ h2.mem = h.mem /\ h2.lists = L2
  BY <1>1, RecordFacts
<1> QED
  BY <1>2 DEF L2

(* Where the nodes may lie: no link of one is a link or a header of        *)
(* another.                                                                *)
Nodes(F) ==
  /\ \A b \in F : /\ b \in Int /\ b % 8 = 0 /\ b > 0
                  /\ b - 4 \in Addr /\ b \in Addr /\ b + 4 \in Addr
  /\ \A b, c \in F : b < c => b + 16 <= c

(* From m to m2, only links of the nodes F have been written.              *)
Relinked(m, m2, F) ==
  /\ Memory(m2)
  /\ \A a \in Addr : m2[a] # m[a] => /\ m2[a] \in Link
                                     /\ \E c \in F : a = c \/ a = c + 4

LEMMA NodeWords ==
  ASSUME NEW F, Nodes(F), NEW b \in F, NEW c \in F
  PROVE  /\ b # c + 4 /\ b - 4 # c /\ b - 4 # c + 4 /\ b # 0
         /\ b + 4 = c + 4 => b = c
<1>1. b \in Int /\ c \in Int /\ b % 8 = 0 /\ c % 8 = 0 /\ b > 0
  BY DEF Nodes
<1>2. b = c \/ b + 16 <= c \/ c + 16 <= b
  BY <1>1 DEF Nodes
<1> QED
  BY <1>1, <1>2

(* The words after p's link to x and q's link back to y have been written. *)
Linked1(m, p, x)      == IF p = NULL THEN m ELSE [m EXCEPT ![p + 4] = [link |-> x]]
Linked(m, p, x, q, y) == IF q = NULL THEN Linked1(m, p, x)
                         ELSE [Linked1(m, p, x) EXCEPT ![q] = [link |-> y]]

(* They are read back so, and nothing else has changed. *)
LinksSet(m, m2, F, p, x, q, y) ==
  /\ Relinked(m, m2, F)
  /\ \A c \in F : /\ m2[c - 4] = m[c - 4] /\ Size(m2, c) = Size(m, c)
                  /\ SUCC_NODE(m2, c) = IF c = p THEN x ELSE SUCC_NODE(m, c)
                  /\ PRED_NODE(m2, c) = IF c = q THEN y ELSE PRED_NODE(m, c)

LEMMA LinksRead ==
  ASSUME NEW m, Memory(m), NEW F, Nodes(F),
         NEW p \in F \union {NULL}, NEW q \in F \union {NULL},
         NEW x \in Node, NEW y \in Node
  PROVE  LinksSet(m, Linked(m, p, x, q, y), F, p, x, q, y)
<1> DEFINE m1 == Linked1(m, p, x)
           m2 == Linked(m, p, x, q, y)
<1>1. \A c \in F : c - 4 \in Addr /\ c \in Addr /\ c + 4 \in Addr
  BY DEF Nodes
<1>2. \A b, c \in F : /\ b # c + 4 /\ b - 4 # c /\ b - 4 # c + 4 /\ b # 0
                      /\ b + 4 = c + 4 => b = c
  BY NodeWords
<1>3. /\ Memory(m1)
      /\ \A a \in Addr : m1[a] = IF p # NULL /\ a = p + 4 THEN [link |-> x] ELSE m[a]
  BY DEF Memory, Linked1
<1>4. m2 = IF q = NULL THEN m1 ELSE [m1 EXCEPT ![q] = [link |-> y]]
  BY DEF Linked
<1> HIDE DEF m1, m2
<1>5. /\ Memory(m2)
      /\ \A a \in Addr : m2[a] = IF q # NULL /\ a = q THEN [link |-> y] ELSE m1[a]
  BY <1>3, <1>4 DEF Memory
<1>6. ASSUME NEW c \in F
      PROVE  /\ m2[c - 4] = m[c - 4]
             /\ m2[c + 4] = IF c = p THEN [link |-> x] ELSE m[c + 4]
             /\ m2[c] = IF c = q THEN [link |-> y] ELSE m[c]
  <2>1. /\ p # NULL => c - 4 # p + 4 /\ c # p + 4 /\ (c + 4 = p + 4 <=> c = p)
        /\ q # NULL => c - 4 # q /\ c + 4 # q
        /\ c # NULL
    BY <1>2 DEF NULL
  <2> QED
    BY <1>1, <1>3, <1>5, <2>1
<1>7. [link |-> x] \in Link /\ [link |-> y] \in Link
  BY DEF Link
<1>8. Relinked(m, m2, F)
  BY <1>3, <1>5, <1>7 DEF Relinked
<1>9. [link |-> x].link = x /\ [link |-> y].link = y
  OBVIOUS
<1>10. ASSUME NEW c \in F
       PROVE  /\ m2[c - 4] = m[c - 4] /\ Size(m2, c) = Size(m, c)
              /\ SUCC_NODE(m2, c) = IF c = p THEN x ELSE SUCC_NODE(m, c)
              /\ PRED_NODE(m2, c) = IF c = q THEN y ELSE PRED_NODE(m, c)
  <2>1. m2[c - 4] = m[c - 4] /\ Size(m2, c) = Size(m, c)
    BY <1>6 DEF Size, GET_SIZE, HDRP, WSIZE
  <2>2. SUCC_NODE(m2, c) = m2[c + 4].link /\ SUCC_NODE(m, c) = m[c + 4].link
    BY DEF SUCC_NODE, SUCC_PTR, WSIZE
  <2>3. SUCC_NODE(m2, c) = IF c = p THEN x ELSE SUCC_NODE(m, c)
    BY <1>6, <1>9, <2>2
  <2>4. PRED_NODE(m2, c) = IF c = q THEN y ELSE PRED_NODE(m, c)
    BY <1>6, <1>9 DEF PRED_NODE, PRED_PTR
  <2> QED
    BY <2>1, <2>3, <2>4
<1> QED
  BY <1>8, <1>10 DEF m2, LinksSet

LEMMA RelinkedTwice ==
  ASSUME NEW m, NEW m1, NEW m2, NEW F, NEW G,
         Relinked(m, m1, F), Relinked(m1, m2, G)
  PROVE  Relinked(m, m2, F \union G)
BY DEF Relinked

(* The two steps in which both operations write them. *)
LEMMA LinkForth ==
  ASSUME NEW h, Record(h), NEW k, NEW p, NEW x
  PROVE  \A h2 : h2 = (IF p = NULL THEN SetHead(h, k, x) ELSE SetSucc(h, p, x)) =>
           /\ Record(h2) /\ h2.mem = Linked1(h.mem, p, x)
           /\ h2.lists = NewHead(h.lists, k, p, x)
<1> USE DEF NewHead
<1>1. CASE p = NULL
  BY <1>1, SetHeadFacts DEF Linked1
<1>2. CASE p # NULL
  <2>1. LET h2 == SetSucc(h, p, x)
        IN  /\ Record(h2) /\ h2.lists = h.lists
            /\ h2.mem = [h.mem EXCEPT ![p + 4] = [link |-> x]]
    BY SetSuccFacts
  <2> QED
    BY <1>2, <2>1 DEF Linked1
<1> QED
  BY <1>1, <1>2

LEMMA LinkBack ==
  ASSUME NEW h, Record(h), NEW m, NEW p, NEW x, h.mem = Linked1(m, p, x),
         NEW q, NEW y
  PROVE  LET h2 == IF q = NULL THEN h ELSE SetPred(h, q, y)
         IN  /\ Record(h2) /\ h2.mem = Linked(m, p, x, q, y)
             /\ h2.lists = h.lists
<1>1. CASE q = NULL
  BY <1>1 DEF Linked
<1>2. CASE q # NULL
  <2>1. LET h2 == SetPred(h, q, y)
        IN  /\ Record(h2) /\ h2.lists = h.lists
            /\ h2.mem = [h.mem EXCEPT ![q] = [link |-> y]]
    BY SetPredFacts
  <2>2. Linked(m, p, x, q, y) = [h.mem EXCEPT ![q] = [link |-> y]]
    BY <1>2 DEF Linked
  <2> QED
    BY <1>2, <2>1, <2>2
<1> QED
  BY <1>1, <1>2

(* delete_node(h, b) writes b's neighbours' links and perhaps a list head. *)
Deleted(h, h2, F, b) ==
  LET p == PRED_NODE(h.mem, b)
      s == SUCC_NODE(h.mem, b)
  IN  /\ Record(h2) /\ h2.lists = NewHead(h.lists, ListOf(Size(h.mem, b)), p, s)
      /\ LinksSet(h.mem, h2.mem, F \ {b}, p, s, s, p)

LEMMA DeleteForm ==
  ASSUME NEW h, Record(h), NEW F, Nodes(F), HeapLists(h, F), NEW b \in F
  PROVE  Deleted(h, delete_node(h, b), F, b)
<1> DEFINE m    == h.mem
           pred == PRED_NODE(m, b)
           succ == SUCC_NODE(m, b)
           k    == ListOf(Size(m, b))
           h1   == IF pred = NULL THEN SetHead(h, k, succ) ELSE SetSucc(h, pred, succ)
           h2   == delete_node(h, b)
           G    == F \ {b}
           lists2 == NewHead(h.lists, k, pred, succ)
<1>1. /\ SizesOf(h, F)[b] = Size(m, b) /\ PredsOf(h, F)[b] = pred
      /\ SuccsOf(h, F)[b] = succ
      /\ \A c \in F : /\ SizesOf(h, F)[c] = Size(m, c)
                      /\ PredsOf(h, F)[c] = PRED_NODE(m, c)
                      /\ SuccsOf(h, F)[c] = SUCC_NODE(m, c)
  BY DEF SizesOf, PredsOf, SuccsOf
<1>2. PICK N, num : Numbered(F, SuccsOf(h, F), num, N)
  BY DEF HeapLists, Lists, Acyclic
<1>3. /\ pred \in F \union {NULL} /\ succ \in F \union {NULL}
      /\ pred # NULL => SUCC_NODE(m, pred) = b
      /\ succ # NULL => PRED_NODE(m, succ) = b
      /\ b # NULL
  BY <1>1 DEF HeapLists, Lists
<1>4. pred # b /\ succ # b
  <2>1. succ # NULL => num[b] < num[succ] /\ num[b] \in Int
    BY <1>1, <1>2 DEF Numbered
  <2>2. succ # b
    BY <1>3, <2>1
  <2> QED
    BY <1>3, <2>2
<1>5. pred \in G \union {NULL} /\ succ \in G \union {NULL}
  BY <1>3, <1>4
<1>6. Nodes(G) /\ G \union {NULL} \subseteq Node
  BY DEF Nodes, Node
<1>7. h1 = IF pred = NULL THEN SetHead(h, k, succ) ELSE SetSucc(h, pred, succ)
  OBVIOUS
<1>8. h2 = IF succ = NULL THEN h1 ELSE SetPred(h1, succ, pred)
  BY DEF delete_node
<1>9. succ \in Node /\ pred \in Node
  BY <1>5, <1>6
<1> HIDE DEF h1, h2, m, pred, succ, lists2, k
<1>10. /\ Record(h2) /\ h2.lists = lists2 /\ h2.mem = Linked(m, pred, succ, succ, pred)
  <2>1. /\ Record(h1) /\ h1.lists = lists2 /\ h1.mem = Linked1(m, pred, succ)
    BY <1>7, LinkForth DEF lists2, m
  <2> QED
    BY <1>8, <2>1, LinkBack
<1>11. LinksSet(m, h2.mem, G, pred, succ, succ, pred)
  <2>1. Memory(m)
    BY DEF Record, m
  <2> HIDE DEF G
  <2>2. LinksSet(m, Linked(m, pred, succ, succ, pred), G, pred, succ, succ, pred)
    BY <1>5, <1>6, <1>9, <2>1, LinksRead
  <2> QED
    BY <1>10, <2>2
<1> QED
  BY <1>10, <1>11 DEF Deleted, h2, m, pred, succ, lists2, k

(* It takes the block off its list and leaves the others on theirs. *)
LEMMA DeleteNode ==
  ASSUME NEW h, Record(h), NEW F, Nodes(F), HeapLists(h, F), NEW b \in F
  PROVE  LET h2 == delete_node(h, b)
         IN  /\ Record(h2) /\ HeapLists(h2, F \ {b})
             /\ Relinked(h.mem, h2.mem, F \ {b})
<1> DEFINE m    == h.mem
           pred == PRED_NODE(m, b)
           succ == SUCC_NODE(m, b)
           k    == ListOf(Size(m, b))
           h2   == delete_node(h, b)
           G    == F \ {b}
           lists2 == NewHead(h.lists, k, pred, succ)
<1>1. /\ SizesOf(h, F)[b] = Size(m, b) /\ PredsOf(h, F)[b] = pred
      /\ SuccsOf(h, F)[b] = succ
      /\ \A c \in F : /\ SizesOf(h, F)[c] = Size(m, c)
                      /\ PredsOf(h, F)[c] = PRED_NODE(m, c)
                      /\ SuccsOf(h, F)[c] = SUCC_NODE(m, c)
  BY DEF SizesOf, PredsOf, SuccsOf
<1> HIDE DEF h2, m, pred, succ, lists2, k
<1>10. /\ Record(h2) /\ h2.lists = lists2
       /\ LinksSet(m, h2.mem, G, pred, succ, succ, pred)
  <2>1. Deleted(h, h2, F, b)
    BY DeleteForm DEF h2
  <2> QED
    BY <2>1 DEF Deleted, m, pred, succ, lists2, k
<1>11. LinksSet(m, h2.mem, G, pred, succ, succ, pred)
  BY <1>10
<1>12. HeapLists(h2, G)
  <2> DEFINE pred2 == PredsOf(h2, G)
             succ2 == SuccsOf(h2, G)
             size2 == SizesOf(h2, G)
  <2>1. \A c \in G : /\ size2[c] = SizesOf(h, F)[c]
                     /\ pred2[c] = IF c = SuccsOf(h, F)[b] THEN PredsOf(h, F)[b]
                                   ELSE PredsOf(h, F)[c]
                     /\ succ2[c] = IF c = PredsOf(h, F)[b] THEN SuccsOf(h, F)[b]
                                   ELSE SuccsOf(h, F)[c]
    <3>1. \A c \in G : /\ size2[c] = Size(h2.mem, c)
                       /\ pred2[c] = PRED_NODE(h2.mem, c)
                       /\ succ2[c] = SUCC_NODE(h2.mem, c)
      BY DEF SizesOf, PredsOf, SuccsOf
    <3> QED
      BY <1>1, <1>11, <3>1 DEF LinksSet
  <2>2. h2.lists = NewHead(h.lists, ListIn(SizesOf(h, F), b),
                           PredsOf(h, F)[b], SuccsOf(h, F)[b])
    <3>1. ListIn(SizesOf(h, F), b) = k
      BY <1>1 DEF ListIn, k
    <3> QED
      BY <1>1, <1>10, <3>1 DEF lists2
  <2> HIDE DEF pred2, succ2, size2
  <2>3. Lists(G, SizesOf(h, F), pred2, succ2, h2.lists)
    <3>1. Gone(F, PredsOf(h, F), SuccsOf(h, F), b, pred2, succ2)
      BY <2>1 DEF Gone
    <3> QED
      BY <2>2, <3>1, Unlink DEF HeapLists
  <2>4. Lists(G, size2, pred2, succ2, h2.lists)
    BY <2>1, <2>3, SameLists
  <2> QED
    BY <2>4 DEF HeapLists, pred2, succ2, size2
<1> QED
  BY <1>10, <1>11, <1>12 DEF h2, m, LinksSet

(* insert_node(h, b, n) writes b's links, its new neighbours' links to it  *)
(* and perhaps a list head.                                                *)
Inserted(h, h2, F, b, n) ==
  LET p == Gap(h, n)[1]
      s == Gap(h, n)[2]
  IN  /\ Record(h2) /\ h2.lists = NewHead(h.lists, ListOf(n), p, b)
      /\ Relinked(h.mem, h2.mem, F \union {b})
      /\ \A c \in F \union {b} :
            /\ Size(h2.mem, c) = Size(h.mem, c)
            /\ SUCC_NODE(h2.mem, c) =
                 IF c = b THEN s ELSE IF c = p THEN b ELSE SUCC_NODE(h.mem, c)
            /\ PRED_NODE(h2.mem, c) =
                 IF c = b THEN p ELSE IF c = s THEN b ELSE PRED_NODE(h.mem, c)

LEMMA InsertForm ==
  ASSUME NEW h, Record(h), NEW F, NEW b, b \notin F, Nodes(F \union {b}),
         HeapLists(h, F), NEW n \in Nat
  PROVE  Inserted(h, insert_node(h, b, n), F, b, n)
<1> DEFINE m    == h.mem
           G    == F \union {b}
           k    == ListOf(n)
           pred == Gap(h, n)[1]
           succ == Gap(h, n)[2]
           hA   == SetPred(h, b, pred)
           hB   == SetSucc(hA, b, succ)
           hC   == IF pred = NULL THEN SetHead(hB, k, b) ELSE SetSucc(hB, pred, b)
           h2   == insert_node(h, b, n)
           lists2 == NewHead(h.lists, k, pred, b)
<1>1. F \subseteq Addr /\ b \in Addr /\ b # NULL
  BY DEF Nodes, NULL
<1>2. Between(F, SizesOf(h, F), PredsOf(h, F), SuccsOf(h, F), h.lists, k, n, pred, succ)
  BY <1>1, GapFound
<1>3. pred \in F \union {NULL} /\ succ \in F \union {NULL}
  BY <1>2 DEF Between
<1>4. h2 = IF succ = NULL THEN hC ELSE SetPred(hC, succ, b)
  BY DEF insert_node
<1>5. /\ pred \in G \union {NULL} /\ succ \in G \union {NULL}
      /\ pred \in Node /\ succ \in Node /\ b \in Node /\ b \in G \union {NULL}
      /\ pred # b /\ succ # b
  BY <1>1, <1>3 DEF Node
<1> HIDE DEF pred, succ, h2, k
<1>6. /\ Record(hA) /\ hA.lists = h.lists
      /\ hA.mem = Linked(m, NULL, NULL, b, pred)
  <2>1. hA.mem = [m EXCEPT ![b] = [link |-> pred]] /\ Record(hA) /\ hA.lists = h.lists
    BY SetPredFacts
  <2> QED
    BY <1>1, <2>1 DEF Linked, Linked1
<1> HIDE DEF hA
<1>7. /\ Record(hB) /\ hB.lists = h.lists
      /\ hB.mem = Linked(hA.mem, b, succ, NULL, NULL)
  <2>1. /\ hB.mem = [hA.mem EXCEPT ![b + 4] = [link |-> succ]]
        /\ Record(hB) /\ hB.lists = hA.lists
    BY <1>6, SetSuccFacts
  <2> QED
    BY <1>1, <1>6, <2>1 DEF Linked, Linked1
<1> HIDE DEF hB
<1>8. Record(hC) /\ hC.lists = lists2 /\ hC.mem = Linked1(hB.mem, pred, b)
  <2>1. hC = IF pred = NULL THEN SetHead(hB, k, b) ELSE SetSucc(hB, pred, b)
    OBVIOUS
  <2> HIDE DEF hC
  <2> QED
    BY <1>7, <2>1, LinkForth
<1> HIDE DEF hC, lists2
<1>9. Record(h2) /\ h2.lists = lists2 /\ h2.mem = Linked(hB.mem, pred, b, succ, b)
  BY <1>4, <1>8, LinkBack
<1>10. /\ NULL \in Node /\ NULL \in G \union {NULL}
       /\ \A c \in G : c # NULL
  BY DEF Node, Nodes, NULL
<1>11. Memory(m) /\ Memory(hA.mem) /\ Memory(hB.mem)
  BY <1>6, <1>7 DEF Record
<1>17. Nodes(G)
  OBVIOUS
<1> HIDE DEF m, G
<1>12. LinksSet(m, hA.mem, G, NULL, NULL, b, pred)
  BY <1>5, <1>6, <1>10, <1>11, <1>17, LinksRead
<1>13. LinksSet(hA.mem, hB.mem, G, b, succ, NULL, NULL)
  BY <1>5, <1>7, <1>10, <1>11, <1>17, LinksRead
<1>14. LinksSet(hB.mem, h2.mem, G, pred, b, succ, b)
  BY <1>5, <1>9, <1>10, <1>11, <1>17, LinksRead
<1>15. /\ Relinked(m, h2.mem, G)
       /\ \A c \in G : /\ Size(h2.mem, c) = Size(m, c)
                       /\ SUCC_NODE(h2.mem, c) =
                            IF c = b THEN succ ELSE IF c = pred THEN b ELSE SUCC_NODE(m, c)
                       /\ PRED_NODE(h2.mem, c) =
                            IF c = b THEN pred ELSE IF c = succ THEN b ELSE PRED_NODE(m, c)
  <2>1. Relinked(m, h2.mem, G)
    BY <1>12, <1>13, <1>14, RelinkedTwice DEF LinksSet
  <2> QED
    BY <1>5, <1>10, <1>12, <1>13, <1>14, <2>1 DEF LinksSet
<1> QED
  BY <1>9, <1>15 DEF Inserted, h2, m, G, pred, succ, k, lists2

(* It puts the block on the list of its size. *)
LEMMA InsertNode ==
  ASSUME NEW h, Record(h), NEW F, NEW b, b \notin F, Nodes(F \union {b}),
         HeapLists(h, F), NEW n \in Nat, n = Size(h.mem, b)
  PROVE  LET h2 == insert_node(h, b, n)
         IN  /\ Record(h2) /\ HeapLists(h2, F \union {b})
             /\ Relinked(h.mem, h2.mem, F \union {b})
<1> DEFINE m    == h.mem
           G    == F \union {b}
           k    == ListOf(n)
           pred == Gap(h, n)[1]
           succ == Gap(h, n)[2]
           h2   == insert_node(h, b, n)
           lists2 == NewHead(h.lists, k, pred, b)
<1>1. F \subseteq Addr /\ b \in Addr /\ b # NULL
  BY DEF Nodes, NULL
<1>2. Between(F, SizesOf(h, F), PredsOf(h, F), SuccsOf(h, F), h.lists, k, n, pred, succ)
  BY <1>1, GapFound
<1> HIDE DEF m, G, pred, succ, h2, k, lists2
<1>3. Inserted(h, h2, F, b, n)
  BY InsertForm DEF h2
<1>9. Record(h2) /\ h2.lists = lists2
  BY <1>3 DEF Inserted, pred, k, lists2
<1>15. /\ Relinked(m, h2.mem, G)
       /\ \A c \in G : /\ Size(h2.mem, c) = Size(m, c)
                       /\ SUCC_NODE(h2.mem, c) =
                            IF c = b THEN succ ELSE IF c = pred THEN b ELSE SUCC_NODE(m, c)
                       /\ PRED_NODE(h2.mem, c) =
                            IF c = b THEN pred ELSE IF c = succ THEN b ELSE PRED_NODE(m, c)
  BY <1>3 DEF Inserted, m, G, pred, succ
<1>16. HeapLists(h2, G)
  <2> DEFINE size  == SizesOf(h, G)
             pred2 == PredsOf(h2, G)
             succ2 == SuccsOf(h2, G)
             size2 == SizesOf(h2, G)
             predF == PredsOf(h, F)
             succF == SuccsOf(h, F)
  <2>1. /\ size[b] = n /\ ListIn(size, b) = k
        /\ \A c \in F : /\ size[c] = SizesOf(h, F)[c]
                        /\ ListIn(size, c) = ListIn(SizesOf(h, F), c)
                        /\ predF[c] = PRED_NODE(m, c) /\ succF[c] = SUCC_NODE(m, c)
        /\ \A c \in G : /\ size2[c] = Size(h2.mem, c)
                        /\ pred2[c] = PRED_NODE(h2.mem, c)
                        /\ succ2[c] = SUCC_NODE(h2.mem, c)
                        /\ size[c] = Size(m, c)
    BY DEF SizesOf, PredsOf, SuccsOf, ListIn, k, m, G
  <2> HIDE DEF size, pred2, succ2, size2, predF, succF
  <2>2. Lists(F, size, predF, succF, h.lists)
    BY <2>1, SameLists DEF HeapLists, predF, succF
  <2>3. Between(F, size, predF, succF, h.lists, ListIn(size, b), size[b], pred, succ)
    BY <1>2, <2>1 DEF Between, predF, succF
  <2>4. Entered(F, predF, succF, b, pred, succ, pred2, succ2)
    BY <1>15, <2>1 DEF G, Entered
  <2>5. h2.lists = NewHead(h.lists, ListIn(size, b), pred, b)
    BY <1>9, <2>1 DEF lists2
  <2>6. Lists(G, size, pred2, succ2, h2.lists)
    <3>1. size[b] \in Nat
      BY <2>1
    <3> HIDE DEF HeapLists
    <3>2. Lists(F \union {b}, size, pred2, succ2, h2.lists)
      BY <1>1, <2>2, <2>3, <2>4, <2>5, <3>1, LinkIn
    <3> QED
      BY <3>2 DEF G
  <2>7. \A c \in G : size2[c] = size[c]
    BY <1>15, <2>1
  <2>8. Lists(G, size2, pred2, succ2, h2.lists)
    BY <2>6, <2>7, SameLists
  <2> QED
    BY <2>8 DEF HeapLists, pred2, succ2, size2
<1> QED
  BY <1>9, <1>15, <1>16 DEF h2, m, G

-----------------------------------------------------------------------------
(* Tags and lists together. *)

(* Free blocks can be list nodes. *)
LEMMA FreeNodes ==
  ASSUME NEW m, NEW brk, NEW S, Heap(m, brk, S),
         NEW F, F \subseteq S \ {heap_listp}
  PROVE  Nodes(F)
<1>1. /\ mem_start_brk \in Nat /\ heap_listp = mem_start_brk + 8
      /\ mem_max_addr \in Int
  BY ArenaAssumption DEF heap_listp, mem_max_addr, WSIZE
<1>2. brk \in Int /\ brk <= mem_max_addr
  BY HeapFacts DEF Heap
<1>3. ASSUME NEW b \in F
      PROVE  /\ b \in Int /\ b % 8 = 0 /\ b > 0
             /\ b - 4 \in Addr /\ b \in Addr /\ b + 4 \in Addr
  <2>1. /\ b \in Int /\ b >= heap_listp /\ b % 8 = 0 /\ b - 4 \in Addr
        /\ Size(m, b) \in Nat /\ b + Size(m, b) <= brk
    BY BlockFacts DEF Heap
  <2>2. Size(m, b) >= 16
    BY DEF Heap, MinimumSize, DSIZE
  <2> QED
    BY <1>1, <1>2, <2>1, <2>2 DEF Addr, WSIZE
<1>4. ASSUME NEW b \in F, NEW c \in F, b < c
      PROVE  b + 16 <= c
  <2>1. b + Size(m, b) <= c
    BY <1>4 DEF Heap, Tiled
  <2>2. Size(m, b) >= 16 /\ Size(m, b) \in Int /\ b \in Int /\ c \in Int
    BY BlockFacts DEF Heap, MinimumSize, DSIZE
  <2> QED
    BY <2>1, <2>2
<1> QED
  BY <1>3, <1>4 DEF Nodes

(* Where the links of a free block d lie among the words of a block c.     *)
LEMMA LinkWords ==
  ASSUME NEW m, NEW brk, NEW S, Heap(m, brk, S),
         NEW d \in S \ {heap_listp}, NEW a, a = d \/ a = d + 4
  PROVE  /\ a # brk - 4
         /\ \A c \in S : /\ a # c - 4 /\ a # c + Size(m, c) - 8
                         /\ c # d => ~(c <= a /\ a < c + Size(m, c) - DSIZE)
<1>1. /\ d \in Int /\ d % 8 = 0 /\ Size(m, d) \in Int /\ Size(m, d) >= 16
      /\ d + Size(m, d) <= brk /\ brk \in Int /\ brk % 8 = 0
  BY BlockFacts, HeapFacts DEF Heap, MinimumSize, DSIZE
<1> SUFFICES ASSUME NEW c \in S
             PROVE  /\ a # c - 4 /\ a # c + Size(m, c) - 8
                    /\ c # d => ~(c <= a /\ a < c + Size(m, c) - DSIZE)
  BY <1>1
<1>2. /\ c \in Int /\ c % 8 = 0 /\ Size(m, c) \in Int /\ Size(m, c) >= 8
      /\ Size(m, c) % 8 = 0
      /\ c < d => c + Size(m, c) <= d
      /\ d < c => d + Size(m, d) <= c
  BY BlockFacts DEF Heap, Tiled
<1>3. (c + Size(m, c) - 8) % 8 = 0
  BY <1>2
<1>4. c = d \/ c < d \/ d < c
  BY <1>1, <1>2
<1> QED
  BY <1>1, <1>2, <1>3, <1>4 DEF DSIZE

-----------------------------------------------------------------------------
(* The words that are new are tags and links. *)
OnlyNew(m, m2) == \A a \in Addr : m2[a] = m[a] \/ m2[a] \in Tag \union Link

LEMMA OnlyNewTwice ==
  ASSUME NEW m, NEW m1, NEW m2, OnlyNew(m, m1), OnlyNew(m1, m2)
  PROVE  OnlyNew(m, m2)
BY DEF OnlyNew

LEMMA KeptTwice ==
  ASSUME NEW m, NEW m1, NEW m2, NEW B, NEW B1, B \subseteq B1,
         Kept(m, m1, B), Kept(m1, m2, B1)
  PROVE  Kept(m, m2, B)
BY DEF Kept

LEMMA KeptPart ==
  ASSUME NEW m, NEW m2, NEW B1, Kept(m, m2, B1), NEW B, B \subseteq B1
  PROVE  Kept(m, m2, B)
BY DEF Kept

(* Only links of the free blocks F have been written: the heap of blocks S *)
(* is the same.                                                            *)
Rearranged(m, m2, brk, S, F) ==
  /\ Heap(m2, brk, S) /\ SameHeap(m, m2, S)
  /\ Coalesced(m, S) => Coalesced(m2, S)
  /\ \A lo, hi : CoalescedBut(m, S, lo, hi) => CoalescedBut(m2, S, lo, hi)
  /\ Allocated(m2, S) = Allocated(m, S)
  /\ Kept(m, m2, S \ F) /\ OnlyNew(m, m2)

LEMMA RelinkHeap ==
  ASSUME NEW m, NEW brk, NEW S, Heap(m, brk, S),
         NEW F, F \subseteq S \ {heap_listp}, NEW m2, Relinked(m, m2, F)
  PROVE  Rearranged(m, m2, brk, S, F)
<1>1. \A a \in Addr : m2[a] # m[a] =>
         m2[a] \in Link /\ \E d \in F : a = d \/ a = d + 4
  BY DEF Relinked
<1>2. /\ brk - 4 \in Addr
      /\ \A c \in S : c - 4 \in Addr /\ c + Size(m, c) - 8 \in Addr
  BY BlockFacts, HeapFacts DEF Heap
<1>3. /\ m2[brk - 4] = m[brk - 4]
      /\ \A c \in S : /\ m2[c - 4] = m[c - 4]
                      /\ m2[c + Size(m, c) - 8] = m[c + Size(m, c) - 8]
  <2>1. m2[brk - 4] = m[brk - 4]
    BY <1>1, <1>2, LinkWords
  <2>2. ASSUME NEW c \in S
        PROVE  /\ m2[c - 4] = m[c - 4]
               /\ m2[c + Size(m, c) - 8] = m[c + Size(m, c) - 8]
    <3>1. \A d \in F : \A a : (a = d \/ a = d + 4) => a # c - 4 /\ a # c + Size(m, c) - 8
      BY LinkWords
    <3> QED
      BY <1>1, <1>2, <3>1
  <2> QED
    BY <2>1, <2>2
<1>4. Memory(m2)
  BY DEF Relinked
<1>5. /\ Heap(m2, brk, S) /\ SameHeap(m, m2, S)
      /\ Coalesced(m, S) => Coalesced(m2, S)
      /\ \A lo, hi : CoalescedBut(m, S, lo, hi) => CoalescedBut(m2, S, lo, hi)
      /\ Allocated(m2, S) = Allocated(m, S)
  BY <1>3, <1>4, KeepHeap
<1>6. Kept(m, m2, S \ F)
  <2> SUFFICES ASSUME NEW c \in S \ F, NEW a \in Addr,
                      c <= a, a < c + Size(m, c) - DSIZE
               PROVE  m2[a] = m[a]
    BY <1>5 DEF Kept, SameHeap
  <2>1. \A d \in F : d # c /\ d \in S \ {heap_listp}
    OBVIOUS
  <2>2. ~\E d \in F : a = d \/ a = d + 4
    BY <2>1, LinkWords
  <2> QED
    BY <1>1, <2>2
<1>7. OnlyNew(m, m2)
  BY <1>1 DEF OnlyNew
<1> QED
  BY <1>5, <1>6, <1>7 DEF Rearranged

(* Rearranging twice is rearranging. *)
LEMMA RearrangedTwice ==
  ASSUME NEW m, NEW m1, NEW m2, NEW brk, NEW S, NEW F, NEW F2, F2 \subseteq F,
         Rearranged(m, m1, brk, S, F), Rearranged(m1, m2, brk, S, F2)
  PROVE  Rearranged(m, m2, brk, S, F)
<1>1. Kept(m1, m2, S \ F)
  <2>1. S \ F \subseteq S \ F2
    OBVIOUS
  <2> QED
    BY <2>1, KeptPart DEF Rearranged
<1>2. Kept(m, m2, S \ F)
  BY <1>1, KeptTwice DEF Rearranged
<1>3. OnlyNew(m, m2)
  BY OnlyNewTwice DEF Rearranged
<1>4. SameHeap(m, m2, S)
  BY DEF Rearranged, SameHeap
<1> QED
  BY <1>2, <1>3, <1>4 DEF Rearranged

(* delete_node and insert_node on the blocks of a heap.                    *)
LEMMA DeleteFree ==
  ASSUME NEW h, Record(h), NEW brk, NEW S, Heap(h.mem, brk, S),
         NEW F, F \subseteq S \ {heap_listp}, HeapLists(h, F), NEW b \in F
  PROVE  LET h2 == delete_node(h, b)
         IN  /\ Record(h2) /\ HeapLists(h2, F \ {b})
             /\ Rearranged(h.mem, h2.mem, brk, S, F \ {b})
<1> DEFINE h2 == delete_node(h, b)
<1>1. Nodes(F)
  BY FreeNodes
<1>2. Record(h2) /\ HeapLists(h2, F \ {b}) /\ Relinked(h.mem, h2.mem, F \ {b})
  BY <1>1, DeleteNode
<1> HIDE DEF h2
<1>3. Rearranged(h.mem, h2.mem, brk, S, F \ {b})
  <2>1. F \ {b} \subseteq S \ {heap_listp}
    OBVIOUS
  <2> QED
    BY <1>2, <2>1, RelinkHeap
<1> QED
  BY <1>2, <1>3 DEF h2

LEMMA InsertFree ==
  ASSUME NEW h, Record(h), NEW brk, NEW S, Heap(h.mem, brk, S),
         NEW F, F \subseteq S \ {heap_listp}, HeapLists(h, F),
         NEW b \in S \ F, b # heap_listp, NEW n, n = Size(h.mem, b)
  PROVE  LET h2 == insert_node(h, b, n)
         IN  /\ Record(h2) /\ HeapLists(h2, F \union {b})
             /\ Rearranged(h.mem, h2.mem, brk, S, F \union {b})
<1> DEFINE h2 == insert_node(h, b, n)
           G  == F \union {b}
<1>1. G \subseteq S \ {heap_listp}
  OBVIOUS
<1>2. Nodes(G) /\ n \in Nat
  BY <1>1, FreeNodes, BlockFacts DEF Heap
<1>3. Record(h2) /\ HeapLists(h2, G) /\ Relinked(h.mem, h2.mem, G)
  BY <1>2, InsertNode
<1> HIDE DEF h2, G
<1>4. Rearranged(h.mem, h2.mem, brk, S, G)
  BY <1>1, <1>3, RelinkHeap
<1> QED
  BY <1>3, <1>4 DEF h2, G

(* Lists whose nodes' words have not been written are the same.            *)
SameNodes(m, m2, F) ==
  \A c \in F : m2[c - 4] = m[c - 4] /\ m2[c] = m[c] /\ m2[c + 4] = m[c + 4]

LEMMA ListsKept ==
  ASSUME NEW h, NEW F, HeapLists(h, F),
         NEW h2, h2.lists = h.lists, SameNodes(h.mem, h2.mem, F)
  PROVE  HeapLists(h2, F)
<1>1. \A c \in F : /\ SizesOf(h2, F)[c] = SizesOf(h, F)[c]
                   /\ PredsOf(h2, F)[c] = PredsOf(h, F)[c]
                   /\ SuccsOf(h2, F)[c] = SuccsOf(h, F)[c]
  BY DEF SameNodes, SizesOf, PredsOf, SuccsOf, Size, GET_SIZE, HDRP,
         PRED_NODE, SUCC_NODE, PRED_PTR, SUCC_PTR, WSIZE
<1> DEFINE size2 == SizesOf(h2, F)
           pred2 == PredsOf(h2, F)
           succ2 == SuccsOf(h2, F)
<1> HIDE DEF size2, pred2, succ2
<1>2. Lists(F, size2, pred2, succ2, h.lists)
  BY <1>1, SameLists DEF HeapLists, size2, pred2, succ2
<1> QED
  BY <1>2 DEF HeapLists, size2, pred2, succ2

(* The nodes outside a stretch whose tags are rewritten are not written.   *)
LEMMA NodesOutside ==
  ASSUME NEW m, NEW brk, NEW S, Heap(m, brk, S),
         NEW lo \in S, NEW hi \in S \union {brk}, lo < hi,
         NEW m2, SameOutside(m, m2, lo, hi),
         NEW F, F \subseteq Outside(S, lo, hi) \ {heap_listp}
  PROVE  SameNodes(m, m2, F)
<1> SUFFICES ASSUME NEW c \in F
             PROVE  /\ m2[c - 4] = m[c - 4] /\ m2[c] = m[c]
                    /\ m2[c + 4] = m[c + 4]
  BY DEF SameNodes
<1>1. c \in S \ {heap_listp} /\ (c < lo \/ c >= hi)
  BY DEF Outside
<1>2. c - 4 \in Addr /\ c \in Addr /\ c + 4 \in Addr
  <2>1. F \subseteq S \ {heap_listp}
    BY DEF Outside
  <2> QED
    BY <2>1, FreeNodes DEF Nodes
<1>3. /\ c \in Int /\ lo \in Int /\ hi \in Int
      /\ Size(m, c) \in Int /\ Size(m, c) >= 16
      /\ c < lo => c + Size(m, c) <= lo
  <2>1. c \in Int /\ lo \in Int /\ hi \in Int /\ Size(m, c) \in Int
    BY <1>1, Bounds, BlockFacts DEF Heap
  <2>2. Size(m, c) >= 16 /\ (c < lo => c + Size(m, c) <= lo)
    BY <1>1 DEF Heap, Tiled, MinimumSize, DSIZE
  <2> QED
    BY <2>1, <2>2
<1>4. \A a : (a = c - 4 \/ a = c \/ a = c + 4) => a < lo - 4 \/ a >= hi - 4
  BY <1>1, <1>3
<1> QED
  BY <1>2, <1>4 DEF SameOutside

-----------------------------------------------------------------------------
(* The heap between two operations: the blocks tile it, no two free ones   *)
(* are neighbours, and the free lists hold the free ones.                  *)
FreeOf(m, S) == {c \in S : IsFree(m, c)}

Sound(h, brk, S) ==
  /\ Record(h) /\ Heap(h.mem, brk, S) /\ Coalesced(h.mem, S)
  /\ HeapLists(h, FreeOf(h.mem, S))

LEMMA FreeOrAllocated ==
  ASSUME NEW m, NEW brk, NEW S, Heap(m, brk, S)
  PROVE  /\ FreeOf(m, S) \subseteq S \ {heap_listp}
         /\ S \ FreeOf(m, S) = Allocated(m, S)
         /\ heap_listp \in Allocated(m, S)
<1>1. heap_listp \in S /\ m[heap_listp - 4].alloc = 1
  BY HeapFacts DEF Heap
<1>2. ~IsFree(m, heap_listp)
  BY <1>1 DEF IsFree, GET_ALLOC, HDRP, WSIZE
<1> QED
  BY <1>1, <1>2 DEF FreeOf, Allocated

(* Free block b is on no list and may have free neighbours: what coalesce  *)
(* is called with.                                                         *)
Loose(h, brk, S, b) ==
  /\ Record(h) /\ Heap(h.mem, brk, S)
  /\ b \in S /\ b # heap_listp /\ IsFree(h.mem, b)
  /\ CoalescedBut(h.mem, S, b, b + Size(h.mem, b))
  /\ HeapLists(h, FreeOf(h.mem, S) \ {b})

(* What it leaves: b is part of the free block lo, every allocated block   *)
(* and its payload are still there.                                        *)
CoalesceDone(h, h2, brk, S, S2, lo, b) ==
  /\ Sound(h2, brk, S2) /\ S2 = Absorbed(S, h2.mem, lo)
  /\ OnlyNew(h.mem, h2.mem) /\ SameAllocated(h.mem, S, h2.mem, S2)
  /\ Kept(h.mem, h2.mem, Allocated(h.mem, S))
  /\ lo \in S2 /\ lo # heap_listp /\ IsFree(h2.mem, lo)
  /\ lo <= b /\ b + Size(h.mem, b) <= lo + Size(h2.mem, lo)

(* The blocks from lo to hi have left their lists. *)
FreeApart(m, S, lo, hi) == FreeOf(m, S) \ {c \in S : lo <= c /\ c < hi}
Emptied(h, h1, brk, S, lo, hi) ==
  /\ Record(h1) /\ HeapLists(h1, FreeApart(h.mem, S, lo, hi))
  /\ Rearranged(h.mem, h1.mem, brk, S, FreeOf(h.mem, S))

(* The blocks outside the merged stretch are on their lists as before. *)
LEMMA MergedLists ==
  ASSUME NEW h, NEW brk, NEW S, Heap(h.mem, brk, S), NEW b \in S,
         NEW lo, NEW hi, FreeRun(h.mem, brk, S, b, lo, hi),
         NEW h1, Emptied(h, h1, brk, S, lo, hi),
         NEW h2, h2.lists = h1.lists,
         NEW S2, Freed(h1.mem, h2.mem, brk, S, S2, lo, hi),
         NEW F, F = FreeApart(h.mem, S, lo, hi)
  PROVE  /\ HeapLists(h2, F) /\ SameNodes(h1.mem, h2.mem, F)
         /\ F \subseteq S2 \ {heap_listp} /\ lo \notin F
         /\ \A c \in S2 : c # lo => (c \in F <=> IsFree(h.mem, c))
<1> DEFINE m  == h.mem
           m1 == h1.mem
           m2 == h2.mem
<1>1. /\ lo \in S /\ hi \in S \union {brk} /\ lo < hi /\ lo # heap_listp
  BY DEF FreeRun
<1>2. lo \in Int /\ hi \in Int /\ \A c \in S : c \in Int
  BY <1>1, Bounds DEF Heap
<1>3. Heap(m1, brk, S) /\ HeapLists(h1, F)
  BY DEF Emptied, Rearranged
<1>4. SameOutside(m1, m2, lo, hi) /\ S2 = Merged(S, lo, hi)
  BY DEF Freed
<1>5. /\ F \subseteq Outside(S, lo, hi) \ {heap_listp}
      /\ F \subseteq S2 \ {heap_listp} /\ lo \notin F
      /\ \A c \in S2 : c # lo => (c \in F <=> IsFree(m, c))
  <2>1. \A c \in F : /\ c \in S /\ c # heap_listp /\ IsFree(m, c)
                     /\ ~(lo <= c /\ c < hi)
    BY FreeOrAllocated DEF FreeApart, FreeOf, m
  <2>2. \A c \in F : (c < lo \/ c >= hi) /\ ~(lo < c /\ c < hi) /\ c # lo
    <3> SUFFICES ASSUME NEW c \in F
                 PROVE  (c < lo \/ c >= hi) /\ ~(lo < c /\ c < hi) /\ c # lo
      OBVIOUS
    <3>1. c \in Int /\ lo < hi /\ ~(lo <= c /\ c < hi)
      BY <1>1, <1>2, <2>1
    <3> QED
      BY <1>2, <3>1
  <2>3. \A c \in S2 : c # lo => (c \in F <=> IsFree(m, c))
    <3>1. \A c \in S2 : c # lo => c \in S /\ ~(lo <= c /\ c < hi)
      BY <1>2, <1>4 DEF Merged
    <3> QED
      BY <3>1 DEF FreeApart, m, FreeOf
  <2> QED
    BY <1>4, <2>1, <2>2, <2>3 DEF Outside, Merged
<1>6. SameNodes(m1, m2, F)
  <2> HIDE DEF m1, m2
  <2> QED
    BY <1>1, <1>3, <1>4, <1>5, NodesOutside
<1>7. HeapLists(h2, F)
  BY <1>3, <1>6, ListsKept
<1> QED
  BY <1>5, <1>6, <1>7 DEF m

LEMMA MergeInsert ==
  ASSUME NEW h, NEW brk, NEW S, Heap(h.mem, brk, S), NEW b \in S,
         NEW lo, NEW hi, FreeRun(h.mem, brk, S, b, lo, hi),
         NEW h1, Emptied(h, h1, brk, S, lo, hi),
         NEW h2, Record(h2), h2.lists = h1.lists,
         NEW S2, Freed(h1.mem, h2.mem, brk, S, S2, lo, hi),
         NEW n, n = Size(h2.mem, lo),
         NEW h3, h3 = insert_node(h2, lo, n)
  PROVE  CoalesceDone(h, h3, brk, S, S2, lo, b)
<1> DEFINE m  == h.mem
           m1 == h1.mem
           m2 == h2.mem
           F  == FreeApart(m, S, lo, hi)
<1>1. /\ lo \in S /\ hi \in S \union {brk} /\ lo < hi /\ lo # heap_listp
      /\ lo <= b /\ b + Size(m, b) <= hi /\ IsFree(m, lo)
      /\ \A c \in S : lo < c /\ c < hi => IsFree(m, c)
  BY DEF FreeRun
<1>2. lo \in Int /\ hi \in Int /\ \A c \in S : c \in Int
  BY <1>1, Bounds DEF Heap
<1>3. /\ Heap(m1, brk, S) /\ SameHeap(m, m1, S)
      /\ Allocated(m1, S) = Allocated(m, S)
      /\ Kept(m, m1, S \ FreeOf(m, S)) /\ OnlyNew(m, m1)
      /\ HeapLists(h1, F)
  BY DEF Emptied, Rearranged
<1>4. /\ Heap(m2, brk, S2) /\ Coalesced(m2, S2)
      /\ lo \in S2 /\ IsFree(m2, lo) /\ Size(m2, lo) = hi - lo
      /\ SameTags(m1, m2, S2 \ {lo})
      /\ SameOutside(m1, m2, lo, hi) /\ OnlyTagsNew(m1, m2)
      /\ S2 = Merged(S, lo, hi)
  BY DEF Freed
<1>5. /\ F \subseteq S2 \ {heap_listp} /\ lo \notin F
      /\ \A c \in S2 : c # lo => (c \in F <=> IsFree(m, c))
      /\ HeapLists(h2, F)
  <2> PICK F0 : F0 = FreeApart(h.mem, S, lo, hi)
    OBVIOUS
  <2>1. /\ HeapLists(h2, F0)
        /\ F0 \subseteq S2 \ {heap_listp} /\ lo \notin F0
        /\ \A c \in S2 : c # lo => (c \in F0 <=> IsFree(h.mem, c))
    BY MergedLists
  <2> QED
    BY <2>1
<1> HIDE DEF F
<1> DEFINE G == F \union {lo}
<1>7. Record(h3) /\ HeapLists(h3, G) /\ Rearranged(m2, h3.mem, brk, S2, G)
  BY <1>1, <1>4, <1>5, InsertFree
<1>8. /\ Heap(h3.mem, brk, S2) /\ SameHeap(m2, h3.mem, S2) /\ Coalesced(h3.mem, S2)
      /\ Allocated(h3.mem, S2) = Allocated(m2, S2)
      /\ Kept(m2, h3.mem, S2 \ G) /\ OnlyNew(m2, h3.mem)
  BY <1>4, <1>7 DEF Rearranged
<1> HIDE DEF m, m1, m2
<1>9. \A c \in S2 : c # lo => (IsFree(m2, c) <=> IsFree(m, c))
  <2>1. \A c \in S2 : c \in S
    BY <1>4 DEF Merged
  <2> QED
    BY <1>3, <1>4, <2>1 DEF SameTags, SameHeap, IsFree, GET_ALLOC, HDRP, WSIZE
<1>10. FreeOf(h3.mem, S2) = G
  BY <1>4, <1>5, <1>8, <1>9 DEF FreeOf, SameHeap
<1>11. /\ Allocated(m2, S2) = Allocated(m, S)
       /\ Allocated(m, S) \subseteq S2 \ {lo}
       /\ Allocated(m, S) \subseteq Outside(S, lo, hi)
       /\ Allocated(m, S) \subseteq S2 \ G
       /\ Allocated(m, S) = S \ FreeOf(m, S)
  <2>1. Allocated(m, S) = S \ FreeOf(m, S)
    BY DEF Allocated, FreeOf
  <2>2. \A c \in Allocated(m, S) : /\ c \in S /\ ~IsFree(m, c)
                                   /\ c # lo /\ ~(lo < c /\ c < hi)
    BY <1>1 DEF Allocated
  <2>3. \A c \in Allocated(m, S) : c \in S2 /\ (c < lo \/ c >= hi) /\ c \notin G
    <3> SUFFICES ASSUME NEW c \in Allocated(m, S)
                 PROVE  c \in S2 /\ (c < lo \/ c >= hi) /\ c \notin G
      OBVIOUS
    <3>1. /\ c \in S /\ ~IsFree(m, c) /\ c # lo /\ ~(lo < c /\ c < hi)
          /\ c \in Int
      BY <1>2, <2>2
    <3>2. c \in S2 /\ c \notin F
      BY <1>4, <1>5, <3>1 DEF Merged
    <3> QED
      BY <1>2, <3>1, <3>2
  <2>4. Allocated(m2, S2) = Allocated(m, S)
    <3>1. \A c \in S2 : ~IsFree(m2, c) <=> c \in Allocated(m, S)
      BY <1>1, <1>4, <1>9 DEF Allocated, Merged
    <3> QED
      BY <2>3, <3>1 DEF Allocated
  <2> HIDE DEF G
  <2> QED
    BY <2>1, <2>2, <2>3, <2>4 DEF Outside
<1>12. Kept(m, h3.mem, Allocated(m, S))
  <2>1. SameTags(m1, m2, Allocated(m, S))
    BY <1>4, <1>11 DEF SameTags
  <2>2. Kept(m1, m2, Allocated(m, S))
    BY <1>1, <1>3, <1>4, <1>11, <2>1, KeptOutside DEF Heap
  <2>3. Kept(m, m2, Allocated(m, S))
    BY <1>3, <1>11, <2>2, KeptTwice
  <2>4. Kept(m2, h3.mem, Allocated(m, S))
    BY <1>8, <1>11, KeptPart
  <2> QED
    BY <2>3, <2>4, KeptTwice
<1>13. OnlyNew(m, h3.mem)
  BY <1>3, <1>4, <1>8 DEF OnlyNew, OnlyTagsNew
<1>14. lo + Size(h3.mem, lo) = hi /\ IsFree(h3.mem, lo)
  BY <1>2, <1>4, <1>8 DEF SameHeap
<1>15. S2 = Absorbed(S, h3.mem, lo)
  BY <1>4, <1>14 DEF Absorbed, Merged, NEXT_BLKP, Size, HDRP
<1> QED
  BY <1>1, <1>4, <1>7, <1>8, <1>10, <1>11, <1>12, <1>13, <1>14, <1>15
  DEF CoalesceDone, Sound, SameAllocated, m

(* The merged tags, once the merged blocks have left their lists.          *)
LEMMA MergeTags ==
  ASSUME NEW m, NEW brk, NEW S, NEW b \in S,
         NEW lo, NEW hi, FreeRun(m, brk, S, b, lo, hi),
         NEW m1, NEW F, Rearranged(m, m1, brk, S, F)
  PROVE  Freed(m1, PutTags(m1, lo, hi - lo, 0), brk, S, Merged(S, lo, hi), lo, hi)
<1>1. /\ lo \in S /\ lo # heap_listp /\ hi \in S \union {brk}
      /\ lo < hi /\ hi - lo >= 16
      /\ CoalescedBut(m, S, lo, hi) /\ Walled(m, S, lo, hi)
  BY DEF FreeRun
<1>2. /\ Heap(m1, brk, S) /\ CoalescedBut(m1, S, lo, hi)
      /\ \A c \in S : /\ Size(m1, c) = Size(m, c)
                      /\ IsFree(m1, c) <=> IsFree(m, c)
  BY <1>1 DEF Rearranged, SameHeap
<1>3. Walled(m1, S, lo, hi)
  BY <1>1, <1>2 DEF Walled
<1> QED
  BY <1>1, <1>2, <1>3, FreeStretch

(* The words coalesce reads for the neighbours q and n of b are the same   *)
(* after a neighbour has left its list.                                    *)
LEMMA SameNeighbours ==
  ASSUME NEW m, NEW brk, NEW S, Heap(m, brk, S),
         NEW b \in S, b # heap_listp, NEW q \in S, EndsAt(m, q, b),
         NEW m1, NEW F, Rearranged(m, m1, brk, S, F)
  PROVE  /\ EndsAt(m1, q, b) /\ PREV_BLKP(m1, b) = q
         /\ \A c \in S : \A d : EndsAt(m, c, d) => EndsAt(m1, c, d)
<1>1. Heap(m1, brk, S) /\ \A c \in S : Size(m1, c) = Size(m, c)
  BY DEF Rearranged, SameHeap
<1>2. PICK p \in S : PREV_BLKP(m1, b) = p /\ p + Size(m1, p) = b
  BY <1>1, Neighbours DEF Heap
<1>3. /\ p \in Int /\ q \in Int /\ Size(m, p) \in Nat /\ Size(m, q) \in Nat
      /\ Size(m, p) >= 8 /\ Size(m, q) >= 8
  BY BlockFacts DEF Heap
<1>4. /\ p < q => p + Size(m, p) <= q
      /\ q < p => q + Size(m, q) <= p
  BY DEF Heap, Tiled
<1>5. p = q
  BY <1>1, <1>2, <1>3, <1>4 DEF EndsAt
<1> QED
  BY <1>1, <1>2, <1>5 DEF EndsAt

(* The merged blocks leave their lists. *)
LEMMA NoneLeave ==
  ASSUME NEW h, NEW brk, NEW S, NEW b, Loose(h, brk, S, b),
         NEW hi, EndsAt(h.mem, b, hi)
  PROVE  Emptied(h, h, brk, S, b, hi)
<1>1. b \in S /\ b \in Int /\ hi \in Int /\ b < hi
  BY BlockFacts DEF Loose, Heap, EndsAt
<1>2. \A c \in S : c \in Int /\ (b < c => hi <= c)
  BY Bounds DEF Loose, Heap, Tiled, EndsAt
<1>3. FreeApart(h.mem, S, b, hi) = FreeOf(h.mem, S) \ {b}
  <2>1. \A c \in S : b <= c /\ c < hi <=> c = b
    <3> SUFFICES ASSUME NEW c \in S
                 PROVE  b <= c /\ c < hi <=> c = b
      OBVIOUS
    <3> QED
      BY <1>1, <1>2
  <2> QED
    BY <2>1 DEF FreeApart, FreeOf
<1>4. Rearranged(h.mem, h.mem, brk, S, FreeOf(h.mem, S))
  BY DEF Loose, Rearranged, SameHeap, Kept, OnlyNew
<1> QED
  BY <1>3, <1>4 DEF Emptied, Loose

LEMMA OneLeaves ==
  ASSUME NEW h, NEW brk, NEW S, NEW b, Loose(h, brk, S, b),
         NEW lo, NEW hi, NEW x \in S, x # b, IsFree(h.mem, x),
         \A c \in S : lo <= c /\ c < hi <=> c = b \/ c = x,
         NEW h1, h1 = delete_node(h, x)
  PROVE  Emptied(h, h1, brk, S, lo, hi)
<1> DEFINE F == FreeOf(h.mem, S) \ {b}
           G == F \ {x}
<1>1. /\ F \subseteq S \ {heap_listp} /\ HeapLists(h, F) /\ x \in F
      /\ Record(h) /\ Heap(h.mem, brk, S)
  BY FreeOrAllocated DEF Loose, FreeOf
<1>2. G = FreeApart(h.mem, S, lo, hi) /\ G \subseteq FreeOf(h.mem, S)
  BY DEF FreeApart, FreeOf
<1> HIDE DEF F
<1>3. Record(h1) /\ HeapLists(h1, G) /\ Rearranged(h.mem, h1.mem, brk, S, G)
  BY <1>1, DeleteFree
<1> HIDE DEF G
<1>4. Rearranged(h.mem, h1.mem, brk, S, FreeOf(h.mem, S))
  <2>1. S \ FreeOf(h.mem, S) \subseteq S \ G
    BY <1>2
  <2>2. Kept(h.mem, h1.mem, S \ FreeOf(h.mem, S))
    BY <1>3, <2>1, KeptPart DEF Rearranged
  <2> QED
    BY <1>3, <2>2 DEF Rearranged
<1> QED
  BY <1>2, <1>3, <1>4 DEF Emptied

LEMMA TwoLeave ==
  ASSUME NEW h, NEW brk, NEW S, NEW b, Loose(h, brk, S, b),
         NEW lo, NEW hi, NEW x \in S, x # b, IsFree(h.mem, x),
         NEW y \in S, y # b, y # x, IsFree(h.mem, y),
         \A c \in S : lo <= c /\ c < hi <=> c = b \/ c = x \/ c = y,
         NEW h1, h1 = delete_node(delete_node(h, x), y)
  PROVE  Emptied(h, h1, brk, S, lo, hi)
<1> DEFINE F  == FreeOf(h.mem, S) \ {b}
           G  == F \ {x}
           G2 == G \ {y}
           hx == delete_node(h, x)
<1>1. /\ F \subseteq S \ {heap_listp} /\ HeapLists(h, F) /\ x \in F
      /\ Record(h) /\ Heap(h.mem, brk, S) /\ y \in G
  BY FreeOrAllocated DEF Loose, FreeOf
<1>2. /\ G2 = FreeApart(h.mem, S, lo, hi) /\ G \subseteq FreeOf(h.mem, S)
      /\ G2 \subseteq FreeOf(h.mem, S) /\ G \subseteq S \ {heap_listp}
      /\ G2 \subseteq G
  BY <1>1 DEF FreeApart, FreeOf
<1> HIDE DEF F
<1>3. Record(hx) /\ HeapLists(hx, G) /\ Rearranged(h.mem, hx.mem, brk, S, G)
  BY <1>1, DeleteFree
<1> HIDE DEF G, hx
<1>4. Record(h1) /\ HeapLists(h1, G2) /\ Rearranged(hx.mem, h1.mem, brk, S, G2)
  <2>1. Heap(hx.mem, brk, S) /\ h1 = delete_node(hx, y)
    BY <1>3 DEF Rearranged, hx
  <2> QED
    <3>1. /\ Record(delete_node(hx, y)) /\ HeapLists(delete_node(hx, y), G \ {y})
          /\ Rearranged(hx.mem, delete_node(hx, y).mem, brk, S, G \ {y})
      BY <1>1, <1>2, <1>3, <2>1, DeleteFree
    <3> QED
      BY <2>1, <3>1
<1> HIDE DEF G2
<1>5. Rearranged(h.mem, h1.mem, brk, S, FreeOf(h.mem, S))
  <2>1. Rearranged(h.mem, h1.mem, brk, S, G)
    BY <1>2, <1>3, <1>4, RearrangedTwice
  <2>2. S \ FreeOf(h.mem, S) \subseteq S \ G
    BY <1>2
  <2>3. Kept(h.mem, h1.mem, S \ FreeOf(h.mem, S))
    BY <2>1, <2>2, KeptPart DEF Rearranged
  <2> QED
    BY <2>1, <2>3 DEF Rearranged
<1> QED
  BY <1>2, <1>4, <1>5 DEF Emptied

(* What coalesce(b) does: the free ones of its neighbours q and n leave    *)
(* their lists, the stretch from lo to hi becomes one block, and enters.   *)
Unlisting(h, S, q, n) ==
  LET h1 == IF IsFree(h.mem, q) THEN delete_node(h, q) ELSE h
  IN  IF n \in S /\ IsFree(h.mem, n) THEN delete_node(h1, n) ELSE h1

Merging(h, S, b, q, n, lo, hi, h1, h2) ==
  /\ lo = IF IsFree(h.mem, q) THEN q ELSE b
  /\ hi = IF n \in S /\ IsFree(h.mem, n) THEN n + Size(h.mem, n) ELSE n
  /\ h1 = Unlisting(h, S, q, n)
  /\ \/ lo = b /\ hi = n /\ h2 = h1
     \/ ~(lo = b /\ hi = n) /\ h2 = Retag(h1, PutTags(h1.mem, lo, hi - lo, 0))

Coalescing(h, brk, S, b, q, n, lo, hi, h1, h2, r) ==
  /\ q \in S /\ PREV_BLKP(h.mem, b) = q
  /\ n \in S \union {brk} /\ NEXT_BLKP(h.mem, b) = n
  /\ FreeRun(h.mem, brk, S, b, lo, hi) /\ Emptied(h, h1, brk, S, lo, hi)
  /\ Merging(h, S, b, q, n, lo, hi, h1, h2)
  /\ Record(h2) /\ h2.lists = h1.lists
  /\ Freed(h1.mem, h2.mem, brk, S, Merged(S, lo, hi), lo, hi)
  /\ r.heap = insert_node(h2, lo, Size(h2.mem, lo)) /\ r.bp = lo

LEMMA CoalesceForm ==
  ASSUME NEW h, NEW brk, NEW S, NEW b, Loose(h, brk, S, b),
         NEW r, r = coalesce(h, b)
  PROVE  \E q, n, lo, hi, h1, h2 : Coalescing(h, brk, S, b, q, n, lo, hi, h1, h2, r)
<1> DEFINE m == h.mem
           n == b + Size(m, b)
           next_alloc == GET_ALLOC(m, HDRP(NEXT_BLKP(m, b)))
           prev_alloc == GET_ALLOC(m, HDRP(PREV_BLKP(m, b)))
<1>1. /\ Record(h) /\ Heap(m, brk, S) /\ b \in S /\ b # heap_listp
      /\ IsFree(m, b) /\ CoalescedBut(m, S, b, b + Size(m, b))
  BY DEF Loose
<1>2. /\ NEXT_BLKP(m, b) = n /\ n \in S \union {brk}
      /\ next_alloc = m[n - 4].alloc
  <2>1. NEXT_BLKP(m, b) = n /\ n \in S \union {brk}
    BY <1>1, Neighbours DEF Heap
  <2> QED
    BY <2>1 DEF GET_ALLOC, HDRP, WSIZE
<1>3. PICK q \in S : /\ PREV_BLKP(m, b) = q /\ q + Size(m, q) = b
                     /\ prev_alloc = m[q - 4].alloc
  <2>1. PICK q \in S : PREV_BLKP(m, b) = q /\ q + Size(m, q) = b
    BY <1>1, Neighbours DEF Heap
  <2> QED
    BY <2>1 DEF GET_ALLOC, HDRP, WSIZE
<1> HIDE DEF next_alloc, prev_alloc
<1>4. /\ m[q - 4].alloc \in {0, 1} /\ (IsFree(m, q) <=> m[q - 4].alloc = 0)
      /\ n \in S => /\ m[n - 4].alloc \in {0, 1}
                    /\ IsFree(m, n) <=> m[n - 4].alloc = 0
      /\ m[brk - 4].alloc = 1 /\ brk \notin S
  <2>1. \A c \in S : m[c - 4] \in Tag
    BY <1>1, BlockFacts DEF Heap
  <2>2. m[brk - 4].alloc = 1 /\ brk \notin S
    BY <1>1, HeapFacts DEF Heap
  <2> HIDE DEF n
  <2> QED
    BY <2>1, <2>2 DEF Tag, IsFree, GET_ALLOC, HDRP, WSIZE
<1> DEFINE last == n + Size(m, n)
           lo   == IF IsFree(m, q) THEN q ELSE b
           hi   == IF n \in S /\ IsFree(m, n) THEN last ELSE n
<1>5. /\ q \in Int /\ b \in Int /\ n \in Int /\ q < b /\ b < n
      /\ n \in S => Size(m, n) \in Nat /\ Size(m, n) > 0
  <2>1. \A c \in S : c \in Int /\ Size(m, c) \in Nat /\ Size(m, c) >= 8
    BY <1>1, BlockFacts DEF Heap
  <2> QED
    BY <1>1, <1>3, <2>1
<1>6. /\ EndsAt(m, q, b) /\ EndsAt(m, b, n) /\ FreeRun(m, brk, S, b, lo, hi)
      /\ \A c \in S : lo <= c /\ c < hi => c = b \/ c = q \/ c = n
  <2>1. EndsAt(m, q, b) /\ EndsAt(m, b, n)
    BY <1>3 DEF EndsAt
  <2>2. /\ lo = IF IsFree(m, q) THEN q ELSE b
        /\ hi = IF n \in S /\ IsFree(m, n) THEN n + Size(m, n) ELSE n
    OBVIOUS
  <2> HIDE DEF lo, hi, n, m
  <2>3. /\ FreeRun(m, brk, S, b, lo, hi)
        /\ \A c \in S : lo <= c /\ c < hi => c = b \/ c = q \/ c = n
    BY <1>1, <2>1, <2>2, FreeRuns
  <2> QED
    BY <2>1, <2>3
<1>7. /\ next_alloc \in {0, 1} /\ prev_alloc \in {0, 1}
      /\ next_alloc = 1 => ~(n \in S /\ IsFree(m, n))
      /\ prev_alloc = 1 => ~IsFree(m, q)
      /\ next_alloc = 0 => n \in S /\ IsFree(m, n) /\ hi = last
      /\ next_alloc = 1 => hi = n
      /\ prev_alloc = 0 => IsFree(m, q) /\ lo = q
      /\ prev_alloc = 1 => lo = b
  BY <1>2, <1>3, <1>4
<1>8. next_alloc = 0 => EndsAt(m, n, last) /\ n < last
  BY <1>5, <1>7 DEF EndsAt
<1> HIDE DEF lo, hi, last, n, m
<1> DEFINE Enter(h1, b1) ==
             [heap |-> insert_node(h1, b1, Size(h1.mem, b1)), bp |-> b1]
<1>9. ASSUME NEW h1, Emptied(h, h1, brk, S, lo, hi),
             NEW h2, Record(h2), h2.lists = h1.lists,
             \/ h2.mem = PutTags(h1.mem, lo, hi - lo, 0)
             \/ h1 = h /\ h2 = h /\ EndsAt(m, lo, hi) /\ lo = b,
             r = Enter(h2, lo), Merging(h, S, b, q, n, lo, hi, h1, h2)
      PROVE  Coalescing(h, brk, S, b, q, n, lo, hi, h1, h2, r)
  <2>1. PICK S2 : Freed(h1.mem, h2.mem, brk, S, S2, lo, hi)
    <3>1. CASE h2.mem = PutTags(h1.mem, lo, hi - lo, 0)
      BY <1>1, <1>6, <1>9, <3>1, MergeTags DEF Emptied, m
    <3>2. CASE h1 = h /\ h2 = h /\ EndsAt(m, lo, hi) /\ lo = b
      BY <1>1, <1>6, <3>2, FreeInPlace DEF FreeRun, m
    <3> QED
      BY <1>9, <3>1, <3>2
  <2>2. r.heap = insert_node(h2, lo, Size(h2.mem, lo)) /\ r.bp = lo
    BY <1>9
  <2>3. Freed(h1.mem, h2.mem, brk, S, Merged(S, lo, hi), lo, hi)
    BY <2>1 DEF Freed
  <2> HIDE DEF Enter
  <2> QED
    BY <1>2, <1>3, <1>6, <1>9, <2>2, <2>3 DEF Coalescing, m
<1>10. \A h1, m2 : Record(h1) /\ Memory(m2) =>
          Record(Retag(h1, m2)) /\ Retag(h1, m2).mem = m2
                                /\ Retag(h1, m2).lists = h1.lists
  <2>1. \A h1, m2 : Record(h1) => Retag(h1, m2) = [mem |-> m2, lists |-> h1.lists]
    BY DEF Record, Retag
  <2> QED
    BY <2>1 DEF Record
<1>11. ASSUME NEW m1, Rearranged(m, m1, brk, S, FreeOf(m, S))
       PROVE  /\ Heap(m1, brk, S) /\ EndsAt(m1, q, b) /\ PREV_BLKP(m1, b) = q
              /\ EndsAt(m1, b, n)
              /\ next_alloc = 0 => EndsAt(m1, n, last)
  <2>1. /\ EndsAt(m1, q, b) /\ PREV_BLKP(m1, b) = q
        /\ \A c \in S : \A d : EndsAt(m, c, d) => EndsAt(m1, c, d)
    BY <1>1, <1>6, <1>11, SameNeighbours
  <2>2. Heap(m1, brk, S)
    BY <1>11 DEF Rearranged
  <2> QED
    BY <1>1, <1>6, <1>7, <1>8, <2>1, <2>2
<1> DEFINE Goal == \E q1, n1, lo1, hi1, h1, h2 :
                     Coalescing(h, brk, S, b, q1, n1, lo1, hi1, h1, h2, r)
<1>16. lo = (IF IsFree(m, q) THEN q ELSE b) /\ hi = IF n \in S /\ IsFree(m, n) THEN last ELSE n
  BY DEF lo, hi
<1>17. last = n + Size(m, n)
  BY DEF last
<1>12. CASE prev_alloc = 1 /\ next_alloc = 1
  <2>1. r = Enter(h, b)
    BY <1>12 DEF coalesce, next_alloc, prev_alloc, m
  <2>2. lo = b /\ hi = n
    BY <1>7, <1>12
  <2>3. Emptied(h, h, brk, S, b, n)
    BY <1>6, NoneLeave DEF m
  <2> HIDE DEF Enter
  <2>20. Merging(h, S, b, q, n, lo, hi, h, h)
    BY <1>7, <1>12, <1>16, <1>17, <2>2 DEF Merging, Unlisting, m
  <2> QED
    BY <1>1, <1>6, <1>9, <2>1, <2>2, <2>3, <2>20
<1>13. CASE prev_alloc = 1 /\ next_alloc = 0
  <2> DEFINE h1 == delete_node(h, n)
             m2 == MergeNext(h1.mem, b)
             h2 == Retag(h1, m2)
  <2>1. r = Enter(h2, b)
    BY <1>2, <1>13 DEF coalesce, next_alloc, prev_alloc, m
  <2>2. lo = b /\ hi = last /\ n \in S /\ IsFree(m, n) /\ n # b
    BY <1>5, <1>7, <1>13
  <2>3. \A c \in S : b <= c /\ c < last <=> c = b \/ c = n
    <3> SUFFICES ASSUME NEW c \in S
                 PROVE  b <= c /\ c < last <=> c = b \/ c = n
      OBVIOUS
    <3>1. b <= c /\ c < last => c = b \/ c = q \/ c = n
      BY <1>6, <2>2
    <3>2. n < last /\ n \in Int /\ last \in Int
      BY <1>5, <1>8, <1>13, <2>2 DEF last
    <3> QED
      BY <1>5, <3>1, <3>2
  <2>4. Emptied(h, h1, brk, S, b, last)
    <3>1. IsFree(h.mem, n)
      BY <2>2 DEF m
    <3> HIDE DEF h1
    <3> QED
      BY <2>2, <2>3, <3>1, OneLeaves DEF h1
  <2> HIDE DEF h1, Enter
  <2>5. Rearranged(m, h1.mem, brk, S, FreeOf(m, S)) /\ Record(h1)
    BY <2>4 DEF Emptied, m
  <2>6. EndsAt(h1.mem, b, n) /\ EndsAt(h1.mem, n, last) /\ Heap(h1.mem, brk, S)
    BY <1>11, <1>13, <2>5
  <2>7. m2 = PutTags(h1.mem, b, last - b, 0)
    BY <1>1, <2>2, <2>6, MergeNextRetags DEF Heap
  <2>8. Memory(m2)
    <3>1. Freed(h1.mem, PutTags(h1.mem, b, last - b, 0), brk, S, Merged(S, b, last), b, last)
      BY <1>1, <1>6, <2>2, <2>5, MergeTags
    <3> QED
      BY <2>7, <3>1 DEF Freed, Heap
  <2> HIDE DEF m2
  <2>9. Record(h2) /\ h2.mem = m2 /\ h2.lists = h1.lists
    BY <1>10, <2>5, <2>8
  <2> HIDE DEF h2
  <2>20. Merging(h, S, b, q, n, lo, hi, h1, h2)
    <3>1. h1 = Unlisting(h, S, q, n)
      BY <1>7, <1>13, <2>2 DEF Unlisting, m, h1
    <3>2. h2 = Retag(h1, PutTags(h1.mem, lo, hi - lo, 0))
      BY <2>2, <2>7 DEF h2, m2
    <3>3. ~(lo = b /\ hi = n)
      BY <1>5, <1>7, <1>8, <1>13, <2>2 DEF last
    <3> QED
      BY <1>16, <1>17, <3>1, <3>2, <3>3 DEF Merging, m
  <2> QED
    BY <1>9, <2>1, <2>2, <2>4, <2>7, <2>9, <2>20
<1>14. CASE prev_alloc = 0 /\ next_alloc = 1
  <2> DEFINE h1 == delete_node(h, q)
             m2 == MergePrev(h1.mem, b)
             h2 == Retag(h1, m2)
  <2>1. r = Enter(h2, PREV_BLKP(m2, b))
    BY <1>3, <1>14 DEF coalesce, next_alloc, prev_alloc, m
  <2>2. lo = q /\ hi = n /\ IsFree(m, q) /\ q # b
    BY <1>5, <1>7, <1>14
  <2>3. \A c \in S : q <= c /\ c < n <=> c = b \/ c = q
    BY <1>5, <1>6, <2>2
  <2>4. Emptied(h, h1, brk, S, q, n)
    <3>1. IsFree(h.mem, q)
      BY <2>2 DEF m
    <3> HIDE DEF h1
    <3> QED
      BY <2>2, <2>3, <3>1, OneLeaves DEF h1
  <2> HIDE DEF h1, Enter
  <2>5. Rearranged(m, h1.mem, brk, S, FreeOf(m, S)) /\ Record(h1)
    BY <2>4 DEF Emptied, m
  <2>6. /\ EndsAt(h1.mem, q, b) /\ PREV_BLKP(h1.mem, b) = q
        /\ EndsAt(h1.mem, b, n) /\ Heap(h1.mem, brk, S)
    BY <1>11, <2>5
  <2>7. m2 = PutTags(h1.mem, q, n - q, 0) /\ PREV_BLKP(m2, b) = q
    BY <1>1, <2>6, MergePrevRetags DEF Heap
  <2>8. Memory(m2)
    <3>1. Freed(h1.mem, PutTags(h1.mem, q, n - q, 0), brk, S, Merged(S, q, n), q, n)
      BY <1>1, <1>6, <2>2, <2>5, MergeTags
    <3> QED
      BY <2>7, <3>1 DEF Freed, Heap
  <2> HIDE DEF m2
  <2>9. Record(h2) /\ h2.mem = m2 /\ h2.lists = h1.lists
    BY <1>10, <2>5, <2>8
  <2> HIDE DEF h2
  <2>20. Merging(h, S, b, q, n, lo, hi, h1, h2)
    <3>1. h1 = Unlisting(h, S, q, n)
      BY <1>7, <1>14, <2>2 DEF Unlisting, m, h1
    <3>2. h2 = Retag(h1, PutTags(h1.mem, lo, hi - lo, 0))
      BY <2>2, <2>7 DEF h2, m2
    <3>3. ~(lo = b /\ hi = n)
      BY <1>5, <1>7, <1>8, <1>14, <2>2 DEF last
    <3> QED
      BY <1>16, <1>17, <3>1, <3>2, <3>3 DEF Merging, m
  <2> QED
    BY <1>9, <2>1, <2>2, <2>4, <2>7, <2>9, <2>20
<1>15. CASE prev_alloc = 0 /\ next_alloc = 0
  <2> DEFINE h1 == delete_node(delete_node(h, q), n)
             m2 == MergeBoth(h1.mem, b)
             h2 == Retag(h1, m2)
  <2>1. r = Enter(h2, PREV_BLKP(m2, b))
    BY <1>2, <1>3, <1>15 DEF coalesce, next_alloc, prev_alloc, m
  <2>2. /\ lo = q /\ hi = last /\ IsFree(m, q) /\ q # b
        /\ n \in S /\ IsFree(m, n) /\ n # b /\ n # q
    BY <1>5, <1>7, <1>15
  <2>3. \A c \in S : q <= c /\ c < last <=> c = b \/ c = q \/ c = n
    <3> SUFFICES ASSUME NEW c \in S
                 PROVE  q <= c /\ c < last <=> c = b \/ c = q \/ c = n
      OBVIOUS
    <3>1. q <= c /\ c < last => c = b \/ c = q \/ c = n
      BY <1>6, <2>2
    <3>2. n < last /\ n \in Int /\ last \in Int
      BY <1>5, <1>8, <1>15, <2>2 DEF last
    <3> QED
      BY <1>5, <3>1, <3>2
  <2>4. Emptied(h, h1, brk, S, q, last)
    <3>1. IsFree(h.mem, q) /\ IsFree(h.mem, n)
      BY <2>2 DEF m
    <3> HIDE DEF h1
    <3> QED
      BY <2>2, <2>3, <3>1, TwoLeave DEF h1
  <2> HIDE DEF h1, Enter
  <2>5. Rearranged(m, h1.mem, brk, S, FreeOf(m, S)) /\ Record(h1)
    BY <2>4 DEF Emptied, m
  <2>6. /\ EndsAt(h1.mem, q, b) /\ PREV_BLKP(h1.mem, b) = q
        /\ EndsAt(h1.mem, b, n) /\ EndsAt(h1.mem, n, last) /\ Heap(h1.mem, brk, S)
    BY <1>11, <1>15, <2>5
  <2>7. m2 = PutTags(h1.mem, q, last - q, 0) /\ PREV_BLKP(m2, b) = q
    BY <1>1, <2>2, <2>6, MergeBothRetags DEF Heap
  <2>8. Memory(m2)
    <3>1. Freed(h1.mem, PutTags(h1.mem, q, last - q, 0), brk, S, Merged(S, q, last), q, last)
      BY <1>1, <1>6, <2>2, <2>5, MergeTags
    <3> QED
      BY <2>7, <3>1 DEF Freed, Heap
  <2> HIDE DEF m2
  <2>9. Record(h2) /\ h2.mem = m2 /\ h2.lists = h1.lists
    BY <1>10, <2>5, <2>8
  <2> HIDE DEF h2
  <2>20. Merging(h, S, b, q, n, lo, hi, h1, h2)
    <3>1. h1 = Unlisting(h, S, q, n)
      BY <1>7, <1>15, <2>2 DEF Unlisting, m, h1
    <3>2. h2 = Retag(h1, PutTags(h1.mem, lo, hi - lo, 0))
      BY <2>2, <2>7 DEF h2, m2
    <3>3. ~(lo = b /\ hi = n)
      BY <1>5, <1>7, <1>8, <1>15, <2>2 DEF last
    <3> QED
      BY <1>16, <1>17, <3>1, <3>2, <3>3 DEF Merging, m
  <2> QED
    BY <1>9, <2>1, <2>2, <2>4, <2>7, <2>9, <2>20
<1> QED
  BY <1>7, <1>12, <1>13, <1>14, <1>15


(* coalesce(b): its four cases. *)
LEMMA CoalesceSound ==
  ASSUME NEW h, NEW brk, NEW S, NEW b, Loose(h, brk, S, b),
         NEW r, r = coalesce(h, b)
  PROVE  CoalesceDone(h, r.heap, brk, S, Absorbed(S, r.heap.mem, r.bp), r.bp, b)
<1>1. PICK q, n, lo, hi, h1, h2 : Coalescing(h, brk, S, b, q, n, lo, hi, h1, h2, r)
  BY CoalesceForm
<1>2. PICK S2 : S2 = Merged(S, lo, hi)
  OBVIOUS
<1>3. PICK k : k = Size(h2.mem, lo)
  OBVIOUS
<1>4. Heap(h.mem, brk, S) /\ b \in S
  BY DEF Loose
<1>5. CoalesceDone(h, r.heap, brk, S, S2, lo, b)
  <2>1. r.heap = insert_node(h2, lo, k)
    BY <1>1, <1>3 DEF Coalescing
  <2>2. /\ FreeRun(h.mem, brk, S, b, lo, hi) /\ Emptied(h, h1, brk, S, lo, hi)
        /\ Record(h2) /\ h2.lists = h1.lists
        /\ Freed(h1.mem, h2.mem, brk, S, S2, lo, hi)
    BY <1>1, <1>2 DEF Coalescing
  <2> QED
    BY <1>3, <1>4, <2>1, <2>2, MergeInsert
<1>6. r.bp = lo
  BY <1>1 DEF Coalescing
<1>7. S2 = Absorbed(S, r.heap.mem, lo)
  BY <1>5 DEF CoalesceDone
<1> QED
  BY <1>5, <1>6, <1>7

-----------------------------------------------------------------------------
(* A heap h whose words are now those of m2. *)
LEMMA RetagFacts ==
  ASSUME NEW h, Record(h), NEW m2, Memory(m2)
  PROVE  LET h2 == Retag(h, m2)
         IN  Record(h2) /\ h2.mem = m2 /\ h2.lists = h.lists
<1>1. Retag(h, m2) = [mem |-> m2, lists |-> h.lists]
  BY DEF Record, Retag
<1> QED
  BY <1>1, RecordFacts

(* What coalesce leaves, seen from the heap h before its caller wrote the  *)
(* tags of the free block.                                                 *)
LEMMA CoalesceAfter ==
  ASSUME NEW m, NEW h1, NEW brk, NEW S, NEW S2, NEW b, NEW h2, NEW lo,
         CoalesceDone(h1, h2, brk, S, S2, lo, b),
         OnlyTagsNew(m, h1.mem),
         NEW B, Allocated(h1.mem, S) = B, Kept(m, h1.mem, B)
  PROVE  /\ Sound(h2, brk, S2) /\ OnlyNew(m, h2.mem)
         /\ Allocated(h2.mem, S2) = B /\ Kept(m, h2.mem, B)
<1>1. Kept(m, h2.mem, B)
  BY KeptTwice DEF CoalesceDone
<1>2. OnlyNew(m, h2.mem)
  BY DEF CoalesceDone, OnlyNew, OnlyTagsNew
<1> QED
  BY <1>1, <1>2 DEF CoalesceDone, SameAllocated

(* mm_free *)
(* From h to h1, block b has become a free block of T on no list.          *)
Loosened(h, h1, brk, S, T, b) ==
  /\ Loose(h1, brk, T, b) /\ h1.lists = h.lists
  /\ SameNodes(h.mem, h1.mem, FreeOf(h.mem, S))
  /\ FreeOf(h1.mem, T) \ {b} = FreeOf(h.mem, S)
  /\ Allocated(h1.mem, T) = Allocated(h.mem, S) \ {b}
  /\ Kept(h.mem, h1.mem, Allocated(h.mem, S) \ {b}) /\ OnlyTagsNew(h.mem, h1.mem)

LEMMA FreeForm ==
  ASSUME NEW h, NEW brk, NEW S, Sound(h, brk, S),
         NEW p \in S, p # heap_listp, ~IsFree(h.mem, p)
  PROVE  \E h1 : Loosened(h, h1, brk, S, S, p) /\ mm_free(h, p) = coalesce(h1, p)
<1> DEFINE m  == h.mem
           m1 == PutTags(m, p, Size(m, p), 0)
           h1 == Retag(h, m1)
           hi == p + Size(m, p)
<1>1. /\ Record(h) /\ Heap(m, brk, S) /\ Coalesced(m, S)
      /\ HeapLists(h, FreeOf(m, S))
  BY DEF Sound
<1>2. mm_free(h, p) = coalesce(h1, p)
  BY DEF mm_free, Size
<1>3. /\ Heap(m1, brk, S) /\ Size(m1, p) = Size(m, p) /\ m1[p - 4].alloc = 0
      /\ SameTags(m, m1, S \ {p}) /\ SameOutside(m, m1, p, hi)
      /\ OnlyTagsNew(m, m1)
  <2>1. Recoloured(m, m1, brk, S, p, 0)
    BY <1>1, Recolour
  <2> QED
    BY <2>1 DEF Recoloured
<1>4. /\ hi \in S \union {brk} /\ hi \in Int /\ p \in Int /\ p < hi
      /\ \A c \in S : c \in Int /\ (p < c => hi <= c)
      /\ \A c \in S : Size(m1, c) = Size(m, c)
  <2>1. p \in Int /\ Size(m, p) \in Nat /\ Size(m, p) >= 8 /\ \A c \in S : c \in Int
    BY <1>1, BlockFacts DEF Heap
  <2>2. hi \in S \union {brk} /\ \A c \in S : p < c => hi <= c
    BY <1>1 DEF Heap, Tiled
  <2> QED
    BY <1>3, <2>1, <2>2 DEF SameTags
<1>5. Record(h1) /\ h1.mem = m1 /\ h1.lists = h.lists
  BY <1>1, <1>3, RetagFacts DEF Heap
<1> HIDE DEF h1, m1
<1>6. /\ IsFree(m1, p)
      /\ \A c \in S \ {p} : IsFree(m1, c) <=> IsFree(m, c)
  BY <1>3 DEF SameTags, IsFree, GET_ALLOC, HDRP, WSIZE
<1>7. FreeOf(m1, S) \ {p} = FreeOf(m, S)
  BY <1>6 DEF FreeOf
<1>8. HeapLists(h1, FreeOf(m, S)) /\ SameNodes(m, m1, FreeOf(m, S))
  <2>1. FreeOf(m, S) \subseteq Outside(S, p, hi) \ {heap_listp}
    <3>1. FreeOf(m, S) \subseteq S \ {heap_listp} /\ p \notin FreeOf(m, S)
      BY <1>1, FreeOrAllocated DEF FreeOf
    <3>2. \A c \in S : c # p => c < p \/ c >= hi
      BY <1>4
    <3> QED
      BY <3>1, <3>2 DEF Outside
  <2> HIDE DEF hi, m
  <2>2. SameNodes(m, m1, FreeOf(m, S))
    BY <1>1, <1>3, <1>4, <2>1, NodesOutside
  <2> QED
    BY <1>1, <1>5, <2>2, ListsKept DEF m
<1>9. CoalescedBut(m1, S, p, p + Size(m1, p))
  <2> SUFFICES ASSUME NEW c \in S, c + Size(m1, c) \in S,
                      IsFree(m1, c), IsFree(m1, c + Size(m1, c))
               PROVE  \/ p <= c /\ c < hi
                      \/ p <= c + Size(m1, c) /\ c + Size(m1, c) < hi
    BY <1>3 DEF CoalescedBut
  <2>1. c = p \/ c + Size(m1, c) = p
    BY <1>1, <1>4, <1>6 DEF Coalesced
  <2> QED
    BY <1>4, <2>1
<1>10. Loose(h1, brk, S, p)
  BY <1>3, <1>5, <1>6, <1>7, <1>8, <1>9 DEF Loose
<1>12. Allocated(h1.mem, S) = Allocated(m, S) \ {p}
  BY <1>5, <1>6 DEF Allocated
<1>13. Kept(m, m1, Allocated(m, S) \ {p})
  <2>1. Allocated(m, S) \ {p} \subseteq Outside(S, p, hi)
    <3>1. \A c \in S : c # p => c < p \/ c >= hi
      BY <1>4
    <3> QED
      BY <3>1 DEF Allocated, Outside
  <2>2. SameTags(m, m1, Allocated(m, S) \ {p})
    BY <1>3 DEF SameTags, Allocated
  <2> HIDE DEF hi, m
  <2> QED
    BY <1>1, <1>3, <1>4, <2>1, <2>2, KeptOutside DEF Heap
<1> QED
  BY <1>2, <1>3, <1>5, <1>7, <1>8, <1>10, <1>12, <1>13 DEF Loosened, m

LEMMA FreeSound ==
  ASSUME NEW h, NEW brk, NEW S, Sound(h, brk, S),
         NEW p \in S, p # heap_listp, ~IsFree(h.mem, p),
         NEW r, r = mm_free(h, p),
         NEW S2, S2 = Absorbed(S, r.heap.mem, r.bp)
  PROVE  /\ Sound(r.heap, brk, S2) /\ OnlyNew(h.mem, r.heap.mem)
         /\ Allocated(r.heap.mem, S2) = Allocated(h.mem, S) \ {p}
         /\ Kept(h.mem, r.heap.mem, Allocated(h.mem, S) \ {p})
<1>1. PICK h1 : Loosened(h, h1, brk, S, S, p) /\ r = coalesce(h1, p)
  BY FreeForm
<1>2. CoalesceDone(h1, r.heap, brk, S, S2, r.bp, p)
  BY <1>1, CoalesceSound DEF Loosened
<1>3. PICK B : B = Allocated(h.mem, S) \ {p}
  OBVIOUS
<1>4. /\ Sound(r.heap, brk, S2) /\ OnlyNew(h.mem, r.heap.mem)
      /\ Allocated(r.heap.mem, S2) = B /\ Kept(h.mem, r.heap.mem, B)
  BY <1>1, <1>2, <1>3, CoalesceAfter DEF Loosened
<1> QED
  BY <1>3, <1>4

(* extend_heap, once mem_sbrk has granted the bytes: the heap's last block *)
(* is a free one of at least that size.                                    *)
GrowDone(h, r, brk, S, S2, size, brk2) ==
  /\ Sound(r.heap, brk2, S2) /\ OnlyNew(h.mem, r.heap.mem)
  /\ Allocated(r.heap.mem, S2) = Allocated(h.mem, S)
  /\ Kept(h.mem, r.heap.mem, Allocated(h.mem, S))
  /\ r.bp \in S2 /\ r.bp # heap_listp /\ IsFree(r.heap.mem, r.bp)
  /\ Size(r.heap.mem, r.bp) >= size
  /\ r.bp + Size(r.heap.mem, r.bp) = brk2

LEMMA GrowForm ==
  ASSUME NEW h, NEW brk, NEW S, Sound(h, brk, S),
         NEW size, NEW brk2, MovesBreak(brk, size, brk2)
  PROVE  \E h1 : /\ Loosened(h, h1, brk2, S, S \union {brk}, brk)
                 /\ extend_heap(h, brk, size) = coalesce(h1, brk)
                 /\ brk + Size(h1.mem, brk) = brk2 /\ brk \in Int /\ brk2 \in Int
<1> DEFINE m  == h.mem
           m1 == ExtendTags(m, brk, size)
           h1 == Retag(h, m1)
           T  == S \union {brk}
<1>1. /\ Record(h) /\ Heap(m, brk, S) /\ Coalesced(m, S)
      /\ HeapLists(h, FreeOf(m, S))
  BY DEF Sound
<1>2. /\ size \in Nat /\ size % 8 = 0 /\ size >= 16
      /\ brk2 = brk + size /\ brk2 <= mem_max_addr
  BY DEF MovesBreak, Rounded
<1>3. extend_heap(h, brk, size) = coalesce(h1, brk)
  BY DEF extend_heap
<1>4. /\ Heap(m1, brk2, T) /\ IsFree(m1, brk) /\ Size(m1, brk) = brk2 - brk
      /\ SameTags(m, m1, S) /\ OnlyTagsNew(m, m1)
      /\ CoalescedBut(m1, T, brk, brk2)
      /\ \A a \in Addr : a < brk - 4 => m1[a] = m[a]
  <2>1. Extended(m, m1, brk, brk2, S)
    BY <1>1, <1>2, Extend
  <2> QED
    BY <2>1 DEF Extended
<1>5. Record(h1) /\ h1.mem = m1 /\ h1.lists = h.lists
  BY <1>1, <1>4, RetagFacts DEF Heap
<1> HIDE DEF h1, m1
<1>6. /\ brk \in Int /\ brk \notin S /\ heap_listp \in S
      /\ \A c \in S : /\ c \in Int /\ Size(m, c) \in Nat /\ c + Size(m, c) <= brk
                      /\ c # heap_listp => Size(m, c) >= 16
  <2>1. brk \in Int /\ brk \notin S /\ heap_listp \in S
    BY <1>1, HeapFacts DEF Heap
  <2>2. \A c \in S : c \in Int /\ Size(m, c) \in Nat /\ c + Size(m, c) <= brk
    BY <1>1, BlockFacts DEF Heap
  <2>3. \A c \in S : c # heap_listp => Size(m, c) >= 16
    BY <1>1 DEF Heap, MinimumSize, DSIZE
  <2> QED
    BY <2>1, <2>2, <2>3
<1>7. \A c \in S : IsFree(m1, c) <=> IsFree(m, c)
  BY <1>4 DEF SameTags, IsFree, GET_ALLOC, HDRP, WSIZE
<1>8. FreeOf(m1, T) \ {brk} = FreeOf(m, S)
  BY <1>6, <1>7 DEF FreeOf
<1>9. HeapLists(h1, FreeOf(m, S)) /\ SameNodes(m, m1, FreeOf(m, S))
  <2>1. FreeOf(m, S) \subseteq S \ {heap_listp}
    BY <1>1, FreeOrAllocated
  <2>2. SameNodes(m, m1, FreeOf(m, S))
    <3> SUFFICES ASSUME NEW c \in FreeOf(m, S)
                 PROVE  m1[c - 4] = m[c - 4] /\ m1[c] = m[c] /\ m1[c + 4] = m[c + 4]
      BY DEF SameNodes
    <3>1. c - 4 \in Addr /\ c \in Addr /\ c + 4 \in Addr
      <4>1. Nodes(FreeOf(m, S))
        BY <1>1, <2>1, FreeNodes
      <4> QED
        BY <4>1 DEF Nodes
    <3>2. c \in Int /\ Size(m, c) \in Nat /\ c + Size(m, c) <= brk /\ Size(m, c) >= 16
      BY <1>6, <2>1
    <3>3. c - 4 < brk - 4 /\ c < brk - 4 /\ c + 4 < brk - 4
      BY <1>6, <3>2
    <3> QED
      BY <1>4, <3>1, <3>3
  <2> QED
    BY <1>1, <1>5, <2>2, ListsKept
<1>10. brk + Size(m1, brk) = brk2
  BY <1>2, <1>4, <1>6
<1>11. Loose(h1, brk2, T, brk)
  BY <1>4, <1>5, <1>6, <1>8, <1>9, <1>10 DEF Loose
<1>12. Allocated(h1.mem, T) = Allocated(m, S)
  BY <1>4, <1>5, <1>6, <1>7 DEF Allocated
<1>13. Kept(m, m1, Allocated(m, S))
  <2> SUFFICES ASSUME NEW c \in S, NEW a \in Addr,
                      c <= a, a < c + Size(m, c) - DSIZE
               PROVE  m1[a] = m[a]
    BY <1>4 DEF Kept, SameTags, Allocated
  <2>1. a \in Int
    BY ArenaAssumption DEF Addr, mem_max_addr
  <2>2. a < brk - 4
    BY <1>6, <2>1 DEF DSIZE
  <2> QED
    BY <1>4, <2>2
<1>14. brk \notin Allocated(m, S)
  BY <1>6 DEF Allocated
<1>15. Loosened(h, h1, brk2, S, T, brk)
  <2>1. PICK B : B = Allocated(m, S)
    OBVIOUS
  <2>2. B \ {brk} = B
    BY <1>14, <2>1
  <2>3. Allocated(h1.mem, T) = B /\ Kept(m, h1.mem, B) /\ OnlyTagsNew(m, h1.mem)
    BY <1>4, <1>5, <1>12, <1>13, <2>1
  <2>4. /\ SameNodes(m, h1.mem, FreeOf(m, S))
        /\ FreeOf(h1.mem, T) \ {brk} = FreeOf(m, S)
    BY <1>5, <1>8, <1>9
  <2> HIDE DEF T
  <2> QED
    BY <1>5, <1>11, <2>1, <2>2, <2>3, <2>4 DEF Loosened
<1>16. brk + Size(h1.mem, brk) = brk2 /\ brk \in Int /\ brk2 \in Int
  BY <1>2, <1>5, <1>6, <1>10
<1> QED
  BY <1>3, <1>15, <1>16

LEMMA GrowSound ==
  ASSUME NEW h, NEW brk, NEW S, Sound(h, brk, S),
         NEW size, NEW brk2, MovesBreak(brk, size, brk2),
         NEW r, r = extend_heap(h, brk, size),
         NEW S2, S2 = Absorbed(S \union {brk}, r.heap.mem, r.bp)
  PROVE  GrowDone(h, r, brk, S, S2, size, brk2)
<1> DEFINE m == h.mem
<1>1. PICK h1 : /\ Loosened(h, h1, brk2, S, S \union {brk}, brk)
                /\ extend_heap(h, brk, size) = coalesce(h1, brk)
                /\ brk + Size(h1.mem, brk) = brk2 /\ brk \in Int /\ brk2 \in Int
  BY GrowForm
<1>2. CoalesceDone(h1, r.heap, brk2, S \union {brk}, S2, r.bp, brk)
  <2>1. Loose(h1, brk2, S \union {brk}, brk) /\ r = coalesce(h1, brk)
    BY <1>1 DEF Loosened
  <2> QED
    BY <2>1, CoalesceSound
<1>3. brk \notin Allocated(m, S)
  BY HeapFacts DEF Sound, Heap, Allocated
<1>4. PICK B : B = Allocated(m, S)
  OBVIOUS
<1>5. /\ Sound(r.heap, brk2, S2) /\ OnlyNew(m, r.heap.mem)
      /\ Allocated(r.heap.mem, S2) = B /\ Kept(m, r.heap.mem, B)
  <2>1. B = B \ {brk}
    BY <1>3, <1>4
  <2>2. /\ Allocated(h1.mem, S \union {brk}) = B /\ Kept(m, h1.mem, B)
        /\ OnlyTagsNew(m, h1.mem)
    BY <1>1, <1>4, <2>1 DEF Loosened
  <2> QED
    BY <1>2, <2>2, CoalesceAfter
<1>6. /\ r.bp \in S2 /\ r.bp # heap_listp /\ IsFree(r.heap.mem, r.bp)
      /\ r.bp <= brk /\ brk2 <= r.bp + Size(r.heap.mem, r.bp)
  BY <1>1, <1>2 DEF CoalesceDone
<1>7. /\ r.bp \in Int /\ Size(r.heap.mem, r.bp) \in Nat
      /\ r.bp + Size(r.heap.mem, r.bp) <= brk2
  BY <1>5, <1>6, BlockFacts DEF Sound, Heap
<1>8. size \in Nat /\ brk2 = brk + size
  BY DEF MovesBreak, Rounded
<1>9. /\ r.bp + Size(r.heap.mem, r.bp) = brk2
      /\ Size(r.heap.mem, r.bp) >= size
  BY <1>1, <1>6, <1>7, <1>8
<1> QED
  BY <1>4, <1>5, <1>6, <1>9 DEF GrowDone, m

-----------------------------------------------------------------------------
(* The tags once free block b has been given away, whole or in part: x is  *)
(* the allocated block, the others of b's are free.                        *)
Given(m, m2, brk, S, S2, b, x, size) ==
  /\ Heap(m2, brk, S2) /\ Coalesced(m2, S2) /\ S \subseteq S2
  /\ SameTags(m, m2, S \ {b}) /\ SameOutside(m, m2, b, b + Size(m, b))
  /\ OnlyTagsNew(m, m2)
  /\ x \in S2 /\ x # heap_listp /\ ~IsFree(m2, x) /\ Size(m2, x) >= size

(* place with the payload at the block's end *)
LEMMA SplitBack ==
  ASSUME NEW m, NEW brk, NEW S, Heap(m, brk, S), Coalesced(m, S),
         NEW b \in S, b # heap_listp, IsFree(m, b),
         NEW size, Rounded(size), Splits(m, b, size),
         NEW rest, rest = Size(m, b) - size, NEW mid, mid = b + rest,
         NEW m1, m1 = PutTags(m, b, rest, 0),
         NEW m2, m2 = PutTags(m1, mid, size, 1)
  PROVE  /\ NEXT_BLKP(m1, b) = mid
         /\ Given(m, m2, brk, S, S \union {mid}, b, mid, size)
         /\ mid \notin S /\ IsFree(m2, b) /\ Size(m2, b) = rest
<1> DEFINE hi == b + Size(m, b)
<1>1. /\ b \in Int /\ b % 8 = 0 /\ Size(m, b) \in Nat /\ Size(m, b) % 8 = 0
      /\ \A c \in S : c \in Int /\ (c > b => c >= hi)
  <2>1. \A c \in S : c > b => c >= hi
    <3>1. \A c \in S : c > b => b + Size(m, b) <= c
      BY Bounds DEF Heap, Tiled
    <3>2. hi \in Int /\ \A c \in S : c \in Int
      BY BlockFacts DEF Heap
    <3> QED
      BY <3>1, <3>2
  <2> QED
    BY <2>1, BlockFacts DEF Heap
<1>2. /\ mid \in Int /\ mid % 8 = 0 /\ mid - b = rest /\ rest >= 16
      /\ hi \in Int /\ b < mid /\ mid < hi /\ hi - mid = size /\ size >= 16
      /\ rest \in Nat /\ size \in Nat
  <2>1. Size(m, b) - size >= 16
    BY DEF Splits, Size, DSIZE
  <2> QED
    BY <1>1, <2>1 DEF Rounded
<1>3. m1 = PutTags(m, b, mid - b, 0) /\ m2 = PutTags(m1, mid, hi - mid, 1)
  BY <1>2
<1>4. NEXT_BLKP(m1, b) = mid
  <2>1. Span(b, mid, brk)
    <3>1. hi \in S \union {brk} /\ hi <= brk
      BY BlockFacts DEF Heap, Tiled
    <3>2. b >= heap_listp /\ brk \in Int /\ heap_listp \in Int
          /\ brk <= mem_max_addr /\ mem_max_addr \in Int
      BY BlockFacts, HeapFacts DEF Heap
    <3> QED
      BY <1>1, <1>2, <3>1, <3>2 DEF Span
  <2>2. Retagged(m, m1, b, mid, 0)
    BY <1>3, <2>1, SpanWords DEF Heap
  <2>3. m1[b - 4].size = mid - b
    BY <2>2 DEF Retagged, Tagged
  <2> QED
    BY <1>1, <1>2, <2>3 DEF NEXT_BLKP, GET_SIZE, WSIZE
<1>5. Resplit(m, m2, brk, S, b, mid, hi, 0, 1)
  <2>1. Inside(mid, b, hi)
    BY <1>2 DEF Inside
  <2>2. EndsAt(m, b, hi)
    BY DEF EndsAt
  <2> HIDE DEF hi
  <2>3. Resplit(m, PutTags(PutTags(m, b, mid - b, 0), mid, hi - mid, 1),
                brk, S, b, mid, hi, 0, 1)
    BY <2>1, <2>2, TwoTiles DEF Heap
  <2> QED
    BY <1>3, <2>3
<1>6. /\ IsFree(m2, b) /\ ~IsFree(m2, mid) /\ Size(m2, b) = rest
      /\ Size(m2, mid) = size
  BY <1>2, <1>5 DEF Tagged, Resplit, IsFree, GET_ALLOC, HDRP, WSIZE
<1>7. \A c \in S \ {b} : /\ Size(m2, c) = Size(m, c)
                         /\ IsFree(m2, c) <=> IsFree(m, c)
  BY <1>5 DEF Resplit, SameTags, IsFree, GET_ALLOC, HDRP, WSIZE
<1>8. mid \notin S /\ mid # heap_listp
  <2>1. heap_listp \in S
    BY HeapFacts DEF Heap
  <2> QED
    BY <1>1, <1>2, <2>1
<1>9. MinimumSize(m2, S \union {mid})
  BY <1>2, <1>5, <1>6, <1>7 DEF MinimumSize, Heap, DSIZE
<1>10. Coalesced(m2, S \union {mid})
  <2> DEFINE S2 == S \union {mid}
  <2> SUFFICES ASSUME NEW c \in S2, c + Size(m2, c) \in S2,
                      IsFree(m2, c), IsFree(m2, c + Size(m2, c))
               PROVE  FALSE
    BY DEF Coalesced
  <2>1. c # mid /\ c + Size(m2, c) # mid
    BY <1>6
  <2>2. c # b
    BY <1>2, <1>6, <2>1
  <2>3. c \in S /\ c + Size(m, c) \in S /\ IsFree(m, c)
    BY <1>7, <2>1, <2>2
  <2>4. IsFree(m, c + Size(m, c))
    BY <1>7, <2>2, <2>3
  <2> QED
    BY <2>3, <2>4 DEF Coalesced
<1>11. SameOutside(m, m2, b, hi)
  <2>1. \A a \in Addr : a \in Int
    BY ArenaAssumption DEF Addr, mem_max_addr
  <2>2. \A a \in Addr : (a < b - 4 \/ a >= hi - 4) =>
           a # b - 4 /\ a # mid - 8 /\ a # mid - 4 /\ a # hi - 8
    BY <1>1, <1>2, <2>1
  <2> HIDE DEF hi
  <2> QED
    BY <1>5, <2>2 DEF SameOutside, Resplit
<1>12. OnlyTagsNew(m, m2)
  <2>1. mid - b \in Nat /\ hi - mid \in Nat
    BY <1>2
  <2>2. [size |-> mid - b, alloc |-> 0] \in Tag /\ [size |-> hi - mid, alloc |-> 1] \in Tag
    BY <2>1 DEF Tag
  <2> QED
    BY <1>5, <2>2 DEF OnlyTagsNew, Resplit, Tagged
<1>13. Heap(m2, brk, S \union {mid}) /\ SameTags(m, m2, S \ {b})
  BY <1>5, <1>9 DEF Heap, Resplit
<1>14. Size(m2, mid) >= size
  BY <1>2, <1>6
<1> QED
  BY <1>4, <1>6, <1>8, <1>10, <1>11, <1>12, <1>13, <1>14 DEF Given

(* Block b has been given away as x, in the heap of blocks S2.             *)
PlaceDone(h, h2, brk, S, S2, x, size) ==
  /\ Sound(h2, brk, S2) /\ OnlyNew(h.mem, h2.mem)
  /\ Allocated(h2.mem, S2) = Allocated(h.mem, S) \union {x}
  /\ Kept(h.mem, h2.mem, Allocated(h.mem, S))
  /\ x \in S2 /\ x # heap_listp /\ x \notin Allocated(h.mem, S)
  /\ Size(h2.mem, x) >= size

(* The free block b has left its list, and its tags have been rewritten.   *)
HandedOut(h, h2, brk, S, S2, b, x, size) ==
  LET h1 == delete_node(h, b)
  IN  /\ Record(h2) /\ h2.lists = h1.lists
      /\ Given(h1.mem, h2.mem, brk, S, S2, b, x, size)

OthersKept(h, h2, brk, S, S2, b, x) ==
  /\ HeapLists(h2, FreeOf(h.mem, S) \ {b})
  /\ SameNodes(delete_node(h, b).mem, h2.mem, FreeOf(h.mem, S) \ {b})
  /\ FreeOf(h.mem, S) \ {b} \subseteq S2 \ {heap_listp}
  /\ Heap(h2.mem, brk, S2) /\ Coalesced(h2.mem, S2)
  /\ OnlyNew(h.mem, h2.mem) /\ Kept(h.mem, h2.mem, Allocated(h.mem, S))
  /\ x \notin Allocated(h.mem, S)
  /\ \A c \in S \ {b} : c \in S2 /\ (IsFree(h2.mem, c) <=> IsFree(h.mem, c))

LEMMA HandOut ==
  ASSUME NEW h, NEW brk, NEW S, Sound(h, brk, S),
         NEW b \in S, b # heap_listp, IsFree(h.mem, b),
         NEW h2, NEW S2, NEW x, NEW size, HandedOut(h, h2, brk, S, S2, b, x, size),
         x \notin S \ {b}
  PROVE  OthersKept(h, h2, brk, S, S2, b, x)
<1> DEFINE m  == h.mem
           h1 == delete_node(h, b)
           F  == FreeOf(m, S) \ {b}
           hi == b + Size(m, b)
<1>1. /\ Record(h) /\ Heap(m, brk, S) /\ Coalesced(m, S)
      /\ HeapLists(h, FreeOf(m, S))
  BY DEF Sound
<1>2. b \in FreeOf(m, S) /\ FreeOf(m, S) \subseteq S \ {heap_listp}
  BY <1>1, FreeOrAllocated DEF FreeOf
<1>3. Record(h1) /\ HeapLists(h1, F) /\ Rearranged(m, h1.mem, brk, S, F)
  BY <1>1, <1>2, DeleteFree
<1> HIDE DEF h1
<1>4. /\ Record(h2) /\ h2.lists = h1.lists
      /\ Given(h1.mem, h2.mem, brk, S, S2, b, x, size)
  BY DEF HandedOut, h1
<1>5. /\ Heap(h1.mem, brk, S) /\ SameHeap(m, h1.mem, S)
      /\ Kept(m, h1.mem, S \ F) /\ OnlyNew(m, h1.mem)
  BY <1>3 DEF Rearranged
<1>6. /\ Heap(h2.mem, brk, S2) /\ Coalesced(h2.mem, S2) /\ S \subseteq S2
      /\ SameTags(h1.mem, h2.mem, S \ {b}) /\ OnlyTagsNew(h1.mem, h2.mem)
      /\ SameOutside(h1.mem, h2.mem, b, hi)
  BY <1>4, <1>5 DEF Given, SameHeap
<1>7. /\ hi \in S \union {brk} /\ b < hi /\ \A c \in S : c # b => c < b \/ c >= hi
  <2>1. b \in Int /\ Size(m, b) \in Nat /\ Size(m, b) >= 8 /\ \A c \in S : c \in Int
    BY <1>1, BlockFacts DEF Heap
  <2>2. hi \in S \union {brk} /\ \A c \in S : b < c => hi <= c
    BY <1>1 DEF Heap, Tiled
  <2>3. hi \in Int /\ b < hi
    BY <2>1
  <2> HIDE DEF hi
  <2> QED
    BY <2>1, <2>2, <2>3
<1>8. /\ F \subseteq Outside(S, b, hi) \ {heap_listp}
      /\ Allocated(m, S) \subseteq Outside(S, b, hi)
      /\ Allocated(m, S) \subseteq S \ F /\ b \notin Allocated(m, S)
  BY <1>2, <1>7 DEF Outside, Allocated, FreeOf
<1> HIDE DEF hi, F, m
<1>9. HeapLists(h2, F) /\ SameNodes(h1.mem, h2.mem, F)
  <2>1. SameNodes(h1.mem, h2.mem, F)
    BY <1>5, <1>6, <1>7, <1>8, NodesOutside
  <2> QED
    BY <1>3, <1>4, <2>1, ListsKept
<1>10. Kept(m, h2.mem, Allocated(m, S))
  <2>1. SameTags(h1.mem, h2.mem, Allocated(m, S))
    BY <1>6, <1>8 DEF SameTags, Allocated
  <2>2. Kept(h1.mem, h2.mem, Allocated(m, S))
    BY <1>5, <1>6, <1>7, <1>8, <2>1, KeptOutside DEF Heap
  <2>3. Kept(m, h1.mem, Allocated(m, S))
    BY <1>5, <1>8, KeptPart
  <2> QED
    BY <2>2, <2>3, KeptTwice
<1>11. OnlyNew(m, h2.mem)
  BY <1>5, <1>6 DEF OnlyNew, OnlyTagsNew
<1>12. \A c \in S \ {b} : c \in S2 /\ (IsFree(h2.mem, c) <=> IsFree(m, c))
  BY <1>5, <1>6 DEF SameTags, SameHeap, IsFree, GET_ALLOC, HDRP, WSIZE
<1>13. F \subseteq S2 \ {heap_listp} /\ x \notin Allocated(m, S)
  BY <1>6, <1>8 DEF Outside, Allocated
<1> QED
  BY <1>6, <1>9, <1>10, <1>11, <1>12, <1>13 DEF OthersKept, F, m, h1

(* All of b has been given away. *)
LEMMA HandOutWhole ==
  ASSUME NEW h, NEW brk, NEW S, Sound(h, brk, S),
         NEW b \in S, b # heap_listp, IsFree(h.mem, b),
         NEW h2, NEW size, HandedOut(h, h2, brk, S, S, b, b, size)
  PROVE  PlaceDone(h, h2, brk, S, S, b, size)
<1>1. b \notin S \ {b}
  OBVIOUS
<1>2. /\ HeapLists(h2, FreeOf(h.mem, S) \ {b})
      /\ Heap(h2.mem, brk, S) /\ Coalesced(h2.mem, S)
      /\ OnlyNew(h.mem, h2.mem) /\ Kept(h.mem, h2.mem, Allocated(h.mem, S))
      /\ b \notin Allocated(h.mem, S)
      /\ \A c \in S \ {b} : IsFree(h2.mem, c) <=> IsFree(h.mem, c)
  <2>1. OthersKept(h, h2, brk, S, S, b, b)
    BY <1>1, HandOut
  <2> QED
    BY <2>1 DEF OthersKept
<1>3. ~IsFree(h2.mem, b) /\ Size(h2.mem, b) >= size /\ Record(h2)
  BY DEF HandedOut, Given
<1>4. /\ FreeOf(h2.mem, S) = FreeOf(h.mem, S) \ {b}
      /\ Allocated(h2.mem, S) = Allocated(h.mem, S) \union {b}
  BY <1>2, <1>3 DEF FreeOf, Allocated
<1> QED
  BY <1>2, <1>3, <1>4 DEF PlaceDone, Sound

(* Of b's two parts, x and y, y enters a list. *)
Parts(S, b, S2, x, y) == S2 = (S \ {b}) \union {x, y}

LEMMA HandOutPart ==
  ASSUME NEW h, NEW brk, NEW S, Sound(h, brk, S),
         NEW b \in S, b # heap_listp, IsFree(h.mem, b),
         NEW h2, NEW S2, NEW x, NEW size, HandedOut(h, h2, brk, S, S2, b, x, size),
         x \notin S \ {b},
         NEW y, y # x, y \notin S \ {b}, Parts(S, b, S2, x, y),
         IsFree(h2.mem, y), NEW n, n = Size(h2.mem, y),
         NEW h3, h3 = insert_node(h2, y, n)
  PROVE  PlaceDone(h, h3, brk, S, S2, x, size)
<1> DEFINE F == FreeOf(h.mem, S) \ {b}
           G == F \union {y}
<1>1. /\ HeapLists(h2, F) /\ F \subseteq S2 \ {heap_listp}
      /\ Heap(h2.mem, brk, S2) /\ Coalesced(h2.mem, S2)
      /\ OnlyNew(h.mem, h2.mem) /\ Kept(h.mem, h2.mem, Allocated(h.mem, S))
      /\ x \notin Allocated(h.mem, S)
      /\ \A c \in S \ {b} : c \in S2 /\ (IsFree(h2.mem, c) <=> IsFree(h.mem, c))
  <2>1. OthersKept(h, h2, brk, S, S2, b, x)
    BY HandOut
  <2> QED
    BY <2>1 DEF OthersKept
<1>2. /\ ~IsFree(h2.mem, x) /\ Size(h2.mem, x) >= size /\ Record(h2)
      /\ x \in S2 /\ x # heap_listp
  BY DEF HandedOut, Given
<1>3. y \in S2 \ F /\ y # heap_listp /\ \A c \in F : c \in S \ {b} /\ IsFree(h.mem, c)
  <2>1. heap_listp \in S
    BY HeapFacts DEF Sound, Heap
  <2> QED
    BY <2>1 DEF FreeOf, Parts
<1> HIDE DEF F
<1>4. Record(h3) /\ HeapLists(h3, G) /\ Rearranged(h2.mem, h3.mem, brk, S2, G)
  <2>1. F \subseteq S2 \ {heap_listp} /\ HeapLists(h2, F) /\ Heap(h2.mem, brk, S2)
    BY <1>1
  <2> HIDE DEF G
  <2>2. LET hy == insert_node(h2, y, n)
        IN  /\ Record(hy) /\ HeapLists(hy, F \union {y})
            /\ Rearranged(h2.mem, hy.mem, brk, S2, F \union {y})
    BY <1>2, <1>3, <2>1, InsertFree
  <2> QED
    BY <2>2 DEF G
<1>5. /\ Heap(h3.mem, brk, S2) /\ SameHeap(h2.mem, h3.mem, S2)
      /\ Coalesced(h3.mem, S2) /\ Kept(h2.mem, h3.mem, S2 \ G)
      /\ OnlyNew(h2.mem, h3.mem)
  BY <1>1, <1>4 DEF Rearranged
<1>6. /\ \A c \in S \ {b} : IsFree(h3.mem, c) <=> IsFree(h.mem, c)
      /\ ~IsFree(h3.mem, x) /\ IsFree(h3.mem, y) /\ Size(h3.mem, x) >= size
  BY <1>1, <1>2, <1>3, <1>5 DEF SameHeap
<1>7. /\ FreeOf(h3.mem, S2) = G
      /\ Allocated(h3.mem, S2) = Allocated(h.mem, S) \union {x}
  BY <1>6 DEF FreeOf, Allocated, F, Parts
<1>8. Kept(h.mem, h3.mem, Allocated(h.mem, S))
  <2>1. Allocated(h.mem, S) \subseteq S2 \ G
    <3>1. \A c \in Allocated(h.mem, S) : c \in S \ {b} /\ ~IsFree(h.mem, c)
      BY DEF Allocated
    <3> QED
      BY <1>1, <1>3, <3>1
  <2>2. Kept(h2.mem, h3.mem, Allocated(h.mem, S))
    BY <1>5, <2>1, KeptPart
  <2> QED
    BY <1>1, <2>2, KeptTwice
<1>9. OnlyNew(h.mem, h3.mem)
  BY <1>1, <1>5, OnlyNewTwice
<1> QED
  BY <1>1, <1>2, <1>4, <1>5, <1>6, <1>7, <1>8, <1>9 DEF PlaceDone, Sound

(* place unlinks the block first. *)
LEMMA Unlisted ==
  ASSUME NEW h, NEW brk, NEW S, Sound(h, brk, S),
         NEW b \in S, b # heap_listp, IsFree(h.mem, b),
         NEW h1, h1 = delete_node(h, b)
  PROVE  /\ Record(h1) /\ Heap(h1.mem, brk, S) /\ Coalesced(h1.mem, S)
         /\ IsFree(h1.mem, b) /\ Size(h1.mem, b) = Size(h.mem, b)
<1> DEFINE F == FreeOf(h.mem, S)
<1>1. F \subseteq S \ {heap_listp} /\ b \in F
  BY FreeOrAllocated DEF Sound, FreeOf
<1>2. Record(h) /\ Heap(h.mem, brk, S) /\ Coalesced(h.mem, S) /\ HeapLists(h, F)
  BY DEF Sound
<1> HIDE DEF F
<1>3. LET hx == delete_node(h, b)
      IN  /\ Record(hx) /\ HeapLists(hx, F \ {b})
          /\ Rearranged(h.mem, hx.mem, brk, S, F \ {b})
  BY <1>1, <1>2, DeleteFree
<1>4. Record(h1) /\ Rearranged(h.mem, h1.mem, brk, S, F \ {b})
  BY <1>3
<1> QED
  BY <1>2, <1>4 DEF Rearranged, SameHeap

LEMMA HandedOutTags ==
  ASSUME NEW h, NEW brk, NEW S, NEW b, NEW h1, h1 = delete_node(h, b), Record(h1),
         NEW m2, NEW S2, NEW x, NEW size,
         Given(h1.mem, m2, brk, S, S2, b, x, size),
         NEW h2, h2 = Retag(h1, m2)
  PROVE  HandedOut(h, h2, brk, S, S2, b, x, size) /\ h2.mem = m2
<1>1. Memory(m2)
  BY DEF Given, Heap
<1>2. LET hx == Retag(h1, m2)
      IN  Record(hx) /\ hx.mem = m2 /\ hx.lists = h1.lists
  BY <1>1, RetagFacts
<1> QED
  BY <1>2 DEF HandedOut

(* What place(b, size) does: it gives b away whole, or x as its payload    *)
(* while the other part y enters a list; the cut is where y or x starts.   *)
PlacesWhole(h, brk, S, b, size, h2, r) ==
  /\ HandedOut(h, h2, brk, S, S, b, b, size)
  /\ r.heap = h2 /\ r.bp = b /\ r.cut = b

PlacesPart(h, brk, S, b, size, x, y, cut, h2, r) ==
  LET T    == S \union {cut}
      rest == Size(h.mem, b) - size
  IN  /\ HandedOut(h, h2, brk, S, T, b, x, size) /\ Parts(S, b, T, x, y)
      /\ x \notin S \ {b} /\ y \notin S \ {b} /\ y # x
      /\ IsFree(h2.mem, y) /\ Size(h2.mem, y) = rest
      /\ r.heap = insert_node(h2, y, rest) /\ r.bp = x /\ r.cut = cut

(* Which it is depends on the sizes alone. *)
Places(h, brk, S, b, size, h2, r) ==
  LET rest == Size(h.mem, b) - size
  IN  /\ ~(rest >= 16) => PlacesWhole(h, brk, S, b, size, h2, r)
      /\ (rest >= 16 /\ size >= BACK_SIZE) =>
           PlacesPart(h, brk, S, b, size, b + rest, b, b + rest, h2, r)
      /\ (rest >= 16 /\ ~(size >= BACK_SIZE)) =>
           PlacesPart(h, brk, S, b, size, b, b + size, b + size, h2, r)

LEMMA PlaceForm ==
  ASSUME NEW h, NEW brk, NEW S, Sound(h, brk, S),
         NEW b \in S, b # heap_listp, IsFree(h.mem, b),
         NEW size, Rounded(size), Size(h.mem, b) >= size,
         NEW r, r = place(h, b, size)
  PROVE  \E h2 : Places(h, brk, S, b, size, h2, r)
<1> DEFINE h1 == delete_node(h, b)
           m  == h1.mem
<1>1. /\ Record(h1) /\ Heap(m, brk, S) /\ Coalesced(m, S)
      /\ IsFree(m, b) /\ Size(m, b) = Size(h.mem, b)
  BY Unlisted
<1>2. r = PlaceUnlisted(h1, b, size) /\ Size(m, b) >= size
  BY <1>1 DEF place
<1>3. /\ size \in Nat /\ size % 8 = 0 /\ size >= 16
      /\ b \in Int /\ Size(m, b) \in Nat
  BY <1>1, BlockFacts DEF Rounded, Heap
<1>4. Splits(m, b, size) <=> Size(h.mem, b) - size >= 16
  BY <1>1 DEF Splits, Size, DSIZE
<1> HIDE DEF h1
<1>5. CASE ~Splits(m, b, size)
  <2> DEFINE m2 == TakeWhole(m, b)
             h2 == Retag(h1, m2)
  <2>1. r.heap = h2 /\ r.bp = b /\ r.cut = b
    BY <1>2, <1>5 DEF PlaceUnlisted
  <2>2. Given(m, m2, brk, S, S, b, b, size)
    <3>1. Taken(m, m2, brk, S, S, b, size)
      BY <1>1, <1>2, <1>3, TakeFree
    <3> HIDE DEF m2
    <3> QED
      BY <3>1 DEF Taken, Given
  <2> HIDE DEF m2
  <2>3. HandedOut(h, h2, brk, S, S, b, b, size)
    BY <1>1, <2>2, HandedOutTags DEF h1
  <2> HIDE DEF h2
  <2>4. PlacesWhole(h, brk, S, b, size, h2, r)
    BY <2>1, <2>3 DEF PlacesWhole
  <2> QED
    BY <1>5, <1>4, <2>4 DEF Places
<1>6. CASE Splits(m, b, size) /\ size >= BACK_SIZE
  <2> DEFINE rest == Size(m, b) - size
             mid  == b + rest
             m1   == PutTags(m, b, rest, 0)
             m2   == PutTags(m1, mid, size, 1)
             h2   == Retag(h1, m2)
             h3   == insert_node(h2, b, rest)
             T    == S \union {mid}
  <2>1. /\ NEXT_BLKP(m1, b) = mid
        /\ Given(m, m2, brk, S, T, b, mid, size)
        /\ mid \notin S /\ IsFree(m2, b) /\ Size(m2, b) = rest
    BY <1>1, <1>6, SplitBack
  <2>2. r.heap = h3 /\ r.bp = mid /\ r.cut = mid
    BY <1>2, <1>6, <2>1 DEF PlaceUnlisted
  <2>3. rest = Size(h.mem, b) - size /\ mid = b + rest
    BY <1>1
  <2> HIDE DEF m2, rest, mid
  <2>4. HandedOut(h, h2, brk, S, T, b, mid, size) /\ h2.mem = m2
    BY <1>1, <2>1, HandedOutTags DEF h1
  <2>5. Parts(S, b, T, mid, b)
    BY DEF Parts
  <2>6. b \notin S \ {b} /\ mid \notin S \ {b} /\ b # mid
    BY <2>1
  <2> HIDE DEF h2
  <2>7. IsFree(h2.mem, b) /\ Size(h2.mem, b) = rest
    BY <2>1, <2>4
  <2>8. PlacesPart(h, brk, S, b, size, mid, b, mid, h2, r)
    BY <2>2, <2>3, <2>4, <2>5, <2>6, <2>7 DEF PlacesPart
  <2> QED
    BY <1>6, <1>4, <2>3, <2>8 DEF Places
<1>7. CASE Splits(m, b, size) /\ ~(size >= BACK_SIZE)
  <2> DEFINE rest == Size(m, b) - size
             mid  == b + size
             m2   == SplitFront(m, b, size)
             h2   == Retag(h1, m2)
             h3   == insert_node(h2, mid, rest)
             T    == S \union {mid}
  <2>1. /\ Taken(m, m2, brk, S, T, b, size)
        /\ RestBehind(m, m2, S, b, size)
    BY <1>1, <1>3, <1>7, SplitFree
  <2>2. NEXT_BLKP(m2, b) = mid /\ mid \notin S /\ Size(m2, mid) = rest
    BY <2>1 DEF RestBehind
  <2>3. r.heap = h3 /\ r.bp = b /\ r.cut = mid
    BY <1>2, <1>7, <2>2 DEF PlaceUnlisted
  <2>4. rest = Size(h.mem, b) - size /\ mid = b + size
    BY <1>1
  <2> HIDE DEF m2
  <2>5. Given(m, m2, brk, S, T, b, b, size) /\ IsFree(m2, mid)
    BY <2>1, <2>2 DEF Taken, Given
  <2> HIDE DEF rest, mid
  <2>6. HandedOut(h, h2, brk, S, T, b, b, size) /\ h2.mem = m2
    BY <1>1, <2>5, HandedOutTags DEF h1
  <2>7. Parts(S, b, T, b, mid)
    BY DEF Parts
  <2>8. mid # b /\ b \notin S \ {b} /\ mid \notin S \ {b}
    BY <2>2
  <2> HIDE DEF h2
  <2>9. IsFree(h2.mem, mid) /\ Size(h2.mem, mid) = rest
    BY <2>2, <2>5, <2>6
  <2>10. PlacesPart(h, brk, S, b, size, b, mid, mid, h2, r)
    BY <2>3, <2>6, <2>7, <2>8, <2>9, <2>4 DEF PlacesPart
  <2> QED
    BY <1>7, <1>4, <2>4, <2>10 DEF Places
<1> QED
  BY <1>5, <1>6, <1>7

LEMMA PlacePartSound ==
  ASSUME NEW h, NEW brk, NEW S, Sound(h, brk, S),
         NEW b \in S, b # heap_listp, IsFree(h.mem, b),
         NEW size, NEW x, NEW y, NEW cut, NEW h2, NEW r,
         PlacesPart(h, brk, S, b, size, x, y, cut, h2, r)
  PROVE  PlaceDone(h, r.heap, brk, S, S \union {r.cut}, r.bp, size)
<1>1. PICK T : T = S \union {cut}
  OBVIOUS
<1>2. /\ HandedOut(h, h2, brk, S, T, b, x, size) /\ Parts(S, b, T, x, y)
      /\ x \notin S \ {b} /\ y \notin S \ {b} /\ y # x /\ IsFree(h2.mem, y)
      /\ r.heap = insert_node(h2, y, Size(h2.mem, y)) /\ r.bp = x /\ r.cut = cut
  BY <1>1 DEF PlacesPart
<1> QED
  BY <1>1, <1>2, HandOutPart

LEMMA PlaceSound ==
  ASSUME NEW h, NEW brk, NEW S, Sound(h, brk, S),
         NEW b \in S, b # heap_listp, IsFree(h.mem, b),
         NEW size, Rounded(size), Size(h.mem, b) >= size,
         NEW r, r = place(h, b, size), NEW S2, S2 = S \union {r.cut}
  PROVE  PlaceDone(h, r.heap, brk, S, S2, r.bp, size)
<1>1. PICK h2 : Places(h, brk, S, b, size, h2, r)
  BY PlaceForm
<1>2. CASE PlacesWhole(h, brk, S, b, size, h2, r)
  <2>1. /\ HandedOut(h, h2, brk, S, S, b, b, size)
        /\ r.heap = h2 /\ r.bp = b /\ S2 = S
    BY <1>2 DEF PlacesWhole
  <2> QED
    BY <2>1, HandOutWhole
<1>3. ASSUME NEW x, NEW y, NEW cut, PlacesPart(h, brk, S, b, size, x, y, cut, h2, r)
      PROVE  PlaceDone(h, r.heap, brk, S, S2, r.bp, size)
  BY <1>3, PlacePartSound
<1> QED
  BY <1>1, <1>2, <1>3 DEF Places

-----------------------------------------------------------------------------
(* p's block has grown to n bytes at the cost of a free one: all blocks    *)
(* held are there, and so is what was written into p's.                    *)
SamePayload(m, m2, p) ==
  \A a \in Addr : p <= a /\ a < p + Size(m, p) - DSIZE => m2[a] = m[a]
TakenOver(h, h2, brk, S, S2, p, n) ==
  /\ Sound(h2, brk, S2) /\ OnlyNew(h.mem, h2.mem)
  /\ SameAllocated(h.mem, S, h2.mem, S2)
  /\ Kept(h.mem, h2.mem, Allocated(h.mem, S) \ {p})
  /\ SamePayload(h.mem, h2.mem, p) /\ Size(h2.mem, p) = n

(* Block q has left its list and is part of another one. *)
TookIn(h, h2, S, S2, q) ==
  LET h1 == delete_node(h, q)
  IN  /\ h2.lists = h1.lists /\ S2 = S \ {q}
      /\ SameNodes(h1.mem, h2.mem, FreeOf(h.mem, S) \ {q})

LEMMA TakeOverSound ==
  ASSUME NEW h, NEW brk, NEW S, Sound(h, brk, S),
         NEW p \in S, p # heap_listp, ~IsFree(h.mem, p),
         NEW q \in S, EndsAt(h.mem, p, q), IsFree(h.mem, q),
         NEW n, n = Size(h.mem, p) + Size(h.mem, q),
         NEW h2, h2 = TakeOver(h, p, n), NEW S2, S2 = Absorbed(S, h2.mem, p)
  PROVE  TakenOver(h, h2, brk, S, S2, p, n) /\ TookIn(h, h2, S, S2, q)
<1> DEFINE m  == h.mem
           F  == FreeOf(m, S)
           G  == F \ {q}
           hi == p + n
           h1 == delete_node(h, q)
           m1 == h1.mem
           m2 == PutTags(m1, p, hi - p, 1)
           T  == Merged(S, p, hi)
<1>1. /\ Record(h) /\ Heap(m, brk, S) /\ Coalesced(m, S) /\ HeapLists(h, F)
      /\ F \subseteq S \ {heap_listp} /\ q \in F
  BY FreeOrAllocated DEF Sound, FreeOf
<1>2. /\ p \in Int /\ Size(m, p) \in Nat /\ Size(m, p) >= 8
      /\ q \in Int /\ Size(m, q) \in Nat /\ Size(m, q) >= 8 /\ q = p + Size(m, p)
      /\ Size(m, p) >= 16 /\ Size(m, q) >= 16
  <2>1. /\ p \in Int /\ Size(m, p) \in Nat /\ Size(m, p) >= 8
        /\ q \in Int /\ Size(m, q) \in Nat /\ Size(m, q) >= 8
    BY <1>1, BlockFacts DEF Heap
  <2>2. Size(m, p) >= 16 /\ Size(m, q) >= 16
    BY <1>1 DEF Heap, MinimumSize, DSIZE
  <2> QED
    BY <2>1, <2>2 DEF EndsAt
<1>3. hi \in Int /\ hi = q + Size(m, q) /\ p < q /\ q < hi /\ p < hi /\ hi - p = n
  BY <1>2
<1>4. hi \in S \union {brk}
  BY <1>1, <1>3 DEF Heap, Tiled
<1>5. \A c \in S : (p < c /\ c < hi) <=> c = q
  <2>1. \A c \in S : c \in Int /\ (p < c => p + Size(m, p) <= c) /\ (q < c => q + Size(m, q) <= c)
    BY <1>1, Bounds DEF Heap, Tiled
  <2> HIDE DEF hi
  <2> QED
    BY <1>2, <1>3, <2>1
<1>6. h2 = Retag(h1, m2)
  <2>1. NEXT_BLKP(m, p) = q
    BY <1>2 DEF NEXT_BLKP, Size, HDRP
  <2> QED
    BY <1>3, <2>1 DEF TakeOver
<1> HIDE DEF hi, F
<1>7. /\ Record(h1) /\ HeapLists(h1, G) /\ Rearranged(m, m1, brk, S, G)
  BY <1>1, DeleteFree
<1>8. /\ Heap(m1, brk, S) /\ SameHeap(m, m1, S) /\ Coalesced(m1, S)
      /\ Kept(m, m1, S \ G) /\ OnlyNew(m, m1)
  BY <1>1, <1>7 DEF Rearranged
<1> HIDE DEF h1
<1>9. /\ Tiled(m2, brk, T) /\ p \in T
      /\ Retagged(m1, m2, p, hi, 1) /\ Size(m2, p) = hi - p
      /\ SameTags(m1, m2, T \ {p})
  BY <1>3, <1>4, <1>8, OneTile DEF Heap
<1> HIDE DEF m2
<1>10. T = S \ {q}
  BY <1>5 DEF Merged
<1>11. S2 = T /\ h2.mem = m2 /\ h2.lists = h1.lists /\ Record(h2)
  <2>1. Memory(m2)
    BY <1>9 DEF Retagged
  <2>2. h2.mem = m2 /\ h2.lists = h1.lists /\ Record(h2)
    BY <1>6, <1>7, <2>1, RetagFacts
  <2>3. NEXT_BLKP(m2, p) = hi
    <3>1. NEXT_BLKP(m2, p) = p + Size(m2, p)
      BY DEF NEXT_BLKP, Size, HDRP
    <3> QED
      BY <1>2, <1>3, <1>9, <3>1
  <2> QED
    BY <2>2, <2>3 DEF Absorbed, Merged
<1> HIDE DEF T
<1>12. \A c \in T \ {p} : /\ c \in S /\ c # q /\ Size(m2, c) = Size(m, c)
                          /\ IsFree(m2, c) <=> IsFree(m, c)
                          /\ Size(m2, c) = Size(m1, c)
                          /\ IsFree(m2, c) <=> IsFree(m1, c)
  BY <1>8, <1>9, <1>10 DEF SameTags, SameHeap, IsFree, GET_ALLOC, HDRP, WSIZE
<1>13. ~IsFree(m2, p) /\ Size(m2, p) = n /\ n >= 16
  <2>1. ~IsFree(m2, p)
    BY <1>9 DEF Retagged, Tagged, IsFree, GET_ALLOC, HDRP, WSIZE
  <2> QED
    BY <1>2, <1>3, <1>9, <2>1
<1>14. Heap(m2, brk, T)
  <2>1. MinimumSize(m2, T)
    BY <1>1, <1>12, <1>13 DEF MinimumSize, Heap, DSIZE
  <2> QED
    BY <1>9, <2>1 DEF Heap, Retagged
<1>15. Coalesced(m2, T)
  <2> SUFFICES ASSUME NEW c \in T, c + Size(m2, c) \in T,
                      IsFree(m2, c), IsFree(m2, c + Size(m2, c))
               PROVE  FALSE
    BY DEF Coalesced
  <2>1. c # p /\ c + Size(m2, c) # p
    BY <1>13
  <2>2. /\ c \in S /\ IsFree(m1, c) /\ Size(m2, c) = Size(m1, c)
        /\ c + Size(m1, c) \in S /\ IsFree(m1, c + Size(m1, c))
    BY <1>12, <2>1
  <2> QED
    BY <1>8, <2>2 DEF Coalesced
<1>16. FreeOf(m2, T) = G /\ Allocated(m2, T) = Allocated(m, S)
  BY <1>1, <1>10, <1>12, <1>13 DEF FreeOf, F, Allocated
<1>17. SameOutside(m1, m2, p, hi)
  <2>1. \A a \in Addr : a \in Int
    BY ArenaAssumption DEF Addr, mem_max_addr
  <2>2. \A a \in Addr : a < p - 4 \/ a >= hi - 4 => a # p - 4 /\ a # hi - 8
    BY <1>2, <1>3, <2>1
  <2> QED
    BY <1>9, <2>2 DEF SameOutside, Retagged
<1>18. HeapLists(h2, G) /\ SameNodes(m1, m2, G)
  <2>1. G \subseteq Outside(S, p, hi) \ {heap_listp}
    <3> SUFFICES ASSUME NEW c \in G
                 PROVE  c \in S /\ c # heap_listp /\ (c < p \/ c >= hi)
      BY DEF Outside
    <3>1. c \in S /\ c # heap_listp /\ c # q /\ IsFree(m, c)
      BY <1>1 DEF F, FreeOf
    <3>2. c # p
      BY <3>1
    <3>3. c \in Int
      BY <1>1, <3>1, Bounds DEF Heap
    <3> QED
      BY <1>2, <1>3, <1>5, <3>1, <3>2, <3>3
  <2>2. SameNodes(m1, m2, G)
    BY <1>3, <1>4, <1>8, <1>17, <2>1, NodesOutside
  <2> HIDE DEF G
  <2> QED
    BY <1>7, <1>11, <2>2, ListsKept
<1>19. Kept(m, m2, Allocated(m, S) \ {p})
  <2> DEFINE B == Allocated(m, S) \ {p}
  <2>1. B \subseteq Outside(S, p, hi) /\ B \subseteq T \ {p} /\ B \subseteq S \ G
    <3> SUFFICES ASSUME NEW c \in B
                 PROVE  /\ c \in S /\ (c < p \/ c >= hi) /\ c \in T \ {p}
                        /\ c \in S \ G
      BY DEF Outside
    <3>1. c \in S /\ c # p /\ ~IsFree(m, c)
      BY DEF Allocated
    <3>2. c # q /\ c \in Int
      BY <1>1, <3>1, Bounds DEF Heap
    <3> QED
      BY <1>2, <1>3, <1>5, <1>10, <3>1, <3>2 DEF F, FreeOf
  <2> HIDE DEF B
  <2>2. SameTags(m1, m2, B)
    BY <1>9, <2>1 DEF SameTags
  <2>3. Kept(m1, m2, B)
    BY <1>3, <1>4, <1>8, <1>17, <2>1, <2>2, KeptOutside DEF Heap
  <2>4. Kept(m, m1, B)
    BY <1>8, <2>1, KeptPart
  <2> QED
    BY <2>3, <2>4, KeptTwice DEF B
<1>20. SamePayload(m, m2, p)
  <2> SUFFICES ASSUME NEW a \in Addr, p <= a, a < p + Size(m, p) - 8
               PROVE  m2[a] = m[a]
    BY DEF SamePayload, DSIZE
  <2>1. a \in Int
    BY ArenaAssumption DEF Addr, mem_max_addr
  <2>2. a # p - 4 /\ a # hi - 8
    BY <1>2, <1>3, <2>1
  <2>3. p \in S \ G
    BY DEF F, FreeOf
  <2>4. m1[a] = m[a]
    BY <1>8, <2>3 DEF Kept, DSIZE
  <2> QED
    BY <1>9, <2>2, <2>4 DEF Retagged
<1>21. OnlyNew(m, m2)
  <2>1. hi - p \in Nat
    BY <1>2, <1>3
  <2>2. [size |-> hi - p, alloc |-> 1] \in Tag
    BY <2>1 DEF Tag
  <2> QED
    BY <1>8, <1>9, <2>2 DEF OnlyNew, Retagged, Tagged
<1>22. Sound(h2, brk, T)
  BY <1>11, <1>14, <1>15, <1>16, <1>18 DEF Sound
<1>23. SameAllocated(m, S, m2, T)
  BY <1>16 DEF SameAllocated
<1>24. TookIn(h, h2, S, S2, q)
  BY <1>10, <1>11, <1>18 DEF TookIn, h1, F
<1>25. TakenOver(h, h2, brk, S, S2, p, n)
  BY <1>11, <1>13, <1>19, <1>20, <1>21, <1>22, <1>23 DEF TakenOver, m
<1> QED
  BY <1>24, <1>25

-----------------------------------------------------------------------------
(* mm_init starts from no block but the prologue and from empty lists.     *)
LEMMA EmptySound ==
  ASSUME NEW h, Record(h), NEW h2, h2 = Empty(h)
  PROVE  /\ Sound(h2, heap_listp + 8, {heap_listp}) /\ OnlyNew(h.mem, h2.mem)
         /\ Allocated(h2.mem, {heap_listp}) = {heap_listp}
<1> DEFINE m2   == Prologue(h.mem)
           none == [k \in 0 .. LIST_MAX - 1 |-> NULL]
           S    == {heap_listp}
<1>1. /\ Heap(m2, heap_listp + 8, S) /\ Coalesced(m2, S)
      /\ OnlyTagsNew(h.mem, m2)
  BY PrologueHeap DEF Record
<1> HIDE DEF m2
<1>2. Record(h2) /\ h2.mem = m2 /\ h2.lists = none
  <2>1. h2 = [mem |-> m2, lists |-> none] /\ Memory(m2)
    BY <1>1 DEF Empty, m2, Heap
  <2> HIDE DEF none
  <2> QED
    BY <2>1 DEF Record
<1>3. FreeOf(m2, S) = {} /\ Allocated(m2, S) = S
  BY <1>1, FreeOrAllocated DEF Allocated, FreeOf
<1>4. HeapLists(h2, {})
  <2>1. \A succ : Numbered({}, succ, [b \in {} |-> 0], 0)
    BY DEF Numbered
  <2>2. \A succ : Acyclic({}, succ)
    BY <2>1 DEF Acyclic
  <2> QED
    BY <1>2, <2>2 DEF HeapLists, Lists
<1> QED
  BY <1>1, <1>2, <1>3, <1>4 DEF Sound, OnlyNew, OnlyTagsNew

(* Writing the payload of an allocated block touches neither tags nor      *)
(* lists.                                                                  *)
LEMMA WriteSound ==
  ASSUME NEW h, NEW brk, NEW S, Sound(h, brk, S),
         NEW b \in S, ~IsFree(h.mem, b),
         NEW h2, Record(h2), h2.lists = h.lists, PayloadWrite(h.mem, h2.mem, b)
  PROVE  /\ Sound(h2, brk, S) /\ SameAllocated(h.mem, S, h2.mem, S)
         /\ KeptBut(h.mem, h2.mem, S, b) /\ Size(h2.mem, b) = Size(h.mem, b)
         /\ SameTags(h.mem, h2.mem, S)
         /\ SameNodes(h.mem, h2.mem, FreeOf(h.mem, S))
<1> DEFINE m  == h.mem
           m2 == h2.mem
           F  == FreeOf(m, S)
           hi == b + Size(m, b)
<1>1. Heap(m, brk, S) /\ Coalesced(m, S) /\ HeapLists(h, F)
  BY DEF Sound
<1>2. /\ Heap(m2, brk, S) /\ Coalesced(m2, S) /\ SameTags(m, m2, S)
      /\ SameAllocated(m, S, m2, S)
      /\ KeptBut(m, m2, S, b) /\ Size(m2, b) = Size(m, b)
  BY <1>1, WritePayload
<1>3. FreeOf(m2, S) = F
  BY <1>2 DEF FreeOf, SameTags, IsFree, GET_ALLOC, HDRP, WSIZE
<1>4. /\ b \in Int /\ Size(m, b) \in Nat /\ Size(m, b) >= 8 /\ hi \in Int /\ b < hi
      /\ hi \in S \union {brk} /\ \A c \in S : c > b => c >= hi
  <2>1. b \in Int /\ Size(m, b) \in Nat /\ Size(m, b) >= 8 /\ hi \in Int /\ b < hi
    BY <1>1, BlockFacts DEF Heap
  <2>2. hi \in S \union {brk} /\ \A c \in S : b < c => hi <= c
    BY <1>1 DEF Heap, Tiled
  <2>3. \A c \in S : c \in Int
    BY <1>1, Bounds DEF Heap
  <2> HIDE DEF hi
  <2> QED
    BY <2>1, <2>2, <2>3
<1>5. SameOutside(m, m2, b, hi)
  <2>1. \A a \in Addr : a \in Int
    BY ArenaAssumption DEF Addr, mem_max_addr
  <2>2. \A a \in Addr : a < b - 4 \/ a >= hi - 4
                          => a < b \/ a >= b + Size(m, b) - DSIZE
    BY <1>4, <2>1 DEF DSIZE
  <2> QED
    BY <2>2 DEF SameOutside, PayloadWrite
<1>6. F \subseteq Outside(S, b, hi) \ {heap_listp}
  <2> SUFFICES ASSUME NEW c \in F
               PROVE  c \in S /\ c # heap_listp /\ (c < b \/ c >= hi)
    BY DEF Outside
  <2>1. c \in S /\ c # heap_listp /\ IsFree(m, c)
    BY <1>1, FreeOrAllocated DEF FreeOf
  <2>2. c # b /\ c \in Int
    BY <1>1, <2>1, Bounds DEF Heap
  <2> HIDE DEF hi
  <2> QED
    BY <1>4, <2>1, <2>2
<1> HIDE DEF hi, F
<1>7. SameNodes(m, m2, F)
  BY <1>1, <1>4, <1>5, <1>6, NodesOutside
<1>8. HeapLists(h2, F)
  BY <1>1, <1>7, ListsKept
<1> QED
  BY <1>2, <1>3, <1>7, <1>8 DEF Sound, m, F

-----------------------------------------------------------------------------
(* From q on there is at most one free block below the break. *)
LastFree(m, brk, S, q) ==
  q = brk \/ (q \in S /\ IsFree(m, q) /\ q + Size(m, q) = brk)

(* mm_realloc extends the heap behind the block p: what extend_heap hands  *)
(* back is the block behind p.                                             *)
HandsBack(r, q) == r.bp = q

LEMMA GrownBehind ==
  ASSUME NEW h, NEW brk, NEW S, Sound(h, brk, S),
         NEW p \in S, ~IsFree(h.mem, p),
         NEW q, EndsAt(h.mem, p, q),
         LastFree(h.mem, brk, S, q),
         NEW size, NEW brk2, MovesBreak(brk, size, brk2),
         NEW r, r = extend_heap(h, brk, size),
         NEW S2, S2 = Absorbed(S \union {brk}, r.heap.mem, r.bp)
  PROVE  HandsBack(r, q)
<1> SUFFICES r.bp = q
  BY DEF HandsBack
<1> DEFINE m == r.heap.mem
           n == r.bp
<1>1. /\ Sound(r.heap, brk2, S2) /\ Allocated(m, S2) = Allocated(h.mem, S)
      /\ Kept(h.mem, m, Allocated(h.mem, S))
      /\ n \in S2 /\ IsFree(m, n) /\ n + Size(m, n) = brk2
  <2>1. GrowDone(h, r, brk, S, S2, size, brk2)
    BY GrowSound
  <2> QED
    BY <2>1 DEF GrowDone
<1>2. Heap(h.mem, brk, S) /\ Heap(m, brk2, S2) /\ Coalesced(m, S2)
  BY <1>1 DEF Sound
<1>3. S2 \subseteq S \union {brk}
  BY DEF Absorbed
<1> HIDE DEF m, n
<1>4. p \in Allocated(h.mem, S)
  BY DEF Allocated
<1>5. p \in S2 /\ ~IsFree(m, p) /\ Size(m, p) = Size(h.mem, p)
  BY <1>1, <1>4 DEF Kept, Allocated
<1>6. /\ \A c \in S2 : /\ c \in Int /\ c < brk2 /\ Size(m, c) \in Nat
                       /\ c + Size(m, c) \in S2 \union {brk2}
      /\ \A c, d \in S2 : c < d => c + Size(m, c) <= d
      /\ brk2 \in Int
  <2>1. \A c \in S2 : c \in Int /\ c < brk2 /\ Size(m, c) \in Nat
    BY <1>2, Bounds, BlockFacts DEF Heap
  <2>2. brk2 \in Int
    BY <1>2, HeapFacts DEF Heap
  <2> QED
    BY <1>2, <2>1, <2>2 DEF Heap, Tiled
<1>7. /\ \A c \in S : c \in Int /\ c < brk
      /\ \A c, d \in S : c < d => c + Size(h.mem, c) <= d
      /\ brk \in Int /\ brk < brk2
  <2>1. brk < brk2 /\ brk \in Int
    BY <1>2, HeapFacts DEF MovesBreak, Rounded, Heap
  <2>2. \A c \in S : c \in Int /\ c < brk
    BY <1>2, Bounds DEF Heap
  <2> QED
    BY <1>2, <2>1, <2>2 DEF Heap, Tiled
<1>8. q \in S2
  <2>1. q \in S2 \union {brk2} /\ q = p + Size(m, p)
    BY <1>5, <1>6 DEF EndsAt
  <2>2. q # brk2
    BY <1>7 DEF LastFree
  <2> QED
    BY <2>1, <2>2
<1>9. \A c \in S2 : c <= n
  <2> SUFFICES ASSUME NEW c \in S2
               PROVE  c <= n
    OBVIOUS
  <2>1. /\ c \in Int /\ c < brk2 /\ n \in Int /\ brk2 \in Int
        /\ n < c => n + Size(m, n) <= c
    BY <1>1, <1>6
  <2> QED
    BY <1>1, <2>1
<1>10. n \in Int /\ q \in Int /\ q <= n
  BY <1>1, <1>6, <1>8, <1>9
<1>11. CASE q = brk
  <2>1. n = brk
    BY <1>1, <1>3, <1>7, <1>10, <1>11
  <2> QED
    BY <1>11, <2>1 DEF n
<1>12. CASE q \in S /\ IsFree(h.mem, q) /\ q + Size(h.mem, q) = brk
  <2> SUFFICES ASSUME n # q
               PROVE  FALSE
    BY DEF n
  <2>1. q < n
    BY <1>10
  <2>2. \A c \in S2 : c > q => c = brk
    <3> SUFFICES ASSUME NEW c \in S2, c > q, c # brk
                 PROVE  FALSE
      OBVIOUS
    <3>1. c \in S /\ q \in S
      BY <1>3, <1>12
    <3>2. brk <= c
      BY <1>7, <1>12, <3>1
    <3> QED
      BY <1>7, <3>1, <3>2
  <2>3. n = brk
    BY <1>1, <2>1, <2>2
  <2>4. q + Size(m, q) = brk
    <3>1. q + Size(m, q) <= n /\ q + Size(m, q) \in S2 \union {brk2}
      BY <1>1, <1>6, <1>8, <2>1
    <3>2. q + Size(m, q) > q
      BY <1>2, <1>8, BlockFacts DEF Heap
    <3> QED
      BY <1>6, <1>7, <2>2, <2>3, <3>1, <3>2
  <2>5. IsFree(m, q)
    <3>1. q \notin Allocated(h.mem, S)
      BY <1>12 DEF Allocated
    <3> QED
      BY <1>1, <1>8, <3>1 DEF Allocated, m
  <2> QED
    BY <1>1, <1>2, <1>8, <2>3, <2>4, <2>5 DEF Coalesced
<1> QED
  BY <1>11, <1>12 DEF LastFree

-----------------------------------------------------------------------------
(* The inductive invariant.                                                *)

(* The heap is whole and the free lists hold its free blocks. *)
StructureInv == Up => Sound(CurrentHeap, mem_brk, blks)

(* A call that searches or copies does so because the old block, if there  *)
(* is one, is too small.                                                   *)
Working == pc \in {"scan", "list", "grow", "move"}

(* The allocated blocks are the prologue, those of the live pointers, all  *)
(* different, and the one a call is about to return; each is large enough  *)
(* for its payload and two tags.                                           *)
OwnerInv ==
  Up =>
    /\ Allocated(mem, blks) = Owned \union {heap_listp}
    /\ \A i, j \in Live : i # j => ptr[i] # ptr[j]
    /\ \A i \in Live : /\ ptr[i] # heap_listp
                       /\ Size(mem, ptr[i]) >= psize[i] + DSIZE
    /\ (pc \in {"move", "ret"} /\ bp # NULL) =>
         /\ bp # heap_listp /\ Size(mem, bp) >= AdjustedSize(call.size)
         /\ \A i \in Live : ptr[i] # bp
    /\ (Working /\ call.op = "realloc") => Needs(ptr[call.id], call.size)

(* The frame of the call in progress, if there is one. *)
CallInv ==
  /\ pc = "down" => \A i \in Ids : ptr[i] = NULL
  /\ pc \in {"down", "idle"} => call = NoCall /\ bp = NULL
  /\ pc \notin {"down", "idle"} =>
       /\ call \in Call /\ call.size > 0
       /\ call.op = "malloc" <=> ptr[call.id] = NULL
  /\ Working => new_size = AdjustedSize(call.size)
  /\ pc = "move" => call.op = "realloc" /\ bp # NULL

(* The blocks from b on, and maybe others: a set that a walk does not      *)
(* leave.                                                                  *)
ClosedFrom(b, X) ==
  /\ b \in X \union {NULL}
  /\ \A c \in X : SUCC_NODE(mem, c) \in X \union {NULL}

(* No block find_fit has passed would do: none of the lists before pos     *)
(* (unless the request is larger than any list is searched for), and none  *)
(* of list pos but those from the cursor on.                               *)
Seen(k) ==
  \A b \in FreeBlocks :
     ListOf(Size(mem, b)) < k => Size(mem, b) < new_size \/ new_size >= 2 ^ LIST_MAX
SeenList ==
  /\ pos < LIST_MAX /\ Searchable(pos) /\ bp \in Members(pos) \union {NULL}
  /\ \A X \in SUBSET Members(pos) :
        ClosedFrom(bp, X) =>
          \A b \in Members(pos) : Size(mem, b) >= new_size => b \in X
SearchInv ==
  /\ pc \in {"scan", "list", "grow"} => Seen(pos)
  /\ pc = "list" => SeenList
  /\ pc = "grow" => pos = LIST_MAX

IInv == TypeOK /\ StructureInv /\ OwnerInv /\ CallInv /\ SearchInv

Words == Tag \union Link \union Ids \union {Junk}

(* Tags and links are words, so writing them keeps the arena's type. *)
LEMMA NewWords ==
  ASSUME NEW m, m \in [Addr -> Words], NEW m2, Memory(m2), OnlyNew(m, m2)
  PROVE  m2 \in [Addr -> Words]
<1>1. \A a \in Addr : m2[a] \in Words
  BY DEF OnlyNew, Words
<1> QED
  BY <1>1 DEF Memory

LEMMA CurrentRecord ==
  ASSUME TypeOK
  PROVE  /\ Record(CurrentHeap) /\ mem \in [Addr -> Words]
         /\ CurrentHeap.mem = mem /\ CurrentHeap.lists = free_lists
BY DEF TypeOK, CurrentHeap, Record, Memory, Words

(* The variables of a sound heap are of their types. *)
HeapTypes(h, brk, S) ==
  /\ S \subseteq Addr /\ NULL \notin S /\ brk \in mem_start_brk .. mem_max_addr
  /\ h.lists \in [0 .. LIST_MAX - 1 -> Node]
LEMMA SoundTypes ==
  ASSUME NEW h, NEW brk, NEW S, Sound(h, brk, S)
  PROVE  HeapTypes(h, brk, S)
<1>1. Heap(h.mem, brk, S) /\ HeapLists(h, FreeOf(h.mem, S))
  BY DEF Sound
<1>2. S \subseteq Addr /\ NULL \notin S /\ brk \in mem_start_brk .. mem_max_addr
  BY <1>1, BlocksInArena
<1>3. FreeOf(h.mem, S) \union {NULL} \subseteq Node
  BY <1>2 DEF FreeOf, Node
<1>4. h.lists \in [0 .. LIST_MAX - 1 -> FreeOf(h.mem, S) \union {NULL}]
  BY <1>1 DEF HeapLists, Lists
<1>5. h.lists \in [0 .. LIST_MAX - 1 -> Node]
  BY <1>3, <1>4
<1> QED
  BY <1>2, <1>5 DEF HeapTypes

(* A step whose next heap is h2, which differs from the words m by tags    *)
(* and links only.                                                         *)
Becomes(h2, brk2, S2) ==
  /\ SetHeap(h2) /\ mem_brk' = brk2 /\ blks' = S2
LEMMA NewHeapOver ==
  ASSUME NEW h2, NEW brk2, NEW S2, Becomes(h2, brk2, S2), Sound(h2, brk2, S2),
         NEW m, m \in [Addr -> Words], OnlyNew(m, h2.mem)
  PROVE  /\ Sound(CurrentHeap', mem_brk', blks')
         /\ mem' \in [Addr -> Words] /\ mem_brk' \in mem_start_brk .. mem_max_addr
         /\ free_lists' \in [0 .. LIST_MAX - 1 -> Node] /\ blks' \subseteq Addr
<1>1. Record(h2) /\ Memory(h2.mem)
  BY DEF Sound, Heap
<1>2. CurrentHeap' = h2 /\ mem_brk' = brk2 /\ blks' = S2
  BY <1>1 DEF CurrentHeap, Becomes, SetHeap, Record
<1>3. h2.mem \in [Addr -> Words]
  BY <1>1, NewWords
<1>4. HeapTypes(h2, brk2, S2)
  BY SoundTypes
<1> QED
  BY <1>2, <1>3, <1>4 DEF HeapTypes, Becomes, SetHeap

LEMMA NewHeap ==
  ASSUME TypeOK, NEW h2, NEW brk2, NEW S2, Becomes(h2, brk2, S2),
         Sound(h2, brk2, S2), OnlyNew(mem, h2.mem)
  PROVE  /\ Sound(CurrentHeap', mem_brk', blks')
         /\ mem' \in [Addr -> Words] /\ mem_brk' \in mem_start_brk .. mem_max_addr
         /\ free_lists' \in [0 .. LIST_MAX - 1 -> Node] /\ blks' \subseteq Addr
<1>1. mem \in [Addr -> Words]
  BY CurrentRecord
<1> QED
  BY <1>1, NewHeapOver

-----------------------------------------------------------------------------
(* Every step preserves it, and leaves alone the payload of every pointer  *)
(* that is live before and after it.                                       *)

Undisturbed ==
  /\ \A i \in Live \cap Live' : ptr'[i] = ptr[i] /\ psize'[i] = psize[i]
  /\ Kept(mem, mem', {ptr[i] : i \in Live \cap Live'})

LEMMA InitHolds == Init => IInv
<1> SUFFICES ASSUME Init
             PROVE  IInv
  OBVIOUS
<1> USE DEF Init, ClientInit
<1>1. mem_brk \in mem_start_brk .. mem_max_addr /\ LIST_MAX \in Nat
  BY ArenaAssumption, ListAssumption DEF mem_max_addr
<1>2. TypeOK
  BY <1>1 DEF TypeOK, NULL, Node
<1> QED
  BY <1>2 DEF IInv, StructureInv, OwnerInv, CallInv, SearchInv, Up, Working

(* What the invariant says while the client holds pointers. *)
LEMMA Situation ==
  ASSUME IInv, Up
  PROVE  /\ Sound(CurrentHeap, mem_brk, blks) /\ Record(CurrentHeap)
         /\ CurrentHeap.mem = mem /\ CurrentHeap.lists = free_lists
         /\ Heap(mem, mem_brk, blks) /\ Coalesced(mem, blks)
         /\ HeapLists(CurrentHeap, FreeOf(mem, blks))
         /\ Allocated(mem, blks) = Owned \union {heap_listp}
         /\ Allocated(mem, blks) \subseteq blks
         /\ \A i \in Live : /\ ptr[i] \in blks /\ ptr[i] # heap_listp
                            /\ ptr[i] \in Allocated(mem, blks)
         /\ blks \subseteq Addr /\ NULL \notin blks
<1>1. /\ Record(CurrentHeap) /\ CurrentHeap.mem = mem
      /\ CurrentHeap.lists = free_lists
  BY CurrentRecord DEF IInv
<1>2. Sound(CurrentHeap, mem_brk, blks)
  BY DEF IInv, StructureInv
<1>3. /\ Heap(mem, mem_brk, blks) /\ Coalesced(mem, blks)
      /\ HeapLists(CurrentHeap, FreeOf(mem, blks))
  BY <1>1, <1>2 DEF Sound
<1>4. /\ Allocated(mem, blks) = Owned \union {heap_listp}
      /\ Allocated(mem, blks) \subseteq blks
      /\ \A i \in Live : ptr[i] # heap_listp
  BY DEF IInv, OwnerInv, Allocated
<1>5. \A i \in Live : ptr[i] \in Owned
  BY DEF Owned
<1>6. blks \subseteq Addr /\ NULL \notin blks
  BY <1>2, SoundTypes DEF HeapTypes
<1> QED
  BY <1>1, <1>2, <1>3, <1>4, <1>5, <1>6

(* Steps of a call that leave the heap and the client's pointers alone. *)
LEMMA QuietStep ==
  ASSUME IInv, pc \notin {"move", "ret"} /\ Up,
         pc' # "down", pc' = "ret" => bp' = NULL, pc' # "move",
         (Working' /\ call'.op = "realloc") => Needs(ptr[call'.id], call'.size),
         UNCHANGED <<mem, mem_brk, ptr, psize, free_lists, blks>>
  PROVE  StructureInv' /\ OwnerInv' /\ Live' = Live /\ Undisturbed
<1>1. StructureInv'
  BY DEF IInv, StructureInv, CurrentHeap
<1>2. Live' = Live
  BY DEF Live, Moved
<1>3. Owned' = Owned
  BY <1>2 DEF Owned
<1>4. OwnerInv'
  BY <1>2, <1>3 DEF IInv, OwnerInv, Needs
<1>5. Undisturbed
  BY DEF Undisturbed, Kept
<1> QED
  BY <1>1, <1>2, <1>4, <1>5

-----------------------------------------------------------------------------
(* The free lists, in the terms of the properties.                         *)

LEMMA FreeFacts ==
  ASSUME IInv, Up
  PROVE  /\ FreeBlocks = FreeOf(mem, blks) /\ FreeBlocks \subseteq blks
         /\ NULL \notin FreeBlocks /\ heap_listp \notin FreeBlocks
         /\ \A b \in FreeBlocks : Size(mem, b) \in Nat
<1>1. Heap(mem, mem_brk, blks) /\ NULL \notin blks
  BY Situation
<1>2. FreeBlocks = FreeOf(mem, blks) /\ FreeBlocks \subseteq blks
  BY DEF FreeBlocks, FreeOf
<1>3. heap_listp \notin FreeBlocks
  BY <1>1, <1>2, FreeOrAllocated
<1>4. \A b \in blks : Size(mem, b) \in Nat
  BY <1>1, BlockFacts DEF Heap
<1> QED
  BY <1>1, <1>2, <1>3, <1>4

LEMMA ExactLists ==
  ASSUME IInv, Up
  PROVE  /\ \A k \in 0 .. LIST_MAX - 1 :
              /\ StaysIn(k, Members(k))
              /\ \A X \in SUBSET Members(k) : StaysIn(k, X) => X = Members(k)
         /\ FreeListsExact
<1> DEFINE F    == FreeOf(mem, blks)
           size == SizesOf(CurrentHeap, F)
           pred == PredsOf(CurrentHeap, F)
           succ == SuccsOf(CurrentHeap, F)
<1>1. F = FreeBlocks /\ CurrentHeap.mem = mem /\ NULL \notin F
  BY FreeFacts, CurrentRecord DEF IInv
<1>2. Lists(F, size, pred, succ, free_lists)
  BY Situation DEF HeapLists
<1>3. \A b \in F : /\ size[b] = Size(mem, b)
                   /\ pred[b] = PRED_NODE(mem, b) /\ succ[b] = SUCC_NODE(mem, b)
  BY <1>1 DEF SizesOf, PredsOf, SuccsOf
<1> HIDE DEF F, size, pred, succ
<1>4. \A b \in F : ListIn(size, b) = ListOf(Size(mem, b))
  BY <1>3 DEF ListIn
<1>5. \A k : Members(k) = {b \in F : ListIn(size, b) = k} /\ Members(k) \subseteq F
  BY <1>1, <1>4 DEF Members
<1>6. ASSUME NEW b \in F, succ[b] # NULL
      PROVE  /\ succ[b] \in F /\ pred[succ[b]] = b
             /\ ListIn(size, succ[b]) = ListIn(size, b) /\ size[b] <= size[succ[b]]
  <2>1. succ[b] \in F /\ pred[succ[b]] = b /\ b # NULL
    BY <1>1, <1>2, <1>6 DEF Lists
  <2> QED
    BY <1>2, <2>1 DEF Lists
<1>7. ASSUME NEW k \in 0 .. LIST_MAX - 1
      PROVE  StaysIn(k, Members(k))
  <2>1. free_lists[k] \in Members(k) \union {NULL}
    BY <1>2, <1>5 DEF Lists
  <2>2. \A b \in Members(k) : SUCC_NODE(mem, b) \in Members(k) \union {NULL}
    BY <1>3, <1>5, <1>6
  <2> QED
    BY <2>1, <2>2 DEF StaysIn
<1>8. ASSUME NEW k \in 0 .. LIST_MAX - 1, NEW X \in SUBSET Members(k), StaysIn(k, X)
      PROVE  X = Members(k)
  <2>1. X \in SUBSET F /\ \A b \in X : ListIn(size, b) = k
    BY <1>5
  <2>2. free_lists[k] \in X \union {NULL}
    BY <1>8 DEF StaysIn
  <2>3. \A b \in X : succ[b] \in X \union {NULL}
    BY <1>3, <1>8, <2>1 DEF StaysIn
  <2>4. X = {b \in F : ListIn(size, b) = k}
    BY <1>2, <2>1, <2>2, <2>3, WalkMeetsAll
  <2> QED
    BY <1>5, <2>4
<1>9. ASSUME NEW b \in FreeBlocks
      PROVE  LET p == PRED_NODE(mem, b)
                 s == SUCC_NODE(mem, b)
             IN  /\ p = NULL => free_lists[ListOf(Size(mem, b))] = b
                 /\ p # NULL => SUCC_NODE(mem, p) = b
                 /\ s # NULL => /\ PRED_NODE(mem, s) = b
                                /\ Size(mem, b) <= Size(mem, s)
  <2>1. b \in F
    BY <1>1
  <2>2. pred[b] = NULL => free_lists[ListIn(size, b)] = b
    BY <1>2, <2>1 DEF Lists
  <2>3. pred[b] # NULL => pred[b] \in F /\ succ[pred[b]] = b
    BY <1>2, <2>1 DEF Lists
  <2> QED
    BY <1>3, <1>4, <1>6, <2>1, <2>2, <2>3
<1> QED
  BY <1>7, <1>8, <1>9 DEF FreeListsExact

-----------------------------------------------------------------------------
(* The powers of two, and the lists they bound.                            *)

LEMMA PowersGrow ==
  ASSUME NEW j \in 0 .. LIST_MAX, NEW k \in 0 .. LIST_MAX, j <= k
  PROVE  2 ^ j \in Nat /\ 2 ^ k \in Nat /\ 2 ^ j <= 2 ^ k
<1> DEFINE T == {i \in 0 .. LIST_MAX : j <= i /\ ~(2 ^ j <= 2 ^ i)}
<1>1. LIST_MAX \in Nat
  BY ListAssumption
<1>2. \A i \in 0 .. LIST_MAX : 2 ^ i \in Nat /\ 2 ^ (i + 1) = 2 * 2 ^ i
  BY PowersOfTwo
<1>3. T = {}
  <2> SUFFICES ASSUME T # {}
               PROVE  FALSE
    OBVIOUS
  <2>1. T \subseteq Nat
    BY <1>1
  <2>2. PICK n \in T : \A i \in T : n <= i
    BY <2>1, LeastNumber
  <2>3. n \in 0 .. LIST_MAX /\ j <= n /\ ~(2 ^ j <= 2 ^ n) /\ n # j
    BY <1>2
  <2>4. n - 1 \in 0 .. LIST_MAX /\ j <= n - 1 /\ n - 1 < n
    BY <1>1, <2>3
  <2>5. 2 ^ j <= 2 ^ (n - 1)
    BY <1>1, <2>2, <2>4
  <2>6. 2 ^ n = 2 * 2 ^ (n - 1)
    <3>1. PICK i : i = n - 1
      OBVIOUS
    <3>2. i + 1 = n
      BY <1>1, <2>3, <3>1
    <3> QED
      BY <1>2, <2>4, <3>1, <3>2
  <2>7. 2 ^ j \in Nat /\ 2 ^ n \in Nat /\ 2 ^ (n - 1) \in Nat
    BY <1>2, <2>3, <2>4
  <2> QED
    BY <2>3, <2>5, <2>6, <2>7
<1> QED
  BY <1>2, <1>3

(* Searchable(k): list k may hold a block of this size, or the last one    *)
(* would if it were searched.                                              *)
LEMMA SearchRange ==
  ASSUME NEW k \in 0 .. LIST_MAX - 1, new_size \in Nat
  PROVE  /\ 2 ^ (k + 1) \in Nat
         /\ Searchable(k) <=> new_size < 2 ^ (k + 1)
<1>1. k \in 0 .. LIST_MAX
  BY ListAssumption
<1>2. 2 ^ k \in Nat /\ 2 ^ k > 0 /\ 2 ^ (k + 1) = 2 * 2 ^ k
  BY <1>1, PowersOfTwo
<1>3. PICK P : P = 2 ^ k
  OBVIOUS
<1>4. P \in Nat /\ P > 0
  BY <1>2, <1>3
<1>5. new_size \div P <= 1 <=> new_size < 2 * P
  BY <1>4
<1> QED
  BY <1>2, <1>3, <1>4, <1>5 DEF Searchable

-----------------------------------------------------------------------------
(* The search.                                                             *)

LEMMA StartStep ==
  ASSUME IInv, NEW i \in Ids, NEW size \in Sizes,
         CallMalloc(i, size) \/ ReallocSearch(i, size)
  PROVE  IInv' /\ Live' = Live /\ Undisturbed
<1>1. /\ pc = "idle" /\ pc' = "scan" /\ size > 0 /\ bp' = bp /\ pos' = 0
      /\ call'.op = "realloc" => Needs(ptr[i], size)
      /\ call' \in Call /\ call'.id = i /\ call'.size = size
      /\ call'.op = "malloc" <=> ptr[i] = NULL
      /\ new_size' = AdjustedSize(size)
      /\ UNCHANGED <<mem, mem_brk, ptr, psize, free_lists, blks>>
  <2>1. CASE CallMalloc(i, size)
    BY <2>1 DEF CallMalloc, StartSearch, Request, Call
  <2>2. CASE ReallocSearch(i, size)
    BY <2>2 DEF ReallocSearch, StartSearch, Request, Call
  <2> QED
    BY <2>1, <2>2
<1>2. StructureInv' /\ OwnerInv' /\ Live' = Live /\ Undisturbed
  BY <1>1, QuietStep DEF Up
<1>3. new_size' \in Nat
  BY <1>1, RequestSize DEF Rounded
<1>4. TypeOK'
  BY <1>1, <1>3, ListAssumption DEF IInv, TypeOK
<1>5. CallInv'
  BY <1>1 DEF CallInv
<1>6. SearchInv'
  <2>1. \A b \in FreeBlocks : ListOf(Size(mem, b)) >= 0
    BY <1>1, FreeFacts, ListOfSize DEF Up
  <2>2. \A b \in FreeBlocks : ListOf(Size(mem, b)) \in Nat
    BY <1>1, FreeFacts, ListOfSize, ListAssumption DEF Up
  <2>3. FreeBlocks' = FreeBlocks
    BY <1>1 DEF FreeBlocks
  <2> QED
    BY <1>1, <2>2, <2>3 DEF SearchInv, Seen
<1> QED
  BY <1>2, <1>4, <1>5, <1>6 DEF IInv

(* List pos holds no block that would do, so the next list is as good a    *)
(* place to go on from.                                                    *)
LEMMA PassList ==
  ASSUME IInv, Up, Seen(pos), pos < LIST_MAX,
         \A b \in Members(pos) : Size(mem, b) < new_size \/ new_size >= 2 ^ LIST_MAX
  PROVE  Seen(pos + 1)
<1> SUFFICES ASSUME NEW b \in FreeBlocks, ListOf(Size(mem, b)) < pos + 1
             PROVE  Size(mem, b) < new_size \/ new_size >= 2 ^ LIST_MAX
  BY DEF Seen
<1>1. pos \in Nat /\ ListOf(Size(mem, b)) \in Int
  <2>1. pos \in Nat
    BY ListAssumption DEF IInv, TypeOK
  <2>2. Size(mem, b) \in Nat
    BY FreeFacts
  <2>3. ListOf(Size(mem, b)) \in Int
    BY <2>2, ListOfSize, ListAssumption
  <2> QED
    BY <2>1, <2>3
<1>2. ListOf(Size(mem, b)) < pos \/ ListOf(Size(mem, b)) = pos
  BY <1>1
<1> QED
  BY <1>2 DEF Seen, Members

(* A list that find_fit does not search: its blocks are too small.         *)
LEMMA NotSearched ==
  ASSUME IInv, Up, NEW k \in 0 .. LIST_MAX - 1, ~Searchable(k),
         NEW b \in Members(k)
  PROVE  Size(mem, b) < new_size \/ new_size >= 2 ^ LIST_MAX
<1>1. b \in FreeBlocks /\ ListOf(Size(mem, b)) = k
  BY DEF Members
<1>2. PICK n : n = Size(mem, b)
  OBVIOUS
<1>3. n \in Nat
  BY <1>1, <1>2, FreeFacts
<1>4. k < LIST_MAX - 1 => n < 2 ^ (k + 1)
  BY <1>1, <1>2, <1>3, ListOfSize
<1>5. new_size \in Nat /\ LIST_MAX \in Nat
  BY ListAssumption DEF IInv, TypeOK
<1>6. 2 ^ (k + 1) \in Nat /\ new_size >= 2 ^ (k + 1)
  BY <1>5, SearchRange
<1>7. CASE k < LIST_MAX - 1
  BY <1>2, <1>3, <1>4, <1>5, <1>6, <1>7
<1>8. CASE k = LIST_MAX - 1
  <2>1. k + 1 = LIST_MAX
    BY <1>5, <1>8
  <2> QED
    BY <1>6, <2>1
<1> QED
  BY <1>5, <1>7, <1>8

(* The next list: it is empty, or not searched. *)
LEMMA SkipStep ==
  ASSUME IInv, SkipList
  PROVE  IInv' /\ Live' = Live /\ Undisturbed
<1>1. /\ pc = "scan" /\ pc' = "scan" /\ pos < LIST_MAX /\ pos' = pos + 1
      /\ ~Searchable(pos) \/ free_lists[pos] = NULL
      /\ bp' = bp /\ call' = call /\ new_size' = new_size
      /\ UNCHANGED <<mem, mem_brk, ptr, psize, free_lists, blks>>
  BY DEF SkipList
<1>2. Up /\ pos \in 0 .. LIST_MAX - 1
  BY <1>1, ListAssumption DEF Up, IInv, TypeOK
<1>3. StructureInv' /\ OwnerInv' /\ Live' = Live /\ Undisturbed
  <2>1. (Working' /\ call'.op = "realloc") => Needs(ptr[call'.id], call'.size)
    BY <1>1, <1>2 DEF IInv, OwnerInv, Working
  <2> QED
    BY <1>1, <1>2, <2>1, QuietStep
<1>4. Seen(pos + 1)
  <2>1. CASE ~Searchable(pos)
    BY <1>1, <1>2, <2>1, NotSearched, PassList DEF IInv, SearchInv
  <2>2. CASE free_lists[pos] = NULL
    <3>1. StaysIn(pos, {})
      BY <2>2 DEF StaysIn
    <3>2. Members(pos) = {}
      BY <1>2, <3>1, ExactLists
    <3> QED
      BY <1>1, <1>2, <3>2, PassList DEF IInv, SearchInv
  <2> QED
    BY <1>1, <2>1, <2>2
<1>5. SearchInv'
  <2>1. FreeBlocks' = FreeBlocks
    BY <1>1 DEF FreeBlocks
  <2>2. Seen(pos)'
    BY <1>1, <1>4, <2>1 DEF Seen
  <2> QED
    BY <1>1, <2>2 DEF SearchInv
<1>6. TypeOK' /\ CallInv'
  <2>1. pos + 1 \in 0 .. LIST_MAX
    BY <1>2, ListAssumption
  <2> QED
    BY <1>1, <1>2, <2>1 DEF IInv, TypeOK, CallInv, Working
<1> QED
  BY <1>3, <1>5, <1>6 DEF IInv

LEMMA EnterStep ==
  ASSUME IInv, EnterList
  PROVE  IInv' /\ Live' = Live /\ Undisturbed
<1>1. /\ pc = "scan" /\ pc' = "list" /\ pos < LIST_MAX /\ pos' = pos
      /\ Searchable(pos) /\ bp' = free_lists[pos]
      /\ call' = call /\ new_size' = new_size
      /\ UNCHANGED <<mem, mem_brk, ptr, psize, free_lists, blks>>
  BY DEF EnterList
<1>2. Up /\ pos \in 0 .. LIST_MAX - 1
  BY <1>1, ListAssumption DEF Up, IInv, TypeOK
<1>3. StructureInv' /\ OwnerInv' /\ Live' = Live /\ Undisturbed
  <2>1. (Working' /\ call'.op = "realloc") => Needs(ptr[call'.id], call'.size)
    BY <1>1, <1>2 DEF IInv, OwnerInv, Working
  <2> QED
    BY <1>1, <1>2, <2>1, QuietStep
<1>4. bp' \in Members(pos) \union {NULL}
  BY <1>1, <1>2, ExactLists DEF StaysIn
<1>5. ASSUME NEW X \in SUBSET Members(pos), ClosedFrom(free_lists[pos], X)
      PROVE  X = Members(pos)
  BY <1>2, <1>5, ExactLists DEF StaysIn, ClosedFrom
<1>6. SearchInv'
  <2>1. /\ Members(pos)' = Members(pos) /\ FreeBlocks' = FreeBlocks
        /\ Searchable(pos)' = Searchable(pos)
    BY <1>1 DEF Members, FreeBlocks, Searchable
  <2>2. \A X : ClosedFrom(bp, X)' <=> ClosedFrom(free_lists[pos], X)
    BY <1>1 DEF ClosedFrom
  <2>3. SeenList'
    BY <1>1, <1>4, <1>5, <2>1, <2>2 DEF SeenList
  <2>4. Seen(pos)'
    BY <1>1, <2>1 DEF IInv, SearchInv, Seen
  <2> QED
    BY <1>1, <2>3, <2>4 DEF SearchInv
<1>7. TypeOK' /\ CallInv'
  BY <1>1, <1>2 DEF IInv, TypeOK, CallInv, Working
<1> QED
  BY <1>3, <1>6, <1>7 DEF IInv

(* On to the next block of the list: what lay ahead of the cursor, but for *)
(* the block it leaves, still does.                                        *)
LEMMA TooSmallStep ==
  ASSUME IInv, TooSmall
  PROVE  IInv' /\ Live' = Live /\ Undisturbed
<1>1. /\ pc = "list" /\ pc' = "list" /\ bp # NULL /\ pos' = pos
      /\ Size(mem, bp) < new_size /\ bp' = SUCC_NODE(mem, bp)
      /\ call' = call /\ new_size' = new_size
      /\ UNCHANGED <<mem, mem_brk, ptr, psize, free_lists, blks>>
  BY DEF TooSmall
<1>2. /\ Up /\ pos < LIST_MAX /\ pos \in 0 .. LIST_MAX - 1 /\ Searchable(pos)
      /\ bp \in Members(pos)
      /\ \A X \in SUBSET Members(pos) :
           ClosedFrom(bp, X) =>
             \A b \in Members(pos) : Size(mem, b) >= new_size => b \in X
  <2>1. pos < LIST_MAX => pos \in 0 .. LIST_MAX - 1
    BY ListAssumption DEF IInv, TypeOK
  <2> QED
    BY <1>1, <2>1 DEF Up, IInv, SearchInv, SeenList
<1>3. StructureInv' /\ OwnerInv' /\ Live' = Live /\ Undisturbed
  <2>1. (Working' /\ call'.op = "realloc") => Needs(ptr[call'.id], call'.size)
    BY <1>1, <1>2 DEF IInv, OwnerInv, Working
  <2> QED
    BY <1>1, <1>2, <2>1, QuietStep
<1>4. bp' \in Members(pos) \union {NULL}
  BY <1>1, <1>2, ExactLists DEF StaysIn
<1>5. ASSUME NEW X \in SUBSET Members(pos), ClosedFrom(bp', X),
             NEW b \in Members(pos), Size(mem, b) >= new_size
      PROVE  b \in X
  <2>1. ClosedFrom(bp, X \union {bp})
    BY <1>1, <1>5 DEF ClosedFrom
  <2>2. X \union {bp} \in SUBSET Members(pos)
    BY <1>2
  <2>3. b \in X \union {bp}
    BY <1>2, <1>5, <2>1, <2>2
  <2>4. b # bp
    <3>1. Size(mem, b) \in Nat /\ new_size \in Nat
      BY <1>2, FreeFacts DEF Members, IInv, TypeOK
    <3> QED
      BY <1>1, <1>5, <3>1
  <2> QED
    BY <2>3, <2>4
<1>6. SearchInv'
  <2>1. /\ Members(pos)' = Members(pos) /\ FreeBlocks' = FreeBlocks
        /\ Searchable(pos)' = Searchable(pos)
    BY <1>1 DEF Members, FreeBlocks, Searchable
  <2>2. \A X : ClosedFrom(bp, X)' <=> ClosedFrom(bp', X)
    BY <1>1 DEF ClosedFrom
  <2>3. SeenList'
    BY <1>1, <1>2, <1>4, <1>5, <2>1, <2>2 DEF SeenList
  <2>4. Seen(pos)'
    BY <1>1, <2>1 DEF IInv, SearchInv, Seen
  <2> QED
    BY <1>1, <2>3, <2>4 DEF SearchInv
<1>7. TypeOK' /\ CallInv'
  <2>1. bp' \in Node
    <3>1. Members(pos) \subseteq blks /\ blks \subseteq Addr
      BY <1>2, FreeFacts, Situation DEF Members
    <3> QED
      BY <1>4, <3>1 DEF Node
  <2> QED
    BY <1>1, <1>2, <2>1 DEF IInv, TypeOK, CallInv, Working
<1> QED
  BY <1>3, <1>6, <1>7 DEF IInv

LEMMA EndStep ==
  ASSUME IInv, EndOfList
  PROVE  IInv' /\ Live' = Live /\ Undisturbed
<1>1. /\ pc = "list" /\ pc' = "scan" /\ bp = NULL /\ pos' = pos + 1
      /\ bp' = bp /\ call' = call /\ new_size' = new_size
      /\ UNCHANGED <<mem, mem_brk, ptr, psize, free_lists, blks>>
  BY DEF EndOfList
<1>2. /\ Up /\ pos < LIST_MAX /\ pos \in 0 .. LIST_MAX - 1
      /\ \A X \in SUBSET Members(pos) :
           ClosedFrom(bp, X) =>
             \A b \in Members(pos) : Size(mem, b) >= new_size => b \in X
  <2>1. pos < LIST_MAX => pos \in 0 .. LIST_MAX - 1
    BY ListAssumption DEF IInv, TypeOK
  <2> QED
    BY <1>1, <2>1 DEF Up, IInv, SearchInv, SeenList
<1>3. StructureInv' /\ OwnerInv' /\ Live' = Live /\ Undisturbed
  <2>1. (Working' /\ call'.op = "realloc") => Needs(ptr[call'.id], call'.size)
    BY <1>1, <1>2 DEF IInv, OwnerInv, Working
  <2> QED
    BY <1>1, <1>2, <2>1, QuietStep
<1>4. Seen(pos + 1)
  <2>1. ClosedFrom(bp, {})
    BY <1>1 DEF ClosedFrom
  <2>2. ASSUME NEW b \in Members(pos)
        PROVE  Size(mem, b) < new_size
    <3>1. ~(Size(mem, b) >= new_size)
      BY <1>2, <2>1
    <3>2. Size(mem, b) \in Nat /\ new_size \in Nat
      BY <1>2, FreeFacts DEF Members, IInv, TypeOK
    <3> QED
      BY <3>1, <3>2
  <2> QED
    BY <1>1, <1>2, <2>2, PassList DEF IInv, SearchInv
<1>5. SearchInv'
  <2>1. FreeBlocks' = FreeBlocks
    BY <1>1 DEF FreeBlocks
  <2>2. Seen(pos)'
    BY <1>1, <1>4, <2>1 DEF Seen
  <2> QED
    BY <1>1, <2>2 DEF SearchInv
<1>6. TypeOK' /\ CallInv'
  <2>1. pos + 1 \in 0 .. LIST_MAX
    BY <1>2, ListAssumption
  <2> QED
    BY <1>1, <1>2, <2>1 DEF IInv, TypeOK, CallInv, Working
<1> QED
  BY <1>3, <1>5, <1>6 DEF IInv

LEMMA NoFitStep ==
  ASSUME IInv, NoFit
  PROVE  IInv' /\ Live' = Live /\ Undisturbed
<1>1. /\ pc = "scan" /\ pc' = "grow" /\ pos = LIST_MAX /\ pos' = pos
      /\ bp' = bp /\ call' = call /\ new_size' = new_size
      /\ UNCHANGED <<mem, mem_brk, ptr, psize, free_lists, blks>>
  BY DEF NoFit
<1>2. StructureInv' /\ OwnerInv' /\ Live' = Live /\ Undisturbed
  <2>1. (Working' /\ call'.op = "realloc") => Needs(ptr[call'.id], call'.size)
    BY <1>1 DEF IInv, OwnerInv, Working, Up
  <2> QED
    BY <1>1, <2>1, QuietStep DEF Up
<1>3. SearchInv'
  BY <1>1 DEF IInv, SearchInv, Seen, FreeBlocks
<1>4. TypeOK' /\ CallInv'
  BY <1>1 DEF IInv, TypeOK, CallInv, Working
<1> QED
  BY <1>2, <1>3, <1>4 DEF IInv

LEMMA GrowFailsStep ==
  ASSUME IInv, GrowFails
  PROVE  /\ IInv' /\ Live' = Live /\ Undisturbed
         /\ pc' = "ret" => bp' = NULL
<1>1. /\ pc = "grow" /\ pc' \in {"crash", "ret"} /\ bp' = NULL /\ pos' = pos
      /\ call' = call /\ new_size' = new_size
      /\ UNCHANGED <<mem, mem_brk, ptr, psize, free_lists, blks>>
  BY DEF GrowFails
<1>2. StructureInv' /\ OwnerInv' /\ Live' = Live /\ Undisturbed
  BY <1>1, QuietStep DEF Up, Working
<1>3. TypeOK' /\ CallInv' /\ SearchInv'
  BY <1>1 DEF IInv, TypeOK, CallInv, SearchInv, Working, Node
<1> QED
  BY <1>1, <1>2, <1>3 DEF IInv

-----------------------------------------------------------------------------
(* The end of a search: a block is placed.                                 *)

(* The heap h of blocks S holds what the present one does. *)
SameBlocks(h, S) ==
  /\ OnlyNew(mem, h.mem) /\ Allocated(h.mem, S) = Allocated(mem, blks)
  /\ Kept(mem, h.mem, Allocated(mem, blks))

LEMMA PlaceStep ==
  ASSUME IInv, pc \in {"list", "grow"},
         NEW h, NEW brk, NEW S, Sound(h, brk, S), SameBlocks(h, S),
         NEW b \in S, b # heap_listp, IsFree(h.mem, b), Size(h.mem, b) >= new_size,
         PlaceAt(h, S, b), mem_brk' = brk,
         UNCHANGED <<ptr, psize, call, new_size, pos>>
  PROVE  IInv' /\ Live' = Live /\ Undisturbed
<1>1. /\ Allocated(mem, blks) = Owned \union {heap_listp}
      /\ \A i \in Live : ptr[i] # heap_listp /\ ptr[i] \in Allocated(mem, blks)
  BY Situation DEF Up
<1>2. /\ call \in Call /\ call.size > 0 /\ new_size = AdjustedSize(call.size)
      /\ call.op = "malloc" <=> ptr[call.id] = NULL
      /\ call.op = "malloc" <=> call.op # "realloc"
      /\ Rounded(new_size)
  <2>1. /\ call \in Call /\ call.size > 0 /\ new_size = AdjustedSize(call.size)
        /\ call.op = "malloc" <=> ptr[call.id] = NULL
    BY DEF IInv, CallInv, Working
  <2>2. Rounded(new_size)
    BY <2>1, RequestSize DEF Call
  <2> QED
    BY <2>1, <2>2 DEF Call
<1>3. PICK r : r = place(h, b, new_size)
  OBVIOUS
<1>4. PICK S2 : S2 = S \union {r.cut}
  OBVIOUS
<1>5. PICK x : x = r.bp
  OBVIOUS
<1>6. PICK h2 : h2 = r.heap
  OBVIOUS
<1>7. /\ SetHeap(h2) /\ blks' = S2 /\ bp' = x
      /\ pc' = IF call.op = "realloc" THEN "move" ELSE "ret"
  BY <1>3, <1>4, <1>5, <1>6 DEF PlaceAt
<1>8. PlaceDone(h, h2, brk, S, S2, x, new_size)
  BY <1>2, <1>3, <1>4, <1>5, <1>6, PlaceSound
<1>9. /\ Sound(h2, brk, S2) /\ OnlyNew(mem, h2.mem)
      /\ Allocated(h2.mem, S2) = Allocated(mem, blks) \union {x}
      /\ Kept(mem, h2.mem, Allocated(mem, blks))
      /\ x \in S2 /\ x # heap_listp /\ x \notin Allocated(mem, blks)
      /\ Size(h2.mem, x) >= new_size
  <2>1. /\ Sound(h2, brk, S2) /\ OnlyNew(h.mem, h2.mem)
        /\ Allocated(h2.mem, S2) = Allocated(h.mem, S) \union {x}
        /\ Kept(h.mem, h2.mem, Allocated(h.mem, S))
        /\ x \in S2 /\ x # heap_listp /\ x \notin Allocated(h.mem, S)
        /\ Size(h2.mem, x) >= new_size
    BY <1>8 DEF PlaceDone
  <2>2. /\ OnlyNew(mem, h.mem) /\ Allocated(h.mem, S) = Allocated(mem, blks)
        /\ Kept(mem, h.mem, Allocated(mem, blks))
    BY DEF SameBlocks
  <2>3. OnlyNew(mem, h2.mem)
    BY <2>1, <2>2, OnlyNewTwice
  <2>4. Kept(mem, h2.mem, Allocated(mem, blks))
    BY <2>1, <2>2, KeptTwice
  <2> QED
    BY <2>1, <2>2, <2>3, <2>4
<1>10. mem' = h2.mem
  BY <1>7 DEF SetHeap
<1>11. /\ Sound(CurrentHeap', mem_brk', blks')
       /\ mem' \in [Addr -> Words] /\ mem_brk' \in mem_start_brk .. mem_max_addr
       /\ free_lists' \in [0 .. LIST_MAX - 1 -> Node] /\ blks' \subseteq Addr
  <2>1. Becomes(h2, brk, S2)
    BY <1>7 DEF Becomes
  <2>2. TypeOK
    BY DEF IInv
  <2> QED
    BY <1>9, <2>1, <2>2, NewHeap
<1>12. x \in Addr /\ x # NULL
  BY <1>9, SoundTypes DEF HeapTypes
<1>13. Live' = Live /\ Owned' = Owned \union {x}
  <2>1. Live = {i \in Ids : ptr[i] # NULL} /\ Live' = {i \in Ids : ptr[i] # NULL}
    BY <1>2, <1>7 DEF Live, Moved
  <2>2. /\ Owned = {ptr[i] : i \in Live}
        /\ Owned' = {ptr'[i] : i \in Live'} \union {x}
    BY <1>7, <1>12 DEF Owned
  <2> QED
    BY <2>1, <2>2
<1>14. TypeOK'
  BY <1>7, <1>11, <1>12 DEF IInv, TypeOK, Words, Node
<1>15. StructureInv'
  BY <1>11 DEF StructureInv
<1>16. OwnerInv'
  <2>1. Allocated(mem', blks') = Owned' \union {heap_listp}
    BY <1>1, <1>7, <1>9, <1>10, <1>13
  <2>2. \A i \in Live : Size(mem', ptr[i]) = Size(mem, ptr[i])
    BY <1>1, <1>9, <1>10 DEF Kept
  <2>3. \A i \in Live' : /\ ptr'[i] # heap_listp
                         /\ Size(mem', ptr'[i]) >= psize'[i] + DSIZE
    BY <1>1, <1>13, <2>2 DEF IInv, OwnerInv, Up
  <2>4. \A i, j \in Live' : i # j => ptr'[i] # ptr'[j]
    BY <1>13 DEF IInv, OwnerInv, Up
  <2>5. bp' # heap_listp /\ Size(mem', bp') >= AdjustedSize(call'.size)
    BY <1>2, <1>7, <1>9, <1>10
  <2>6. \A i \in Live' : ptr'[i] # bp'
    BY <1>1, <1>7, <1>9, <1>13
  <2>7. call.op = "realloc" => Needs(ptr[call.id], call.size)'
    <3>1. call.op = "realloc" => Needs(ptr[call.id], call.size)
      BY DEF IInv, OwnerInv, Up, Working
    <3>2. call.op = "realloc" => call.id \in Live
      BY <1>2 DEF Live, Moved, Call
    <3> QED
      BY <2>2, <3>1, <3>2 DEF Needs
  <2> QED
    BY <2>1, <2>3, <2>4, <2>5, <2>6, <2>7 DEF OwnerInv
<1>17. CallInv' /\ SearchInv'
  <2>1. pc' \in {"move", "ret"} /\ (pc' = "move" => call.op = "realloc")
    BY <1>7
  <2> QED
    BY <1>2, <1>7, <1>12, <2>1 DEF CallInv, SearchInv
<1>18. Undisturbed
  <2>1. Kept(mem, mem', {ptr[i] : i \in Live})
    BY <1>1, <1>9, <1>10 DEF Kept
  <2> QED
    BY <1>13, <2>1 DEF Undisturbed
<1> QED
  BY <1>13, <1>14, <1>15, <1>16, <1>17, <1>18 DEF IInv

LEMMA TakeFitStep ==
  ASSUME IInv, TakeFit
  PROVE  IInv' /\ Live' = Live /\ Undisturbed
<1>1. /\ pc = "list" /\ bp # NULL /\ Size(mem, bp) >= new_size
      /\ PlaceAt(CurrentHeap, blks, bp)
      /\ mem_brk' = mem_brk /\ UNCHANGED <<ptr, psize, call, new_size, pos>>
  BY DEF TakeFit
<1>2. PICK h : h = CurrentHeap
  OBVIOUS
<1>3. Sound(h, mem_brk, blks) /\ h.mem = mem
  BY <1>1, <1>2, Situation DEF Up
<1>4. bp \in blks /\ bp # heap_listp /\ IsFree(mem, bp)
  <2>1. bp \in FreeBlocks
    BY <1>1 DEF IInv, SearchInv, SeenList, Members
  <2> QED
    BY <1>1, <2>1, FreeFacts DEF FreeBlocks, Up
<1>5. SameBlocks(h, blks)
  BY <1>3 DEF SameBlocks, OnlyNew, Kept
<1>6. PlaceAt(h, blks, bp)
  BY <1>1, <1>2
<1> QED
  BY <1>1, <1>3, <1>4, <1>5, <1>6, PlaceStep

(* extend_heap asks for a rounded number of bytes, which fits in an int    *)
(* unless mem_sbrk refuses it, and the break does not wrap.                *)
LEMMA Sbrk ==
  ASSUME IInv, NEW need \in Nat, need % 8 = 0, need > 0,
         need + mem_max_addr < UINT_MOD, ~GrowthFails(need)
  PROVE  /\ MovesBreak(mem_brk, GrowSize(need), mem_brk + GrowSize(need))
         /\ GrowSize(need) >= need
         /\ SbrkBreak(mem_brk, ToInt(GrowSize(need))) = mem_brk + GrowSize(need)
<1>1. mem_brk \in Nat /\ mem_brk <= mem_max_addr
  BY ArenaAssumption DEF IInv, TypeOK, mem_max_addr
<1>2. PICK size : size = GrowSize(need)
  OBVIOUS
<1>3. size = ExtendSize((IF need > CHUNKSIZE THEN need ELSE CHUNKSIZE) \div WSIZE)
  BY <1>2 DEF GrowSize
<1>4. ~SbrkFails(mem_brk, ToInt(size))
  BY <1>2 DEF GrowthFails
<1>5. /\ MovesBreak(mem_brk, size, mem_brk + size) /\ size >= need
      /\ SbrkBreak(mem_brk, ToInt(size)) = mem_brk + size
  BY <1>1, <1>3, <1>4, GrowthMoves
<1> QED
  BY <1>2, <1>5

LEMMA GrowStep ==
  ASSUME IInv, Grow
  PROVE  /\ IInv' /\ Live' = Live /\ Undisturbed
         /\ mem_brk' \in mem_brk + 1 .. mem_max_addr
<1>1. PICK size : size = GrowSize(new_size)
  OBVIOUS
<1>2. PICK h : h = CurrentHeap
  OBVIOUS
<1>3. PICK r : r = extend_heap(h, mem_brk, size)
  OBVIOUS
<1>4. PICK S : S = Absorbed(blks \union {mem_brk}, r.heap.mem, r.bp)
  OBVIOUS
<1>5. PICK brk : brk = mem_brk + size
  OBVIOUS
<1>6. PICK h2 : h2 = r.heap
  OBVIOUS
<1>7. PICK b : b = r.bp
  OBVIOUS
<1>8. /\ pc = "grow" /\ ~GrowthFails(new_size)
      /\ mem_brk' = SbrkBreak(mem_brk, ToInt(size))
      /\ PlaceAt(h2, S, b)
      /\ UNCHANGED <<ptr, psize, call, new_size, pos>>
  BY <1>1, <1>2, <1>3, <1>4, <1>6, <1>7 DEF Grow
<1>9. Rounded(new_size) /\ new_size + mem_max_addr < UINT_MOD
  <2>1. call \in Call /\ call.size > 0 /\ new_size = AdjustedSize(call.size)
    BY <1>8 DEF IInv, CallInv, Working
  <2> QED
    BY <2>1, RequestSize DEF Call
<1>10. MovesBreak(mem_brk, size, brk) /\ size >= new_size /\ mem_brk' = brk
  <2>1. new_size \in Nat /\ new_size % 8 = 0 /\ new_size > 0
    BY <1>9 DEF Rounded
  <2> QED
    BY <1>1, <1>5, <1>8, <1>9, <2>1, Sbrk
<1>11. Sound(h, mem_brk, blks) /\ h.mem = mem
  BY <1>2, <1>8, Situation DEF Up
<1>12. GrowDone(h, r, mem_brk, blks, S, size, brk)
  BY <1>3, <1>4, <1>10, <1>11, GrowSound
<1>13. /\ Sound(h2, brk, S) /\ SameBlocks(h2, S)
       /\ b \in S /\ b # heap_listp /\ IsFree(h2.mem, b)
       /\ Size(h2.mem, b) >= size
  BY <1>6, <1>7, <1>11, <1>12 DEF GrowDone, SameBlocks
<1>14. Size(h2.mem, b) >= new_size
  <2>1. Size(h2.mem, b) \in Int
    BY <1>13, BlockFacts DEF Sound, Heap
  <2> QED
    BY <1>9, <1>10, <1>13, <2>1 DEF Rounded, MovesBreak
<1>15. IInv' /\ Live' = Live /\ Undisturbed
  BY <1>8, <1>10, <1>13, <1>14, PlaceStep
<1>16. mem_brk' \in mem_brk + 1 .. mem_max_addr
  <2>1. mem_brk \in Int /\ mem_max_addr \in Int
    BY ArenaAssumption DEF IInv, TypeOK, mem_max_addr
  <2> QED
    BY <1>10, <2>1 DEF MovesBreak, Rounded
<1> QED
  BY <1>15, <1>16

-----------------------------------------------------------------------------
(* mm_init, and the calls that do not search.                              *)

LEMMA InitStep ==
  ASSUME IInv, mm_init
  PROVE  IInv' /\ Live' = {}
<1>1. PICK h : h = Empty(CurrentHeap)
  OBVIOUS
<1>2. PICK brk : brk = mem_start_brk + 4 * WSIZE
  OBVIOUS
<1>3. PICK size : size = ExtendSize(CHUNKSIZE \div WSIZE)
  OBVIOUS
<1>4. PICK r : r = extend_heap(h, brk, size)
  OBVIOUS
<1>5. PICK S : S = {heap_listp}
  OBVIOUS
<1>6. PICK S2 : S2 = Absorbed(S \union {brk}, r.heap.mem, r.bp)
  OBVIOUS
<1>7. PICK brk2 : brk2 = brk + size
  OBVIOUS
<1>8. PICK h2 : h2 = r.heap
  OBVIOUS
<1>9. /\ pc \in {"down", "idle"} /\ pc' = "idle"
      /\ mem_brk' = SbrkBreak(brk, size) /\ SetHeap(h2) /\ blks' = S2
      /\ ptr' = [i \in Ids |-> NULL] /\ psize' = [i \in Ids |-> 0]
      /\ UNCHANGED <<call, bp, new_size, pos>>
  <2>1. {heap_listp, brk} = S \union {brk}
    BY <1>5
  <2> QED
    BY <1>1, <1>2, <1>3, <1>4, <1>6, <1>8, <2>1 DEF mm_init, InitOver, ClientReset
<1>10. brk = heap_listp + 8
  BY <1>2, ArenaAssumption DEF heap_listp, WSIZE
<1>11. MovesBreak(brk, size, brk2) /\ mem_brk' = brk2
  <2>1. size = CHUNKSIZE
    BY <1>3, ChunkAssumption DEF ExtendSize, WSIZE, DSIZE
  <2>2. Rounded(size)
    BY <2>1, ChunkAssumption DEF Rounded, DSIZE
  <2>3. /\ brk \in Int /\ brk2 \in Int /\ brk2 <= mem_max_addr
        /\ mem_max_addr \in Int /\ mem_max_addr < UINT_MOD /\ UINT_MOD \in Int
    BY <1>2, <1>7, <2>1, ArenaAssumption, ChunkAssumption
    DEF mem_max_addr, UINT_MOD, WSIZE
  <2>4. mem_brk' = brk2
    BY <1>7, <1>9, <2>3 DEF SbrkBreak, Wrap
  <2> QED
    BY <1>7, <2>2, <2>3, <2>4 DEF MovesBreak
<1>12. /\ Sound(h, brk, S) /\ OnlyNew(mem, h.mem) /\ Allocated(h.mem, S) = {heap_listp}
  <2>1. TypeOK
    BY DEF IInv
  <2>2. Record(CurrentHeap) /\ CurrentHeap.mem = mem
    BY <2>1, CurrentRecord
  <2>3. PICK h0 : h0 = CurrentHeap
    OBVIOUS
  <2>4. Record(h0) /\ h = Empty(h0) /\ h0.mem = mem
    BY <1>1, <2>2, <2>3
  <2>5. /\ Sound(h, heap_listp + 8, {heap_listp}) /\ OnlyNew(h0.mem, h.mem)
        /\ Allocated(h.mem, {heap_listp}) = {heap_listp}
    BY <2>4, EmptySound
  <2> QED
    BY <1>5, <1>10, <2>4, <2>5
<1>13. GrowDone(h, r, brk, S, S2, size, brk2)
  BY <1>4, <1>6, <1>11, <1>12, GrowSound
<1>14. /\ Sound(h2, brk2, S2) /\ OnlyNew(mem, h2.mem)
       /\ Allocated(h2.mem, S2) = {heap_listp}
  <2>1. /\ Sound(h2, brk2, S2) /\ OnlyNew(h.mem, h2.mem)
        /\ Allocated(h2.mem, S2) = Allocated(h.mem, S)
    BY <1>8, <1>13 DEF GrowDone
  <2> QED
    BY <1>12, <2>1, OnlyNewTwice
<1>15. /\ Sound(CurrentHeap', mem_brk', blks')
       /\ mem' \in [Addr -> Words] /\ mem_brk' \in mem_start_brk .. mem_max_addr
       /\ free_lists' \in [0 .. LIST_MAX - 1 -> Node] /\ blks' \subseteq Addr
  <2>1. Becomes(h2, brk2, S2)
    BY <1>9, <1>11 DEF Becomes
  <2>2. TypeOK
    BY DEF IInv
  <2> QED
    BY <1>14, <2>1, <2>2, NewHeap
<1>16. Live' = {} /\ Owned' = {}
  <2>1. Live' = {}
    BY <1>9 DEF Live
  <2> QED
    BY <1>9, <2>1 DEF Owned
<1>17. TypeOK'
  BY <1>9, <1>15 DEF IInv, TypeOK, Words, Node
<1>18. StructureInv'
  BY <1>15 DEF StructureInv
<1>19. OwnerInv'
  BY <1>9, <1>14, <1>16 DEF OwnerInv, SetHeap, Working
<1>20. CallInv' /\ SearchInv'
  BY <1>9 DEF IInv, CallInv, SearchInv, Working
<1> QED
  BY <1>16, <1>17, <1>18, <1>19, <1>20 DEF IInv

LEMMA FreeStep ==
  ASSUME IInv, NEW i \in Ids, CallFree(i)
  PROVE  IInv' /\ Undisturbed
<1>1. PICK h : h = CurrentHeap
  OBVIOUS
<1>2. PICK p : p = ptr[i]
  OBVIOUS
<1>3. PICK r : r = mm_free(h, p)
  OBVIOUS
<1>4. PICK S2 : S2 = Absorbed(blks, r.heap.mem, r.bp)
  OBVIOUS
<1>5. PICK h2 : h2 = r.heap
  OBVIOUS
<1>6. /\ pc = "idle" /\ p # NULL /\ SetHeap(h2) /\ blks' = S2
      /\ ptr' = [ptr EXCEPT ![i] = NULL] /\ psize' = [psize EXCEPT ![i] = 0]
      /\ UNCHANGED <<mem_brk, pc, call, bp, new_size, pos>>
  BY <1>1, <1>2, <1>3, <1>4, <1>5 DEF CallFree
<1>7. /\ Sound(h, mem_brk, blks) /\ h.mem = mem
      /\ Allocated(mem, blks) = Owned \union {heap_listp}
      /\ \A j \in Live : /\ ptr[j] \in blks /\ ptr[j] # heap_listp
                         /\ ptr[j] \in Allocated(mem, blks)
  BY <1>1, <1>6, Situation DEF Up
<1>8. /\ Live = {j \in Ids : ptr[j] # NULL} /\ i \in Live
      /\ Live' = Live \ {i}
      /\ Owned = {ptr[j] : j \in Live} /\ Owned' = {ptr[j] : j \in Live'}
      /\ \A j \in Live' : ptr'[j] = ptr[j] /\ psize'[j] = psize[j]
  <2>1. Live = {j \in Ids : ptr[j] # NULL} /\ i \in Live
    BY <1>2, <1>6 DEF Live, Moved
  <2>2. ptr \in [Ids -> Node] /\ psize \in [Ids -> Nat]
    BY DEF IInv, TypeOK
  <2>3. Live' = {j \in Ids : ptr'[j] # NULL}
    BY <1>6 DEF Live, Moved
  <2>4. Live' = Live \ {i}
    BY <1>6, <2>1, <2>2, <2>3
  <2>5. \A j \in Live' : ptr'[j] = ptr[j] /\ psize'[j] = psize[j]
    BY <1>6, <2>1, <2>2, <2>4
  <2>6. Owned = {ptr[j] : j \in Live} /\ Owned' = {ptr'[j] : j \in Live'}
    BY <1>6 DEF Owned
  <2> QED
    BY <2>1, <2>4, <2>5, <2>6
<1>9. /\ Sound(h2, mem_brk, S2) /\ OnlyNew(mem, h2.mem)
      /\ Allocated(h2.mem, S2) = Allocated(mem, blks) \ {p}
      /\ Kept(mem, h2.mem, Allocated(mem, blks) \ {p})
  <2>1. p \in blks /\ p # heap_listp /\ ~IsFree(h.mem, p)
    BY <1>2, <1>7, <1>8 DEF Allocated
  <2>2. /\ Sound(r.heap, mem_brk, S2) /\ OnlyNew(h.mem, r.heap.mem)
        /\ Allocated(r.heap.mem, S2) = Allocated(h.mem, blks) \ {p}
        /\ Kept(h.mem, r.heap.mem, Allocated(h.mem, blks) \ {p})
    BY <1>3, <1>4, <1>7, <2>1, FreeSound
  <2> QED
    BY <1>5, <1>7, <2>2
<1>10. /\ Sound(CurrentHeap', mem_brk', blks')
       /\ mem' \in [Addr -> Words] /\ mem_brk' \in mem_start_brk .. mem_max_addr
       /\ free_lists' \in [0 .. LIST_MAX - 1 -> Node] /\ blks' \subseteq Addr
  <2>1. Becomes(h2, mem_brk, S2)
    BY <1>6 DEF Becomes
  <2>2. TypeOK
    BY DEF IInv
  <2> QED
    BY <1>9, <2>1, <2>2, NewHeap
<1>11. mem' = h2.mem
  BY <1>6 DEF SetHeap
<1>12. TypeOK'
  BY <1>6, <1>10 DEF IInv, TypeOK, Words, Node
<1>13. StructureInv'
  BY <1>10 DEF StructureInv
<1>14. OwnerInv'
  <2>1. \A j, k \in Live : j # k => ptr[j] # ptr[k]
    BY <1>6 DEF IInv, OwnerInv, Up
  <2>2. Owned' = Owned \ {p}
    BY <1>2, <1>8, <2>1
  <2>3. Allocated(mem', blks') = Owned' \union {heap_listp}
    BY <1>2, <1>6, <1>7, <1>8, <1>9, <1>11, <2>2
  <2>4. \A j \in Live' : ptr[j] \in Allocated(mem, blks) \ {p}
    BY <1>2, <1>7, <1>8, <2>1
  <2>5. \A j \in Live' : Size(mem', ptr[j]) = Size(mem, ptr[j])
    BY <1>9, <1>11, <2>4 DEF Kept
  <2>6. \A j \in Live' : /\ ptr'[j] # heap_listp
                         /\ Size(mem', ptr'[j]) >= psize'[j] + DSIZE
    BY <1>6, <1>8, <2>5 DEF IInv, OwnerInv, Up
  <2> QED
    BY <1>6, <1>8, <2>1, <2>3, <2>6 DEF OwnerInv, Working
<1>15. CallInv' /\ SearchInv'
  BY <1>6 DEF IInv, CallInv, SearchInv, Working
<1>16. Undisturbed
  <2>1. Live \cap Live' = Live'
    BY <1>8
  <2>2. \A j \in Live' : ptr[j] \in Allocated(mem, blks) \ {p}
    BY <1>2, <1>6, <1>7, <1>8 DEF IInv, OwnerInv, Up
  <2>3. Kept(mem, mem', {ptr[j] : j \in Live'})
    BY <1>9, <1>11, <2>2 DEF Kept
  <2> QED
    BY <1>8, <2>1, <2>3 DEF Undisturbed
<1> QED
  BY <1>12, <1>13, <1>14, <1>15, <1>16 DEF IInv

-----------------------------------------------------------------------------
(* mm_realloc without a copy.                                              *)

(* The two halves of PayloadsIntact. *)
LiveData    == \A i \in Live : Holds(mem, ptr[i], psize[i], i)
ReallocData ==
  (pc = "ret" /\ bp # NULL /\ call.op = "realloc") => Holds(mem, bp, KeptSize, call.id)

(* The heap h2 of blocks S2 has the block p, which has n bytes or more, at *)
(* its old place with its old contents, and all else that is allocated.    *)
Stretched(h2, S2, p, n) ==
  /\ OnlyNew(mem, h2.mem) /\ Allocated(h2.mem, S2) = Allocated(mem, blks)
  /\ Kept(mem, h2.mem, Allocated(mem, blks) \ {p})
  /\ SamePayload(mem, h2.mem, p) /\ Size(h2.mem, p) >= n

LEMMA InPlaceStep ==
  ASSUME IInv, NEW i \in Ids, NEW size \in Sizes, Realloc(i, size),
         bp' = ptr[i], pc' = "ret",
         NEW h2, NEW brk2, NEW S2, Becomes(h2, brk2, S2), Sound(h2, brk2, S2),
         Stretched(h2, S2, ptr[i], AdjustedSize(size))
  PROVE  /\ IInv' /\ Undisturbed /\ Live' \subseteq Live
         /\ LiveData => ReallocData'
<1>1. PICK p : p = ptr[i]
  OBVIOUS
<1>2. /\ pc = "idle" /\ p # NULL /\ size > 0 /\ bp' = p /\ pc' = "ret"
      /\ call' = Request("realloc", i, size) /\ mem' = h2.mem /\ blks' = S2
      /\ UNCHANGED <<ptr, psize, new_size, pos>>
  BY <1>1 DEF Realloc, Becomes, SetHeap
<1>3. /\ call' \in Call /\ call'.op = "realloc" /\ call'.id = i /\ call'.size = size
      /\ call'.op # "malloc"
  BY <1>2 DEF Request, Call
<1>4. /\ Allocated(mem, blks) = Owned \union {heap_listp}
      /\ \A j \in Live : /\ ptr[j] \in blks /\ ptr[j] # heap_listp
                         /\ ptr[j] \in Allocated(mem, blks)
      /\ Tiled(mem, mem_brk, blks)
  BY <1>2, Situation DEF Up, Heap
<1>5. /\ Live = {j \in Ids : ptr[j] # NULL} /\ i \in Live /\ Live' = Live \ {i}
      /\ Owned = {ptr[j] : j \in Live} /\ Owned' = {ptr[j] : j \in Live'} \union {p}
      /\ \A j, k \in Live : j # k => ptr[j] # ptr[k]
  <2>1. Live = {j \in Ids : ptr[j] # NULL} /\ i \in Live
    BY <1>1, <1>2 DEF Live, Moved
  <2>2. Live' = {j \in Ids : ptr[j] # NULL /\ i # j}
    BY <1>2, <1>3 DEF Live, Moved
  <2>3. Owned = {ptr[j] : j \in Live} /\ Owned' = {ptr[j] : j \in Live'} \union {p}
    BY <1>2 DEF Owned
  <2>4. \A j, k \in Live : j # k => ptr[j] # ptr[k]
    BY <1>2 DEF IInv, OwnerInv, Up
  <2> QED
    BY <2>1, <2>2, <2>3, <2>4
<1>6. /\ OnlyNew(mem, h2.mem) /\ Allocated(h2.mem, S2) = Allocated(mem, blks)
      /\ Kept(mem, h2.mem, Allocated(mem, blks) \ {p})
      /\ SamePayload(mem, h2.mem, p) /\ Size(h2.mem, p) >= AdjustedSize(size)
  BY <1>1 DEF Stretched
<1>7. /\ Sound(CurrentHeap', mem_brk', blks')
      /\ mem' \in [Addr -> Words] /\ mem_brk' \in mem_start_brk .. mem_max_addr
      /\ free_lists' \in [0 .. LIST_MAX - 1 -> Node] /\ blks' \subseteq Addr
  <2>1. TypeOK
    BY DEF IInv
  <2> QED
    BY <1>6, <2>1, NewHeap
<1>8. Owned' = Owned
  BY <1>1, <1>5
<1>9. \A j \in Live' : ptr[j] \in Allocated(mem, blks) \ {p}
  BY <1>1, <1>4, <1>5
<1>10. TypeOK'
  <2>1. p \in Node
    BY <1>1 DEF IInv, TypeOK
  <2> QED
    BY <1>2, <1>3, <1>7, <2>1 DEF IInv, TypeOK, Words
<1>11. StructureInv'
  BY <1>7 DEF StructureInv
<1>12. OwnerInv'
  <2>1. Allocated(mem', blks') = Owned' \union {heap_listp}
    BY <1>2, <1>4, <1>6, <1>8
  <2>2. \A j \in Live' : Size(mem', ptr[j]) = Size(mem, ptr[j])
    BY <1>2, <1>6, <1>9 DEF Kept
  <2>3. \A j \in Live' : /\ ptr'[j] # heap_listp
                         /\ Size(mem', ptr'[j]) >= psize'[j] + DSIZE
    BY <1>2, <1>5, <2>2 DEF IInv, OwnerInv, Up
  <2>4. \A j, k \in Live' : j # k => ptr'[j] # ptr'[k]
    BY <1>2, <1>5
  <2>5. p # heap_listp /\ Size(mem', p) >= AdjustedSize(call'.size)
    BY <1>1, <1>2, <1>3, <1>4, <1>5, <1>6
  <2>6. \A j \in Live' : ptr'[j] # p
    BY <1>2, <1>9
  <2> QED
    BY <1>2, <2>1, <2>3, <2>4, <2>5, <2>6 DEF OwnerInv, Working
<1>13. CallInv' /\ SearchInv'
  BY <1>1, <1>2, <1>3 DEF CallInv, SearchInv, Working
<1>14. Undisturbed
  <2>1. Live \cap Live' = Live'
    BY <1>5
  <2>2. Kept(mem, mem', {ptr[j] : j \in Live'})
    BY <1>2, <1>6, <1>9 DEF Kept
  <2> QED
    BY <1>2, <2>1, <2>2 DEF Undisturbed
<1>15. ASSUME LiveData
       PROVE  ReallocData'
  <2>1. PICK n : n = KeptSize'
    OBVIOUS
  <2>2. PICK k : k = psize[i]
    OBVIOUS
  <2>3. n = IF size < k THEN size ELSE k
    BY <1>2, <1>3, <2>1, <2>2 DEF KeptSize
  <2>4. size \in Nat /\ k \in Nat
    BY <2>2, SizesAssumption DEF IInv, TypeOK
  <2>5. Holds(mem, p, k, i) /\ Size(mem, p) >= k + DSIZE
    BY <1>1, <1>2, <1>5, <1>15, <2>2 DEF LiveData, IInv, OwnerInv, Up
  <2>6. p \in Int /\ Size(mem, p) \in Int
    BY <1>1, <1>4, <1>5, BlockFacts
  <2>7. Holds(h2.mem, p, n, i)
    <3> SUFFICES ASSUME NEW a \in Addr, p <= a, a < p + n
                 PROVE  h2.mem[a] = i
      BY DEF Holds
    <3>1. a \in Int
      BY ArenaAssumption DEF Addr, mem_max_addr
    <3>2. a < p + k /\ a < p + Size(mem, p) - DSIZE
      BY <2>3, <2>4, <2>5, <2>6, <3>1 DEF DSIZE
    <3>3. h2.mem[a] = mem[a]
      BY <1>6, <3>2 DEF SamePayload
    <3> QED
      BY <2>5, <3>2, <3>3 DEF Holds
  <2> QED
    BY <1>2, <1>3, <2>1, <2>7 DEF ReallocData
<1> QED
  BY <1>5, <1>10, <1>11, <1>12, <1>13, <1>14, <1>15 DEF IInv

(* The block of an id that is to be reallocated, and the one behind it.    *)
LEMMA Grown ==
  ASSUME IInv, NEW i \in Ids, NEW size \in Sizes, Realloc(i, size)
  PROVE  /\ ptr[i] \in blks /\ ptr[i] # heap_listp /\ ~IsFree(mem, ptr[i])
         /\ ptr[i] \in Allocated(mem, blks) /\ ptr[i] \in Int
         /\ Sound(CurrentHeap, mem_brk, blks) /\ CurrentHeap.mem = mem
         /\ Tiled(mem, mem_brk, blks)
         /\ Size(mem, ptr[i]) \in Nat /\ Size(mem, ptr[i]) % 8 = 0
         /\ Rounded(AdjustedSize(size)) /\ AdjustedSize(size) + mem_max_addr < UINT_MOD
<1>1. pc = "idle" /\ ptr[i] # NULL /\ size > 0
  BY DEF Realloc
<1>2. i \in Live
  BY <1>1 DEF Live, Moved
<1>3. /\ ptr[i] \in blks /\ ptr[i] # heap_listp /\ ptr[i] \in Allocated(mem, blks)
      /\ Sound(CurrentHeap, mem_brk, blks) /\ CurrentHeap.mem = mem
      /\ Tiled(mem, mem_brk, blks)
  BY <1>1, <1>2, Situation DEF Up, Heap
<1>4. /\ ptr[i] \in Int /\ Size(mem, ptr[i]) \in Nat /\ Size(mem, ptr[i]) % 8 = 0
  BY <1>3, BlockFacts
<1>5. /\ Rounded(AdjustedSize(size)) /\ AdjustedSize(size) + mem_max_addr < UINT_MOD
  BY <1>1, RequestSize
<1> QED
  BY <1>3, <1>4, <1>5 DEF Allocated

(* The next block is the epilogue or a free one. *)
LEMMA Behind ==
  ASSUME IInv, NEW i \in Ids, NEW size \in Sizes, Realloc(i, size),
         NextUsable(ptr[i]),
         NEW q, q = NEXT_BLKP(mem, ptr[i])
  PROVE  /\ EndsAt(mem, ptr[i], q)
         /\ \/ q = mem_brk /\ Available(ptr[i]) = Size(mem, ptr[i])
            \/ /\ q \in blks /\ IsFree(mem, q)
               /\ Available(ptr[i]) = Size(mem, ptr[i]) + Size(mem, q)
               /\ Size(mem, q) \in Nat /\ Size(mem, q) % 8 = 0
<1>1. PICK p : p = ptr[i]
  OBVIOUS
<1>2. /\ p \in blks /\ p # heap_listp /\ Tiled(mem, mem_brk, blks)
      /\ Size(mem, p) \in Nat
  BY <1>1, Grown
<1>3. q = p + Size(mem, p) /\ q \in blks \union {mem_brk}
  BY <1>1, <1>2, Neighbours
<1>4. Available(p) = Size(mem, p) + Size(mem, q)
  BY <1>1 DEF Available
<1>5. CASE q = mem_brk
  <2>1. mem[mem_brk - 4] = [size |-> 0, alloc |-> 1]
    BY <1>2, HeapFacts
  <2>2. Size(mem, q) = 0
    BY <1>5, <2>1 DEF Size, GET_SIZE, HDRP, WSIZE
  <2> QED
    BY <1>1, <1>2, <1>3, <1>4, <1>5, <2>2 DEF EndsAt
<1>6. CASE q \in blks
  <2>1. Size(mem, q) \in Nat /\ Size(mem, q) >= 8 /\ Size(mem, q) % 8 = 0
    BY <1>2, <1>6, BlockFacts
  <2>2. IsFree(mem, q)
    BY <1>1, <2>1 DEF NextUsable
  <2> QED
    BY <1>1, <1>3, <1>4, <1>6, <2>1, <2>2 DEF EndsAt
<1> QED
  BY <1>3, <1>5, <1>6

LEMMA KeepStep ==
  ASSUME IInv, NEW i \in Ids, NEW size \in Sizes, ReallocKeep(i, size)
  PROVE  /\ IInv' /\ Undisturbed /\ Live' \subseteq Live
         /\ LiveData => ReallocData'
<1>1. PICK h : h = CurrentHeap
  OBVIOUS
<1>2. /\ Realloc(i, size) /\ ~Needs(ptr[i], size) /\ bp' = ptr[i] /\ pc' = "ret"
      /\ UNCHANGED <<mem, mem_brk, free_lists, blks>>
  BY DEF ReallocKeep
<1>3. /\ Sound(h, mem_brk, blks) /\ h.mem = mem
      /\ Size(mem, ptr[i]) >= AdjustedSize(size)
  <2>1. Sound(h, mem_brk, blks) /\ h.mem = mem
    BY <1>1, <1>2, Grown
  <2>2. Size(mem, ptr[i]) \in Nat /\ Rounded(AdjustedSize(size))
    BY <1>2, Grown
  <2> QED
    BY <1>2, <2>1, <2>2 DEF Needs, Rounded
<1>4. Becomes(h, mem_brk, blks)
  BY <1>1, <1>2 DEF Becomes, SetHeap, CurrentHeap
<1>5. Stretched(h, blks, ptr[i], AdjustedSize(size))
  BY <1>3 DEF Stretched, OnlyNew, Kept, SamePayload
<1> QED
  BY <1>2, <1>3, <1>4, <1>5, InPlaceStep

LEMMA MergeStep ==
  ASSUME IInv, NEW i \in Ids, NEW size \in Sizes, ReallocMerge(i, size)
  PROVE  /\ IInv' /\ Undisturbed /\ Live' \subseteq Live
         /\ LiveData => ReallocData'
<1>1. PICK p : p = ptr[i]
  OBVIOUS
<1>2. PICK h : h = CurrentHeap
  OBVIOUS
<1>3. PICK n : n = Available(p)
  OBVIOUS
<1>4. PICK h2 : h2 = TakeOver(h, p, n)
  OBVIOUS
<1>5. PICK S2 : S2 = Absorbed(blks, h2.mem, p)
  OBVIOUS
<1>6. PICK q : q = NEXT_BLKP(mem, p)
  OBVIOUS
<1>7. /\ Realloc(i, size) /\ Needs(p, size) /\ NextUsable(p) /\ n >= AdjustedSize(size)
      /\ SetHeap(h2) /\ blks' = S2 /\ bp' = p /\ pc' = "ret" /\ mem_brk' = mem_brk
  BY <1>1, <1>2, <1>3, <1>4, <1>5 DEF ReallocMerge
<1>8. /\ p \in blks /\ p # heap_listp /\ ~IsFree(h.mem, p)
      /\ Sound(h, mem_brk, blks) /\ h.mem = mem
      /\ Size(mem, p) \in Nat /\ Rounded(AdjustedSize(size))
  <2>1. /\ p \in blks /\ p # heap_listp /\ ~IsFree(mem, p)
        /\ Size(mem, p) \in Nat /\ Rounded(AdjustedSize(size))
    BY <1>1, <1>7, Grown
  <2>2. Sound(h, mem_brk, blks) /\ h.mem = mem
    BY <1>2, <1>7, Grown
  <2> QED
    BY <2>1, <2>2
<1>9. /\ EndsAt(h.mem, p, q) /\ q \in blks /\ IsFree(h.mem, q)
      /\ n = Size(h.mem, p) + Size(h.mem, q)
  <2>1. ~(n = Size(mem, p))
    BY <1>7, <1>8 DEF Needs, Rounded
  <2> QED
    BY <1>1, <1>3, <1>6, <1>7, <1>8, <2>1, Behind
<1>10. TakenOver(h, h2, mem_brk, blks, S2, p, n)
  BY <1>4, <1>5, <1>8, <1>9, TakeOverSound
<1>11. Sound(h2, mem_brk, S2) /\ Stretched(h2, S2, p, AdjustedSize(size))
  BY <1>7, <1>8, <1>10 DEF TakenOver, Stretched, SameAllocated
<1>12. Becomes(h2, mem_brk, S2)
  BY <1>7 DEF Becomes
<1> QED
  BY <1>1, <1>7, <1>11, <1>12, InPlaceStep

(* mm_realloc of id i extends the heap by g bytes: h1 is then the heap, of *)
(* the blocks S, and the block p is to have n bytes.                       *)
Extending(i, size, p, need, g, brk, r, h1, S, n) ==
  /\ p = ptr[i] /\ need = AdjustedSize(size) - Available(p)
  /\ g = GrowSize(need) /\ brk = mem_brk + g
  /\ r = extend_heap(CurrentHeap, mem_brk, g) /\ h1 = r.heap
  /\ S = Absorbed(blks \union {mem_brk}, r.heap.mem, r.bp)
  /\ n = Available(p) + g

(* p stays where it was, with the extended block, which is free, right     *)
(* behind it.                                                              *)
LEMMA ExtendedBehind ==
  ASSUME IInv, NEW i \in Ids, NEW size \in Sizes, ReallocExtendLast(i, size),
         NEW p, NEW need, NEW g, NEW brk, NEW r, NEW h1, NEW S, NEW n,
         Extending(i, size, p, need, g, brk, r, h1, S, n)
  PROVE  /\ MovesBreak(mem_brk, g, brk) /\ mem_brk' = brk
         /\ brk \in mem_brk + 1 .. mem_max_addr
         /\ Sound(h1, brk, S) /\ OnlyNew(mem, h1.mem)
         /\ Allocated(h1.mem, S) = Allocated(mem, blks)
         /\ Kept(mem, h1.mem, Allocated(mem, blks))
         /\ p \in S /\ p # heap_listp /\ ~IsFree(h1.mem, p)
         /\ SamePayload(mem, h1.mem, p) /\ Size(h1.mem, p) = Size(mem, p)
         /\ r.bp \in S /\ IsFree(h1.mem, r.bp) /\ EndsAt(h1.mem, p, r.bp)
         /\ n = Size(h1.mem, p) + Size(h1.mem, r.bp) /\ n >= AdjustedSize(size)
<1>1. PICK h : h = CurrentHeap
  OBVIOUS
<1>2. PICK q : q = NEXT_BLKP(mem, p)
  OBVIOUS
<1>3. /\ Realloc(i, size) /\ NextUsable(p) /\ need > 0
       /\ ~GrowthFails(need) /\ mem_brk' = SbrkBreak(mem_brk, ToInt(g))
       /\ p + Available(p) = mem_brk
  BY DEF ReallocExtendLast, ReallocExtend, AtEnd, Extending
<1>4. /\ p = ptr[i] /\ g = GrowSize(need) /\ h1 = r.heap
       /\ r = extend_heap(h, mem_brk, g)
       /\ S = Absorbed(blks \union {mem_brk}, r.heap.mem, r.bp)
  BY <1>1 DEF Extending
<1>5. /\ p \in blks /\ p # heap_listp /\ ~IsFree(mem, p) /\ p \in Allocated(mem, blks)
       /\ p \in Int /\ Sound(h, mem_brk, blks) /\ h.mem = mem
       /\ Size(mem, p) \in Nat /\ Size(mem, p) % 8 = 0
       /\ Rounded(AdjustedSize(size)) /\ AdjustedSize(size) + mem_max_addr < UINT_MOD
  <2>1. /\ p \in blks /\ p # heap_listp /\ ~IsFree(mem, p) /\ p \in Allocated(mem, blks)
        /\ p \in Int /\ Size(mem, p) \in Nat /\ Size(mem, p) % 8 = 0
        /\ Rounded(AdjustedSize(size)) /\ AdjustedSize(size) + mem_max_addr < UINT_MOD
    BY <1>3, <1>4, Grown
  <2>2. Sound(h, mem_brk, blks) /\ h.mem = mem
    BY <1>1, <1>3, <1>4, Grown
  <2> QED
    BY <2>1, <2>2
<1>6. /\ EndsAt(mem, p, q)
       /\ \/ q = mem_brk /\ Available(p) = Size(mem, p)
          \/ /\ q \in blks /\ IsFree(mem, q)
             /\ Available(p) = Size(mem, p) + Size(mem, q)
             /\ Size(mem, q) \in Nat /\ Size(mem, q) % 8 = 0
  BY <1>2, <1>3, <1>4, Behind
<1>7. PICK av : av = Available(p)
  OBVIOUS
<1>8. av \in Nat /\ av % 8 = 0
  BY <1>5, <1>6, <1>7
<1>9. PICK adj : adj = AdjustedSize(size)
  OBVIOUS
<1>10. need = adj - av /\ n = av + g /\ brk = mem_brk + g
  BY <1>7, <1>9 DEF Extending
<1>11. /\ adj \in Nat /\ adj % 8 = 0 /\ mem_max_addr \in Nat
       /\ adj + mem_max_addr < UINT_MOD /\ UINT_MOD \in Int
  BY <1>5, <1>7, <1>9, ArenaAssumption DEF Rounded, mem_max_addr, UINT_MOD
<1>12. need \in Nat /\ need % 8 = 0 /\ need + mem_max_addr < UINT_MOD
  BY <1>3, <1>8, <1>10, <1>11
<1>13. MovesBreak(mem_brk, g, brk) /\ g >= need /\ mem_brk' = brk
  BY <1>3, <1>12, <1>10, <1>4, Sbrk
<1>14. g \in Nat /\ g > 0 /\ mem_brk \in Int /\ brk \in Int /\ brk <= mem_max_addr
  BY <1>13, <1>10, ArenaAssumption DEF MovesBreak, Rounded, IInv, TypeOK, mem_max_addr
<1>15. GrowDone(h, r, mem_brk, blks, S, g, brk)
  BY <1>5, <1>13, <1>4, GrowSound
<1>16. /\ Sound(h1, brk, S) /\ OnlyNew(mem, h1.mem)
       /\ Allocated(h1.mem, S) = Allocated(mem, blks)
       /\ Kept(mem, h1.mem, Allocated(mem, blks))
       /\ r.bp \in S /\ IsFree(h1.mem, r.bp) /\ r.bp + Size(h1.mem, r.bp) = brk
  BY <1>5, <1>15, <1>4 DEF GrowDone
<1>17. r.bp = q
  <2>1. EndsAt(h.mem, p, q) /\ ~IsFree(h.mem, p)
    BY <1>5, <1>6
  <2>2. LastFree(h.mem, mem_brk, blks, q)
    <3>1. q = p + Size(mem, p)
      BY <1>6 DEF EndsAt
    <3> QED
      BY <1>3, <1>5, <1>6, <3>1 DEF LastFree
  <2>3. HandsBack(r, q)
    BY <1>5, <1>13, <1>4, <2>1, <2>2, GrownBehind
  <2> QED
    BY <2>3 DEF HandsBack
<1>18. /\ p \in S /\ ~IsFree(h1.mem, p) /\ Size(h1.mem, p) = Size(mem, p)
       /\ SamePayload(mem, h1.mem, p)
  BY <1>5, <1>16 DEF Allocated, Kept, SamePayload
<1>19. /\ q \in S /\ IsFree(h1.mem, q) /\ EndsAt(h1.mem, p, q)
       /\ n = Size(h1.mem, p) + Size(h1.mem, q)
  <2>1. q = p + Size(mem, p)
    BY <1>6 DEF EndsAt
  <2>2. EndsAt(h1.mem, p, q)
    BY <1>18, <2>1 DEF EndsAt
  <2>3. PICK k : k = Size(h1.mem, q)
    OBVIOUS
  <2>4. k \in Int
    BY <1>16, <1>17, <2>3, BlockFacts DEF Sound, Heap
  <2>5. q + k = mem_brk + g /\ p + av = mem_brk /\ n = av + g
    BY <1>3, <1>7, <1>10, <1>16, <1>17, <2>3
  <2>6. n = Size(mem, p) + k
    BY <1>5, <1>8, <1>14, <2>1, <2>4, <2>5
  <2> QED
    BY <1>16, <1>17, <1>18, <2>2, <2>3, <2>6
<1>20. n >= AdjustedSize(size)
  BY <1>7, <1>8, <1>9, <1>10, <1>11, <1>13, <1>14
<1> QED
  BY <1>5, <1>11, <1>10, <1>13, <1>14, <1>16, <1>17, <1>18, <1>19, <1>20

LEMMA ExtendLastStep ==
  ASSUME IInv, NEW i \in Ids, NEW size \in Sizes, ReallocExtendLast(i, size)
  PROVE  /\ IInv' /\ Undisturbed /\ Live' \subseteq Live
         /\ LiveData => ReallocData'
         /\ mem_brk' \in mem_brk + 1 .. mem_max_addr
<1>1. PICK p : p = ptr[i]
  OBVIOUS
<1>2. PICK need : need = AdjustedSize(size) - Available(p)
  OBVIOUS
<1>3. PICK g : g = GrowSize(need)
  OBVIOUS
<1>4. PICK r : r = extend_heap(CurrentHeap, mem_brk, g)
  OBVIOUS
<1>5. PICK h1 : h1 = r.heap
  OBVIOUS
<1>6. PICK S : S = Absorbed(blks \union {mem_brk}, r.heap.mem, r.bp)
  OBVIOUS
<1>7. PICK n : n = Available(p) + g
  OBVIOUS
<1>8. PICK h2 : h2 = TakeOver(h1, p, n)
  OBVIOUS
<1>9. PICK S2 : S2 = Absorbed(S, h2.mem, p)
  OBVIOUS
<1>10. PICK brk : brk = mem_brk + g
  OBVIOUS
<1>11. PICK q : q = r.bp
  OBVIOUS
<1>12. PICK A : A = Allocated(mem, blks)
  OBVIOUS
<1>13. /\ Realloc(i, size) /\ SetHeap(h2) /\ blks' = S2 /\ bp' = p /\ pc' = "ret"
  BY <1>1, <1>2, <1>3, <1>4, <1>5, <1>6, <1>7, <1>8, <1>9
  DEF ReallocExtendLast, ReallocExtend
<1>14. /\ mem_brk' = brk /\ brk \in mem_brk + 1 .. mem_max_addr
       /\ Sound(h1, brk, S) /\ OnlyNew(mem, h1.mem)
       /\ Allocated(h1.mem, S) = A /\ Kept(mem, h1.mem, A)
       /\ p \in S /\ p # heap_listp /\ ~IsFree(h1.mem, p)
       /\ SamePayload(mem, h1.mem, p) /\ Size(h1.mem, p) = Size(mem, p)
       /\ q \in S /\ IsFree(h1.mem, q) /\ EndsAt(h1.mem, p, q)
       /\ n = Size(h1.mem, p) + Size(h1.mem, q) /\ n >= AdjustedSize(size)
  <2>1. Extending(i, size, p, need, g, brk, r, h1, S, n)
    BY <1>1, <1>2, <1>3, <1>4, <1>5, <1>6, <1>7, <1>10 DEF Extending
  <2> QED
    BY <1>11, <1>12, <2>1, ExtendedBehind
<1>15. TakenOver(h1, h2, brk, S, S2, p, n)
  BY <1>8, <1>9, <1>14, TakeOverSound
<1>16. /\ Sound(h2, brk, S2) /\ OnlyNew(h1.mem, h2.mem)
       /\ Allocated(h2.mem, S2) = A /\ Kept(h1.mem, h2.mem, A \ {p})
       /\ SamePayload(h1.mem, h2.mem, p) /\ Size(h2.mem, p) = n
  BY <1>14, <1>15 DEF TakenOver, SameAllocated
<1>17. Stretched(h2, S2, p, AdjustedSize(size))
  <2>1. OnlyNew(mem, h2.mem)
    BY <1>14, <1>16, OnlyNewTwice
  <2>2. Kept(mem, h2.mem, A \ {p})
    <3>1. PICK B : B = A \ {p}
      OBVIOUS
    <3>2. Kept(mem, h1.mem, B)
      BY <1>14, <3>1, KeptPart
    <3>3. Kept(mem, h2.mem, B)
      BY <1>16, <3>1, <3>2, KeptTwice
    <3> QED
      BY <3>1, <3>3
  <2>3. SamePayload(mem, h2.mem, p)
    BY <1>14, <1>16 DEF SamePayload
  <2> QED
    BY <1>12, <1>14, <1>16, <2>1, <2>2, <2>3 DEF Stretched
<1>18. Becomes(h2, brk, S2)
  BY <1>13, <1>14 DEF Becomes
<1>19. /\ IInv' /\ Undisturbed /\ Live' \subseteq Live
       /\ LiveData => ReallocData'
  BY <1>1, <1>13, <1>16, <1>17, <1>18, InPlaceStep
<1> QED
  BY <1>14, <1>19

LEMMA ExtendFailsStep ==
  ASSUME IInv, NEW i \in Ids, NEW size \in Sizes, ReallocExtendFails(i, size)
  PROVE  IInv' /\ Undisturbed /\ Live' = Live /\ bp' = NULL
<1>1. /\ pc = "idle" /\ ptr[i] # NULL /\ size > 0 /\ bp' = NULL /\ pc' = "ret"
      /\ call' = Request("realloc", i, size)
      /\ UNCHANGED <<mem, mem_brk, ptr, psize, free_lists, blks, new_size, pos>>
  BY DEF ReallocExtendFails, Realloc
<1>2. /\ call' \in Call /\ call'.op = "realloc" /\ call'.id = i /\ call'.size = size
      /\ call'.op # "malloc"
  BY <1>1 DEF Request, Call
<1>3. StructureInv' /\ OwnerInv' /\ Live' = Live /\ Undisturbed
  BY <1>1, QuietStep DEF Up, Working
<1>4. TypeOK'
  BY <1>1, <1>2 DEF IInv, TypeOK, Node
<1>5. CallInv' /\ SearchInv'
  BY <1>1, <1>2 DEF CallInv, SearchInv, Working
<1> QED
  BY <1>1, <1>3, <1>4, <1>5 DEF IInv

-----------------------------------------------------------------------------
(* mm_realloc by copying.                                                  *)

(* What the call asked for fits in the block it has been given. *)
LEMMA PayloadFits ==
  ASSUME IInv, pc \in {"move", "ret"}, bp # NULL
  PROVE  /\ call.size \in Nat /\ call.size > 0 /\ Covers(mem, bp, call.size)
         /\ bp \in blks /\ bp \in Addr /\ bp \in Int /\ Size(mem, bp) \in Nat
<1>1. PICK s : s = call.size
  OBVIOUS
<1>2. Up /\ pc \notin {"down", "idle"}
  BY DEF Up
<1>3. s \in Sizes /\ s > 0 /\ Size(mem, bp) >= AdjustedSize(s)
  <2>1. call \in Call /\ call.size > 0
    BY <1>2 DEF IInv, CallInv
  <2>2. Size(mem, bp) >= AdjustedSize(call.size)
    BY <1>2 DEF IInv, OwnerInv
  <2> QED
    BY <1>1, <2>1, <2>2 DEF Call
<1>4. AdjustedSize(s) \in Nat /\ AdjustedSize(s) >= s + 8 /\ s \in Nat
  BY <1>3, RequestSize, SizesAssumption DEF Rounded
<1>5. bp \in blks /\ bp \in Addr /\ bp \in Int /\ Size(mem, bp) \in Nat
  <2>1. bp \in blks /\ bp \in Addr
    BY <1>2, Situation DEF Owned
  <2> QED
    BY <1>2, <2>1, Situation, BlockFacts DEF Heap
<1>6. Covers(mem, bp, s)
  BY <1>3, <1>4, <1>5 DEF Covers, DSIZE
<1> QED
  BY <1>1, <1>3, <1>4, <1>5, <1>6

(* memcpy copies a whole block, tags and all, but no more than the new     *)
(* block's payload has room for.                                           *)
LEMMA CopyFits ==
  ASSUME IInv, pc = "move", NEW src, src = ptr[call.id], NEW n, n = Size(mem, src)
  PROVE  /\ bp \in blks /\ src \in blks
         /\ bp \in Int /\ bp % 8 = 0 /\ src \in Int /\ src % 8 = 0
         /\ n \in Nat /\ n % 8 = 0 /\ src >= heap_listp /\ src + n <= mem_brk
         /\ Size(mem, bp) \in Nat /\ bp + n <= bp + Size(mem, bp) - DSIZE
         /\ mem_brk \in Int /\ mem_brk <= mem_max_addr
         /\ mem_start_brk \in Int /\ mem_max_addr \in Int
         /\ heap_listp = mem_start_brk + 8
<1>1. Up /\ call.op = "realloc" /\ bp # NULL /\ call.id \in Ids /\ src # NULL
  BY DEF Up, IInv, CallInv, Call
<1>2. call.id \in Live
  BY <1>1 DEF Live, Moved
<1>3. /\ bp \in blks /\ src \in blks /\ Tiled(mem, mem_brk, blks)
  BY <1>1, <1>2, PayloadFits, Situation DEF Heap
<1>4. /\ bp \in Int /\ bp % 8 = 0 /\ src \in Int /\ src % 8 = 0
      /\ n \in Nat /\ n % 8 = 0 /\ src >= heap_listp /\ src + n <= mem_brk
      /\ Size(mem, bp) \in Nat
  BY <1>3, BlockFacts
<1>5. /\ mem_brk \in Int /\ mem_brk <= mem_max_addr
      /\ mem_start_brk \in Int /\ mem_max_addr \in Int
      /\ heap_listp = mem_start_brk + 8
  BY <1>3, HeapFacts, ArenaAssumption DEF heap_listp, mem_max_addr, WSIZE
<1>6. bp + n <= bp + Size(mem, bp) - DSIZE
  <2>1. PICK adj : adj = AdjustedSize(call.size)
    OBVIOUS
  <2>2. n < adj
    BY <1>1, <2>1 DEF IInv, OwnerInv, Working, Needs
  <2>3. Size(mem, bp) >= adj
    BY <1>1, <2>1 DEF IInv, OwnerInv
  <2>4. adj \in Nat /\ adj % 8 = 0
    <3>1. call \in Call /\ call.size > 0
      BY <1>1 DEF IInv, CallInv
    <3> QED
      BY <2>1, <3>1, RequestSize DEF Rounded, Call
  <2>5. n + 8 <= adj
    BY <1>4, <2>2, <2>4
  <2>6. PICK z : z = Size(mem, bp)
    OBVIOUS
  <2>7. /\ z \in Int /\ n \in Int /\ bp \in Int /\ adj \in Int
        /\ n + 8 <= adj /\ adj <= z
    BY <1>4, <2>3, <2>4, <2>5, <2>6
  <2>8. bp + n <= bp + z - 8
    BY <2>7
  <2> QED
    BY <2>6, <2>8 DEF DSIZE
<1> QED
  BY <1>3, <1>4, <1>5, <1>6

(* The words that memcpy reads are in the arena, those it writes in the    *)
(* new block's payload, although it copies the old block's tags as well.   *)
LEMMA CopyWithin ==
  ASSUME IInv, pc = "move", NEW src, src = ptr[call.id],
         NEW m, m = Copy(mem, bp, src, Size(mem, src))
  PROVE  PayloadWrite(mem, m, bp) /\ m \in [Addr -> Words]
<1>1. PICK n : n = Size(mem, src)
  OBVIOUS
<1>2. /\ bp \in Int /\ bp % 8 = 0 /\ src \in Int /\ src % 8 = 0
      /\ n \in Nat /\ n % 8 = 0 /\ src >= heap_listp /\ src + n <= mem_brk
      /\ Size(mem, bp) \in Nat /\ bp + n <= bp + Size(mem, bp) - DSIZE
      /\ mem_brk \in Int /\ mem_brk <= mem_max_addr
      /\ mem_start_brk \in Int /\ mem_max_addr \in Int
      /\ heap_listp = mem_start_brk + 8
  BY <1>1, CopyFits
<1>3. PayloadWrite(mem, m, bp)
  BY <1>1, <1>2, CopyWrites
<1>4. m \in [Addr -> Words]
  <2>1. ASSUME NEW a \in Addr, bp <= a, a < bp + n
        PROVE  a - bp + src \in Addr
    <3>1. \A c \in Addr : c \in Int /\ c % 4 = 0
      BY <1>2 DEF Addr, WSIZE
    <3> QED
      BY <1>2, <2>1, <3>1 DEF Addr, WSIZE
  <2>2. mem \in [Addr -> Words]
    BY CurrentRecord DEF IInv
  <2>3. m = [a \in Addr |-> IF bp <= a /\ a < bp + n
                            THEN mem[a - bp + src] ELSE mem[a]]
    BY <1>1 DEF Copy
  <2> QED
    BY <2>1, <2>2, <2>3
<1> QED
  BY <1>3, <1>4

(* The copy in front of the new block is the old payload, word for word.   *)
LEMMA CopyHolds ==
  ASSUME NEW dst \in Int, dst % 8 = 0, NEW src \in Int, src % 8 = 0,
         src >= mem_start_brk,
         NEW k \in Nat, src + k <= mem_max_addr, NEW id, Holds(mem, src, k, id),
         NEW len \in Nat, k <= len, NEW n \in Nat, n <= k,
         NEW m, m = Copy(mem, dst, src, len)
  PROVE  Holds(m, dst, n, id)
<1> SUFFICES ASSUME NEW a \in Addr, dst <= a, a < dst + n
             PROVE  m[a] = id
  BY DEF Holds
<1>1. PICK c : c = a - dst + src
  OBVIOUS
<1>2. a \in Int /\ a % 4 = 0 /\ mem_start_brk \in Int /\ mem_max_addr \in Int
  BY ArenaAssumption DEF Addr, mem_max_addr, WSIZE
<1>3. /\ a < dst + len /\ src <= c /\ c < src + k /\ c \in Int /\ c % 4 = 0
  BY <1>1, <1>2
<1>4. m[a] = mem[c]
  BY <1>1, <1>3 DEF Copy
<1>5. c \in Addr
  BY <1>2, <1>3 DEF Addr, WSIZE
<1> QED
  BY <1>3, <1>4, <1>5 DEF Holds

LEMMA MoveStep ==
  ASSUME IInv, Move
  PROVE  /\ IInv' /\ Undisturbed /\ Live' \subseteq Live
         /\ LiveData => ReallocData'
<1>1. PICK src : src = ptr[call.id]
  OBVIOUS
<1>2. PICK h : h = CurrentHeap
  OBVIOUS
<1>3. PICK m : m = Copy(mem, bp, src, Size(mem, src))
  OBVIOUS
<1>4. PICK h1 : h1 = Retag(h, m)
  OBVIOUS
<1>5. PICK r : r = mm_free(h1, src)
  OBVIOUS
<1>6. PICK h2 : h2 = r.heap
  OBVIOUS
<1>7. PICK S2 : S2 = Absorbed(blks, r.heap.mem, r.bp)
  OBVIOUS
<1>8. PICK id : id = call.id
  OBVIOUS
<1>9. /\ pc = "move" /\ pc' = "ret" /\ SetHeap(h2) /\ blks' = S2
      /\ UNCHANGED <<mem_brk, ptr, psize, call, bp, new_size, pos>>
  <2>1. CurrentHeap.mem = mem
    BY CurrentRecord DEF IInv
  <2>2. Transfer(CurrentHeap, bp, ptr[call.id]) = r
    BY <1>1, <1>2, <1>3, <1>4, <1>5, <2>1 DEF Transfer
  <2> QED
    BY <1>6, <1>7, <2>2 DEF Move
<1>10. /\ Up /\ call \in Call /\ id \in Ids /\ call.op = "realloc" /\ bp # NULL
       /\ src # NULL /\ src = ptr[id]
  BY <1>1, <1>8, <1>9 DEF Up, IInv, CallInv, Call
<1>11. /\ Live = {i \in Ids : ptr[i] # NULL} /\ id \in Live
       /\ Live' = Live \ {id}
  <2>1. Live = {i \in Ids : ptr[i] # NULL}
    BY <1>9 DEF Live, Moved
  <2>2. Live' = {i \in Ids : ptr[i] # NULL /\ id # i}
    BY <1>8, <1>9, <1>10 DEF Live, Moved
  <2> QED
    BY <1>10, <2>1, <2>2
<1>12. /\ Sound(h, mem_brk, blks) /\ h.mem = mem /\ Record(h)
       /\ Tiled(mem, mem_brk, blks)
       /\ Allocated(mem, blks) = Owned \union {heap_listp}
       /\ Owned = {ptr[i] : i \in Live} \union {bp}
       /\ Owned' = {ptr[i] : i \in Live'} \union {bp}
       /\ bp \in Allocated(mem, blks) /\ bp \in blks /\ bp # heap_listp
       /\ src \in Allocated(mem, blks) /\ src \in blks /\ src # heap_listp
       /\ \A i, j \in Live : i # j => ptr[i] # ptr[j]
       /\ \A i \in Live : ptr[i] # bp /\ ptr[i] \in Allocated(mem, blks)
  <2>1. Owned = {ptr[i] : i \in Live} \union {bp}
    BY <1>9, <1>10 DEF Owned
  <2>2. Owned' = {ptr[i] : i \in Live'} \union {bp}
    BY <1>9, <1>10 DEF Owned
  <2>3. /\ \A i, j \in Live : i # j => ptr[i] # ptr[j]
        /\ bp # heap_listp /\ \A i \in Live : ptr[i] # bp
    BY <1>9, <1>10 DEF IInv, OwnerInv
  <2>4. /\ Sound(h, mem_brk, blks) /\ h.mem = mem /\ Record(h)
        /\ Tiled(mem, mem_brk, blks)
    BY <1>2, <1>10, Situation DEF Heap
  <2>5. /\ Allocated(mem, blks) = Owned \union {heap_listp}
        /\ Allocated(mem, blks) \subseteq blks
        /\ \A i \in Live : ptr[i] # heap_listp /\ ptr[i] \in Allocated(mem, blks)
    BY <1>10, Situation
  <2> QED
    BY <1>10, <1>11, <2>1, <2>2, <2>3, <2>4, <2>5
<1>13. PayloadWrite(mem, m, bp) /\ m \in [Addr -> Words]
  BY <1>1, <1>3, <1>9, CopyWithin
<1>14. Record(h1) /\ h1.mem = m /\ h1.lists = h.lists
  BY <1>4, <1>12, <1>13, RetagFacts DEF PayloadWrite
<1>15. /\ Sound(h1, mem_brk, blks)
       /\ Allocated(m, blks) = Allocated(mem, blks)
       /\ KeptBut(mem, m, blks, bp) /\ Size(m, bp) = Size(mem, bp)
       /\ SameTags(mem, m, blks)
  <2>1. ~IsFree(h.mem, bp) /\ PayloadWrite(h.mem, h1.mem, bp)
    BY <1>12, <1>13, <1>14 DEF Allocated
  <2>2. /\ Sound(h1, mem_brk, blks) /\ SameAllocated(h.mem, blks, h1.mem, blks)
        /\ KeptBut(h.mem, h1.mem, blks, bp) /\ Size(h1.mem, bp) = Size(h.mem, bp)
        /\ SameTags(h.mem, h1.mem, blks)
    BY <1>12, <1>14, <2>1, WriteSound
  <2> QED
    BY <1>12, <1>14, <2>2 DEF SameAllocated
<1>16. /\ Sound(h2, mem_brk, S2) /\ OnlyNew(m, h2.mem)
       /\ Allocated(h2.mem, S2) = Allocated(m, blks) \ {src}
       /\ Kept(m, h2.mem, Allocated(m, blks) \ {src})
  <2>1. /\ Sound(h1, mem_brk, blks)
        /\ src \in blks /\ src # heap_listp /\ ~IsFree(h1.mem, src)
    BY <1>12, <1>14, <1>15 DEF Allocated
  <2>2. /\ Sound(r.heap, mem_brk, S2) /\ OnlyNew(h1.mem, r.heap.mem)
        /\ Allocated(r.heap.mem, S2) = Allocated(h1.mem, blks) \ {src}
        /\ Kept(h1.mem, r.heap.mem, Allocated(h1.mem, blks) \ {src})
    BY <1>5, <1>7, <2>1, FreeSound, SMTT(40)
  <2>3. h1.mem = m
    BY <1>14
  <2> QED
    BY <1>6, <2>2, <2>3
<1>17. bp \in Allocated(m, blks) \ {src}
  BY <1>10, <1>11, <1>12, <1>15
<1>18. Size(h2.mem, bp) = Size(mem, bp)
  BY <1>15, <1>16, <1>17 DEF Kept
<1>19. \A i \in Live' : ptr[i] \in Allocated(mem, blks) \ {src, bp}
  BY <1>10, <1>11, <1>12
<1>20. Kept(mem, h2.mem, {ptr[i] : i \in Live'})
  <2>1. \A i \in Live' : /\ ptr[i] \in blks \ {bp}
                         /\ ptr[i] \in Allocated(m, blks) \ {src}
    BY <1>15, <1>19 DEF Allocated
  <2> QED
    BY <1>15, <1>16, <2>1 DEF Kept, KeptBut
<1>21. /\ Sound(CurrentHeap', mem_brk', blks')
       /\ mem' \in [Addr -> Words] /\ mem_brk' \in mem_start_brk .. mem_max_addr
       /\ free_lists' \in [0 .. LIST_MAX - 1 -> Node] /\ blks' \subseteq Addr
  <2>1. Becomes(h2, mem_brk, S2)
    BY <1>9 DEF Becomes
  <2> QED
    BY <1>13, <1>16, <2>1, NewHeapOver
<1>22. mem' = h2.mem
  BY <1>9 DEF SetHeap
<1>23. TypeOK'
  BY <1>9, <1>21 DEF IInv, TypeOK, Words
<1>24. StructureInv'
  BY <1>21 DEF StructureInv
<1>25. OwnerInv'
  <2>1. Owned' = Owned \ {src}
    BY <1>10, <1>11, <1>12
  <2>2. Allocated(mem', blks') = Owned' \union {heap_listp}
    BY <1>9, <1>12, <1>15, <1>16, <1>22, <2>1
  <2>3. \A i \in Live' : /\ ptr[i] # heap_listp
                         /\ Size(mem', ptr[i]) >= psize[i] + DSIZE
    BY <1>10, <1>11, <1>20, <1>22 DEF IInv, OwnerInv, Kept
  <2>4. Size(mem', bp) >= AdjustedSize(call.size)
    BY <1>9, <1>10, <1>18, <1>22 DEF IInv, OwnerInv
  <2> QED
    BY <1>9, <1>11, <1>12, <2>2, <2>3, <2>4 DEF OwnerInv, Working
<1>26. CallInv' /\ SearchInv'
  BY <1>9 DEF IInv, CallInv, SearchInv, Working
<1>27. Undisturbed
  <2>1. Live \cap Live' = Live'
    BY <1>11
  <2> QED
    BY <1>9, <1>20, <1>22, <2>1 DEF Undisturbed
<1>28. ASSUME LiveData
       PROVE  ReallocData'
  <2>1. PICK n : n = KeptSize
    OBVIOUS
  <2>2. PICK k : k = psize[id]
    OBVIOUS
  <2>3. PICK s : s = call.size
    OBVIOUS
  <2>4. PICK len : len = Size(mem, src)
    OBVIOUS
  <2>5. s \in Nat /\ k \in Nat /\ n = (IF s < k THEN s ELSE k)
    <3>1. s \in Nat
      BY <1>9, <1>10, <2>3, PayloadFits
    <3>2. k \in Nat
      BY <1>10, <2>2 DEF IInv, TypeOK
    <3> QED
      BY <1>8, <2>1, <2>2, <2>3, <3>1, <3>2 DEF KeptSize
  <2>6. n \in Nat /\ n <= k /\ n <= s
    BY <2>5
  <2>7. Holds(mem, src, k, id) /\ len >= k + DSIZE
    BY <1>10, <1>11, <1>28, <2>2, <2>4 DEF LiveData, IInv, OwnerInv
  <2>8. /\ bp \in Int /\ bp % 8 = 0 /\ src \in Int /\ src % 8 = 0
        /\ src >= heap_listp /\ len \in Nat /\ src + len <= mem_brk
        /\ Size(mem, bp) \in Nat
    BY <1>12, <2>4, BlockFacts
  <2>9. /\ src >= mem_start_brk /\ src + k <= mem_max_addr /\ k <= len
    <3>1. /\ mem_brk \in Int /\ mem_brk <= mem_max_addr
          /\ mem_start_brk \in Int /\ mem_max_addr \in Int
          /\ heap_listp = mem_start_brk + 8
      BY <1>12, HeapFacts, ArenaAssumption DEF heap_listp, mem_max_addr, WSIZE
    <3> QED
      BY <2>5, <2>7, <2>8, <3>1 DEF DSIZE
  <2>10. m = Copy(mem, bp, src, len)
    BY <1>3, <2>4
  <2>11. Holds(m, bp, n, id)
    BY <2>5, <2>6, <2>7, <2>8, <2>9, <2>10, CopyHolds
  <2>12. Holds(h2.mem, bp, n, id)
    <3>1. PICK B : B = Allocated(m, blks) \ {src}
      OBVIOUS
    <3>2. bp \in B /\ Kept(m, h2.mem, B)
      BY <1>16, <1>17, <3>1
    <3>3. Size(m, bp) \in Int /\ bp + n <= bp + Size(m, bp) - DSIZE
      <4>1. Covers(mem, bp, s)
        BY <1>9, <1>10, <2>3, PayloadFits
      <4>2. PICK z : z = Size(m, bp)
        OBVIOUS
      <4>3. z = Size(mem, bp)
        BY <1>15, <4>2
      <4>4. z \in Nat /\ z >= s + 8 /\ s \in Nat /\ n \in Nat /\ n <= s /\ bp \in Int
        BY <2>5, <2>6, <2>8, <4>1, <4>3 DEF Covers, DSIZE
      <4>5. bp + n <= bp + z - DSIZE
        BY <4>4 DEF DSIZE
      <4> QED
        BY <4>2, <4>4, <4>5
    <3> QED
      BY <2>6, <2>8, <2>11, <3>2, <3>3, HoldsKept
  <2>13. KeptSize' = KeptSize
    BY <1>9 DEF KeptSize
  <2> QED
    BY <1>8, <1>9, <1>22, <2>1, <2>12, <2>13 DEF ReallocData
<1> QED
  BY <1>11, <1>23, <1>24, <1>25, <1>26, <1>27, <1>28 DEF IInv

(* The client takes NULL: nothing has happened to it. *)
LEMMA ReturnNullStep ==
  ASSUME IInv, Return, bp = NULL
  PROVE  IInv' /\ Undisturbed /\ Live' = Live
<1>1. /\ pc = "ret" /\ pc' = "idle" /\ call' = NoCall /\ bp' = NULL
      /\ new_size' = 0 /\ pos' = 0
      /\ UNCHANGED <<mem, mem_brk, ptr, psize, free_lists, blks>>
  BY DEF Return, TakeResult
<1>2. Up /\ pc \notin {"down", "move"} /\ LIST_MAX \in Nat
  BY <1>1, ListAssumption DEF Up
<1>3. Live' = Live
  BY <1>1 DEF Live, Moved
<1>4. Owned' = Owned
  BY <1>1, <1>3 DEF Owned
<1>5. StructureInv'
  BY <1>1, <1>2 DEF IInv, StructureInv, CurrentHeap
<1>6. OwnerInv'
  BY <1>1, <1>2, <1>3, <1>4 DEF IInv, OwnerInv, Working
<1>7. TypeOK'
  BY <1>1, <1>2 DEF IInv, TypeOK, Node
<1>8. CallInv' /\ SearchInv'
  BY <1>1 DEF CallInv, SearchInv, Working
<1>9. Undisturbed
  BY <1>1 DEF Undisturbed, Kept
<1> QED
  BY <1>3, <1>5, <1>6, <1>7, <1>8, <1>9 DEF IInv

(* The client's fill stays within the payload it has been given. *)
LEMMA FillWithin ==
  ASSUME IInv, pc = "ret", bp # NULL,
         NEW m, m = Fill(mem, bp, call.size, call.id)
  PROVE  /\ PayloadWrite(mem, m, bp) /\ m \in [Addr -> Words]
         /\ Holds(m, bp, call.size, call.id)
<1>1. PICK n : n = call.size
  OBVIOUS
<1>2. PICK id : id = call.id
  OBVIOUS
<1>3. bp \in Int /\ Size(mem, bp) \in Int /\ Covers(mem, bp, n)
  BY <1>1, PayloadFits
<1>4. m = Fill(mem, bp, n, id)
  BY <1>1, <1>2
<1>5. PayloadWrite(mem, m, bp) /\ Holds(m, bp, n, id)
  BY <1>3, <1>4, FillWrites
<1>6. m \in [Addr -> Words]
  <2>1. mem \in [Addr -> Words]
    BY CurrentRecord DEF IInv
  <2>2. id \in Ids
    BY <1>2 DEF IInv, CallInv, Call
  <2>3. m = [a \in Addr |-> IF bp <= a /\ a < bp + n THEN id ELSE mem[a]]
    BY <1>4 DEF Fill
  <2> QED
    BY <2>1, <2>2, <2>3 DEF Words
<1> QED
  BY <1>1, <1>2, <1>5, <1>6

(* The client takes a block and fills it. *)
LEMMA ReturnBlockStep ==
  ASSUME IInv, Return, bp # NULL
  PROVE  /\ IInv' /\ Undisturbed
         /\ call.id \notin Live /\ Live' = Live \union {call.id}
         /\ Holds(mem', ptr'[call.id], psize'[call.id], call.id)
<1>1. PICK m : m = Fill(mem, bp, call.size, call.id)
  OBVIOUS
<1>2. PICK id : id = call.id
  OBVIOUS
<1>3. PICK h : h = CurrentHeap
  OBVIOUS
<1>4. PICK h2 : h2 = Retag(h, m)
  OBVIOUS
<1>5. /\ pc = "ret" /\ pc' = "idle" /\ call' = NoCall /\ bp' = NULL
      /\ mem' = m /\ ptr' = [ptr EXCEPT ![id] = bp]
      /\ psize' = [psize EXCEPT ![id] = call.size]
      /\ new_size' = 0 /\ pos' = 0 /\ UNCHANGED <<mem_brk, free_lists, blks>>
  BY <1>1, <1>2 DEF Return, TakeResult
<1>6. /\ call.op = "realloc" \/ ptr[id] = NULL
      /\ ptr \in [Ids -> Node] /\ psize \in [Ids -> Nat] /\ LIST_MAX \in Nat
  BY <1>2, <1>5, ListAssumption DEF Up, IInv, CallInv, Call, TypeOK
<1>7. id \in Ids /\ Up
  BY <1>2, <1>5 DEF Up, IInv, CallInv, Call
<1>8. id \notin Live /\ Live' = Live \union {id} /\ Live \subseteq Ids
  <2>1. \A i \in Ids : i # id => (i \in Live <=> ptr[i] # NULL)
    BY <1>2, <1>5 DEF Live, Moved
  <2>2. id \notin Live
    BY <1>2, <1>5, <1>6 DEF Live, Moved
  <2>3. Live' = {i \in Ids : ptr'[i] # NULL}
    BY <1>5 DEF Live, Moved
  <2>4. ptr'[id] = bp /\ \A i \in Ids : i # id => ptr'[i] = ptr[i]
    BY <1>5, <1>6, <1>7
  <2>5. Live \subseteq Ids
    BY DEF Live
  <2> QED
    BY <1>7, <2>1, <2>2, <2>3, <2>4, <2>5
<1>9. /\ \A i \in Live : ptr'[i] = ptr[i] /\ psize'[i] = psize[i]
      /\ ptr'[id] = bp /\ psize'[id] = call.size
  BY <1>5, <1>6, <1>7, <1>8
<1>10. /\ Sound(h, mem_brk, blks) /\ Record(h) /\ h.mem = mem
       /\ h.lists = free_lists
       /\ Allocated(mem, blks) = Owned \union {heap_listp}
       /\ Allocated(mem, blks) \subseteq blks
       /\ \A i \in Live : ptr[i] \in blks /\ ptr[i] # heap_listp
  BY <1>3, <1>7, Situation
<1>11. /\ bp \in Allocated(mem, blks) /\ bp \in blks /\ bp # heap_listp
       /\ \A i \in Live : ptr[i] # bp
       /\ \A i, j \in Live : i # j => ptr[i] # ptr[j]
  <2>1. bp \in Owned
    BY <1>5 DEF Owned
  <2>2. /\ bp # heap_listp /\ \A i \in Live : ptr[i] # bp
        /\ \A i, j \in Live : i # j => ptr[i] # ptr[j]
    BY <1>5, <1>7 DEF IInv, OwnerInv
  <2> QED
    BY <1>10, <2>1, <2>2
<1>12. Owned' = Owned
  <2>1. Owned = {ptr[i] : i \in Live} \union {bp}
    BY <1>5 DEF Owned
  <2>2. Owned' = {ptr'[i] : i \in Live'}
    BY <1>5 DEF Owned
  <2> QED
    BY <1>8, <1>9, <2>1, <2>2
<1>13. /\ PayloadWrite(mem, m, bp) /\ m \in [Addr -> Words]
       /\ Holds(m, bp, call.size, id)
  BY <1>1, <1>2, <1>5, FillWithin
<1>14. Record(h2) /\ h2.mem = m /\ h2.lists = free_lists
  BY <1>4, <1>10, <1>13, RetagFacts DEF PayloadWrite
<1>15. /\ Sound(h2, mem_brk, blks) /\ SameAllocated(mem, blks, m, blks)
       /\ KeptBut(mem, m, blks, bp) /\ Size(m, bp) = Size(mem, bp)
  <2>1. ~IsFree(h.mem, bp) /\ PayloadWrite(h.mem, h2.mem, bp)
    BY <1>10, <1>11, <1>13, <1>14 DEF Allocated
  <2>2. h2.lists = h.lists
    BY <1>10, <1>14
  <2>3. /\ Sound(h2, mem_brk, blks) /\ SameAllocated(h.mem, blks, h2.mem, blks)
        /\ KeptBut(h.mem, h2.mem, blks, bp) /\ Size(h2.mem, bp) = Size(h.mem, bp)
        /\ SameTags(h.mem, h2.mem, blks)
    <3>1. Sound(h, mem_brk, blks) /\ bp \in blks /\ Record(h2)
      BY <1>10, <1>11, <1>14
    <3> QED
      BY <2>1, <2>2, <3>1, WriteSound, SMTT(40)
  <2>4. h2.mem = m /\ h.mem = mem
    BY <1>10, <1>14
  <2> QED
    BY <2>3, <2>4
<1>16. CurrentHeap' = h2
  <2>1. CurrentHeap' = [mem |-> m, lists |-> free_lists]
    BY <1>5 DEF CurrentHeap
  <2> QED
    BY <1>14, <2>1 DEF Record
<1>17. StructureInv'
  BY <1>5, <1>15, <1>16 DEF StructureInv
<1>18. bp \in Addr /\ Covers(mem, bp, call.size)
  BY <1>5, PayloadFits
<1>19. TypeOK'
  <2>1. call.size \in Nat /\ bp \in Node /\ NULL \in Node
    BY <1>18 DEF Covers, Node
  <2>2. ptr' \in [Ids -> Node] /\ psize' \in [Ids -> Nat]
    BY <1>5, <1>6, <2>1
  <2>3. m \in [Addr -> Tag \union Link \union Ids \union {Junk}]
    BY <1>13 DEF Words
  <2> QED
    BY <1>5, <1>6, <2>1, <2>2, <2>3 DEF IInv, TypeOK
<1>20. Kept(mem, m, {ptr[i] : i \in Live})
  BY <1>10, <1>11, <1>15 DEF Kept, KeptBut
<1>21. OwnerInv'
  <2>1. Allocated(mem', blks') = Owned' \union {heap_listp}
    BY <1>5, <1>10, <1>12, <1>15 DEF SameAllocated
  <2>2. \A i, j \in Live' : i # j => ptr'[i] # ptr'[j]
    BY <1>8, <1>9, <1>11
  <2>3. \A i \in Live : Size(mem', ptr'[i]) >= psize'[i] + DSIZE
    BY <1>5, <1>7, <1>9, <1>20 DEF IInv, OwnerInv, Kept
  <2>4. Size(mem', ptr'[id]) >= psize'[id] + DSIZE
    BY <1>5, <1>9, <1>15, <1>18 DEF Covers
  <2>5. \A i \in Live' : ptr'[i] # heap_listp
    BY <1>8, <1>9, <1>10, <1>11
  <2> QED
    BY <1>5, <1>8, <2>1, <2>2, <2>3, <2>4, <2>5 DEF OwnerInv, Working
<1>22. CallInv' /\ SearchInv'
  BY <1>5 DEF CallInv, SearchInv, Working
<1>23. Undisturbed
  <2>1. Live \cap Live' = Live
    BY <1>8
  <2> QED
    BY <1>5, <1>9, <1>20, <2>1 DEF Undisturbed
<1>24. IInv'
  BY <1>17, <1>19, <1>21, <1>22 DEF IInv
<1> QED
  BY <1>2, <1>5, <1>8, <1>9, <1>13, <1>23, <1>24

-----------------------------------------------------------------------------
(* The invariant and the client's data, over all steps.                    *)

(* A step that disturbs nothing and adds no live pointer. *)
LEMMA KeepsPayloads ==
  ASSUME IInv, Up, LiveData, Undisturbed, NEW i \in Live \cap Live'
  PROVE  Holds(mem', ptr'[i], psize'[i], i)
<1>1. PICK p : p = ptr[i]
  OBVIOUS
<1>2. PICK n : n = psize[i]
  OBVIOUS
<1>3. PICK B : B = {ptr[j] : j \in Live \cap Live'}
  OBVIOUS
<1>4. /\ Holds(mem, p, n, i) /\ p \in B /\ Kept(mem, mem', B)
      /\ ptr'[i] = p /\ psize'[i] = n
  BY <1>1, <1>2, <1>3 DEF LiveData, Undisturbed
<1>5. p \in Int /\ Size(mem, p) \in Int
  <2>1. p \in blks
    BY <1>1, Situation
  <2> QED
    BY <2>1, Situation, BlockFacts DEF Heap
<1>6. n \in Int /\ Size(mem, p) >= n + DSIZE
  <2>1. i \in Ids
    BY DEF Live
  <2>2. n \in Nat
    BY <1>2, <2>1 DEF IInv, TypeOK
  <2>3. Size(mem, p) >= n + DSIZE
    BY <1>1, <1>2 DEF IInv, OwnerInv
  <2> QED
    BY <2>2, <2>3
<1>7. p + n <= p + Size(mem, p) - DSIZE
  BY <1>5, <1>6 DEF DSIZE
<1>8. Holds(mem', p, n, i)
  BY <1>4, <1>5, <1>6, <1>7, HoldsKept
<1> QED
  BY <1>4, <1>8

(* So a step keeps what PayloadsIntact says of the live pointers. *)
LEMMA KeepsLiveData ==
  ASSUME IInv, Up, Undisturbed, Live' \subseteq Live, LiveData
  PROVE  LiveData'
BY KeepsPayloads DEF LiveData

(* The invariant is kept, and the payloads are. *)
Preserved == IInv' /\ (LiveData /\ ReallocData => LiveData' /\ ReallocData')

(* A step inside a call that returns no reallocated block. *)
LEMMA CallStep ==
  ASSUME IInv, Up, IInv' /\ Live' = Live /\ Undisturbed,
         pc' # "ret" \/ bp' = NULL \/ call'.op # "realloc"
  PROVE  Preserved
<1>1. LiveData => LiveData'
  BY KeepsLiveData
<1>2. ReallocData'
  BY DEF ReallocData
<1> QED
  BY <1>1, <1>2 DEF Preserved

(* A step that leaves a reallocated block for the client. *)
LEMMA ReallocStep ==
  ASSUME IInv, Up, IInv' /\ Undisturbed /\ Live' \subseteq Live,
         LiveData => ReallocData'
  PROVE  Preserved
BY KeepsLiveData DEF Preserved

LEMMA StepHolds ==
  ASSUME IInv, [SoundNext]_vars
  PROVE  Preserved
<1>1. CASE mm_init
  <2>1. IInv' /\ Live' = {} /\ pc' = "idle"
    BY <1>1, InitStep DEF mm_init, InitOver
  <2> QED
    BY <2>1 DEF Preserved, LiveData, ReallocData
<1>2. ASSUME NEW i \in Ids, CallFree(i)
      PROVE  Preserved
  <2>1. IInv' /\ Undisturbed
    BY <1>2, FreeStep
  <2>2. pc = "idle" /\ pc' = "idle" /\ ptr' = [ptr EXCEPT ![i] = NULL]
    BY <1>2 DEF CallFree
  <2>3. Live' \subseteq Live
    BY <2>2 DEF Live, Moved, IInv, TypeOK
  <2>4. LiveData => ReallocData'
    BY <2>2 DEF ReallocData
  <2> QED
    BY <2>1, <2>2, <2>3, <2>4, ReallocStep DEF Up
<1>3. ASSUME NEW i \in Ids, NEW size \in Sizes,
             CallMalloc(i, size) \/ ReallocSearch(i, size)
      PROVE  Preserved
  <2>1. IInv' /\ Live' = Live /\ Undisturbed
    BY <1>3, StartStep
  <2>2. pc = "idle" /\ pc' = "scan"
    BY <1>3 DEF CallMalloc, ReallocSearch, StartSearch
  <2> QED
    BY <2>1, <2>2, CallStep DEF Up
<1>4. ASSUME NEW i \in Ids, NEW size \in Sizes,
             ReallocKeep(i, size) \/ ReallocMerge(i, size)
             \/ ReallocExtendLast(i, size)
      PROVE  Preserved
  <2>1. pc = "idle"
    BY <1>4 DEF ReallocKeep, ReallocMerge, ReallocExtendLast, ReallocExtend, Realloc
  <2>2. /\ IInv' /\ Undisturbed /\ Live' \subseteq Live
        /\ LiveData => ReallocData'
    BY <1>4, KeepStep, MergeStep, ExtendLastStep
  <2> QED
    BY <2>1, <2>2, ReallocStep DEF Up
<1>5. ASSUME NEW i \in Ids, NEW size \in Sizes, ReallocExtendFails(i, size)
      PROVE  Preserved
  <2>1. pc = "idle"
    BY <1>5 DEF ReallocExtendFails, Realloc
  <2>2. IInv' /\ Undisturbed /\ Live' = Live /\ bp' = NULL
    BY <1>5, ExtendFailsStep
  <2> QED
    BY <2>1, <2>2, CallStep DEF Up
<1>6. CASE SkipList \/ EnterList \/ TooSmall \/ EndOfList \/ NoFit
  <2>1. IInv' /\ Live' = Live /\ Undisturbed
    BY <1>6, SkipStep, EnterStep, TooSmallStep, EndStep, NoFitStep
  <2>2. pc \in {"scan", "list"} /\ pc' # "ret"
    BY <1>6 DEF SkipList, EnterList, TooSmall, EndOfList, NoFit
  <2> QED
    BY <2>1, <2>2, CallStep DEF Up
<1>7. CASE TakeFit \/ Grow
  <2>1. IInv' /\ Live' = Live /\ Undisturbed
    BY <1>7, TakeFitStep, GrowStep
  <2>2. pc \in {"list", "grow"} /\ (pc' # "ret" \/ call'.op # "realloc")
    BY <1>7 DEF TakeFit, Grow, PlaceAt
  <2> QED
    BY <2>1, <2>2, CallStep DEF Up
<1>8. CASE GrowFails
  <2>1. IInv' /\ Live' = Live /\ Undisturbed
    BY <1>8, GrowFailsStep
  <2>2. pc = "grow" /\ bp' = NULL
    BY <1>8 DEF GrowFails
  <2> QED
    BY <2>1, <2>2, CallStep DEF Up
<1>9. CASE Move
  <2>1. /\ IInv' /\ Undisturbed /\ Live' \subseteq Live
        /\ LiveData => ReallocData'
    BY <1>9, MoveStep
  <2>2. pc = "move"
    BY <1>9 DEF Move
  <2> QED
    BY <2>1, <2>2, ReallocStep DEF Up
<1>10. CASE Return
  <2>1. pc = "ret" /\ pc' = "idle"
    BY <1>10 DEF Return, TakeResult
  <2>2. CASE bp = NULL
    <3>1. IInv' /\ Live' = Live /\ Undisturbed
      BY <1>10, <2>2, ReturnNullStep
    <3> QED
      BY <2>1, <3>1, CallStep DEF Up
  <2>3. CASE bp # NULL
    <3>1. /\ IInv' /\ Undisturbed /\ Live' = Live \union {call.id}
          /\ Holds(mem', ptr'[call.id], psize'[call.id], call.id)
      BY <1>10, <2>3, ReturnBlockStep
    <3>2. LiveData => LiveData'
      BY <2>1, <3>1, KeepsPayloads DEF LiveData, Up
    <3> QED
      BY <2>1, <3>1, <3>2 DEF Preserved, ReallocData
  <2> QED
    BY <2>2, <2>3
<1>11. CASE UNCHANGED vars
  <2>1. UNCHANGED <<mem, mem_brk, ptr, psize, pc, call, bp, free_lists,
                    new_size, pos, blks>>
    BY <1>11 DEF vars, clientVars, allocVars
  <2>2. /\ Live' = Live /\ Owned' = Owned /\ KeptSize' = KeptSize
        /\ FreeBlocks' = FreeBlocks /\ CurrentHeap' = CurrentHeap
    BY <2>1 DEF Live, Moved, Owned, KeptSize, FreeBlocks, CurrentHeap
  <2>3. /\ \A k : Members(k)' = Members(k) /\ (Searchable(k)' <=> Searchable(k))
        /\ \A X : ClosedFrom(bp, X)' <=> ClosedFrom(bp, X)
        /\ Up' = Up /\ Working' = Working
    BY <2>1, <2>2 DEF Members, Searchable, ClosedFrom, Up, Working
  <2>4. TypeOK' /\ StructureInv' /\ OwnerInv' /\ CallInv'
    BY <2>1, <2>2, <2>3 DEF IInv, TypeOK, StructureInv, OwnerInv, CallInv, Needs
  <2>5. SearchInv'
    BY <2>1, <2>2, <2>3 DEF IInv, SearchInv, Seen, SeenList
  <2>6. LiveData /\ ReallocData => LiveData' /\ ReallocData'
    BY <2>1, <2>2 DEF LiveData, ReallocData
  <2> QED
    BY <2>4, <2>5, <2>6 DEF Preserved, IInv
<1> QED
  BY <1>1, <1>2, <1>3, <1>4, <1>5, <1>6, <1>7, <1>8, <1>9, <1>10, <1>11
  DEF SoundNext, SoundCall, AllocatorStep

LEMMA Invariance == SoundSpec => [](IInv /\ PayloadsIntact)
<1>1. Init => IInv /\ PayloadsIntact
  BY InitHolds DEF PayloadsIntact, Live, Init, ClientInit
<1>2. PayloadsIntact <=> LiveData /\ ReallocData
  BY DEF PayloadsIntact, LiveData, ReallocData
<1>3. (PayloadsIntact <=> LiveData /\ ReallocData)'
  BY DEF PayloadsIntact, LiveData, ReallocData
<1>4. (IInv /\ PayloadsIntact) /\ [SoundNext]_vars => (IInv /\ PayloadsIntact)'
  BY <1>2, <1>3, StepHolds DEF Preserved
<1> QED
  BY <1>1, <1>4, PTL DEF SoundSpec

-----------------------------------------------------------------------------
(* The search.                                                             *)

(* A list's blocks from b on, if its sizes ascend, are no smaller than b. *)
LEMMA NoSmallerAhead ==
  ASSUME IInv, Up, NEW k \in 0 .. LIST_MAX - 1, bp \in Members(k),
         NEW X, X = {c \in Members(k) : Size(mem, bp) <= Size(mem, c)}
  PROVE  X \in SUBSET Members(k) /\ ClosedFrom(bp, X)
<1>1. /\ \A c \in Members(k) : SUCC_NODE(mem, c) \in Members(k) \union {NULL}
      /\ Members(k) \subseteq FreeBlocks
  BY ExactLists DEF StaysIn, Members
<1>2. \A c \in FreeBlocks : Size(mem, c) \in Nat
  BY FreeFacts
<1>3. ASSUME NEW c \in X, SUCC_NODE(mem, c) # NULL
      PROVE  SUCC_NODE(mem, c) \in X
  <2>1. PICK s : s = SUCC_NODE(mem, c)
    OBVIOUS
  <2>2. c \in FreeBlocks /\ s # NULL /\ s \in Members(k) /\ s \in FreeBlocks
    BY <1>1, <1>3, <2>1
  <2>3. Size(mem, c) <= Size(mem, s)
    BY <2>1, <2>2, ExactLists DEF FreeListsExact
  <2>4. Size(mem, bp) <= Size(mem, s)
    BY <1>1, <1>2, <2>2, <2>3
  <2> QED
    BY <2>1, <2>2, <2>4
<1>4. bp \in X
  BY <1>1, <1>2
<1> QED
  BY <1>3, <1>4 DEF ClosedFrom

(* Blocks of a later list are larger. *)
LEMMA LaterIsLarger ==
  ASSUME NEW s \in Nat, NEW t \in Nat, ListOf(s) < ListOf(t)
  PROVE  s <= t
<1>1. PICK j : j = ListOf(s)
  OBVIOUS
<1>2. PICK k : k = ListOf(t)
  OBVIOUS
<1>3. /\ j \in 0 .. LIST_MAX - 1 /\ k \in 0 .. LIST_MAX - 1 /\ j < k
      /\ LIST_MAX \in Nat
  BY <1>1, <1>2, ListOfSize, ListAssumption
<1>4. j < LIST_MAX - 1 => s < 2 ^ (j + 1)
  BY <1>1, ListOfSize
<1>5. k > 0 => t >= 2 ^ k
  BY <1>2, ListOfSize
<1>6. PICK i : i = j + 1
  OBVIOUS
<1>7. i \in 0 .. LIST_MAX /\ k \in 0 .. LIST_MAX /\ i <= k
  BY <1>3, <1>6
<1>8. 2 ^ i \in Nat /\ 2 ^ k \in Nat /\ 2 ^ i <= 2 ^ k
  BY <1>7, PowersGrow
<1>9. s < 2 ^ i /\ t >= 2 ^ k
  BY <1>3, <1>4, <1>5, <1>6
<1> QED
  BY <1>8, <1>9

LEMMA BestFound ==
  ASSUME IInv
  PROVE  BestFit
<1>1. new_size \in Nat /\ LIST_MAX \in Nat
  BY ListAssumption DEF IInv, TypeOK
<1>2. ASSUME pc = "list", bp # NULL, Size(mem, bp) >= new_size,
             NEW b \in FreeBlocks, Size(mem, b) >= new_size
      PROVE  Size(mem, bp) <= Size(mem, b)
  <2>1. Up
    BY <1>2 DEF Up
  <2>2. PICK s : s = Size(mem, bp)
    OBVIOUS
  <2>3. PICK t : t = Size(mem, b)
    OBVIOUS
  <2>4. /\ Seen(pos) /\ pos < LIST_MAX /\ Searchable(pos) /\ bp \in Members(pos)
        /\ pos \in 0 .. LIST_MAX
    BY <1>2 DEF IInv, SearchInv, SeenList, TypeOK
  <2>5. pos \in 0 .. LIST_MAX - 1
    BY <1>1, <2>4
  <2>6. s \in Nat /\ t \in Nat /\ ListOf(s) = pos /\ ListOf(t) \in 0 .. LIST_MAX - 1
    <3>1. bp \in FreeBlocks /\ ListOf(s) = pos
      BY <2>2, <2>4 DEF Members
    <3>2. s \in Nat /\ t \in Nat
      BY <1>2, <2>1, <2>2, <2>3, <3>1, FreeFacts
    <3> QED
      BY <3>1, <3>2, ListOfSize
  <2>7. CASE ListOf(t) < pos
    <3>1. t < new_size \/ new_size >= 2 ^ LIST_MAX
      BY <1>2, <2>3, <2>4, <2>7 DEF Seen
    <3>2. PICK i : i = pos + 1
      OBVIOUS
    <3>3. 2 ^ i \in Nat /\ new_size < 2 ^ i
      BY <1>1, <2>4, <2>5, <3>2, SearchRange
    <3>4. i \in 0 .. LIST_MAX /\ LIST_MAX \in 0 .. LIST_MAX /\ i <= LIST_MAX
      BY <1>1, <2>5, <3>2
    <3>5. 2 ^ LIST_MAX \in Nat /\ 2 ^ i <= 2 ^ LIST_MAX
      BY <3>4, PowersGrow
    <3> QED
      BY <1>1, <1>2, <2>3, <2>6, <3>1, <3>3, <3>5
  <2>8. CASE ListOf(t) = pos
    <3>1. PICK X : X = {c \in Members(pos) : Size(mem, bp) <= Size(mem, c)}
      OBVIOUS
    <3>2. X \in SUBSET Members(pos) /\ ClosedFrom(bp, X)
      BY <2>1, <2>4, <2>5, <3>1, NoSmallerAhead
    <3>3. b \in Members(pos)
      BY <1>2, <2>3, <2>8 DEF Members
    <3>4. b \in X
      BY <1>2, <3>2, <3>3 DEF IInv, SearchInv, SeenList
    <3> QED
      BY <3>1, <3>4
  <2>9. CASE ListOf(t) > pos
    BY <2>2, <2>3, <2>6, <2>9, LaterIsLarger
  <2> QED
    BY <2>5, <2>6, <2>7, <2>8, <2>9
<1>3. ASSUME pc = "grow", new_size < 2 ^ LIST_MAX, NEW b \in FreeBlocks
      PROVE  Size(mem, b) < new_size
  <2>1. Up
    BY <1>3 DEF Up
  <2>2. PICK t : t = Size(mem, b)
    OBVIOUS
  <2>3. t \in Nat /\ ListOf(t) < LIST_MAX
    <3>1. t \in Nat
      BY <1>3, <2>1, <2>2, FreeFacts
    <3> QED
      BY <1>1, <3>1, ListOfSize
  <2>4. pos = LIST_MAX /\ Seen(pos)
    BY <1>3 DEF IInv, SearchInv
  <2>5. t < new_size \/ new_size >= 2 ^ LIST_MAX
    BY <1>3, <2>2, <2>3, <2>4 DEF Seen
  <2>6. 2 ^ LIST_MAX \in Nat
    <3>1. LIST_MAX \in 0 .. LIST_MAX
      BY <1>1
    <3> QED
      BY <3>1, PowersGrow
  <2> QED
    BY <1>1, <1>3, <2>2, <2>3, <2>5, <2>6
<1> QED
  BY <1>2, <1>3 DEF BestFit

-----------------------------------------------------------------------------
(* The allocator implements the contract.                                  *)

LEMMA GrantStep ==
  ASSUME IInv, Return, bp # NULL
  PROVE  Contract!Grant(call.id)
<1>1. PICK id : id = call.id
  OBVIOUS
<1>2. PICK size : size = call.size
  OBVIOUS
<1>3. /\ pc = "ret" /\ pc' = "idle"
      /\ ptr' = [ptr EXCEPT ![id] = bp] /\ psize' = [psize EXCEPT ![id] = size]
      /\ mem_brk' = mem_brk
  BY <1>1, <1>2 DEF Return, TakeResult
<1>4. IInv' /\ id \notin Live /\ Live' = Live \union {id} /\ Up'
  BY <1>1, <1>3, ReturnBlockStep DEF Up
<1>5. /\ id \in Ids /\ ptr \in [Ids -> Node] /\ psize \in [Ids -> Nat]
  BY <1>1, <1>3 DEF IInv, CallInv, Call, TypeOK
<1>6. /\ ptr'[id] = bp /\ psize'[id] = size
      /\ \A j \in Ids \ {id} : ptr'[j] = ptr[j] /\ psize'[j] = psize[j]
  BY <1>3, <1>5
<1>7. size > 0
  BY <1>2, <1>3, PayloadFits
<1>8. Tiled(mem', mem_brk', blks')
  <2>1. Sound(CurrentHeap', mem_brk', blks') /\ CurrentHeap'.mem = mem'
    <3>1. TypeOK' /\ Sound(CurrentHeap', mem_brk', blks')
      BY <1>4 DEF IInv, StructureInv
    <3>2. CurrentHeap' = [mem |-> mem', lists |-> free_lists']
      BY DEF CurrentHeap
    <3> QED
      BY <3>1, <3>2
  <2> QED
    BY <2>1 DEF Sound, Heap
<1>9. ASSUME NEW j \in Live'
      PROVE  ptr'[j] \in blks' /\ Covers(mem', ptr'[j], psize'[j])
  <2>1. ptr'[j] \in Owned'
    BY <1>3 DEF Owned
  <2>2. ptr'[j] \in Allocated(mem', blks')
    BY <1>4, <2>1 DEF IInv, OwnerInv
  <2>3. Size(mem', ptr'[j]) >= psize'[j] + DSIZE
    BY <1>4 DEF IInv, OwnerInv
  <2>4. psize' \in [Ids -> Nat]
    BY <1>4 DEF IInv, TypeOK
  <2>5. j \in Ids
    BY DEF Live
  <2> QED
    BY <2>2, <2>3, <2>4, <2>5 DEF Allocated, Covers
<1>10. InHeap(mem_brk', bp, size)
  <2>1. bp \in blks' /\ Covers(mem', bp, size)
    BY <1>4, <1>6, <1>9
  <2> QED
    BY <1>8, <2>1, PayloadInHeap
<1>11. ASSUME NEW j \in Ids \ {id}, ptr[j] # 0
       PROVE  Contract!Disjoint(bp, size, ptr[j], psize[j])
  <2>1. j \in Live'
    BY <1>1, <1>4, <1>11 DEF Live, Moved, NULL
  <2>2. /\ bp \in blks' /\ Covers(mem', bp, size)
        /\ ptr[j] \in blks' /\ Covers(mem', ptr[j], psize[j])
    BY <1>4, <1>6, <1>9, <2>1
  <2>3. bp # ptr[j]
    BY <1>4, <1>6, <2>1 DEF IInv, OwnerInv
  <2> QED
    BY <1>8, <2>2, <2>3, PayloadsApart DEF Contract!Disjoint, Apart
<1>12. Contract!Grant(id)
  BY <1>3, <1>6, <1>7, <1>10, <1>11 DEF Contract!Grant, InHeap
<1> QED
  BY <1>1, <1>12

LEMMA StepRefines ==
  ASSUME IInv, IInv', [SoundNext]_vars
  PROVE  [Contract!Next]_(Contract!vars)
<1>1. CASE mm_init
  <2>1. /\ ptr' = [i \in Ids |-> 0] /\ psize' = [i \in Ids |-> 0]
        /\ mem_brk' \in mem_start_brk .. mem_max_addr
    BY <1>1 DEF mm_init, InitOver, ClientReset, NULL, IInv, TypeOK
  <2> QED
    BY <2>1 DEF Contract!Next, Contract!Reset
<1>2. ASSUME NEW i \in Ids, CallFree(i)
      PROVE  [Contract!Next]_(Contract!vars)
  <2>1. Contract!Release(i)
    BY <1>2 DEF CallFree, Contract!Release, NULL
  <2> QED
    BY <2>1 DEF Contract!Next
<1>3. CASE Grow
  <2>1. UNCHANGED <<ptr, psize>> /\ mem_brk' \in mem_brk + 1 .. mem_max_addr
    BY <1>3, GrowStep DEF Grow
  <2> QED
    BY <2>1 DEF Contract!Next, Contract!Grow
<1>4. ASSUME NEW i \in Ids, NEW size \in Sizes, ReallocExtendLast(i, size)
      PROVE  [Contract!Next]_(Contract!vars)
  <2>1. UNCHANGED <<ptr, psize>> /\ mem_brk' \in mem_brk + 1 .. mem_max_addr
    BY <1>4, ExtendLastStep DEF ReallocExtendLast, ReallocExtend, Realloc
  <2> QED
    BY <2>1 DEF Contract!Next, Contract!Grow
<1>5. CASE Return
  <2>1. CASE bp # NULL
    <3>1. Contract!Grant(call.id)
      BY <1>5, <2>1, GrantStep
    <3>2. call.id \in Ids
      BY <1>5 DEF Return, TakeResult, IInv, CallInv, Call
    <3> QED
      BY <3>1, <3>2 DEF Contract!Next
  <2>2. CASE bp = NULL
    BY <1>5, <2>2 DEF Return, TakeResult, Contract!vars
  <2> QED
    BY <2>1, <2>2
<1>6. CASE SkipList \/ EnterList \/ TooSmall \/ EndOfList \/ NoFit
           \/ TakeFit \/ GrowFails \/ Move
  BY <1>6 DEF SkipList, EnterList, TooSmall, EndOfList, NoFit, TakeFit,
              GrowFails, Move, Contract!vars
<1>7. ASSUME NEW i \in Ids, NEW size \in Sizes,
             \/ CallMalloc(i, size) \/ ReallocSearch(i, size)
             \/ ReallocKeep(i, size) \/ ReallocMerge(i, size)
             \/ ReallocExtendFails(i, size)
      PROVE  [Contract!Next]_(Contract!vars)
  BY <1>7 DEF CallMalloc, ReallocSearch, StartSearch, ReallocKeep, ReallocMerge,
              ReallocExtendFails, Realloc, Contract!vars
<1>8. CASE UNCHANGED vars
  BY <1>8 DEF vars, clientVars, Contract!vars
<1> QED
  BY <1>1, <1>2, <1>3, <1>4, <1>5, <1>6, <1>7, <1>8
  DEF SoundNext, SoundCall, AllocatorStep

-----------------------------------------------------------------------------
(* Every variable holds a value of its kind in every reachable state.      *)
THEOREM TypeCorrect == SoundSpec => []TypeOK
<1>1. IInv /\ PayloadsIntact => TypeOK
  BY DEF IInv
<1> QED
  BY <1>1, Invariance, PTL

(* place (whichever half of the block it gives away), coalesce,            *)
(* extend_heap and the four ways through mm_realloc keep the boundary tags *)
(* a tiling of the heap into blocks that have room for two links, no two   *)
(* neighbours of which are free.                                           *)
THEOREM TagsTileTheHeap == SoundSpec => []HeapTiled
<1>1. IInv => HeapTiled
  <2> SUFFICES ASSUME IInv, Up
               PROVE  /\ Tiled(mem, mem_brk, blks) /\ MinimumSize(mem, blks)
                      /\ Coalesced(mem, blks)
    BY DEF HeapTiled, IInv
  <2> QED
    BY Situation DEF Heap
<1>2. IInv /\ PayloadsIntact => HeapTiled
  BY <1>1
<1> QED
  BY <1>2, Invariance, PTL

(* insert_node and delete_node, called by coalesce, place and mm_realloc   *)
(* with the size a block has at that moment, keep every free block in the  *)
(* one list of its size, in order, and nothing else in any list.           *)
THEOREM ListsHoldTheFreeBlocks == SoundSpec => []FreeListsExact
<1>1. IInv => FreeListsExact
  <2>1. IInv /\ Up => FreeListsExact
    BY ExactLists
  <2>2. ~Up => FreeListsExact
    BY DEF FreeListsExact
  <2> QED
    BY <2>1, <2>2
<1>2. IInv /\ PayloadsIntact => FreeListsExact
  BY <1>1
<1> QED
  BY <1>2, Invariance, PTL

(* The allocated blocks are the prologue and those somebody holds: neither *)
(* a reallocation in place nor a failed call leaks or frees one.           *)
THEOREM OwnersAccountForBlocks == SoundSpec => []NoLeak
<1>1. IInv => NoLeak
  <2> SUFFICES ASSUME IInv, Up
               PROVE  blks \ FreeBlocks = Owned \union {heap_listp}
    BY DEF NoLeak
  <2>1. blks \ FreeBlocks = Allocated(mem, blks)
    BY DEF FreeBlocks, Allocated
  <2> QED
    BY <2>1, Situation
<1>2. IInv /\ PayloadsIntact => NoLeak
  BY <1>1
<1> QED
  BY <1>2, Invariance, PTL

(* A client's data stay in its payload until it frees the block, and every *)
(* way through mm_realloc returns them: kept, merged, extended or moved.   *)
THEOREM PayloadsSurvive == SoundSpec => []PayloadsIntact
BY Invariance, PTL

(* find_fit settles on a smallest block that is large enough, and the heap *)
(* grows only if there is none (requests of 2^LIST_MAX bytes apart).       *)
THEOREM FindsBestFit == SoundSpec => []BestFit
<1>1. IInv /\ PayloadsIntact => BestFit
  BY BestFound
<1> QED
  BY <1>1, Invariance, PTL

(* Every behaviour without ReallocExtendPast is one of the contract that   *)
(* the driver checks: aligned, disjoint payloads inside the heap.          *)
THEOREM Refinement == SoundSpec => ImplementsContract
<1>1. Init => Contract!Init
  BY DEF Init, ClientInit, Contract!Init, NULL
<1>2. (IInv /\ PayloadsIntact) /\ (IInv /\ PayloadsIntact)' /\ [SoundNext]_vars
        => [Contract!Next]_(Contract!vars)
  BY StepRefines
<1> QED
  BY <1>1, <1>2, Invariance, PTL DEF SoundSpec, ImplementsContract, Contract!Spec
=============================================================================
