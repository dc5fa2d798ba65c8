-------------------------- MODULE LinkedListProofs --------------------------
(***************************************************************************)
(* Proofs about linked_list.c for lists of any capacity and any heap:      *)
(* ListInv is inductive, and the list implements a bounded sequence.  The  *)
(* lemmas ListPush, ListRemove and ListPrioritise are about one operation  *)
(* each, so that modules that use a list can cite them.                    *)
(***************************************************************************)
EXTENDS ListCalls, TLAPS

ListInv == ListTypeOK /\ RingOK

(* The position of an allocated node is determined: IndexOf finds it. *)
LEMMA NodeIndex ==
  ASSUME ListInv, NEW node \in Addr, next[node] # NULL
  PROVE  /\ IndexOf(order, node) \in 1..Len(order)
         /\ order[IndexOf(order, node)] = node
         /\ Len(order) \in Nat
  <1>1. \E i \in 1..Len(order) : order[i] = node
    BY DEF ListInv, RingOK, OrderCoversHeap
  <1>2. Len(order) \in Nat
    BY DEF ListInv, ListTypeOK
  <1> QED BY <1>1, <1>2 DEF IndexOf

(* The initial list of list_create satisfies the invariant. *)
LEMMA ListInitInv == ListInit => ListInv
  BY ListAssumption DEF ListInit, ListInv, ListTypeOK, RingOK, OrderCoversHeap

(* list_push keeps the pointers one ring, for any item and any fresh node. *)
LEMMA ListPush ==
  ASSUME ListInv, NEW x \in Item, NEW n \in Addr, list_push(x, n)
  PROVE  ListInv'
  <1> USE ListAssumption
  <1> DEFINE k == Len(order)
  <1>0. /\ k \in Nat /\ order \in Seq(Addr) /\ item_count = k /\ k < Capacity
        /\ next[n] = NULL
    BY DEF ListInv, ListTypeOK, RingOK, list_push, list_is_full, Allocated
  <1>1. /\ Len(order') = k + 1
        /\ order' \in Seq(Addr)
        /\ \A i \in 1..k : order'[i] = order[i]
        /\ order'[k + 1] = n
    BY <1>0 DEF list_push
  <1>2. \A i \in 1..k : order[i] \in Addr /\ order[i] # n
    BY <1>0 DEF ListInv, RingOK, OrderCoversHeap
  <1>3. CASE head = NULL
    <2>1. order = << >> /\ k = 0
      BY <1>0, <1>2, <1>3 DEF ListInv, RingOK
    <2>2. ListTypeOK'
      BY <1>0, <1>1, <1>3 DEF ListInv, ListTypeOK, list_push
    <2>3. OrderCoversHeap'
      BY <1>0, <1>1, <1>3, <2>1
         DEF ListInv, ListTypeOK, RingOK, OrderCoversHeap, list_push
    <2>4. RingOK'
      BY <1>0, <1>1, <1>3, <2>1, <2>3
         DEF ListInv, ListTypeOK, RingOK, Succ, list_push
    <2> QED BY <2>2, <2>4 DEF ListInv
  <1>4. CASE head # NULL
    <2>1. /\ k > 0 /\ head = order[k] /\ tail = order[1]
          /\ head \in Addr /\ tail \in Addr
      BY <1>0, <1>4, <1>2 DEF ListInv, RingOK
    <2>2. /\ next' = [next EXCEPT ![head] = n, ![n] = tail]
          /\ previous' = [previous EXCEPT ![n] = head, ![tail] = n]
          /\ head' = n /\ tail' = tail /\ item_count' = item_count + 1
          /\ item' = [item EXCEPT ![n] = x]
      BY <1>4 DEF list_push
    <2>3. ListTypeOK'
      <3>1. next' \in [Addr -> Addr \cup {NULL}]
        BY <2>1, <2>2 DEF ListInv, ListTypeOK
      <3>2. previous' \in [Addr -> Addr \cup {NULL}]
        BY <2>1, <2>2 DEF ListInv, ListTypeOK
      <3>3. item' \in [Addr -> Item \cup {NULL}]
        BY <2>2 DEF ListInv, ListTypeOK
      <3>4. item_count' \in 0..Capacity
        BY <1>0, <2>2
      <3> QED BY <1>1, <2>1, <2>2, <3>1, <3>2, <3>3, <3>4 DEF ListTypeOK
    <2>4. /\ \A i \in 1..(k - 1) : next'[order[i]] = order[i + 1]
          /\ next'[order[k]] = n
          /\ next'[n] = order[1]
      <3>1. \A i \in 1..(k - 1) : order[i] # head /\ next[order[i]] = order[i + 1]
        BY <1>0, <2>1 DEF ListInv, RingOK, OrderCoversHeap, Succ
      <3> QED BY <1>0, <1>2, <2>1, <2>2, <3>1 DEF ListInv, ListTypeOK
    <2>5. /\ \A i \in 1..(k - 1) : previous'[order[i + 1]] = order[i]
          /\ previous'[n] = order[k]
          /\ previous'[order[1]] = n
      <3>1. \A i \in 1..(k - 1) : order[i + 1] # tail /\ previous[order[i + 1]] = order[i]
        BY <1>0, <2>1 DEF ListInv, RingOK, OrderCoversHeap, Succ
      <3> QED BY <1>0, <1>2, <2>1, <2>2, <3>1 DEF ListInv, ListTypeOK
    <2>6. OrderCoversHeap'
      <3>1. \A a \in Addr : next'[a] # NULL => a = n \/ next[a] # NULL
        BY <2>1, <2>2, <1>0 DEF ListInv, ListTypeOK, RingOK, OrderCoversHeap
      <3>2. \A a \in Addr : next'[a] # NULL => \E i \in 1..(k + 1) : order'[i] = a
        BY <1>0, <1>1, <3>1 DEF ListInv, RingOK, OrderCoversHeap
      <3>3. \A i \in 1..(k + 1) : next'[order'[i]] # NULL
        BY <1>0, <1>1, <1>2, <2>4, <2>1
      <3>4. \A i, j \in 1..(k + 1) : order'[i] = order'[j] => i = j
        BY <1>0, <1>1, <1>2 DEF ListInv, RingOK, OrderCoversHeap
      <3> QED BY <1>1, <3>2, <3>3, <3>4 DEF OrderCoversHeap
    <2>7. \A i \in 1..(k + 1) : /\ next'[order'[i]] = order'[Succ(i)']
                                /\ previous'[order'[Succ(i)']] = order'[i]
      BY <1>0, <1>1, <2>1, <2>4, <2>5 DEF Succ
    <2>8. RingOK'
      <3>1. order' # << >> /\ head' = order'[k + 1] /\ tail' = order'[1]
        BY <1>0, <1>1, <2>1, <2>2
      <3>2. item_count' = Len(order')
        BY <1>0, <1>1, <2>2
      <3> QED BY <1>1, <2>6, <2>7, <3>1, <3>2 DEF RingOK
    <2> QED BY <2>3, <2>8 DEF ListInv
  <1> QED BY <1>3, <1>4

(* list_remove of any node of the list keeps the pointers one ring: the node
   is freed and its two neighbours become each other's. *)
LEMMA ListRemove ==
  ASSUME ListInv, NEW node \in Addr, next[node] # NULL, list_remove(node)
  PROVE  ListInv'
  <1> USE ListAssumption
  <1> DEFINE k == Len(order)
             r == IndexOf(order, node)
             P == IF r = 1 THEN k ELSE r - 1
             S == IF r = k THEN 1 ELSE r + 1
  <1>0. /\ k \in Nat /\ r \in 1..k /\ order[r] = node
        /\ order \in Seq(Addr) /\ item_count = k
        /\ P \in 1..k /\ S \in 1..k
    BY NodeIndex DEF ListInv, ListTypeOK, RingOK
  <1>1. /\ order' \in Seq(Addr) /\ Len(order') = k - 1
        /\ \A j \in 1..(k - 1) : order'[j] = IF j < r THEN order[j] ELSE order[j + 1]
    BY <1>0 DEF list_remove, Without
  <1>2. /\ next[node] = order[S] /\ previous[node] = order[P]
        /\ order[S] \in Addr /\ order[P] \in Addr
        /\ \A i, j \in 1..k : order[i] = order[j] => i = j
        /\ order # << >>
        /\ head = order[k] /\ tail = order[1]
    BY <1>0 DEF ListInv, RingOK, OrderCoversHeap, Succ
  <1>3. /\ next' = [next EXCEPT ![order[P]] = order[S], ![node] = NULL]
        /\ previous' = [previous EXCEPT ![order[S]] = order[P], ![node] = NULL]
        /\ item' = [item EXCEPT ![node] = NULL]
        /\ item_count' = k - 1
    BY <1>0, <1>2 DEF list_remove
  <1>4. /\ next' \in [Addr -> Addr \cup {NULL}]
        /\ previous' \in [Addr -> Addr \cup {NULL}]
    BY <1>2, <1>3 DEF ListInv, ListTypeOK
  <1>5. item' \in [Addr -> Item \cup {NULL}] /\ item_count' \in 0..Capacity
    BY <1>0, <1>3 DEF ListInv, ListTypeOK
  <1>6. CASE k = 1
    <2>1. head' = NULL /\ tail' = NULL
      BY <1>0, <1>2, <1>6 DEF list_remove, HeadAfterRemove, TailAfterRemove
    <2>2. order' = << >>
      BY <1>1, <1>6
    <2>3. \A a \in Addr : next'[a] = NULL
      BY <1>0, <1>3, <1>6 DEF ListInv, ListTypeOK, RingOK, OrderCoversHeap
    <2>4. ListTypeOK'
      BY <1>1, <1>4, <1>5, <2>1 DEF ListTypeOK
    <2>5. RingOK'
      <3>1. Len(order') = 0 /\ item_count' = 0
        BY <1>1, <1>3, <1>6
      <3> QED BY <2>1, <2>2, <2>3, <3>1 DEF RingOK, OrderCoversHeap
    <2> QED BY <2>4, <2>5 DEF ListInv
  <1>7. CASE k > 1
    <2>1. P # r /\ S # r /\ order[P] # node /\ order[S] # node
      BY <1>0, <1>2, <1>7
    <2>2. \A m \in 1..k : m # r =>
            /\ order[m] \in Addr /\ order[m] # node
            /\ next'[order[m]] = IF m = P THEN order[S] ELSE next[order[m]]
            /\ previous'[order[m]] = IF m = S THEN order[P] ELSE previous[order[m]]
      BY <1>0, <1>2, <1>3, <2>1 DEF ListInv, ListTypeOK
    <2>3. \A m \in 1..k : /\ next[order[m]] = order[IF m = k THEN 1 ELSE m + 1]
                          /\ previous[order[m]] = order[IF m = 1 THEN k ELSE m - 1]
      <3>1. \A m \in 1..k : /\ next[order[m]] = order[IF m = k THEN 1 ELSE m + 1]
                            /\ previous[order[IF m = k THEN 1 ELSE m + 1]] = order[m]
        BY <1>0 DEF ListInv, RingOK, Succ
      <3> QED BY <1>0, <3>1
    <2>4. /\ head' = IF r = k THEN order[k - 1] ELSE order[k]
          /\ tail' = IF r = 1 THEN order[2] ELSE order[1]
      BY <1>0, <1>2, <1>7, <2>3 DEF list_remove, HeadAfterRemove, TailAfterRemove
    <2>5. /\ head' = order'[k - 1] /\ tail' = order'[1] /\ order' # << >>
          /\ head' \in Addr /\ tail' \in Addr
      BY <1>0, <1>1, <1>7, <2>4
    <2>6. OrderCoversHeap'
      <3>1. \A a \in Addr : next'[a] # NULL => a # node /\ next[a] # NULL
        BY <1>0, <1>2, <1>3 DEF ListInv, ListTypeOK, RingOK, OrderCoversHeap
      <3>2. \A m \in 1..k : m # r => \E j \in 1..(k - 1) : order'[j] = order[m]
        <4> SUFFICES ASSUME NEW m \in 1..k, m # r
                     PROVE  \E j \in 1..(k - 1) : order'[j] = order[m]
          OBVIOUS
        <4>1. CASE m < r
          BY <4>1, <1>0, <1>1
        <4>2. CASE m > r
          <5>1. m - 1 \in 1..(k - 1) /\ order'[m - 1] = order[m]
            BY <4>2, <1>0, <1>1
          <5> QED BY <5>1
        <4> QED BY <4>1, <4>2, <1>0
      <3>3. \A a \in Addr : next'[a] # NULL => \E j \in 1..Len(order') : order'[j] = a
        <4> SUFFICES ASSUME NEW a \in Addr, next'[a] # NULL
                     PROVE  \E j \in 1..(k - 1) : order'[j] = a
          BY <1>1
        <4>1. PICK m \in 1..k : order[m] = a
          BY <3>1 DEF ListInv, RingOK, OrderCoversHeap
        <4> QED BY <4>1, <3>1, <3>2, <1>0
      <3> DEFINE m(j) == IF j < r THEN j ELSE j + 1
      <3>a. \A j \in 1..(k - 1) : m(j) \in 1..k /\ m(j) # r /\ order'[j] = order[m(j)]
        <4> SUFFICES ASSUME NEW j \in 1..(k - 1)
                     PROVE  m(j) \in 1..k /\ m(j) # r /\ order'[j] = order[m(j)]
          OBVIOUS
        <4>1. m(j) \in 1..k /\ m(j) # r
          BY <1>0
        <4>2. CASE j < r
          BY <4>2, <1>1
        <4>3. CASE ~(j < r)
          BY <4>3, <1>1
        <4> QED BY <4>1, <4>2, <4>3
      <3>4. \A j \in 1..(k - 1) : next'[order'[j]] # NULL
        <4>1. \A i \in 1..k : next[order[i]] # NULL
          BY DEF ListInv, RingOK, OrderCoversHeap
        <4>2. \A i \in 1..k : i # r => next'[order[i]] # NULL
          BY <4>1, <2>2, <1>2, <1>0
        <4> QED BY <3>a, <4>2
      <3>5. \A i, j \in 1..(k - 1) : order'[i] = order'[j] => i = j
        <4> SUFFICES ASSUME NEW i \in 1..(k - 1), NEW j \in 1..(k - 1),
                            order'[i] = order'[j]
                     PROVE  i = j
          OBVIOUS
        <4>1. m(i) = m(j)
          <5> HIDE DEF m
          <5> QED BY <3>a, <1>2
        <4> QED BY <4>1, <1>0
      <3> QED BY <1>1, <3>3, <3>4, <3>5 DEF OrderCoversHeap
    <2>7. \A j \in 1..(k - 1) : /\ next'[order'[j]] = order'[IF j = k - 1 THEN 1 ELSE j + 1]
                                /\ previous'[order'[IF j = k - 1 THEN 1 ELSE j + 1]] = order'[j]
      <3> SUFFICES ASSUME NEW j \in 1..(k - 1)
                   PROVE  /\ next'[order'[j]] = order'[IF j = k - 1 THEN 1 ELSE j + 1]
                          /\ previous'[order'[IF j = k - 1 THEN 1 ELSE j + 1]] = order'[j]
        OBVIOUS
      <3> DEFINE m == IF j < r THEN j ELSE j + 1
                 q == IF j = k - 1 THEN 1 ELSE j + 1
                 mq == IF q < r THEN q ELSE q + 1
      <3>1. /\ m \in 1..k /\ m # r /\ order'[j] = order[m]
            /\ q \in 1..(k - 1) /\ mq \in 1..k /\ mq # r /\ order'[q] = order[mq]
        BY <1>0, <1>1, <1>7
      <3>2. next'[order[m]] = order[mq]
        <4>1. CASE m = P
          <5>1. mq = S
            BY <4>1, <1>0, <1>7
          <5> QED BY <4>1, <5>1, <2>2, <3>1
        <4>2. CASE m # P
          <5>1. mq = IF m = k THEN 1 ELSE m + 1
            BY <4>2, <1>0, <1>7
          <5> QED BY <4>2, <5>1, <2>2, <2>3, <3>1
        <4> QED BY <4>1, <4>2
      <3>3. previous'[order[mq]] = order[m]
        <4>1. CASE mq = S
          <5>1. m = P
            BY <4>1, <1>0, <1>7
          <5> QED BY <4>1, <5>1, <2>2, <3>1
        <4>2. CASE mq # S
          <5>1. m = IF mq = 1 THEN k ELSE mq - 1
            BY <4>2, <1>0, <1>7
          <5> QED BY <4>2, <5>1, <2>2, <2>3, <3>1
        <4> QED BY <4>1, <4>2
      <3> QED BY <3>1, <3>2, <3>3
    <2>8. ListTypeOK'
      BY <1>1, <1>4, <1>5, <2>5 DEF ListTypeOK
    <2>9. RingOK'
      BY <1>0, <1>1, <1>3, <2>5, <2>6, <2>7 DEF RingOK, Succ
    <2> QED BY <2>8, <2>9 DEF ListInv
  <1> QED BY <1>0, <1>6, <1>7

(* Rotating the positions 1..k of a ring keeps what follows what. *)
LEMMA RotatedIndex ==
  ASSUME NEW k \in Nat, NEW r \in 1..k, NEW j \in 1..k
  PROVE  LET at(i) == IF i + r - 1 <= k THEN i + r - 1 ELSE i + r - 1 - k
             q == IF j = k THEN 1 ELSE j + 1
         IN /\ q \in 1..k /\ at(j) \in 1..k /\ at(q) \in 1..k
            /\ at(q) = IF at(j) = k THEN 1 ELSE at(j) + 1
  <1>1. CASE j = k
    BY <1>1
  <1>2. CASE j < k
    BY <1>2
  <1> QED BY <1>1, <1>2

(* list_prioritise only moves the two ends along the ring. *)
LEMMA ListPrioritise ==
  ASSUME ListInv, NEW node \in Addr, next[node] # NULL, list_prioritise(node)
  PROVE  ListInv'
  <1> USE ListAssumption
  <1> DEFINE k == Len(order)
             r == IndexOf(order, node)
             at(j) == IF j + r - 1 <= k THEN j + r - 1 ELSE j + r - 1 - k
  <1>0. /\ k \in Nat /\ r \in 1..k /\ order[r] = node
        /\ order \in Seq(Addr) /\ item_count = k
    BY NodeIndex DEF ListInv, ListTypeOK, RingOK
  <1>1. /\ order' \in Seq(Addr) /\ Len(order') = k
        /\ \A j \in 1..k : at(j) \in 1..k /\ order'[j] = order[at(j)]
    <2>1. \A j \in 1..k : at(j) \in 1..k
      BY <1>0
    <2>2. order' = [j \in 1..k |-> order[at(j)]]
      <3>1. order' = Rotated(order, r)
        BY DEF list_prioritise
      <3>2. \A j \in 1..k : (IF j + r - 1 <= k THEN order[j + r - 1]
                                               ELSE order[j + r - 1 - k])
                             = order[at(j)]
        OBVIOUS
      <3> QED BY <3>1, <3>2 DEF Rotated
    <2>3. \A j \in 1..k : order[at(j)] \in Addr
      BY <1>0, <2>1
    <2> QED BY <1>0, <2>1, <2>2, <2>3
  <1>2. UNCHANGED <<next, previous, item, item_count>>
    BY DEF list_prioritise
  <1>3. \A m \in 1..k : /\ next[order[m]] = order[IF m = k THEN 1 ELSE m + 1]
                        /\ previous[order[IF m = k THEN 1 ELSE m + 1]] = order[m]
    BY <1>0 DEF ListInv, RingOK, Succ
  <1>4. previous[node] = order[IF r = 1 THEN k ELSE r - 1]
    BY <1>0, <1>3
  <1>5. /\ order' # << >> /\ tail' = order'[1] /\ head' = order'[k]
        /\ tail' \in Addr /\ head' \in Addr
    <2>1. at(1) = r /\ at(k) = (IF r = 1 THEN k ELSE r - 1) /\ 1 \in 1..k /\ k \in 1..k
      BY <1>0
    <2>2. order'[1] = order[r] /\ order'[k] = order[IF r = 1 THEN k ELSE r - 1]
      BY <1>1, <2>1
    <2>3. order'[1] \in Addr /\ order'[k] \in Addr /\ order' # << >>
      <3> HIDE DEF k, r, at
      <3> QED BY <1>0, <1>1, <2>1
    <2> QED BY <1>0, <1>4, <2>2, <2>3 DEF list_prioritise
  <1>6. ListTypeOK'
    BY <1>1, <1>2, <1>5 DEF ListInv, ListTypeOK
  <1>7. OrderCoversHeap'
    <2>1. \A m \in 1..k : \E j \in 1..k : order'[j] = order[m]
      <3> SUFFICES ASSUME NEW m \in 1..k
                   PROVE  \E j \in 1..k : order'[j] = order[m]
        OBVIOUS
      <3>1. CASE m >= r
        <4>1. m - r + 1 \in 1..k /\ at(m - r + 1) = m
          BY <1>0, <3>1
        <4> QED BY <1>1, <4>1
      <3>2. CASE m < r
        <4>1. m - r + 1 + k \in 1..k /\ at(m - r + 1 + k) = m
          BY <1>0, <3>2
        <4> QED BY <1>1, <4>1
      <3> QED BY <1>0, <3>1, <3>2
    <2>2. \A i, j \in 1..k : order'[i] = order'[j] => i = j
      <3> SUFFICES ASSUME NEW i \in 1..k, NEW j \in 1..k, order'[i] = order'[j]
                   PROVE  i = j
        OBVIOUS
      <3>1. at(i) = at(j)
        BY <1>1 DEF ListInv, RingOK, OrderCoversHeap
      <3> QED BY <1>0, <3>1
    <2>3. \A j \in 1..k : next[order'[j]] # NULL
      BY <1>1 DEF ListInv, RingOK, OrderCoversHeap
    <2>4. \A a \in Addr : next[a] # NULL => \E j \in 1..k : order'[j] = a
      <3>1. \A a \in Addr : next[a] # NULL => \E m \in 1..k : order[m] = a
        BY DEF ListInv, RingOK, OrderCoversHeap
      <3> HIDE DEF k
      <3> QED BY <2>1, <3>1
    <2> QED BY <1>1, <1>2, <2>2, <2>3, <2>4 DEF OrderCoversHeap
  <1>8. \A j \in 1..k :
          /\ next[order'[j]] = order'[IF j = k THEN 1 ELSE j + 1]
          /\ previous[order'[IF j = k THEN 1 ELSE j + 1]] = order'[j]
    <2> SUFFICES ASSUME NEW j \in 1..k
                 PROVE  /\ next[order'[j]] = order'[IF j = k THEN 1 ELSE j + 1]
                        /\ previous[order'[IF j = k THEN 1 ELSE j + 1]] = order'[j]
      OBVIOUS
    <2> DEFINE q == IF j = k THEN 1 ELSE j + 1
    <2>1. /\ q \in 1..k /\ at(j) \in 1..k /\ at(q) \in 1..k
          /\ at(q) = IF at(j) = k THEN 1 ELSE at(j) + 1
      BY <1>0, RotatedIndex
    <2> QED BY <1>1, <1>3, <2>1
  <1>9. RingOK'
    BY <1>0, <1>1, <1>2, <1>5, <1>7, <1>8 DEF RingOK, Succ
  <1> QED BY <1>6, <1>9 DEF ListInv

(* list_destroy frees every node: nothing allocated is left behind. *)
LEMMA ListDestroy ==
  ASSUME ListInv, list_destroy
  PROVE  ListInv'
  <1> USE ListAssumption
  <1>1. \A a \in Addr : next'[a] = NULL
    BY DEF ListInv, ListTypeOK, RingOK, OrderCoversHeap, list_destroy
  <1>2. ListTypeOK'
    BY DEF ListInv, ListTypeOK, list_destroy
  <1>3. RingOK'
    BY <1>1 DEF RingOK, OrderCoversHeap, list_destroy
  <1> QED BY <1>2, <1>3 DEF ListInv

(* A node that list_pop takes is the tail, and it is a node of the list. *)
LEMMA PopTail ==
  ASSUME ListInv, tail # NULL
  PROVE  tail \in Addr /\ next[tail] # NULL /\ order[1] = tail /\ Len(order) >= 1
  BY DEF ListInv, ListTypeOK, RingOK, OrderCoversHeap

(* A call that leaves the list as it is keeps the invariant. *)
LEMMA ListUnchanged ==
  ASSUME ListInv, UNCHANGED listVars
  PROVE  ListInv'
  BY DEF listVars, ListInv, ListTypeOK, RingOK, OrderCoversHeap, Succ

(* ListInv is inductive: every call of every user keeps it. *)
LEMMA ListStep ==
  ASSUME ListInv, [CallNext]_callVars
  PROVE  ListInv'
  <1>1. ASSUME NEW x \in Item, CallPush(x)
        PROVE  ListInv'
    BY <1>1, ListPush, ListUnchanged DEF CallPush
  <1>2. CASE CallPop
    <2>1. CASE list_pop
      <3>1. tail \in Addr /\ next[tail] # NULL
        BY <2>1, PopTail DEF list_pop
      <3> QED BY <2>1, <3>1, ListRemove DEF list_pop
    <2> QED BY <1>2, <2>1, ListUnchanged DEF CallPop
  <1>3. ASSUME NEW node \in Allocated, CallRemove(node)
        PROVE  ListInv'
    BY <1>3, ListRemove DEF Allocated, CallRemove
  <1>4. ASSUME NEW node \in Allocated, CallPrioritise(node)
        PROVE  ListInv'
    BY <1>4, ListPrioritise DEF Allocated, CallPrioritise
  <1>5. CASE CallDestroy
    BY <1>5, ListDestroy DEF CallDestroy
  <1>6. CASE UNCHANGED callVars
    BY <1>6, ListUnchanged DEF callVars
  <1> QED BY <1>1, <1>2, <1>3, <1>4, <1>5, <1>6 DEF CallNext

(* linked_list.c never corrupts its pointers: in every reachable state the
   types are right, item_count is within the capacity, and next and previous
   form one ring from tail to head through exactly the allocated nodes.
   list_destroy frees them all. *)
THEOREM ListSafety == CallSpec => [](ListTypeOK /\ RingOK)
  <1>1. CallInit => ListInv
    BY ListInitInv DEF CallInit
  <1>2. ListInv /\ [CallNext]_callVars => ListInv'
    BY ListStep
  <1> QED BY <1>1, <1>2, PTL DEF CallSpec, ListInv

(* The type invariant of the list, on its own: in particular item_count never
   passes the capacity, which list_is_full tests with ==. *)
THEOREM ListTypeSafety == CallSpec => []ListTypeOK
  <1>1. ListTypeOK /\ RingOK => ListTypeOK
    OBVIOUS
  <1> QED BY <1>1, ListSafety, PTL

-----------------------------------------------------------------------------
(* Removing a node removes its item, at its place in the ring, from Contents
   and keeps the others. *)
LEMMA RemoveContents ==
  ASSUME ListInv, NEW node \in Addr, next[node] # NULL, list_remove(node)
  PROVE  LET i == IndexOf(order, node)
         IN /\ i \in 1..Len(Contents)
            /\ Contents[i] = item[node]
            /\ Contents' = Without(Contents, i)
  <1> DEFINE k == Len(order)
             r == IndexOf(order, node)
             m(j) == IF j < r THEN j ELSE j + 1
  <1>0. /\ k \in Nat /\ r \in 1..k /\ order[r] = node
        /\ order \in Seq(Addr) /\ item \in [Addr -> Item \cup {NULL}]
        /\ \A i, j \in 1..k : order[i] = order[j] => i = j
    BY NodeIndex DEF ListInv, ListTypeOK, RingOK, OrderCoversHeap
  <1>1. /\ Len(order') = k - 1
        /\ \A j \in 1..(k - 1) : order'[j] = order[m(j)]
    BY <1>0 DEF list_remove, Without
  <1>2. \A j \in 1..(k - 1) : m(j) \in 1..k /\ m(j) # r
    BY <1>0
  <1>3. item' = [item EXCEPT ![node] = NULL]
    BY DEF list_remove
  <1>4. \A j \in 1..(k - 1) : item'[order'[j]] = item[order[m(j)]]
    <2> HIDE DEF m
    <2> QED BY <1>0, <1>1, <1>2, <1>3
  <1>5. Contents' = [j \in 1..(k - 1) |-> item[order[m(j)]]]
    BY <1>1, <1>4 DEF Contents
  <1>6. Len(Contents) = k /\ \A j \in 1..k : Contents[j] = item[order[j]]
    BY <1>0 DEF Contents
  <1>7. Without(Contents, r) = [j \in 1..(k - 1) |-> item[order[m(j)]]]
    BY <1>0, <1>2, <1>6 DEF Without
  <1> QED BY <1>0, <1>5, <1>6, <1>7

(* list_prioritise rotates Contents. *)
LEMMA PrioritiseContents ==
  ASSUME ListInv, NEW node \in Addr, next[node] # NULL, list_prioritise(node)
  PROVE  \E i \in 1..Len(Contents) : Contents' = Rotated(Contents, i)
  <1> DEFINE k == Len(order)
             r == IndexOf(order, node)
             at(j) == IF j + r - 1 <= k THEN j + r - 1 ELSE j + r - 1 - k
  <1>0. k \in Nat /\ r \in 1..k
    BY NodeIndex
  <1>1. \A j \in 1..k : at(j) \in 1..k
    BY <1>0
  <1>2. Len(order') = k /\ \A j \in 1..k : order'[j] = order[at(j)]
    BY <1>0 DEF list_prioritise, Rotated
  <1>3. Contents' = [j \in 1..k |-> item[order[at(j)]]]
    BY <1>2 DEF Contents, list_prioritise
  <1>4. Len(Contents) = k /\ \A j \in 1..k : Contents[j] = item[order[j]]
    BY <1>0 DEF Contents
  <1>5. Rotated(Contents, r) = [j \in 1..k |-> item[order[at(j)]]]
    BY <1>0, <1>1, <1>4 DEF Rotated
  <1> QED BY <1>0, <1>3, <1>4, <1>5

(* The tail is the oldest item: index 1 of Contents. *)
LEMMA TailIsOldest ==
  ASSUME ListInv, tail # NULL
  PROVE  IndexOf(order, tail) = 1
  <1>1. /\ tail \in Addr /\ next[tail] # NULL /\ order[1] = tail
        /\ Len(order) \in Nat /\ 1 \in 1..Len(order)
    BY PopTail DEF ListInv, ListTypeOK
  <1>2. /\ IndexOf(order, tail) \in 1..Len(order)
        /\ order[IndexOf(order, tail)] = tail
    BY <1>1, NodeIndex
  <1> QED BY <1>1, <1>2 DEF ListInv, RingOK, OrderCoversHeap

(* The pointer-level list implements the bounded FIFO sequence BoundedRing,
   for every capacity, item set and heap: list_push appends, list_pop takes
   and returns the oldest item, list_remove deletes the item of its node and
   keeps the order of the others, list_prioritise rotates. *)
THEOREM ListImplementsRing == CallSpec => ImplementsRing
  <1>1. CallInit => Ring!RingInit
    BY DEF CallInit, ListInit, Ring!RingInit, Contents
  <1>2. ListInv /\ [CallNext]_callVars => [Ring!RingNext]_<<Contents, call>>
    <2> SUFFICES ASSUME ListInv, [CallNext]_callVars
                 PROVE  [Ring!RingNext]_<<Contents, call>>
      OBVIOUS
    <2>0. /\ Len(order) \in Nat /\ Len(Contents) = Len(order)
          /\ order \in Seq(Addr) /\ item_count = Len(order)
      BY DEF ListInv, ListTypeOK, RingOK, Contents
    <2>1. ASSUME NEW x \in Item, NEW n \in Addr, list_push(x, n),
                 call' = <<"list_push", TRUE>>
          PROVE  Ring!Push(x)
      <3>1. /\ order \in Seq(Addr) /\ item \in [Addr -> Item \cup {NULL}]
            /\ \A i \in 1..Len(order) : order[i] \in Addr /\ order[i] # n
            /\ Len(order) < Capacity
        BY <2>1, ListAssumption
           DEF ListInv, ListTypeOK, RingOK, OrderCoversHeap, list_push,
               list_is_full, Allocated
      <3>2. order' = Append(order, n) /\ item' = [item EXCEPT ![n] = x]
        BY <2>1 DEF list_push
      <3>3. Len(order') = Len(order) + 1
        BY <3>1, <3>2
      <3>4. \A i \in 1..Len(order) : item'[order'[i]] = item[order[i]]
        BY <3>1, <3>2
      <3>5. item'[order'[Len(order) + 1]] = x
        BY <3>1, <3>2, <2>0
      <3>6. Contents' = [i \in 1..(Len(order) + 1) |->
                           IF i <= Len(order) THEN item[order[i]] ELSE x]
        BY <2>0, <3>3, <3>4, <3>5 DEF Contents
      <3>7. Append(Contents, x) = [i \in 1..(Len(order) + 1) |->
                                     IF i <= Len(order) THEN item[order[i]] ELSE x]
        BY <2>0 DEF Contents
      <3> QED BY <2>0, <2>1, <3>1, <3>6, <3>7 DEF Ring!Push
    <2>2. CASE list_pop /\ call' = <<"list_pop", item[tail]>>
      <3>1. tail \in Addr /\ next[tail] # NULL /\ IndexOf(order, tail) = 1
        BY <2>2, PopTail, TailIsOldest DEF list_pop
      <3>2. /\ 1 \in 1..Len(Contents)
            /\ Contents[1] = item[tail]
            /\ Contents' = Without(Contents, 1)
        BY <2>2, <3>1, RemoveContents DEF list_pop
      <3>3. Contents # << >>
        BY <3>2
      <3>4. Ring!Pop
        BY <2>2, <3>2, <3>3 DEF Ring!Pop, Ring!Without, Without
      <3> QED BY <3>4 DEF Ring!RingNext
    <2>3. ASSUME NEW node \in Allocated, CallRemove(node)
          PROVE  Ring!RingNext
      <3>1. /\ IndexOf(order, node) \in 1..Len(Contents)
            /\ Contents[IndexOf(order, node)] = item[node]
            /\ Contents' = Without(Contents, IndexOf(order, node))
        BY <2>3, RemoveContents DEF Allocated, CallRemove
      <3>2. Ring!Remove(IndexOf(order, node))
        BY <2>3, <3>1 DEF CallRemove, Ring!Remove, Ring!Without, Without
      <3> QED BY <3>1, <3>2 DEF Ring!RingNext
    <2>4. ASSUME NEW node \in Allocated, CallPrioritise(node)
          PROVE  Ring!RingNext
      <3>1. PICK i \in 1..Len(Contents) : Contents' = Rotated(Contents, i)
        BY <2>4, PrioritiseContents DEF Allocated, CallPrioritise
      <3>2. Ring!Rotate(i)
        BY <2>4, <3>1 DEF CallPrioritise, Ring!Rotate, Ring!Rotated, Rotated
      <3> QED BY <3>2 DEF Ring!RingNext
    <2>5. CASE CallDestroy
      BY <2>5 DEF CallDestroy, list_destroy, Contents, Ring!RingNext, Ring!Clear
    <2>6. ASSUME UNCHANGED listVars
          PROVE  Contents' = Contents
      BY <2>6 DEF listVars, Contents
    <2>7. ASSUME NEW x \in Item, CallPush(x)
          PROVE  Ring!RingNext
      BY <2>1, <2>6, <2>7 DEF CallPush, Ring!RingNext, Ring!PushRefused
    <2>8. CASE CallPop
      <3>1. CASE list_is_empty /\ UNCHANGED listVars /\ call' = <<"list_pop", NULL>>
        <4>1. Contents = << >>
          BY <2>0, <3>1 DEF list_is_empty, Contents
        <4> QED BY <2>6, <3>1, <4>1 DEF Ring!RingNext, Ring!PopNothing
      <3> QED BY <2>2, <2>8, <3>1 DEF CallPop
    <2>9. CASE UNCHANGED callVars
      BY <2>6, <2>9 DEF callVars
    <2> QED BY <2>3, <2>4, <2>5, <2>7, <2>8, <2>9 DEF CallNext
  <1> QED BY <1>1, <1>2, ListSafety, PTL
          DEF CallSpec, ListInv, ImplementsRing, Ring!RingSpec, Ring!ringVars

=============================================================================
