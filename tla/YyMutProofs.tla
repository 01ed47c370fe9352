----------------------------- MODULE YyMutProofs -----------------------------
(***************************************************************************)
(* Proofs about YyMut, for every pool, every set of keys and every member  *)
(* a container is created with, of a caller who is Careful.                *)
(*                                                                         *)
(* The invariant IInv says where the cells are: some g goes once around    *)
(* the ring, through as many different cells of the pool as the length     *)
(* says (Sound), with the keys of an object at its even places (Paired,    *)
(* KeyCells), and an iterator stands at the cell g has at its place (ArrAt, *)
(* ObjAt).  The ring itself says nothing of the kind: it is next pointers, *)
(* and Hop follows them.                                                   *)
(*                                                                         *)
(* Each function of YyRing is shown to turn one such g into another: a     *)
(* cell put in at an index, a stretch left out, the ring turned.  The two  *)
(* loops of obj_remove and remove_strn have invariants of their own        *)
(* (Turning, Seeking), along the cells gone through.  What becomes of g is *)
(* then what becomes of Elements and Pairs, the sequences YySequence       *)
(* speaks of.                                                              *)
(***************************************************************************)
EXTENDS YyMut, WellFoundedInduction, SequenceTheorems, FiniteSetTheorems, TLAPS

\* g goes once around a ring of n cells, from a cell to itself.
Cycle(next, g, n) ==
    /\ n \in Nat /\ n > 0
    /\ g \in [0 .. n -> DOMAIN next] /\ g[0] = g[n]
    /\ \A i \in 0 .. n - 1 : next[g[i]] = g[i + 1]
    /\ \A i, j \in 1 .. n : g[i] = g[j] => i = j

What == Keys \cup {Raw} \cup Nat
Rings(N) == [next : [1 .. N -> 0 .. N], ptr : 0 .. N, len : Nat, is : [1 .. N -> What]]

\* The n cells of a container are those g goes through, all from the pool.
Sound(ring, g, n, top) ==
    n > 0 => /\ Cycle(ring.next, g, n) /\ g[0] = ring.ptr
             /\ \A i \in 0 .. n : g[i] \in 2 .. top

-----------------------------------------------------------------------------
(* Induction, and walking along a ring *)

LEMMA Induction ==
    ASSUME NEW T, 0 \in T, \A n \in Nat : n \in T => n + 1 \in T
    PROVE  \A n \in Nat : n \in T
<1> DEFINE D == {n \in Nat : n \notin T}
<1>1. SUFFICES ASSUME D # {}
               PROVE  FALSE
  OBVIOUS
<1>2. D \subseteq Nat /\ (\A d \in D : d \in Nat)
  OBVIOUS
<1>. HIDE DEF D
<1>3. PICK k \in D : \A e \in D : ~ (<<e, k>> \in OpToRel(<, Nat))
  BY <1>1, <1>2, NatLessThanWellFounded, WFMin
<1>4. \A e \in D : ~ (e < k)
  BY <1>2, <1>3 DEF OpToRel
<1>5. k \in Nat /\ k \notin T
  BY DEF D
<1>6. k # 0
  BY <1>5
<1>7. k - 1 \in Nat /\ k - 1 < k
  BY <1>5, <1>6
<1>8. k - 1 \in T
  BY <1>4, <1>7 DEF D
<1>. QED
  BY <1>5, <1>7, <1>8

LEMMA HopAlong ==
    ASSUME NEW ring, NEW n, NEW g, Cycle(ring.next, g, n)
    PROVE  \A i \in 0 .. n : Hop(ring, g[0], i) = g[i]
<1>1. n \in Nat /\ \A i \in 0 .. n - 1 : ring.next[g[i]] = g[i + 1]
  BY DEF Cycle
<1> SUFFICES ASSUME NEW m \in 0 .. n
             PROVE  Hop(ring, g[0], m) = g[m]
  OBVIOUS
<1> DEFINE F(f) == f = [k \in 0 .. m |-> IF k = 0 THEN g[0] ELSE ring.next[f[k - 1]]]
           at == CHOOSE f : F(f)
           T == {k \in Nat : k <= m => at[k] = g[k]}
<1>2. F([k \in 0 .. m |-> g[k]])
  <2> DEFINE w == [k \in 0 .. m |-> g[k]]
  <2>1. ASSUME NEW k \in 0 .. m
        PROVE  g[k] = IF k = 0 THEN g[0] ELSE ring.next[w[k - 1]]
    <3>1. k = 0 \/ (k # 0 /\ k - 1 \in 0 .. m /\ k - 1 \in 0 .. n - 1 /\ k - 1 + 1 = k)
      BY ONLY SMTT(30), <1>1, m \in 0 .. n, k \in 0 .. m
    <3>. QED
      BY ONLY <1>1, <3>1
  <2>. QED
    BY ONLY <2>1
<1>3. F(at)
  BY <1>2
<1>. HIDE DEF at
<1>4. 0 \in T
  BY <1>1, <1>3
<1>5. \A k \in Nat : k \in T => k + 1 \in T
  BY <1>1, <1>3
<1>. HIDE DEF T
<1>6. \A k \in Nat : k \in T
  BY <1>4, <1>5, Induction
<1>7. at[m] = g[m]
  BY <1>1, <1>6 DEF T
<1>. QED
  BY <1>7 DEF Hop, at

-----------------------------------------------------------------------------
(* What the functions do to a ring of cells *)

\* A new cell after the kth, which is not the last.
LEMMA CycleInserted ==
    ASSUME NEW next, NEW g, NEW n, NEW k \in Nat, NEW v \in DOMAIN next,
           Cycle(next, g, n), k < n, \A i \in 1 .. n : g[i] # v
    PROVE  Cycle(Linked(next, g[k], v),
                 [i \in 0 .. n + 1 |-> IF i <= k THEN g[i] ELSE IF i = k + 1 THEN v ELSE g[i - 1]],
                 n + 1)
<1> DEFINE nx == [next EXCEPT ![g[k]] = v, ![v] = next[g[k]]]
           h == [i \in 0 .. n + 1 |-> IF i <= k THEN g[i] ELSE IF i = k + 1 THEN v ELSE g[i - 1]]
<1>1. /\ n \in Nat /\ n > 0 /\ g[0] = g[n] /\ g[0] \in DOMAIN next
      /\ \A i \in 0 .. n : g[i] \in DOMAIN next
      /\ \A i \in 0 .. n - 1 : next[g[i]] = g[i + 1]
      /\ \A i, j \in 1 .. n : g[i] = g[j] => i = j
  BY DEF Cycle
<1>0. \A i, j \in 0 .. n - 1 : g[i] = g[j] => i = j
  BY <1>1
<1>2. DOMAIN nx = DOMAIN next /\ h \in [0 .. n + 1 -> DOMAIN nx] /\ h[0] = h[n + 1]
  <2>1. \A i \in 0 .. n + 1 : i > k + 1 => i - 1 \in 0 .. n
    BY <1>1
  <2>2. h[n + 1] = g[n] /\ h[0] = g[0]
    BY <1>1
  <2>3. \A i \in 0 .. n + 1 : h[i] \in DOMAIN next
    BY <1>1, <2>1
  <2>. QED
    BY <1>1, <2>2, <2>3
<1>3. \A i \in 0 .. n + 1 - 1 : nx[h[i]] = h[i + 1]
  <2> SUFFICES ASSUME NEW i \in 0 .. n + 1 - 1
               PROVE  nx[h[i]] = h[i + 1]
    OBVIOUS
  <2>1. CASE i < k
    BY SMTT(30), <1>1, <1>0, <2>1
  <2>2. CASE i = k
    BY <1>1, <1>0, <2>2
  <2>3. CASE i = k + 1
    BY <1>1, <1>0, <2>3
  <2>4. CASE i > k + 1
    <3>1. i - 1 \in 0 .. n - 1 /\ i - 1 # k /\ k \in 0 .. n - 1
      BY <1>1, <2>4
    <3>2. g[i - 1] # g[k] /\ g[i - 1] # v
      BY <1>0, <1>1, <3>1
    <3>3. h[i] = g[i - 1] /\ h[i + 1] = g[i]
      BY <1>1, <2>4
    <3>. QED
      BY <1>1, <3>1, <3>2, <3>3
  <2>. QED
    BY <1>1, <2>1, <2>2, <2>3, <2>4
<1>4. \A i, j \in 1 .. n + 1 : h[i] = h[j] => i = j
  BY SMTT(30), <1>1
<1>5. n \in Nat /\ n + 1 \in Nat /\ n + 1 > 0
  BY <1>1
<1>6. Cycle(nx, h, n + 1)
  <2>. HIDE DEF nx, h
  <2>. QED
    BY ONLY <1>2, <1>3, <1>4, <1>5 DEF Cycle
<1>. QED
  BY <1>6 DEF Linked

\* A new cell after the last, to become the last.
LEMMA CycleAppended ==
    ASSUME NEW next, NEW g, NEW n, NEW v \in DOMAIN next,
           Cycle(next, g, n), \A i \in 1 .. n : g[i] # v
    PROVE  Cycle(Linked(next, g[0], v),
                 [i \in 0 .. n + 1 |-> IF i \in 1 .. n THEN g[i] ELSE v], n + 1)
  BY DEF Cycle, Linked

\* The only cell.
LEMMA CycleAlone ==
    ASSUME NEW next, NEW v \in DOMAIN next
    PROVE  Cycle([next EXCEPT ![v] = v], [i \in 0 .. 1 |-> v], 1)
  BY DEF Cycle

Swapped(g, n, k, v) == [i \in 0 .. n |-> IF i = k + 1 \/ (i = 0 /\ k + 1 = n) THEN v ELSE g[i]]

\* A cell takes the place of another one.
LEMMA CycleReplaced ==
    ASSUME NEW next, NEW g, NEW n, NEW k \in Nat, NEW v \in DOMAIN next,
           Cycle(next, g, n), k < n, n > 1, \A i \in 1 .. n : g[i] # v,
           NEW nx, nx = [next EXCEPT ![g[k]] = v, ![v] = next[g[k + 1]]],
           NEW h, h = Swapped(g, n, k, v)
    PROVE  Cycle(nx, h, n)
<1>00. h = [i \in 0 .. n |-> IF i = k + 1 \/ (i = 0 /\ k + 1 = n) THEN v ELSE g[i]]
  BY DEF Swapped
<1>1. /\ n \in Nat /\ n > 0 /\ g[0] = g[n] /\ g[0] \in DOMAIN next
      /\ \A i \in 0 .. n : g[i] \in DOMAIN next
      /\ \A i \in 0 .. n - 1 : next[g[i]] = g[i + 1]
      /\ \A i, j \in 1 .. n : g[i] = g[j] => i = j
  BY DEF Cycle
<1>0. \A i, j \in 0 .. n - 1 : g[i] = g[j] => i = j
  BY <1>1, <1>00
<1>2. DOMAIN nx = DOMAIN next /\ h \in [0 .. n -> DOMAIN nx] /\ h[0] = h[n]
  BY <1>1, <1>00
<1>3. \A i \in 0 .. n - 1 : nx[h[i]] = h[i + 1]
  <2> SUFFICES ASSUME NEW i \in 0 .. n - 1
               PROVE  nx[h[i]] = h[i + 1]
    OBVIOUS
  <2>. QED
    BY <1>1, <1>0, <1>00
<1>4. \A i, j \in 1 .. n : h[i] = h[j] => i = j
  BY <1>1, <1>00
<1>5. n \in Nat /\ n \in Nat /\ n > 0
  BY <1>1, <1>00
<1>6. Cycle(nx, h, n)
  <2>. QED
    BY ONLY <1>2, <1>3, <1>4, <1>5 DEF Cycle
<1>. QED
  BY <1>6

Skipped(g, n, k, m) == [i \in 0 .. n - m |-> IF i <= k THEN g[i] ELSE g[i + m]]

\* m cells after the kth are left out, none of them the last.
LEMMA CycleCut ==
    ASSUME NEW next, NEW g, NEW n, NEW k \in Nat, NEW m \in Nat, NEW c,
           Cycle(next, g, n), k + m < n, c = g[k + m + 1]
    PROVE  Cycle([next EXCEPT ![g[k]] = c],
                 Skipped(g, n, k, m), n - m)
<1> DEFINE nx == [next EXCEPT ![g[k]] = c]
           h == [i \in 0 .. n - m |-> IF i <= k THEN g[i] ELSE g[i + m]]
<1>1. /\ n \in Nat /\ n > 0 /\ g[0] = g[n] /\ g[0] \in DOMAIN next
      /\ \A i \in 0 .. n : g[i] \in DOMAIN next
      /\ \A i \in 0 .. n - 1 : next[g[i]] = g[i + 1]
      /\ \A i, j \in 1 .. n : g[i] = g[j] => i = j
  BY DEF Cycle
<1>0. \A i, j \in 0 .. n - 1 : g[i] = g[j] => i = j
  BY <1>1
<1>2. DOMAIN nx = DOMAIN next /\ h \in [0 .. n - m -> DOMAIN nx] /\ h[0] = h[n - m]
  BY <1>1
<1>3. \A i \in 0 .. n - m - 1 : nx[h[i]] = h[i + 1]
  <2> SUFFICES ASSUME NEW i \in 0 .. n - m - 1
               PROVE  nx[h[i]] = h[i + 1]
    OBVIOUS
  <2>1. CASE i < k
    BY <1>1, <1>0, <2>1
  <2>2. CASE i = k
    BY <1>1, <1>0, <2>2
  <2>3. CASE i > k
    <3>1. i + m \in 0 .. n - 1 /\ i + m # k /\ k \in 0 .. n - 1
      BY <1>1, <2>3
    <3>2. g[i + m] # g[k]
      BY <1>0, <3>1
    <3>3. h[i] = g[i + m] /\ h[i + 1] = g[i + m + 1]
      BY <1>1, <2>3
    <3>. QED
      BY <1>1, <3>1, <3>2, <3>3
  <2>. QED
    BY <1>1, <2>1, <2>2, <2>3
<1>4. \A i, j \in 1 .. n - m : h[i] = h[j] => i = j
  <2> DEFINE to(i) == IF i <= k THEN i ELSE i + m
  <2>1. ASSUME NEW i \in 1 .. n - m
        PROVE  i \in 0 .. n - m /\ to(i) \in 1 .. n /\ h[i] = g[to(i)]
    <3>1. i \in 0 .. n - m /\ to(i) \in 1 .. n
      BY ONLY <1>1, i \in 1 .. n - m, m \in Nat, k \in Nat
    <3>. QED
      BY ONLY <3>1
  <2>2. ASSUME NEW i \in 1 .. n - m, NEW j \in 1 .. n - m, to(i) = to(j)
        PROVE  i = j
    BY ONLY <1>1, <2>2, m \in Nat, k \in Nat
  <2>. HIDE DEF h, to
  <2>. QED
    BY ONLY <1>1, <2>1, <2>2
<1>5. n \in Nat /\ n - m \in Nat /\ n - m > 0
  BY <1>1
<1>6. Cycle(nx, h, n - m)
  <2>. HIDE DEF nx, h
  <2>. QED
    BY ONLY <1>2, <1>3, <1>4, <1>5 DEF Cycle
<1>. QED
  BY <1>6 DEF Skipped

\* The cells after the kth, up to the last.
LEMMA CycleShortened ==
    ASSUME NEW next, NEW g, NEW n, NEW k \in Nat, NEW c,
           Cycle(next, g, n), 0 < k, k <= n, c = g[1]
    PROVE  Cycle([next EXCEPT ![g[k]] = c],
                 [i \in 0 .. k |-> IF i = 0 THEN g[k] ELSE g[i]], k)
<1> DEFINE nx == [next EXCEPT ![g[k]] = c]
           h == [i \in 0 .. k |-> IF i = 0 THEN g[k] ELSE g[i]]
<1>1. /\ n \in Nat /\ n > 0 /\ g[0] = g[n] /\ g[0] \in DOMAIN next
      /\ \A i \in 0 .. n : g[i] \in DOMAIN next
      /\ \A i \in 0 .. n - 1 : next[g[i]] = g[i + 1]
      /\ \A i, j \in 1 .. n : g[i] = g[j] => i = j
  BY DEF Cycle
<1>0. \A i, j \in 0 .. n - 1 : g[i] = g[j] => i = j
  BY <1>1
<1>2. DOMAIN nx = DOMAIN next /\ h \in [0 .. k -> DOMAIN nx] /\ h[0] = h[k]
  BY <1>1
<1>3. \A i \in 0 .. k - 1 : nx[h[i]] = h[i + 1]
  <2> SUFFICES ASSUME NEW i \in 0 .. k - 1
               PROVE  nx[h[i]] = h[i + 1]
    OBVIOUS
  <2>. QED
    BY <1>1, <1>0
<1>4. \A i, j \in 1 .. k : h[i] = h[j] => i = j
  BY <1>1
<1>5. n \in Nat /\ k \in Nat /\ k > 0
  BY <1>1
<1>6. Cycle(nx, h, k)
  <2>. HIDE DEF nx, h
  <2>. QED
    BY ONLY <1>2, <1>3, <1>4, <1>5 DEF Cycle
<1>. QED
  BY <1>6

\* The ring seen from the kth cell.
LEMMA CycleTurned ==
    ASSUME NEW next, NEW g, NEW n, NEW k \in Nat, Cycle(next, g, n), k <= n
    PROVE  Cycle(next, [i \in 0 .. n |-> IF i <= n - k THEN g[i + k] ELSE g[i + k - n]], n)
  BY DEF Cycle

Grown(g, n, k, v) == [i \in 0 .. n + 2 |-> IF i = 1 THEN v ELSE IF i \in 2 .. n THEN g[i]
                                          ELSE IF i = n + 1 THEN g[1] ELSE k]

\* A pair after the last one, to become the last.
LEMMA CyclePaired ==
    ASSUME NEW next, NEW g, NEW n, NEW k \in DOMAIN next, NEW v \in DOMAIN next,
           Cycle(next, g, n), n > 1, k # v, \A i \in 1 .. n : g[i] # k /\ g[i] # v
    PROVE  Cycle([[next EXCEPT ![g[1]] = k, ![v] = g[2]] EXCEPT ![k] = v], Grown(g, n, k, v), n + 2)
<1> DEFINE nx == [[next EXCEPT ![g[1]] = k, ![v] = g[2]] EXCEPT ![k] = v]
           h == [i \in 0 .. n + 2 |-> IF i = 1 THEN v ELSE IF i \in 2 .. n THEN g[i]
                                      ELSE IF i = n + 1 THEN g[1] ELSE k]
<1>1. /\ n \in Nat /\ n > 0 /\ g[0] = g[n] /\ g[0] \in DOMAIN next
      /\ \A i \in 0 .. n : g[i] \in DOMAIN next
      /\ \A i \in 0 .. n - 1 : next[g[i]] = g[i + 1]
      /\ \A i, j \in 1 .. n : g[i] = g[j] => i = j
  BY DEF Cycle
<1>0. \A i, j \in 0 .. n - 1 : g[i] = g[j] => i = j
  BY <1>1
<1>2. DOMAIN nx = DOMAIN next /\ h \in [0 .. n + 2 -> DOMAIN nx] /\ h[0] = h[n + 2]
  BY <1>1
<1>3. \A i \in 0 .. n + 2 - 1 : nx[h[i]] = h[i + 1]
  <2> SUFFICES ASSUME NEW i \in 0 .. n + 2 - 1
               PROVE  nx[h[i]] = h[i + 1]
    OBVIOUS
  <2>. QED
    BY <1>1, <1>0
<1>4. \A i, j \in 1 .. n + 2 : h[i] = h[j] => i = j
  BY <1>1
<1>5. n \in Nat /\ n + 2 \in Nat /\ n + 2 > 0
  BY <1>1
<1>6. Cycle(nx, h, n + 2)
  <2>. HIDE DEF nx, h
  <2>. QED
    BY ONLY <1>2, <1>3, <1>4, <1>5 DEF Cycle
<1>. QED
  BY <1>6 DEF Grown

LEMMA CyclePair ==
    ASSUME NEW next, NEW k \in DOMAIN next, NEW v \in DOMAIN next, k # v
    PROVE  Cycle([[next EXCEPT ![v] = k] EXCEPT ![k] = v],
                 [i \in 0 .. 2 |-> IF i = 1 THEN v ELSE k], 2)
  BY DEF Cycle

Reduced(g, n) ==
    [i \in 0 .. n - 2 |-> IF i = 0 THEN g[n - 2] ELSE IF i = 1 THEN g[n - 1] ELSE g[i]]

\* The last pair is left out, and the one before becomes the last.
LEMMA CycleUnpaired ==
    ASSUME NEW next, NEW g, NEW n, NEW c, Cycle(next, g, n), n > 3, c = g[2]
    PROVE  Cycle([next EXCEPT ![g[n - 1]] = c], Reduced(g, n), n - 2)
<1> DEFINE nx == [next EXCEPT ![g[n - 1]] = c]
           h == [i \in 0 .. n - 2 |-> IF i = 0 THEN g[n - 2] ELSE IF i = 1 THEN g[n - 1] ELSE g[i]]
<1>1. /\ n \in Nat /\ n > 0 /\ g[0] = g[n] /\ g[0] \in DOMAIN next
      /\ \A i \in 0 .. n : g[i] \in DOMAIN next
      /\ \A i \in 0 .. n - 1 : next[g[i]] = g[i + 1]
      /\ \A i, j \in 1 .. n : g[i] = g[j] => i = j
  BY DEF Cycle
<1>0. \A i, j \in 0 .. n - 1 : g[i] = g[j] => i = j
  BY <1>1
<1>2. DOMAIN nx = DOMAIN next /\ h \in [0 .. n - 2 -> DOMAIN nx] /\ h[0] = h[n - 2]
  BY <1>1
<1>3. \A i \in 0 .. n - 2 - 1 : nx[h[i]] = h[i + 1]
  <2> SUFFICES ASSUME NEW i \in 0 .. n - 2 - 1
               PROVE  nx[h[i]] = h[i + 1]
    OBVIOUS
  <2>. QED
    BY <1>1, <1>0
<1>4. \A i, j \in 1 .. n - 2 : h[i] = h[j] => i = j
  BY <1>1
<1>5. n \in Nat /\ n - 2 \in Nat /\ n - 2 > 0
  BY <1>1
<1>6. Cycle(nx, h, n - 2)
  <2>. HIDE DEF nx, h
  <2>. QED
    BY ONLY <1>2, <1>3, <1>4, <1>5 DEF Cycle
<1>. QED
  BY <1>6 DEF Reduced


-----------------------------------------------------------------------------
(* Arrays: the elements are the cells g[1], ... g[len] *)

LEMMA LinkedTyped ==
    ASSUME NEW N \in Nat, NEW next \in [1 .. N -> 0 .. N], NEW c \in 1 .. N, NEW v \in 1 .. N
    PROVE  Linked(next, c, v) \in [1 .. N -> 0 .. N]
  BY DEF Linked

LEMMA SoundArr ==
    ASSUME NEW N \in Nat, NEW ring \in Rings(N), NEW g, NEW top \in 0 .. N,
           Sound(ring, g, ring.len, top), ring.len > 0
    PROVE  /\ Cycle(ring.next, g, ring.len) /\ g[0] = ring.ptr /\ g[ring.len] = ring.ptr
           /\ \A i \in 0 .. ring.len : g[i] \in 2 .. top /\ g[i] \in 1 .. N
           /\ \A i \in 0 .. ring.len : Hop(ring, ring.ptr, i) = g[i]
           /\ \A i \in 0 .. ring.len - 1 : ring.next[g[i]] = g[i + 1]
<1>1. Cycle(ring.next, g, ring.len) /\ g[0] = ring.ptr
  BY DEF Sound
<1>2. \A i \in 0 .. ring.len : Hop(ring, g[0], i) = g[i]
  BY ONLY <1>1, HopAlong
<1>3. g[0] = g[ring.len] /\ \A i \in 0 .. ring.len - 1 : ring.next[g[i]] = g[i + 1]
  BY <1>1 DEF Cycle
<1>4. \A i \in 0 .. ring.len : g[i] \in 2 .. top /\ g[i] \in 1 .. N
  BY DEF Sound
<1>. QED
  BY <1>1, <1>2, <1>3, <1>4

LEMMA ArrInsertSound ==
    ASSUME NEW N \in Nat, NEW ring \in Rings(N), NEW g, NEW top \in 0 .. N,
           Sound(ring, g, ring.len, top),
           NEW v \in 2 .. top, \A i \in 1 .. ring.len : g[i] # v,
           NEW idx \in 0 .. ring.len
    PROVE  LET made == ArrInsert(ring, v, idx)
           IN  /\ made \in Rings(N) /\ made.len = ring.len + 1 /\ made.is = ring.is
               /\ \E h : /\ Sound(made, h, made.len, top)
                         /\ \A i \in 1 .. ring.len + 1 :
                              h[i] = IF i <= idx THEN g[i] ELSE IF i = idx + 1 THEN v ELSE g[i - 1]
<1> DEFINE made == ArrInsert(ring, v, idx)
<1>0. /\ ring.len \in Nat /\ DOMAIN ring.next = 1 .. N /\ v \in DOMAIN ring.next /\ v # NULL
      /\ ring.next \in [1 .. N -> 0 .. N] /\ v \in 0 .. N /\ v \in 1 .. N
      /\ N \in Nat /\ ring \in Rings(N)
  BY DEF Rings, NULL
<1>1. CASE ring.len = 0
  <2> DEFINE h == [i \in 0 .. 1 |-> v]
             nx == [ring.next EXCEPT ![v] = v]
  <2>1. made = [ring EXCEPT !.len = 1, !.next = nx, !.ptr = v]
    BY <1>0, <1>1 DEF ArrInsert
  <2>2. Cycle(nx, h, 1)
    BY <1>0, CycleAlone
  <2>3. nx \in [1 .. N -> 0 .. N]
    BY <1>0
  <2>. HIDE DEF nx, made
  <2>4. made \in Rings(N) /\ made.len = 1 /\ made.is = ring.is /\ made.ptr = v /\ made.next = nx
    BY ONLY <1>0, <2>1, <2>3 DEF Rings
  <2>5. Sound(made, h, made.len, top)
    BY <2>2, <2>4 DEF Sound
  <2>. QED
    BY <1>1, <2>4, <2>5 DEF made
<1>2. CASE ring.len > 0 /\ idx = ring.len
  <2> DEFINE h == [i \in 0 .. ring.len + 1 |-> IF i \in 1 .. ring.len THEN g[i] ELSE v]
             nx == Linked(ring.next, g[0], v)
             l == ring.len + 1
  <2>0. /\ Cycle(ring.next, g, ring.len) /\ g[0] = ring.ptr
        /\ \A i \in 0 .. ring.len : g[i] \in 2 .. top /\ g[i] \in 1 .. N
        /\ g[0] \in 1 .. N
    BY <1>2, SoundArr
  <2>1. made = [ring EXCEPT !.len = l, !.next = nx, !.ptr = v]
    BY <1>0, <1>2, <2>0 DEF ArrInsert
  <2>2. Cycle(nx, h, l)
    BY <1>0, <2>0, CycleAppended
  <2>3. nx \in [1 .. N -> 0 .. N] /\ l \in Nat
    <3>1. nx \in [1 .. N -> 0 .. N]
      BY ONLY <1>0, <2>0, LinkedTyped
    <3>2. l \in Nat
      BY ONLY <1>0
    <3>. QED
      BY ONLY <3>1, <3>2
  <2>4. h[0] = v /\ \A i \in 0 .. l : h[i] \in 2 .. top
    BY <1>0, <2>0
  <2>5. \A i \in 1 .. l : h[i] = IF i <= idx THEN g[i] ELSE IF i = idx + 1 THEN v ELSE g[i - 1]
    BY <1>0, <1>2
  <2>. HIDE DEF nx, l, made, h
  <2>6. made \in Rings(N) /\ made.len = l /\ made.is = ring.is /\ made.ptr = v /\ made.next = nx
    BY ONLY <1>0, <2>1, <2>3 DEF Rings
  <2>7. Sound(made, h, made.len, top)
    BY <2>2, <2>4, <2>6 DEF Sound
  <2>. QED
    BY <2>5, <2>6, <2>7 DEF made, l
<1>3. CASE idx < ring.len
  <2> DEFINE h == [i \in 0 .. ring.len + 1 |-> IF i <= idx THEN g[i] ELSE IF i = idx + 1 THEN v ELSE g[i - 1]]
             nx == Linked(ring.next, g[idx], v)
             l == ring.len + 1
  <2>0. /\ Cycle(ring.next, g, ring.len) /\ g[0] = ring.ptr
        /\ \A i \in 0 .. ring.len : g[i] \in 2 .. top /\ g[i] \in 1 .. N
        /\ Hop(ring, ring.ptr, idx) = g[idx] /\ g[idx] \in 1 .. N
    BY <1>0, <1>3, SoundArr
  <2>1. made = [ring EXCEPT !.len = l, !.next = nx]
    BY <1>0, <1>3, <2>0 DEF ArrInsert
  <2>2. Cycle(nx, h, l)
    <3>1. idx \in Nat /\ Cycle(ring.next, g, ring.len) /\ v \in DOMAIN ring.next
      BY <1>0, <2>0
    <3>. QED
      BY ONLY <1>3, <3>1, CycleInserted, \A i \in 1 .. ring.len : g[i] # v
  <2>3. nx \in [1 .. N -> 0 .. N] /\ l \in Nat
    <3>1. nx \in [1 .. N -> 0 .. N]
      BY ONLY <1>0, <2>0, LinkedTyped
    <3>. QED
      BY <1>0, <3>1
  <2>4. h[0] = g[0] /\ \A i \in 0 .. l : h[i] \in 2 .. top
    BY <1>0, <2>0
  <2>5. \A i \in 1 .. l : h[i] = IF i <= idx THEN g[i] ELSE IF i = idx + 1 THEN v ELSE g[i - 1]
    OBVIOUS
  <2>. HIDE DEF nx, l, made, h
  <2>6. made \in Rings(N) /\ made.len = l /\ made.is = ring.is /\ made.ptr = ring.ptr /\ made.next = nx
    BY ONLY <1>0, <2>1, <2>3 DEF Rings
  <2>7. Sound(made, h, made.len, top)
    BY <2>0, <2>2, <2>4, <2>6 DEF Sound
  <2>. QED
    BY <2>5, <2>6, <2>7 DEF made, l
<1>. QED
  BY <1>0, <1>1, <1>2, <1>3

LEMMA TurnedArr ==
    ASSUME NEW ring, NEW g, NEW n, Cycle(ring.next, g, n), NEW k \in Nat, k <= n
    PROVE  \A i \in 0 .. n : Hop(ring, g[k], i) = IF i <= n - k THEN g[i + k] ELSE g[i + k - n]
<1> DEFINE t == [i \in 0 .. n |-> IF i <= n - k THEN g[i + k] ELSE g[i + k - n]]
<1>1. n \in Nat
  BY DEF Cycle
<1>2. Cycle(ring.next, t, n)
  BY CycleTurned
<1>3. t[0] = g[k]
  BY <1>1
<1>. HIDE DEF t
<1>4. \A i \in 0 .. n : Hop(ring, t[0], i) = t[i]
  BY ONLY <1>2, HopAlong
<1>5. \A i \in 0 .. n : Hop(ring, g[k], i) = t[i]
  BY <1>3, <1>4
<1>. QED
  BY <1>5 DEF t

\* h goes through the n cells g goes through but for the m after the first idx.
CutsOut(g, h, n, idx, m) == \A i \in 1 .. n - m : h[i] = IF i <= idx THEN g[i] ELSE g[i + m]

LEMMA ArrRemoveRangeSound ==
    ASSUME NEW N \in Nat, NEW ring \in Rings(N), NEW g, NEW top \in 0 .. N,
           Sound(ring, g, ring.len, top),
           NEW idx \in Nat, NEW n \in Nat, n > 0, idx + n <= ring.len
    PROVE  LET made == ArrRemoveRange(ring, idx, n)
           IN  /\ made \in Rings(N) /\ made.len = ring.len - n /\ made.is = ring.is
               /\ \E h : Sound(made, h, made.len, top) /\ CutsOut(g, h, ring.len, idx, n)
<1> DEFINE made == ArrRemoveRange(ring, idx, n)
           l == ring.len - n
<1>0. /\ ring.len \in Nat /\ DOMAIN ring.next = 1 .. N
      /\ ring.next \in [1 .. N -> 0 .. N] /\ ring.ptr \in 0 .. N
      /\ N \in Nat /\ ring \in Rings(N) /\ ring.len > 0 /\ l \in Nat
      /\ idx + n <= ring.len /\ n > 0 /\ n \in Nat /\ idx \in Nat /\ idx \in 0 .. ring.len
  <2>1. /\ ring.len \in Nat /\ DOMAIN ring.next = 1 .. N
        /\ ring.next \in [1 .. N -> 0 .. N] /\ ring.ptr \in 0 .. N
    BY DEF Rings
  <2>2. ring.len > 0 /\ l \in Nat /\ idx \in 0 .. ring.len
    BY ONLY <2>1, idx \in Nat, n \in Nat, n > 0, idx + n <= ring.len
  <2>. QED
    BY ONLY <2>1, <2>2, N \in Nat, ring \in Rings(N), idx \in Nat, n \in Nat, n > 0, idx + n <= ring.len
<1>3. ring.len \in Nat /\ idx \in Nat /\ n \in Nat /\ idx + n <= ring.len
  BY ONLY <1>0
<1>1. CASE n = ring.len
  <2>1. made = [ring EXCEPT !.len = 0] /\ l = 0
    BY <1>0, <1>1 DEF ArrRemoveRange
  <2>. HIDE DEF made, l
  <2>2. made \in Rings(N) /\ made.len = 0 /\ made.is = ring.is
    BY ONLY <1>0, <2>1 DEF Rings
  <2>3. Sound(made, g, made.len, top) /\ made.len = l
    BY <2>1, <2>2 DEF Sound
  <2>4. \A i \in 1 .. l : g[i] = IF i <= idx THEN g[i] ELSE g[i + n]
    BY <2>1
  <2>5. CutsOut(g, g, ring.len, idx, n)
    BY ONLY <2>4 DEF CutsOut, l
  <2>. QED
    BY ONLY <2>2, <2>3, <2>5 DEF made, l
<1>2. CASE n < ring.len
  <2> DEFINE c == IF idx + n = ring.len THEN g[1] ELSE g[idx + n + 1]
             nx == [ring.next EXCEPT ![g[idx]] = c]
             p == IF idx + n = ring.len THEN g[idx] ELSE ring.ptr
             h == IF idx + n = ring.len THEN [i \in 0 .. idx |-> IF i = 0 THEN g[idx] ELSE g[i]]
                  ELSE [i \in 0 .. ring.len - n |-> IF i <= idx THEN g[i] ELSE g[i + n]]
  <2>0. /\ Cycle(ring.next, g, ring.len) /\ g[0] = ring.ptr
        /\ \A i \in 0 .. ring.len : g[i] \in 2 .. top /\ g[i] \in 1 .. N
        /\ Hop(ring, ring.ptr, idx) = g[idx] /\ g[idx] \in 1 .. N
    BY <1>0, SoundArr
  <2>1. Hop(ring, g[idx], n + 1) = c
    <3>1. \A i \in 0 .. ring.len :
             Hop(ring, g[idx], i) = IF i <= ring.len - idx THEN g[i + idx] ELSE g[i + idx - ring.len]
      <4>1. idx \in Nat /\ idx <= ring.len /\ Cycle(ring.next, g, ring.len)
        BY <1>0, <2>0
      <4>. QED
        BY ONLY <4>1, TurnedArr
    <3>2. n + 1 \in 0 .. ring.len
      BY <1>0, <1>2
    <3>3. Hop(ring, g[idx], n + 1) = IF n + 1 <= ring.len - idx THEN g[n + 1 + idx] ELSE g[n + 1 + idx - ring.len]
      BY <3>1, <3>2
    <3>4. CASE idx + n = ring.len
      <4>1. ~(n + 1 <= ring.len - idx) /\ n + 1 + idx - ring.len = 1
        BY <1>0, <3>4
      <4>. QED
        BY <3>3, <3>4, <4>1
    <3>5. CASE idx + n < ring.len
      <4>1. n + 1 <= ring.len - idx /\ n + 1 + idx = idx + n + 1 /\ idx + n # ring.len
        BY <1>0, <3>5
      <4>. QED
        BY <3>3, <4>1
    <3>6. idx + n = ring.len \/ idx + n < ring.len
      BY ONLY <1>3
    <3>. QED
      BY ONLY <3>4, <3>5, <3>6
  <2> DEFINE prev == Hop(ring, ring.ptr, idx)
             far == Hop(ring, prev, n + 1)
  <2>2. made = [ring EXCEPT !.len = @ - n, !.next[prev] = far,
                            !.ptr = IF idx + n = ring.len THEN prev ELSE @]
    <3>1. ~(idx + n > ring.len \/ n = 0) /\ n # ring.len
      BY <1>0, <1>2
    <3>. QED
      BY ONLY <3>1 DEF ArrRemoveRange, made
  <2>10. prev = g[idx] /\ far = c
    BY <2>0, <2>1
  <2>9. c \in 0 .. N /\ g[idx] \in 1 .. N
    <3>1. CASE idx + n = ring.len
      <4>1. 1 \in 0 .. ring.len /\ c = g[1]
        BY <1>0, <3>1
      <4>. QED
        BY SMTT(30), <1>0, <2>0, <4>1
    <3>2. CASE idx + n # ring.len
      <4>1. idx + n + 1 \in 0 .. ring.len /\ c = g[idx + n + 1]
        BY <1>0, <3>2
      <4>. QED
        BY SMTT(30), <1>0, <2>0, <4>1
    <3>. QED
      BY ONLY <3>1, <3>2
  <2>3. nx \in [1 .. N -> 0 .. N] /\ p \in 0 .. N
    BY ONLY <1>0, <2>9 DEF nx, p
  <2>4. Cycle(nx, h, l) /\ h[0] = p
    <3>1. CASE idx + n = ring.len
      <4>1. h = [i \in 0 .. idx |-> IF i = 0 THEN g[idx] ELSE g[i]] /\ idx = l /\ c = g[1]
        BY <1>0, <3>1
      <4>2. Cycle([ring.next EXCEPT ![g[idx]] = c], [i \in 0 .. idx |-> IF i = 0 THEN g[idx] ELSE g[i]], idx)
        <5>1. 0 < idx /\ idx <= ring.len
          BY ONLY <1>2, <1>3, <3>1
        <5>2. Cycle(ring.next, g, ring.len) /\ idx \in Nat
          BY ONLY <1>3, <2>0
        <5>. QED
          BY ONLY ZenonT(30), <4>1, <5>1, <5>2, CycleShortened
      <4>. QED
        BY <4>1, <4>2, <1>0, <3>1
    <3>2. CASE idx + n < ring.len
      <4>1. h = Skipped(g, ring.len, idx, n) /\ c = g[idx + n + 1]
        BY <1>0, <3>2 DEF Skipped
      <4>. HIDE DEF c
      <4>2. Cycle([ring.next EXCEPT ![g[idx]] = c],
                  Skipped(g, ring.len, idx, n), ring.len - n)
        BY ONLY <1>0, <2>0, <3>2, <4>1, CycleCut
      <4>3. h[0] = p
        BY <1>0, <2>0, <3>2
      <4>. QED
        BY <4>1, <4>2, <4>3
    <3>3. idx + n = ring.len \/ idx + n < ring.len
      BY ONLY <1>3
    <3>. HIDE DEF nx, h, l, p
    <3>. QED
      BY ONLY <3>1, <3>2, <3>3
  <2>5. \A i \in 0 .. l : h[i] \in 2 .. top
    <3> SUFFICES ASSUME NEW i \in 0 .. l
                 PROVE  h[i] \in 2 .. top
      OBVIOUS
    <3>1. h[i] = IF idx + n = ring.len THEN (IF i = 0 THEN g[idx] ELSE g[i])
                 ELSE IF i <= idx THEN g[i] ELSE g[i + n]
      BY <1>0
    <3>2. i \in 0 .. ring.len /\ i + n \in 0 .. ring.len
      BY <1>0
    <3>. HIDE DEF h, l
    <3>. QED
      BY <1>0, <2>0, <3>1, <3>2
  <2>6. \A i \in 1 .. l : h[i] = IF i <= idx THEN g[i] ELSE g[i + n]
    BY ONLY <1>0, <1>2 DEF h, l
  <2>. HIDE DEF c, nx, p, made, l, h, prev, far
  <2>7. made \in Rings(N) /\ made.len = l /\ made.is = ring.is /\ made.ptr = p /\ made.next = nx
    BY ONLY <1>0, <2>2, <2>3, <2>9, <2>10 DEF Rings, l, nx, p
  <2>8. Sound(made, h, made.len, top)
    BY <2>4, <2>5, <2>7 DEF Sound
  <2>. QED
    <3>1. CutsOut(g, h, ring.len, idx, n)
      BY ONLY <2>6 DEF CutsOut, l
    <3>. QED
      BY ONLY <2>7, <2>8, <3>1 DEF made, l
<1>. QED
  BY <1>0, <1>1, <1>2

LEMMA ArrReplaceSound ==
    ASSUME NEW N \in Nat, NEW ring \in Rings(N), NEW g, NEW top \in 0 .. N,
           Sound(ring, g, ring.len, top),
           NEW v \in 2 .. top, \A i \in 1 .. ring.len : g[i] # v,
           NEW idx \in Nat, idx < ring.len
    PROVE  LET made == ArrReplace(ring, idx, v)
           IN  /\ made \in Rings(N) /\ made.len = ring.len /\ made.is = ring.is
               /\ \E h : /\ Sound(made, h, made.len, top)
                         /\ \A i \in 1 .. ring.len : h[i] = IF i = idx + 1 THEN v ELSE g[i]
<1> DEFINE made == ArrReplace(ring, idx, v)
<1>0. /\ ring.len \in Nat /\ DOMAIN ring.next = 1 .. N /\ v \in DOMAIN ring.next /\ v # NULL
      /\ ring.next \in [1 .. N -> 0 .. N] /\ v \in 0 .. N /\ v \in 1 .. N /\ ring.ptr \in 0 .. N
      /\ N \in Nat /\ ring \in Rings(N) /\ ring.len > 0 /\ idx \in 0 .. ring.len /\ idx + 1 \in 0 .. ring.len
      /\ idx < ring.len /\ idx \in Nat
  BY DEF Rings, NULL
<1>00. /\ Cycle(ring.next, g, ring.len) /\ g[0] = ring.ptr /\ g[ring.len] = ring.ptr
       /\ \A i \in 0 .. ring.len : g[i] \in 2 .. top /\ g[i] \in 1 .. N
       /\ Hop(ring, ring.ptr, idx) = g[idx] /\ g[idx] \in 1 .. N
       /\ ring.next[g[idx]] = g[idx + 1] /\ g[idx + 1] \in 1 .. N
  BY SMTT(30), <1>0, SoundArr
<1>1. CASE ring.len = 1
  <2> DEFINE h == [i \in 0 .. 1 |-> v]
             nx == [ring.next EXCEPT ![v] = v]
  <2>1. made = [ring EXCEPT !.next = nx, !.ptr = v]
    BY <1>0, <1>1 DEF ArrReplace
  <2>2. Cycle(nx, h, 1)
    BY <1>0, CycleAlone
  <2>3. nx \in [1 .. N -> 0 .. N]
    BY <1>0
  <2>. HIDE DEF nx, made
  <2>4. made \in Rings(N) /\ made.len = ring.len /\ made.is = ring.is /\ made.ptr = v /\ made.next = nx
    BY ONLY <1>0, <2>1, <2>3 DEF Rings
  <2>5. Sound(made, h, made.len, top)
    BY <1>1, <2>2, <2>4 DEF Sound
  <2>6. \A i \in 1 .. ring.len : h[i] = IF i = idx + 1 THEN v ELSE g[i]
    BY <1>0, <1>1
  <2>. QED
    BY <2>4, <2>5, <2>6 DEF made
<1>2. CASE ring.len > 1
  <2> DEFINE h == [i \in 0 .. ring.len |-> IF i = idx + 1 \/ (i = 0 /\ idx + 1 = ring.len) THEN v ELSE g[i]]
             nx == [ring.next EXCEPT ![g[idx]] = v, ![v] = ring.next[g[idx + 1]]]
             p == IF g[idx + 1] = ring.ptr THEN v ELSE ring.ptr
  <2> DEFINE prev == Hop(ring, ring.ptr, idx)
             old == ring.next[prev]
  <2>1. made = [ring EXCEPT !.next = [@ EXCEPT ![prev] = v, ![v] = ring.next[old]],
                            !.ptr = IF old = @ THEN v ELSE @]
    <3>1. ~(v = NULL \/ idx >= ring.len)
      BY <1>0
    <3>. QED
      BY ONLY <1>2, <3>1 DEF ArrReplace, Next1, made
  <2>9. prev = g[idx] /\ old = g[idx + 1]
    BY <1>00
  <2>2. Cycle(nx, h, ring.len)
    <3>1. idx \in Nat /\ Cycle(ring.next, g, ring.len) /\ v \in DOMAIN ring.next /\ idx < ring.len
      BY <1>0, <1>00
    <3>2. nx = [ring.next EXCEPT ![g[idx]] = v, ![v] = ring.next[g[idx + 1]]]
          /\ h = Swapped(g, ring.len, idx, v)
      BY DEF Swapped
    <3>. HIDE DEF nx, h
    <3>. QED
      BY ONLY <1>2, <3>1, <3>2, CycleReplaced, \A i \in 1 .. ring.len : g[i] # v
  <2>3. nx \in [1 .. N -> 0 .. N] /\ p \in 0 .. N
    <3>1. ring.next[g[idx + 1]] \in 0 .. N
      BY <1>0, <1>00
    <3>. QED
      BY ONLY <1>0, <1>00, <3>1 DEF nx, p
  <2>4. g[idx + 1] = ring.ptr <=> idx + 1 = ring.len
    <3>1. \A i, j \in 1 .. ring.len : g[i] = g[j] => i = j
      BY <1>00 DEF Cycle
    <3>2. idx + 1 \in 1 .. ring.len /\ ring.len \in 1 .. ring.len
      BY ONLY <1>0
    <3>3. g[ring.len] = ring.ptr
      BY <1>00
    <3>. QED
      BY ONLY <3>1, <3>2, <3>3
  <2>5. h[0] = p /\ \A i \in 0 .. ring.len : h[i] \in 2 .. top
    BY <1>0, <1>00, <2>4
  <2>6. \A i \in 1 .. ring.len : h[i] = IF i = idx + 1 THEN v ELSE g[i]
    BY <1>0
  <2>. HIDE DEF prev, old, nx, p, made, h
  <2>7. made \in Rings(N) /\ made.len = ring.len /\ made.is = ring.is /\ made.ptr = p /\ made.next = nx
    BY ONLY <1>0, <1>00, <2>1, <2>3, <2>9 DEF Rings, p, nx
  <2>8. Sound(made, h, made.len, top)
    BY <2>2, <2>5, <2>7 DEF Sound
  <2>. QED
    BY <2>6, <2>7, <2>8 DEF made
<1>. QED
  BY <1>0, <1>1, <1>2

LEMMA RotatedSound ==
    ASSUME NEW ring, NEW g, NEW top, NEW n \in Nat, Sound(ring, g, n, top), n > 0, NEW k \in 0 .. n,
           NEW made, made.ptr = g[k], made.next = ring.next
    PROVE  \E h : /\ Sound(made, h, n, top)
                 /\ \A i \in 0 .. n : h[i] = IF i <= n - k THEN g[i + k] ELSE g[i + k - n]
<1> DEFINE h == [i \in 0 .. n |-> IF i <= n - k THEN g[i + k] ELSE g[i + k - n]]
<1>1. Cycle(ring.next, g, n) /\ (\A i \in 0 .. n : g[i] \in 2 .. top) /\ k \in Nat /\ k <= n
  BY DEF Sound
<1>2. Cycle(ring.next, h, n)
  BY ONLY <1>1, CycleTurned
<1>3. h[0] = g[k] /\ (\A i \in 0 .. n : h[i] \in 2 .. top)
  BY <1>1
<1>4. \A i \in 0 .. n : h[i] = IF i <= n - k THEN g[i + k] ELSE g[i + k - n]
  OBVIOUS
<1>. HIDE DEF h
<1>5. Sound(made, h, n, top)
  BY <1>2, <1>3 DEF Sound
<1>. QED
  BY <1>4, <1>5

-----------------------------------------------------------------------------
(* Objects: the keys are the cells g[2], g[4], ... g[2 * len], and a key's value *)
(* is the cell behind it.                                                        *)

LEMMA SoundObj ==
    ASSUME NEW N \in Nat, NEW ring \in Rings(N), NEW g, NEW top \in 0 .. N, NEW n \in Nat,
           Sound(ring, g, n, top), n > 0
    PROVE  /\ Cycle(ring.next, g, n) /\ g[0] = ring.ptr /\ g[n] = ring.ptr
           /\ \A i \in 0 .. n : g[i] \in 2 .. top /\ g[i] \in 1 .. N
           /\ \A i \in 0 .. n : Hop(ring, ring.ptr, i) = g[i]
           /\ \A i \in 0 .. n - 1 : ring.next[g[i]] = g[i + 1]
           /\ \A i, j \in 1 .. n : g[i] = g[j] => i = j
<1>1. Cycle(ring.next, g, n) /\ g[0] = ring.ptr
  BY DEF Sound
<1>2. \A i \in 0 .. n : Hop(ring, g[0], i) = g[i]
  BY ONLY <1>1, HopAlong
<1>3. /\ g[0] = g[n] /\ \A i \in 0 .. n - 1 : ring.next[g[i]] = g[i + 1]
      /\ \A i, j \in 1 .. n : g[i] = g[j] => i = j
  BY <1>1 DEF Cycle
<1>4. \A i \in 0 .. n : g[i] \in 2 .. top /\ g[i] \in 1 .. N
  BY DEF Sound
<1>. QED
  BY <1>1, <1>2, <1>3, <1>4

LEMMA ObjAddSound ==
    ASSUME NEW N \in Nat, NEW ring \in Rings(N), NEW g, NEW top \in 0 .. N,
           Sound(ring, g, 2 * ring.len, top),
           NEW k \in 2 .. top, NEW v \in 2 .. top, k # v,
           \A i \in 1 .. 2 * ring.len : g[i] # k /\ g[i] # v
    PROVE  LET made == ObjAdd(ring, k, v)
           IN  /\ made \in Rings(N) /\ made.len = ring.len + 1 /\ made.is = ring.is
               /\ made.next[k] = v /\ made.ptr = k
               /\ \A i \in 1 .. ring.len : made.next[g[2 * i]] = ring.next[g[2 * i]]
               /\ \E h : /\ Sound(made, h, 2 * made.len, top)
                         /\ \A i \in 1 .. ring.len + 1 :
                              h[2 * i] = IF i <= ring.len THEN g[2 * i] ELSE k
<1> DEFINE made == ObjAdd(ring, k, v)
           m == ring.len
           l == ring.len + 1
<1>0. /\ ring.len \in Nat /\ DOMAIN ring.next = 1 .. N /\ v \in DOMAIN ring.next /\ v # NULL
      /\ ring.next \in [1 .. N -> 0 .. N] /\ v \in 0 .. N /\ v \in 1 .. N /\ k \in 0 .. N
      /\ k \in 1 .. N /\ k \in DOMAIN ring.next
      /\ N \in Nat /\ ring \in Rings(N) /\ l \in Nat
  BY SMTT(30) DEF Rings, NULL
<1>9. ring.len \in Nat
  BY ONLY <1>0
<1>1. CASE ring.len = 0
  <2> DEFINE h == [i \in 0 .. 2 |-> IF i = 1 THEN v ELSE k]
             nx == [[ring.next EXCEPT ![v] = k] EXCEPT ![k] = v]
  <2>1. made = [ring EXCEPT !.len = @ + 1, !.next = nx, !.ptr = k]
    BY <1>0, <1>1 DEF ObjAdd
  <2>2. Cycle(nx, h, 2)
    BY <1>0, CyclePair
  <2>3. nx \in [1 .. N -> 0 .. N] /\ nx[k] = v
    BY <1>0
  <2>4. h[0] = k /\ h[2] = k /\ \A i \in 0 .. 2 : h[i] \in 2 .. top
    OBVIOUS
  <2>. HIDE DEF nx, made, h
  <2>5. made \in Rings(N) /\ made.len = 1 /\ made.is = ring.is /\ made.ptr = k /\ made.next = nx
    <3>1. ring.len + 1 = 1 /\ 1 \in Nat /\ ring \in Rings(N) /\ k \in 0 .. N
      BY <1>0, <1>1
    <3>. QED
      BY ONLY <2>1, <2>3, <3>1 DEF Rings
  <2>6. Sound(made, h, 2 * made.len, top)
    BY <2>2, <2>4, <2>5 DEF Sound
  <2>7. \A i \in 1 .. ring.len + 1 : h[2 * i] = IF i <= ring.len THEN g[2 * i] ELSE k
    BY <1>1, <2>4
  <2>. QED
    BY <1>1, <2>3, <2>5, <2>6, <2>7 DEF made
<1>2. CASE ring.len > 0
  <2> DEFINE h == Grown(g, 2 * m, k, v)
             nx == [[ring.next EXCEPT ![g[1]] = k, ![v] = g[2]] EXCEPT ![k] = v]
             prevVal == ring.next[ring.ptr]
             after == ring.next[prevVal]
  <2>0. /\ Cycle(ring.next, g, 2 * m) /\ g[0] = ring.ptr
        /\ \A i \in 0 .. 2 * m : g[i] \in 2 .. top /\ g[i] \in 1 .. N
    <3>1. 2 * m \in Nat /\ 2 * m > 0
      BY ONLY <1>9, <1>2
    <3>2. /\ Cycle(ring.next, g, 2 * m) /\ g[0] = ring.ptr
          /\ \A i \in 0 .. 2 * m : g[i] \in 2 .. top
      BY ONLY <3>1, Sound(ring, g, 2 * ring.len, top) DEF Sound
    <3>3. 2 .. top \subseteq 1 .. N
      BY ONLY N \in Nat, top \in 0 .. N
    <3>. QED
      BY ONLY <3>2, <3>3
  <2>1. prevVal = g[1] /\ after = g[2]
    <3>1. 0 \in 0 .. 2 * m - 1 /\ 1 \in 0 .. 2 * m - 1 /\ 0 + 1 = 1 /\ 1 + 1 = 2
      BY ONLY <1>9, <1>2
    <3>2. \A i \in 0 .. 2 * m - 1 : ring.next[g[i]] = g[i + 1]
      BY <2>0 DEF Cycle
    <3>. QED
      BY ONLY <2>0, <3>1, <3>2
  <2>2. made = [ring EXCEPT !.len = @ + 1,
                  !.next = [[ring.next EXCEPT ![prevVal] = k, ![v] = after] EXCEPT ![k] = v],
                  !.ptr = k]
    <3>1. ring.len > 0 /\ v # NULL
      BY <1>0, <1>2
    <3>. QED
      BY ONLY <3>1 DEF ObjAdd, made, Next1
  <2>3. g[1] \in 1 .. N /\ g[2] \in 1 .. N
    <3>1. 1 \in 0 .. 2 * m /\ 2 \in 0 .. 2 * m
      BY <1>0, <1>2
    <3>. QED
      BY <2>0, <3>1
  <2>4. nx \in [1 .. N -> 0 .. N] /\ nx[k] = v
    <3> DEFINE a == [ring.next EXCEPT ![g[1]] = k, ![v] = g[2]]
    <3>1. a \in [1 .. N -> 0 .. N]
      <4>1. /\ ring.next \in [1 .. N -> 0 .. N] /\ k \in 0 .. N /\ g[2] \in 0 .. N
            /\ g[1] \in 1 .. N /\ v \in 1 .. N
        <5>1. g[2] \in 0 .. N
          BY ONLY <2>3, N \in Nat
        <5>. QED
          BY <1>0, <2>3, <5>1
      <4>. QED
        BY ONLY <4>1
    <3>. HIDE DEF a
    <3>2. [a EXCEPT ![k] = v] \in [1 .. N -> 0 .. N] /\ [a EXCEPT ![k] = v][k] = v
      BY ONLY <1>0, <3>1
    <3>. QED
      BY <3>2 DEF a
  <2>5. Cycle(nx, h, 2 * l)
    <3>1. 2 * m > 1 /\ 2 * l = 2 * m + 2
      BY ONLY <1>9, <1>2
    <3>2. Cycle(ring.next, g, 2 * m) /\ k \in DOMAIN ring.next /\ v \in DOMAIN ring.next
      BY <1>0, <2>0
    <3>3. Cycle(nx, h, 2 * m + 2)
      BY ONLY <3>1, <3>2, CyclePaired, k # v, \A i \in 1 .. 2 * m : g[i] # k /\ g[i] # v DEF nx, h
    <3>. QED
      BY ONLY <3>1, <3>3
  <2>6. /\ h[0] = k /\ (\A i \in 0 .. 2 * l : h[i] \in 2 .. top)
        /\ \A i \in 1 .. l : h[2 * i] = IF i <= m THEN g[2 * i] ELSE k
    <3> SUFFICES /\ h[0] = k /\ (\A i \in 0 .. 2 * l : h[i] \in 2 .. top)
                 /\ \A i \in 1 .. l : h[2 * i] = IF i <= m THEN g[2 * i] ELSE k
      OBVIOUS
    <3>1. h[0] = k
      BY ONLY <1>0, <1>2 DEF h, Grown
    <3>2. \A i \in 0 .. 2 * l : h[i] \in 2 .. top
      <4> SUFFICES ASSUME NEW i \in 0 .. 2 * l
                   PROVE  h[i] \in 2 .. top
        OBVIOUS
      <4>1. i = 0 \/ i = 1 \/ i \in 2 .. 2 * m \/ i = 2 * m + 1 \/ i = 2 * m + 2
        BY ONLY <1>9, i \in 0 .. 2 * l DEF l, m
      <4>2. h[i] = IF i = 1 THEN v ELSE IF i \in 2 .. 2 * m THEN g[i]
                   ELSE IF i = 2 * m + 1 THEN g[1] ELSE k
        BY ONLY <1>0, <4>1 DEF h, Grown
      <4>3. i \in 2 .. 2 * m => g[i] \in 2 .. top
        BY <2>0
      <4>4. g[1] \in 2 .. top
        <5>1. 1 \in 0 .. 2 * m
          BY <1>0, <1>2
        <5>. QED
          BY <2>0, <5>1
      <4>. HIDE DEF h
      <4>. QED
        BY <4>1, <4>2, <4>3, <4>4
    <3>3. \A i \in 1 .. l : h[2 * i] = IF i <= m THEN g[2 * i] ELSE k
      <4> SUFFICES ASSUME NEW i \in 1 .. l
                   PROVE  h[2 * i] = IF i <= m THEN g[2 * i] ELSE k
        OBVIOUS
      <4>1. /\ 2 * i \in 0 .. 2 * m + 2 /\ 2 * i # 1 /\ 2 * i # 2 * m + 1
            /\ 2 * i \in 2 .. 2 * m <=> i <= m
        BY ONLY <1>9, i \in 1 .. l
      <4>. QED
        BY ONLY <4>1 DEF h, Grown
    <3>. QED
      BY <3>1, <3>2, <3>3
  <2>7. \A i \in 1 .. m : nx[g[2 * i]] = ring.next[g[2 * i]]
    <3> SUFFICES ASSUME NEW i \in 1 .. m
                 PROVE  nx[g[2 * i]] = ring.next[g[2 * i]]
      OBVIOUS
    <3>1. 2 * i \in 1 .. 2 * m /\ 1 \in 1 .. 2 * m /\ 2 * i # 1 /\ 2 * i \in 0 .. 2 * m
      BY <1>0, <1>2
    <3>2. g[2 * i] # g[1] /\ g[2 * i] # k /\ g[2 * i] # v /\ g[2 * i] \in 1 .. N
      BY <2>0, <3>1 DEF Cycle
    <3>. QED
      BY <1>0, <3>2
  <2>. HIDE DEF nx, made, h, prevVal, after
  <2>8. made \in Rings(N) /\ made.len = l /\ made.is = ring.is /\ made.ptr = k /\ made.next = nx
    BY ONLY <1>0, <2>1, <2>2, <2>4 DEF Rings, l, nx
  <2>9. Sound(made, h, 2 * made.len, top)
    BY <2>5, <2>6, <2>8 DEF Sound
  <2>. QED
    BY <2>4, <2>6, <2>7, <2>8, <2>9 DEF made
<1>. QED
  BY <1>0, <1>1, <1>2

\* The m pairs of an object.
Paired(ring, g, m, top) == Sound(ring, g, 2 * m, top)

\* What the functions do that unlink the jth of m pairs.
Unlinks(ring, made, g, m, j) ==
    /\ made.next = [ring.next EXCEPT ![ring.next[g[2 * j - 2]]] = ring.next[ring.next[g[2 * j]]]]
    /\ made.ptr = IF j = m THEN g[2 * j - 2] ELSE ring.ptr

\* The keys keep their values.
SameValues(ring, made, g, m) == \A i \in 1 .. m : made.next[g[2 * i]] = ring.next[g[2 * i]]

\* h is g without the jth of m pairs.
LeavesOut(g, h, m, j) ==
    /\ \A i \in 1 .. m - 1 : h[2 * i] = IF i < j THEN g[2 * i] ELSE g[2 * i + 2]
    /\ \A i \in 1 .. 2 * (m - 1) : \E q \in 1 .. 2 * m : h[i] = g[q]

LEMMA PairCut ==
    ASSUME NEW N \in Nat, NEW ring \in Rings(N), NEW g, NEW top \in 0 .. N, NEW m \in Nat,
           Paired(ring, g, m, top), NEW j \in 1 .. m, NEW made \in Rings(N),
           Unlinks(ring, made, g, m, j)
    PROVE  /\ SameValues(ring, made, g, m)
           /\ \E h : Paired(made, h, m - 1, top) /\ LeavesOut(g, h, m, j)
<1> DEFINE a == ring.next[g[2 * j - 2]]
           c == ring.next[ring.next[g[2 * j]]]
<1>10. /\ made.next = [ring.next EXCEPT ![a] = c]
       /\ made.ptr = IF j = m THEN g[2 * j - 2] ELSE ring.ptr
       /\ Sound(ring, g, 2 * m, top)
  BY DEF Unlinks, Paired
<1>11. a = ring.next[g[2 * j - 2]] /\ c = ring.next[ring.next[g[2 * j]]]
  OBVIOUS
<1>. HIDE DEF a, c
<1>1. m > 0 /\ j \in Nat /\ 1 <= j /\ j <= m
  OBVIOUS
<1>2. /\ Cycle(ring.next, g, 2 * m) /\ g[0] = ring.ptr /\ g[2 * m] = ring.ptr
      /\ \A i \in 0 .. 2 * m : g[i] \in 2 .. top /\ g[i] \in 1 .. N
      /\ \A i \in 0 .. 2 * m - 1 : ring.next[g[i]] = g[i + 1]
      /\ \A i, q \in 1 .. 2 * m : g[i] = g[q] => i = q
  <2>1. 2 * m \in Nat /\ 2 * m > 0
    BY <1>1
  <2>. QED
    BY ONLY SoundObj, <2>1, <1>10, ring \in Rings(N), N \in Nat, top \in 0 .. N
<1>3. ring.next[g[2 * j - 2]] = g[2 * j - 1]
  <2>1. 2 * j - 2 \in 0 .. 2 * m - 1 /\ 2 * j - 2 + 1 = 2 * j - 1
    BY <1>1
  <2>. QED
    BY <1>2, <2>1
<1>4. ring.next[ring.next[g[2 * j]]] = IF j = m THEN g[2] ELSE g[2 * j + 2]
  <2>1. CASE j = m
    <3>1. 0 \in 0 .. 2 * m - 1 /\ 1 \in 0 .. 2 * m - 1 /\ 0 + 1 = 1 /\ 1 + 1 = 2
      BY <1>1
    <3>2. g[2 * j] = g[0]
      BY <1>2, <2>1
    <3>. QED
      BY <1>2, <2>1, <3>1, <3>2
  <2>2. CASE j # m
    <3>1. /\ 2 * j \in 0 .. 2 * m - 1 /\ 2 * j + 1 \in 0 .. 2 * m - 1 /\ 2 * j + 1 + 1 = 2 * j + 2
      BY <1>1, <2>2
    <3>. QED
      BY <1>2, <2>2, <3>1
  <2>. QED
    BY <2>1, <2>2
<1>5. /\ made.next = [ring.next EXCEPT ![g[2 * j - 1]] = c]
      /\ c = IF j = m THEN g[2] ELSE g[2 * j + 2]
  BY <1>3, <1>4, <1>10, <1>11
<1>6. SameValues(ring, made, g, m)
  <2> SUFFICES ASSUME NEW i \in 1 .. m
               PROVE  made.next[g[2 * i]] = ring.next[g[2 * i]]
    BY DEF SameValues
  <2>1. 2 * j - 1 \in 1 .. 2 * m /\ 2 * i \in 1 .. 2 * m /\ 2 * i # 2 * j - 1
    BY <1>1
  <2>3. g[2 * i] # g[2 * j - 1]
    BY <1>2, <2>1
  <2>4. g[2 * i] \in DOMAIN ring.next
    <3>1. 2 * i \in 0 .. 2 * m
      OBVIOUS
    <3>2. g[2 * i] \in 1 .. N
      BY <1>2, <3>1
    <3>. QED
      BY <3>2 DEF Rings
  <2>. QED
    BY ONLY <1>5, <2>3, <2>4
<1>7. CASE m = 1
  <2>1. Sound(made, g, 2 * (m - 1), top)
    BY <1>7 DEF Sound
  <2>2. /\ \A i \in 1 .. m - 1 : g[2 * i] = IF i < j THEN g[2 * i] ELSE g[2 * i + 2]
        /\ \A i \in 1 .. 2 * (m - 1) : \E q \in 1 .. 2 * m : g[i] = g[q]
    BY <1>7
  <2>. QED
    BY <1>6, <2>1, <2>2 DEF Paired, LeavesOut
<1>8. CASE m > 1 /\ j < m
  <2> DEFINE h == Skipped(g, 2 * m, 2 * j - 1, 2)
  <2>1. Cycle(made.next, h, 2 * (m - 1))
    <3>1. /\ 2 * j - 1 \in Nat /\ 2 \in Nat /\ 2 * j - 1 + 2 < 2 * m /\ c = g[2 * j - 1 + 2 + 1]
          /\ 2 * (m - 1) = 2 * m - 2
      <4>1. 2 * j - 1 + 2 + 1 = 2 * j + 2
        BY <1>1
      <4>. QED
        BY <1>1, <1>5, <1>8, <4>1
    <3>2. Cycle([ring.next EXCEPT ![g[2 * j - 1]] = c], h, 2 * m - 2)
      BY ONLY <1>2, <3>1, CycleCut
    <3>. QED
      BY ONLY <1>5, <3>1, <3>2
  <2>2. \A i \in 0 .. 2 * (m - 1) : h[i] = IF i <= 2 * j - 1 THEN g[i] ELSE g[i + 2]
    BY <1>1 DEF Skipped
  <2>. HIDE DEF h
  <2>3. \A i \in 1 .. 2 * (m - 1) : \E q \in 1 .. 2 * m : h[i] = g[q]
    <3> SUFFICES ASSUME NEW i \in 1 .. 2 * (m - 1)
                 PROVE  \E q \in 1 .. 2 * m : h[i] = g[q]
      OBVIOUS
    <3>1. i \in 1 .. 2 * m /\ i + 2 \in 1 .. 2 * m /\ i \in 0 .. 2 * (m - 1)
      OBVIOUS
    <3>. QED
      BY <2>2, <3>1
  <2>4. h[0] = g[0]
    BY <1>1, <2>2
  <2>5. \A i \in 0 .. 2 * (m - 1) : h[i] \in 2 .. top
    <3> SUFFICES ASSUME NEW i \in 0 .. 2 * (m - 1)
                 PROVE  h[i] \in 2 .. top
      OBVIOUS
    <3>1. i \in 0 .. 2 * m /\ i + 2 \in 0 .. 2 * m
      OBVIOUS
    <3>. QED
      BY <1>2, <2>2, <3>1
  <2>6. \A i \in 1 .. m - 1 : h[2 * i] = IF i < j THEN g[2 * i] ELSE g[2 * i + 2]
    <3> SUFFICES ASSUME NEW i \in 1 .. m - 1
                 PROVE  h[2 * i] = IF i < j THEN g[2 * i] ELSE g[2 * i + 2]
      OBVIOUS
    <3>1. 2 * i \in 0 .. 2 * (m - 1) /\ (2 * i <= 2 * j - 1 <=> i < j)
      BY <1>1
    <3>. QED
      BY <2>2, <3>1
  <2>7. Sound(made, h, 2 * (m - 1), top)
    <3>1. made.ptr = g[0]
      BY <1>2, <1>8, <1>10
    <3>. QED
      BY ONLY <2>1, <2>4, <2>5, <3>1 DEF Sound
  <2>. QED
    BY <1>6, <2>3, <2>6, <2>7 DEF Paired, LeavesOut
<1>9. CASE m > 1 /\ j = m
  <2> DEFINE h == Reduced(g, 2 * m)
  <2>1. Cycle(made.next, h, 2 * (m - 1))
    <3>1. 2 * m > 3 /\ c = g[2] /\ 2 * (m - 1) = 2 * m - 2 /\ 2 * j - 1 = 2 * m - 1
      BY <1>1, <1>5, <1>9
    <3>2. Cycle([ring.next EXCEPT ![g[2 * m - 1]] = c], h, 2 * m - 2)
      BY ONLY <1>2, <3>1, CycleUnpaired
    <3>. QED
      BY ONLY <1>5, <3>1, <3>2
  <2>2. \A i \in 0 .. 2 * (m - 1) : h[i] = IF i = 0 THEN g[2 * m - 2] ELSE IF i = 1 THEN g[2 * m - 1] ELSE g[i]
    BY <1>1 DEF Reduced
  <2>. HIDE DEF h
  <2>3. \A i \in 1 .. 2 * (m - 1) : \E q \in 1 .. 2 * m : h[i] = g[q]
    <3> SUFFICES ASSUME NEW i \in 1 .. 2 * (m - 1)
                 PROVE  \E q \in 1 .. 2 * m : h[i] = g[q]
      OBVIOUS
    <3>1. i \in 1 .. 2 * m /\ 2 * m - 1 \in 1 .. 2 * m /\ i \in 0 .. 2 * (m - 1) /\ i # 0
      BY <1>1
    <3>. QED
      BY <2>2, <3>1
  <2>4. h[0] = g[2 * m - 2]
    BY <1>1, <2>2
  <2>5. \A i \in 0 .. 2 * (m - 1) : h[i] \in 2 .. top
    <3> SUFFICES ASSUME NEW i \in 0 .. 2 * (m - 1)
                 PROVE  h[i] \in 2 .. top
      OBVIOUS
    <3>1. i \in 0 .. 2 * m /\ 2 * m - 1 \in 0 .. 2 * m /\ 2 * m - 2 \in 0 .. 2 * m
      BY <1>1
    <3>. QED
      BY <1>2, <2>2, <3>1
  <2>6. \A i \in 1 .. m - 1 : h[2 * i] = IF i < j THEN g[2 * i] ELSE g[2 * i + 2]
    <3> SUFFICES ASSUME NEW i \in 1 .. m - 1
                 PROVE  h[2 * i] = IF i < j THEN g[2 * i] ELSE g[2 * i + 2]
      OBVIOUS
    <3>1. 2 * i \in 0 .. 2 * (m - 1) /\ i < j /\ 2 * i # 0 /\ 2 * i # 1
      BY <1>1, <1>9
    <3>. QED
      BY <2>2, <3>1
  <2>7. Sound(made, h, 2 * (m - 1), top)
    <3>1. made.ptr = g[2 * m - 2]
      BY <1>9, <1>10
    <3>. QED
      BY ONLY <2>1, <2>4, <2>5, <3>1 DEF Sound
  <2>. QED
    BY <1>6, <2>3, <2>6, <2>7 DEF Paired, LeavesOut
<1>. QED
  BY <1>1, <1>7, <1>8, <1>9

-----------------------------------------------------------------------------
(* The other functions of an array, told from ArrInsert and ArrRemoveRange *)

LEMMA HopFew ==
    ASSUME NEW ring, NEW v
    PROVE  /\ Hop(ring, v, 0) = v /\ Hop(ring, v, 1) = ring.next[v]
           /\ Hop(ring, v, 2) = ring.next[ring.next[v]]
<1> DEFINE F(n, f) == f = [k \in 0 .. n |-> IF k = 0 THEN v ELSE ring.next[f[k - 1]]]
           at(n) == CHOOSE f : F(n, f)
<1>1. /\ F(0, [k \in 0 .. 0 |-> v])
      /\ F(1, [k \in 0 .. 1 |-> IF k = 0 THEN v ELSE ring.next[v]])
      /\ F(2, [k \in 0 .. 2 |-> IF k = 0 THEN v ELSE IF k = 1 THEN ring.next[v]
                                ELSE ring.next[ring.next[v]]])
  BY SMTT(30)
<1>2. F(0, at(0)) /\ F(1, at(1)) /\ F(2, at(2))
  BY ZenonT(30), <1>1
<1>3. /\ Hop(ring, v, 0) = at(0)[0] /\ Hop(ring, v, 1) = at(1)[1] /\ Hop(ring, v, 2) = at(2)[2]
  BY DEF Hop
<1>. HIDE DEF at
<1>4. at(0)[0] = v
  BY <1>2
<1>5. at(1)[0] = v /\ at(1)[1] = ring.next[at(1)[0]]
  BY <1>2
<1>6. at(2)[0] = v /\ at(2)[1] = ring.next[at(2)[0]] /\ at(2)[2] = ring.next[at(2)[1]]
  BY <1>2
<1>. QED
  BY <1>3, <1>4, <1>5, <1>6

LEMMA ArrAppendIs ==
    ASSUME NEW N \in Nat, NEW ring \in Rings(N), NEW v \in 1 .. N
    PROVE  ArrAppend(ring, v) = ArrInsert(ring, v, ring.len)
<1>1. ring.len \in Nat /\ v # NULL /\ ~ (ring.len > ring.len)
  BY DEF Rings, NULL
<1>2. CASE ring.len = 0
  BY <1>1, <1>2 DEF ArrAppend, ArrInsert, Rings
<1>3. CASE ring.len # 0
  BY ONLY <1>1, <1>3 DEF ArrAppend, ArrInsert
<1>. QED
  BY <1>2, <1>3

LEMMA ArrPrependIs ==
    ASSUME NEW N \in Nat, NEW ring \in Rings(N), NEW v \in 1 .. N
    PROVE  ArrPrepend(ring, v) = ArrInsert(ring, v, 0)
<1>1. ring.len \in Nat /\ v # NULL /\ ~ (0 > ring.len)
  BY DEF Rings, NULL
<1>2. Hop(ring, ring.ptr, 0) = ring.ptr
  BY HopFew
<1>. QED
  BY ONLY <1>1, <1>2 DEF ArrPrepend, ArrInsert

\* What unlinks the cell behind g[idx] is ArrRemoveRange of one cell.
LEMMA ArrRemovedIs ==
    ASSUME NEW N \in Nat, NEW ring \in Rings(N), NEW g, NEW top \in 0 .. N,
           Sound(ring, g, ring.len, top), NEW idx \in Nat, idx < ring.len, ring.len > 1
    PROVE  ArrRemoveRange(ring, idx, 1)
             = [ring EXCEPT !.len = @ - 1, !.next[g[idx]] = ring.next[g[idx + 1]],
                            !.ptr = IF idx + 1 = ring.len THEN g[idx] ELSE @]
<1>0. ring.len \in Nat /\ idx \in 0 .. ring.len /\ idx \in 0 .. ring.len - 1
  BY DEF Rings
<1>1. /\ Hop(ring, ring.ptr, idx) = g[idx] /\ ring.next[g[idx]] = g[idx + 1]
  <2>1. /\ \A i \in 0 .. ring.len : Hop(ring, ring.ptr, i) = g[i]
        /\ \A i \in 0 .. ring.len - 1 : ring.next[g[i]] = g[i + 1]
    BY <1>0, SoundArr
  <2>. QED
    BY ONLY <1>0, <2>1
<1>2. Hop(ring, g[idx], 2) = ring.next[ring.next[g[idx]]]
  BY HopFew
<1>3. ~ (idx + 1 > ring.len) /\ 1 # 0 /\ 1 # ring.len /\ 1 + 1 = 2
  BY DEF Rings
<1>. QED
  BY ONLY <1>1, <1>2, <1>3 DEF ArrRemoveRange

LEMMA ArrRemoveIs ==
    ASSUME NEW N \in Nat, NEW ring \in Rings(N), NEW g, NEW top \in 0 .. N,
           Sound(ring, g, ring.len, top), NEW idx \in Nat, idx < ring.len
    PROVE  ArrRemove(ring, idx) = ArrRemoveRange(ring, idx, 1)
<1>0. ring.len \in Nat
  BY DEF Rings
<1>1. CASE ring.len > 1
  <2>1. /\ Hop(ring, ring.ptr, idx) = g[idx] /\ ring.next[g[idx]] = g[idx + 1]
        /\ ring.ptr = g[ring.len]
    BY <1>0, SoundArr
  <2>2. g[idx + 1] = ring.ptr <=> idx + 1 = ring.len
    <3>1. idx + 1 \in 1 .. ring.len /\ ring.len \in 1 .. ring.len
      BY <1>0
    <3>2. \A i, j \in 1 .. ring.len : g[i] = g[j] => i = j
      BY <1>0, <1>1 DEF Sound, Cycle
    <3>. QED
      BY ONLY <2>1, <3>1, <3>2
  <2>3. ~ (idx >= ring.len)
    BY <1>0
  <2>4. ArrRemove(ring, idx)
          = [ring EXCEPT !.len = @ - 1, !.next[g[idx]] = ring.next[g[idx + 1]],
                         !.ptr = IF g[idx + 1] = ring.ptr THEN g[idx] ELSE @]
    BY ONLY <1>1, <2>1, <2>3 DEF ArrRemove, Next1
  <2>5. ArrRemoveRange(ring, idx, 1)
          = [ring EXCEPT !.len = @ - 1, !.next[g[idx]] = ring.next[g[idx + 1]],
                         !.ptr = IF idx + 1 = ring.len THEN g[idx] ELSE @]
    BY ONLY ZenonT(30), <1>1, ArrRemovedIs, N \in Nat, ring \in Rings(N), top \in 0 .. N,
            Sound(ring, g, ring.len, top), idx \in Nat, idx < ring.len
  <2>. QED
    BY ONLY <2>2, <2>4, <2>5
<1>2. CASE ~ (ring.len > 1)
  <2>1. ~ (idx >= ring.len) /\ ~ (idx + 1 > ring.len) /\ 1 # 0 /\ ring.len = 1
    BY <1>0, <1>2
  <2>. QED
    BY ONLY <1>2, <2>1 DEF ArrRemove, ArrRemoveRange
<1>. QED
  BY <1>1, <1>2

LEMMA ArrRemoveFirstIs ==
    ASSUME NEW N \in Nat, NEW ring \in Rings(N), NEW g, NEW top \in 0 .. N,
           Sound(ring, g, ring.len, top), ring.len > 0
    PROVE  ArrRemoveFirst(ring) = ArrRemoveRange(ring, 0, 1)
<1>0. ring.len \in Nat /\ 0 \in Nat /\ 0 < ring.len /\ 0 + 1 = 1
  BY DEF Rings
<1>1. CASE ring.len > 1
  <2>1. /\ ring.next[g[0]] = g[1] /\ ring.ptr = g[0]
    BY <1>0, SoundArr
  <2>2. ring.len # 1
    BY <1>1
  <2>3. ArrRemoveRange(ring, 0, 1)
          = [ring EXCEPT !.len = @ - 1, !.next[g[0]] = ring.next[g[0 + 1]],
                         !.ptr = IF 0 + 1 = ring.len THEN g[0] ELSE @]
    BY ONLY ZenonT(30), <1>0, <1>1, ArrRemovedIs, N \in Nat, ring \in Rings(N), top \in 0 .. N,
            Sound(ring, g, ring.len, top)
  <2>4. g[0 + 1] = g[1] /\ (IF 0 + 1 = ring.len THEN g[0] ELSE ring.ptr) = ring.ptr
    BY ONLY <1>0, <2>2
  <2>5. ArrRemoveRange(ring, 0, 1)
          = [ring EXCEPT !.len = @ - 1, !.next[ring.ptr] = ring.next[ring.next[ring.ptr]],
                         !.ptr = ring.ptr]
    BY ONLY <2>1, <2>3, <2>4
  <2>6. ArrRemoveFirst(ring)
          = [ring EXCEPT !.len = @ - 1, !.next[ring.ptr] = ring.next[ring.next[ring.ptr]]]
    BY ONLY <1>1 DEF ArrRemoveFirst, Next2
  <2>7. [ring EXCEPT !.len = @ - 1, !.next[ring.ptr] = ring.next[ring.next[ring.ptr]]]
          = [ring EXCEPT !.len = @ - 1, !.next[ring.ptr] = ring.next[ring.next[ring.ptr]],
                         !.ptr = ring.ptr]
    BY DEF Rings
  <2>. QED
    BY ONLY <2>5, <2>6, <2>7
<1>2. CASE ~ (ring.len > 1)
  <2>1. ~ (1 > ring.len) /\ 1 # 0 /\ ring.len = 1
    BY <1>0, <1>2
  <2>. QED
    BY ONLY <1>0, <1>2, <2>1 DEF ArrRemoveFirst, ArrRemoveRange
<1>. QED
  BY <1>1, <1>2

LEMMA ArrRemoveLastIs ==
    ASSUME NEW N \in Nat, NEW ring \in Rings(N), NEW g, NEW top \in 0 .. N,
           Sound(ring, g, ring.len, top), ring.len > 0
    PROVE  ArrRemoveLast(ring) = ArrRemoveRange(ring, ring.len - 1, 1)
<1> DEFINE l == ring.len - 1
<1>0. /\ ring.len \in Nat /\ l \in Nat /\ l < ring.len /\ l + 1 = ring.len
  BY DEF Rings
<1>. HIDE DEF l
<1>1. CASE ring.len > 1
  <2>1. /\ Hop(ring, ring.ptr, l) = g[l] /\ ring.ptr = g[l + 1]
    BY <1>0, SoundArr
  <2>2. ArrRemoveRange(ring, l, 1)
          = [ring EXCEPT !.len = @ - 1, !.next[g[l]] = ring.next[g[l + 1]],
                         !.ptr = IF l + 1 = ring.len THEN g[l] ELSE @]
    <3>1. l \in Nat /\ l < ring.len
      BY ONLY <1>0
    <3>. QED
      BY ONLY ZenonT(30), <3>1, <1>1, ArrRemovedIs, N \in Nat, ring \in Rings(N), top \in 0 .. N,
              Sound(ring, g, ring.len, top)
  <2>3. ArrRemoveLast(ring)
          = [ring EXCEPT !.len = @ - 1, !.next[g[l]] = ring.next[ring.ptr], !.ptr = g[l]]
    BY ONLY <1>1, <2>1 DEF ArrRemoveLast, Next1, l
  <2>. QED
    BY ONLY <1>0, <2>1, <2>2, <2>3 DEF l
<1>2. CASE ~ (ring.len > 1)
  <2>1. ~ (l + 1 > ring.len) /\ 1 # 0 /\ ring.len = 1
    BY <1>0, <1>2
  <2>. QED
    BY ONLY <1>2, <2>1 DEF ArrRemoveLast, ArrRemoveRange, l
<1>. QED
  BY <1>1, <1>2

\* An iterator at the pth of n members moves uni.ptr as it has to.
Tells(at, p, n) == /\ p = n => at.idx = n
                   /\ at.idx = n => p \in {1, n}

\* The removal of an iterator that has come to the pth element.
LEMMA ArrUnlinkSound ==
    ASSUME NEW N \in Nat, NEW ring \in Rings(N), NEW g, NEW top \in 0 .. N,
           Sound(ring, g, ring.len, top), NEW at, at.max = ring.len,
           NEW p \in 1 .. ring.len, at.cur = g[p], at.pre = g[p - 1], Tells(at, p, ring.len)
    PROVE  LET made == ArrUnlink(ring, at)
           IN  /\ made \in Rings(N) /\ made.len = ring.len - 1 /\ made.is = ring.is
               /\ \E h : Sound(made, h, made.len, top) /\ CutsOut(g, h, ring.len, p - 1, 1)
<1> DEFINE made == ArrUnlink(ring, at)
           idx == p - 1
<1>0. /\ ring.len \in Nat /\ ring.len > 0 /\ idx \in Nat /\ idx < ring.len /\ idx + 1 = p
      /\ idx \in 0 .. ring.len /\ ring.len - 1 \in Nat
  BY DEF Rings
<1>1. made = [ring EXCEPT !.ptr = IF idx + 1 = ring.len THEN g[idx] ELSE @, !.len = ring.len - 1,
                          !.next[g[idx]] = ring.next[g[idx + 1]]]
  <2>. HIDE DEF idx
  <2>1. at.pre = g[idx]
    BY DEF idx
  <2>2. made = [ring EXCEPT !.ptr = IF at.idx = ring.len THEN g[idx] ELSE @, !.len = ring.len - 1,
                            !.next[g[idx]] = ring.next[g[idx + 1]]]
    BY ONLY <1>0, <2>1, at.max = ring.len, at.cur = g[p] DEF made, ArrUnlink, Next1
  <2>3. idx = 0 => g[idx] = ring.ptr
    BY <1>0, SoundArr
  <2>4. (IF at.idx = ring.len THEN g[idx] ELSE ring.ptr) = IF idx + 1 = ring.len THEN g[idx] ELSE ring.ptr
    <3>1. idx + 1 = ring.len => at.idx = ring.len
      BY ONLY <1>0, Tells(at, p, ring.len) DEF Tells
    <3>2. at.idx = ring.len => idx + 1 = ring.len \/ idx = 0
      BY ONLY <1>0, Tells(at, p, ring.len) DEF Tells
    <3>. QED
      BY ONLY <2>3, <3>1, <3>2
  <2>. QED
    BY ONLY <2>2, <2>4
<1>. HIDE DEF made, idx
<1>2. CASE ring.len > 1
  <2>1. idx \in Nat /\ idx < ring.len /\ 1 \in Nat /\ 1 > 0
    BY ONLY <1>0
  <2>2. ArrRemoveRange(ring, idx, 1)
          = [ring EXCEPT !.len = @ - 1, !.next[g[idx]] = ring.next[g[idx + 1]],
                         !.ptr = IF idx + 1 = ring.len THEN g[idx] ELSE @]
    BY ONLY ZenonT(30), <2>1, <1>2, ArrRemovedIs, N \in Nat, ring \in Rings(N), top \in 0 .. N,
            Sound(ring, g, ring.len, top)
  <2>3. made = ArrRemoveRange(ring, idx, 1)
    BY ONLY <1>1, <2>2
  <2>4. idx + 1 <= ring.len
    BY ONLY <1>0
  <2>5. /\ made \in Rings(N) /\ made.len = ring.len - 1 /\ made.is = ring.is
        /\ \E h : Sound(made, h, made.len, top) /\ CutsOut(g, h, ring.len, idx, 1)
    <3> DEFINE one == 1
    <3>1. one \in Nat /\ one > 0 /\ idx + one <= ring.len /\ idx \in Nat
      BY ONLY <2>1, <2>4
    <3>2. made = ArrRemoveRange(ring, idx, one)
      BY ONLY <2>3
    <3>. HIDE DEF one
    <3> DEFINE cut == ArrRemoveRange(ring, idx, one)
    <3>3. /\ cut \in Rings(N) /\ cut.len = ring.len - one /\ cut.is = ring.is
          /\ \E h : Sound(cut, h, cut.len, top) /\ CutsOut(g, h, ring.len, idx, one)
      BY ONLY <3>1, ArrRemoveRangeSound, N \in Nat, ring \in Rings(N), top \in 0 .. N,
              Sound(ring, g, ring.len, top)
    <3>4. made = cut
      BY ONLY <3>2
    <3>. HIDE DEF cut
    <3>. QED
      BY ONLY <3>3, <3>4 DEF one
  <2>. QED
    BY ONLY <2>5 DEF made, idx
<1>3. CASE ring.len = 1
  <2>1. /\ \A i \in 0 .. ring.len : g[i] \in 2 .. top /\ g[i] \in 1 .. N
        /\ \A i \in 0 .. ring.len - 1 : ring.next[g[i]] = g[i + 1]
        /\ g[0] = g[ring.len]
    BY <1>0, SoundArr
  <2>2. idx = 0 /\ ring.next[g[idx + 1]] \in 0 .. N /\ g[idx] \in 0 .. N
    BY <1>0, <1>3, <2>1
  <2>3. made \in Rings(N) /\ made.len = ring.len - 1 /\ made.is = ring.is
    BY ONLY <1>0, <1>1, <2>2, ring \in Rings(N), N \in Nat DEF Rings
  <2>4. Sound(made, g, made.len, top)
    BY <1>3, <2>3 DEF Sound
  <2>5. CutsOut(g, g, ring.len, idx, 1)
    BY ONLY <1>3 DEF CutsOut
  <2>. QED
    BY ONLY <2>3, <2>4, <2>5 DEF made, idx
<1>. QED
  BY <1>0, <1>2, <1>3

-----------------------------------------------------------------------------
(* The functions of an object *)

\* The removal of an iterator that has come to the pth pair.
LEMMA ObjUnlinkSound ==
    ASSUME NEW N \in Nat, NEW ring \in Rings(N), NEW g, NEW top \in 0 .. N,
           Paired(ring, g, ring.len, top), NEW at, at.max = ring.len,
           NEW p \in 1 .. ring.len, at.cur = g[2 * p], at.pre = g[2 * p - 2],
           Tells(at, p, ring.len)
    PROVE  LET made == ObjUnlink(ring, at)
           IN  /\ made \in Rings(N) /\ made.len = ring.len - 1 /\ made.is = ring.is
               /\ SameValues(ring, made, g, ring.len)
               /\ \E h : /\ Paired(made, h, made.len, top)
                         /\ LeavesOut(g, h, ring.len, p)
<1> DEFINE made == ObjUnlink(ring, at)
           m == ring.len
           j == p
<1>0. m \in Nat /\ m > 0 /\ j \in 1 .. m /\ m - 1 \in Nat
  BY DEF Rings
<1>1. made = [ring EXCEPT !.ptr = IF j = m THEN g[2 * j - 2] ELSE @, !.len = m - 1,
                          !.next[ring.next[g[2 * j - 2]]] = ring.next[ring.next[g[2 * j]]]]
  <2>1. made = [ring EXCEPT !.ptr = IF at.idx = m THEN g[2 * j - 2] ELSE @, !.len = m - 1,
                            !.next[ring.next[g[2 * j - 2]]] = ring.next[ring.next[g[2 * j]]]]
    BY DEF ObjUnlink, Next2
  <2>2. 2 * 1 - 2 = 0 /\ g[0] = ring.ptr
    BY <1>0 DEF Paired, Sound
  <2>3. j = 1 => g[2 * j - 2] = ring.ptr
    BY ONLY <2>2
  <2>4. (IF at.idx = m THEN g[2 * j - 2] ELSE ring.ptr) = IF j = m THEN g[2 * j - 2] ELSE ring.ptr
    <3>1. (j = m => at.idx = m) /\ (at.idx = m => j \in {1, m})
      BY ONLY Tells(at, p, ring.len) DEF Tells
    <3>. QED
      BY ONLY <2>3, <3>1
  <2>. HIDE DEF made, j, m
  <2>. QED
    BY ONLY <2>1, <2>4
<1>2. /\ ring.next[ring.next[g[2 * j]]] \in 0 .. N /\ g[2 * j - 2] \in 0 .. N
  <2>1. 2 * m \in Nat /\ 2 * m > 0 /\ 2 * j \in 0 .. 2 * m /\ 2 * j - 2 \in 0 .. 2 * m /\ 0 \in 0 .. 2 * m - 1
        /\ 2 * j + 1 \in 0 .. 2 * m + 1 /\ 1 \in 0 .. 2 * m - 1 /\ 0 + 1 = 1 /\ 1 + 1 = 2 /\ 2 \in 0 .. 2 * m
        /\ (2 * j = 2 * m \/ (2 * j \in 0 .. 2 * m - 1 /\ 2 * j + 1 \in 0 .. 2 * m - 1))
        /\ (2 * j + 1 + 1 \in 0 .. 2 * m \/ 2 * j = 2 * m)
    BY ONLY <1>0
  <2>2. /\ \A i \in 0 .. 2 * m : g[i] \in 1 .. N
        /\ \A i \in 0 .. 2 * m - 1 : ring.next[g[i]] = g[i + 1]
        /\ g[0] = g[2 * m]
    BY ONLY <2>1, SoundObj, N \in Nat, ring \in Rings(N), top \in 0 .. N,
            Paired(ring, g, m, top) DEF Paired
  <2>3. g[2 * j - 2] \in 0 .. N
    BY <2>1, <2>2
  <2>4. ring.next[ring.next[g[2 * j]]] \in 1 .. N
    <3>1. CASE 2 * j = 2 * m
      BY ONLY <2>1, <2>2, <3>1
    <3>2. CASE 2 * j # 2 * m
      <4>1. /\ 2 * j \in 0 .. 2 * m - 1 /\ 2 * j + 1 \in 0 .. 2 * m - 1
            /\ 2 * j + 1 + 1 \in 0 .. 2 * m
        BY ONLY <2>1, <3>2
      <4>2. ring.next[g[2 * j]] = g[2 * j + 1] /\ ring.next[g[2 * j + 1]] = g[2 * j + 1 + 1]
        BY ONLY <2>2, <4>1
      <4> DEFINE i == 2 * j + 1 + 1
                 l == 2 * m
      <4>3. i \in 0 .. l /\ \A q \in 0 .. l : g[q] \in 1 .. N
        BY ONLY <2>2, <4>1
      <4>4. g[i] \in 1 .. N
        <5>. HIDE DEF i, l
        <5>. QED
          BY ONLY Zenon, <4>3
      <4>. QED
        BY ONLY <4>2, <4>4
    <3>. QED
      BY ONLY <3>1, <3>2
  <2>. QED
    BY ONLY <2>3, <2>4
<1>. HIDE DEF made
<1>3. made \in Rings(N) /\ made.len = m - 1 /\ made.is = ring.is
  BY ONLY <1>0, <1>1, <1>2, ring \in Rings(N), N \in Nat DEF Rings
<1>4. Unlinks(ring, made, g, m, j)
  BY ONLY <1>1, ring \in Rings(N) DEF Rings, Unlinks
<1>. HIDE DEF j, m
<1>5. Paired(ring, g, m, top) /\ m \in Nat /\ j \in 1 .. m
  BY <1>0 DEF m
<1>6. /\ SameValues(ring, made, g, m)
      /\ \E h : Paired(made, h, m - 1, top) /\ LeavesOut(g, h, m, j)
  BY ONLY <1>3, <1>4, <1>5, PairCut, N \in Nat, ring \in Rings(N), top \in 0 .. N
<1>. QED
  BY ONLY <1>3, <1>6 DEF made, m, j

\* h begins behind the idxth of m pairs.
Turns(g, h, m, idx) ==
    /\ \A i \in 1 .. m : h[2 * i] = IF i + idx <= m THEN g[2 * (i + idx)] ELSE g[2 * (i + idx - m)]
    /\ \A i \in 1 .. 2 * m : \E q \in 1 .. 2 * m : h[i] = g[q]

LEMMA ObjRotateSound ==
    ASSUME NEW N \in Nat, NEW ring \in Rings(N), NEW g, NEW top \in 0 .. N,
           Paired(ring, g, ring.len, top), NEW idx \in Nat, idx < ring.len
    PROVE  LET made == ObjRotate(ring, idx)
               m    == ring.len
           IN  /\ made \in Rings(N) /\ made.len = m /\ made.is = ring.is /\ made.next = ring.next
               /\ \E h : Paired(made, h, m, top) /\ Turns(g, h, m, idx)
<1> DEFINE made == ObjRotate(ring, idx)
           m == ring.len
           n == 2 * m
           k == 2 * idx
<1>0. m \in Nat /\ m > 0 /\ n \in Nat /\ n > 0 /\ k \in 0 .. n /\ ring.len > idx
  BY DEF Rings
<1>1. Sound(ring, g, n, top) /\ n \in Nat /\ n > 0 /\ k \in 0 .. n
  BY ONLY <1>0, Paired(ring, g, ring.len, top) DEF Paired
<1>2. made = [ring EXCEPT !.ptr = g[k]]
  <2>1. Hop(ring, ring.ptr, k) = g[k]
    <3>. HIDE DEF n, k
    <3>1. \A i \in 0 .. n : Hop(ring, ring.ptr, i) = g[i]
      BY ONLY <1>1, SoundObj, N \in Nat, ring \in Rings(N), top \in 0 .. N
    <3>. QED
      BY ONLY <1>1, <3>1
  <2>. QED
    BY ONLY <1>0, <2>1 DEF ObjRotate, made, k
<1>7. g[k] \in 0 .. N
  <2>. HIDE DEF n, k
  <2>1. \A i \in 0 .. n : g[i] \in 2 .. top
    BY ONLY <1>0, <1>1 DEF Sound
  <2>. QED
    BY <1>1, <2>1
<1>3. /\ made \in Rings(N) /\ made.len = ring.len /\ made.is = ring.is /\ made.next = ring.next
      /\ made.ptr = g[k]
  <2>. HIDE DEF made, k
  <2>. QED
    BY ONLY <1>2, <1>7, ring \in Rings(N), N \in Nat DEF Rings
<1>6. PICK h : /\ Sound(made, h, n, top)
               /\ \A i \in 0 .. n : h[i] = IF i <= n - k THEN g[i + k] ELSE g[i + k - n]
  <2>. HIDE DEF made, n, k
  <2>. QED
    BY ONLY <1>1, <1>3, RotatedSound
<1>4. \A i \in 1 .. m : h[2 * i] = IF i + idx <= m THEN g[2 * (i + idx)] ELSE g[2 * (i + idx - m)]
  <2> SUFFICES ASSUME NEW i \in 1 .. m
               PROVE  h[2 * i] = IF i + idx <= m THEN g[2 * (i + idx)] ELSE g[2 * (i + idx - m)]
    OBVIOUS
  <2>1. /\ 2 * i \in 0 .. n /\ (2 * i <= n - k <=> i + idx <= m) /\ 2 * i + k = 2 * (i + idx)
        /\ 2 * i + k - n = 2 * (i + idx - m)
    BY <1>0
  <2>. QED
    BY ONLY <1>6, <2>1
<1>5. \A i \in 1 .. n : \E q \in 1 .. n : h[i] = g[q]
  <2> SUFFICES ASSUME NEW i \in 1 .. n
               PROVE  \E q \in 1 .. n : h[i] = g[q]
    OBVIOUS
  <2>1. i \in 0 .. n /\ (IF i <= n - k THEN i + k ELSE i + k - n) \in 1 .. n
    BY <1>0
  <2>. QED
    BY ONLY <1>6, <2>1
<1>. QED
  BY <1>3, <1>4, <1>5, <1>6 DEF Paired, Turns

\* The cell c is none of the m pairs.
Apart(g, m, c) == \A i \in 1 .. 2 * m : g[i] # c

\* h is g with the key k behind the idxth of m pairs.
PutsIn(g, h, m, k, idx) ==
    \A i \in 1 .. m + 1 : h[2 * i] = IF i <= idx THEN g[2 * i]
                                     ELSE IF i = idx + 1 THEN k ELSE g[2 * (i - 1)]

LEMMA ObjAdded ==
    ASSUME NEW N \in Nat, NEW ring \in Rings(N), NEW g, NEW top \in 0 .. N,
           Paired(ring, g, ring.len, top), NEW k \in 2 .. top, NEW v \in 2 .. top, k # v,
           Apart(g, ring.len, k), Apart(g, ring.len, v)
    PROVE  LET made == ObjAdd(ring, k, v)
           IN  /\ made \in Rings(N) /\ made.len = ring.len + 1 /\ made.is = ring.is
               /\ made.next[k] = v /\ SameValues(ring, made, g, ring.len)
               /\ \E h : Paired(made, h, made.len, top) /\ PutsIn(g, h, ring.len, k, ring.len)
<1> DEFINE made == ObjAdd(ring, k, v)
<1>1. /\ Sound(ring, g, 2 * ring.len, top)
      /\ \A i \in 1 .. 2 * ring.len : g[i] # k /\ g[i] # v
  BY DEF Paired, Apart
<1>2. /\ made \in Rings(N) /\ made.len = ring.len + 1 /\ made.is = ring.is
      /\ made.next[k] = v
      /\ \A i \in 1 .. ring.len : made.next[g[2 * i]] = ring.next[g[2 * i]]
      /\ \E h : /\ Sound(made, h, 2 * made.len, top)
                /\ \A i \in 1 .. ring.len + 1 : h[2 * i] = IF i <= ring.len THEN g[2 * i] ELSE k
  BY ONLY <1>1, ObjAddSound, k # v, N \in Nat, ring \in Rings(N), top \in 0 .. N,
          k \in 2 .. top, v \in 2 .. top
<1>. HIDE DEF made
<1>3. PICK h : /\ Sound(made, h, 2 * made.len, top)
               /\ \A i \in 1 .. ring.len + 1 : h[2 * i] = IF i <= ring.len THEN g[2 * i] ELSE k
  BY ONLY <1>2
<1>4. PutsIn(g, h, ring.len, k, ring.len)
  <2>1. ring.len \in Nat
    BY DEF Rings
  <2>2. \A i \in 1 .. ring.len + 1 : i <= ring.len \/ i = ring.len + 1
    BY ONLY <2>1
  <2>. QED
    BY ONLY <1>3, <2>2 DEF PutsIn
<1>. QED
  BY ONLY <1>2, <1>3, <1>4 DEF made, Paired, SameValues

LEMMA ObjInserted ==
    ASSUME NEW N \in Nat, NEW ring \in Rings(N), NEW g, NEW top \in 0 .. N,
           Paired(ring, g, ring.len, top), NEW k \in 2 .. top, NEW v \in 2 .. top, k # v,
           Apart(g, ring.len, k), Apart(g, ring.len, v), NEW idx \in Nat, idx <= ring.len
    PROVE  LET made == ObjInsert(ring, k, v, idx)
           IN  /\ made \in Rings(N) /\ made.len = ring.len + 1 /\ made.is = ring.is
               /\ made.next[k] = v /\ SameValues(ring, made, g, ring.len)
               /\ \E h : Paired(made, h, made.len, top) /\ PutsIn(g, h, ring.len, k, idx)
<1> DEFINE made == ObjInsert(ring, k, v, idx)
           m == ring.len
           n == 2 * (m + 1)
           b == 2 * (m - idx)
<1>0. m \in Nat /\ v # NULL /\ ~ (idx > ring.len)
  BY DEF Rings, NULL
<1>1. CASE idx = ring.len
  <2>1. ObjInsert(ring, k, v, idx) = ObjAdd(ring, k, v)
    BY ONLY <1>0, <1>1 DEF ObjInsert
  <2>. QED
    <3>1. LET add == ObjAdd(ring, k, v)
          IN  /\ add \in Rings(N) /\ add.len = ring.len + 1 /\ add.is = ring.is
              /\ add.next[k] = v /\ SameValues(ring, add, g, ring.len)
              /\ \E h : Paired(add, h, add.len, top) /\ PutsIn(g, h, ring.len, k, ring.len)
      BY ONLY ObjAdded, N \in Nat, ring \in Rings(N), top \in 0 .. N, k \in 2 .. top, v \in 2 .. top,
              k # v, Paired(ring, g, ring.len, top), Apart(g, ring.len, k), Apart(g, ring.len, v)
    <3>. QED
      BY ONLY <1>1, <2>1, <3>1
<1>2. CASE idx # ring.len
  <2> DEFINE turned == ObjRotate(ring, idx)
             grown == ObjAdd(turned, k, v)
  <2>0. idx < ring.len
    BY <1>0, <1>2
  <2>1. made = [grown EXCEPT !.ptr = ring.ptr]
    BY ONLY <1>0, <1>2 DEF ObjInsert, made
  <2>2. /\ turned \in Rings(N) /\ turned.len = m /\ turned.is = ring.is /\ turned.next = ring.next
        /\ \E h : Paired(turned, h, m, top) /\ Turns(g, h, m, idx)
    BY <2>0, ObjRotateSound
  <2>. HIDE DEF turned, made
  <2>3. PICK t : Paired(turned, t, m, top) /\ Turns(g, t, m, idx)
    BY ONLY <2>2
  <2>4. Apart(t, m, k) /\ Apart(t, m, v)
    BY ONLY <2>3, Apart(g, m, k), Apart(g, m, v) DEF Turns, Apart
  <2>5. /\ grown \in Rings(N) /\ grown.len = m + 1 /\ grown.is = ring.is
        /\ grown.next[k] = v /\ SameValues(turned, grown, t, m)
        /\ \E h : Paired(grown, h, grown.len, top) /\ PutsIn(t, h, m, k, m)
    <3>1. /\ turned \in Rings(N) /\ Paired(turned, t, turned.len, top)
          /\ Apart(t, turned.len, k) /\ Apart(t, turned.len, v)
      BY ONLY <2>2, <2>3, <2>4
    <3>2. /\ grown \in Rings(N) /\ grown.len = turned.len + 1 /\ grown.is = turned.is
          /\ grown.next[k] = v /\ SameValues(turned, grown, t, turned.len)
          /\ \E h : Paired(grown, h, grown.len, top) /\ PutsIn(t, h, turned.len, k, turned.len)
      BY ONLY <3>1, ObjAdded, N \in Nat, top \in 0 .. N, k \in 2 .. top, v \in 2 .. top, k # v
    <3>. QED
      BY ONLY <2>2, <3>2
  <2>. HIDE DEF grown
  <2>6. PICK h : Paired(grown, h, m + 1, top) /\ PutsIn(t, h, m, k, m)
    BY ONLY <2>5
  <2>7. n \in Nat /\ n > 0 /\ b \in 0 .. n /\ Sound(grown, h, n, top)
    <3>1. n \in Nat /\ n > 0 /\ b \in 0 .. n
      BY <1>0, <2>0
    <3>. QED
      BY ONLY <2>6, <3>1 DEF Paired
  <2>8. h[b] = ring.ptr
    <3>1. m - idx \in 1 .. m /\ m - idx \in 1 .. m + 1 /\ m - idx <= m /\ m - idx + idx <= m
          /\ m - idx + idx = m
      BY ONLY <1>0, <2>0, idx \in Nat
    <3>2. h[b] = t[b]
      BY ONLY <2>6, <3>1 DEF PutsIn
    <3>3. t[b] = g[2 * m]
      BY ONLY <2>3, <3>1 DEF Turns
    <3>4. g[2 * m] = ring.ptr
      <4>1. 2 * m \in Nat /\ 2 * m > 0
        BY ONLY <1>0, <2>0, idx \in Nat
      <4>. QED
        BY ONLY <4>1, SoundObj, N \in Nat, ring \in Rings(N), top \in 0 .. N,
                Paired(ring, g, m, top) DEF Paired
    <3>. QED
      BY <3>2, <3>3, <3>4
  <2>9. /\ made \in Rings(N) /\ made.len = m + 1 /\ made.is = ring.is /\ made.next = grown.next
        /\ made.ptr = h[b]
    BY ONLY <2>1, <2>5, <2>8, ring \in Rings(N), N \in Nat DEF Rings
  <2>10. PICK f : /\ Sound(made, f, n, top)
                  /\ \A i \in 0 .. n : f[i] = IF i <= n - b THEN h[i + b] ELSE h[i + b - n]
    <3>. HIDE DEF n, b
    <3>. QED
      BY ONLY <2>7, <2>9, RotatedSound
  <2>11. \A i \in 1 .. m : t[2 * i] = IF i + idx <= m THEN g[2 * (i + idx)] ELSE g[2 * (i + idx - m)]
    BY ONLY <2>3 DEF Turns
  <2>12. \A i \in 1 .. m + 1 : h[2 * i] = IF i <= m THEN t[2 * i]
                                          ELSE IF i = m + 1 THEN k ELSE t[2 * (i - 1)]
    BY ONLY <2>6 DEF PutsIn
  <2>13. PutsIn(g, f, m, k, idx)
    <3> SUFFICES ASSUME NEW i \in 1 .. m + 1
                 PROVE  f[2 * i] = IF i <= idx THEN g[2 * i]
                                   ELSE IF i = idx + 1 THEN k ELSE g[2 * (i - 1)]
      BY DEF PutsIn
    <3>1. CASE i <= idx
      <4>1. /\ 2 * i \in 0 .. n /\ 2 * i <= n - b /\ 2 * i + b = 2 * (i + m - idx)
            /\ i + m - idx \in 1 .. m + 1 /\ i + m - idx <= m /\ i + m - idx \in 1 .. m
            /\ (i + m - idx + idx <= m <=> i = 0) /\ i + m - idx + idx - m = i /\ i # 0
        BY <1>0, <2>0, <3>1
      <4>2. f[2 * i] = h[2 * (i + m - idx)]
        BY ONLY <4>1, <2>10
      <4>3. h[2 * (i + m - idx)] = t[2 * (i + m - idx)]
        BY ONLY <4>1, <2>12
      <4>4. t[2 * (i + m - idx)] = g[2 * i]
        BY ONLY <4>1, <2>11
      <4>. QED
        BY ONLY <3>1, <4>2, <4>3, <4>4
    <3>2. CASE i = idx + 1
      <4>1. /\ 2 * i \in 0 .. n /\ 2 * i <= n - b /\ 2 * i + b = 2 * (m + 1)
            /\ m + 1 \in 1 .. m + 1 /\ ~ (m + 1 <= m) /\ ~ (i <= idx)
        BY <1>0, <2>0, <3>2
      <4>2. f[2 * i] = h[2 * (m + 1)]
        BY ONLY <4>1, <2>10
      <4>3. h[2 * (m + 1)] = k
        BY ONLY <4>1, <2>12
      <4>. QED
        BY ONLY <3>2, <4>1, <4>2, <4>3
    <3>3. CASE i > idx + 1
      <4>1. /\ 2 * i \in 0 .. n /\ ~ (2 * i <= n - b) /\ 2 * i + b - n = 2 * (i - 1 - idx)
            /\ i - 1 - idx \in 1 .. m + 1 /\ i - 1 - idx <= m /\ i - 1 - idx \in 1 .. m
            /\ i - 1 - idx + idx <= m /\ i - 1 - idx + idx = i - 1
            /\ ~ (i <= idx) /\ i # idx + 1
        BY <1>0, <2>0, <3>3
      <4>2. f[2 * i] = h[2 * (i - 1 - idx)]
        BY ONLY <4>1, <2>10
      <4>3. h[2 * (i - 1 - idx)] = t[2 * (i - 1 - idx)]
        BY ONLY <4>1, <2>12
      <4>4. t[2 * (i - 1 - idx)] = g[2 * (i - 1)]
        BY ONLY <4>1, <2>11
      <4>. QED
        BY ONLY <4>1, <4>2, <4>3, <4>4
    <3>. QED
      BY <1>0, <3>1, <3>2, <3>3
  <2>14. SameValues(ring, made, g, m)
    <3> SUFFICES ASSUME NEW i \in 1 .. m
                 PROVE  made.next[g[2 * i]] = ring.next[g[2 * i]]
      BY DEF SameValues
    <3> DEFINE q == IF i <= idx THEN i + m - idx ELSE i - idx
    <3>1. /\ q \in 1 .. m /\ (q + idx <= m => q + idx = i) /\ (~ (q + idx <= m) => q + idx - m = i)
      BY <1>0, <2>0
    <3>. HIDE DEF q
    <3>2. t[2 * q] = g[2 * i]
      BY ONLY <2>11, <3>1
    <3>3. grown.next[t[2 * q]] = turned.next[t[2 * q]]
      BY ONLY <2>5, <3>1 DEF SameValues
    <3>. QED
      BY ONLY <2>2, <2>9, <3>2, <3>3
  <2>. QED
    <3>1. Paired(made, f, m + 1, top)
      BY ONLY <2>10 DEF Paired
    <3>. QED
      BY ONLY <2>5, <2>9, <2>13, <2>14, <3>1 DEF made, m
<1>. QED
  BY <1>1, <1>2

-----------------------------------------------------------------------------
(* An object as the sequence of its pairs *)

LEMMA HopNext ==
    ASSUME NEW ring, NEW v, NEW n \in Nat
    PROVE  Hop(ring, v, n + 1) = ring.next[Hop(ring, v, n)]
<1> DEFINE F(m, f) == f = [k \in 0 .. m |-> IF k = 0 THEN v ELSE ring.next[f[k - 1]]]
           at(m) == CHOOSE f : F(m, f)
           T == {m \in Nat : \E f : F(m, f)}
           a == at(n)
           b == at(n + 1)
           U == {m \in Nat : m <= n => a[m] = b[m]}
<1>1. 0 \in T
  <2>1. F(0, [k \in 0 .. 0 |-> v])
    OBVIOUS
  <2>. QED
    BY <2>1
<1>2. \A m \in Nat : m \in T => m + 1 \in T
  <2> SUFFICES ASSUME NEW m \in Nat, m \in T
               PROVE  m + 1 \in T
    OBVIOUS
  <2>1. PICK w : F(m, w)
    OBVIOUS
  <2>2. F(m + 1, [k \in 0 .. m + 1 |-> IF k <= m THEN w[k] ELSE ring.next[w[m]]])
    BY <2>1
  <2>. HIDE DEF F
  <2>3. \E f : F(m + 1, f)
    BY ONLY <2>2
  <2>. QED
    BY ONLY <2>3, m \in Nat
<1>. HIDE DEF T
<1>3. n \in T /\ n + 1 \in T
  BY SMTT(30), <1>1, <1>2, Induction
<1>4. F(n, a) /\ F(n + 1, b)
  BY ZenonT(30), <1>3 DEF T
<1>5. Hop(ring, v, n) = a[n] /\ Hop(ring, v, n + 1) = b[n + 1]
  BY DEF Hop
<1>. HIDE DEF a, b
<1>6. 0 \in U
  BY <1>4
<1>7. \A m \in Nat : m \in U => m + 1 \in U
  BY <1>4
<1>. HIDE DEF U
<1>8. n \in U
  BY <1>6, <1>7, Induction
<1>9. a[n] = b[n]
  BY <1>8 DEF U
<1>10. b[n + 1] = ring.next[b[n]]
  BY <1>4
<1>. QED
  BY <1>5, <1>9, <1>10

\* Keys are at even places, and the cell behind a key is no key.
LEMMA PairFacts ==
    ASSUME NEW N \in Nat, NEW ring \in Rings(N), NEW g, NEW top \in 0 .. N, NEW m \in Nat,
           Paired(ring, g, m, top), m > 0
    PROVE  /\ g[0] = ring.ptr /\ g[2 * m] = ring.ptr
           /\ \A i \in 0 .. m : /\ g[2 * i] \in 2 .. top /\ g[2 * i] \in 1 .. N
                                /\ Hop(ring, ring.ptr, 2 * i) = g[2 * i]
                                /\ Hop(ring, ring.ptr, 2 * i + 1) = ring.next[g[2 * i]]
           /\ \A i \in 1 .. m : /\ ring.next[g[2 * i]] \in 2 .. top
                                /\ \A j \in 1 .. m : /\ ring.next[g[2 * i]] # g[2 * j]
                                                     /\ g[2 * i] = g[2 * j] => i = j
           /\ \A i \in 0 .. m - 1 : ring.next[ring.next[g[2 * i]]] = g[2 * (i + 1)]
           /\ ring.next[ring.next[g[2 * m]]] = g[2]
<1>1. 2 * m \in Nat /\ 2 * m > 0
  OBVIOUS
<1>2. /\ Cycle(ring.next, g, 2 * m) /\ g[0] = ring.ptr /\ g[2 * m] = ring.ptr
      /\ \A i \in 0 .. 2 * m : g[i] \in 2 .. top /\ g[i] \in 1 .. N
      /\ \A i \in 0 .. 2 * m : Hop(ring, ring.ptr, i) = g[i]
      /\ \A i \in 0 .. 2 * m - 1 : ring.next[g[i]] = g[i + 1]
      /\ \A i, j \in 1 .. 2 * m : g[i] = g[j] => i = j
  <2> DEFINE n == 2 * m
  <2>1. n \in Nat /\ n > 0 /\ Sound(ring, g, n, top)
    BY ONLY <1>1, Paired(ring, g, m, top) DEF Paired
  <2>. HIDE DEF n
  <2>2. /\ Cycle(ring.next, g, n) /\ g[0] = ring.ptr /\ g[n] = ring.ptr
        /\ \A i \in 0 .. n : g[i] \in 2 .. top /\ g[i] \in 1 .. N
        /\ \A i \in 0 .. n : Hop(ring, ring.ptr, i) = g[i]
        /\ \A i \in 0 .. n - 1 : ring.next[g[i]] = g[i + 1]
    BY ONLY SoundObj, <2>1, ring \in Rings(N), N \in Nat, top \in 0 .. N
  <2>3. \A i, j \in 1 .. n : g[i] = g[j] => i = j
    BY ONLY <2>2 DEF Cycle
  <2>. QED
    BY ONLY <2>2, <2>3 DEF n
<1>3. \A i \in 0 .. m : /\ g[2 * i] \in 2 .. top /\ g[2 * i] \in 1 .. N
                        /\ Hop(ring, ring.ptr, 2 * i) = g[2 * i]
                        /\ Hop(ring, ring.ptr, 2 * i + 1) = ring.next[g[2 * i]]
  <2> SUFFICES ASSUME NEW i \in 0 .. m
               PROVE  /\ g[2 * i] \in 2 .. top /\ g[2 * i] \in 1 .. N
                      /\ Hop(ring, ring.ptr, 2 * i) = g[2 * i]
                      /\ Hop(ring, ring.ptr, 2 * i + 1) = ring.next[g[2 * i]]
    OBVIOUS
  <2> DEFINE e == 2 * i
  <2>1. e \in 0 .. 2 * m /\ e \in Nat
    OBVIOUS
  <2>. HIDE DEF e
  <2>2. Hop(ring, ring.ptr, e + 1) = ring.next[Hop(ring, ring.ptr, e)]
    BY ONLY <2>1, HopNext
  <2>. QED
    BY ONLY <1>2, <2>1, <2>2 DEF e
<1>4. \A i \in 0 .. m - 1 : /\ ring.next[ring.next[g[2 * i]]] = g[2 * (i + 1)]
                            /\ ring.next[g[2 * i]] = g[2 * i + 1]
  <2> SUFFICES ASSUME NEW i \in 0 .. m - 1
               PROVE  /\ ring.next[ring.next[g[2 * i]]] = g[2 * (i + 1)]
                      /\ ring.next[g[2 * i]] = g[2 * i + 1]
    OBVIOUS
  <2>1. /\ 2 * i \in 0 .. 2 * m - 1 /\ 2 * i + 1 \in 0 .. 2 * m - 1
        /\ 2 * i + 1 + 1 = 2 * (i + 1)
    OBVIOUS
  <2>. QED
    BY ONLY <1>2, <2>1
<1>5. ring.next[ring.next[g[2 * m]]] = g[2] /\ ring.next[g[2 * m]] = g[1]
  <2>1. 0 \in 0 .. m - 1 /\ 2 * 0 = 0 /\ 2 * (0 + 1) = 2 /\ 0 + 1 = 1
    OBVIOUS
  <2>. QED
    BY ONLY <1>2, <1>4, <2>1
<1>6. \A i \in 1 .. m : \E q \in 1 .. m : ring.next[g[2 * i]] = g[2 * q - 1]
  <2> SUFFICES ASSUME NEW i \in 1 .. m
               PROVE  \E q \in 1 .. m : ring.next[g[2 * i]] = g[2 * q - 1]
    OBVIOUS
  <2>1. CASE i = m
    <3>1. 1 \in 1 .. m /\ 2 * 1 - 1 = 1
      OBVIOUS
    <3>. QED
      BY ONLY <1>5, <2>1, <3>1
  <2>2. CASE i # m
    <3>1. i \in 0 .. m - 1 /\ i + 1 \in 1 .. m /\ 2 * (i + 1) - 1 = 2 * i + 1
      BY <2>2
    <3>. QED
      BY ONLY <1>4, <3>1
  <2>. QED
    BY <2>1, <2>2
<1>7. \A i \in 1 .. m : /\ ring.next[g[2 * i]] \in 2 .. top
                        /\ \A j \in 1 .. m : /\ ring.next[g[2 * i]] # g[2 * j]
                                             /\ g[2 * i] = g[2 * j] => i = j
  <2> SUFFICES ASSUME NEW i \in 1 .. m, NEW j \in 1 .. m
               PROVE  /\ ring.next[g[2 * i]] \in 2 .. top
                      /\ ring.next[g[2 * i]] # g[2 * j]
                      /\ g[2 * i] = g[2 * j] => i = j
    OBVIOUS
  <2>1. PICK q \in 1 .. m : ring.next[g[2 * i]] = g[2 * q - 1]
    BY <1>6
  <2>2. /\ 2 * q - 1 \in 1 .. 2 * m /\ 2 * q - 1 \in 0 .. 2 * m
        /\ 2 * i \in 1 .. 2 * m /\ 2 * j \in 1 .. 2 * m
        /\ 2 * q - 1 # 2 * j /\ (2 * i = 2 * j => i = j)
    OBVIOUS
  <2>. QED
    BY ONLY <1>2, <2>1, <2>2
<1>. QED
  BY ONLY <1>2, <1>3, <1>4, <1>5, <1>7

PairAt(ring, c) == <<ring.is[c], ring.is[ring.next[c]]>>
PairsOf(ring, h, n) == [q \in 1 .. n |-> PairAt(ring, h[2 * q])]

LEMMA PairsGrow ==
    ASSUME NEW ring, NEW h, NEW n \in Nat
    PROVE  Append(PairsOf(ring, h, n), PairAt(ring, h[2 * (n + 1)])) = PairsOf(ring, h, n + 1)
<1> DEFINE P == {PairAt(ring, h[2 * q]) : q \in 1 .. n + 1}
           s == PairsOf(ring, h, n)
           e == PairAt(ring, h[2 * (n + 1)])
<1>1. /\ DOMAIN s = 1 .. n /\ (\A q \in 1 .. n : s[q] = PairAt(ring, h[2 * q]))
      /\ s \in [1 .. n -> P] /\ e \in P
  BY DEF PairsOf
<1>. HIDE DEF P, s, e
<1>2. s \in Seq(P) /\ Len(s) = n
  BY ONLY <1>1, n \in Nat
<1>3. /\ DOMAIN Append(s, e) = 1 .. n + 1 /\ (\A q \in 1 .. n : Append(s, e)[q] = s[q])
      /\ Append(s, e)[n + 1] = e /\ Append(s, e) \in [1 .. n + 1 -> P]
  <2> DEFINE t == Append(s, e)
  <2>1. /\ t \in Seq(P) /\ Len(t) = Len(s) + 1 /\ \A q \in 1 .. Len(s) : t[q] = s[q]
        /\ t[Len(s) + 1] = e
    BY ONLY <1>1, <1>2, AppendProperties
  <2>. HIDE DEF t
  <2>2. t \in [1 .. Len(t) -> P]
    BY ONLY <2>1, LenProperties
  <2>. QED
    BY ONLY <1>2, <2>1, <2>2 DEF t
<1>4. \A q \in 1 .. n + 1 : Append(s, e)[q] = PairAt(ring, h[2 * q])
  BY <1>1, <1>3 DEF e
<1>. QED
  BY ONLY <1>3, <1>4 DEF PairsOf, s, e

-----------------------------------------------------------------------------
(* The loop of unsafe_yyjson_mut_obj_remove *)

\* The n pairs of h are some of the m pairs of g.
Drawn(g, h, m, n) ==
    /\ \A i \in 1 .. 2 * n : \E q \in 1 .. 2 * m : h[i] = g[q]
    /\ \A i \in 1 .. n : \E q \in 1 .. m : h[2 * i] = g[2 * q]

LEMMA LeavesOutDraws ==
    ASSUME NEW g, NEW h, NEW m \in Nat, NEW j \in 1 .. m, LeavesOut(g, h, m, j)
    PROVE  Drawn(g, h, m, m - 1)
<1>1. \A i \in 1 .. m - 1 : \E q \in 1 .. m : h[2 * i] = g[2 * q]
  <2> SUFFICES ASSUME NEW i \in 1 .. m - 1
               PROVE  \E q \in 1 .. m : h[2 * i] = g[2 * q]
    OBVIOUS
  <2>1. i \in 1 .. m /\ i + 1 \in 1 .. m /\ 2 * (i + 1) = 2 * i + 2
    OBVIOUS
  <2>. QED
    BY <2>1 DEF LeavesOut
<1>. QED
  BY <1>1 DEF LeavesOut, Drawn

LEMMA DrawnTwice ==
    ASSUME NEW f, NEW g, NEW h, NEW m, NEW n, NEW l, Drawn(f, g, m, n), Drawn(g, h, n, l)
    PROVE  Drawn(f, h, m, l)
<1>1. \A i \in 1 .. 2 * l : \E q \in 1 .. 2 * m : h[i] = f[q]
  BY DEF Drawn
<1>2. \A i \in 1 .. l : \E q \in 1 .. m : h[2 * i] = f[2 * q]
  BY DEF Drawn
<1>. QED
  BY ONLY <1>1, <1>2 DEF Drawn

\* kept[n] is what the first n pairs leave when those of the key k are taken out.
Filters(kept, ring, g, k) ==
    /\ kept[0] = << >>
    /\ \A n \in 1 .. ring.len :
         kept[n] = IF ring.is[g[2 * n]] = k THEN kept[n - 1]
                   ELSE Append(kept[n - 1], PairAt(ring, g[2 * n]))

\* The state s of the loop after t turns: h goes along the pairs that are left, the
\* first i of which stay and the others are those of ring that have not been seen.
Along(ring, g, kept, top, s, t, h) ==
    /\ Paired(s.r, h, s.left, top) /\ Drawn(g, h, ring.len, s.left)
    /\ s.left > 0 => s.pre = h[2 * s.i]
    /\ t < ring.len => s.cur = h[2 * (s.i + 1)]
    /\ \A q \in s.i + 1 .. s.left : /\ h[2 * q] = g[2 * (q + ring.len - s.left)]
                                    /\ s.r.next[h[2 * q]] = ring.next[h[2 * q]]
    /\ PairsOf(s.r, h, s.i) = kept[t]

States(N) == [r : Rings(N), pre : 0 .. N, cur : 0 .. N, i : Nat, left : Nat]

Turning(N, ring, g, kept, top, s, t) ==
    /\ s \in States(N) /\ s.r.is = ring.is /\ s.r.len = ring.len
    /\ s.left <= ring.len /\ s.i + ring.len = t + s.left
    /\ \E h : Along(ring, g, kept, top, s, t, h)

LEMMA RemoveTurnKept ==
    ASSUME NEW N \in Nat, NEW ring \in Rings(N), NEW g, NEW top \in 0 .. N, NEW k, NEW kept,
           Filters(kept, ring, g, k), NEW t \in 0 .. ring.len - 1, NEW s,
           Turning(N, ring, g, kept, top, s, t), s.r.is[s.cur] # k
    PROVE  Turning(N, ring, g, kept, top, RemoveTurn(s, k), t + 1)
<1> DEFINE s2 == RemoveTurn(s, k)
           i == s.i
           m == s.left
           l == ring.len
<1>1. /\ s \in States(N) /\ s.r.is = ring.is /\ s.r.len = l /\ i \in Nat /\ m \in Nat /\ l \in Nat
      /\ m <= l /\ i + l = t + m /\ s.r \in Rings(N) /\ t < l
  <2>1. s \in States(N) /\ s.r.is = ring.is /\ s.r.len = l /\ m <= l /\ i + l = t + m
    BY ONLY Turning(N, ring, g, kept, top, s, t) DEF Turning
  <2>2. i \in Nat /\ m \in Nat /\ s.r \in Rings(N)
    BY ONLY <2>1 DEF States
  <2>3. l \in Nat
    BY ONLY ring \in Rings(N) DEF Rings
  <2>4. t < l
    BY ONLY <2>3, t \in 0 .. l - 1
  <2>. QED
    BY ONLY <2>1, <2>2, <2>3, <2>4
<1>2. PICK h : Along(ring, g, kept, top, s, t, h)
  BY DEF Turning
<1>3. s2 = [s EXCEPT !.pre = s.cur, !.cur = Next2(s.r, s.cur), !.i = @ + 1]
  BY DEF RemoveTurn
<1>4. /\ m > 0 /\ i < m /\ i + 1 \in 0 .. m /\ i + 1 \in 1 .. m /\ i + 1 + l - m = t + 1
      /\ i + 1 \in i + 1 .. m
  BY ONLY <1>1, t \in 0 .. l - 1
<1>5. /\ s.cur = h[2 * (i + 1)] /\ Paired(s.r, h, m, top)
      /\ h[2 * (i + 1)] = g[2 * (t + 1)] /\ s.r.next[h[2 * (i + 1)]] = ring.next[h[2 * (i + 1)]]
  BY ONLY <1>1, <1>2, <1>4 DEF Along
<1>6. /\ \A q \in 0 .. m : h[2 * q] \in 1 .. N
      /\ \A q \in 0 .. m - 1 : s.r.next[s.r.next[h[2 * q]]] = h[2 * (q + 1)]
      /\ s.r.next[s.r.next[h[2 * m]]] = h[2]
  <2>1. m \in Nat /\ m > 0 /\ s.r \in Rings(N) /\ Paired(s.r, h, m, top)
    BY ONLY <1>1, <1>4, <1>5
  <2> DEFINE w == s.r
  <2>2. w \in Rings(N) /\ Paired(w, h, m, top)
    BY ONLY <2>1
  <2>. HIDE DEF w, m
  <2>3. \A q \in 0 .. m : h[2 * q] \in 1 .. N
    BY ONLY <2>1, <2>2, PairFacts, N \in Nat, top \in 0 .. N
  <2>4. \A q \in 0 .. m - 1 : w.next[w.next[h[2 * q]]] = h[2 * (q + 1)]
    BY ONLY <2>1, <2>2, PairFacts, N \in Nat, top \in 0 .. N
  <2>5. w.next[w.next[h[2 * m]]] = h[2]
    BY ONLY <2>1, <2>2, PairFacts, N \in Nat, top \in 0 .. N
  <2>. QED
    BY ONLY <2>3, <2>4, <2>5 DEF w
<1>7. Next2(s.r, s.cur) = IF i + 1 = m THEN h[2] ELSE h[2 * (i + 1 + 1)]
  <2>1. i + 1 = m \/ i + 1 \in 0 .. m - 1
    BY ONLY <1>1, <1>4
  <2>. QED
    BY ONLY <1>5, <1>6, <2>1 DEF Next2
<1>8. s.cur \in 0 .. N /\ Next2(s.r, s.cur) \in 0 .. N
  <2>1. 1 \in 0 .. m /\ 2 * 1 = 2 /\ (i + 1 = m \/ i + 1 + 1 \in 0 .. m)
    BY ONLY <1>1, <1>4
  <2>2. h[2] \in 1 .. N /\ h[2 * (i + 1)] \in 1 .. N
    BY ONLY <1>4, <1>6, <2>1
  <2>3. i + 1 # m => h[2 * (i + 1 + 1)] \in 1 .. N
    BY ONLY <1>6, <2>1
  <2>. QED
    BY ONLY <1>5, <1>7, <2>2, <2>3, N \in Nat
<1>. HIDE DEF s2
<1>9. /\ s2 \in States(N) /\ s2.r = s.r /\ s2.left = m /\ s2.i = i + 1 /\ s2.pre = s.cur
      /\ s2.cur = Next2(s.r, s.cur)
  <2>1. s \in States(N) /\ i + 1 \in Nat
    BY ONLY <1>1
  <2>. QED
    BY ONLY <2>1, <1>3, <1>8 DEF States
<1>10. PairsOf(s.r, h, i + 1) = kept[t + 1]
  <2>1. PairAt(s.r, h[2 * (i + 1)]) = PairAt(ring, g[2 * (t + 1)])
    BY ONLY <1>1, <1>5 DEF PairAt
  <2>2. ring.is[g[2 * (t + 1)]] # k
    BY <1>1, <1>5
  <2>3. t + 1 \in 1 .. l /\ t + 1 - 1 = t
    BY <1>1
  <2>4. kept[t + 1] = Append(kept[t], PairAt(ring, g[2 * (t + 1)]))
    <3>2. \A n \in 1 .. l : kept[n] = IF ring.is[g[2 * n]] = k THEN kept[n - 1]
                                      ELSE Append(kept[n - 1], PairAt(ring, g[2 * n]))
      BY ONLY Filters(kept, ring, g, k) DEF Filters
    <3> DEFINE n == t + 1
    <3>3. n \in 1 .. l /\ n - 1 = t /\ ring.is[g[2 * n]] # k
      BY ONLY <2>2, <2>3
    <3>. HIDE DEF n
    <3>4. kept[n] = Append(kept[n - 1], PairAt(ring, g[2 * n]))
      BY ONLY <3>2, <3>3
    <3>. QED
      BY ONLY <3>3, <3>4 DEF n
  <2>5. PairsOf(s.r, h, i) = kept[t]
    BY ONLY <1>2 DEF Along
  <2>. QED
    BY ONLY ZenonT(30), <1>1, <2>1, <2>4, <2>5, PairsGrow
<1>11. Along(ring, g, kept, top, s2, t + 1, h)
  <2>1. t + 1 < l => i + 1 # m
    BY ONLY <1>1
  <2>2. t + 1 < l => s2.cur = h[2 * (s2.i + 1)]
    BY ONLY <1>7, <1>9, <2>1
  <2>3. /\ Drawn(g, h, l, m)
        /\ \A q \in i + 1 .. m : /\ h[2 * q] = g[2 * (q + l - m)]
                                 /\ s.r.next[h[2 * q]] = ring.next[h[2 * q]]
    BY ONLY <1>2 DEF Along
  <2>4. \A q \in i + 1 + 1 .. m : q \in i + 1 .. m
    BY ONLY <1>1
  <2>5. \A q \in i + 1 + 1 .. m : /\ h[2 * q] = g[2 * (q + l - m)]
                                  /\ s.r.next[h[2 * q]] = ring.next[h[2 * q]]
    BY ONLY <2>3, <2>4
  <2>. QED
    BY ONLY <1>5, <1>9, <1>10, <2>2, <2>3, <2>5 DEF Along
<1>12. s2.i + l = t + 1 + s2.left
  BY ONLY <1>1, <1>9, t \in 0 .. l - 1
<1>. QED
  BY ONLY <1>1, <1>9, <1>11, <1>12 DEF Turning, s2

LEMMA RemoveTurnCuts ==
    ASSUME NEW N \in Nat, NEW ring \in Rings(N), NEW g, NEW top \in 0 .. N, NEW k, NEW kept,
           Filters(kept, ring, g, k), NEW t \in 0 .. ring.len - 1, NEW s,
           Turning(N, ring, g, kept, top, s, t), s.r.is[s.cur] = k
    PROVE  Turning(N, ring, g, kept, top, RemoveTurn(s, k), t + 1)
<1> DEFINE s2 == RemoveTurn(s, k)
           i == s.i
           m == s.left
           l == ring.len
           j == i + 1
           a == s.r.next[s.pre]
           c == s.r.next[s.r.next[s.cur]]
           p == IF j = m THEN s.pre ELSE s.r.ptr
<1>1. /\ s \in States(N) /\ s.r.is = ring.is /\ s.r.len = l /\ i \in Nat /\ m \in Nat /\ l \in Nat
      /\ m <= l /\ i + l = t + m /\ s.r \in Rings(N) /\ t < l
  <2>1. s \in States(N) /\ s.r.is = ring.is /\ s.r.len = l /\ m <= l /\ i + l = t + m
    BY ONLY Turning(N, ring, g, kept, top, s, t) DEF Turning
  <2>2. i \in Nat /\ m \in Nat /\ s.r \in Rings(N)
    BY ONLY <2>1 DEF States
  <2>3. l \in Nat
    BY ONLY ring \in Rings(N) DEF Rings
  <2>4. t < l
    BY ONLY <2>3, t \in 0 .. l - 1
  <2>. QED
    BY ONLY <2>1, <2>2, <2>3, <2>4
<1>2. PICK h : Along(ring, g, kept, top, s, t, h)
  BY DEF Turning
<1>4. /\ m > 0 /\ i < m /\ i \in 0 .. m - 1 /\ j \in 0 .. m /\ j \in 1 .. m /\ j + l - m = t + 1
      /\ j \in i + 1 .. m /\ m - 1 \in Nat /\ 2 * j - 2 = 2 * i /\ i \in 0 .. m
  BY ONLY <1>1, t \in 0 .. l - 1
<1>5. /\ s.cur = h[2 * j] /\ s.pre = h[2 * i] /\ Paired(s.r, h, m, top)
      /\ h[2 * j] = g[2 * (t + 1)] /\ s.r.next[h[2 * j]] = ring.next[h[2 * j]]
      /\ Drawn(g, h, l, m)
  <2>1. /\ s.cur = h[2 * (i + 1)] /\ s.pre = h[2 * i] /\ Paired(s.r, h, m, top)
        /\ Drawn(g, h, l, m)
    BY ONLY <1>1, <1>2, <1>4 DEF Along
  <2>2. h[2 * j] = g[2 * (j + l - m)] /\ s.r.next[h[2 * j]] = ring.next[h[2 * j]]
    BY ONLY <1>2, <1>4 DEF Along
  <2>. QED
    BY ONLY <1>4, <2>1, <2>2
<1>6. /\ h[0] = s.r.ptr
      /\ \A q \in 0 .. m : h[2 * q] \in 1 .. N
      /\ \A q \in 0 .. m - 1 : s.r.next[s.r.next[h[2 * q]]] = h[2 * (q + 1)]
      /\ s.r.next[s.r.next[h[2 * m]]] = h[2]
  <2>1. m \in Nat /\ m > 0 /\ s.r \in Rings(N) /\ Paired(s.r, h, m, top)
    BY ONLY <1>1, <1>4, <1>5
  <2>. QED
    BY ONLY <2>1, PairFacts, N \in Nat, top \in 0 .. N
<1>7. c = IF j = m THEN h[2] ELSE h[2 * (j + 1)]
  <2>1. j = m \/ j \in 0 .. m - 1
    BY ONLY <1>1, <1>4
  <2>. QED
    BY ONLY <1>5, <1>6, <2>1
<1>8. c \in 0 .. N /\ p \in 0 .. N
  <2>1. 1 \in 0 .. m /\ 2 * 1 = 2 /\ (j = m \/ j + 1 \in 0 .. m)
    <3>1. m \in Nat /\ m > 0 /\ j \in 0 .. m
      BY ONLY <1>1, <1>4
    <3>. HIDE DEF j
    <3>. QED
      BY ONLY <3>1
  <2>2. h[2] \in 1 .. N /\ h[2 * i] \in 1 .. N
    BY ONLY <1>4, <1>6, <2>1
  <2>3. j # m => h[2 * (j + 1)] \in 1 .. N
    BY ONLY <1>6, <2>1
  <2>4. s.r.ptr \in 0 .. N
    BY ONLY <1>1 DEF Rings
  <2>. QED
    BY ONLY <1>5, <1>7, <2>2, <2>3, <2>4, N \in Nat
<1>3. s2 = [s EXCEPT !.r.next[a] = c, !.r.ptr = p, !.cur = c, !.left = @ - 1]
  <2>1. s2 = [s EXCEPT !.r.next[a] = c, !.r.ptr = IF j = m THEN s.pre ELSE @,
                       !.cur = c, !.left = @ - 1]
    BY ONLY s.r.is[s.cur] = k DEF RemoveTurn, Next2
  <2>2. s \in States(N) /\ s.r \in Rings(N)
    BY ONLY <1>1
  <2>. HIDE DEF s2, a, c
  <2>. QED
    BY ONLY <2>1, <2>2 DEF States, Rings
<1>. HIDE DEF s2, a, c, p, j
<1>9. /\ s2 \in States(N) /\ s2.left = m - 1 /\ s2.i = i /\ s2.pre = s.pre /\ s2.cur = c
      /\ s2.r \in Rings(N) /\ s2.r.is = s.r.is /\ s2.r.len = s.r.len
      /\ s2.r.next = [s.r.next EXCEPT ![a] = c] /\ s2.r.ptr = p
  <2> DEFINE made == [s.r EXCEPT !.next[a] = c, !.ptr = p]
  <2>1. /\ made \in Rings(N) /\ made.is = s.r.is /\ made.len = s.r.len
        /\ made.next = [s.r.next EXCEPT ![a] = c] /\ made.ptr = p
    BY ONLY <1>1, <1>8, N \in Nat DEF Rings
  <2>2. s2 = [s EXCEPT !.r = made, !.cur = c, !.left = @ - 1]
    BY ONLY <1>1, <1>3 DEF States
  <2>. HIDE DEF made
  <2>3. s \in States(N) /\ m - 1 \in Nat
    BY ONLY <1>1, <1>4
  <2>4. /\ s2 \in States(N) /\ s2.left = m - 1 /\ s2.i = i /\ s2.pre = s.pre /\ s2.cur = c
        /\ s2.r = made
    BY ONLY <2>2, <2>1, <2>3, <1>8 DEF States
  <2>. QED
    BY ONLY <2>1, <2>4
<1>10. Unlinks(s.r, s2.r, h, m, j)
  <2>1. h[2 * j - 2] = s.pre /\ h[2 * j] = s.cur
    BY ONLY <1>4, <1>5
  <2>. QED
    BY ONLY <1>9, <2>1 DEF Unlinks, a, c, p
<1>11. PICK f : Paired(s2.r, f, m - 1, top) /\ LeavesOut(h, f, m, j)
  <2>1. m \in Nat /\ j \in 1 .. m /\ Paired(s.r, h, m, top) /\ s.r \in Rings(N) /\ s2.r \in Rings(N)
    BY ONLY <1>1, <1>4, <1>5, <1>9
  <2>. QED
    BY ONLY <1>10, <2>1, PairCut, N \in Nat, top \in 0 .. N
<1>12. SameValues(s.r, s2.r, h, m)
  <2>1. m \in Nat /\ j \in 1 .. m /\ Paired(s.r, h, m, top) /\ s.r \in Rings(N) /\ s2.r \in Rings(N)
    BY ONLY <1>1, <1>4, <1>5, <1>9
  <2>. QED
    BY ONLY <1>10, <2>1, PairCut, N \in Nat, top \in 0 .. N
<1>13. Drawn(g, f, l, m - 1)
  <2>1. m \in Nat /\ j \in 1 .. m
    BY ONLY <1>1, <1>4
  <2>2. Drawn(h, f, m, m - 1)
    BY ONLY <1>11, <2>1, LeavesOutDraws
  <2>. QED
    BY ONLY <1>5, <2>2, DrawnTwice
<1>14. \A q \in 1 .. m - 1 : f[2 * q] = IF q < j THEN h[2 * q] ELSE h[2 * q + 2]
  BY ONLY <1>11 DEF LeavesOut
<1>15. m - 1 > 0 => s.pre = f[2 * i]
  <2> SUFFICES ASSUME m - 1 > 0
               PROVE  s.pre = f[2 * i]
    OBVIOUS
  <2>1. CASE i = 0
    <3>1. j # m /\ 2 * 0 = 0 /\ m - 1 \in Nat /\ m - 1 > 0
      BY ONLY <1>1, <1>4, <2>1, m - 1 > 0 DEF j
    <3>2. s2.r.ptr = s.r.ptr
      BY ONLY <1>9, <3>1 DEF p
    <3>3. f[0] = s2.r.ptr
      BY ONLY <1>9, <1>11, <3>1, PairFacts, N \in Nat, top \in 0 .. N
    <3>. QED
      BY ONLY <1>5, <1>6, <2>1, <3>1, <3>2, <3>3
  <2>2. CASE i # 0
    <3>1. i \in 1 .. m - 1 /\ i < j
      BY ONLY <1>1, <1>4, <2>2 DEF j
    <3>. QED
      BY ONLY <1>5, <1>14, <3>1
  <2>. QED
    BY <2>1, <2>2
<1>16. t + 1 < l => c = f[2 * (i + 1)]
  <2> SUFFICES ASSUME t + 1 < l
               PROVE  c = f[2 * (i + 1)]
    OBVIOUS
  <2>1. j # m /\ j \in 1 .. m - 1 /\ ~ (j < j) /\ 2 * j + 2 = 2 * (j + 1) /\ j = i + 1
    BY ONLY <1>1, <1>4, t + 1 < l DEF j
  <2>. QED
    BY ONLY <1>7, <1>14, <2>1
<1>17. \A q \in i + 1 .. m - 1 : /\ f[2 * q] = g[2 * (q + l - (m - 1))]
                                 /\ s2.r.next[f[2 * q]] = ring.next[f[2 * q]]
  <2> SUFFICES ASSUME NEW q \in i + 1 .. m - 1
               PROVE  /\ f[2 * q] = g[2 * (q + l - (m - 1))]
                      /\ s2.r.next[f[2 * q]] = ring.next[f[2 * q]]
    OBVIOUS
  <2>1. /\ q \in 1 .. m - 1 /\ ~ (q < j) /\ 2 * q + 2 = 2 * (q + 1) /\ q + 1 \in i + 1 .. m
        /\ q + 1 \in 1 .. m /\ q + 1 + l - m = q + l - (m - 1)
    BY ONLY <1>1, <1>4 DEF j
  <2>2. f[2 * q] = h[2 * (q + 1)]
    BY ONLY <1>14, <2>1
  <2>3. /\ h[2 * (q + 1)] = g[2 * (q + 1 + l - m)]
        /\ s.r.next[h[2 * (q + 1)]] = ring.next[h[2 * (q + 1)]]
    BY ONLY <1>2, <2>1 DEF Along
  <2>4. s2.r.next[h[2 * (q + 1)]] = s.r.next[h[2 * (q + 1)]]
    BY ONLY <1>12, <2>1 DEF SameValues
  <2>. QED
    BY ONLY <2>1, <2>2, <2>3, <2>4
<1>18. PairsOf(s2.r, f, i) = kept[t + 1]
  <2>1. \A q \in 1 .. i : q \in 1 .. m - 1 /\ q < j /\ q \in 1 .. m
    BY ONLY <1>1, <1>4 DEF j
  <2>2. \A q \in 1 .. i : f[2 * q] = h[2 * q]
    BY ONLY <1>14, <2>1
  <2>3. \A q \in 1 .. i : PairAt(s2.r, f[2 * q]) = PairAt(s.r, h[2 * q])
    BY ONLY <1>9, <1>12, <2>1, <2>2 DEF PairAt, SameValues
  <2>4. PairsOf(s2.r, f, i) = PairsOf(s.r, h, i)
    BY ONLY <2>3 DEF PairsOf
  <2>5. PairsOf(s.r, h, i) = kept[t]
    BY ONLY <1>2 DEF Along
  <2> DEFINE n == t + 1
  <2>6. n \in 1 .. l /\ n - 1 = t /\ ring.is[g[2 * n]] = k
    BY ONLY <1>1, <1>5, t \in 0 .. l - 1, s.r.is[s.cur] = k
  <2>. HIDE DEF n
  <2>7. kept[n] = kept[n - 1]
    BY ONLY <2>6, Filters(kept, ring, g, k) DEF Filters
  <2>. QED
    BY ONLY <2>4, <2>5, <2>6, <2>7 DEF n
<1>19. Along(ring, g, kept, top, s2, t + 1, f)
  BY ONLY <1>9, <1>11, <1>13, <1>15, <1>16, <1>17, <1>18 DEF Along
<1>20. s2.left <= l /\ s2.i + l = t + 1 + s2.left
  BY ONLY <1>1, <1>9, t \in 0 .. l - 1
<1>. QED
  BY ONLY <1>1, <1>9, <1>19, <1>20 DEF Turning, s2

LEMMA FilterExists ==
    ASSUME NEW ring, ring.len \in Nat, NEW g, NEW k
    PROVE  \E kept : Filters(kept, ring, g, k)
<1> DEFINE l == ring.len
           Step(n, kept) == kept[n] = IF ring.is[g[2 * n]] = k THEN kept[n - 1]
                                      ELSE Append(kept[n - 1], PairAt(ring, g[2 * n]))
           T == {m \in Nat : \E kept : kept[0] = << >> /\ \A n \in 1 .. m : Step(n, kept)}
<1>1. 0 \in T
  <2> DEFINE kept == [n \in 0 .. 0 |-> << >>]
  <2>1. kept[0] = << >> /\ \A n \in 1 .. 0 : Step(n, kept)
    OBVIOUS
  <2>. QED
    BY ONLY <2>1
<1>2. \A m \in Nat : m \in T => m + 1 \in T
  <2> SUFFICES ASSUME NEW m \in Nat, m \in T
               PROVE  m + 1 \in T
    OBVIOUS
  <2>1. PICK f : f[0] = << >> /\ \A n \in 1 .. m : Step(n, f)
    OBVIOUS
  <2> DEFINE e == IF ring.is[g[2 * (m + 1)]] = k THEN f[m]
                  ELSE Append(f[m], PairAt(ring, g[2 * (m + 1)]))
             kept == [n \in 0 .. m + 1 |-> IF n <= m THEN f[n] ELSE e]
  <2>2. kept[0] = << >> /\ kept[m + 1] = e /\ \A n \in 0 .. m : kept[n] = f[n]
    <3>. HIDE DEF e
    <3>. QED
      BY ONLY <2>1, m \in Nat
  <2>. HIDE DEF kept
  <2>3. ASSUME NEW n \in 1 .. m + 1
        PROVE  Step(n, kept)
    <3>1. CASE n = m + 1
      <4>1. n - 1 = m /\ m \in 0 .. m
        BY ONLY <3>1, m \in Nat
      <4>2. kept[n - 1] = f[m] /\ kept[n] = e
        BY ONLY <2>2, <3>1, <4>1
      <4>. QED
        BY ONLY <3>1, <4>2
    <3>2. CASE n # m + 1
      <4>1. n \in 1 .. m /\ n \in 0 .. m /\ n - 1 \in 0 .. m
        BY ONLY <3>2, m \in Nat, n \in 1 .. m + 1
      <4>2. kept[n - 1] = f[n - 1] /\ kept[n] = f[n]
        BY ONLY <2>2, <4>1
      <4>3. Step(n, f)
        BY ONLY <2>1, <4>1
      <4>. QED
        BY ONLY <4>2, <4>3
    <3>. QED
      BY <3>1, <3>2
  <2>. HIDE DEF Step
  <2>4. \E ks : ks[0] = << >> /\ \A n \in 1 .. m + 1 : Step(n, ks)
    BY ONLY <2>2, <2>3
  <2>. QED
    BY ONLY <2>4, m \in Nat
<1>. HIDE DEF T
<1>3. l \in T
  BY <1>1, <1>2, Induction
<1>. QED
  BY <1>3 DEF Filters, T

LEMMA ObjRemoved ==
    ASSUME NEW N \in Nat, NEW ring \in Rings(N), NEW g, NEW top \in 0 .. N, NEW k, NEW kept,
           Paired(ring, g, ring.len, top), Filters(kept, ring, g, k)
    PROVE  LET made == ObjRemove(ring, k)
           IN  /\ made \in Rings(N) /\ made.is = ring.is /\ made.len \in 0 .. ring.len
               /\ \E h : /\ Paired(made, h, made.len, top)
                         /\ Drawn(g, h, ring.len, made.len)
                         /\ PairsOf(made, h, made.len) = kept[ring.len]
<1> DEFINE made == ObjRemove(ring, k)
           l == ring.len
<1>0. l \in Nat
  BY DEF Rings
<1>1. CASE l = 0
  <2>1. made = ring
    BY <1>1 DEF ObjRemove
  <2>2. Drawn(g, g, l, l)
    BY <1>0 DEF Drawn
  <2>3. PairsOf(ring, g, 0) = << >>
    BY DEF PairsOf
  <2>4. kept[0] = << >>
    BY DEF Filters
  <2>. QED
    BY <1>0, <1>1, <2>1, <2>2, <2>3, <2>4
<1>2. CASE l # 0
  <2> DEFINE start == [r |-> ring, pre |-> ring.ptr, cur |-> Next2(ring, ring.ptr), i |-> 0,
                       left |-> ring.len]
             F(m, f) == f = [n \in 0 .. m |-> IF n = 0 THEN start ELSE RemoveTurn(f[n - 1], k)]
             T == {m \in Nat : \E f : F(m, f)}
             at == CHOOSE f : F(l, f)
             U == {t \in Nat : t <= l => Turning(N, ring, g, kept, top, at[t], t)}
  <2>1. Turning(N, ring, g, kept, top, start, 0)
    <3>1. l > 0 /\ 0 \in 0 .. l - 1 /\ 2 * 0 = 0 /\ 0 + 1 = 1 /\ 2 * 1 = 2 /\ l <= l
          /\ 0 \in 0 .. l /\ 1 \in 0 .. l /\ 0 + l = 0 + l
      BY ONLY <1>0, <1>2
    <3>2. /\ g[0] = ring.ptr
          /\ \A q \in 0 .. l : g[2 * q] \in 1 .. N
          /\ \A q \in 0 .. l - 1 : ring.next[ring.next[g[2 * q]]] = g[2 * (q + 1)]
      <4>1. l > 0 /\ l \in Nat
        BY ONLY <1>0, <3>1
      <4>. QED
        BY ONLY <4>1, PairFacts, N \in Nat, top \in 0 .. N, ring \in Rings(N),
                Paired(ring, g, l, top)
    <3>3. Next2(ring, ring.ptr) = g[2] /\ g[2] \in 1 .. N /\ ring.ptr \in 1 .. N
      BY ONLY <3>1, <3>2 DEF Next2
    <3>4. g[2] \in 0 .. N /\ ring.ptr \in 0 .. N
      BY ONLY <3>3, N \in Nat
    <3>5. start \in States(N)
      BY ONLY <1>0, <3>3, <3>4, ring \in Rings(N) DEF States
    <3>6. \A q \in 0 + 1 .. l : q + l - l = q
      BY ONLY <1>0
    <3>7. Drawn(g, g, l, l)
      BY <1>0 DEF Drawn
    <3>8. PairsOf(ring, g, 0) = kept[0]
      <4>1. kept[0] = << >>
        BY DEF Filters
      <4>. QED
        BY ONLY <4>1 DEF PairsOf
    <3>9. Along(ring, g, kept, top, start, 0, g)
      BY ONLY <3>1, <3>2, <3>3, <3>6, <3>7, <3>8, Paired(ring, g, l, top) DEF Along
    <3>. QED
      BY ONLY <3>1, <3>5, <3>9 DEF Turning
  <2>. HIDE DEF start
  <2>2. 0 \in T
    <3>1. F(0, [n \in 0 .. 0 |-> start])
      OBVIOUS
    <3>. QED
      BY ONLY <3>1
  <2>3. \A m \in Nat : m \in T => m + 1 \in T
    <3> SUFFICES ASSUME NEW m \in Nat, m \in T
                 PROVE  m + 1 \in T
      OBVIOUS
    <3>1. PICK f : F(m, f)
      OBVIOUS
    <3>2. F(m + 1, [n \in 0 .. m + 1 |-> IF n <= m THEN f[n] ELSE RemoveTurn(f[m], k)])
      BY ONLY <3>1, m \in Nat
    <3>. HIDE DEF F
    <3>3. \E e : F(m + 1, e)
      BY ONLY <3>2
    <3>. QED
      BY ONLY <3>3, m \in Nat
  <2>. HIDE DEF T
  <2>4. l \in T
    BY ONLY <1>0, <2>2, <2>3, Induction
  <2>5. F(l, at)
    BY ONLY <2>4 DEF T
  <2>6. made = [at[l].r EXCEPT !.len = at[l].left]
    BY ONLY <1>2 DEF ObjRemove, made, start
  <2>. HIDE DEF at
  <2>7. 0 \in U
    <3>1. at[0] = start
      BY ONLY <1>0, <2>5
    <3>. QED
      BY <2>1, <3>1
  <2>8. \A t \in Nat : t \in U => t + 1 \in U
    <3> SUFFICES ASSUME NEW t \in Nat, t \in U, t + 1 <= l
                 PROVE  Turning(N, ring, g, kept, top, at[t + 1], t + 1)
      OBVIOUS
    <3>1. t <= l /\ t \in 0 .. l - 1 /\ t + 1 \in 0 .. l /\ t + 1 # 0 /\ t + 1 - 1 = t
      BY ONLY <1>0, t \in Nat, t + 1 <= l
    <3>2. at[t + 1] = RemoveTurn(at[t], k)
      BY ONLY <2>5, <3>1
    <3>3. Turning(N, ring, g, kept, top, at[t], t)
      BY <3>1
    <3>4. Turning(N, ring, g, kept, top, RemoveTurn(at[t], k), t + 1)
      <4>1. CASE at[t].r.is[at[t].cur] = k
        BY ONLY <3>1, <3>3, <4>1, RemoveTurnCuts, N \in Nat, top \in 0 .. N, ring \in Rings(N),
                Filters(kept, ring, g, k)
      <4>2. CASE at[t].r.is[at[t].cur] # k
        BY ONLY <3>1, <3>3, <4>2, RemoveTurnKept, N \in Nat, top \in 0 .. N, ring \in Rings(N),
                Filters(kept, ring, g, k)
      <4>. QED
        BY <4>1, <4>2
    <3>. QED
      BY <3>2, <3>4
  <2>. HIDE DEF U
  <2>9. l \in U
    BY ONLY <1>0, <2>7, <2>8, Induction
  <2> DEFINE s == at[l]
  <2>10. Turning(N, ring, g, kept, top, s, l)
    BY <1>0, <2>9 DEF U
  <2>11. made = [s.r EXCEPT !.len = s.left]
    BY <2>6
  <2>. HIDE DEF s, made
  <2>12. /\ s \in States(N) /\ s.r.is = ring.is /\ s.left <= l /\ s.i + l = l + s.left
    BY ONLY <2>10 DEF Turning
  <2>13. /\ s.r \in Rings(N) /\ s.left \in Nat /\ s.i \in Nat
    BY ONLY <2>12 DEF States
  <2>14. s.i = s.left /\ s.left \in 0 .. l
    BY ONLY <1>0, <2>12, <2>13
  <2>15. /\ made \in Rings(N) /\ made.is = ring.is /\ made.len = s.left
         /\ made.next = s.r.next /\ made.ptr = s.r.ptr
    BY ONLY <2>11, <2>12, <2>13 DEF Rings
  <2>16. PICK h : Along(ring, g, kept, top, s, l, h)
    BY ONLY <2>10 DEF Turning
  <2>17. /\ Paired(s.r, h, s.left, top) /\ Drawn(g, h, l, s.left)
         /\ PairsOf(s.r, h, s.left) = kept[l]
    BY ONLY <2>14, <2>16 DEF Along
  <2>18. Paired(made, h, s.left, top)
    BY ONLY <2>15, <2>17 DEF Paired, Sound
  <2>19. PairsOf(made, h, s.left) = PairsOf(s.r, h, s.left)
    BY ONLY <2>12, <2>15 DEF PairsOf, PairAt
  <2>. QED
    BY ONLY <2>14, <2>15, <2>17, <2>18, <2>19 DEF made
<1>. QED
  BY <1>1, <1>2

-----------------------------------------------------------------------------
(* The loop of yyjson_mut_obj_remove_strn *)

LEMMA KeptSoFar ==
    ASSUME NEW ring, ring.len \in Nat, NEW g, NEW k, NEW kept, Filters(kept, ring, g, k),
           NEW m \in 0 .. ring.len, \A q \in 1 .. m : ring.is[g[2 * q]] # k
    PROVE  \A n \in 0 .. m : kept[n] = PairsOf(ring, g, n)
<1> DEFINE T == {n \in Nat : n <= m => kept[n] = PairsOf(ring, g, n)}
<1>1. 0 \in T
  <2>1. kept[0] = << >>
    BY DEF Filters
  <2>2. PairsOf(ring, g, 0) = << >>
    BY DEF PairsOf
  <2>. QED
    BY <2>1, <2>2
<1>2. \A n \in Nat : n \in T => n + 1 \in T
  <2> SUFFICES ASSUME NEW n \in Nat, n \in T, n + 1 <= m
               PROVE  kept[n + 1] = PairsOf(ring, g, n + 1)
    OBVIOUS
  <2> DEFINE e == n + 1
  <2>1. n <= m /\ e \in 1 .. m /\ e \in 1 .. ring.len /\ e - 1 = n
    BY ONLY n \in Nat, n + 1 <= m, m \in 0 .. ring.len, ring.len \in Nat
  <2>2. kept[n] = PairsOf(ring, g, n)
    BY <2>1
  <2>. HIDE DEF e
  <2>3. kept[e] = Append(kept[e - 1], PairAt(ring, g[2 * e]))
    BY ONLY <2>1, Filters(kept, ring, g, k), \A q \in 1 .. m : ring.is[g[2 * q]] # k DEF Filters
  <2>4. Append(PairsOf(ring, g, n), PairAt(ring, g[2 * (n + 1)])) = PairsOf(ring, g, n + 1)
    BY ONLY n \in Nat, PairsGrow
  <2>. QED
    BY ONLY <2>1, <2>2, <2>3, <2>4 DEF e
<1>. HIDE DEF T
<1>3. \A n \in Nat : n \in T
  BY <1>1, <1>2, Induction
<1>. QED
  BY <1>3 DEF T

\* There is at most one pair of the key.
Single(ring, g, k) ==
    \A i, j \in 1 .. ring.len : ring.is[g[2 * i]] = k /\ ring.is[g[2 * j]] = k => i = j

\* made is the ring without its jth pair, which was of the key.
HasLeft(ring, made, g, h, k, j) ==
    /\ ring.is[g[2 * j]] = k /\ made.is = ring.is
    /\ SameValues(ring, made, g, ring.len) /\ LeavesOut(g, h, ring.len, j)

LEMMA KeptWithout ==
    ASSUME NEW ring, ring.len \in Nat, NEW g, NEW k, NEW kept, Filters(kept, ring, g, k),
           Single(ring, g, k), NEW j \in 1 .. ring.len, NEW made, NEW h,
           HasLeft(ring, made, g, h, k, j)
    PROVE  kept[ring.len] = PairsOf(made, h, ring.len - 1)
<1> DEFINE l == ring.len
           T == {n \in Nat : j + n <= l => kept[j + n] = PairsOf(made, h, j + n - 1)}
<1>10. /\ ring.is[g[2 * j]] = k /\ made.is = ring.is
       /\ SameValues(ring, made, g, l) /\ LeavesOut(g, h, l, j)
  BY DEF HasLeft
<1>0. \A q \in 1 .. l : ring.is[g[2 * q]] = k => q = j
  BY ONLY Single(ring, g, k), <1>10, j \in 1 .. l DEF Single
<1>1. \A q \in 1 .. l - 1 : /\ q < j  => PairAt(made, h[2 * q]) = PairAt(ring, g[2 * q])
                            /\ q >= j => PairAt(made, h[2 * q]) = PairAt(ring, g[2 * (q + 1)])
  <2> SUFFICES ASSUME NEW q \in 1 .. l - 1
               PROVE  /\ q < j  => PairAt(made, h[2 * q]) = PairAt(ring, g[2 * q])
                      /\ q >= j => PairAt(made, h[2 * q]) = PairAt(ring, g[2 * (q + 1)])
    OBVIOUS
  <2>1. q \in 1 .. l /\ q + 1 \in 1 .. l /\ 2 * q + 2 = 2 * (q + 1) /\ (q >= j <=> ~ (q < j))
    BY ONLY q \in 1 .. l - 1, l \in Nat, j \in 1 .. l
  <2>2. h[2 * q] = IF q < j THEN g[2 * q] ELSE g[2 * (q + 1)]
    BY ONLY <2>1, <1>10, q \in 1 .. l - 1 DEF LeavesOut
  <2>3. /\ made.next[g[2 * q]] = ring.next[g[2 * q]]
        /\ made.next[g[2 * (q + 1)]] = ring.next[g[2 * (q + 1)]]
    BY ONLY <2>1, <1>10 DEF SameValues
  <2>. QED
    BY ONLY <2>1, <2>2, <2>3, <1>10 DEF PairAt
<1>2. 0 \in T
  <2>1. j \in Nat /\ j - 1 \in Nat /\ j - 1 \in 0 .. l /\ j + 0 = j /\ j - 1 \in 0 .. j - 1
    BY ONLY j \in 1 .. l, l \in Nat
  <2>2. \A q \in 1 .. j - 1 : q \in 1 .. l /\ q # j /\ q < j /\ q \in 1 .. l - 1
    BY ONLY j \in 1 .. l, l \in Nat
  <2>3. \A q \in 1 .. j - 1 : ring.is[g[2 * q]] # k
    BY ONLY <1>0, <2>2
  <2>4. kept[j - 1] = PairsOf(ring, g, j - 1)
    <3> DEFINE m == j - 1
    <3>1. m \in 0 .. ring.len /\ m \in 0 .. m /\ \A q \in 1 .. m : ring.is[g[2 * q]] # k
      BY ONLY <2>1, <2>3
    <3>. HIDE DEF m
    <3>2. \A n \in 0 .. m : kept[n] = PairsOf(ring, g, n)
      BY ONLY <3>1, KeptSoFar, ring.len \in Nat, Filters(kept, ring, g, k)
    <3>3. kept[m] = PairsOf(ring, g, m)
      BY ONLY <3>1, <3>2
    <3>. QED
      BY ONLY <3>3 DEF m
  <2>5. kept[j] = kept[j - 1]
    BY ONLY Filters(kept, ring, g, k), j \in 1 .. ring.len, <1>10 DEF Filters
  <2>6. PairsOf(ring, g, j - 1) = PairsOf(made, h, j - 1)
    BY ONLY <1>1, <2>2 DEF PairsOf
  <2>. QED
    BY ONLY <2>1, <2>4, <2>5, <2>6
<1>3. \A n \in Nat : n \in T => n + 1 \in T
  <2> SUFFICES ASSUME NEW n \in Nat, n \in T, j + (n + 1) <= l
               PROVE  kept[j + (n + 1)] = PairsOf(made, h, j + (n + 1) - 1)
    OBVIOUS
  <2> DEFINE e == j + (n + 1)
             p == j + n - 1
  <2>1. /\ e \in 1 .. l /\ e - 1 = j + n /\ e # j /\ j + n <= l /\ p \in Nat /\ p + 1 = j + n
        /\ p + 1 \in 1 .. l - 1 /\ p + 1 >= j /\ p + 1 + 1 = e /\ e - 1 = p + 1
    BY ONLY n \in Nat, j + (n + 1) <= l, l \in Nat, j \in 1 .. l
  <2>2. kept[j + n] = PairsOf(made, h, p)
    BY <2>1
  <2>. HIDE DEF e, p
  <2>3. kept[e] = Append(kept[e - 1], PairAt(ring, g[2 * e]))
    BY ONLY <1>0, <2>1, Filters(kept, ring, g, k) DEF Filters
  <2>4. Append(PairsOf(made, h, p), PairAt(made, h[2 * (p + 1)])) = PairsOf(made, h, p + 1)
    BY ONLY <2>1, PairsGrow
  <2>5. PairAt(made, h[2 * (p + 1)]) = PairAt(ring, g[2 * (p + 1 + 1)])
    BY ONLY <1>1, <2>1
  <2>6. kept[e] = PairsOf(made, h, e - 1)
    BY ONLY <2>1, <2>2, <2>3, <2>4, <2>5
  <2>. QED
    BY ONLY <2>6 DEF e
<1>. HIDE DEF T
<1>4. \A n \in Nat : n \in T
  BY <1>2, <1>3, Induction
<1> DEFINE n == l - j
<1>5. n \in Nat /\ j + n = l /\ j + n <= l
  BY ONLY l \in Nat, j \in 1 .. l
<1>. HIDE DEF n
<1>6. kept[j + n] = PairsOf(made, h, j + n - 1)
  BY ONLY <1>4, <1>5 DEF T
<1>. QED
  BY ONLY <1>5, <1>6

Iterators(N) == [idx : Nat, max : Nat, pre : 0 .. N, cur : 0 .. N]

\* No pair of the key has been met in t turns.
Seeking(N, ring, g, k, s, t) ==
    /\ s \in [r : {ring}, it : Iterators(N)]
    /\ s.it.max = ring.len /\ s.it.idx = t /\ s.it.cur = g[2 * t]
    /\ \A q \in 1 .. t : ring.is[g[2 * q]] # k

\* The only pair of the key has gone: h goes along the others.
HasGone(N, ring, g, top, k, s, h) ==
    /\ s \in [r : Rings(N), it : Iterators(N)]
    /\ s.r.is = ring.is /\ s.r.len = ring.len - 1
    /\ Paired(s.r, h, ring.len - 1, top) /\ SameValues(ring, s.r, g, ring.len)
    /\ \E j \in 1 .. ring.len : ring.is[g[2 * j]] = k /\ LeavesOut(g, h, ring.len, j)
    /\ s.it.max = ring.len - 1
    /\ s.it.idx < s.it.max => \E q \in 1 .. ring.len - 1 : s.it.cur = h[2 * q]

LEMMA StrTurnSeeks ==
    ASSUME NEW N \in Nat, NEW ring \in Rings(N), NEW g, NEW top \in 0 .. N, NEW k,
           Paired(ring, g, ring.len, top), NEW t \in 0 .. ring.len - 1, NEW s,
           Seeking(N, ring, g, k, s, t)
    PROVE  LET s2 == RemoveStrTurn(s, k)
           IN  \/ Seeking(N, ring, g, k, s2, t + 1)
               \/ \E h : HasGone(N, ring, g, top, k, s2, h)
<1> DEFINE s2 == RemoveStrTurn(s, k)
           l == ring.len
           j == t + 1
           at == ObjIterNext(s.r, s.it)
<1>1. l \in Nat /\ t \in Nat /\ j \in 1 .. l /\ l > 0 /\ t < l /\ j \in Nat /\ t \in 0 .. l /\ j \in 0 .. l
      /\ 2 * j - 2 = 2 * t /\ l - 1 \in Nat
  <2>1. l \in Nat
    BY ONLY ring \in Rings(N) DEF Rings
  <2>. QED
    BY ONLY <2>1, t \in 0 .. l - 1
<1>2. /\ s.r = ring /\ s.it \in Iterators(N) /\ s.it.max = l /\ s.it.idx = t /\ s.it.cur = g[2 * t]
      /\ s = [r |-> ring, it |-> s.it]
      /\ \A q \in 1 .. t : ring.is[g[2 * q]] # k
  BY ONLY Seeking(N, ring, g, k, s, t) DEF Seeking
<1>3. /\ \A q \in 0 .. l : g[2 * q] \in 1 .. N
      /\ \A q \in 0 .. l - 1 : ring.next[ring.next[g[2 * q]]] = g[2 * (q + 1)]
      /\ ring.next[ring.next[g[2 * l]]] = g[2]
  <2>1. l \in Nat /\ l > 0
    BY ONLY <1>1
  <2>. QED
    BY ONLY <2>1, PairFacts, N \in Nat, top \in 0 .. N, ring \in Rings(N), Paired(ring, g, l, top)
<1>4. Next2(ring, s.it.cur) = g[2 * j] /\ g[2 * t] \in 0 .. N /\ g[2 * j] \in 0 .. N
  <2>1. g[2 * t] \in 1 .. N /\ g[2 * j] \in 1 .. N
    BY ONLY <1>1, <1>3
  <2>2. g[2 * t] \in 0 .. N /\ g[2 * j] \in 0 .. N
    BY ONLY <2>1, N \in Nat
  <2>3. ring.next[ring.next[g[2 * t]]] = g[2 * (t + 1)]
    BY ONLY <1>3, t \in 0 .. l - 1
  <2>. QED
    BY ONLY <1>2, <2>2, <2>3 DEF Next2
<1>5. at = [s.it EXCEPT !.pre = g[2 * t], !.cur = g[2 * j], !.idx = @ + 1]
  BY ONLY <1>2, <1>4 DEF ObjIterNext
<1>. HIDE DEF at, j
<1>6. /\ at \in Iterators(N) /\ at.max = l /\ at.idx = j /\ at.cur = g[2 * j] /\ at.pre = g[2 * t]
  BY ONLY <1>1, <1>2, <1>4, <1>5 DEF Iterators, j
<1>7. s2 = IF ring.is[g[2 * j]] = k
           THEN [r |-> ObjUnlink(ring, at), it |-> ObjIterRemove(ring, at)]
           ELSE [s EXCEPT !.it = at]
  <2>1. ~ (s.it.idx >= s.it.max)
    BY ONLY <1>1, <1>2
  <2>. QED
    BY ONLY <1>2, <1>6, <2>1 DEF RemoveStrTurn, at
<1>8. CASE ring.is[g[2 * j]] # k
  <2>1. s2 = [r |-> ring, it |-> at]
    BY ONLY <1>2, <1>7, <1>8
  <2>2. \A q \in 1 .. t + 1 : q \in 1 .. t \/ q = t + 1
    BY ONLY <1>1
  <2>3. \A q \in 1 .. t + 1 : ring.is[g[2 * q]] # k
    BY ONLY <1>2, <1>8, <2>2 DEF j
  <2>4. Seeking(N, ring, g, k, s2, t + 1)
    BY ONLY <1>6, <2>1, <2>3 DEF Seeking, j
  <2>. QED
    BY <2>4
<1>9. CASE ring.is[g[2 * j]] = k
  <2> DEFINE made == ObjUnlink(ring, at)
             back == ObjIterRemove(ring, at)
             c == ring.next[ring.next[g[2 * j]]]
  <2>1. s2 = [r |-> made, it |-> back]
    BY ONLY <1>7, <1>9
  <2>2. /\ made \in Rings(N) /\ made.len = l - 1 /\ made.is = ring.is
        /\ SameValues(ring, made, g, l)
        /\ \E h : Paired(made, h, made.len, top) /\ LeavesOut(g, h, l, at.idx)
    <3>1. at.max = ring.len /\ at.idx \in 1 .. ring.len /\ at.cur = g[2 * at.idx]
          /\ at.pre = g[2 * at.idx - 2]
      BY ONLY <1>1, <1>6
    <3>2. Tells(at, at.idx, ring.len)
      BY DEF Tells
    <3>. QED
      BY ONLY <3>1, <3>2, ObjUnlinkSound, N \in Nat, top \in 0 .. N, ring \in Rings(N),
              Paired(ring, g, ring.len, top)
  <2>3. back = [at EXCEPT !.idx = @ - 1, !.max = @ - 1, !.cur = c]
    BY ONLY <1>6 DEF ObjIterRemove, Next2
  <2>. HIDE DEF made, back, c
  <2>4. PICK h : Paired(made, h, l - 1, top) /\ LeavesOut(g, h, l, j)
    BY ONLY <1>6, <2>2
  <2>5. c = IF j = l THEN g[2] ELSE g[2 * (j + 1)]
    <3>1. j = l \/ j \in 0 .. l - 1
      BY ONLY <1>1
    <3>. QED
      BY ONLY <1>3, <3>1 DEF c
  <2>6. c \in 0 .. N
    <3>1. 1 \in 0 .. l /\ 2 * 1 = 2 /\ (j = l \/ j + 1 \in 0 .. l)
      <4>1. l \in Nat /\ l > 0 /\ j \in 0 .. l
        BY ONLY <1>1
      <4>. QED
        BY ONLY <4>1
    <3>2. g[2] \in 1 .. N /\ (j # l => g[2 * (j + 1)] \in 1 .. N)
      BY ONLY <1>3, <3>1
    <3>. QED
      BY ONLY <2>5, <3>2, N \in Nat
  <2>7. /\ back \in Iterators(N) /\ back.max = l - 1 /\ back.idx = t /\ back.cur = c
    <3>1. j - 1 = t /\ t \in Nat /\ l - 1 \in Nat
      BY ONLY <1>1 DEF j
    <3>. QED
      BY ONLY <1>6, <2>3, <2>6, <3>1 DEF Iterators
  <2>8. t < l - 1 => \E q \in 1 .. l - 1 : c = h[2 * q]
    <3> SUFFICES ASSUME t < l - 1
                 PROVE  \E q \in 1 .. l - 1 : c = h[2 * q]
      OBVIOUS
    <3>1. j # l /\ j \in 1 .. l - 1 /\ ~ (j < j) /\ 2 * j + 2 = 2 * (j + 1)
      BY ONLY <1>1, t < l - 1 DEF j
    <3>2. h[2 * j] = g[2 * j + 2]
      BY ONLY <2>4, <3>1 DEF LeavesOut
    <3>. QED
      BY ONLY <2>5, <3>1, <3>2
  <2>9. HasGone(N, ring, g, top, k, s2, h)
    <3>1. j \in 1 .. l
      BY ONLY <1>1
    <3>. QED
      BY ONLY <1>9, <2>1, <2>2, <2>4, <2>7, <2>8, <3>1 DEF HasGone
  <2>. QED
    BY ONLY <2>9
<1>. QED
  BY <1>8, <1>9

LEMMA StrTurnGoesOn ==
    ASSUME NEW N \in Nat, NEW ring \in Rings(N), NEW g, NEW top \in 0 .. N, NEW k,
           Single(ring, g, k), NEW s, NEW h, HasGone(N, ring, g, top, k, s, h)
    PROVE  HasGone(N, ring, g, top, k, RemoveStrTurn(s, k), h)
<1> DEFINE s2 == RemoveStrTurn(s, k)
           l == ring.len
           m == l - 1
           at == ObjIterNext(s.r, s.it)
<1>1. l \in Nat
  BY ONLY ring \in Rings(N) DEF Rings
<1>2. /\ s \in [r : Rings(N), it : Iterators(N)]
      /\ s.r \in Rings(N) /\ s.it \in Iterators(N) /\ s.r.is = ring.is /\ s.r.len = m
      /\ Paired(s.r, h, m, top) /\ SameValues(ring, s.r, g, l) /\ s.it.max = m
      /\ s.it.idx < s.it.max => \E q \in 1 .. m : s.it.cur = h[2 * q]
  BY ONLY HasGone(N, ring, g, top, k, s, h) DEF HasGone
<1>3. PICK j \in 1 .. l : ring.is[g[2 * j]] = k /\ LeavesOut(g, h, l, j)
  BY ONLY HasGone(N, ring, g, top, k, s, h) DEF HasGone
<1>4. CASE s.it.idx >= s.it.max
  <2>1. s2 = s
    BY ONLY <1>4 DEF RemoveStrTurn
  <2>. QED
    BY <2>1
<1>5. CASE ~ (s.it.idx >= s.it.max)
  <2>1. m \in Nat /\ m > 0 /\ s.it.idx < s.it.max
    <3>1. s.it.idx \in Nat /\ s.it.max \in Nat
      BY ONLY <1>2 DEF Iterators
    <3>. QED
      BY ONLY <1>1, <1>2, <1>5, <3>1
  <2>2. PICK q \in 1 .. m : s.it.cur = h[2 * q]
    BY ONLY <1>2, <2>1
  <2>3. /\ \A i \in 0 .. m : h[2 * i] \in 1 .. N
        /\ \A i \in 0 .. m - 1 : s.r.next[s.r.next[h[2 * i]]] = h[2 * (i + 1)]
        /\ s.r.next[s.r.next[h[2 * m]]] = h[2]
    <3>1. m \in Nat /\ m > 0 /\ s.r \in Rings(N) /\ Paired(s.r, h, m, top)
      BY ONLY <1>2, <2>1
    <3>. HIDE DEF m
    <3>. QED
      BY ONLY <3>1, PairFacts, N \in Nat, top \in 0 .. N
  <2>4. \E p \in 1 .. m : Next2(s.r, s.it.cur) = h[2 * p]
    <3>1. CASE q = m
      <4>1. 1 \in 1 .. m /\ 2 * 1 = 2
        BY ONLY <2>1
      <4>. QED
        BY ONLY <2>2, <2>3, <3>1, <4>1 DEF Next2
    <3>2. CASE q # m
      <4>1. q \in 0 .. m - 1 /\ q + 1 \in 1 .. m
        BY ONLY <2>1, <3>2, q \in 1 .. m
      <4>. QED
        BY ONLY <2>2, <2>3, <4>1 DEF Next2
    <3>. QED
      BY <3>1, <3>2
  <2>5. PICK p \in 1 .. m : Next2(s.r, s.it.cur) = h[2 * p]
    BY ONLY <2>4
  <2>6. s.r.is[h[2 * p]] # k
    <3> DEFINE e == IF p < j THEN p ELSE p + 1
    <3>1. e \in 1 .. l /\ e # j /\ (~ (p < j) => 2 * p + 2 = 2 * (p + 1))
      BY ONLY <1>1, p \in 1 .. m, j \in 1 .. l
    <3>2. h[2 * p] = g[2 * e]
      BY ONLY <1>3, <3>1, p \in 1 .. m DEF LeavesOut
    <3>. HIDE DEF e
    <3>. QED
      BY ONLY <1>2, <1>3, <3>1, <3>2, Single(ring, g, k) DEF Single
  <2>7. at = [s.it EXCEPT !.pre = s.it.cur, !.cur = h[2 * p], !.idx = @ + 1]
    BY ONLY <2>5 DEF ObjIterNext
  <2>. HIDE DEF at
  <2>8. at \in Iterators(N) /\ at.max = m /\ at.cur = h[2 * p]
    <3>1. p \in 0 .. m
      BY ONLY p \in 1 .. m, <2>1
    <3>2. h[2 * p] \in 1 .. N
      BY ONLY <2>3, <3>1
    <3>3. h[2 * p] \in 0 .. N
      BY ONLY <3>2, N \in Nat
    <3>4. s.it \in Iterators(N) /\ s.it.max = m /\ s.it.idx + 1 \in Nat /\ s.it.cur \in 0 .. N
      BY ONLY <1>2 DEF Iterators
    <3>. QED
      BY ONLY <2>7, <3>3, <3>4 DEF Iterators
  <2>9. s2 = [s EXCEPT !.it = at]
    BY ONLY <1>5, <2>6, <2>8 DEF RemoveStrTurn, at
  <2>10. s2 \in [r : Rings(N), it : Iterators(N)] /\ s2.r = s.r /\ s2.it = at
    BY ONLY <1>2, <2>8, <2>9
  <2>. HIDE DEF s2
  <2>11. HasGone(N, ring, g, top, k, s2, h)
    <3>1. \E i \in 1 .. m : s2.it.cur = h[2 * i]
      BY ONLY <2>8, <2>10
    <3>2. \E i \in 1 .. l : ring.is[g[2 * i]] = k /\ LeavesOut(g, h, l, i)
      BY ONLY <1>3
    <3>. QED
      BY ONLY <1>2, <2>8, <2>10, <3>1, <3>2 DEF HasGone
  <2>. QED
    BY <2>11 DEF s2
<1>. QED
  BY <1>4, <1>5

LEMMA ObjStrRemoved ==
    ASSUME NEW N \in Nat, NEW ring \in Rings(N), NEW g, NEW top \in 0 .. N, NEW k, NEW kept,
           Paired(ring, g, ring.len, top), Filters(kept, ring, g, k), Single(ring, g, k)
    PROVE  LET made == ObjRemoveStr(ring, k)
           IN  /\ made \in Rings(N) /\ made.is = ring.is /\ made.len \in 0 .. ring.len
               /\ \E h : /\ Paired(made, h, made.len, top)
                         /\ Drawn(g, h, ring.len, made.len)
                         /\ PairsOf(made, h, made.len) = kept[ring.len]
<1> DEFINE made == ObjRemoveStr(ring, k)
           l == ring.len
           start == [r |-> ring, it |-> IterInit(ring)]
           F(m, f) == f = [n \in 0 .. m |-> IF n = 0 THEN start ELSE RemoveStrTurn(f[n - 1], k)]
           T == {m \in Nat : \E f : F(m, f)}
           at == CHOOSE f : F(l, f)
           Fine(s, t) == \/ Seeking(N, ring, g, k, s, t)
                         \/ \E h : HasGone(N, ring, g, top, k, s, h)
           U == {t \in Nat : t <= l => Fine(at[t], t)}
<1>0. l \in Nat /\ l <= l
  BY DEF Rings
<1>1. l # 0 => Seeking(N, ring, g, k, start, 0)
  <2> SUFFICES ASSUME l # 0
               PROVE  Seeking(N, ring, g, k, start, 0)
    OBVIOUS
  <2>1. l \in Nat /\ l > 0 /\ 2 * 0 = 0
    BY ONLY <1>0, l # 0
  <2>2. g[0] = ring.ptr
    BY ONLY <2>1, PairFacts, N \in Nat, top \in 0 .. N, ring \in Rings(N), Paired(ring, g, l, top)
  <2>3. ring.ptr \in 0 .. N
    BY ONLY ring \in Rings(N) DEF Rings
  <2>4. /\ start.it = [idx |-> 0, max |-> l, pre |-> 0, cur |-> ring.ptr] /\ start.r = ring
        /\ start = [r |-> ring, it |-> start.it]
    BY ONLY <2>1 DEF IterInit, NULL
  <2>. HIDE DEF start
  <2>5. start.it \in Iterators(N)
    BY ONLY <2>1, <2>3, <2>4, N \in Nat DEF Iterators
  <2>. QED
    BY ONLY <2>1, <2>2, <2>4, <2>5 DEF Seeking
<1>. HIDE DEF start
<1>2. 0 \in T
  <2>1. F(0, [n \in 0 .. 0 |-> start])
    OBVIOUS
  <2>. QED
    BY ONLY <2>1
<1>3. \A m \in Nat : m \in T => m + 1 \in T
  <2> SUFFICES ASSUME NEW m \in Nat, m \in T
               PROVE  m + 1 \in T
    OBVIOUS
  <2>1. PICK f : F(m, f)
    OBVIOUS
  <2>2. F(m + 1, [n \in 0 .. m + 1 |-> IF n <= m THEN f[n] ELSE RemoveStrTurn(f[m], k)])
    BY ONLY <2>1, m \in Nat
  <2>. HIDE DEF F
  <2>3. \E e : F(m + 1, e)
    BY ONLY <2>2
  <2>. QED
    BY ONLY <2>3, m \in Nat
<1>. HIDE DEF T
<1>4. l \in T
  BY ONLY <1>0, <1>2, <1>3, Induction
<1>5. F(l, at)
  BY ONLY <1>4 DEF T
<1>6. made = at[l].r
  BY ONLY TRUE DEF ObjRemoveStr, made, start
<1>. HIDE DEF at, made
<1>7. at[0] = start
  BY ONLY <1>0, <1>5
<1>8. CASE l = 0
  <2>1. made = ring
    BY ONLY <1>6, <1>7, <1>8 DEF start
  <2>2. Drawn(g, g, l, l)
    BY ONLY <1>0 DEF Drawn
  <2>3. PairsOf(ring, g, 0) = kept[0]
    <3>1. kept[0] = << >>
      BY DEF Filters
    <3>. QED
      BY ONLY <3>1 DEF PairsOf
  <2>. QED
    BY ONLY <1>0, <1>8, <2>1, <2>2, <2>3, ring \in Rings(N), Paired(ring, g, l, top) DEF made
<1>9. CASE l # 0
  <2>1. 0 \in U
    BY ONLY <1>1, <1>7, <1>9
  <2>2. \A t \in Nat : t \in U => t + 1 \in U
    <3> SUFFICES ASSUME NEW t \in Nat, t \in U, t + 1 <= l
                 PROVE  Fine(at[t + 1], t + 1)
      OBVIOUS
    <3>1. t <= l /\ t \in 0 .. l - 1 /\ t + 1 \in 0 .. l /\ t + 1 # 0 /\ t + 1 - 1 = t
      BY ONLY <1>0, t \in Nat, t + 1 <= l
    <3>2. at[t + 1] = RemoveStrTurn(at[t], k)
      BY ONLY <1>5, <3>1
    <3>3. Fine(at[t], t)
      BY ONLY <3>1, t \in U, t \in Nat
    <3>4. CASE Seeking(N, ring, g, k, at[t], t)
      BY ONLY <3>1, <3>2, <3>4, StrTurnSeeks, N \in Nat, top \in 0 .. N, ring \in Rings(N),
              Paired(ring, g, ring.len, top)
    <3>5. CASE \E h : HasGone(N, ring, g, top, k, at[t], h)
      <4>1. PICK h : HasGone(N, ring, g, top, k, at[t], h)
        BY <3>5
      <4>2. HasGone(N, ring, g, top, k, RemoveStrTurn(at[t], k), h)
        BY ONLY <4>1, StrTurnGoesOn, N \in Nat, top \in 0 .. N, ring \in Rings(N), Single(ring, g, k)
      <4>. QED
        BY ONLY <3>2, <4>2
    <3>. QED
      BY ONLY <3>3, <3>4, <3>5
  <2>. HIDE DEF U
  <2>3. l \in U
    BY ONLY <1>0, <2>1, <2>2, Induction
  <2>4. Fine(at[l], l)
    BY ONLY <1>0, <2>3 DEF U
  <2>5. CASE Seeking(N, ring, g, k, at[l], l)
    <3>1. made = ring /\ \A q \in 1 .. l : ring.is[g[2 * q]] # k
      BY ONLY <1>6, <2>5 DEF Seeking
    <3>2. l \in 0 .. l
      BY ONLY <1>0
    <3>3. \A n \in 0 .. l : kept[n] = PairsOf(ring, g, n)
      BY ONLY <1>0, <3>1, <3>2, KeptSoFar, Filters(kept, ring, g, k)
    <3>4. Drawn(g, g, l, l)
      BY ONLY <1>0 DEF Drawn
    <3>. QED
      BY ONLY <3>1, <3>2, <3>3, <3>4, ring \in Rings(N), Paired(ring, g, l, top) DEF made
  <2>6. CASE \E h : HasGone(N, ring, g, top, k, at[l], h)
    <3>1. PICK h : HasGone(N, ring, g, top, k, at[l], h)
      BY <2>6
    <3>2. PICK j \in 1 .. l : ring.is[g[2 * j]] = k /\ LeavesOut(g, h, l, j)
      BY ONLY <3>1 DEF HasGone
    <3>3. /\ made \in Rings(N) /\ made.is = ring.is /\ made.len = l - 1
          /\ Paired(made, h, l - 1, top) /\ SameValues(ring, made, g, l)
      BY ONLY <1>6, <3>1 DEF HasGone
    <3>5. kept[l] = PairsOf(made, h, l - 1)
      <4>1. ring.len \in Nat /\ j \in 1 .. ring.len /\ HasLeft(ring, made, g, h, k, j)
        BY ONLY <1>0, <3>2, <3>3 DEF HasLeft
      <4>2. kept[ring.len] = PairsOf(made, h, ring.len - 1)
        BY ONLY <4>1, KeptWithout, Filters(kept, ring, g, k), Single(ring, g, k)
      <4>. QED
        BY ONLY <4>2
    <3>6. Drawn(g, h, l, l - 1)
      BY ONLY <1>0, <3>2, LeavesOutDraws
    <3>7. l - 1 \in 0 .. l
      BY ONLY <1>0, <1>9
    <3>. QED
      BY ONLY <3>3, <3>5, <3>6, <3>7 DEF made
  <2>. QED
    BY ONLY <2>4, <2>5, <2>6
<1>. QED
  BY <1>8, <1>9

-----------------------------------------------------------------------------
(* The first pair of a key *)

LEMMA Least ==
    ASSUME NEW D, D \subseteq Nat, D # {}
    PROVE  \E i \in D : \A j \in D : i <= j
<1>1. PICK k \in D : \A e \in D : ~ (<<e, k>> \in OpToRel(<, Nat))
  BY NatLessThanWellFounded, WFMin
<1>2. \A e \in D : ~ (e < k)
  BY <1>1 DEF OpToRel
<1>3. \A e \in D : e \in Nat /\ k \in Nat
  BY <1>1
<1>4. \A e \in D : k <= e
  BY ONLY <1>2, <1>3
<1>. QED
  BY <1>1, <1>4

\* Values are cells of the ring, each of one key.
LEMMA ValueFacts ==
    ASSUME NEW N \in Nat, NEW ring \in Rings(N), NEW g, NEW top \in 0 .. N, NEW m \in Nat,
           Paired(ring, g, m, top), NEW i \in 1 .. m
    PROVE  /\ \E q \in 1 .. 2 * m : ring.next[g[2 * i]] = g[q]
           /\ \A j \in 1 .. m : ring.next[g[2 * i]] = ring.next[g[2 * j]] => i = j
<1>1. m > 0 /\ 2 * m \in Nat /\ 2 * m > 0
  OBVIOUS
<1>2. /\ \A p \in 0 .. m - 1 : ring.next[ring.next[g[2 * p]]] = g[2 * (p + 1)]
      /\ ring.next[ring.next[g[2 * m]]] = g[2]
      /\ \A p, q \in 1 .. m : g[2 * p] = g[2 * q] => p = q
  <2>1. m > 0
    BY ONLY <1>1
  <2>. QED
    BY ONLY <2>1, PairFacts, N \in Nat, top \in 0 .. N, ring \in Rings(N), Paired(ring, g, m, top),
            m \in Nat
<1>3. \E q \in 1 .. 2 * m : ring.next[g[2 * i]] = g[q]
  <2> DEFINE n == 2 * m
  <2>1. n \in Nat /\ n > 0 /\ Sound(ring, g, n, top)
    BY ONLY <1>1, Paired(ring, g, m, top) DEF Paired
  <2>2. /\ g[0] = g[n]
        /\ \A p \in 0 .. n - 1 : ring.next[g[p]] = g[p + 1]
    BY ONLY <2>1 DEF Sound, Cycle
  <2>3. CASE i = m
    <3>1. 0 \in 0 .. n - 1 /\ 0 + 1 = 1 /\ 1 \in 1 .. n /\ 2 * i = n
      BY ONLY <1>1, <2>3
    <3>. QED
      BY ONLY <2>2, <3>1
  <2>4. CASE i # m
    <3>1. 2 * i \in 0 .. n - 1 /\ 2 * i + 1 \in 1 .. n
      BY ONLY <2>4, m \in Nat, i \in 1 .. m
    <3>. QED
      BY ONLY <2>2, <3>1
  <2>. QED
    BY <2>3, <2>4
<1>4. ASSUME NEW j \in 1 .. m, ring.next[g[2 * i]] = ring.next[g[2 * j]]
      PROVE  i = j
  <2> DEFINE succ(p) == IF p = m THEN 1 ELSE p + 1
  <2>1. ASSUME NEW p \in 1 .. m
        PROVE  ring.next[ring.next[g[2 * p]]] = g[2 * succ(p)] /\ succ(p) \in 1 .. m
    <3>1. CASE p = m
      <4>1. succ(p) = 1 /\ 2 * 1 = 2 /\ 1 \in 1 .. m
        BY ONLY <1>1, <3>1, m \in Nat
      <4>. QED
        BY ONLY <1>2, <3>1, <4>1
    <3>2. CASE p # m
      <4>1. succ(p) = p + 1 /\ p + 1 \in 1 .. m /\ p \in 0 .. m - 1
        BY ONLY <3>2, m \in Nat, p \in 1 .. m
      <4>. QED
        BY ONLY <1>2, <4>1
    <3>. QED
      BY <3>1, <3>2
  <2>2. succ(i) = succ(j)
    <3>. HIDE DEF succ
    <3>1. /\ ring.next[ring.next[g[2 * i]]] = g[2 * succ(i)] /\ succ(i) \in 1 .. m
          /\ ring.next[ring.next[g[2 * j]]] = g[2 * succ(j)] /\ succ(j) \in 1 .. m
      BY ONLY <2>1, i \in 1 .. m, j \in 1 .. m
    <3>. QED
      BY ONLY <1>2, <1>4, <3>1
  <2>. QED
    BY ONLY <2>2, m \in Nat, i \in 1 .. m, j \in 1 .. m
<1>. QED
  BY ONLY <1>3, <1>4

\* The pairs of g the key k is in.
Hits(ring, g, k) == {i \in 1 .. ring.len : ring.is[g[2 * i]] = k}
First(D) == CHOOSE i \in D : \A j \in D : i <= j

LEMMA FirstHit ==
    ASSUME NEW ring, NEW g, NEW k, Hits(ring, g, k) # {}
    PROVE  First(Hits(ring, g, k)) \in Hits(ring, g, k)
<1>1. Hits(ring, g, k) \subseteq Nat
  BY DEF Hits
<1>. QED
  BY <1>1, Least DEF First

LEMMA HitsAlong ==
    ASSUME NEW N \in Nat, NEW ring \in Rings(N), NEW g, NEW top \in 0 .. N,
           Paired(ring, g, ring.len, top), NEW k
    PROVE  {i \in 1 .. ring.len : ring.is[Hop(ring, ring.ptr, 2 * i)] = k} = Hits(ring, g, k)
<1>1. \A i \in 1 .. ring.len : Hop(ring, ring.ptr, 2 * i) = g[2 * i]
  <2> SUFFICES ASSUME NEW i \in 1 .. ring.len
               PROVE  Hop(ring, ring.ptr, 2 * i) = g[2 * i]
    OBVIOUS
  <2>1. ring.len \in Nat
    BY DEF Rings
  <2>2. ring.len \in Nat /\ ring.len > 0 /\ i \in 0 .. ring.len
    BY ONLY <2>1, i \in 1 .. ring.len
  <2>3. \A q \in 0 .. ring.len : Hop(ring, ring.ptr, 2 * q) = g[2 * q]
    <3>1. ring.len \in Nat /\ ring.len > 0
      BY ONLY <2>2
    <3>. QED
      BY ONLY <3>1, PairFacts, N \in Nat, top \in 0 .. N, ring \in Rings(N),
              Paired(ring, g, ring.len, top)
  <2>. QED
    BY ONLY <2>2, <2>3
<1>. QED
  BY ONLY <1>1 DEF Hits

Refills(ring, made, g, key, val) ==
    \A i \in 1 .. ring.len :
      PairAt(made, g[2 * i]) = IF i = First(Hits(ring, g, ring.is[key]))
                               THEN <<ring.is[key], ring.is[val]>> ELSE PairAt(ring, g[2 * i])

LEMMA ObjReplaced ==
    ASSUME NEW N \in Nat, NEW ring \in Rings(N), NEW g, NEW top \in 0 .. N,
           Paired(ring, g, ring.len, top), NEW key \in 2 .. top, NEW val \in 2 .. top, key # val,
           Apart(g, ring.len, key), Apart(g, ring.len, val)
    PROVE  LET made == ObjReplace(ring, key, val)
               hits == Hits(ring, g, ring.is[key])
           IN  /\ made \in Rings(N) /\ made.len = ring.len /\ Paired(made, g, ring.len, top)
               /\ hits = {} => made = ring
               /\ hits # {} => Refills(ring, made, g, key, val)
<1> DEFINE made == ObjReplace(ring, key, val)
           l == ring.len
           hits == Hits(ring, g, ring.is[key])
           along == {i \in 1 .. l : ring.is[Hop(ring, ring.ptr, 2 * i)] = ring.is[key]}
           j == First(hits)
           hit == Hop(ring, ring.ptr, 2 * j)
           vc == ring.next[hit]
<1>0. l \in Nat /\ val # NULL /\ key \in 1 .. N /\ val \in 1 .. N
  BY DEF Rings, NULL
<1>1. along = hits
  BY HitsAlong
<1>2. CASE hits = {}
  <2>1. made = ring
    BY ONLY <1>1, <1>2 DEF ObjReplace, made, hits
  <2>. QED
    BY <1>2, <2>1
<1>3. CASE hits # {}
  <2>1. made = [ring EXCEPT !.is[hit] = ring.is[key], !.is[key] = ring.is[hit],
                            !.is[vc] = ring.is[val], !.is[val] = ring.is[vc]]
    BY ONLY Zenon, <1>0, <1>1, <1>3 DEF ObjReplace, made, hits, First
  <2>2. j \in 1 .. l
    <3>1. j \in hits
      BY ONLY <1>3, FirstHit
    <3>. QED
      BY ONLY <3>1 DEF Hits
  <2>. HIDE DEF made, hits, j
  <2>3. /\ \A i \in 0 .. l : g[2 * i] \in 1 .. N /\ Hop(ring, ring.ptr, 2 * i) = g[2 * i]
        /\ \A i \in 1 .. l : /\ ring.next[g[2 * i]] \in 2 .. top
                             /\ \A q \in 1 .. l : /\ ring.next[g[2 * i]] # g[2 * q]
                                                  /\ g[2 * i] = g[2 * q] => i = q
    <3>1. l > 0 /\ l \in Nat
      BY ONLY <1>0, <2>2
    <3>2. /\ \A i \in 0 .. l : g[2 * i] \in 1 .. N /\ Hop(ring, ring.ptr, 2 * i) = g[2 * i]
          /\ \A i \in 1 .. l : ring.next[g[2 * i]] \in 2 .. top
      BY ONLY <3>1, PairFacts, N \in Nat, top \in 0 .. N, ring \in Rings(N), Paired(ring, g, l, top)
    <3>3. \A i, q \in 1 .. l : ring.next[g[2 * i]] # g[2 * q] /\ (g[2 * i] = g[2 * q] => i = q)
      BY ONLY <3>1, PairFacts, N \in Nat, top \in 0 .. N, ring \in Rings(N), Paired(ring, g, l, top)
    <3>. QED
      BY ONLY <3>2, <3>3
  <2>4. hit = g[2 * j] /\ hit \in 1 .. N /\ vc \in 1 .. N
    <3>1. j \in 0 .. l
      BY ONLY <1>0, <2>2
    <3>2. hit = g[2 * j] /\ hit \in 1 .. N
      BY ONLY <2>3, <3>1
    <3>3. ring.next[g[2 * j]] \in 2 .. top
      BY ONLY <2>2, <2>3
    <3>. QED
      BY ONLY <3>2, <3>3, N \in Nat, top \in 0 .. N
  <2>. HIDE DEF hit
  <2>. HIDE DEF vc
  <2>5. \A i \in 1 .. l : /\ ring.next[g[2 * i]] # key /\ ring.next[g[2 * i]] # val
                          /\ g[2 * i] # key /\ g[2 * i] # val
                          /\ ring.next[g[2 * i]] = vc => i = j
    <3> SUFFICES ASSUME NEW i \in 1 .. l
                 PROVE  /\ ring.next[g[2 * i]] # key /\ ring.next[g[2 * i]] # val
                        /\ g[2 * i] # key /\ g[2 * i] # val
                        /\ ring.next[g[2 * i]] = vc => i = j
      OBVIOUS
    <3>1. /\ \E q \in 1 .. 2 * l : ring.next[g[2 * i]] = g[q]
          /\ \A q \in 1 .. l : ring.next[g[2 * i]] = ring.next[g[2 * q]] => i = q
      BY ONLY ValueFacts, <1>0, i \in 1 .. l, N \in Nat, top \in 0 .. N, ring \in Rings(N),
              Paired(ring, g, l, top)
    <3>2. 2 * i \in 1 .. 2 * l
      BY ONLY <1>0, i \in 1 .. l
    <3>. QED
      BY ONLY <2>2, <2>4, <3>1, <3>2, Apart(g, l, key), Apart(g, l, val) DEF Apart, vc
  <2>6. hit # key /\ hit # val /\ vc # key /\ vc # val /\ hit # vc
    BY ONLY <2>2, <2>3, <2>4, <2>5 DEF vc
  <2> DEFINE is2 == [c \in 1 .. N |-> IF c = hit THEN ring.is[key] ELSE IF c = key THEN ring.is[hit]
                                      ELSE IF c = vc THEN ring.is[val]
                                      ELSE IF c = val THEN ring.is[vc] ELSE ring.is[c]]
  <2>7. made = [ring EXCEPT !.is = is2]
    <3>1. /\ ring.is \in [1 .. N -> What] /\ ring \in Rings(N)
      BY DEF Rings
    <3>2. [[[[ring.is EXCEPT ![hit] = ring.is[key]] EXCEPT ![key] = ring.is[hit]]
             EXCEPT ![vc] = ring.is[val]] EXCEPT ![val] = ring.is[vc]] = is2
      BY ONLY <1>0, <2>4, <2>6, <3>1, key # val
    <3>3. made = [ring EXCEPT !.is = [[[[ring.is EXCEPT ![hit] = ring.is[key]] EXCEPT ![key] = ring.is[hit]]
                                       EXCEPT ![vc] = ring.is[val]] EXCEPT ![val] = ring.is[vc]]]
      BY ONLY <2>1, <3>1 DEF Rings
    <3>. QED
      BY ONLY <3>2, <3>3
  <2>8. is2 \in [1 .. N -> What]
    <3>1. ring.is \in [1 .. N -> What]
      BY DEF Rings
    <3>. QED
      BY ONLY <1>0, <2>4, <3>1
  <2>9. /\ is2[hit] = ring.is[key] /\ is2[vc] = ring.is[val]
        /\ \A c \in 1 .. N : c # hit /\ c # key /\ c # vc /\ c # val => is2[c] = ring.is[c]
    BY ONLY <2>4, <2>6
  <2>. HIDE DEF is2
  <2>10. /\ made \in Rings(N) /\ made.len = l /\ made.next = ring.next /\ made.ptr = ring.ptr
         /\ made.is = is2
    BY ONLY <2>7, <2>8, ring \in Rings(N) DEF Rings
  <2>11. Paired(made, g, l, top)
    BY ONLY <2>10, Paired(ring, g, l, top) DEF Paired, Sound
  <2>12. ASSUME NEW i \in 1 .. l
         PROVE  PairAt(made, g[2 * i]) = IF i = j THEN <<ring.is[key], ring.is[val]>>
                                         ELSE PairAt(ring, g[2 * i])
    <3>1. CASE i = j
      BY ONLY <2>4, <2>9, <2>10, <3>1 DEF PairAt, vc
    <3>2. CASE i # j
      <4>1. /\ g[2 * i] # hit /\ g[2 * i] # key /\ g[2 * i] # vc /\ g[2 * i] # val
            /\ ring.next[g[2 * i]] # hit /\ ring.next[g[2 * i]] # key
            /\ ring.next[g[2 * i]] # vc /\ ring.next[g[2 * i]] # val
        BY ONLY <2>2, <2>3, <2>4, <2>5, <3>2, i \in 1 .. l DEF vc
      <4>2. g[2 * i] \in 1 .. N /\ ring.next[g[2 * i]] \in 1 .. N
        <5>1. i \in 0 .. l
          BY ONLY <1>0, i \in 1 .. l
        <5>2. g[2 * i] \in 1 .. N /\ ring.next[g[2 * i]] \in 2 .. top
          BY ONLY <2>3, <5>1, i \in 1 .. l
        <5>. QED
          BY ONLY <5>2, N \in Nat, top \in 0 .. N
      <4>. QED
        BY ONLY <2>9, <2>10, <3>2, <4>1, <4>2 DEF PairAt
    <3>. QED
      BY <3>1, <3>2
  <2>. QED
    BY ONLY SMTT(30), <1>3, <2>10, <2>11, <2>12 DEF made, j, hits, Refills, l
<1>. QED
  BY <1>2, <1>3

-----------------------------------------------------------------------------
(* The invariant: the members of the container are the cells some g goes     *)
(* along, the keys of an object are keys, and an iterator stands at the cell *)
(* its place says, with the cell before it at hand.                          *)

ArrGood(N, ring, top) == ring \in Rings(N) /\ \E g : Sound(ring, g, ring.len, top)

KeyCells(ring, g, n) == \A i \in 1 .. n : ring.is[g[2 * i]] \in Keys
ObjGood(N, ring, top) ==
    ring \in Rings(N) /\ \E g : Paired(ring, g, ring.len, top) /\ KeyCells(ring, g, ring.len)

ArrAt(g) == it.max > 0 => /\ it.max = r.len /\ place <= it.max /\ it.cur = g[place]
                          /\ place > 0 => it.pre = g[place - 1]
ObjAt(g) == it.max > 0 => /\ it.max = r.len /\ place <= it.max /\ it.cur = g[2 * place]
                          /\ place > 0 => it.pre = g[2 * place - 2]

\* The place is idx until the iterator removes or searches around the end.
Counted == /\ place \in Nat /\ plain \in BOOLEAN
           /\ it.idx > 0 => place > 0
           /\ plain = TRUE => place = it.idx

TypeInv == /\ kind \in {"arr", "obj"} /\ r \in Rings(Cells) /\ cur \in Cell
           /\ it \in Iterators(Cells) /\ it.idx <= it.max /\ Counted
ArrInv == \E g : Sound(r, g, r.len, cur) /\ ArrAt(g)
ObjInv == \E g : Paired(r, g, r.len, cur) /\ KeyCells(r, g, r.len) /\ ObjAt(g)

IInv == TypeInv /\ (kind = "arr" => ArrInv) /\ (kind = "obj" => ObjInv)

LEMMA CellsNat == ArrCells \in Nat /\ ObjCells \in Nat /\ Start \in Nat /\ 0 < ArrCells /\ 0 < ObjCells
  BY CellsAssumption

LEMMA Settled ==
    ASSUME kind \in {"arr", "obj"}, kind' = kind, Dropped, cur' \in Cell,
           kind = "arr" => ArrGood(Cells, r', cur'), kind = "obj" => ObjGood(Cells, r', cur')
    PROVE  IInv'
<1>1. Cells' = Cells /\ Cell' = Cell
  BY DEF Cell, Cells
<1>2. /\ it' = [idx |-> 0, max |-> 0, pre |-> 0, cur |-> 0]
      /\ it'.max = 0 /\ it'.idx = 0 /\ place' = 0 /\ plain' = TRUE
  BY DEF Dropped, Off, NULL
<1>3. Cells \in Nat
  BY CellsNat DEF Cells
<1>4. TypeInv'
  <2>1. r' \in Rings(Cells)
    BY DEF ArrGood, ObjGood
  <2>2. it' \in Iterators(Cells)
    BY <1>2, <1>3 DEF Iterators
  <2>3. it'.idx <= it'.max
    BY <1>2
  <2>4. Counted'
    BY ONLY <1>2 DEF Counted
  <2>. QED
    BY <1>1, <2>1, <2>2, <2>3, <2>4 DEF TypeInv
<1>5. ASSUME kind = "arr"
      PROVE  ArrInv'
  <2>1. PICK g : Sound(r', g, r'.len, cur')
    BY <1>5 DEF ArrGood
  <2>2. ArrAt(g)'
    BY <1>2 DEF ArrAt
  <2>. QED
    BY <2>1, <2>2 DEF ArrInv
<1>6. ASSUME kind = "obj"
      PROVE  ObjInv'
  <2>1. PICK g : Paired(r', g, r'.len, cur') /\ KeyCells(r', g, r'.len)
    BY <1>6 DEF ObjGood
  <2>2. ObjAt(g)'
    BY <1>2 DEF ObjAt
  <2>. QED
    BY <2>1, <2>2 DEF ObjInv
<1>. QED
  BY <1>4, <1>5, <1>6 DEF IInv

\* A cell that is loose is none of the ring.
LEMMA LooseArr ==
    ASSUME TypeInv, kind = "arr", NEW g, Sound(r, g, r.len, cur), NEW v \in Loose
    PROVE  v \in 2 .. cur /\ v \in 1 .. Cells /\ \A i \in 1 .. r.len : g[i] # v
<1>1. v \in 2 .. cur /\ \A i \in 1 .. Size : Hop(r, r.ptr, i) # v
  BY DEF Loose, InRing
<1>2. Size = r.len /\ r \in Rings(Cells) /\ cur \in 1 .. Cells /\ Cells \in Nat /\ cur \in 0 .. Cells
      /\ r.len \in Nat
  BY CellsNat DEF Size, TypeInv, Cell, Cells, Rings
<1>3. ASSUME NEW i \in 1 .. r.len
      PROVE  g[i] # v
  <2>1. r.len > 0 /\ i \in 0 .. r.len
    BY <1>2
  <2>2. \A q \in 0 .. r.len : Hop(r, r.ptr, q) = g[q]
    BY ONLY <1>2, <2>1, SoundArr, Sound(r, g, r.len, cur)
  <2>. QED
    BY ONLY <1>1, <1>2, <2>1, <2>2, i \in 1 .. r.len
<1>. QED
  BY <1>1, <1>2, <1>3

LEMMA LooseObj ==
    ASSUME TypeInv, kind = "obj", NEW g, Paired(r, g, r.len, cur), NEW v \in Loose
    PROVE  v \in 2 .. cur /\ v \in 1 .. Cells /\ Apart(g, r.len, v)
<1>1. v \in 2 .. cur /\ \A i \in 1 .. Size : Hop(r, r.ptr, i) # v
  BY DEF Loose, InRing
<1> DEFINE n == 2 * r.len
<1>2. Size = n /\ r \in Rings(Cells) /\ cur \in 1 .. Cells /\ Cells \in Nat /\ cur \in 0 .. Cells
      /\ r.len \in Nat /\ n \in Nat /\ Sound(r, g, n, cur)
  BY CellsNat DEF Size, TypeInv, Cell, Cells, Rings, Paired
<1>. HIDE DEF n
<1>3. ASSUME NEW i \in 1 .. n
      PROVE  g[i] # v
  <2>1. n > 0 /\ i \in 0 .. n
    BY <1>2
  <2>2. \A q \in 0 .. n : Hop(r, r.ptr, q) = g[q]
    <3>1. /\ Cells \in Nat /\ r \in Rings(Cells) /\ cur \in 0 .. Cells /\ n \in Nat
          /\ Sound(r, g, n, cur) /\ n > 0
      BY ONLY <1>2, <2>1
    <3>. QED
      BY ONLY <3>1, SoundObj, SMTT(30)
  <2>. QED
    BY ONLY <1>1, <1>2, <2>1, <2>2, i \in 1 .. n
<1>. QED
  BY <1>1, <1>2, <1>3 DEF Apart, n

LEMMA Emptied ==
    ASSUME NEW N \in Nat, NEW ring \in Rings(N), NEW top
    PROVE  /\ [ring EXCEPT !.len = 0] \in Rings(N)
           /\ ArrGood(N, [ring EXCEPT !.len = 0], top) /\ ObjGood(N, [ring EXCEPT !.len = 0], top)
<1> DEFINE made == [ring EXCEPT !.len = 0]
<1>1. made \in Rings(N) /\ made.len = 0
  BY DEF Rings
<1>. HIDE DEF made
<1>2. Sound(made, <<>>, made.len, top) /\ Paired(made, <<>>, made.len, top)
      /\ KeyCells(made, <<>>, made.len)
  BY ONLY <1>1 DEF Sound, Paired, KeyCells
<1>3. ArrGood(N, made, top) /\ ObjGood(N, made, top)
  BY ONLY <1>1, <1>2 DEF ArrGood, ObjGood
<1>. QED
  BY ONLY <1>1, <1>3 DEF made

LEMMA ArrGrowsGood ==
    ASSUME NEW N \in Nat, NEW ring \in Rings(N), NEW g, NEW top \in 0 .. N,
           Sound(ring, g, ring.len, top),
           NEW v \in 2 .. top, \A i \in 1 .. ring.len : g[i] # v, NEW idx \in Nat
    PROVE  /\ ArrGood(N, ArrInsert(ring, v, idx), top) /\ ArrGood(N, ArrAppend(ring, v), top)
           /\ ArrGood(N, ArrPrepend(ring, v), top) /\ ArrGood(N, ArrReplace(ring, idx, v), top)
<1>1. /\ ring.len \in Nat /\ 0 \in 0 .. ring.len /\ ring.len \in 0 .. ring.len /\ v \in 1 .. N
  BY DEF Rings
<1>2. ASSUME NEW i \in 0 .. ring.len
      PROVE  ArrGood(N, ArrInsert(ring, v, i), top)
  <2> DEFINE made == ArrInsert(ring, v, i)
  <2>1. made \in Rings(N) /\ \E h : Sound(made, h, made.len, top)
    BY ONLY ArrInsertSound, N \in Nat, ring \in Rings(N), top \in 0 .. N, v \in 2 .. top,
            Sound(ring, g, ring.len, top), \A q \in 1 .. ring.len : g[q] # v, i \in 0 .. ring.len
  <2>. QED
    BY ONLY <2>1 DEF ArrGood
<1>3. ArrGood(N, ring, top)
  BY DEF ArrGood
<1>4. ArrGood(N, ArrInsert(ring, v, idx), top)
  <2>1. CASE idx \in 0 .. ring.len
    BY <1>2, <2>1
  <2>2. CASE idx \notin 0 .. ring.len
    <3>1. idx > ring.len
      BY ONLY <1>1, <2>2, idx \in Nat
    <3>2. ArrInsert(ring, v, idx) = ring
      BY ONLY <3>1 DEF ArrInsert
    <3>. QED
      BY ONLY <1>3, <3>2
  <2>. QED
    BY <2>1, <2>2
<1>5. ArrGood(N, ArrAppend(ring, v), top) /\ ArrGood(N, ArrPrepend(ring, v), top)
  <2>1. ArrAppend(ring, v) = ArrInsert(ring, v, ring.len) /\ ArrPrepend(ring, v) = ArrInsert(ring, v, 0)
    BY <1>1, ArrAppendIs, ArrPrependIs
  <2>2. ArrGood(N, ArrInsert(ring, v, ring.len), top) /\ ArrGood(N, ArrInsert(ring, v, 0), top)
    BY ONLY <1>1, <1>2
  <2>. QED
    BY ONLY <2>1, <2>2
<1>6. ArrGood(N, ArrReplace(ring, idx, v), top)
  <2>1. CASE idx < ring.len
    <3> DEFINE made == ArrReplace(ring, idx, v)
    <3>1. made \in Rings(N) /\ \E h : Sound(made, h, made.len, top)
      BY ONLY ArrReplaceSound, N \in Nat, ring \in Rings(N), top \in 0 .. N, v \in 2 .. top,
              Sound(ring, g, ring.len, top), \A q \in 1 .. ring.len : g[q] # v, idx \in Nat, <2>1
    <3>. QED
      BY ONLY <3>1 DEF ArrGood
  <2>2. CASE ~ (idx < ring.len)
    <3>1. idx >= ring.len
      BY ONLY <1>1, <2>2, idx \in Nat
    <3>2. ArrReplace(ring, idx, v) = ring
      BY ONLY <3>1 DEF ArrReplace
    <3>. QED
      BY ONLY <1>3, <3>2
  <2>. QED
    BY <2>1, <2>2
<1>. QED
  BY ONLY <1>4, <1>5, <1>6

LEMMA ArrShrinksGood ==
    ASSUME NEW N \in Nat, NEW ring \in Rings(N), NEW g, NEW top \in 0 .. N,
           Sound(ring, g, ring.len, top), NEW idx \in Nat, NEW n \in Nat
    PROVE  /\ ArrGood(N, ArrRemoveRange(ring, idx, n), top) /\ ArrGood(N, ArrRemove(ring, idx), top)
           /\ ArrGood(N, ArrRemoveFirst(ring), top) /\ ArrGood(N, ArrRemoveLast(ring), top)
           /\ ArrGood(N, ArrClear(ring), top) /\ ArrGood(N, ArrRotate(ring, idx), top)
<1>1. ring.len \in Nat
  BY DEF Rings
<1>2. ASSUME NEW i \in Nat, NEW m \in Nat, m > 0, i + m <= ring.len
      PROVE  ArrGood(N, ArrRemoveRange(ring, i, m), top)
  <2> DEFINE made == ArrRemoveRange(ring, i, m)
  <2>1. made \in Rings(N) /\ \E h : Sound(made, h, made.len, top)
    BY ONLY ArrRemoveRangeSound, N \in Nat, ring \in Rings(N), top \in 0 .. N,
            Sound(ring, g, ring.len, top), i \in Nat, m \in Nat, m > 0, i + m <= ring.len
  <2>. QED
    BY ONLY <2>1 DEF ArrGood
<1>3. ArrGood(N, ring, top)
  BY DEF ArrGood
<1>4. ArrGood(N, ArrRemoveRange(ring, idx, n), top)
  <2>1. CASE n > 0 /\ idx + n <= ring.len
    BY <1>2, <2>1
  <2>2. CASE ~ (n > 0 /\ idx + n <= ring.len)
    <3>1. idx + n > ring.len \/ n = 0
      BY ONLY <1>1, <2>2, idx \in Nat, n \in Nat
    <3>2. ArrRemoveRange(ring, idx, n) = ring
      BY ONLY <3>1 DEF ArrRemoveRange
    <3>. QED
      BY ONLY <1>3, <3>2
  <2>. QED
    BY <2>1, <2>2
<1>5. ArrGood(N, ArrRemove(ring, idx), top)
  <2>1. CASE idx < ring.len
    <3>1. ArrRemove(ring, idx) = ArrRemoveRange(ring, idx, 1)
      BY <2>1, ArrRemoveIs
    <3>2. 1 \in Nat /\ 1 > 0 /\ idx + 1 <= ring.len
      BY ONLY <1>1, <2>1, idx \in Nat
    <3>3. ArrGood(N, ArrRemoveRange(ring, idx, 1), top)
      BY ONLY <1>2, <3>2, idx \in Nat
    <3>. QED
      BY ONLY <3>1, <3>3
  <2>2. CASE ~ (idx < ring.len)
    <3>1. idx >= ring.len
      BY ONLY <1>1, <2>2, idx \in Nat
    <3>2. ArrRemove(ring, idx) = ring
      BY ONLY <3>1 DEF ArrRemove
    <3>. QED
      BY ONLY <1>3, <3>2
  <2>. QED
    BY <2>1, <2>2
<1>6. ArrGood(N, ArrRemoveFirst(ring), top) /\ ArrGood(N, ArrRemoveLast(ring), top)
  <2>1. CASE ring.len > 0
    <3>1. /\ ArrRemoveFirst(ring) = ArrRemoveRange(ring, 0, 1)
          /\ ArrRemoveLast(ring) = ArrRemoveRange(ring, ring.len - 1, 1)
      BY <2>1, ArrRemoveFirstIs, ArrRemoveLastIs
    <3>2. 1 \in Nat /\ 1 > 0 /\ 0 + 1 <= ring.len /\ 0 \in Nat
      BY ONLY <1>1, <2>1
    <3>3. ArrGood(N, ArrRemoveRange(ring, 0, 1), top)
      BY ONLY <1>2, <3>2
    <3> DEFINE l == ring.len - 1
    <3>4. l \in Nat /\ l + 1 <= ring.len
      BY ONLY <1>1, <2>1
    <3>. HIDE DEF l
    <3>5. ArrGood(N, ArrRemoveRange(ring, l, 1), top)
      BY ONLY <1>2, <3>2, <3>4
    <3>. QED
      BY ONLY <3>1, <3>3, <3>5 DEF l
  <2>2. CASE ~ (ring.len > 0)
    <3>1. ~ (ring.len > 1)
      BY ONLY <1>1, <2>2
    <3>. QED
      BY ONLY <3>1, Emptied, N \in Nat, ring \in Rings(N) DEF ArrRemoveFirst, ArrRemoveLast
  <2>. QED
    BY <2>1, <2>2
<1>7. ArrGood(N, ArrClear(ring), top)
  BY Emptied DEF ArrClear
<1>8. ArrGood(N, ArrRotate(ring, idx), top)
  <2> DEFINE made == ArrRotate(ring, idx)
  <2>1. CASE ring.len > idx
    <3>1. ring.len > 0 /\ idx \in 0 .. ring.len
      BY ONLY <1>1, <2>1, idx \in Nat
    <3>2. /\ \A i \in 0 .. ring.len : g[i] \in 2 .. top
          /\ \A i \in 0 .. ring.len : Hop(ring, ring.ptr, i) = g[i]
      BY ONLY <3>1, SoundArr, N \in Nat, ring \in Rings(N), top \in 0 .. N,
              Sound(ring, g, ring.len, top)
    <3>3. made = [ring EXCEPT !.ptr = g[idx]]
      BY ONLY <2>1, <3>1, <3>2 DEF ArrRotate, made
    <3>4. g[idx] \in 0 .. N
      BY ONLY <3>1, <3>2, N \in Nat, top \in 0 .. N
    <3>. HIDE DEF made
    <3>5. made \in Rings(N) /\ made.len = ring.len /\ made.next = ring.next /\ made.ptr = g[idx]
      BY ONLY <3>3, <3>4, ring \in Rings(N) DEF Rings
    <3>6. \E h : Sound(made, h, ring.len, top)
      BY ONLY <1>1, <3>1, <3>5, RotatedSound, Sound(ring, g, ring.len, top)
    <3>7. ArrGood(N, made, top)
      BY ONLY <3>5, <3>6 DEF ArrGood
    <3>. QED
      BY ONLY <3>7 DEF made
  <2>2. CASE ~ (ring.len > idx)
    <3>1. made = ring
      BY ONLY <2>2 DEF ArrRotate
    <3>. QED
      BY ONLY <1>3, <3>1
  <2>. QED
    BY <2>1, <2>2
<1>. QED
  BY ONLY <1>4, <1>5, <1>6, <1>7, <1>8

-----------------------------------------------------------------------------
(* What stays good of an object under each of its functions. *)

LEMMA KeysPutIn ==
    ASSUME NEW ring, NEW g, NEW h, NEW m \in Nat, NEW k, NEW idx \in Nat, PutsIn(g, h, m, k, idx),
           KeyCells(ring, g, m), ring.is[k] \in Keys, NEW made, made.is = ring.is, idx <= m
    PROVE  KeyCells(made, h, m + 1)
<1> SUFFICES ASSUME NEW i \in 1 .. m + 1
             PROVE  ring.is[h[2 * i]] \in Keys
  BY DEF KeyCells
<1>1. CASE i <= idx
  <2>1. h[2 * i] = g[2 * i] /\ i \in 1 .. m
    BY <1>1 DEF PutsIn
  <2>. QED
    BY <2>1 DEF KeyCells
<1>2. CASE i = idx + 1
  <2>1. h[2 * i] = k
    BY <1>2 DEF PutsIn
  <2>. QED
    BY <2>1
<1>3. CASE i > idx + 1
  <2> DEFINE j == i - 1
  <2>1. h[2 * i] = g[2 * j] /\ j \in 1 .. m
    BY <1>3 DEF PutsIn
  <2>. HIDE DEF j
  <2>. QED
    BY <2>1 DEF KeyCells
<1>. QED
  BY <1>1, <1>2, <1>3

LEMMA KeysDrawn ==
    ASSUME NEW ring, NEW g, NEW h, NEW m, NEW n, Drawn(g, h, m, n),
           KeyCells(ring, g, m), NEW made, made.is = ring.is
    PROVE  KeyCells(made, h, n)
<1> SUFFICES ASSUME NEW i \in 1 .. n
             PROVE  ring.is[h[2 * i]] \in Keys
  BY DEF KeyCells
<1>1. PICK q \in 1 .. m : h[2 * i] = g[2 * q]
  BY ONLY i \in 1 .. n, Drawn(g, h, m, n) DEF Drawn
<1>. QED
  BY ONLY <1>1, KeyCells(ring, g, m) DEF KeyCells

LEMMA TurnsDraws ==
    ASSUME NEW g, NEW h, NEW m \in Nat, NEW idx \in Nat, Turns(g, h, m, idx)
    PROVE  idx < m => Drawn(g, h, m, m)
<1> SUFFICES ASSUME idx < m
             PROVE  Drawn(g, h, m, m)
  OBVIOUS
<1>1. ASSUME NEW i \in 1 .. m
      PROVE  \E q \in 1 .. m : h[2 * i] = g[2 * q]
  <2>1. CASE i + idx <= m
    <3>1. i + idx \in 1 .. m /\ h[2 * i] = g[2 * (i + idx)]
      BY <2>1 DEF Turns
    <3>. QED
      BY <3>1
  <2>2. CASE i + idx > m
    <3>1. i + idx - m \in 1 .. m /\ h[2 * i] = g[2 * (i + idx - m)]
      BY <2>2 DEF Turns
    <3>. QED
      BY <3>1
  <2>. QED
    BY <2>1, <2>2
<1>. QED
  BY <1>1 DEF Drawn, Turns

LEMMA ObjGrowsGood ==
    ASSUME NEW N \in Nat, NEW ring \in Rings(N), NEW g, NEW top \in 0 .. N,
           Paired(ring, g, ring.len, top), KeyCells(ring, g, ring.len),
           NEW k \in 2 .. top, NEW v \in 2 .. top, k # v, ring.is[k] \in Keys,
           Apart(g, ring.len, k), Apart(g, ring.len, v), NEW idx \in Nat
    PROVE  ObjGood(N, ObjAdd(ring, k, v), top) /\ ObjGood(N, ObjInsert(ring, k, v, idx), top)
<1>1. ring.len \in Nat /\ ring.len <= ring.len
  BY DEF Rings
<1>2. ObjGood(N, ObjAdd(ring, k, v), top)
  <2> DEFINE made == ObjAdd(ring, k, v)
  <2>1. made \in Rings(N) /\ made.len = ring.len + 1 /\ made.is = ring.is
        /\ \E h : Paired(made, h, made.len, top) /\ PutsIn(g, h, ring.len, k, ring.len)
    BY ONLY ZenonT(30), ObjAdded, N \in Nat, ring \in Rings(N), top \in 0 .. N, k \in 2 .. top, v \in 2 .. top,
            k # v, Paired(ring, g, ring.len, top), Apart(g, ring.len, k), Apart(g, ring.len, v)
  <2>. HIDE DEF made
  <2>2. PICK h : Paired(made, h, made.len, top) /\ PutsIn(g, h, ring.len, k, ring.len)
    BY ONLY <2>1
  <2>3. KeyCells(made, h, made.len)
    BY ONLY <1>1, <2>1, <2>2, KeysPutIn, KeyCells(ring, g, ring.len), ring.is[k] \in Keys
  <2>4. ObjGood(N, made, top)
    BY ONLY <2>1, <2>2, <2>3 DEF ObjGood
  <2>. QED
    BY ONLY <2>4 DEF made
<1>3. CASE idx <= ring.len
  <2> DEFINE made == ObjInsert(ring, k, v, idx)
  <2>1. /\ made \in Rings(N) /\ made.len = ring.len + 1 /\ made.is = ring.is
        /\ made.next[k] = v /\ SameValues(ring, made, g, ring.len)
        /\ \E h : Paired(made, h, made.len, top) /\ PutsIn(g, h, ring.len, k, idx)
    BY ONLY ObjInserted, N \in Nat, ring \in Rings(N), top \in 0 .. N, k \in 2 .. top, v \in 2 .. top,
            k # v, Paired(ring, g, ring.len, top), Apart(g, ring.len, k), Apart(g, ring.len, v),
            idx \in Nat, <1>3
  <2>. HIDE DEF made
  <2>2. PICK h : Paired(made, h, made.len, top) /\ PutsIn(g, h, ring.len, k, idx)
    BY ONLY <2>1
  <2>3. KeyCells(made, h, made.len)
    BY ONLY <1>1, <1>3, <2>1, <2>2, KeysPutIn, KeyCells(ring, g, ring.len), ring.is[k] \in Keys,
            idx \in Nat
  <2>4. ObjGood(N, made, top)
    BY ONLY <2>1, <2>2, <2>3 DEF ObjGood
  <2>. QED
    BY ONLY <1>2, <2>4 DEF made
<1>4. CASE ~ (idx <= ring.len)
  <2>1. idx > ring.len
    BY ONLY <1>1, <1>4, idx \in Nat
  <2>2. ObjInsert(ring, k, v, idx) = ring
    BY ONLY <2>1 DEF ObjInsert
  <2>3. ObjGood(N, ring, top)
    BY DEF ObjGood
  <2>. QED
    BY ONLY <1>2, <2>2, <2>3
<1>. QED
  BY ONLY <1>3, <1>4

\* What an object keeps of its cells: those of the ring are of the ring
\* before, its keys of the keys before.
Keeps(ring, made, g, h, top) ==
    /\ made.is = ring.is /\ made.len \in 0 .. ring.len
    /\ Paired(made, h, made.len, top) /\ Drawn(g, h, ring.len, made.len)

LEMMA KeepsGood ==
    ASSUME NEW N, NEW ring, NEW g, NEW top, KeyCells(ring, g, ring.len),
           NEW made \in Rings(N), NEW h, Keeps(ring, made, g, h, top)
    PROVE  KeyCells(made, h, made.len) /\ ObjGood(N, made, top)
<1>1. KeyCells(made, h, made.len)
  BY KeysDrawn DEF Keeps
<1>. QED
  BY <1>1 DEF Keeps, ObjGood

LEMMA ObjShrinksGood ==
    ASSUME NEW N \in Nat, NEW ring \in Rings(N), NEW g, NEW top \in 0 .. N,
           Paired(ring, g, ring.len, top), KeyCells(ring, g, ring.len), NEW k, NEW idx \in Nat
    PROVE  /\ ObjGood(N, ObjRemove(ring, k), top)
           /\ Single(ring, g, k) => ObjGood(N, ObjRemoveStr(ring, k), top)
           /\ ObjGood(N, ObjClear(ring), top) /\ ObjGood(N, ObjRotate(ring, idx), top)
<1>1. ring.len \in Nat
  BY DEF Rings
<1>2. PICK kept : Filters(kept, ring, g, k)
  BY ONLY <1>1, FilterExists
<1>3. ObjGood(N, ObjRemove(ring, k), top)
  <2> DEFINE made == ObjRemove(ring, k)
  <2>1. made \in Rings(N) /\ \E h : Keeps(ring, made, g, h, top)
    BY ONLY <1>2, ObjRemoved, N \in Nat, ring \in Rings(N), top \in 0 .. N,
            Paired(ring, g, ring.len, top) DEF Keeps
  <2>. QED
    BY ONLY <2>1, KeepsGood, KeyCells(ring, g, ring.len)
<1>4. ASSUME Single(ring, g, k)
      PROVE  ObjGood(N, ObjRemoveStr(ring, k), top)
  <2> DEFINE made == ObjRemoveStr(ring, k)
  <2>1. made \in Rings(N) /\ \E h : Keeps(ring, made, g, h, top)
    BY ONLY <1>2, <1>4, ObjStrRemoved, N \in Nat, ring \in Rings(N), top \in 0 .. N,
            Paired(ring, g, ring.len, top) DEF Keeps
  <2>. QED
    BY ONLY <2>1, KeepsGood, KeyCells(ring, g, ring.len)
<1>5. ObjGood(N, ObjClear(ring), top)
  BY Emptied DEF ObjClear
<1>6. CASE idx < ring.len
  <2> DEFINE made == ObjRotate(ring, idx)
  <2>1. made \in Rings(N) /\ made.len = ring.len /\ made.is = ring.is
        /\ \E h : Paired(made, h, ring.len, top) /\ Turns(g, h, ring.len, idx)
    BY ONLY <1>6, ObjRotateSound, N \in Nat, ring \in Rings(N), top \in 0 .. N,
            Paired(ring, g, ring.len, top), idx \in Nat
  <2>. HIDE DEF made
  <2>2. PICK h : Paired(made, h, ring.len, top) /\ Turns(g, h, ring.len, idx)
    BY ONLY <2>1
  <2>3. Drawn(g, h, ring.len, made.len)
    BY ONLY <1>1, <1>6, <2>1, <2>2, TurnsDraws, idx \in Nat
  <2>4. made.len \in 0 .. ring.len
    BY ONLY <1>1, <2>1
  <2>5. Keeps(ring, made, g, h, top)
    BY ONLY <2>1, <2>2, <2>3, <2>4 DEF Keeps
  <2>6. ObjGood(N, made, top)
    BY ONLY <2>1, <2>5, KeepsGood, KeyCells(ring, g, ring.len)
  <2>. QED
    BY ONLY <1>3, <1>4, <1>5, <2>6 DEF made
<1>7. CASE ~ (idx < ring.len)
  <2>1. ObjRotate(ring, idx) = ring
    BY <1>1, <1>7 DEF ObjRotate
  <2>2. ObjGood(N, ring, top)
    BY DEF ObjGood
  <2>. QED
    BY ONLY <1>3, <1>4, <1>5, <2>1, <2>2
<1>. QED
  BY ONLY <1>6, <1>7

LEMMA ApartDrawn ==
    ASSUME NEW g, NEW h, NEW m, NEW n, Drawn(g, h, m, n), NEW c, Apart(g, m, c)
    PROVE  Apart(h, n, c)
  BY DEF Drawn, Apart

LEMMA ObjPutGood ==
    ASSUME NEW N \in Nat, NEW ring \in Rings(N), NEW g, NEW top \in 0 .. N,
           Paired(ring, g, ring.len, top), KeyCells(ring, g, ring.len),
           NEW k \in 2 .. top, NEW v \in (2 .. top) \cup {NULL}, k # v, ring.is[k] \in Keys,
           Apart(g, ring.len, k), Apart(g, ring.len, v)
    PROVE  ObjGood(N, ObjPut(ring, k, v), top)
<1> DEFINE cut == ObjRemove(ring, ring.is[k])
<1>1. ring.len \in Nat
  BY DEF Rings
<1>2. PICK kept : Filters(kept, ring, g, ring.is[k])
  BY ONLY <1>1, FilterExists
<1>3. cut \in Rings(N) /\ \E h : Keeps(ring, cut, g, h, top)
  BY ONLY <1>2, ObjRemoved, N \in Nat, ring \in Rings(N), top \in 0 .. N,
          Paired(ring, g, ring.len, top) DEF Keeps
<1>4. ObjPut(ring, k, v) = ObjAdd(cut, k, v)
  BY DEF ObjPut
<1>. HIDE DEF cut
<1>5. PICK h : Keeps(ring, cut, g, h, top)
  BY ONLY <1>3
<1>6. /\ KeyCells(cut, h, cut.len) /\ ObjGood(N, cut, top)
  BY ONLY <1>3, <1>5, KeepsGood, KeyCells(ring, g, ring.len)
<1>7. /\ cut.is[k] \in Keys /\ Paired(cut, h, cut.len, top)
      /\ Apart(h, cut.len, k) /\ Apart(h, cut.len, v)
  BY ONLY <1>5, ApartDrawn, Apart(g, ring.len, k), Apart(g, ring.len, v), ring.is[k] \in Keys DEF Keeps
<1>8. CASE v \in 2 .. top
  <2>1. ObjGood(N, ObjAdd(cut, k, v), top)
    BY ONLY <1>3, <1>6, <1>7, <1>8, ObjGrowsGood, N \in Nat, top \in 0 .. N, k \in 2 .. top, k # v, 0 \in Nat
  <2>. QED
    BY ONLY <1>4, <2>1
<1>9. CASE v = NULL
  <2>1. ObjAdd(cut, k, v) = cut
    BY ONLY <1>9 DEF ObjAdd
  <2>. QED
    BY ONLY <1>4, <1>6, <2>1
<1>. QED
  BY <1>8, <1>9

LEMMA ObjReplaceGood ==
    ASSUME NEW N \in Nat, NEW ring \in Rings(N), NEW g, NEW top \in 0 .. N,
           Paired(ring, g, ring.len, top), KeyCells(ring, g, ring.len),
           NEW k \in 2 .. top, NEW v \in 2 .. top, k # v, ring.is[k] \in Keys,
           Apart(g, ring.len, k), Apart(g, ring.len, v)
    PROVE  ObjGood(N, ObjReplace(ring, k, v), top)
<1> DEFINE made == ObjReplace(ring, k, v)
           hits == Hits(ring, g, ring.is[k])
<1>1. /\ made \in Rings(N) /\ made.len = ring.len /\ Paired(made, g, ring.len, top)
      /\ hits = {} => made = ring
      /\ hits # {} => Refills(ring, made, g, k, v)
  BY ONLY ObjReplaced, N \in Nat, ring \in Rings(N), top \in 0 .. N, k \in 2 .. top, v \in 2 .. top,
          k # v, Paired(ring, g, ring.len, top), Apart(g, ring.len, k), Apart(g, ring.len, v)
<1>. HIDE DEF made, hits
<1>2. KeyCells(made, g, ring.len)
  <2>1. CASE hits = {}
    BY ONLY <1>1, <2>1, KeyCells(ring, g, ring.len)
  <2>2. CASE hits # {}
    <3> SUFFICES ASSUME NEW i \in 1 .. ring.len
                 PROVE  made.is[g[2 * i]] \in Keys
      BY DEF KeyCells
    <3>1. made.is[g[2 * i]] = PairAt(made, g[2 * i])[1]
      BY ONLY DEF PairAt
    <3>2. ring.is[g[2 * i]] = PairAt(ring, g[2 * i])[1]
      BY ONLY DEF PairAt
    <3>3. ring.is[g[2 * i]] \in Keys
      BY DEF KeyCells
    <3>. QED
      BY ONLY <1>1, <2>2, <3>1, <3>2, <3>3, i \in 1 .. ring.len, ring.is[k] \in Keys DEF Refills
  <2>. QED
    BY <2>1, <2>2
<1>3. ObjGood(N, made, top)
  BY ONLY <1>1, <1>2 DEF ObjGood
<1>. QED
  BY ONLY <1>3 DEF made

-----------------------------------------------------------------------------
(* A cell taken from the pool is above those of the ring. *)

Filled(N, ring, made, c, w) ==
    /\ made \in Rings(N) /\ made.len = ring.len /\ made.is[c] = w
    /\ \A d \in 1 .. N : d # c => made.is[d] = ring.is[d]

LEMMA MadeSound ==
    ASSUME NEW N \in Nat, NEW ring \in Rings(N), NEW g, NEW n \in Nat, NEW top \in Nat,
           Sound(ring, g, n, top), NEW c \in 1 .. N, top < c, NEW w \in What
    PROVE  LET made == Made(ring, c, w)
           IN  /\ Filled(N, ring, made, c, w)
               /\ Sound(made, g, n, c) /\ \A i \in 1 .. n : g[i] # c
<1> DEFINE made == Made(ring, c, w)
<1>1. /\ made \in Rings(N) /\ made.len = ring.len /\ made.ptr = ring.ptr /\ made.next = ring.next
      /\ made.is = [ring.is EXCEPT ![c] = w]
  BY DEF Made, Rings
<1>2. made.is[c] = w /\ \A d \in 1 .. N : d # c => made.is[d] = ring.is[d]
  <2>1. ring.is \in [1 .. N -> What]
    BY DEF Rings
  <2>. QED
    BY ONLY <1>1, <2>1, c \in 1 .. N
<1>. HIDE DEF made
<1>3. ASSUME n > 0
      PROVE  Sound(made, g, n, c) /\ \A i \in 1 .. n : g[i] # c
  <2>1. /\ Cycle(ring.next, g, n) /\ g[0] = ring.ptr
        /\ \A i \in 0 .. n : g[i] \in 2 .. top
    BY ONLY <1>3, Sound(ring, g, n, top) DEF Sound
  <2>2. \A i \in 0 .. n : g[i] \in 2 .. c /\ g[i] # c
    BY ONLY <2>1, top \in Nat, c \in 1 .. N, N \in Nat, top < c
  <2>3. \A i \in 1 .. n : g[i] # c
    BY ONLY <2>2
  <2>4. Cycle(made.next, g, n) /\ g[0] = made.ptr
    BY ONLY <1>1, <2>1
  <2>. QED
    BY ONLY <2>2, <2>3, <2>4 DEF Sound
<1>4. ASSUME ~ (n > 0)
      PROVE  Sound(made, g, n, c) /\ \A i \in 1 .. n : g[i] # c
  <2>1. \A i \in 1 .. n : g[i] # c
    BY ONLY <1>4, n \in Nat
  <2>. QED
    BY ONLY <1>4, <2>1 DEF Sound
<1>5. Filled(N, ring, made, c, w)
  BY ONLY <1>1, <1>2 DEF Filled
<1>. QED
  BY ONLY <1>3, <1>4, <1>5 DEF made

LEMMA MadePaired ==
    ASSUME NEW N \in Nat, NEW ring \in Rings(N), NEW g, NEW top \in Nat,
           Paired(ring, g, ring.len, top), KeyCells(ring, g, ring.len),
           NEW c \in 1 .. N, top < c, NEW w \in What
    PROVE  LET made == Made(ring, c, w)
           IN  /\ Filled(N, ring, made, c, w)
               /\ Paired(made, g, made.len, c) /\ KeyCells(made, g, made.len)
               /\ Apart(g, made.len, c)
<1> DEFINE made == Made(ring, c, w)
           n == 2 * ring.len
<1>0. ring.len \in Nat
  BY DEF Rings
<1>1. n \in Nat
  BY <1>0
<1>2. Sound(ring, g, n, top)
  BY DEF Paired
<1>. HIDE DEF n
<1>3. /\ Filled(N, ring, made, c, w)
      /\ Sound(made, g, n, c) /\ \A i \in 1 .. n : g[i] # c
  BY ONLY MadeSound, <1>1, <1>2, N \in Nat, ring \in Rings(N), top \in Nat, c \in 1 .. N, top < c,
          w \in What
<1>. HIDE DEF made
<1>4. Paired(made, g, made.len, c) /\ Apart(g, made.len, c)
  BY ONLY <1>3 DEF Paired, Apart, n, Filled
<1>6. made.len = ring.len /\ \A d \in 1 .. N : d # c => made.is[d] = ring.is[d]
  BY ONLY <1>3 DEF Filled
<1>5. KeyCells(made, g, made.len)
  <2> SUFFICES ASSUME NEW i \in 1 .. ring.len
               PROVE  made.is[g[2 * i]] \in Keys
    BY <1>6 DEF KeyCells
  <2> DEFINE j == 2 * i
  <2>1. j \in 1 .. n /\ j \in 0 .. n /\ n > 0
    BY ONLY <1>0, i \in 1 .. ring.len DEF n
  <2>2. ring.is[g[j]] \in Keys
    BY DEF KeyCells
  <2>. HIDE DEF j
  <2>3. \A q \in 0 .. n : g[q] \in 2 .. c
    BY ONLY <1>3, <2>1 DEF Sound
  <2>4. g[j] \in 1 .. N
    BY ONLY <2>3, <2>1, c \in 1 .. N, N \in Nat
  <2>5. g[j] # c
    BY ONLY <1>3, <2>1
  <2>6. made.is[g[j]] \in Keys
    BY ONLY <1>6, <2>2, <2>4, <2>5
  <2>. QED
    BY ONLY <2>6 DEF j
<1>. QED
  BY ONLY <1>3, <1>4, <1>5 DEF made

-----------------------------------------------------------------------------
(* The invariant under every step. *)

LEMMA Within ==
    ASSUME IInv
    PROVE  /\ kind \in {"arr", "obj"} /\ Cells \in Nat /\ cur \in Cell /\ cur \in 0 .. Cells
           /\ r \in Rings(Cells) /\ r.len \in Nat /\ Index \subseteq Nat
<1>1. kind \in {"arr", "obj"} /\ Cells \in Nat /\ cur \in Cell /\ r \in Rings(Cells)
  BY CellsNat DEF IInv, TypeInv, Cells
<1>2. cur \in 0 .. Cells /\ r.len \in Nat
  BY <1>1 DEF Cell, Rings
<1>3. Index \subseteq Nat
  <2>1. ObjCells \div 2 \in Int
    BY CellsNat
  <2>2. ArrCells - 1 \in Int
    BY CellsNat
  <2>. QED
    BY <2>1, <2>2 DEF Index
<1>. QED
  BY <1>1, <1>2, <1>3

LEMMA ModifiedGood ==
    ASSUME IInv, NEW type, NEW ring, Modified(type, ring),
           type = "arr" => ArrGood(Cells, ring, cur), type = "obj" => ObjGood(Cells, ring, cur)
    PROVE  IInv'
<1>1. /\ kind = type /\ kind' = kind /\ Dropped /\ cur' = cur /\ r' = ring
  BY ONLY Modified(type, ring) DEF Modified
<1>2. /\ kind \in {"arr", "obj"} /\ cur \in Cell
  BY Within
<1>3. cur' \in Cell
  BY ONLY <1>1, <1>2
<1>4. /\ kind = "arr" => ArrGood(Cells, r', cur')
      /\ kind = "obj" => ObjGood(Cells, r', cur')
  BY ONLY <1>1, type = "arr" => ArrGood(Cells, ring, cur), type = "obj" => ObjGood(Cells, ring, cur)
<1>. QED
  BY ONLY <1>1, <1>2, <1>3, <1>4, Settled

LEMMA ArrCase ==
    ASSUME IInv, kind = "arr", ArrNext
    PROVE  IInv'
<1>1. /\ Cells \in Nat /\ cur \in Cell /\ cur \in 0 .. Cells
      /\ r \in Rings(Cells) /\ r.len \in Nat /\ Index \subseteq Nat
  BY Within
<1>2. TypeInv
  BY DEF IInv
<1>3. PICK g : Sound(r, g, r.len, cur)
  BY DEF IInv, ArrInv
<1>4. ArrGood(Cells, r, cur)
  BY <1>1, <1>3 DEF ArrGood
<1>5. ASSUME NEW v \in LooseVal, NEW i \in Index
      PROVE  /\ ArrGood(Cells, ArrInsert(r, v, i), cur) /\ ArrGood(Cells, ArrAppend(r, v), cur)
             /\ ArrGood(Cells, ArrPrepend(r, v), cur) /\ ArrGood(Cells, ArrReplace(r, i, v), cur)
  <2>1. v \in Loose /\ i \in Nat
    BY <1>1 DEF LooseVal
  <2>2. v \in 2 .. cur /\ \A q \in 1 .. r.len : g[q] # v
    BY ONLY <1>2, <1>3, <2>1, LooseArr, kind = "arr"
  <2>. QED
    BY ONLY <1>1, <1>3, <2>1, <2>2, ArrGrowsGood
<1>6. ASSUME NEW i \in Index, NEW n \in Index
      PROVE  /\ ArrGood(Cells, ArrRemoveRange(r, i, n), cur) /\ ArrGood(Cells, ArrRemove(r, i), cur)
             /\ ArrGood(Cells, ArrRemoveFirst(r), cur) /\ ArrGood(Cells, ArrRemoveLast(r), cur)
             /\ ArrGood(Cells, ArrClear(r), cur) /\ ArrGood(Cells, ArrRotate(r, i), cur)
  <2>1. i \in Nat /\ n \in Nat
    BY <1>1
  <2>. QED
    BY ONLY <1>1, <1>3, <2>1, ArrShrinksGood
<1>7. 0 \in Index
  BY CellsNat DEF Index
<1>8. ASSUME NEW ring, Modified("arr", ring), ArrGood(Cells, ring, cur)
      PROVE  IInv'
  BY ONLY <1>8, IInv, ModifiedGood
<1>9. ASSUME NEW v \in LooseVal, NEW i \in Index, Insert(v, i) \/ Replace(i, v)
      PROVE  IInv'
  BY <1>5, <1>8, <1>9 DEF Insert, Replace
<1>10. ASSUME NEW v \in LooseVal \cup {NULL}, AppendVal(v) \/ Prepend(v)
       PROVE  IInv'
  <2>1. CASE v \in LooseVal
    BY <1>5, <1>7, <1>8, <1>10, <2>1 DEF AppendVal, Prepend
  <2>2. CASE v = NULL
    <3>1. ArrAppend(r, v) = r /\ ArrPrepend(r, v) = r
      BY <2>2 DEF ArrAppend, ArrPrepend
    <3>. QED
      BY <1>4, <1>8, <1>10, <3>1 DEF AppendVal, Prepend
  <2>. QED
    BY <2>1, <2>2
<1>11. ASSUME NEW i \in Index, Remove(i) \/ Rotate(i) \/ \E n \in Index : RemoveRange(i, n)
       PROVE  IInv'
  <2>1. CASE Remove(i) \/ Rotate(i)
    BY <1>6, <1>8, <2>1 DEF Remove, Rotate
  <2>2. ASSUME NEW n \in Index, RemoveRange(i, n)
        PROVE  IInv'
    BY <1>6, <1>8, <2>2 DEF RemoveRange
  <2>. QED
    BY <1>11, <2>1, <2>2
<1>12. ASSUME RemoveFirst \/ RemoveLast \/ Clear
       PROVE  IInv'
  BY <1>6, <1>7, <1>8, <1>12 DEF RemoveFirst, RemoveLast, Clear
<1>13. ASSUME AddNew
       PROVE  IInv'
  <2> DEFINE c == cur + 1
             made == Made(r, c, c)
  <2>1. /\ cur < Cells /\ cur' = c /\ r' = ArrAppend(made, c) /\ Dropped /\ kind' = kind
    BY <1>13 DEF AddNew
  <2>2. cur \in Nat /\ c \in 1 .. Cells /\ cur < c /\ c \in What /\ c \in 2 .. c /\ c \in 0 .. Cells
    BY ONLY <1>1, <2>1 DEF What, Cell
  <2>. HIDE DEF c
  <2>3. /\ Filled(Cells, r, made, c, c)
        /\ Sound(made, g, r.len, c) /\ \A i \in 1 .. r.len : g[i] # c
    BY ONLY <1>1, <1>3, <2>2, MadeSound
  <2>. HIDE DEF made
  <2>4. made \in Rings(Cells) /\ made.len = r.len
    BY ONLY <2>3 DEF Filled
  <2>5. Sound(made, g, made.len, c) /\ \A i \in 1 .. made.len : g[i] # c
    BY ONLY <2>3, <2>4
  <2>6. ArrGood(Cells, ArrAppend(made, c), c)
    BY ONLY <1>1, <2>2, <2>4, <2>5, ArrGrowsGood, 0 \in Nat
  <2>7. cur' \in Cell
    BY ONLY <2>1, <2>2 DEF Cell
  <2>8. ArrGood(Cells, r', cur')
    BY ONLY <2>1, <2>6
  <2>9. kind # "obj"
    BY ONLY kind = "arr"
  <2>. QED
    BY ONLY <2>1, <2>7, <2>8, <2>9, kind = "arr", Settled
<1>. QED
  BY <1>9, <1>10, <1>11, <1>12, <1>13 DEF ArrNext

\* At most one pair of that key: the guard RemoveStr has of a caller who
\* drops the iterator.
LEMMA FewHits ==
    ASSUME NEW n \in Nat, NEW D \in SUBSET (1 .. n), Cardinality(D) <= 1, NEW i \in D, NEW j \in D
    PROVE  i = j
<1> SUFFICES ASSUME i # j
             PROVE  FALSE
  OBVIOUS
<1>1. IsFiniteSet(1 .. n)
  BY FS_Interval
<1>2. IsFiniteSet(D)
  BY ONLY <1>1, FS_Subset, D \in SUBSET (1 .. n)
<1>3. IsFiniteSet({i}) /\ Cardinality({i}) = 1
  BY ONLY FS_Singleton
<1>4. Cardinality({i} \cup {j}) = 2
  BY ONLY <1>3, FS_AddElement, i # j
<1>5. {i} \cup {j} \in SUBSET D
  OBVIOUS
<1>6. Cardinality({i} \cup {j}) <= Cardinality(D)
  BY ONLY <1>2, <1>5, FS_Subset
<1>7. Cardinality(D) \in Nat
  BY ONLY <1>2, FS_CardinalityType
<1>. QED
  BY ONLY <1>4, <1>6, <1>7, Cardinality(D) <= 1

LEMMA SingleHit ==
    ASSUME NEW N \in Nat, NEW ring \in Rings(N), NEW g, NEW top \in 0 .. N,
           Paired(ring, g, ring.len, top), NEW k,
           Cardinality({i \in 1 .. ring.len : ring.is[Hop(ring, ring.ptr, 2 * i)] = k}) <= 1
    PROVE  Single(ring, g, k)
<1> DEFINE D == Hits(ring, g, k)
           along == {i \in 1 .. ring.len : ring.is[Hop(ring, ring.ptr, 2 * i)] = k}
<1>1. ring.len \in Nat
  BY DEF Rings
<1>a. along = D
  BY ONLY HitsAlong, N \in Nat, ring \in Rings(N), top \in 0 .. N, Paired(ring, g, ring.len, top)
<1>b. Cardinality(along) <= 1
  OBVIOUS
<1>. HIDE DEF along
<1>2. Cardinality(D) <= 1
  BY ONLY <1>a, <1>b
<1>3. D \in SUBSET (1 .. ring.len) /\ \A i \in 1 .. ring.len : ring.is[g[2 * i]] = k => i \in D
  BY DEF Hits
<1>. HIDE DEF D
<1>4. \A i, j \in D : i = j
  BY ONLY <1>1, <1>2, <1>3, FewHits
<1>. QED
  BY ONLY <1>3, <1>4 DEF Single

LEMMA LoosePair ==
    ASSUME IInv, kind = "obj", NEW g, Paired(r, g, r.len, cur)
    PROVE  /\ \A k \in LooseKey : /\ k \in 2 .. cur /\ r.is[k] \in Keys /\ Apart(g, r.len, k)
                                  /\ \A v \in LooseVal : k # v
           /\ \A v \in LooseVal : v \in 2 .. cur /\ Apart(g, r.len, v)
<1>1. TypeInv
  BY DEF IInv
<1>2. \A c \in Loose : c \in 2 .. cur /\ Apart(g, r.len, c)
  BY <1>1, LooseObj
<1>3. Keys \cap Cell = {}
  BY KeysAssumption, CellsNat DEF Cell, Cells
<1>. QED
  BY <1>2, <1>3 DEF LooseKey, LooseVal

LEMMA ObjPairCase ==
    ASSUME IInv, kind = "obj", NEW k \in LooseKey,
           \/ \E v \in LooseVal : Add(k, v) \/ ReplacePair(k, v) \/ \E i \in Index : InsertPair(k, v, i)
           \/ \E v \in LooseVal \cup {NULL} : Put(k, v)
    PROVE  IInv'
<1>1. /\ Cells \in Nat /\ cur \in 0 .. Cells
      /\ r \in Rings(Cells) /\ r.len \in Nat /\ Index \subseteq Nat
  BY Within
<1>2. PICK g : Paired(r, g, r.len, cur) /\ KeyCells(r, g, r.len)
  BY DEF IInv, ObjInv
<1>3. k \in 2 .. cur /\ r.is[k] \in Keys /\ Apart(g, r.len, k)
  BY ONLY <1>2, LoosePair, IInv, kind = "obj", k \in LooseKey
<1>4. ASSUME NEW v \in LooseVal
      PROVE  v \in 2 .. cur /\ Apart(g, r.len, v) /\ k # v
  BY ONLY <1>2, <1>4, LoosePair, IInv, kind = "obj", k \in LooseKey
<1>5. ASSUME NEW ring, Modified("obj", ring), ObjGood(Cells, ring, cur)
      PROVE  IInv'
  BY ONLY <1>5, IInv, ModifiedGood
<1>6. ASSUME NEW v \in LooseVal, NEW i \in Nat
      PROVE  /\ ObjGood(Cells, ObjAdd(r, k, v), cur) /\ ObjGood(Cells, ObjInsert(r, k, v, i), cur)
             /\ ObjGood(Cells, ObjReplace(r, k, v), cur)
  <2>1. v \in 2 .. cur /\ Apart(g, r.len, v) /\ k # v
    BY <1>4
  <2>2. ObjGood(Cells, ObjAdd(r, k, v), cur) /\ ObjGood(Cells, ObjInsert(r, k, v, i), cur)
    BY ONLY <1>1, <1>2, <1>3, <2>1, i \in Nat, ObjGrowsGood
  <2>3. ObjGood(Cells, ObjReplace(r, k, v), cur)
    BY ONLY <1>1, <1>2, <1>3, <2>1, ObjReplaceGood
  <2>. QED
    BY ONLY <2>2, <2>3
<1>7. ASSUME NEW v \in LooseVal \cup {NULL}
      PROVE  ObjGood(Cells, ObjPut(r, k, v), cur)
  <2>1. v \in (2 .. cur) \cup {NULL} /\ Apart(g, r.len, v) /\ k # v
    <3>1. CASE v \in LooseVal
      BY <1>4, <3>1
    <3>2. CASE v = NULL
      <4>1. Apart(g, r.len, NULL)
        <5> SUFFICES ASSUME NEW i \in 1 .. 2 * r.len
                     PROVE  g[i] # NULL
          BY DEF Apart
        <5> DEFINE n == 2 * r.len
        <5>1. n \in Nat /\ n > 0 /\ i \in 0 .. n
          BY ONLY <1>1, i \in 1 .. 2 * r.len
        <5>2. Sound(r, g, n, cur)
          BY <1>2 DEF Paired
        <5>. HIDE DEF n
        <5>3. \A q \in 0 .. n : g[q] \in 2 .. cur
          BY ONLY <5>1, <5>2 DEF Sound
        <5>. QED
          BY <5>1, <5>3 DEF NULL
      <4>2. k # NULL
        BY <1>3 DEF NULL
      <4>. QED
        BY <3>2, <4>1, <4>2
    <3>. QED
      BY <3>1, <3>2
  <2>. QED
    BY ONLY <1>1, <1>2, <1>3, <2>1, ObjPutGood
<1>8. ASSUME NEW v \in LooseVal, Add(k, v) \/ ReplacePair(k, v) \/ \E i \in Index : InsertPair(k, v, i)
      PROVE  IInv'
  <2>1. CASE Add(k, v) \/ ReplacePair(k, v)
    BY <1>5, <1>6, <2>1, 0 \in Nat DEF Add, ReplacePair
  <2>2. ASSUME NEW i \in Index, InsertPair(k, v, i)
        PROVE  IInv'
    BY <1>1, <1>5, <1>6, <2>2 DEF InsertPair
  <2>. QED
    BY <1>8, <2>1, <2>2
<1>9. ASSUME NEW v \in LooseVal \cup {NULL}, Put(k, v)
      PROVE  IInv'
  BY <1>5, <1>7, <1>9 DEF Put
<1>. QED
  BY <1>8, <1>9

LEMMA ObjKeyCase ==
    ASSUME IInv, kind = "obj",
           \/ \E k \in Keys : RemoveKey(k) \/ (Once(k) /\ RemoveStr(k))
           \/ \E i \in Index : RotateObj(i)
           \/ ClearObj
    PROVE  IInv'
<1>1. /\ Cells \in Nat /\ cur \in 0 .. Cells
      /\ r \in Rings(Cells) /\ r.len \in Nat /\ Index \subseteq Nat
  BY Within
<1>2. PICK g : Paired(r, g, r.len, cur) /\ KeyCells(r, g, r.len)
  BY DEF IInv, ObjInv
<1>3. ASSUME NEW ring, Modified("obj", ring), ObjGood(Cells, ring, cur)
      PROVE  IInv'
  BY ONLY <1>3, IInv, ModifiedGood
<1>4. ASSUME NEW k, NEW i \in Nat
      PROVE  /\ ObjGood(Cells, ObjRemove(r, k), cur)
             /\ Single(r, g, k) => ObjGood(Cells, ObjRemoveStr(r, k), cur)
             /\ ObjGood(Cells, ObjClear(r), cur) /\ ObjGood(Cells, ObjRotate(r, i), cur)
  BY ONLY <1>1, <1>2, <1>4, ObjShrinksGood
<1>5. ASSUME NEW k \in Keys, RemoveKey(k)
      PROVE  IInv'
  BY <1>3, <1>4, <1>5, 0 \in Nat DEF RemoveKey
<1>6. ASSUME NEW k \in Keys, Once(k), RemoveStr(k)
      PROVE  IInv'
  <2>1. Cardinality({i \in 1 .. r.len : r.is[Hop(r, r.ptr, 2 * i)] = k}) <= 1
    BY <1>6 DEF Once, KeyOf
  <2>2. Single(r, g, k)
    BY ONLY <1>1, <1>2, <2>1, SingleHit
  <2>. QED
    BY <1>3, <1>4, <1>6, <2>2, 0 \in Nat DEF RemoveStr
<1>7. ASSUME NEW i \in Index, RotateObj(i)
      PROVE  IInv'
  BY <1>1, <1>3, <1>4, <1>7 DEF RotateObj
<1>8. ASSUME ClearObj
      PROVE  IInv'
  BY <1>3, <1>4, <1>8, 0 \in Nat DEF ClearObj
<1>. QED
  BY <1>5, <1>6, <1>7, <1>8

LEMMA PairedHigher ==
    ASSUME NEW ring, NEW g, NEW m, NEW top \in Nat, NEW up \in Nat, top <= up, Paired(ring, g, m, top)
    PROVE  Paired(ring, g, m, up)
<1>1. \A x \in 2 .. top : x \in 2 .. up
  BY ONLY top \in Nat, up \in Nat, top <= up
<1>. QED
  BY <1>1 DEF Paired, Sound

\* A key taken from the pool and a value, taken after it or loose before,
\* added at the end.
LEMMA ObjNewCase ==
    ASSUME IInv, kind = "obj",
           \/ \E k \in Keys : AddNewPair(k)
           \/ \E k \in Keys, v \in LooseVal : AddVal(k, v)
    PROVE  IInv'
<1>1. /\ Cells \in Nat /\ cur \in Cell /\ cur \in 0 .. Cells /\ cur \in Nat
      /\ r \in Rings(Cells) /\ r.len \in Nat
  BY Within DEF Cell
<1>2. PICK g : Paired(r, g, r.len, cur) /\ KeyCells(r, g, r.len)
  BY DEF IInv, ObjInv
<1> DEFINE c == cur + 1
           d == cur + 2
<1>3. ASSUME NEW k \in Keys, cur + 2 <= Cells
      PROVE  LET ring == Made(r, c, k)
             IN  /\ Filled(Cells, r, ring, c, k)
                 /\ Paired(ring, g, ring.len, c) /\ KeyCells(ring, g, ring.len)
                 /\ Apart(g, ring.len, c)
  <2>1. c \in 1 .. Cells /\ cur < c
    BY ONLY <1>1, <1>3
  <2>2. k \in What
    BY DEF What
  <2>. QED
    BY ONLY <1>1, <1>2, <2>1, <2>2, MadePaired
<1>4. ASSUME cur + 2 <= Cells
      PROVE  /\ c \in 1 .. Cells /\ c \in Nat /\ c \in 2 .. d /\ d \in 2 .. d /\ c < d /\ c # d /\ c <= d
             /\ d \in 1 .. Cells /\ d \in Nat /\ d \in 0 .. Cells /\ d \in What /\ d \in Cell
             /\ \A x \in 2 .. cur : x \in 2 .. d /\ x # c
  BY ONLY <1>1, <1>4 DEF What, Cell
<1>. HIDE DEF c, d
<1>5. ASSUME cur' = d, d \in Cell, Dropped, kind' = kind, ObjGood(Cells, r', d)
      PROVE  IInv'
  <2>1. kind # "arr" /\ kind \in {"arr", "obj"}
    BY ONLY kind = "obj"
  <2>2. cur' \in Cell /\ ObjGood(Cells, r', cur')
    BY ONLY <1>5
  <2>. QED
    BY ONLY <1>5, <2>1, <2>2, Settled
<1>6. ASSUME NEW k \in Keys, AddNewPair(k)
      PROVE  IInv'
  <2> DEFINE one == Made(r, c, k)
             two == Made(one, d, d)
  <2>1. /\ cur + 2 <= Cells /\ cur' = d /\ r' = ObjAdd(two, c, d) /\ Dropped /\ kind' = kind
    BY <1>6 DEF AddNewPair, c, d
  <2>2. /\ Filled(Cells, r, one, c, k)
        /\ Paired(one, g, one.len, c) /\ KeyCells(one, g, one.len) /\ Apart(g, one.len, c)
    BY ONLY <1>3, <2>1, k \in Keys
  <2>. HIDE DEF one
  <2>3. one \in Rings(Cells) /\ one.is[c] = k
    BY ONLY <2>2 DEF Filled
  <2>4. /\ Filled(Cells, one, two, d, d)
        /\ Paired(two, g, two.len, d) /\ KeyCells(two, g, two.len) /\ Apart(g, two.len, d)
    BY ONLY <1>1, <1>4, <2>1, <2>2, <2>3, MadePaired
  <2>. HIDE DEF two
  <2>5. two \in Rings(Cells) /\ two.len = one.len /\ two.is[c] \in Keys
    BY ONLY <1>4, <2>1, <2>3, <2>4, k \in Keys DEF Filled
  <2>6. Apart(g, two.len, c)
    BY ONLY <2>2, <2>5
  <2>7. ObjGood(Cells, ObjAdd(two, c, d), d)
    BY ONLY <1>1, <1>4, <2>1, <2>4, <2>5, <2>6, ObjGrowsGood, 0 \in Nat
  <2>. QED
    BY ONLY <1>4, <1>5, <2>1, <2>7
<1>7. ASSUME NEW k \in Keys, NEW v \in LooseVal, AddVal(k, v)
      PROVE  IInv'
  <2> DEFINE one == Made(r, c, k)
  <2>1. /\ cur + 2 <= Cells /\ cur' = d /\ r' = ObjAdd(one, c, v) /\ Dropped /\ kind' = kind
    BY <1>7 DEF AddVal, c, d
  <2>2. /\ Filled(Cells, r, one, c, k)
        /\ Paired(one, g, one.len, c) /\ KeyCells(one, g, one.len) /\ Apart(g, one.len, c)
    BY ONLY <1>3, <2>1, k \in Keys
  <2>. HIDE DEF one
  <2>3. one \in Rings(Cells) /\ one.is[c] \in Keys /\ one.len = r.len
    BY ONLY <2>2, k \in Keys DEF Filled
  <2>4. v \in 2 .. cur /\ Apart(g, r.len, v)
    BY ONLY <1>2, LoosePair, IInv, kind = "obj", v \in LooseVal
  <2>5. v \in 2 .. d /\ c # v
    BY ONLY <1>4, <2>1, <2>4
  <2>6. Paired(one, g, one.len, d)
    BY ONLY <1>4, <2>1, <2>2, PairedHigher
  <2>7. Apart(g, one.len, v)
    BY ONLY <2>3, <2>4
  <2>8. ObjGood(Cells, ObjAdd(one, c, v), d)
    BY ONLY <1>1, <1>4, <2>1, <2>2, <2>3, <2>5, <2>6, <2>7, ObjGrowsGood, 0 \in Nat
  <2>. QED
    BY ONLY <1>4, <1>5, <2>1, <2>8
<1>. QED
  BY <1>6, <1>7

\* The iterator moves, the container stays.
LEMMA ItMoves ==
    ASSUME IInv, UNCHANGED <<kind, r, cur>>, it' \in Iterators(Cells), it'.idx <= it'.max, Counted',
           kind = "arr" => \E g : Sound(r, g, r.len, cur) /\ ArrAt(g)',
           kind = "obj" => \E g : Paired(r, g, r.len, cur) /\ KeyCells(r, g, r.len) /\ ObjAt(g)'
    PROVE  IInv'
<1>1. Cells' = Cells /\ Cell' = Cell
  BY DEF Cells, Cell
<1>2. TypeInv'
  BY <1>1 DEF IInv, TypeInv
<1>3. kind = "arr" => ArrInv'
  BY DEF ArrInv
<1>4. kind = "obj" => ObjInv'
  BY DEF ObjInv
<1>. QED
  BY <1>2, <1>3, <1>4 DEF IInv

LEMMA IterateCase ==
    ASSUME IInv, Iterate
    PROVE  IInv'
<1>1. /\ kind \in {"arr", "obj"} /\ Cells \in Nat /\ cur \in 0 .. Cells
      /\ r \in Rings(Cells) /\ r.len \in Nat
  BY Within
<1>2. it' = IterInit(r) /\ place' = 0 /\ plain' = TRUE /\ UNCHANGED <<kind, r, cur>>
  BY DEF Iterate
<1>3. /\ it'.idx = 0 /\ it'.max = r.len /\ it'.pre = 0
      /\ it'.cur = IF r.len > 0 THEN r.ptr ELSE 0
  BY ONLY <1>2 DEF IterInit, NULL
<1>4. it' \in Iterators(Cells) /\ it'.idx <= it'.max
  <2>1. r.ptr \in 0 .. Cells /\ 0 \in 0 .. Cells /\ 0 \in Nat
    BY ONLY <1>1 DEF Rings
  <2>2. it' \in Iterators(Cells)
    BY ONLY <1>1, <1>2, <2>1 DEF IterInit, NULL, Iterators
  <2>. QED
    BY ONLY <1>1, <1>3, <2>2
<1>5. ASSUME kind = "arr"
      PROVE  \E g : Sound(r, g, r.len, cur) /\ ArrAt(g)'
  <2>1. PICK g : Sound(r, g, r.len, cur)
    BY <1>5 DEF IInv, ArrInv
  <2>2. ArrAt(g)'
    BY ONLY <1>1, <1>2, <1>3, <2>1 DEF ArrAt, Sound
  <2>. QED
    BY ONLY <2>1, <2>2
<1>6. ASSUME kind = "obj"
      PROVE  \E g : Paired(r, g, r.len, cur) /\ KeyCells(r, g, r.len) /\ ObjAt(g)'
  <2>1. PICK g : Paired(r, g, r.len, cur) /\ KeyCells(r, g, r.len)
    BY <1>6 DEF IInv, ObjInv
  <2>2. r.len > 0 => g[0] = r.ptr
    BY ONLY <1>1, <2>1 DEF Paired, Sound
  <2>3. ObjAt(g)'
    BY ONLY <1>1, <1>2, <1>3, <2>2 DEF ObjAt
  <2>. QED
    BY ONLY <2>1, <2>3
<1>7. Counted'
  BY ONLY <1>2, <1>3 DEF Counted
<1>. QED
  BY ONLY <1>2, <1>4, <1>5, <1>6, <1>7, IInv, ItMoves

\* The place behind place p of n members.
Behind(p, n) == IF p = n THEN 1 ELSE p + 1

LEMMA ArrStep ==
    ASSUME NEW N \in Nat, NEW ring \in Rings(N), NEW g, NEW top \in 0 .. N,
           Sound(ring, g, ring.len, top), ring.len > 0, NEW p \in 0 .. ring.len
    PROVE  LET q == Behind(p, ring.len)
           IN  /\ q \in 1 .. ring.len /\ ring.next[g[p]] = g[q] /\ g[q - 1] = g[p]
               /\ g[q] \in 0 .. N /\ Hop(ring, ring.ptr, q) = g[q]
<1> DEFINE n == ring.len
           q == Behind(p, n)
<1>1. n \in Nat /\ n > 0 /\ p \in 0 .. n
  BY DEF Rings
<1>2. /\ g[0] = ring.ptr /\ g[n] = ring.ptr
      /\ \A i \in 0 .. n : g[i] \in 1 .. N /\ Hop(ring, ring.ptr, i) = g[i]
      /\ \A i \in 0 .. n - 1 : ring.next[g[i]] = g[i + 1]
  BY ONLY <1>1, SoundArr, N \in Nat, ring \in Rings(N), top \in 0 .. N, Sound(ring, g, ring.len, top)
<1>. HIDE DEF n
<1>3. q \in 1 .. n /\ q \in 0 .. n
  BY ONLY <1>1 DEF Behind
<1>4. ring.next[g[p]] = g[q] /\ g[q - 1] = g[p]
  <2>1. CASE p = n
    <3>1. q = 1 /\ q - 1 = 0 /\ 0 \in 0 .. n - 1 /\ 0 + 1 = 1
      BY ONLY <1>1, <2>1 DEF Behind
    <3>2. ring.next[g[0]] = g[1] /\ g[0] = g[n]
      BY ONLY <1>2, <3>1
    <3>. QED
      BY ONLY <2>1, <3>1, <3>2
  <2>2. CASE p # n
    <3>1. q = p + 1 /\ q - 1 = p /\ p \in 0 .. n - 1
      BY ONLY <1>1, <2>2 DEF Behind
    <3>. QED
      BY ONLY <1>2, <3>1
  <2>. QED
    BY ONLY <2>1, <2>2
<1>5. g[q] \in 0 .. N /\ Hop(ring, ring.ptr, q) = g[q]
  <2>1. g[q] \in 1 .. N /\ Hop(ring, ring.ptr, q) = g[q]
    BY ONLY <1>2, <1>3
  <2>. QED
    BY ONLY <2>1, N \in Nat
<1>. QED
  BY ONLY <1>3, <1>4, <1>5 DEF n

LEMMA ObjStep ==
    ASSUME NEW N \in Nat, NEW ring \in Rings(N), NEW g, NEW top \in 0 .. N,
           Paired(ring, g, ring.len, top), ring.len > 0, NEW p \in 0 .. ring.len
    PROVE  LET q == Behind(p, ring.len)
           IN  /\ q \in 1 .. ring.len /\ ring.next[ring.next[g[2 * p]]] = g[2 * q]
               /\ g[2 * q - 2] = g[2 * p]
               /\ g[2 * q] \in 0 .. N /\ Hop(ring, ring.ptr, 2 * q) = g[2 * q]
<1> DEFINE n == ring.len
           q == Behind(p, n)
<1>1. n \in Nat /\ n > 0 /\ p \in 0 .. n
  BY DEF Rings
<1>2. /\ g[0] = ring.ptr /\ g[2 * n] = ring.ptr
      /\ \A i \in 0 .. n : g[2 * i] \in 1 .. N /\ Hop(ring, ring.ptr, 2 * i) = g[2 * i]
      /\ \A i \in 0 .. n - 1 : ring.next[ring.next[g[2 * i]]] = g[2 * (i + 1)]
      /\ ring.next[ring.next[g[2 * n]]] = g[2]
  BY ONLY <1>1, PairFacts, N \in Nat, ring \in Rings(N), top \in 0 .. N, Paired(ring, g, ring.len, top)
<1>. HIDE DEF n
<1>3. q \in 1 .. n /\ q \in 0 .. n
  BY ONLY <1>1 DEF Behind
<1>4. ring.next[ring.next[g[2 * p]]] = g[2 * q] /\ g[2 * q - 2] = g[2 * p]
  <2>1. CASE p = n
    <3>1. q = 1 /\ 2 * q - 2 = 0 /\ 2 * q = 2
      BY ONLY <1>1, <2>1 DEF Behind
    <3>2. ring.next[ring.next[g[2 * n]]] = g[2] /\ g[0] = g[2 * n]
      BY ONLY <1>2
    <3>. QED
      BY ONLY <2>1, <3>1, <3>2
  <2>2. CASE p # n
    <3>1. q = p + 1 /\ 2 * q - 2 = 2 * p /\ p \in 0 .. n - 1
      BY ONLY <1>1, <2>2 DEF Behind
    <3>. QED
      BY ONLY <1>2, <3>1
  <2>. QED
    BY ONLY <2>1, <2>2
<1>5. g[2 * q] \in 0 .. N /\ Hop(ring, ring.ptr, 2 * q) = g[2 * q]
  <2>1. g[2 * q] \in 1 .. N /\ Hop(ring, ring.ptr, 2 * q) = g[2 * q]
    BY ONLY <1>2, <1>3
  <2>. QED
    BY ONLY <2>1, N \in Nat
<1>. QED
  BY ONLY <1>3, <1>4, <1>5 DEF n

LEMMA IterNextCase ==
    ASSUME IInv, IterNext
    PROVE  IInv'
<1>1. /\ kind \in {"arr", "obj"} /\ Cells \in Nat /\ cur \in 0 .. Cells
      /\ r \in Rings(Cells) /\ r.len \in Nat
  BY Within
<1>2. /\ it \in Iterators(Cells) /\ it.idx \in Nat /\ it.max \in Nat /\ it.cur \in 0 .. Cells
      /\ place \in Nat /\ plain \in BOOLEAN /\ (plain = TRUE => place = it.idx)
  BY DEF IInv, TypeInv, Counted, Iterators
<1>3. it.idx < it.max /\ UNCHANGED <<kind, r, cur>> /\ plain' = plain /\ it.max > 0
  BY <1>2 DEF IterNext
<1> DEFINE step == IF kind = "arr" THEN r.next[it.cur] ELSE r.next[r.next[it.cur]]
<1>4. it' = [it EXCEPT !.pre = it.cur, !.cur = step, !.idx = @ + 1]
  BY ONLY IterNext, <1>1 DEF IterNext, ArrIterNext, ObjIterNext, Next1, Next2
<1>. HIDE DEF step
<1>5. /\ it'.idx = it.idx + 1 /\ it'.max = it.max /\ it'.pre = it.cur /\ it'.cur = step
  BY ONLY <1>2, <1>4 DEF Iterators
<1>6. place <= it.max => place' = Behind(place, it.max)
  <2>1. place' = IF place + 1 > it.max THEN place + 1 - it.max ELSE place + 1
    BY ONLY IterNext DEF IterNext, Onward
  <2>. QED
    BY ONLY <1>2, <2>1 DEF Behind
<1>7. ASSUME kind = "arr"
      PROVE  /\ \E g : Sound(r, g, r.len, cur) /\ ArrAt(g)'
             /\ step \in 0 .. Cells /\ place <= it.max
  <2>1. PICK g : Sound(r, g, r.len, cur) /\ ArrAt(g)
    BY <1>7 DEF IInv, ArrInv
  <2>2. it.max = r.len /\ place <= it.max /\ it.cur = g[place]
    BY ONLY <1>3, <2>1 DEF ArrAt
  <2>3. place \in 0 .. r.len /\ r.len > 0
    BY ONLY <1>1, <1>2, <1>3, <2>2
  <2> DEFINE q == Behind(place, r.len)
  <2>4. q \in 1 .. r.len /\ r.next[g[place]] = g[q] /\ g[q - 1] = g[place] /\ g[q] \in 0 .. Cells
    BY ONLY <1>1, <2>1, <2>3, ArrStep
  <2>5. place' = q
    BY ONLY <1>6, <2>2
  <2>. HIDE DEF q
  <2>6. step = g[q] /\ step \in 0 .. Cells
    BY ONLY <1>7, <2>2, <2>4 DEF step
  <2>7. ArrAt(g)'
    <3>1. it'.max = r'.len /\ place' <= it'.max /\ it'.cur = g[place'] /\ it'.pre = g[place' - 1]
      BY ONLY <1>1, <1>3, <1>5, <2>2, <2>4, <2>5, <2>6
    <3>. QED
      BY ONLY <3>1 DEF ArrAt
  <2>. QED
    BY ONLY <2>1, <2>2, <2>6, <2>7
<1>8. ASSUME kind = "obj"
      PROVE  /\ \E g : /\ Paired(r, g, r.len, cur) /\ KeyCells(r, g, r.len) /\ ObjAt(g)'
             /\ step \in 0 .. Cells /\ place <= it.max
  <2>1. PICK g : Paired(r, g, r.len, cur) /\ KeyCells(r, g, r.len) /\ ObjAt(g)
    BY <1>8 DEF IInv, ObjInv
  <2>2. it.max = r.len /\ place <= it.max /\ it.cur = g[2 * place]
    BY ONLY <1>3, <2>1 DEF ObjAt
  <2>3. place \in 0 .. r.len /\ r.len > 0
    BY ONLY <1>1, <1>2, <1>3, <2>2
  <2> DEFINE q == Behind(place, r.len)
  <2>4. /\ q \in 1 .. r.len /\ r.next[r.next[g[2 * place]]] = g[2 * q] /\ g[2 * q - 2] = g[2 * place]
        /\ g[2 * q] \in 0 .. Cells
    BY ONLY <1>1, <2>1, <2>3, ObjStep
  <2>5. place' = q
    BY ONLY <1>6, <2>2
  <2>. HIDE DEF q
  <2>6. step = g[2 * q] /\ step \in 0 .. Cells
    BY ONLY <1>8, <2>2, <2>4 DEF step
  <2>7. ObjAt(g)'
    <3>1. /\ it'.max = r'.len /\ place' <= it'.max /\ it'.cur = g[2 * place']
          /\ it'.pre = g[2 * place' - 2]
      BY ONLY <1>1, <1>3, <1>5, <2>2, <2>4, <2>5, <2>6
    <3>. QED
      BY ONLY <3>1 DEF ObjAt
  <2>. QED
    BY ONLY <2>1, <2>2, <2>6, <2>7
<1>9. step \in 0 .. Cells /\ place <= it.max
  BY ONLY <1>1, <1>7, <1>8
<1>10. it' \in Iterators(Cells) /\ it'.idx <= it'.max
  <2>1. it' = [idx |-> it.idx + 1, max |-> it.max, pre |-> it.cur, cur |-> step]
    BY ONLY <1>2, <1>4 DEF Iterators
  <2>2. it.idx + 1 \in Nat
    BY ONLY <1>2
  <2>3. it' \in Iterators(Cells)
    BY ONLY <1>2, <1>9, <2>1, <2>2 DEF Iterators
  <2>. QED
    BY ONLY <2>3, <1>2, <1>3, <1>5, <2>1
<1>11. Counted'
  <2>1. place' = IF place = it.max THEN 1 ELSE place + 1
    BY ONLY <1>6, <1>9 DEF Behind
  <2>2. place' \in Nat /\ place' > 0
    BY ONLY <1>2, <2>1
  <2>3. plain' \in BOOLEAN
    BY ONLY <1>2, <1>3
  <2>4. ASSUME plain' = TRUE
        PROVE  place' = it'.idx
    <3>1. place = it.idx
      BY ONLY <1>2, <1>3, <2>4
    <3>. QED
      BY ONLY <1>2, <1>3, <1>5, <2>1, <3>1
  <2>. QED
    BY ONLY <2>2, <2>3, <2>4 DEF Counted
<1>. QED
  BY ONLY <1>3, <1>7, <1>8, <1>10, <1>11, IInv, ItMoves

\* Where an iterator stands that has removed the pth of n elements, of n pairs.
Stands(p, n) == IF p = n THEN 1 ELSE p

LEMMA ArrStands ==
    ASSUME NEW n \in Nat, n > 1, NEW p \in 1 .. n, NEW g, NEW h, g[0] = g[n],
           h[0] = h[n - 1], CutsOut(g, h, n, p - 1, 1)
    PROVE  LET q == Stands(p, n)
           IN  q \in 1 .. n - 1 /\ h[q] = g[Behind(p, n)] /\ h[q - 1] = g[p - 1]
<1>1. \A i \in 1 .. n - 1 : h[i] = IF i <= p - 1 THEN g[i] ELSE g[i + 1]
  BY DEF CutsOut
<1>2. CASE p = n
  <2>1. 1 \in 1 .. n - 1 /\ 1 <= p - 1 /\ n - 1 \in 1 .. n - 1 /\ n - 1 <= p - 1 /\ 1 - 1 = 0
    BY ONLY <1>2, n \in Nat, n > 1
  <2>2. h[1] = g[1] /\ h[n - 1] = g[n - 1]
    BY ONLY <1>1, <2>1
  <2>. QED
    BY ONLY <1>2, <2>1, <2>2, h[0] = h[n - 1] DEF Stands, Behind
<1>3. CASE p # n
  <2>1. p \in 1 .. n - 1 /\ ~ (p <= p - 1)
    BY ONLY <1>3, n \in Nat, p \in 1 .. n
  <2>2. h[p] = g[p + 1]
    BY ONLY <1>1, <2>1
  <2>3. h[p - 1] = g[p - 1]
    <3>1. CASE p = 1
      <4>1. n - 1 \in 1 .. n - 1 /\ ~ (n - 1 <= p - 1) /\ n - 1 + 1 = n /\ p - 1 = 0
        BY ONLY <3>1, n \in Nat, n > 1
      <4>2. h[n - 1] = g[n]
        BY ONLY <1>1, <4>1
      <4>. QED
        BY ONLY <4>1, <4>2, h[0] = h[n - 1], g[0] = g[n]
    <3>2. CASE p # 1
      <4>1. p - 1 \in 1 .. n - 1 /\ p - 1 <= p - 1
        BY ONLY <3>2, n \in Nat, p \in 1 .. n
      <4>. QED
        BY ONLY <1>1, <4>1
    <3>. QED
      BY ONLY <3>1, <3>2
  <2>. QED
    BY ONLY <1>3, <2>1, <2>2, <2>3 DEF Stands, Behind
<1>. QED
  BY ONLY <1>2, <1>3

LEMMA ObjStands ==
    ASSUME NEW n \in Nat, n > 1, NEW p \in 1 .. n, NEW g, NEW h, g[0] = g[2 * n],
           h[0] = h[2 * (n - 1)], LeavesOut(g, h, n, p)
    PROVE  LET q == Stands(p, n)
           IN  q \in 1 .. n - 1 /\ h[2 * q] = g[2 * Behind(p, n)] /\ h[2 * q - 2] = g[2 * p - 2]
<1> DEFINE e == [i \in 0 .. n |-> g[2 * i]]
           f == [i \in 0 .. n - 1 |-> h[2 * i]]
<1>1. \A i \in 1 .. n - 1 : h[2 * i] = IF i < p THEN g[2 * i] ELSE g[2 * i + 2]
  BY DEF LeavesOut
<1>2. CutsOut(e, f, n, p - 1, 1)
  <2>1. ASSUME NEW i \in 1 .. n - 1
        PROVE  f[i] = IF i <= p - 1 THEN e[i] ELSE e[i + 1]
    <3>1. /\ i \in 0 .. n - 1 /\ i \in 0 .. n /\ i + 1 \in 0 .. n /\ 2 * (i + 1) = 2 * i + 2
          /\ (i <= p - 1 <=> i < p)
      BY ONLY n \in Nat, p \in 1 .. n, i \in 1 .. n - 1
    <3>2. f[i] = h[2 * i] /\ e[i] = g[2 * i] /\ e[i + 1] = g[2 * i + 2]
      BY ONLY <3>1
    <3>. QED
      BY ONLY <1>1, <2>1, <3>1, <3>2
  <2>. QED
    BY ONLY <2>1 DEF CutsOut
<1>3. e[0] = e[n] /\ f[0] = f[n - 1]
  <2>1. 0 \in 0 .. n /\ n \in 0 .. n /\ 0 \in 0 .. n - 1 /\ n - 1 \in 0 .. n - 1 /\ 2 * 0 = 0
    BY ONLY n \in Nat, n > 1
  <2>. QED
    BY ONLY <2>1, g[0] = g[2 * n], h[0] = h[2 * (n - 1)]
<1>4. /\ \A i \in 0 .. n : e[i] = g[2 * i]
      /\ \A i \in 0 .. n - 1 : f[i] = h[2 * i]
  OBVIOUS
<1>. HIDE DEF e, f
<1> DEFINE q == Stands(p, n)
<1>5. q \in 1 .. n - 1 /\ f[q] = e[Behind(p, n)] /\ f[q - 1] = e[p - 1]
  BY ONLY <1>2, <1>3, n \in Nat, n > 1, p \in 1 .. n, ArrStands
<1>6. Behind(p, n) \in 0 .. n /\ p - 1 \in 0 .. n /\ 2 * (p - 1) = 2 * p - 2
  BY ONLY n \in Nat, p \in 1 .. n DEF Behind
<1>. HIDE DEF q
<1>7. q \in 0 .. n - 1 /\ q - 1 \in 0 .. n - 1 /\ 2 * (q - 1) = 2 * q - 2
  BY ONLY <1>5, n \in Nat
<1>8. f[q] = h[2 * q] /\ f[q - 1] = h[2 * q - 2] /\ e[Behind(p, n)] = g[2 * Behind(p, n)]
      /\ e[p - 1] = g[2 * p - 2]
  BY ONLY <1>4, <1>6, <1>7
<1>. QED
  BY ONLY <1>5, <1>8 DEF q

LEMMA IterRemoveCase ==
    ASSUME IInv, IdxTells, IterRemove
    PROVE  IInv'
<1>1. /\ kind \in {"arr", "obj"} /\ Cells \in Nat /\ cur \in Cell /\ cur \in 0 .. Cells
      /\ r \in Rings(Cells) /\ r.len \in Nat
  BY Within
<1>2. /\ it \in Iterators(Cells) /\ it.idx \in Nat /\ it.max \in Nat /\ it.pre \in 0 .. Cells
      /\ place \in Nat /\ (it.idx > 0 => place > 0)
  BY DEF IInv, TypeInv, Counted, Iterators
<1> DEFINE step == IF kind = "arr" THEN r.next[it.cur] ELSE r.next[r.next[it.cur]]
<1>3. /\ 0 < it.idx /\ it.idx <= it.max /\ kind' = kind /\ cur' = cur /\ it.max > 0 /\ place > 0
      /\ kind = "arr" => r' = ArrUnlink(r, it)
      /\ kind # "arr" => r' = ObjUnlink(r, it)
      /\ place' = Stands(place, it.max) /\ plain' = FALSE
  BY <1>2 DEF IterRemove, Stands
<1>4. it' = [it EXCEPT !.idx = @ - 1, !.max = @ - 1, !.cur = step]
  BY ONLY IterRemove, <1>1 DEF IterRemove, ArrIterRemove, ObjIterRemove, Next1, Next2
<1>. HIDE DEF step
<1>5. it' = [idx |-> it.idx - 1, max |-> it.max - 1, pre |-> it.pre, cur |-> step]
  BY ONLY <1>2, <1>4 DEF Iterators
<1>6. /\ it'.idx = it.idx - 1 /\ it'.max = it.max - 1 /\ it'.pre = it.pre /\ it'.cur = step
  BY ONLY <1>5
<1>7. Cells' = Cells /\ Cell' = Cell
  BY ONLY <1>3 DEF Cells, Cell
<1>8. it.max = r.len => Tells(it, place, r.len)
  BY ONLY IdxTells DEF IdxTells, Tells
<1>9. ASSUME kind = "arr"
      PROVE  ArrInv' /\ r' \in Rings(Cells) /\ step \in 0 .. Cells
  <2>1. PICK g : Sound(r, g, r.len, cur) /\ ArrAt(g)
    BY <1>9 DEF IInv, ArrInv
  <2>2. it.max = r.len /\ place <= it.max /\ it.cur = g[place] /\ it.pre = g[place - 1]
    BY ONLY <1>3, <2>1 DEF ArrAt
  <2>3. place \in 1 .. r.len /\ place \in 0 .. r.len /\ r.len > 0 /\ r.len - 1 \in Nat
    BY ONLY <1>1, <1>2, <1>3, <2>2
  <2> DEFINE made == ArrUnlink(r, it)
  <2>4. /\ made \in Rings(Cells) /\ made.len = r.len - 1
        /\ \E h : Sound(made, h, made.len, cur) /\ CutsOut(g, h, r.len, place - 1, 1)
    BY ONLY <1>1, <1>8, <2>1, <2>2, <2>3, ArrUnlinkSound
  <2>5. r' = made
    BY ONLY <1>3, <1>9
  <2>. HIDE DEF made
  <2>6. PICK h : Sound(made, h, made.len, cur) /\ CutsOut(g, h, r.len, place - 1, 1)
    BY ONLY <2>4
  <2>7. r.next[g[place]] = g[Behind(place, r.len)] /\ g[Behind(place, r.len)] \in 0 .. Cells
    BY ONLY <1>1, <2>1, <2>3, ArrStep
  <2>8. step = g[Behind(place, r.len)] /\ step \in 0 .. Cells
    BY ONLY <1>9, <2>2, <2>7 DEF step
  <2>9. ArrAt(h)'
    <3>1. ASSUME r.len > 1
          PROVE  place' \in 1 .. r.len - 1 /\ it'.cur = h[place'] /\ it'.pre = h[place' - 1]
      <4>1. g[0] = g[r.len]
        BY ONLY <2>1, <2>3 DEF Sound, Cycle
      <4>2. made.len > 0 /\ made.len = r.len - 1
        BY ONLY <1>1, <2>4, <3>1
      <4>3. h[0] = h[r.len - 1]
        BY ONLY <2>6, <4>2 DEF Sound, Cycle
      <4> DEFINE q == Stands(place, r.len)
      <4>4. q \in 1 .. r.len - 1 /\ h[q] = g[Behind(place, r.len)] /\ h[q - 1] = g[place - 1]
        BY ONLY <1>1, <2>3, <2>6, <3>1, <4>1, <4>3, ArrStands
      <4>5. place' = q
        BY ONLY <1>3, <2>2
      <4>. HIDE DEF q
      <4>. QED
        BY ONLY <1>6, <2>2, <2>8, <4>4, <4>5
    <3>2. it'.max = r'.len /\ it'.max = r.len - 1
      BY ONLY <1>6, <2>2, <2>4, <2>5
    <3>3. it'.max > 0 => r.len > 1
      BY ONLY <1>1, <3>2
    <3>4. it'.max > 0 => place' <= it'.max
      BY ONLY <1>1, <3>1, <3>2, <3>3
    <3>. QED
      BY ONLY <3>1, <3>2, <3>3, <3>4 DEF ArrAt
  <2>10. Sound(r', h, r'.len, cur')
    BY ONLY <1>3, <2>5, <2>6
  <2>. QED
    BY ONLY <2>4, <2>5, <2>8, <2>9, <2>10 DEF ArrInv
<1>10. ASSUME kind = "obj"
      PROVE  ObjInv' /\ r' \in Rings(Cells) /\ step \in 0 .. Cells
  <2>1. PICK g : Paired(r, g, r.len, cur) /\ KeyCells(r, g, r.len) /\ ObjAt(g)
    BY <1>10 DEF IInv, ObjInv
  <2>2. it.max = r.len /\ place <= it.max /\ it.cur = g[2 * place] /\ it.pre = g[2 * place - 2]
    BY ONLY <1>3, <2>1 DEF ObjAt
  <2>3. place \in 1 .. r.len /\ place \in 0 .. r.len /\ r.len > 0 /\ r.len - 1 \in Nat
    BY ONLY <1>1, <1>2, <1>3, <2>2
  <2> DEFINE made == ObjUnlink(r, it)
  <2>4. /\ made \in Rings(Cells) /\ made.len = r.len - 1 /\ made.is = r.is
        /\ SameValues(r, made, g, r.len)
        /\ \E h : Paired(made, h, made.len, cur) /\ LeavesOut(g, h, r.len, place)
    BY ONLY <1>1, <1>8, <2>1, <2>2, <2>3, ObjUnlinkSound
  <2>5. r' = made
    BY ONLY <1>3, <1>10
  <2>. HIDE DEF made
  <2>6. PICK h : Paired(made, h, made.len, cur) /\ LeavesOut(g, h, r.len, place)
    BY ONLY <2>4
  <2>7. /\ r.next[r.next[g[2 * place]]] = g[2 * Behind(place, r.len)]
        /\ g[2 * Behind(place, r.len)] \in 0 .. Cells
    BY ONLY <1>1, <2>1, <2>3, ObjStep
  <2>8. step = g[2 * Behind(place, r.len)] /\ step \in 0 .. Cells
    BY ONLY <1>10, <2>2, <2>7 DEF step
  <2>9. ObjAt(h)'
    <3>1. ASSUME r.len > 1
          PROVE  place' \in 1 .. r.len - 1 /\ it'.cur = h[2 * place'] /\ it'.pre = h[2 * place' - 2]
      <4>1. g[0] = g[2 * r.len]
        BY <1>1, <2>1, <2>3 DEF Paired, Sound, Cycle
      <4>2. 2 * made.len > 0 /\ made.len = r.len - 1
        BY ONLY <1>1, <2>4, <3>1
      <4>3. h[0] = h[2 * (r.len - 1)]
        BY ONLY <2>6, <4>2 DEF Paired, Sound, Cycle
      <4> DEFINE q == Stands(place, r.len)
      <4>4. /\ q \in 1 .. r.len - 1 /\ h[2 * q] = g[2 * Behind(place, r.len)]
            /\ h[2 * q - 2] = g[2 * place - 2]
        BY ONLY <1>1, <2>3, <2>6, <3>1, <4>1, <4>3, ObjStands
      <4>5. place' = q
        BY ONLY <1>3, <2>2
      <4>. HIDE DEF q
      <4>. QED
        BY ONLY <1>6, <2>2, <2>8, <4>4, <4>5
    <3>2. it'.max = r'.len /\ it'.max = r.len - 1
      BY ONLY <1>6, <2>2, <2>4, <2>5
    <3>3. it'.max > 0 => r.len > 1
      BY ONLY <1>1, <3>2
    <3>4. it'.max > 0 => place' <= it'.max
      BY ONLY <1>1, <3>1, <3>2, <3>3
    <3>. QED
      BY ONLY <3>1, <3>2, <3>3, <3>4 DEF ObjAt
  <2>10. Drawn(g, h, r.len, made.len) /\ made.len \in 0 .. r.len
    <3>1. Drawn(g, h, r.len, r.len - 1)
      BY ONLY <1>1, <2>3, <2>6, LeavesOutDraws
    <3>2. made.len \in 0 .. r.len
      BY ONLY <1>1, <2>3, <2>4
    <3>. QED
      BY ONLY <2>4, <3>1, <3>2
  <2>11. Keeps(r, made, g, h, cur)
    BY ONLY <2>4, <2>6, <2>10 DEF Keeps
  <2>12. KeyCells(made, h, made.len)
    BY ONLY <2>1, <2>4, <2>11, KeepsGood
  <2>13. Paired(r', h, r'.len, cur') /\ KeyCells(r', h, r'.len)
    BY ONLY <1>3, <2>5, <2>6, <2>12
  <2>. QED
    BY ONLY <2>4, <2>5, <2>8, <2>9, <2>13 DEF ObjInv
<1>11. step \in 0 .. Cells /\ r' \in Rings(Cells)
  BY ONLY <1>1, <1>9, <1>10
<1>12. it' \in Iterators(Cells) /\ it'.idx <= it'.max
  <2>1. it.idx - 1 \in Nat /\ it.max - 1 \in Nat /\ it.idx - 1 <= it.max - 1
    BY ONLY <1>2, <1>3
  <2>. QED
    BY ONLY <1>2, <1>5, <1>6, <1>11, <2>1 DEF Iterators
<1>13. Counted'
  <2>1. place' \in Nat /\ place' > 0
    BY ONLY <1>2, <1>3 DEF Stands
  <2>. QED
    BY ONLY <1>3, <2>1 DEF Counted
<1>14. TypeInv'
  BY ONLY <1>1, <1>3, <1>7, <1>11, <1>12, <1>13 DEF TypeInv
<1>. QED
  BY ONLY <1>1, <1>3, <1>9, <1>10, <1>14 DEF IInv

\* Hop from a key of the ring, around the end if need be.
LEMMA PairsOn ==
    ASSUME NEW N \in Nat, NEW ring \in Rings(N), NEW g, NEW top \in 0 .. N,
           Paired(ring, g, ring.len, top), ring.len > 0,
           NEW i \in 0 .. ring.len, NEW q \in 0 .. ring.len
    PROVE  LET to == IF i + q > ring.len THEN i + q - ring.len ELSE i + q
           IN  Hop(ring, g[2 * i], 2 * q) = g[2 * to] /\ g[2 * to] \in 0 .. N
<1> DEFINE m == ring.len
           n == 2 * m
           p == 2 * i
           t == 2 * q
           to == IF i + q > m THEN i + q - m ELSE i + q
<1>0. ring.len \in Nat
  BY DEF Rings
<1>1. n \in Nat /\ n > 0 /\ t \in 0 .. n /\ p \in Nat /\ p <= n /\ to \in 0 .. m /\ 2 * to \in 0 .. n
  BY <1>0
<1>2. 2 * to = IF t <= n - p THEN t + p ELSE t + p - n
  <2>1. (i + q > m <=> ~ (t <= n - p)) /\ 2 * (i + q) = t + p /\ 2 * (i + q - m) = t + p - n
    BY <1>0
  <2>. QED
    BY ONLY <2>1
<1>3. Sound(ring, g, n, top)
  BY DEF Paired
<1>. HIDE DEF n, p, t, to
<1>4. Cycle(ring.next, g, n) /\ \A j \in 0 .. n : g[j] \in 2 .. top
  BY ONLY <1>1, <1>3 DEF Sound
<1>5. p \in Nat /\ p <= n /\ Cycle(ring.next, g, n)
  BY ONLY <1>1, <1>4
<1>6. \A j \in 0 .. n : Hop(ring, g[p], j) = IF j <= n - p THEN g[j + p] ELSE g[j + p - n]
  BY ONLY <1>5, TurnedArr
<1>7. Hop(ring, g[p], t) = g[2 * to]
  BY ONLY <1>1, <1>2, <1>6
<1>8. g[2 * to] \in 0 .. N
  <2>1. g[2 * to] \in 2 .. top
    BY ONLY <1>1, <1>4
  <2>. QED
    BY ONLY <2>1, N \in Nat, top \in 0 .. N
<1>. QED
  BY ONLY <1>7, <1>8 DEF p, t, to, m

\* Where the iterator goes that searches for a key: nowhere, or on to a member.
LEMMA IterGetGoes ==
    ASSUME NEW N, NEW ring, NEW at \in Iterators(N), NEW k
    PROVE  LET got == ObjIterGet(ring, at, k)
           IN  got = at \/ \E hit \in 1 .. at.max : got = IterAt(ring, at, hit)
<1> DEFINE hits == {i \in 1 .. at.max : ring.is[Hop(ring, at.cur, 2 * i)] = k}
           hit == CHOOSE i \in hits : \A j \in hits : i <= j
           got == ObjIterGet(ring, at, k)
<1>0. got = IF hits = {} THEN at ELSE IterAt(ring, at, hit)
  BY DEF ObjIterGet
<1>1. hits = {} => got = at
  BY ONLY <1>0
<1>2. hits # {} => got = IterAt(ring, at, hit)
  BY ONLY <1>0
<1>3. hits \subseteq 1 .. at.max
  OBVIOUS
<1>4. hits # {} => hit \in hits
  <2>. HIDE DEF hits
  <2>1. hits \subseteq Nat
    BY <1>3 DEF Iterators
  <2>. QED
    BY ONLY <2>1, Least
<1>. HIDE DEF hits, hit, got
<1>. QED
  BY ONLY <1>1, <1>2, <1>3, <1>4 DEF got

LEMMA IterGetCase ==
    ASSUME IInv, NEW k, IterGet(k)
    PROVE  IInv'
<1>1. /\ kind \in {"arr", "obj"} /\ Cells \in Nat /\ cur \in Cell /\ cur \in 0 .. Cells
      /\ r \in Rings(Cells) /\ r.len \in Nat
  BY Within
<1>2. /\ it \in Iterators(Cells) /\ it.idx \in Nat /\ it.max \in Nat /\ it.idx <= it.max
      /\ place \in Nat /\ plain \in BOOLEAN /\ (it.idx > 0 => place > 0)
      /\ plain = TRUE => place = it.idx
  BY DEF IInv, TypeInv, Counted, Iterators
<1> DEFINE got == ObjIterGet(r, it, k)
<1>3. /\ kind = "obj" /\ it.max > 0 /\ UNCHANGED <<kind, r, cur>> /\ it' = got
  BY DEF IterGet
<1>4. IF it'.idx < it.idx
      THEN place' = Onward(it'.idx - it.idx + it.max + 1) /\ plain' = FALSE
      ELSE place' = Onward(it'.idx - it.idx) /\ plain' = plain
  BY DEF IterGet
<1>5. got = it \/ \E hit \in 1 .. it.max : got = IterAt(r, it, hit)
  BY ONLY <1>2, IterGetGoes
<1>. HIDE DEF got
<1>6. PICK g : Paired(r, g, r.len, cur) /\ KeyCells(r, g, r.len) /\ ObjAt(g)
  BY <1>3 DEF IInv, ObjInv
<1>7. it.max = r.len /\ place <= it.max /\ it.cur = g[2 * place]
  BY ONLY <1>3, <1>6 DEF ObjAt
<1>8. CASE got = it
  <2>1. UNCHANGED <<kind, r, cur, it>>
    BY ONLY <1>3, <1>8
  <2>2. it' \in Iterators(Cells) /\ it'.idx <= it'.max
    BY ONLY <1>2, <2>1
  <2>3. place' = place /\ plain' = plain
    <3>1. ~ (it'.idx < it.idx) /\ it'.idx - it.idx = 0
      BY ONLY <1>2, <2>1
    <3>2. place' = Onward(0) /\ plain' = plain
      BY ONLY <1>4, <3>1
    <3>. QED
      BY ONLY <1>2, <1>7, <3>2 DEF Onward
  <2>4. ObjAt(g)'
    BY ONLY <1>6, <2>1, <2>3 DEF ObjAt
  <2>5. kind # "arr" /\ UNCHANGED <<kind, r, cur>>
    BY ONLY <1>3
  <2>6. Counted'
    BY ONLY <1>2, <2>1, <2>3 DEF Counted
  <2>. QED
    BY ONLY <1>6, <2>2, <2>4, <2>5, <2>6, IInv, ItMoves
<1>9. ASSUME NEW hit \in 1 .. it.max, got = IterAt(r, it, hit)
      PROVE  IInv'
  <2> DEFINE to == IF place + hit > it.max THEN place + hit - it.max ELSE place + hit
             idx == IF it.idx + hit > it.max THEN it.idx + hit - (it.max + 1) ELSE it.idx + hit
  <2>1. r.len > 0 /\ hit \in 0 .. r.len /\ hit - 1 \in 0 .. r.len /\ place \in 0 .. r.len
    BY ONLY <1>1, <1>2, <1>3, <1>7, <1>9
  <2>2. to \in 1 .. it.max /\ 2 * (to - 1) = 2 * to - 2
    BY ONLY <1>2, <1>7, <1>9
  <2>3. Hop(r, it.cur, 2 * hit) = g[2 * to] /\ g[2 * to] \in 0 .. Cells
    BY ONLY <1>1, <1>6, <1>7, <2>1, PairsOn
  <2>4. Hop(r, it.cur, 2 * (hit - 1)) = g[2 * to - 2] /\ g[2 * to - 2] \in 0 .. Cells
    <3> DEFINE one == hit - 1
               near == IF place + one > r.len THEN place + one - r.len ELSE place + one
    <3>1. one \in 0 .. r.len
      BY ONLY <2>1
    <3>2. Hop(r, g[2 * place], 2 * one) = g[2 * near] /\ g[2 * near] \in 0 .. Cells
      <4>. HIDE DEF one
      <4>. QED
        BY ONLY <1>1, <1>6, <2>1, <3>1, PairsOn
    <3>3. near = to - 1 \/ (near = r.len /\ to - 1 = 0)
      BY ONLY <1>2, <1>7, <1>9
    <3>4. g[2 * r.len] = g[0]
      BY ONLY <1>1, <1>6, <2>1, PairFacts
    <3>5. g[2 * near] = g[2 * to - 2]
      <4>. HIDE DEF near, to
      <4>1. CASE near = to - 1
        BY ONLY <2>2, <4>1
      <4>2. CASE near = r.len /\ to - 1 = 0
        <5>1. 2 * to - 2 = 0
          BY ONLY <2>2, <4>2
        <5>. QED
          BY ONLY <3>4, <4>2, <5>1
      <4>. QED
        BY ONLY <3>3, <4>1, <4>2
    <3>. QED
      BY ONLY <1>7, <3>2, <3>5
  <2>5. it' = [idx |-> idx, max |-> it.max, pre |-> g[2 * to - 2], cur |-> g[2 * to]]
    <3>1. it' = IterAt(r, it, hit)
      BY ONLY <1>3, <1>9
    <3>2. it' = [it EXCEPT !.idx = idx, !.pre = Hop(r, it.cur, 2 * (hit - 1)),
                           !.cur = Hop(r, it.cur, 2 * hit)]
      BY ONLY <3>1 DEF IterAt
    <3>. HIDE DEF to, idx
    <3>3. it' = [it EXCEPT !.idx = idx, !.pre = g[2 * to - 2], !.cur = g[2 * to]]
      BY ONLY <2>3, <2>4, <3>2
    <3>. QED
      BY ONLY <1>2, <3>3 DEF Iterators
  <2>6. /\ idx \in Nat /\ idx <= it.max
        /\ idx < it.idx => idx - it.idx + it.max + 1 = hit
        /\ ~ (idx < it.idx) => idx - it.idx = hit /\ it.idx + hit <= it.max
    BY ONLY <1>2, <1>9
  <2>. HIDE DEF idx
  <2>7. it'.idx = idx /\ it'.max = it.max /\ it'.pre = g[2 * to - 2] /\ it'.cur = g[2 * to]
    BY ONLY <2>5
  <2>8. place' = to
    <3>1. place' = Onward(hit)
      BY ONLY <1>4, <2>6, <2>7
    <3>. QED
      BY ONLY <3>1 DEF Onward
  <2>9. Counted'
    <3>1. plain' \in BOOLEAN
      BY ONLY <1>2, <1>4
    <3>2. ASSUME plain' = TRUE
          PROVE  place' = it'.idx
      <4>1. ~ (idx < it.idx) /\ plain = TRUE
        BY ONLY <1>4, <2>7, <3>2
      <4>2. place = it.idx /\ it.idx + hit <= it.max /\ idx - it.idx = hit
        BY ONLY <1>2, <2>6, <4>1
      <4>3. place' = place + hit /\ idx = place + hit
        BY ONLY <1>2, <1>9, <2>6, <2>8, <4>2
      <4>. QED
        BY ONLY <2>7, <4>3
    <3>3. place' \in Nat /\ place' > 0
      <4>. HIDE DEF to
      <4>. QED
        BY ONLY <1>2, <2>2, <2>8
    <3>. QED
      BY ONLY <3>1, <3>2, <3>3 DEF Counted
  <2>. HIDE DEF to
  <2>10. it' \in Iterators(Cells) /\ it'.idx <= it'.max
    <3>1. it' \in Iterators(Cells)
      BY ONLY <1>2, <2>3, <2>4, <2>5, <2>6 DEF Iterators
    <3>. QED
      BY ONLY <2>6, <2>7, <3>1
  <2>11. ObjAt(g)'
    <3>1. /\ it'.max = r'.len /\ place' <= it'.max /\ it'.cur = g[2 * place']
          /\ it'.pre = g[2 * place' - 2]
      BY ONLY <1>2, <1>3, <1>7, <2>2, <2>7, <2>8
    <3>. QED
      BY ONLY <3>1 DEF ObjAt
  <2>12. kind # "arr" /\ UNCHANGED <<kind, r, cur>>
    BY ONLY <1>3
  <2>. QED
    BY ONLY <1>6, <2>9, <2>10, <2>11, <2>12, IInv, ItMoves
<1>. QED
  BY ONLY <1>5, <1>8, <1>9

LEMMA NewCellCase ==
    ASSUME IInv, NEW w \in What, cur < Cells, cur' = cur + 1, r' = Made(r, cur + 1, w),
           UNCHANGED <<kind, it, place, plain>>
    PROVE  IInv'
<1>1. /\ kind \in {"arr", "obj"} /\ Cells \in Nat /\ cur \in Cell /\ cur \in 0 .. Cells
      /\ r \in Rings(Cells) /\ r.len \in Nat
  BY Within
<1> DEFINE c == cur + 1
<1>2. cur \in Nat /\ c \in 1 .. Cells /\ cur < c
  BY ONLY <1>1, cur < Cells DEF Cell
<1>3. /\ cur' = c /\ r' = Made(r, c, w) /\ kind' = kind /\ it' = it
      /\ place' = place /\ plain' = plain
  OBVIOUS
<1>. HIDE DEF c
<1>4. Cells' = Cells /\ Cell' = Cell
  BY ONLY <1>3 DEF Cells, Cell
<1>5. ASSUME kind = "arr"
      PROVE  ArrInv' /\ r' \in Rings(Cells)
  <2>1. PICK g : Sound(r, g, r.len, cur) /\ ArrAt(g)
    BY <1>5 DEF IInv, ArrInv
  <2> DEFINE made == Made(r, c, w)
  <2>2. Filled(Cells, r, made, c, w) /\ Sound(made, g, r.len, c) /\ \A i \in 1 .. r.len : g[i] # c
    BY ONLY <1>1, <1>2, <2>1, w \in What, MadeSound
  <2>. HIDE DEF made
  <2>3. made \in Rings(Cells) /\ made.len = r.len
    BY ONLY <2>2 DEF Filled
  <2>4. r' = made
    BY <1>3 DEF made
  <2>5. Sound(r', g, r'.len, cur')
    BY ONLY <1>3, <2>2, <2>3, <2>4
  <2>6. ArrAt(g)'
    BY ONLY <1>3, <2>1, <2>3, <2>4 DEF ArrAt
  <2>. QED
    BY ONLY <2>3, <2>4, <2>5, <2>6 DEF ArrInv
<1>6. ASSUME kind = "obj"
      PROVE  ObjInv' /\ r' \in Rings(Cells)
  <2>1. PICK g : Paired(r, g, r.len, cur) /\ KeyCells(r, g, r.len) /\ ObjAt(g)
    BY <1>6 DEF IInv, ObjInv
  <2> DEFINE made == Made(r, c, w)
  <2>2. /\ Filled(Cells, r, made, c, w) /\ Paired(made, g, made.len, c) /\ KeyCells(made, g, made.len)
        /\ Apart(g, made.len, c)
    BY ONLY <1>1, <1>2, <2>1, w \in What, MadePaired
  <2>. HIDE DEF made
  <2>3. made \in Rings(Cells) /\ made.len = r.len
    BY ONLY <2>2 DEF Filled
  <2>4. r' = made
    BY <1>3 DEF made
  <2>5. Paired(r', g, r'.len, cur') /\ KeyCells(r', g, r'.len)
    BY ONLY <1>3, <2>2, <2>3, <2>4
  <2>6. ObjAt(g)'
    BY ONLY <1>3, <2>1, <2>3, <2>4 DEF ObjAt
  <2>. QED
    BY ONLY <2>3, <2>4, <2>5, <2>6 DEF ObjInv
<1>7. TypeInv'
  <2>1. it \in Iterators(Cells) /\ it.idx <= it.max /\ Counted
    BY DEF IInv, TypeInv
  <2>2. c \in Cell
    BY ONLY <1>2 DEF Cell
  <2>3. Counted'
    BY ONLY <1>3, <2>1 DEF Counted
  <2>. QED
    BY ONLY <1>1, <1>3, <1>4, <1>5, <1>6, <2>1, <2>2, <2>3 DEF TypeInv
<1>. QED
  BY ONLY <1>3, <1>5, <1>6, <1>7 DEF IInv

LEMMA Kept ==
    ASSUME IInv, UNCHANGED vars
    PROVE  IInv'
<1>1. UNCHANGED <<kind, r, cur, it, place, plain>>
  BY DEF vars
<1>. QED
  BY <1>1 DEF IInv, TypeInv, Counted, ArrInv, ObjInv, ArrAt, ObjAt, Cells, Cell

LEMMA NextKeeps ==
    ASSUME IInv, Careful, Next
    PROVE  IInv'
<1>1. kind \in {"arr", "obj"} /\ Cells \in Nat /\ cur \in Nat
  BY Within DEF Cell
<1>2. ASSUME NEW w \in What, cur < Cells, cur' = cur + 1, r' = Made(r, cur + 1, w),
             UNCHANGED <<kind, it, place, plain>>
      PROVE  IInv'
  BY ONLY <1>2, IInv, NewCellCase
<1>3. ASSUME ArrNext
      PROVE  IInv'
  <2>1. kind = "arr"
    BY ONLY <1>3 DEF ArrNext, Insert, Replace, AppendVal, Prepend, Remove, Rotate, RemoveRange,
                     RemoveFirst, RemoveLast, Clear, AddNew, Modified
  <2>. QED
    BY ONLY <1>3, <2>1, IInv, ArrCase
<1>4. ASSUME ObjNext
      PROVE  IInv'
  <2>1. kind = "obj"
    BY ONLY <1>4 DEF ObjNext, Add, ReplacePair, InsertPair, Put, RemoveKey, RemoveStr, AddNewPair,
                     IterGet, AddVal, RotateObj, ClearObj, NewKey, Modified
  <2>2. ASSUME NEW k \in LooseKey, NEW v \in LooseVal,
               Add(k, v) \/ ReplacePair(k, v) \/ \E i \in Index : InsertPair(k, v, i)
        PROVE  IInv'
    BY ONLY <2>1, <2>2, IInv, ObjPairCase
  <2>3. ASSUME NEW k \in LooseKey, NEW v \in LooseVal \cup {NULL}, Put(k, v)
        PROVE  IInv'
    BY ONLY <2>1, <2>3, IInv, ObjPairCase
  <2>4. ASSUME NEW k \in Keys, RemoveKey(k) \/ (Once(k) /\ RemoveStr(k))
        PROVE  IInv'
    BY ONLY <2>1, <2>4, IInv, ObjKeyCase
  <2>5. ASSUME NEW k \in Keys, AddNewPair(k)
        PROVE  IInv'
    BY ONLY <2>1, <2>5, IInv, ObjNewCase
  <2>6. ASSUME NEW k \in Keys, IterGet(k)
        PROVE  IInv'
    BY ONLY <2>6, IInv, IterGetCase
  <2>7. ASSUME NEW k \in Keys, NEW v \in LooseVal, AddVal(k, v)
        PROVE  IInv'
    BY ONLY <2>1, <2>7, IInv, ObjNewCase
  <2>8. ASSUME NEW i \in Index, RotateObj(i)
        PROVE  IInv'
    BY ONLY <2>1, <2>8, IInv, ObjKeyCase
  <2>9. ASSUME ClearObj
        PROVE  IInv'
    BY ONLY <2>1, <2>9, IInv, ObjKeyCase
  <2>10. ASSUME NEW k \in Keys, NewKey(k)
         PROVE  IInv'
    <3>1. k \in What
      BY DEF What
    <3>. QED
      BY <1>2, <2>10, <3>1 DEF NewKey
  <2>. QED
    BY ONLY <1>4, Careful, <2>2, <2>3, <2>4, <2>5, <2>6, <2>7, <2>8, <2>9, <2>10 DEF ObjNext
<1>5. ASSUME NewVal
      PROVE  IInv'
  <2>1. cur + 1 \in What
    BY <1>1 DEF What
  <2>. QED
    BY ONLY <1>2, <1>5, <2>1 DEF NewVal
<1>6. ASSUME Iterate \/ IterNext \/ (IdxTells /\ IterRemove)
      PROVE  IInv'
  BY ONLY <1>6, IInv, IterateCase, IterNextCase, IterRemoveCase
<1>. QED
  BY ONLY Next, Careful, <1>3, <1>4, <1>5, <1>6 DEF Next

ArrCreated(fresh, n, what) == [ArrWith(fresh, 1, n) EXCEPT !.is = what]
ObjCreated(fresh, n, what) == [ObjWith(fresh, 1, n) EXCEPT !.is = what]

\* A container created with n members: g goes along its cells in the order of
\* the pool.
LEMMA ArrMade ==
    ASSUME NEW N \in Nat, NEW n \in Nat, NEW fresh \in Rings(N), NEW what \in [1 .. N -> What],
           NEW made, made = ArrCreated(fresh, n, what),
           NEW top, top = n + 1, n + 1 <= N
    PROVE  made \in Rings(N) /\ made.len = n /\ \E g : Sound(made, g, n, top)
<1> DEFINE next == [v \in 1 .. N |-> IF v \in 1 + 1 .. 1 + n - 1 THEN v + 1
                                     ELSE IF n > 0 /\ v = 1 + n THEN 1 + 1 ELSE fresh.next[v]]
           ptr == IF n = 0 THEN fresh.ptr ELSE 1 + n
           g == [i \in 0 .. n |-> IF i = 0 THEN n + 1 ELSE i + 1]
<1>1. fresh.next \in [1 .. N -> 0 .. N] /\ fresh.ptr \in 0 .. N /\ DOMAIN fresh.next = 1 .. N
  BY DEF Rings
<1>2. made = [next |-> next, ptr |-> ptr, len |-> n, is |-> what]
  BY ONLY <1>1, made = ArrCreated(fresh, n, what), fresh \in Rings(N) DEF ArrCreated, ArrWith, Rings
<1>3. \A v \in 1 .. N : next[v] \in 0 .. N
  BY ONLY <1>1, N \in Nat, n \in Nat, n + 1 <= N
<1>4. ptr \in 0 .. N
  BY ONLY <1>1, N \in Nat, n \in Nat, n + 1 <= N
<1>5. \A i \in 1 .. n - 1 : next[i + 1] = i + 2
  BY ONLY N \in Nat, n \in Nat, n + 1 <= N
<1>6. n > 0 => next[n + 1] = 2
  BY ONLY N \in Nat, n \in Nat, n + 1 <= N
<1>7. next \in [1 .. N -> 0 .. N]
  <2>1. next = [v \in 1 .. N |-> next[v]]
    BY ONLY DEF next
  <2>. HIDE DEF next
  <2>. QED
    BY ONLY <1>3, <2>1
<1>8. n > 0 => ptr = n + 1
  BY ONLY n \in Nat
<1>. HIDE DEF next, ptr
<1>9. made \in Rings(N) /\ made.len = n /\ made.next = next /\ made.ptr = ptr
  BY ONLY <1>2, <1>4, <1>7, n \in Nat, what \in [1 .. N -> What] DEF Rings
<1>10. ASSUME n > 0
       PROVE  Cycle(next, g, n) /\ g[0] = ptr /\ \A i \in 0 .. n : g[i] \in 2 .. n + 1
  <2>1. /\ g[0] = n + 1 /\ \A i \in 1 .. n : g[i] = i + 1
    BY ONLY n \in Nat
  <2>2. DOMAIN next = 1 .. N
    BY ONLY <1>7
  <2>3. \A i \in 0 .. n : g[i] \in 2 .. n + 1 /\ g[i] \in DOMAIN next
    BY ONLY <1>10, <2>2, N \in Nat, n \in Nat, n + 1 <= N
  <2>4. g \in [0 .. n -> DOMAIN next]
    <3>1. g = [i \in 0 .. n |-> g[i]]
      BY ONLY DEF g
    <3>. HIDE DEF g
    <3>. QED
      BY ONLY <2>3, <3>1
  <2>5. g[0] = g[n]
    BY ONLY <1>10, <2>1, n \in Nat
  <2>6. ASSUME NEW i \in 0 .. n - 1
        PROVE  next[g[i]] = g[i + 1]
    <3>1. CASE i = 0
      <4>1. g[i] = n + 1 /\ g[i + 1] = 2
        BY ONLY <1>10, <2>1, <3>1, n \in Nat
      <4>. QED
        BY ONLY <1>6, <1>10, <4>1
    <3>2. CASE i # 0
      <4>1. i \in 1 .. n - 1 /\ i \in 1 .. n /\ i + 1 \in 1 .. n /\ i + 1 + 1 = i + 2
        BY ONLY <3>2, <2>6, n \in Nat
      <4>2. g[i] = i + 1 /\ g[i + 1] = i + 2
        BY ONLY <2>1, <4>1
      <4>. QED
        BY ONLY <1>5, <4>1, <4>2
    <3>. QED
      BY <3>1, <3>2
  <2>7. \A i, j \in 1 .. n : g[i] = g[j] => i = j
    BY ONLY <2>1, n \in Nat
  <2>8. g[0] = ptr
    BY ONLY <1>8, <1>10, <2>1
  <2>9. \A i \in 0 .. n : g[i] \in 2 .. n + 1
    BY ONLY <2>3
  <2>. HIDE DEF g
  <2>. QED
    BY ONLY <1>10, <2>4, <2>5, <2>6, <2>7, <2>8, <2>9, n \in Nat DEF Cycle
<1>. HIDE DEF g
<1>11. Sound(made, g, n, top)
  BY ONLY <1>9, <1>10, top = n + 1 DEF Sound
<1>. QED
  BY ONLY <1>9, <1>11

LEMMA ObjMade ==
    ASSUME NEW N \in Nat, NEW n \in Nat, NEW fresh \in Rings(N), NEW what \in [1 .. N -> What],
           NEW made, made = ObjCreated(fresh, n, what),
           NEW top, top = 2 * n + 1, 2 * n + 1 <= N
    PROVE  /\ made \in Rings(N) /\ made.len = n /\ made.is = what
           /\ \E g : Paired(made, g, n, top) /\ \A i \in 1 .. n : g[2 * i] = 2 * i
<1> DEFINE m == 2 * n
           next == [v \in 1 .. N |-> IF v \in 1 + 1 .. 1 + 2 * n - 1 THEN v + 1
                                     ELSE IF n > 0 /\ v = 1 + 2 * n THEN 1 + 1 ELSE fresh.next[v]]
           ptr == IF n = 0 THEN fresh.ptr ELSE 1 + 2 * n - 1
           g == [i \in 0 .. m |-> IF i = 0 THEN m ELSE IF i = 1 THEN m + 1 ELSE i]
<1>1. fresh.next \in [1 .. N -> 0 .. N] /\ fresh.ptr \in 0 .. N /\ DOMAIN fresh.next = 1 .. N
  BY DEF Rings
<1>2. made = [next |-> next, ptr |-> ptr, len |-> n, is |-> what]
  BY ONLY <1>1, made = ObjCreated(fresh, n, what), fresh \in Rings(N) DEF ObjCreated, ObjWith, Rings
<1>3. \A v \in 1 .. N : next[v] \in 0 .. N
  BY ONLY <1>1, N \in Nat, n \in Nat, 2 * n + 1 <= N
<1>4. ptr \in 0 .. N
  BY ONLY <1>1, N \in Nat, n \in Nat, 2 * n + 1 <= N
<1>5. \A i \in 2 .. m : next[i] = i + 1
  BY ONLY N \in Nat, n \in Nat, 2 * n + 1 <= N
<1>6. n > 0 => next[m + 1] = 2
  BY ONLY N \in Nat, n \in Nat, 2 * n + 1 <= N
<1>7. next \in [1 .. N -> 0 .. N]
  <2>1. next = [v \in 1 .. N |-> next[v]]
    BY ONLY DEF next
  <2>. HIDE DEF next
  <2>. QED
    BY ONLY <1>3, <2>1
<1>8. /\ n > 0 => ptr = m
      /\ m \in Nat /\ (m > 0 => n > 0 /\ m > 1) /\ m + 1 <= N
      /\ \A i \in 1 .. n : 2 * i \in 2 .. m
  BY ONLY n \in Nat, 2 * n + 1 <= N
<1>. HIDE DEF next, ptr, m
<1>9. made \in Rings(N) /\ made.len = n /\ made.next = next /\ made.ptr = ptr /\ made.is = what
  BY ONLY <1>2, <1>4, <1>7, n \in Nat, what \in [1 .. N -> What] DEF Rings
<1>a. \A i \in 2 .. m : g[i] = i
  BY ONLY <1>8
<1>10. ASSUME m > 0
       PROVE  Cycle(next, g, m) /\ g[0] = ptr /\ \A i \in 0 .. m : g[i] \in 2 .. m + 1
  <2>1. /\ g[0] = m /\ g[1] = m + 1
    BY ONLY <1>8, <1>10
  <2>2. DOMAIN next = 1 .. N
    BY ONLY <1>7
  <2>3. \A i \in 0 .. m : g[i] \in 2 .. m + 1 /\ g[i] \in DOMAIN next
    BY ONLY <1>8, <1>10, <2>2, N \in Nat
  <2>4. g \in [0 .. m -> DOMAIN next]
    <3>1. g = [i \in 0 .. m |-> g[i]]
      BY ONLY DEF g
    <3>. HIDE DEF g
    <3>. QED
      BY ONLY <2>3, <3>1
  <2>5. g[0] = g[m]
    BY ONLY <1>8, <1>10, <1>a, <2>1
  <2>. HIDE DEF g
  <2>6. ASSUME NEW i \in 0 .. m - 1
        PROVE  next[g[i]] = g[i + 1]
    <3>1. CASE i = 0
      <4>1. g[i] = m /\ g[i + 1] = m + 1 /\ m \in 2 .. m
        BY ONLY <1>8, <1>10, <2>1, <3>1
      <4>. QED
        BY ONLY <1>5, <4>1
    <3>2. CASE i = 1
      <4>1. i + 1 = 2 /\ 2 \in 2 .. m
        BY ONLY <1>8, <1>10, <3>2
      <4>2. g[i] = m + 1 /\ g[i + 1] = 2
        BY ONLY <1>a, <2>1, <3>2, <4>1
      <4>. QED
        BY ONLY <1>6, <1>8, <1>10, <4>2
    <3>3. CASE i > 1
      <4>1. i \in 2 .. m /\ i + 1 \in 2 .. m
        BY ONLY <1>8, <3>3, <2>6
      <4>. QED
        BY ONLY <1>5, <1>a, <4>1
    <3>4. i = 0 \/ i = 1 \/ i > 1
      BY ONLY <2>6, <1>8
    <3>. QED
      BY ONLY <3>1, <3>2, <3>3, <3>4
  <2>7. ASSUME NEW i \in 1 .. m, NEW j \in 1 .. m, g[i] = g[j]
        PROVE  i = j
    BY ONLY <1>8, <1>a, <2>1, <2>7
  <2>8. g[0] = ptr
    BY ONLY <1>8, <1>10, <2>1
  <2>9. \A i \in 0 .. m : g[i] \in 2 .. m + 1
    BY ONLY <2>3
  <2>. QED
    BY ONLY <1>8, <1>10, <2>4, <2>5, <2>6, <2>7, <2>8, <2>9 DEF Cycle
<1>. HIDE DEF g
<1>11. Sound(made, g, m, m + 1)
  BY ONLY <1>9, <1>10 DEF Sound
<1>12. Paired(made, g, n, top) /\ \A i \in 1 .. n : g[2 * i] = 2 * i
  BY ONLY <1>8, <1>11, <1>a, top = 2 * n + 1 DEF Paired, m
<1>. QED
  BY ONLY <1>9, <1>12

LEMMA InitGood == Init => IInv
<1> SUFFICES ASSUME Init
             PROVE  IInv
  OBVIOUS
<1>1. /\ kind \in {"arr", "obj"} /\ it = Off /\ place = 0 /\ plain = TRUE
  BY DEF Init
<1>2. /\ it = [idx |-> 0, max |-> 0, pre |-> 0, cur |-> 0]
      /\ it.max = 0 /\ it.idx = 0
  BY <1>1 DEF Off, NULL
<1>3. Cells \in Nat /\ 1 \in 1 .. Cells /\ (kind = "arr" => Cells = ArrCells) /\ (kind = "obj" => Cells = ObjCells)
  BY <1>1, CellsNat DEF Cells
<1>4. it \in Iterators(Cells) /\ it.idx <= it.max /\ Counted
  BY <1>1, <1>2, <1>3 DEF Iterators, Counted
<1>5. Fresh \in Rings(Cells)
  <2>1. 0 \in 0 .. Cells /\ 0 \in Nat
    BY <1>3
  <2>2. 1 \in What /\ Raw \in What
    BY DEF What
  <2>3. [c \in 1 .. Cells |-> IF c = 1 THEN 1 ELSE Raw] \in [1 .. Cells -> What]
    BY ONLY <2>2
  <2>. QED
    BY ONLY <2>1, <2>3 DEF Fresh, Rings, NULL, Cell
<1>6. ASSUME kind = "arr"
      PROVE  ArrInv /\ r \in Rings(Cells) /\ cur \in Cell
  <2>1. PICK n \in 0 .. Start : /\ cur = 1 + n
                                /\ r = [ArrWith(Fresh, 1, n) EXCEPT
                                          !.is = [c \in Cell |-> IF c <= 1 + n THEN c ELSE Raw]]
    BY <1>6 DEF Init
  <2> DEFINE what == [c \in 1 .. Cells |-> IF c <= 1 + n THEN c ELSE Raw]
  <2>2. n \in Nat /\ n + 1 <= Cells
    BY <1>3, <1>6, CellsAssumption
  <2>3. what \in [1 .. Cells -> What]
    <3>1. \A c \in 1 .. Cells : c \in What
      BY DEF What
    <3>2. Raw \in What
      BY DEF What
    <3>. QED
      BY ONLY <3>1, <3>2
  <2>4. r = ArrCreated(Fresh, n, what)
    BY ONLY <2>1 DEF Cell, what, ArrCreated
  <2>. HIDE DEF what
  <2>6. cur = n + 1 /\ cur \in Cell
    BY ONLY <1>3, <2>1, <2>2 DEF Cell
  <2>c. Cells \in Nat /\ cur = n + 1
    BY <1>3, <2>6
  <2>5. r \in Rings(Cells) /\ r.len = n /\ \E g : Sound(r, g, n, cur)
    BY ONLY <1>5, <2>c, <2>2, <2>3, <2>4, ArrMade
  <2>7. PICK g : Sound(r, g, r.len, cur)
    BY ONLY <2>5
  <2>8. ArrAt(g)
    BY ONLY <1>2 DEF ArrAt
  <2>. QED
    BY ONLY <2>5, <2>6, <2>7, <2>8 DEF ArrInv
<1>7. ASSUME kind = "obj"
      PROVE  ObjInv /\ r \in Rings(Cells) /\ cur \in Cell
  <2>0. PICK n \in 0 .. Start :
          /\ cur = 1 + 2 * n
          /\ \E ks \in [1 .. n -> Keys] :
               r = [ObjWith(Fresh, 1, n) EXCEPT
                    !.is = [c \in Cell |-> IF c > 1 + 2 * n THEN Raw
                                           ELSE IF c > 1 /\ c % 2 = 0 THEN ks[c \div 2] ELSE c]]
    BY <1>7 DEF Init
  <2>1. PICK ks \in [1 .. n -> Keys] :
          /\ cur = 1 + 2 * n
          /\ r = [ObjWith(Fresh, 1, n) EXCEPT
                    !.is = [c \in Cell |-> IF c > 1 + 2 * n THEN Raw
                                           ELSE IF c > 1 /\ c % 2 = 0 THEN ks[c \div 2] ELSE c]]
    BY ONLY <2>0
  <2> DEFINE what == [c \in 1 .. Cells |-> IF c > 1 + 2 * n THEN Raw
                                           ELSE IF c > 1 /\ c % 2 = 0 THEN ks[c \div 2] ELSE c]
  <2>2. n \in Nat /\ 2 * n + 1 <= Cells
    BY <1>3, <1>7, CellsAssumption
  <2>3. what \in [1 .. Cells -> What]
    <3> SUFFICES ASSUME NEW c \in 1 .. Cells
                 PROVE  what[c] \in What
      OBVIOUS
    <3>1. CASE c > 1 + 2 * n
      BY <3>1 DEF What
    <3>2. CASE ~ (c > 1 + 2 * n) /\ c > 1 /\ c % 2 = 0
      <4>1. c \div 2 \in 1 .. n
        BY ONLY <1>3, <2>2, <3>2, c \in 1 .. Cells
      <4>2. ks[c \div 2] \in Keys
        BY ONLY <2>1, <4>1
      <4>. QED
        BY <3>2, <4>2 DEF What
    <3>3. CASE ~ (c > 1 + 2 * n) /\ ~ (c > 1 /\ c % 2 = 0)
      BY <3>3 DEF What
    <3>. QED
      BY <3>1, <3>2, <3>3
  <2>4. r = ObjCreated(Fresh, n, what)
    BY ONLY <2>1 DEF Cell, what, ObjCreated
  <2>k. \A i \in 1 .. n : what[2 * i] \in Keys
    <3> SUFFICES ASSUME NEW i \in 1 .. n
                 PROVE  what[2 * i] \in Keys
      OBVIOUS
    <3>1. /\ 2 * i \in 1 .. Cells /\ ~ (2 * i > 1 + 2 * n) /\ 2 * i > 1 /\ (2 * i) % 2 = 0
          /\ (2 * i) \div 2 = i
      BY ONLY <1>3, <2>2, i \in 1 .. n
    <3>2. what[2 * i] = ks[i]
      BY ONLY <3>1
    <3>. QED
      BY ONLY <2>1, <3>2, i \in 1 .. n
  <2>. HIDE DEF what
  <2>6. cur = 2 * n + 1 /\ cur \in Cell
    BY ONLY <1>3, <2>1, <2>2 DEF Cell
  <2>c. Cells \in Nat /\ cur = 2 * n + 1
    BY <1>3, <2>6
  <2>5. /\ r \in Rings(Cells) /\ r.len = n /\ r.is = what
        /\ \E g : Paired(r, g, n, cur) /\ \A i \in 1 .. n : g[2 * i] = 2 * i
    BY ONLY <1>5, <2>c, <2>2, <2>3, <2>4, ObjMade
  <2>7. PICK g : Paired(r, g, r.len, cur) /\ \A i \in 1 .. n : g[2 * i] = 2 * i
    BY ONLY <2>5
  <2>8. KeyCells(r, g, r.len)
    BY ONLY <2>5, <2>7, <2>k DEF KeyCells
  <2>9. ObjAt(g)
    BY ONLY <1>2 DEF ObjAt
  <2>. QED
    BY ONLY <2>5, <2>6, <2>7, <2>8, <2>9 DEF ObjInv
<1>8. TypeInv
  BY ONLY <1>1, <1>4, <1>6, <1>7 DEF TypeInv
<1>. QED
  BY ONLY <1>6, <1>7, <1>8 DEF IInv

LEMMA AlwaysIInv ==
    ASSUME Careful
    PROVE  Spec => []IInv
<1>1. IInv /\ [Next]_vars => IInv'
  BY NextKeeps, Kept
<1>. QED
  BY <1>1, InitGood, PTL DEF Spec

-----------------------------------------------------------------------------
(* What the invariant says of the container. *)

\* The cells of a ring: as many as its length, and not all of the pool.
LEMMA RingCells ==
    ASSUME NEW N \in Nat, NEW ring \in Rings(N), NEW g, NEW top \in 0 .. N, NEW n \in Nat,
           Sound(ring, g, n, top), n > 0
    PROVE  Cardinality({Hop(ring, ring.ptr, i) : i \in 1 .. n}) = n /\ n <= N - 1
<1> DEFINE D == {Hop(ring, ring.ptr, i) : i \in 1 .. n}
           f == [i \in 1 .. n |-> g[i]]
<1>1. /\ \A i \in 0 .. n : g[i] \in 2 .. top
      /\ \A i \in 0 .. n : Hop(ring, ring.ptr, i) = g[i]
      /\ \A i, j \in 1 .. n : g[i] = g[j] => i = j
  BY ONLY SoundObj, N \in Nat, ring \in Rings(N), top \in 0 .. N, n \in Nat, Sound(ring, g, n, top), n > 0
<1>2. D = {g[i] : i \in 1 .. n}
  <2>1. \A i \in 1 .. n : i \in 0 .. n
    BY ONLY n \in Nat
  <2>2. \A i \in 1 .. n : Hop(ring, ring.ptr, i) = g[i]
    BY ONLY <1>1, <2>1
  <2>. QED
    BY ONLY <2>2
<1>. HIDE DEF D
<1>3. f \in Bijection(1 .. n, D)
  <2>1. f \in [1 .. n -> D]
    BY ONLY <1>2
  <2>2. \A i, j \in 1 .. n : f[i] = f[j] => i = j
    BY ONLY <1>1
  <2>3. \A d \in D : \E i \in 1 .. n : f[i] = d
    BY ONLY <1>2
  <2>. HIDE DEF f
  <2>. QED
    BY ONLY <2>1, <2>2, <2>3 DEF Bijection, Injection, Surjection, IsInjective
<1>4. Cardinality(D) = n
  <2>1. ExistsBijection(1 .. n, D)
    BY ONLY <1>3 DEF ExistsBijection
  <2>. QED
    BY ONLY <2>1, n \in Nat, FS_CountingElements
<1>5. D \in SUBSET (2 .. N)
  <2>1. \A i \in 1 .. n : g[i] \in 2 .. N
    <3>1. \A x \in 2 .. top : x \in 2 .. N
      BY ONLY N \in Nat, top \in 0 .. N
    <3>2. \A i \in 1 .. n : i \in 0 .. n
      BY ONLY n \in Nat
    <3>. QED
      BY ONLY <1>1, <3>1, <3>2
  <2>. QED
    BY ONLY <1>2, <2>1
<1>6. IsFiniteSet(2 .. N) /\ Cardinality(2 .. N) = IF 2 > N THEN 0 ELSE N - 2 + 1
  BY ONLY FS_Interval, N \in Nat, 2 \in Int, N \in Int
<1>7. Cardinality(D) <= Cardinality(2 .. N)
  BY ONLY <1>5, <1>6, FS_Subset
<1>8. n <= N - 1
  BY ONLY <1>4, <1>6, <1>7, N \in Nat, n \in Nat, n > 0
<1>. QED
  BY ONLY <1>4, <1>8 DEF D

LEMMA ShapeOf == IInv => RingShape
<1> SUFFICES ASSUME IInv
             PROVE  RingShape
  OBVIOUS
<1>1. /\ kind \in {"arr", "obj"} /\ Cells \in Nat /\ cur \in Cell /\ cur \in 0 .. Cells
      /\ r \in Rings(Cells) /\ r.len \in Nat
  BY Within
<1>2. Size \in Nat /\ (r.len > 0 => Size > 0 /\ r.len <= Size)
  BY ONLY <1>1 DEF Size
<1>3. \E g : Sound(r, g, Size, cur) /\ (kind = "obj" => KeyCells(r, g, r.len) /\ Paired(r, g, r.len, cur))
  BY <1>1 DEF IInv, ArrInv, ObjInv, Paired, Size
<1>4. PICK g : Sound(r, g, Size, cur) /\ (kind = "obj" => KeyCells(r, g, r.len) /\ Paired(r, g, r.len, cur))
  BY ONLY <1>3
<1>5. ASSUME r.len > 0
      PROVE  /\ r.ptr \in 2 .. cur /\ Hop(r, r.ptr, Size) = r.ptr
             /\ Cardinality(InRing) = Size /\ r.len \in 0 .. Cells - 1
  <2> DEFINE n == Size
  <2>1. n \in Nat /\ n > 0 /\ r.len <= n
    BY ONLY <1>2, <1>5
  <2>2. Sound(r, g, n, cur)
    BY ONLY <1>4
  <2>3. InRing = {Hop(r, r.ptr, i) : i \in 1 .. n}
    BY ONLY DEF InRing
  <2>. HIDE DEF n
  <2>4. /\ g[0] = r.ptr /\ g[n] = r.ptr
        /\ \A i \in 0 .. n : g[i] \in 2 .. cur
        /\ \A i \in 0 .. n : Hop(r, r.ptr, i) = g[i]
    <3>1. n \in Nat /\ n > 0
      BY ONLY <2>1
    <3>. QED
      BY ONLY <1>1, <2>2, <3>1, SoundObj
  <2>5. Cardinality({Hop(r, r.ptr, i) : i \in 1 .. n}) = n /\ n <= Cells - 1
    <3>1. n \in Nat /\ n > 0
      BY ONLY <2>1
    <3>. QED
      BY ONLY <1>1, <2>2, <3>1, RingCells
  <2>6. 0 \in 0 .. n /\ n \in 0 .. n
    BY ONLY <2>1
  <2>7. r.ptr \in 2 .. cur /\ Hop(r, r.ptr, n) = r.ptr
    BY ONLY <2>4, <2>6
  <2>8. r.len \in 0 .. Cells - 1
    BY ONLY <1>1, <2>1, <2>5
  <2>. QED
    BY ONLY <2>3, <2>5, <2>7, <2>8 DEF n
<1>6. r.len \in 0 .. Cells - 1
  <2>1. CASE r.len > 0
    BY ONLY <1>5, <2>1
  <2>2. CASE ~ (r.len > 0)
    BY ONLY <1>1, <2>2 DEF Cell
  <2>. QED
    BY <2>1, <2>2
<1>7. ASSUME kind = "obj", NEW i \in 1 .. r.len
      PROVE  KeyOf(i) \in Keys
  <2>1. r.len > 0 /\ i \in 0 .. r.len
    BY ONLY <1>1, <1>7
  <2>2. \A q \in 0 .. r.len : Hop(r, r.ptr, 2 * q) = g[2 * q]
    BY ONLY <1>1, <1>4, <1>7, <2>1, PairFacts
  <2>3. r.is[g[2 * i]] \in Keys
    BY ONLY <1>4, <1>7 DEF KeyCells
  <2>4. Hop(r, r.ptr, 2 * i) = g[2 * i]
    BY ONLY <2>1, <2>2
  <2>. QED
    BY ONLY <2>3, <2>4 DEF KeyOf
<1>. QED
  BY ONLY <1>1, <1>5, <1>6, <1>7 DEF RingShape

LEMMA AheadOf == IInv => IterAhead
<1> SUFFICES ASSUME IInv, it.idx < it.max
             PROVE  /\ it.max = r.len /\ (plain => place = it.idx)
                    /\ LET ahead == Behind(place, r.len)
                       IN  IF kind = "arr" THEN r.is[Next1(r, it.cur)] = Contents[ahead]
                           ELSE Next2(r, it.cur) = Hop(r, r.ptr, 2 * ahead)
  BY DEF IterAhead, Behind
<1>1. /\ kind \in {"arr", "obj"} /\ Cells \in Nat /\ cur \in 0 .. Cells
      /\ r \in Rings(Cells) /\ r.len \in Nat
  BY Within
<1>2. it.idx \in Nat /\ it.max \in Nat /\ it.max > 0 /\ place \in Nat
  BY DEF IInv, TypeInv, Counted, Iterators
<1> DEFINE ahead == Behind(place, r.len)
<1>5. plain => place = it.idx
  BY DEF IInv, TypeInv, Counted
<1>3. ASSUME kind = "arr"
      PROVE  it.max = r.len /\ r.is[Next1(r, it.cur)] = Contents[ahead]
  <2>1. PICK g : Sound(r, g, r.len, cur) /\ ArrAt(g)
    BY <1>3 DEF IInv, ArrInv
  <2>2. it.max = r.len /\ place <= it.max /\ it.cur = g[place]
    BY ONLY <1>2, <2>1 DEF ArrAt
  <2>3. place \in 0 .. r.len /\ r.len > 0
    BY ONLY <1>1, <1>2, <2>2
  <2>4. ahead \in 1 .. r.len /\ r.next[g[place]] = g[ahead] /\ Hop(r, r.ptr, ahead) = g[ahead]
    BY ONLY <1>1, <2>1, <2>3, ArrStep
  <2>. HIDE DEF ahead
  <2>5. Next1(r, it.cur) = g[ahead] /\ Hop(r, r.ptr, ahead) = g[ahead]
    BY ONLY <2>2, <2>4 DEF Next1
  <2>6. Contents[ahead] = r.is[Hop(r, r.ptr, ahead)]
    BY ONLY <1>3, <2>4 DEF Contents, Elements
  <2>. QED
    BY ONLY <2>2, <2>5, <2>6
<1>4. ASSUME kind = "obj"
      PROVE  it.max = r.len /\ Next2(r, it.cur) = Hop(r, r.ptr, 2 * ahead)
  <2>1. PICK g : Paired(r, g, r.len, cur) /\ ObjAt(g)
    BY <1>4 DEF IInv, ObjInv
  <2>2. it.max = r.len /\ place <= it.max /\ it.cur = g[2 * place]
    BY ONLY <1>2, <2>1 DEF ObjAt
  <2>3. place \in 0 .. r.len /\ r.len > 0
    BY ONLY <1>1, <1>2, <2>2
  <2>4. /\ r.next[r.next[g[2 * place]]] = g[2 * ahead]
        /\ Hop(r, r.ptr, 2 * ahead) = g[2 * ahead]
    BY ONLY <1>1, <2>1, <2>3, ObjStep
  <2>. QED
    BY ONLY <2>2, <2>4 DEF Next2
<1>. HIDE DEF ahead
<1>6. /\ it.max = r.len
      /\ IF kind = "arr" THEN r.is[Next1(r, it.cur)] = Contents[ahead]
         ELSE Next2(r, it.cur) = Hop(r, r.ptr, 2 * ahead)
  BY ONLY <1>1, <1>3, <1>4
<1>. QED
  BY ONLY <1>5, <1>6 DEF ahead

LEMMA ReadsOf == IInv => Reads
<1> SUFFICES ASSUME IInv
             PROVE  Reads
  OBVIOUS
<1>1. /\ kind \in {"arr", "obj"} /\ Cells \in Nat /\ cur \in 0 .. Cells
      /\ r \in Rings(Cells) /\ r.len \in Nat /\ Index \subseteq Nat
  BY Within
<1> DEFINE what(c) == IF c = NULL THEN NULL ELSE r.is[c]
           at(i) == IF i \in DOMAIN Contents THEN Contents[i] ELSE NULL
<1>2. ASSUME kind = "arr"
      PROVE  /\ \A i \in Index : what(ArrGet(r, i)) = at(i + 1)
             /\ what(ArrGetFirst(r)) = at(1) /\ what(ArrGetLast(r)) = at(r.len)
  <2>1. DOMAIN Contents = 1 .. r.len /\ \A i \in 1 .. r.len : Contents[i] = r.is[Hop(r, r.ptr, i)]
    BY ONLY <1>2 DEF Contents, Elements
  <2>2. ASSUME NEW c, NEW i \in 1 .. r.len, c = Hop(r, r.ptr, i)
        PROVE  what(c) = at(i)
    <3>1. PICK g : Sound(r, g, r.len, cur)
      BY <1>2 DEF IInv, ArrInv
    <3>2. r.len > 0 /\ i \in 0 .. r.len
      BY ONLY <1>1, <2>2
    <3>3. \A q \in 0 .. r.len : g[q] \in 2 .. cur /\ Hop(r, r.ptr, q) = g[q]
      BY ONLY <1>1, <3>1, <3>2, SoundArr
    <3>4. Hop(r, r.ptr, i) # NULL
      BY ONLY <1>1, <3>2, <3>3 DEF NULL
    <3>. QED
      BY ONLY <2>1, <2>2, <3>4
  <2>3. ASSUME NEW i, i \notin 1 .. r.len
        PROVE  what(NULL) = at(i)
    BY ONLY <2>1, <2>3
  <2>. HIDE DEF what, at
  <2>4. ASSUME NEW i \in Index
        PROVE  what(ArrGet(r, i)) = at(i + 1)
    <3>1. i \in Nat
      BY <1>1
    <3>2. CASE i < r.len
      <4>1. i + 1 \in 1 .. r.len
        BY ONLY <1>1, <3>1, <3>2
      <4>2. ArrGet(r, i) = Hop(r, r.ptr, i + 1)
        BY ONLY <3>2 DEF ArrGet
      <4>. QED
        BY ONLY <2>2, <4>1, <4>2
    <3>3. CASE ~ (i < r.len)
      <4>1. i + 1 \notin 1 .. r.len
        BY ONLY <1>1, <3>1, <3>3
      <4>2. ArrGet(r, i) = NULL
        BY ONLY <3>3 DEF ArrGet
      <4>. QED
        BY ONLY <2>3, <4>1, <4>2
    <3>. QED
      BY <3>2, <3>3
  <2>5. what(ArrGetFirst(r)) = at(1) /\ what(ArrGetLast(r)) = at(r.len)
    <3>1. CASE r.len > 0
      <4>1. 1 \in 1 .. r.len /\ r.len \in 1 .. r.len /\ r.len \in 0 .. r.len
        BY ONLY <1>1, <3>1
      <4>2. ArrGetFirst(r) = Hop(r, r.ptr, 1)
        BY ONLY <3>1, HopFew DEF ArrGetFirst, Next1
      <4>3. ArrGetLast(r) = Hop(r, r.ptr, r.len)
        <5>1. PICK g : Sound(r, g, r.len, cur)
          BY <1>2 DEF IInv, ArrInv
        <5>2. g[r.len] = r.ptr /\ \A q \in 0 .. r.len : Hop(r, r.ptr, q) = g[q]
          BY ONLY <1>1, <3>1, <5>1, SoundArr
        <5>. QED
          BY ONLY <3>1, <4>1, <5>2 DEF ArrGetLast
      <4>. QED
        BY ONLY <2>2, <4>1, <4>2, <4>3
    <3>2. CASE ~ (r.len > 0)
      <4>1. 1 \notin 1 .. r.len /\ r.len \notin 1 .. r.len
        BY ONLY <1>1, <3>2
      <4>2. ArrGetFirst(r) = NULL /\ ArrGetLast(r) = NULL
        BY ONLY <3>2 DEF ArrGetFirst, ArrGetLast
      <4>. QED
        BY ONLY <2>3, <4>1, <4>2
    <3>. QED
      BY <3>1, <3>2
  <2>. QED
    BY ONLY <2>4, <2>5
<1>3. ASSUME kind = "obj", NEW k \in Keys
      PROVE  LET hits == {i \in 1 .. r.len : Contents[i][1] = k}
             IN  what(ObjGet(r, k)) = IF hits = {} THEN NULL
                                      ELSE Contents[CHOOSE i \in hits : \A j \in hits : i <= j][2]
  <2> DEFINE hits == {i \in 1 .. r.len : Contents[i][1] = k}
             along == {i \in 1 .. r.len : r.is[Hop(r, r.ptr, 2 * i)] = k}
             first == CHOOSE i \in along : \A j \in along : i <= j
  <2>1. \A i \in 1 .. r.len : /\ Contents[i][1] = r.is[Hop(r, r.ptr, 2 * i)]
                              /\ Contents[i][2] = r.is[Hop(r, r.ptr, 2 * i + 1)]
    BY ONLY <1>3 DEF Contents, Pairs
  <2>2. hits = along
    BY ONLY <2>1
  <2>3. ObjGet(r, k) = IF along = {} THEN NULL ELSE r.next[Hop(r, r.ptr, 2 * first)]
    BY ONLY DEF ObjGet, Next1
  <2>4. along # {} => first \in along
    <3>1. along \subseteq Nat
      BY ONLY <1>1
    <3>. HIDE DEF along
    <3>. QED
      BY ONLY <3>1, Least
  <2>5. along \subseteq 1 .. r.len
    BY ONLY DEF along
  <2>6. (CHOOSE i \in hits : \A j \in hits : i <= j) = first
    BY ONLY <2>2
  <2>. HIDE DEF hits, along, first
  <2>7. CASE along = {}
    BY ONLY <2>2, <2>3, <2>7 DEF hits
  <2>8. CASE along # {}
    <3>1. first \in 1 .. r.len /\ first \in 0 .. r.len /\ r.len > 0
      <4>1. first \in 1 .. r.len
        BY ONLY <2>4, <2>5, <2>8
      <4>. QED
        BY ONLY <1>1, <4>1
    <3>2. PICK g : Paired(r, g, r.len, cur)
      BY <1>3 DEF IInv, ObjInv
    <3>3. /\ \A i \in 0 .. r.len : /\ Hop(r, r.ptr, 2 * i) = g[2 * i]
                                   /\ Hop(r, r.ptr, 2 * i + 1) = r.next[g[2 * i]]
          /\ \A i \in 1 .. r.len : r.next[g[2 * i]] \in 2 .. cur
      BY ONLY <1>1, <3>1, <3>2, PairFacts
    <3>4. ObjGet(r, k) = Hop(r, r.ptr, 2 * first + 1) /\ ObjGet(r, k) \in 2 .. cur
      BY ONLY <2>3, <2>8, <3>1, <3>3
    <3>5. ObjGet(r, k) # NULL
      BY ONLY <1>1, <3>4 DEF NULL
    <3>6. Contents[first][2] = r.is[Hop(r, r.ptr, 2 * first + 1)]
      BY ONLY <2>1, <3>1
    <3>. QED
      BY ONLY <2>2, <2>6, <2>8, <3>4, <3>5, <3>6 DEF hits
  <2>. QED
    BY <2>7, <2>8
<1>. QED
  BY ONLY <1>1, <1>2, <1>3 DEF Reads

-----------------------------------------------------------------------------
(* The functions on sequences, member by member *)

LEMMA SubSeqIs ==
    ASSUME NEW T, NEW s \in Seq(T), NEW a \in Nat, NEW b \in Nat, 0 < a, a <= b + 1, b <= Len(s)
    PROVE  /\ SubSeq(s, a, b) \in Seq(T) /\ Len(SubSeq(s, a, b)) = b - a + 1
           /\ \A i \in 1 .. b - a + 1 : SubSeq(s, a, b)[i] = s[i + a - 1]
<1>1. Len(s) \in Nat /\ \A i \in 1 .. Len(s) : s[i] \in T
  BY LenProperties
<1>2. \A i \in a .. b : s[i] \in T
  BY ONLY <1>1, a \in Nat, b \in Nat, 0 < a, b <= Len(s)
<1>3. a \in Int /\ b \in Int
  OBVIOUS
<1>4. /\ SubSeq(s, a, b) \in Seq(T)
      /\ Len(SubSeq(s, a, b)) = IF a <= b THEN b - a + 1 ELSE 0
      /\ \A i \in 1 .. b - a + 1 : SubSeq(s, a, b)[i] = s[a + i - 1]
  BY ONLY <1>2, <1>3, SubSeqProperties
<1> DEFINE t == SubSeq(s, a, b)
<1>. HIDE DEF t
<1>5. Len(t) = b - a + 1
  BY ONLY <1>4, a \in Nat, b \in Nat, a <= b + 1 DEF t
<1>6. \A i \in 1 .. b - a + 1 : t[i] = s[i + a - 1]
  <2> SUFFICES ASSUME NEW i \in 1 .. b - a + 1
               PROVE  t[i] = s[i + a - 1]
    OBVIOUS
  <2>1. i + a - 1 = a + i - 1
    BY ONLY a \in Nat, b \in Nat, i \in 1 .. b - a + 1
  <2>. QED
    BY ONLY <1>4, <2>1, i \in 1 .. b - a + 1 DEF t
<1>. QED
  BY ONLY <1>4, <1>5, <1>6 DEF t

\* f is s without the n members after the first idx.
LEMMA CutIs ==
    ASSUME NEW T, NEW s \in Seq(T), NEW f \in Seq(T), NEW idx \in Nat, NEW n \in Nat,
           idx + n <= Len(s), Len(f) = Len(s) - n,
           \A i \in 1 .. Len(f) : f[i] = IF i <= idx THEN s[i] ELSE s[i + n]
    PROVE  f = SubSeq(s, 1, idx) \o SubSeq(s, idx + n + 1, Len(s))
<1> DEFINE l == Len(s)
           lo == SubSeq(s, 1, idx)
           hi == SubSeq(s, idx + n + 1, l)
<1>0. l \in Nat
  BY LenProperties
<1>1. lo \in Seq(T) /\ Len(lo) = idx /\ \A i \in 1 .. idx : lo[i] = s[i]
  <2>1. /\ lo \in Seq(T) /\ Len(lo) = idx - 1 + 1
        /\ \A i \in 1 .. idx - 1 + 1 : lo[i] = s[i + 1 - 1]
    <3>1. 1 \in Nat /\ 0 < 1 /\ 1 <= idx + 1 /\ idx <= l
      BY ONLY <1>0, idx \in Nat, n \in Nat, idx + n <= Len(s)
    <3>. QED
      BY ONLY <3>1, SubSeqIs, s \in Seq(T), idx \in Nat
  <2>. HIDE DEF lo
  <2>2. idx - 1 + 1 = idx /\ \A i \in 1 .. idx : i + 1 - 1 = i
    BY ONLY idx \in Nat
  <2>. QED
    BY ONLY <2>1, <2>2
<1> DEFINE a == idx + n + 1
           c == l - a + 1
<1>2. hi \in Seq(T) /\ Len(hi) = l - (idx + n) /\ \A i \in 1 .. l - (idx + n) : hi[i] = s[i + (idx + n)]
  <2>1. a \in Nat /\ 0 < a /\ a <= l + 1 /\ l <= Len(s)
    BY ONLY <1>0, idx \in Nat, n \in Nat, idx + n <= Len(s)
  <2>2. hi = SubSeq(s, a, l)
    OBVIOUS
  <2>3. c = l - (idx + n) /\ \A i \in 1 .. l - (idx + n) : i + a - 1 = i + (idx + n)
    BY ONLY <1>0, idx \in Nat, n \in Nat
  <2>. HIDE DEF a, hi, l
  <2>4. /\ hi \in Seq(T) /\ Len(hi) = c
        /\ \A i \in 1 .. c : hi[i] = s[i + a - 1]
    BY ONLY <1>0, <2>1, <2>2, SubSeqIs, s \in Seq(T)
  <2>. HIDE DEF c
  <2>. QED
    BY ONLY <2>3, <2>4
<1>. HIDE DEF lo, hi, a, c
<1>3. /\ lo \o hi \in Seq(T) /\ Len(lo \o hi) = Len(lo) + Len(hi)
      /\ \A i \in 1 .. Len(lo) + Len(hi) : (lo \o hi)[i] = IF i <= Len(lo) THEN lo[i] ELSE hi[i - Len(lo)]
  BY ONLY <1>1, <1>2, ConcatProperties
<1>4. Len(lo) + Len(hi) = Len(f) /\ Len(f) = l - n
  BY ONLY <1>0, <1>1, <1>2, idx \in Nat, n \in Nat, Len(f) = Len(s) - n DEF l
<1>5. ASSUME NEW i \in 1 .. Len(f)
      PROVE  f[i] = (lo \o hi)[i]
  <2>1. (lo \o hi)[i] = IF i <= idx THEN lo[i] ELSE hi[i - idx]
    BY ONLY <1>1, <1>3, <1>4, i \in 1 .. Len(f)
  <2>2. CASE i <= idx
    <3>1. i \in 1 .. idx
      BY ONLY <1>0, <1>4, <2>2, i \in 1 .. Len(f), n \in Nat, idx \in Nat
    <3>. QED
      BY ONLY <1>1, <2>1, <2>2, <3>1, i \in 1 .. Len(f),
              \A q \in 1 .. Len(f) : f[q] = IF q <= idx THEN s[q] ELSE s[q + n]
  <2>3. CASE ~ (i <= idx)
    <3>1. i - idx \in 1 .. l - (idx + n) /\ (i - idx) + (idx + n) = i + n
      BY ONLY <1>0, <1>4, <2>3, i \in 1 .. Len(f), n \in Nat, idx \in Nat, idx + n <= Len(s) DEF l
    <3>2. hi[i - idx] = s[i + n]
      BY ONLY <1>2, <3>1
    <3>. QED
      BY ONLY <2>1, <2>3, <3>2, i \in 1 .. Len(f),
              \A q \in 1 .. Len(f) : f[q] = IF q <= idx THEN s[q] ELSE s[q + n]
  <2>. QED
    BY <2>2, <2>3
<1>6. f = lo \o hi
  BY ONLY <1>3, <1>4, <1>5, SeqEqual, f \in Seq(T)
<1>. QED
  BY ONLY <1>6 DEF lo, hi, l

\* f is s from its member idx on, then what was before it.
LEMMA TurnedIs ==
    ASSUME NEW T, NEW s \in Seq(T), NEW f \in Seq(T), NEW idx \in Nat, idx <= Len(s), Len(f) = Len(s),
           \A i \in 1 .. Len(s) : f[i] = IF i + idx <= Len(s) THEN s[i + idx] ELSE s[i + idx - Len(s)]
    PROVE  f = SubSeq(s, idx + 1, Len(s)) \o SubSeq(s, 1, idx)
<1> DEFINE l == Len(s)
           a == idx + 1
           lo == SubSeq(s, 1, idx)
           hi == SubSeq(s, a, l)
<1>0. l \in Nat
  BY LenProperties
<1>1. lo \in Seq(T) /\ Len(lo) = idx /\ \A i \in 1 .. idx : lo[i] = s[i]
  <2>1. /\ lo \in Seq(T) /\ Len(lo) = idx - 1 + 1
        /\ \A i \in 1 .. idx - 1 + 1 : lo[i] = s[i + 1 - 1]
    <3>1. 1 \in Nat /\ 0 < 1 /\ 1 <= idx + 1 /\ idx <= l
      BY ONLY <1>0, idx \in Nat, idx <= Len(s)
    <3>. QED
      BY ONLY <3>1, SubSeqIs, s \in Seq(T), idx \in Nat
  <2>. HIDE DEF lo
  <2>2. idx - 1 + 1 = idx /\ \A i \in 1 .. idx : i + 1 - 1 = i
    BY ONLY idx \in Nat
  <2>. QED
    BY ONLY <2>1, <2>2
<1>2. hi \in Seq(T) /\ Len(hi) = l - idx /\ \A i \in 1 .. l - idx : hi[i] = s[i + idx]
  <2>1. a \in Nat /\ 0 < a /\ a <= l + 1 /\ l <= Len(s)
    BY ONLY <1>0, idx \in Nat, idx <= Len(s)
  <2> DEFINE c == l - a + 1
  <2>2. hi = SubSeq(s, a, l)
    OBVIOUS
  <2>3. c = l - idx /\ \A i \in 1 .. l - idx : i + a - 1 = i + idx
    BY ONLY <1>0, idx \in Nat
  <2>. HIDE DEF a, hi, l
  <2>4. /\ hi \in Seq(T) /\ Len(hi) = c
        /\ \A i \in 1 .. c : hi[i] = s[i + a - 1]
    BY ONLY <1>0, <2>1, <2>2, SubSeqIs, s \in Seq(T)
  <2>. HIDE DEF c
  <2>. QED
    BY ONLY <2>3, <2>4
<1>. HIDE DEF lo, hi
<1>3. /\ hi \o lo \in Seq(T) /\ Len(hi \o lo) = Len(hi) + Len(lo)
      /\ \A i \in 1 .. Len(hi) + Len(lo) : (hi \o lo)[i] = IF i <= Len(hi) THEN hi[i] ELSE lo[i - Len(hi)]
  BY ONLY <1>1, <1>2, ConcatProperties
<1>4. Len(hi) + Len(lo) = l
  BY ONLY <1>0, <1>1, <1>2, idx \in Nat
<1>5. ASSUME NEW i \in 1 .. l
      PROVE  f[i] = (hi \o lo)[i]
  <2>1. (hi \o lo)[i] = IF i <= l - idx THEN hi[i] ELSE lo[i - (l - idx)]
    BY ONLY <1>2, <1>3, <1>4, i \in 1 .. l
  <2>2. f[i] = IF i + idx <= l THEN s[i + idx] ELSE s[i + idx - l]
    BY i \in 1 .. l
  <2>3. CASE i <= l - idx
    <3>1. i \in 1 .. l - idx /\ i + idx <= l
      BY ONLY <1>0, <2>3, i \in 1 .. l, idx \in Nat
    <3>. QED
      BY ONLY <1>2, <2>1, <2>2, <2>3, <3>1
  <2>4. CASE ~ (i <= l - idx)
    <3>1. i - (l - idx) \in 1 .. idx /\ i - (l - idx) = i + idx - l /\ ~ (i + idx <= l)
      BY ONLY <1>0, <2>4, i \in 1 .. l, idx \in Nat
    <3>. QED
      BY ONLY <1>1, <2>1, <2>2, <2>4, <3>1
  <2>. QED
    BY <2>3, <2>4
<1>6. f = hi \o lo
  <2>1. Len(f) = Len(hi \o lo) /\ Len(f) = l
    BY <1>3, <1>4
  <2>. QED
    BY ONLY <1>3, <1>5, <2>1, SeqEqual, f \in Seq(T)
<1>. QED
  BY ONLY <1>6 DEF lo, hi, l, a

\* f is s with m after its first idx members.
LEMMA InsertedIs ==
    ASSUME NEW T, NEW s \in Seq(T), NEW f \in Seq(T), NEW idx \in Nat, idx <= Len(s), NEW m \in T,
           Len(f) = Len(s) + 1,
           \A i \in 1 .. Len(f) : f[i] = IF i <= idx THEN s[i] ELSE IF i = idx + 1 THEN m ELSE s[i - 1]
    PROVE  /\ f = SubSeq(s, 1, idx) \o <<m>> \o SubSeq(s, idx + 1, Len(s))
           /\ idx = Len(s) => f = Append(s, m)
<1> DEFINE l == Len(s)
           a == idx + 1
           lo == SubSeq(s, 1, idx)
           hi == SubSeq(s, a, l)
           one == <<m>>
<1>0. l \in Nat
  BY LenProperties
<1>1. lo \in Seq(T) /\ Len(lo) = idx /\ \A i \in 1 .. idx : lo[i] = s[i]
  <2>1. /\ lo \in Seq(T) /\ Len(lo) = idx - 1 + 1
        /\ \A i \in 1 .. idx - 1 + 1 : lo[i] = s[i + 1 - 1]
    <3>1. 1 \in Nat /\ 0 < 1 /\ 1 <= idx + 1 /\ idx <= l
      BY ONLY <1>0, idx \in Nat, idx <= Len(s)
    <3>. QED
      BY ONLY <3>1, SubSeqIs, s \in Seq(T), idx \in Nat
  <2>. HIDE DEF lo
  <2>2. idx - 1 + 1 = idx /\ \A i \in 1 .. idx : i + 1 - 1 = i
    BY ONLY idx \in Nat
  <2>. QED
    BY ONLY <2>1, <2>2
<1>2. hi \in Seq(T) /\ Len(hi) = l - idx /\ \A i \in 1 .. l - idx : hi[i] = s[i + idx]
  <2>1. a \in Nat /\ 0 < a /\ a <= l + 1 /\ l <= Len(s)
    BY ONLY <1>0, idx \in Nat, idx <= Len(s)
  <2> DEFINE c == l - a + 1
  <2>2. hi = SubSeq(s, a, l)
    OBVIOUS
  <2>3. c = l - idx /\ \A i \in 1 .. l - idx : i + a - 1 = i + idx
    BY ONLY <1>0, idx \in Nat
  <2>. HIDE DEF a, hi, l
  <2>4. /\ hi \in Seq(T) /\ Len(hi) = c
        /\ \A i \in 1 .. c : hi[i] = s[i + a - 1]
    BY ONLY <1>0, <2>1, <2>2, SubSeqIs, s \in Seq(T)
  <2>. HIDE DEF c
  <2>. QED
    BY ONLY <2>3, <2>4
<1>3. one \in Seq(T) /\ Len(one) = 1 /\ one[1] = m
  BY m \in T
<1>. HIDE DEF lo, hi, one
<1> DEFINE two == lo \o one
           all == two \o hi
<1>4. two \in Seq(T) /\ Len(two) = idx + 1 /\ (\A i \in 1 .. idx : two[i] = s[i]) /\ two[idx + 1] = m
  <2>1. /\ two \in Seq(T) /\ Len(two) = Len(lo) + Len(one)
        /\ \A i \in 1 .. Len(lo) + Len(one) : two[i] = IF i <= Len(lo) THEN lo[i] ELSE one[i - Len(lo)]
    BY ONLY <1>1, <1>3, ConcatProperties
  <2>. HIDE DEF two
  <2>2. \A i \in 1 .. idx + 1 : two[i] = IF i <= idx THEN lo[i] ELSE one[i - idx]
    BY ONLY <1>1, <1>3, <2>1
  <2>3. \A i \in 1 .. idx : i \in 1 .. idx + 1 /\ i <= idx
    BY ONLY idx \in Nat
  <2>4. idx + 1 \in 1 .. idx + 1 /\ ~ (idx + 1 <= idx) /\ idx + 1 - idx = 1
    BY ONLY idx \in Nat
  <2>5. \A i \in 1 .. idx : two[i] = s[i]
    BY ONLY <1>1, <2>2, <2>3
  <2>6. two[idx + 1] = m
    BY ONLY <1>3, <2>2, <2>4
  <2>. QED
    BY ONLY <1>1, <1>3, <2>1, <2>5, <2>6
<1>. HIDE DEF two
<1>5. /\ all \in Seq(T) /\ Len(all) = Len(two) + Len(hi)
      /\ \A i \in 1 .. Len(two) + Len(hi) : all[i] = IF i <= Len(two) THEN two[i] ELSE hi[i - Len(two)]
  BY ONLY <1>2, <1>4, ConcatProperties
<1>. HIDE DEF all
<1>6. Len(two) + Len(hi) = l + 1
  BY ONLY <1>0, <1>2, <1>4, idx \in Nat
<1>7. ASSUME NEW i \in 1 .. l + 1
      PROVE  f[i] = all[i]
  <2>1. all[i] = IF i <= idx + 1 THEN two[i] ELSE hi[i - (idx + 1)]
    BY ONLY <1>4, <1>5, <1>6, i \in 1 .. l + 1
  <2>2. f[i] = IF i <= idx THEN s[i] ELSE IF i = idx + 1 THEN m ELSE s[i - 1]
    BY i \in 1 .. l + 1
  <2>3. CASE i <= idx
    <3>1. i \in 1 .. idx /\ i <= idx + 1
      BY ONLY <1>0, <2>3, i \in 1 .. l + 1, idx \in Nat
    <3>. QED
      BY ONLY <1>4, <2>1, <2>2, <2>3, <3>1
  <2>4. CASE i = idx + 1
    <3>1. ~ (i <= idx) /\ i <= idx + 1
      BY ONLY <2>4, idx \in Nat
    <3>. QED
      BY ONLY <1>4, <2>1, <2>2, <2>4, <3>1
  <2>5. CASE i > idx + 1
    <3>1. ~ (i <= idx) /\ ~ (i = idx + 1) /\ ~ (i <= idx + 1) /\ i - (idx + 1) \in 1 .. l - idx
          /\ (i - (idx + 1)) + idx = i - 1
      BY ONLY <1>0, <2>5, i \in 1 .. l + 1, idx \in Nat
    <3>2. hi[i - (idx + 1)] = s[i - 1]
      BY ONLY <1>2, <3>1
    <3>. QED
      BY ONLY <2>1, <2>2, <3>1, <3>2
  <2>6. i <= idx \/ i = idx + 1 \/ i > idx + 1
    BY ONLY <1>0, i \in 1 .. l + 1, idx \in Nat
  <2>. QED
    BY ONLY <2>3, <2>4, <2>5, <2>6
<1>8. f = all
  <2>1. Len(f) = Len(all) /\ Len(f) = l + 1
    BY <1>5, <1>6
  <2>. QED
    BY ONLY <1>5, <1>7, <2>1, SeqEqual, f \in Seq(T)
<1>9. all = SubSeq(s, 1, idx) \o <<m>> \o SubSeq(s, idx + 1, Len(s))
  BY ONLY DEF all, two, one, lo, hi, a, l
<1>10. ASSUME idx = Len(s)
       PROVE  f = Append(s, m)
  <2> DEFINE t == Append(s, m)
  <2>1. /\ t \in Seq(T) /\ Len(t) = l + 1 /\ (\A i \in 1 .. l : t[i] = s[i]) /\ t[l + 1] = m
    BY AppendProperties
  <2>. HIDE DEF t
  <2>2. ASSUME NEW i \in 1 .. l + 1
        PROVE  f[i] = t[i]
    <3>1. f[i] = IF i <= l THEN s[i] ELSE IF i = l + 1 THEN m ELSE s[i - 1]
      BY <1>10
    <3>2. (i \in 1 .. l /\ i <= l) \/ (i = l + 1 /\ ~ (i <= l))
      BY ONLY <1>0, i \in 1 .. l + 1
    <3>. QED
      BY ONLY <2>1, <3>1, <3>2
  <2>3. Len(f) = Len(t) /\ Len(f) = l + 1
    BY <2>1
  <2>4. f = t
    BY ONLY <2>1, <2>2, <2>3, SeqEqual, f \in Seq(T)
  <2>. QED
    BY ONLY <2>4 DEF t
<1>. QED
  BY ONLY <1>8, <1>9, <1>10

-----------------------------------------------------------------------------
(* What the functions on arrays do to the sequence of elements *)

\* h goes along the elements of ring.
Runs(ring, h, top) == Sound(ring, h, ring.len, top)

LEMMA ElementsAre ==
    ASSUME NEW N \in Nat, NEW ring \in Rings(N), NEW h, NEW top \in 0 .. N, Runs(ring, h, top)
    PROVE  /\ Elements(ring) \in Seq(What) /\ Len(Elements(ring)) = ring.len
           /\ \A i \in 1 .. ring.len : Elements(ring)[i] = ring.is[h[i]]
<1> DEFINE s == Elements(ring)
           l == ring.len
<1>0. l \in Nat /\ ring.is \in [1 .. N -> What]
  BY DEF Rings
<1>1. DOMAIN s = 1 .. l /\ s = [i \in 1 .. l |-> s[i]]
      /\ \A i \in 1 .. l : s[i] = ring.is[Hop(ring, ring.ptr, i)]
  BY DEF Elements
<1>2. ASSUME NEW i \in 1 .. l
      PROVE  s[i] = ring.is[h[i]] /\ s[i] \in What
  <2>1. l > 0 /\ i \in 0 .. l
    BY ONLY <1>0, i \in 1 .. l
  <2>2. \A q \in 0 .. l : h[q] \in 1 .. N /\ Hop(ring, ring.ptr, q) = h[q]
    BY ONLY <2>1, SoundArr, N \in Nat, ring \in Rings(N), top \in 0 .. N, Runs(ring, h, top) DEF Runs
  <2>3. Hop(ring, ring.ptr, i) = h[i] /\ h[i] \in 1 .. N
    BY ONLY <2>1, <2>2
  <2>4. ring.is[h[i]] \in What
    BY ONLY <1>0, <2>3
  <2>. QED
    BY ONLY <1>1, <2>3, <2>4, i \in 1 .. l
<1>. HIDE DEF s
<1>3. s \in [1 .. l -> What]
  BY ONLY <1>1, <1>2
<1>4. s \in Seq(What) /\ Len(s) = l
  BY ONLY <1>0, <1>3
<1>. QED
  BY ONLY <1>2, <1>4 DEF s, l

\* Of a ring and what a function made of it, both gone along.
Both(N, ring, g, made, h, top) ==
    /\ ring \in Rings(N) /\ made \in Rings(N) /\ made.is = ring.is
    /\ Runs(ring, g, top) /\ Runs(made, h, top)

\* s with m after its first idx members, without the n members after them,
\* and from the member after them on.
PutAt(s, idx, m) == SubSeq(s, 1, idx) \o <<m>> \o SubSeq(s, idx + 1, Len(s))
CutOut(s, idx, n) == SubSeq(s, 1, idx) \o SubSeq(s, idx + n + 1, Len(s))
TurnedTo(s, idx) == SubSeq(s, idx + 1, Len(s)) \o SubSeq(s, 1, idx)

\* The same of the cells h goes through and the n that g goes through.
PutsAt(g, h, n, idx, v) ==
    \A i \in 1 .. n + 1 : h[i] = IF i <= idx THEN g[i] ELSE IF i = idx + 1 THEN v ELSE g[i - 1]
TurnsTo(g, h, n, idx) ==
    \A i \in 1 .. n : h[i] = IF i <= n - idx THEN g[i + idx] ELSE g[i + idx - n]
SwapsAt(g, h, n, idx, v) == \A i \in 1 .. n : h[i] = IF i = idx + 1 THEN v ELSE g[i]

Puts(s, f, idx, m) == f = PutAt(s, idx, m) /\ (idx = Len(s) => f = Append(s, m))

LEMMA InsertTells ==
    ASSUME NEW N \in Nat, NEW ring, NEW g, NEW top \in 0 .. N, NEW made, NEW h,
           Both(N, ring, g, made, h, top), NEW v, NEW idx \in Nat, idx <= ring.len,
           made.len = ring.len + 1,
           PutsAt(g, h, ring.len, idx, v), NEW m \in What, m = ring.is[v]
    PROVE  Puts(Elements(ring), Elements(made), idx, m)
<1> DEFINE s == Elements(ring)
           f == Elements(made)
           l == ring.len
<1>0. /\ ring \in Rings(N) /\ made \in Rings(N) /\ made.is = ring.is
      /\ Runs(ring, g, top) /\ Runs(made, h, top)
  BY DEF Both
<1>1. l \in Nat /\ ring.is \in [1 .. N -> What]
  BY ONLY <1>0 DEF Rings
<1>2. s \in Seq(What) /\ Len(s) = l /\ \A i \in 1 .. l : s[i] = ring.is[g[i]]
  BY ONLY <1>0, N \in Nat, top \in 0 .. N, ElementsAre
<1>3. f \in Seq(What) /\ Len(f) = made.len /\ \A i \in 1 .. made.len : f[i] = made.is[h[i]]
  BY ONLY <1>0, N \in Nat, top \in 0 .. N, ElementsAre
<1>. HIDE DEF s, f
<1>4. m \in What
  OBVIOUS
<1>5. ASSUME NEW i \in 1 .. l + 1
      PROVE  f[i] = IF i <= idx THEN s[i] ELSE IF i = idx + 1 THEN m ELSE s[i - 1]
  <2>1. f[i] = ring.is[h[i]] /\ h[i] = IF i <= idx THEN g[i] ELSE IF i = idx + 1 THEN v ELSE g[i - 1]
    BY <1>0, <1>3 DEF PutsAt
  <2>2. CASE i <= idx
    <3>1. i \in 1 .. l
      BY ONLY <1>1, <2>2, idx \in Nat, idx <= ring.len, i \in 1 .. l + 1
    <3>. QED
      BY ONLY <1>2, <2>1, <2>2, <3>1
  <2>3. CASE ~ (i <= idx) /\ i = idx + 1
    BY ONLY <2>1, <2>3, m = ring.is[v]
  <2>4. CASE ~ (i <= idx) /\ ~ (i = idx + 1)
    <3>1. i - 1 \in 1 .. l
      BY ONLY <1>1, <2>4, idx \in Nat, idx <= ring.len, i \in 1 .. l + 1
    <3>. QED
      BY ONLY <1>2, <2>1, <2>4, <3>1
  <2>. QED
    BY ONLY <2>2, <2>3, <2>4
<1>6. Len(f) = Len(s) + 1 /\ idx \in Nat /\ idx <= Len(s)
  BY ONLY <1>1, <1>2, <1>3, idx \in Nat, idx <= ring.len, made.len = ring.len + 1
<1>7. \A i \in 1 .. Len(f) : f[i] = IF i <= idx THEN s[i] ELSE IF i = idx + 1 THEN m ELSE s[i - 1]
  BY ONLY <1>2, <1>5, <1>6
<1>8. /\ f = SubSeq(s, 1, idx) \o <<m>> \o SubSeq(s, idx + 1, Len(s))
      /\ idx = Len(s) => f = Append(s, m)
  BY ONLY ZenonT(30), <1>2, <1>3, <1>4, <1>6, <1>7, InsertedIs
<1>. QED
  BY ONLY <1>2, <1>8 DEF s, f, l, PutAt, Puts

LEMMA CutTells ==
    ASSUME NEW N \in Nat, NEW ring, NEW g, NEW top \in 0 .. N, NEW made, NEW h,
           Both(N, ring, g, made, h, top), NEW idx \in Nat, NEW n \in Nat, idx + n <= ring.len,
           made.len = ring.len - n,
           CutsOut(g, h, ring.len, idx, n)
    PROVE  Elements(made) = CutOut(Elements(ring), idx, n)
<1> DEFINE s == Elements(ring)
           f == Elements(made)
           l == ring.len
<1>0. /\ ring \in Rings(N) /\ made \in Rings(N) /\ made.is = ring.is
      /\ Runs(ring, g, top) /\ Runs(made, h, top)
  BY DEF Both
<1>1. l \in Nat
  BY ONLY <1>0 DEF Rings
<1>2. s \in Seq(What) /\ Len(s) = l /\ \A i \in 1 .. l : s[i] = ring.is[g[i]]
  BY ONLY <1>0, N \in Nat, top \in 0 .. N, ElementsAre
<1>3. f \in Seq(What) /\ Len(f) = made.len /\ \A i \in 1 .. made.len : f[i] = made.is[h[i]]
  BY ONLY <1>0, N \in Nat, top \in 0 .. N, ElementsAre
<1>. HIDE DEF s, f
<1>5. ASSUME NEW i \in 1 .. l - n
      PROVE  f[i] = IF i <= idx THEN s[i] ELSE s[i + n]
  <2>1. f[i] = ring.is[h[i]] /\ h[i] = IF i <= idx THEN g[i] ELSE g[i + n]
    BY <1>0, <1>3 DEF CutsOut
  <2>2. i \in 1 .. l /\ i + n \in 1 .. l
    BY ONLY <1>1, idx \in Nat, n \in Nat, idx + n <= ring.len, i \in 1 .. l - n
  <2>. QED
    BY ONLY <1>2, <2>1, <2>2
<1>6. Len(f) = Len(s) - n /\ idx + n <= Len(s) /\ Len(f) = l - n
  BY ONLY <1>2, <1>3, idx + n <= ring.len, made.len = ring.len - n
<1>7. \A i \in 1 .. Len(f) : f[i] = IF i <= idx THEN s[i] ELSE s[i + n]
  BY ONLY <1>5, <1>6
<1>8. f = SubSeq(s, 1, idx) \o SubSeq(s, idx + n + 1, Len(s))
  <2>1. Len(f) = Len(s) - n /\ idx + n <= Len(s)
    BY ONLY <1>6
  <2>. QED
    BY ONLY <1>2, <1>3, <1>7, <2>1, CutIs, idx \in Nat, n \in Nat
<1>. QED
  BY ONLY <1>8 DEF s, f, CutOut

LEMMA TurnTells ==
    ASSUME NEW N \in Nat, NEW ring, NEW g, NEW top \in 0 .. N, NEW made, NEW h,
           Both(N, ring, g, made, h, top), NEW idx \in Nat, idx < ring.len, made.len = ring.len,
           TurnsTo(g, h, ring.len, idx)
    PROVE  Elements(made) = TurnedTo(Elements(ring), idx)
<1> DEFINE s == Elements(ring)
           f == Elements(made)
           l == ring.len
<1>0. /\ ring \in Rings(N) /\ made \in Rings(N) /\ made.is = ring.is
      /\ Runs(ring, g, top) /\ Runs(made, h, top)
  BY DEF Both
<1>1. l \in Nat
  BY ONLY <1>0 DEF Rings
<1>2. s \in Seq(What) /\ Len(s) = l /\ \A i \in 1 .. l : s[i] = ring.is[g[i]]
  BY ONLY <1>0, N \in Nat, top \in 0 .. N, ElementsAre
<1>3. f \in Seq(What) /\ Len(f) = l /\ \A i \in 1 .. l : f[i] = made.is[h[i]]
  BY ONLY <1>0, N \in Nat, top \in 0 .. N, made.len = ring.len, ElementsAre
<1>. HIDE DEF s, f
<1>5. ASSUME NEW i \in 1 .. l
      PROVE  f[i] = IF i + idx <= l THEN s[i + idx] ELSE s[i + idx - l]
  <2>1. f[i] = ring.is[h[i]] /\ h[i] = IF i <= l - idx THEN g[i + idx] ELSE g[i + idx - l]
    BY <1>0, <1>3 DEF TurnsTo
  <2>2. \/ i + idx <= l /\ i <= l - idx /\ i + idx \in 1 .. l
        \/ ~ (i + idx <= l) /\ ~ (i <= l - idx) /\ i + idx - l \in 1 .. l
    BY ONLY <1>1, idx \in Nat, idx < ring.len, i \in 1 .. l
  <2>. QED
    BY ONLY <1>2, <2>1, <2>2
<1>6. idx <= Len(s) /\ Len(f) = Len(s)
  BY ONLY <1>1, <1>2, <1>3, idx \in Nat, idx < ring.len
<1>7. \A i \in 1 .. Len(s) : f[i] = IF i + idx <= Len(s) THEN s[i + idx] ELSE s[i + idx - Len(s)]
  BY ONLY <1>2, <1>5
<1>8. f = SubSeq(s, idx + 1, Len(s)) \o SubSeq(s, 1, idx)
  BY ONLY <1>2, <1>3, <1>6, <1>7, TurnedIs, idx \in Nat
<1>. QED
  BY ONLY <1>8 DEF s, f, TurnedTo

LEMMA ReplaceTells ==
    ASSUME NEW N \in Nat, NEW ring, NEW g, NEW top \in 0 .. N, NEW made, NEW h,
           Both(N, ring, g, made, h, top), NEW v, NEW idx \in Nat, idx < ring.len,
           made.len = ring.len,
           SwapsAt(g, h, ring.len, idx, v), NEW m, m = ring.is[v]
    PROVE  Elements(made) = [Elements(ring) EXCEPT ![idx + 1] = m]
<1> DEFINE s == Elements(ring)
           f == Elements(made)
           l == ring.len
<1>0. /\ ring \in Rings(N) /\ made \in Rings(N) /\ made.is = ring.is
      /\ Runs(ring, g, top) /\ Runs(made, h, top)
  BY DEF Both
<1>1. l \in Nat /\ idx + 1 \in 1 .. l
  <2>1. l \in Nat
    BY ONLY <1>0 DEF Rings
  <2>. QED
    BY ONLY <2>1, idx \in Nat, idx < ring.len
<1>2. s \in Seq(What) /\ Len(s) = l /\ \A i \in 1 .. l : s[i] = ring.is[g[i]]
  BY ONLY <1>0, N \in Nat, top \in 0 .. N, ElementsAre
<1>3. f \in Seq(What) /\ Len(f) = l /\ \A i \in 1 .. l : f[i] = made.is[h[i]]
  BY ONLY <1>0, N \in Nat, top \in 0 .. N, made.len = ring.len, ElementsAre
<1>. HIDE DEF s, f
<1>4. s \in [1 .. l -> What] /\ f \in [1 .. l -> What]
  BY ONLY <1>2, <1>3, LenProperties
<1>5. \A i \in 1 .. l : f[i] = IF i = idx + 1 THEN m ELSE s[i]
  BY <1>0, <1>2, <1>3 DEF SwapsAt
<1>6. f = [s EXCEPT ![idx + 1] = m]
  BY ONLY <1>1, <1>4, <1>5
<1>. QED
  BY ONLY <1>6 DEF s, f

LEMMA ArrInsertPuts ==
    ASSUME NEW N \in Nat, NEW ring \in Rings(N), NEW g, NEW top \in 0 .. N,
           Sound(ring, g, ring.len, top),
           NEW v \in 2 .. top, \A i \in 1 .. ring.len : g[i] # v,
           NEW idx \in 0 .. ring.len
    PROVE  LET made == ArrInsert(ring, v, idx)
           IN  /\ made \in Rings(N) /\ made.len = ring.len + 1 /\ made.is = ring.is
               /\ \E h : Sound(made, h, made.len, top) /\ PutsAt(g, h, ring.len, idx, v)
  BY ArrInsertSound DEF PutsAt

LEMMA ArrReplaceSwaps ==
    ASSUME NEW N \in Nat, NEW ring \in Rings(N), NEW g, NEW top \in 0 .. N,
           Sound(ring, g, ring.len, top),
           NEW v \in 2 .. top, \A i \in 1 .. ring.len : g[i] # v,
           NEW idx \in Nat, idx < ring.len
    PROVE  LET made == ArrReplace(ring, idx, v)
           IN  /\ made \in Rings(N) /\ made.len = ring.len /\ made.is = ring.is
               /\ \E h : Sound(made, h, made.len, top) /\ SwapsAt(g, h, ring.len, idx, v)
  BY ArrReplaceSound DEF SwapsAt

LEMMA NoneAre ==
    ASSUME NEW ring, ring.len = 0
    PROVE  Elements(ring) = <<>> /\ Pairs(ring) = <<>>
<1>1. /\ Elements(ring) = [i \in 1 .. 0 |-> ring.is[Hop(ring, ring.ptr, i)]]
      /\ Pairs(ring) = [i \in 1 .. 0 |-> <<ring.is[Hop(ring, ring.ptr, 2 * i)],
                                             ring.is[Hop(ring, ring.ptr, 2 * i + 1)]>>]
  BY DEF Elements, Pairs
<1>2. 1 .. 0 = {}
  OBVIOUS
<1>. HIDE DEF Hop
<1>. QED
  BY <1>1, <1>2

LEMMA ArrGrowsTells ==
    ASSUME NEW N \in Nat, NEW ring \in Rings(N), NEW g, NEW top \in 0 .. N,
           Sound(ring, g, ring.len, top),
           NEW v \in 2 .. top, \A i \in 1 .. ring.len : g[i] # v, NEW idx \in Nat
    PROVE  LET s == Elements(ring)
               m == ring.is[v]
           IN  /\ Elements(ArrInsert(ring, v, idx)) = IF idx <= ring.len THEN PutAt(s, idx, m) ELSE s
               /\ Elements(ArrReplace(ring, idx, v)) =
                    IF idx < ring.len THEN [s EXCEPT ![idx + 1] = m] ELSE s
               /\ Elements(ArrAppend(ring, v)) = Append(s, m)
               /\ Elements(ArrPrepend(ring, v)) = PutAt(s, 0, m)
<1> DEFINE s == Elements(ring)
           m == ring.is[v]
<1>1. /\ ring.len \in Nat /\ v \in 1 .. N /\ 0 \in 0 .. ring.len /\ ring.len \in 0 .. ring.len
      /\ v # NULL
  BY DEF Rings, NULL
<1>2. ASSUME NEW i \in 0 .. ring.len
      PROVE  /\ Elements(ArrInsert(ring, v, i)) = PutAt(s, i, m)
             /\ i = ring.len => Elements(ArrInsert(ring, v, i)) = Append(s, m)
  <2> DEFINE made == ArrInsert(ring, v, i)
             l == ring.len + 1
  <2>1. /\ made \in Rings(N) /\ made.len = ring.len + 1 /\ made.is = ring.is
        /\ \E h : Sound(made, h, made.len, top) /\ PutsAt(g, h, ring.len, i, v)
    BY ONLY ArrInsertPuts, N \in Nat, ring \in Rings(N), top \in 0 .. N, v \in 2 .. top,
            Sound(ring, g, ring.len, top), \A q \in 1 .. ring.len : g[q] # v, i \in 0 .. ring.len
  <2>. HIDE DEF made
  <2>2. PICK h : Sound(made, h, made.len, top) /\ PutsAt(g, h, ring.len, i, v)
    BY ONLY <2>1
  <2>3. Both(N, ring, g, made, h, top)
    BY ONLY <2>1, <2>2, ring \in Rings(N), Sound(ring, g, ring.len, top) DEF Both, Runs
  <2>4. /\ Elements(made) = PutAt(s, i, m)
        /\ i = ring.len => Elements(made) = Append(s, m)
    <3>1. made.len = ring.len + 1 /\ i \in Nat /\ i <= ring.len
      BY ONLY <1>1, <2>1, i \in 0 .. ring.len
    <3>2. m = ring.is[v] /\ m \in What
      BY ONLY <1>1, ring \in Rings(N) DEF Rings
    <3>3. Len(s) = ring.len
      BY ONLY N \in Nat, ring \in Rings(N), top \in 0 .. N, Sound(ring, g, ring.len, top), ElementsAre DEF Runs
    <3>. HIDE DEF m
    <3>4. Puts(s, Elements(made), i, m)
      BY ONLY <2>2, <2>3, <3>1, <3>2, N \in Nat, top \in 0 .. N, InsertTells
    <3>. QED
      BY ONLY <3>3, <3>4 DEF Puts
  <2>. QED
    BY ONLY <2>4 DEF made
<1>3. Elements(ArrInsert(ring, v, idx)) = IF idx <= ring.len THEN PutAt(s, idx, m) ELSE s
  <2>1. CASE idx <= ring.len
    <3>1. idx \in 0 .. ring.len
      BY ONLY <1>1, <2>1, idx \in Nat
    <3>. QED
      BY ONLY <1>2, <2>1, <3>1
  <2>2. CASE ~ (idx <= ring.len)
    <3>1. idx > ring.len
      BY ONLY <1>1, <2>2, idx \in Nat
    <3>2. ArrInsert(ring, v, idx) = ring
      BY ONLY <3>1 DEF ArrInsert
    <3>. QED
      BY ONLY <2>2, <3>2
  <2>. QED
    BY ONLY <2>1, <2>2
<1>4. Elements(ArrReplace(ring, idx, v)) = IF idx < ring.len THEN [s EXCEPT ![idx + 1] = m] ELSE s
  <2> DEFINE made == ArrReplace(ring, idx, v)
  <2>1. CASE idx < ring.len
    <3>1. /\ made \in Rings(N) /\ made.len = ring.len /\ made.is = ring.is
          /\ \E h : Sound(made, h, made.len, top) /\ SwapsAt(g, h, ring.len, idx, v)
      BY ONLY ArrReplaceSwaps, N \in Nat, ring \in Rings(N), top \in 0 .. N, v \in 2 .. top,
              Sound(ring, g, ring.len, top), \A q \in 1 .. ring.len : g[q] # v, idx \in Nat, <2>1
    <3>. HIDE DEF made
    <3>2. PICK h : Sound(made, h, made.len, top) /\ SwapsAt(g, h, ring.len, idx, v)
      BY ONLY <3>1
    <3>3. Both(N, ring, g, made, h, top)
      BY ONLY <3>1, <3>2, ring \in Rings(N), Sound(ring, g, ring.len, top) DEF Both, Runs
    <3>4. Elements(made) = [s EXCEPT ![idx + 1] = m]
      <4>1. m = ring.is[v] /\ made.len = ring.len
        BY <3>1
      <4>. HIDE DEF m
      <4>. QED
        BY ONLY <2>1, <3>2, <3>3, <4>1, N \in Nat, top \in 0 .. N, idx \in Nat, ReplaceTells
    <3>. QED
      BY ONLY <2>1, <3>4 DEF made
  <2>2. CASE ~ (idx < ring.len)
    <3>1. idx >= ring.len
      BY ONLY <1>1, <2>2, idx \in Nat
    <3>2. ArrReplace(ring, idx, v) = ring
      BY ONLY <3>1 DEF ArrReplace
    <3>. QED
      BY ONLY <2>2, <3>2
  <2>. QED
    BY ONLY <2>1, <2>2
<1>5. ArrAppend(ring, v) = ArrInsert(ring, v, ring.len) /\ ArrPrepend(ring, v) = ArrInsert(ring, v, 0)
  BY <1>1, ArrAppendIs, ArrPrependIs
<1>. QED
  BY ONLY <1>1, <1>2, <1>3, <1>4, <1>5

LEMMA ArrAppendTells ==
    ASSUME NEW N \in Nat, NEW ring \in Rings(N), NEW g, NEW top \in 0 .. N,
           Sound(ring, g, ring.len, top),
           NEW v \in 2 .. top, \A i \in 1 .. ring.len : g[i] # v
    PROVE  Elements(ArrAppend(ring, v)) = Append(Elements(ring), ring.is[v])
<1>1. 0 \in Nat
  OBVIOUS
<1>. QED
  BY <1>1, ArrGrowsTells

LEMMA ArrShrinksTells ==
    ASSUME NEW N \in Nat, NEW ring \in Rings(N), NEW g, NEW top \in 0 .. N,
           Sound(ring, g, ring.len, top), NEW idx \in Nat, NEW n \in Nat
    PROVE  LET s == Elements(ring)
           IN  /\ Elements(ArrRemoveRange(ring, idx, n)) =
                    IF idx + n <= ring.len THEN CutOut(s, idx, n) ELSE s
               /\ Elements(ArrRemove(ring, idx)) = IF idx < ring.len THEN CutOut(s, idx, 1) ELSE s
               /\ Elements(ArrRemoveFirst(ring)) = IF ring.len > 0 THEN CutOut(s, 0, 1) ELSE s
               /\ Elements(ArrRemoveLast(ring)) =
                    IF ring.len > 0 THEN CutOut(s, ring.len - 1, 1) ELSE s
               /\ Elements(ArrClear(ring)) = <<>>
               /\ Elements(ArrRotate(ring, idx)) = IF idx < ring.len THEN TurnedTo(s, idx) ELSE s
<1> DEFINE s == Elements(ring)
<1>1. ring.len \in Nat
  BY DEF Rings
<1>2. ASSUME NEW i \in Nat, NEW q \in Nat, q > 0, i + q <= ring.len
      PROVE  Elements(ArrRemoveRange(ring, i, q)) = CutOut(s, i, q)
  <2> DEFINE made == ArrRemoveRange(ring, i, q)
  <2>1. /\ made \in Rings(N) /\ made.len = ring.len - q /\ made.is = ring.is
        /\ \E h : Sound(made, h, made.len, top) /\ CutsOut(g, h, ring.len, i, q)
    BY ONLY ArrRemoveRangeSound, N \in Nat, ring \in Rings(N), top \in 0 .. N,
            Sound(ring, g, ring.len, top), i \in Nat, q \in Nat, q > 0, i + q <= ring.len
  <2>. HIDE DEF made
  <2>2. PICK h : Sound(made, h, made.len, top) /\ CutsOut(g, h, ring.len, i, q)
    BY ONLY <2>1
  <2>3. Both(N, ring, g, made, h, top)
    BY ONLY <2>1, <2>2, ring \in Rings(N), Sound(ring, g, ring.len, top) DEF Both, Runs
  <2>4. Elements(made) = CutOut(s, i, q)
    <3>1. made.len = ring.len - q
      BY ONLY <2>1
    <3>. QED
      BY ONLY <2>2, <2>3, <3>1, N \in Nat, top \in 0 .. N, i \in Nat, q \in Nat, i + q <= ring.len, CutTells
  <2>. QED
    BY ONLY <2>4 DEF made
<1>3. s \in Seq(What) /\ Len(s) = ring.len
  BY ONLY N \in Nat, ring \in Rings(N), top \in 0 .. N, Sound(ring, g, ring.len, top), ElementsAre DEF Runs
<1>. HIDE DEF s
<1>4. Elements(ArrRemoveRange(ring, idx, n)) = IF idx + n <= ring.len THEN CutOut(s, idx, n) ELSE s
  <2>1. CASE n > 0 /\ idx + n <= ring.len
    BY ONLY <1>2, <2>1, idx \in Nat, n \in Nat
  <2>2. CASE ~ (idx + n <= ring.len)
    <3>1. idx + n > ring.len
      BY ONLY <1>1, <2>2, idx \in Nat, n \in Nat
    <3>2. ArrRemoveRange(ring, idx, n) = ring
      BY ONLY <3>1 DEF ArrRemoveRange
    <3>. QED
      BY ONLY <2>2, <3>2 DEF s
  <2>3. CASE n = 0 /\ idx + n <= ring.len
    <3>1. ArrRemoveRange(ring, idx, n) = ring
      BY ONLY <2>3 DEF ArrRemoveRange
    <3>2. /\ idx + n <= Len(s) /\ Len(s) = Len(s) - n
          /\ \A i \in 1 .. Len(s) : i + n = i
      BY ONLY <1>1, <1>3, <2>3
    <3>3. \A i \in 1 .. Len(s) : s[i] = IF i <= idx THEN s[i] ELSE s[i + n]
      BY ONLY <3>2
    <3>4. s = CutOut(s, idx, n)
      BY ONLY <1>3, <3>2, <3>3, CutIs, idx \in Nat, n \in Nat DEF CutOut
    <3>. QED
      BY ONLY <2>3, <3>1, <3>4 DEF s
  <2>4. n > 0 \/ n = 0
    BY ONLY n \in Nat
  <2>. QED
    BY ONLY <2>1, <2>2, <2>3, <2>4
<1>5. Elements(ArrRemove(ring, idx)) = IF idx < ring.len THEN CutOut(s, idx, 1) ELSE s
  <2>1. CASE idx < ring.len
    <3>1. ArrRemove(ring, idx) = ArrRemoveRange(ring, idx, 1)
      BY <2>1, ArrRemoveIs
    <3>2. 1 \in Nat /\ 1 > 0 /\ idx + 1 <= ring.len
      BY ONLY <1>1, <2>1, idx \in Nat
    <3>. QED
      BY ONLY <1>2, <2>1, <3>1, <3>2, idx \in Nat
  <2>2. CASE ~ (idx < ring.len)
    <3>1. idx >= ring.len
      BY ONLY <1>1, <2>2, idx \in Nat
    <3>2. ArrRemove(ring, idx) = ring
      BY ONLY <3>1 DEF ArrRemove
    <3>. QED
      BY ONLY <2>2, <3>2 DEF s
  <2>. QED
    BY ONLY <2>1, <2>2
<1>6. /\ Elements(ArrRemoveFirst(ring)) = IF ring.len > 0 THEN CutOut(s, 0, 1) ELSE s
      /\ Elements(ArrRemoveLast(ring)) = IF ring.len > 0 THEN CutOut(s, ring.len - 1, 1) ELSE s
  <2>1. CASE ring.len > 0
    <3>1. /\ ArrRemoveFirst(ring) = ArrRemoveRange(ring, 0, 1)
          /\ ArrRemoveLast(ring) = ArrRemoveRange(ring, ring.len - 1, 1)
      BY <2>1, ArrRemoveFirstIs, ArrRemoveLastIs
    <3>2. 1 \in Nat /\ 1 > 0 /\ 0 + 1 <= ring.len /\ 0 \in Nat
      BY ONLY <1>1, <2>1
    <3>3. Elements(ArrRemoveRange(ring, 0, 1)) = CutOut(s, 0, 1)
      BY ONLY <1>2, <3>2
    <3> DEFINE l == ring.len - 1
    <3>4. l \in Nat /\ l + 1 <= ring.len
      BY ONLY <1>1, <2>1
    <3>. HIDE DEF l
    <3>5. Elements(ArrRemoveRange(ring, l, 1)) = CutOut(s, l, 1)
      BY ONLY <1>2, <3>2, <3>4
    <3>. QED
      BY ONLY <2>1, <3>1, <3>3, <3>5 DEF l
  <2>2. CASE ~ (ring.len > 0)
    <3>1. ~ (ring.len > 1) /\ ring.len = 0
      BY ONLY <1>1, <2>2
    <3> DEFINE made == [ring EXCEPT !.len = 0]
    <3>2. ArrRemoveFirst(ring) = made /\ ArrRemoveLast(ring) = made
      BY ONLY <3>1 DEF ArrRemoveFirst, ArrRemoveLast
    <3>3. made.len = 0
      BY ONLY ring \in Rings(N) DEF Rings
    <3>. HIDE DEF made
    <3>4. Elements(made) = <<>> /\ s = <<>>
      BY ONLY <3>1, <3>3, NoneAre DEF s
    <3>. QED
      BY ONLY <2>2, <3>2, <3>4
  <2>. QED
    BY ONLY <2>1, <2>2
<1>7. Elements(ArrClear(ring)) = <<>>
  <2>1. ArrClear(ring).len = 0
    BY DEF ArrClear, Rings
  <2>. QED
    BY ONLY <2>1, NoneAre
<1>8. Elements(ArrRotate(ring, idx)) = IF idx < ring.len THEN TurnedTo(s, idx) ELSE s
  <2> DEFINE made == ArrRotate(ring, idx)
  <2>1. CASE idx < ring.len
    <3>1. ring.len > 0 /\ idx \in 0 .. ring.len /\ ring.len > idx /\ \A i \in 1 .. ring.len : i \in 0 .. ring.len
      BY ONLY <1>1, <2>1, idx \in Nat
    <3>2. /\ \A i \in 0 .. ring.len : g[i] \in 2 .. top
          /\ \A i \in 0 .. ring.len : Hop(ring, ring.ptr, i) = g[i]
      BY ONLY <3>1, SoundArr, N \in Nat, ring \in Rings(N), top \in 0 .. N,
              Sound(ring, g, ring.len, top)
    <3>3. made = [ring EXCEPT !.ptr = g[idx]]
      BY ONLY <2>1, <3>1, <3>2 DEF ArrRotate, made
    <3>4. g[idx] \in 0 .. N
      BY ONLY <3>1, <3>2, N \in Nat, top \in 0 .. N
    <3>. HIDE DEF made
    <3>5. made \in Rings(N) /\ made.len = ring.len /\ made.next = ring.next /\ made.ptr = g[idx]
          /\ made.is = ring.is
      BY ONLY <3>3, <3>4, ring \in Rings(N) DEF Rings
    <3>6. PICK h : /\ Sound(made, h, ring.len, top)
                   /\ \A i \in 0 .. ring.len :
                        h[i] = IF i <= ring.len - idx THEN g[i + idx] ELSE g[i + idx - ring.len]
      BY ONLY <1>1, <3>1, <3>5, RotatedSound, Sound(ring, g, ring.len, top)
    <3>7. Both(N, ring, g, made, h, top)
      BY ONLY <3>5, <3>6, ring \in Rings(N), Sound(ring, g, ring.len, top) DEF Both, Runs
    <3>8. TurnsTo(g, h, ring.len, idx)
      BY ONLY <3>1, <3>6 DEF TurnsTo
    <3>9. Elements(made) = TurnedTo(s, idx)
      <4>1. Elements(made) = TurnedTo(Elements(ring), idx)
        <5>1. made.len = ring.len
          BY ONLY <3>5
        <5>. QED
          BY ONLY <2>1, <3>7, <3>8, <5>1, N \in Nat, top \in 0 .. N, idx \in Nat, TurnTells
      <4>. QED
        BY ONLY <4>1 DEF s
    <3>. QED
      BY ONLY <2>1, <3>9 DEF made
  <2>2. CASE ~ (idx < ring.len)
    <3>1. ~ (ring.len > idx)
      BY ONLY <1>1, <2>2, idx \in Nat
    <3>2. made = ring
      BY ONLY <3>1 DEF ArrRotate
    <3>. QED
      BY ONLY <2>2, <3>2 DEF s
  <2>. QED
    BY ONLY <2>1, <2>2
<1>. QED
  BY ONLY <1>4, <1>5, <1>6, <1>7, <1>8 DEF s

LEMMA ArrUnlinkTells ==
    ASSUME NEW N \in Nat, NEW ring \in Rings(N), NEW g, NEW top \in 0 .. N,
           Sound(ring, g, ring.len, top), NEW at, at.max = ring.len,
           NEW p \in 1 .. ring.len, at.cur = g[p], at.pre = g[p - 1], Tells(at, p, ring.len)
    PROVE  Elements(ArrUnlink(ring, at)) = CutOut(Elements(ring), p - 1, 1)
<1> DEFINE made == ArrUnlink(ring, at)
           idx == p - 1
           one == 1
<1>1. ring.len \in Nat
  BY DEF Rings
<1>2. idx \in Nat /\ one \in Nat /\ idx + one <= ring.len
  BY ONLY <1>1, p \in 1 .. ring.len
<1>3. /\ made \in Rings(N) /\ made.len = ring.len - 1 /\ made.is = ring.is
      /\ \E h : Sound(made, h, made.len, top) /\ CutsOut(g, h, ring.len, p - 1, 1)
  BY ONLY ArrUnlinkSound, N \in Nat, ring \in Rings(N), top \in 0 .. N, Sound(ring, g, ring.len, top),
          at.max = ring.len, p \in 1 .. ring.len, at.cur = g[p], at.pre = g[p - 1],
          Tells(at, p, ring.len)
<1>. HIDE DEF made
<1>4. PICK h : Sound(made, h, made.len, top) /\ CutsOut(g, h, ring.len, idx, one)
  BY ONLY <1>3
<1>5. made.len = ring.len - one
  BY ONLY <1>3
<1>. HIDE DEF idx, one
<1>6. Both(N, ring, g, made, h, top)
  BY ONLY <1>3, <1>4, ring \in Rings(N), Sound(ring, g, ring.len, top) DEF Both, Runs
<1>7. Elements(made) = CutOut(Elements(ring), idx, one)
  BY ONLY <1>2, <1>4, <1>5, <1>6, N \in Nat, top \in 0 .. N, CutTells
<1>. QED
  BY ONLY <1>7 DEF made, idx, one

\* What an array has is not in the cell that is filled.
LEMMA MadeTells ==
    ASSUME NEW N \in Nat, NEW ring \in Rings(N), NEW g, NEW top \in 0 .. N,
           Sound(ring, g, ring.len, top), NEW c \in 1 .. N, top < c, NEW w \in What
    PROVE  Elements(Made(ring, c, w)) = Elements(ring)
<1> DEFINE made == Made(ring, c, w)
           s == Elements(ring)
           f == Elements(made)
<1>1. ring.len \in Nat /\ top \in Nat /\ c \in 0 .. N
  BY DEF Rings
<1>2. Filled(N, ring, made, c, w) /\ Sound(made, g, ring.len, c) /\ \A i \in 1 .. ring.len : g[i] # c
  BY ONLY <1>1, MadeSound, N \in Nat, ring \in Rings(N), Sound(ring, g, ring.len, top),
          c \in 1 .. N, top < c, w \in What
<1>. HIDE DEF made
<1>3. made \in Rings(N) /\ made.len = ring.len /\ \A d \in 1 .. N : d # c => made.is[d] = ring.is[d]
  BY ONLY <1>2 DEF Filled
<1>4. Runs(ring, g, top) /\ Runs(made, g, c)
  BY ONLY <1>2, <1>3, Sound(ring, g, ring.len, top) DEF Runs
<1>5. /\ s \in Seq(What) /\ Len(s) = ring.len
      /\ \A i \in 1 .. ring.len : s[i] = ring.is[g[i]]
  BY ONLY <1>4, N \in Nat, ring \in Rings(N), top \in 0 .. N, ElementsAre
<1>6. /\ f \in Seq(What) /\ Len(f) = made.len
      /\ \A i \in 1 .. made.len : f[i] = made.is[g[i]]
  BY ONLY <1>1, <1>3, <1>4, N \in Nat, ElementsAre
<1>. HIDE DEF s, f
<1>7. ASSUME NEW i \in 1 .. ring.len
      PROVE  f[i] = s[i]
  <2>1. ring.len > 0 /\ i \in 0 .. ring.len
    BY ONLY <1>1, i \in 1 .. ring.len
  <2>2. g[i] \in 1 .. N
    BY ONLY <2>1, SoundArr, N \in Nat, ring \in Rings(N), top \in 0 .. N, Sound(ring, g, ring.len, top)
  <2>. QED
    BY ONLY <1>2, <1>3, <1>5, <1>6, <2>2, i \in 1 .. ring.len
<1>8. Len(f) = Len(s) /\ Len(f) = ring.len
  BY ONLY <1>3, <1>5, <1>6
<1>9. f = s
  BY ONLY <1>5, <1>6, <1>7, <1>8, SeqEqual
<1>. QED
  BY ONLY <1>9 DEF f, s, made

LEMMA PutAtIs ==
    ASSUME NEW s, NEW i \in Nat, NEW m
    PROVE  S!InsertAt(s, i + 1, m) = PutAt(s, i, m) /\ S!RemoveAt(s, i + 1) = CutOut(s, i, 1)
<1>1. i + 1 - 1 = i /\ i + 1 + 1 = i + 1 + 1
  OBVIOUS
<1>. QED
  BY ONLY <1>1 DEF S!InsertAt, S!RemoveAt, PutAt, CutOut

\* What the members are of a container that stays what it is.
LEMMA ContentsAre ==
    ASSUME kind' = kind
    PROVE  /\ kind = "arr" => Contents = Elements(r) /\ Contents' = Elements(r')
           /\ kind # "arr" => Contents = Pairs(r) /\ Contents' = Pairs(r')
  BY DEF Contents

LEMMA ArrTells == ASSUME IInv PROVE ArrTold
<1>1. /\ Cells \in Nat /\ cur \in Cell /\ cur \in 0 .. Cells
      /\ r \in Rings(Cells) /\ r.len \in Nat /\ Index \subseteq Nat
  BY Within
<1>2. TypeInv
  BY DEF IInv
<1> DEFINE s == Elements(r)
<1>3. ASSUME NEW ring, Modified("arr", ring)
      PROVE  kind = "arr" /\ Contents = s /\ Contents' = Elements(ring)
  <2>1. kind = "arr" /\ kind' = kind /\ r' = ring
    BY ONLY <1>3 DEF Modified
  <2>. QED
    BY ONLY <2>1, ContentsAre
<1>4. ASSUME kind = "arr"
      PROVE  \E g : Sound(r, g, r.len, cur)
  BY <1>4 DEF IInv, ArrInv
<1>5. ASSUME NEW v \in LooseVal, NEW i \in Index, kind = "arr"
      PROVE  /\ Elements(ArrInsert(r, v, i)) = IF i <= r.len THEN PutAt(s, i, r.is[v]) ELSE s
             /\ Elements(ArrReplace(r, i, v)) = IF i < r.len THEN [s EXCEPT ![i + 1] = r.is[v]] ELSE s
             /\ Elements(ArrAppend(r, v)) = Append(s, r.is[v])
             /\ Elements(ArrPrepend(r, v)) = PutAt(s, 0, r.is[v])
  <2>1. PICK g : Sound(r, g, r.len, cur)
    BY <1>4, <1>5
  <2>2. v \in Loose /\ i \in Nat
    BY <1>1 DEF LooseVal
  <2>3. v \in 2 .. cur /\ \A q \in 1 .. r.len : g[q] # v
    BY ONLY <1>2, <1>5, <2>1, <2>2, LooseArr
  <2>4. Cells \in Nat /\ cur \in 0 .. Cells /\ r \in Rings(Cells)
    BY ONLY <1>1
  <2>. QED
    BY ONLY <2>1, <2>2, <2>3, <2>4, ArrGrowsTells, SMTT(30)
<1>6. ASSUME NEW i \in Index, NEW n \in Index, kind = "arr"
      PROVE  /\ Elements(ArrRemoveRange(r, i, n)) = IF i + n <= r.len THEN CutOut(s, i, n) ELSE s
             /\ Elements(ArrRemove(r, i)) = IF i < r.len THEN CutOut(s, i, 1) ELSE s
             /\ Elements(ArrRemoveFirst(r)) = IF r.len > 0 THEN CutOut(s, 0, 1) ELSE s
             /\ Elements(ArrRemoveLast(r)) = IF r.len > 0 THEN CutOut(s, r.len - 1, 1) ELSE s
             /\ Elements(ArrClear(r)) = <<>>
             /\ Elements(ArrRotate(r, i)) = IF i < r.len THEN TurnedTo(s, i) ELSE s
  <2>1. PICK g : Sound(r, g, r.len, cur)
    BY <1>4, <1>6
  <2>2. i \in Nat /\ n \in Nat
    BY <1>1
  <2>. QED
    BY ONLY <1>1, <2>1, <2>2, ArrShrinksTells
<1>. HIDE DEF s
<1>7. 0 \in Index /\ 0 \in Nat
  BY CellsNat DEF Index
<1>8. ASSUME NEW v \in LooseVal, NEW i \in Index
      PROVE  /\ Insert(v, i)  => IF i <= r.len THEN S!Insert(r.is[v], i) ELSE S!Keep
             /\ Replace(i, v) => IF i < r.len THEN S!Replace(i, r.is[v]) ELSE S!Keep
  <2>1. i \in Nat
    BY <1>1
  <2>2. S!InsertAt(s, i + 1, r.is[v]) = PutAt(s, i, r.is[v])
    BY <2>1, PutAtIs
  <2>3. ASSUME Insert(v, i)
        PROVE  IF i <= r.len THEN S!Insert(r.is[v], i) ELSE S!Keep
    <3>1. kind = "arr" /\ Contents = s /\ Contents' = Elements(ArrInsert(r, v, i))
      BY ONLY <1>3, <2>3 DEF Insert
    <3>2. Contents' = IF i <= r.len THEN PutAt(s, i, r.is[v]) ELSE s
      BY ONLY <1>5, <3>1, v \in LooseVal, i \in Index
    <3>. QED
      BY ONLY <2>2, <3>1, <3>2 DEF S!Insert, S!Keep
  <2>4. ASSUME Replace(i, v)
        PROVE  IF i < r.len THEN S!Replace(i, r.is[v]) ELSE S!Keep
    <3>1. kind = "arr" /\ Contents = s /\ Contents' = Elements(ArrReplace(r, i, v))
      BY ONLY <1>3, <2>4 DEF Replace
    <3>2. Contents' = IF i < r.len THEN [s EXCEPT ![i + 1] = r.is[v]] ELSE s
      BY ONLY <1>5, <3>1, v \in LooseVal, i \in Index
    <3>. QED
      BY ONLY <3>1, <3>2 DEF S!Replace, S!Keep
  <2>. QED
    BY ONLY <2>3, <2>4
<1>9. ASSUME NEW v \in LooseVal
      PROVE  (AppendVal(v) => S!Add(r.is[v])) /\ (Prepend(v) => S!Insert(r.is[v], 0))
  <2>1. S!InsertAt(s, 0 + 1, r.is[v]) = PutAt(s, 0, r.is[v])
    BY ONLY <1>7, PutAtIs
  <2>2. ASSUME AppendVal(v)
        PROVE  S!Add(r.is[v])
    <3>1. kind = "arr" /\ Contents = s /\ Contents' = Elements(ArrAppend(r, v))
      BY ONLY <1>3, <2>2 DEF AppendVal
    <3>2. Contents' = Append(s, r.is[v])
      BY ONLY <1>5, <1>7, <3>1, v \in LooseVal
    <3>. QED
      BY ONLY <3>1, <3>2 DEF S!Add
  <2>3. ASSUME Prepend(v)
        PROVE  S!Insert(r.is[v], 0)
    <3>1. kind = "arr" /\ Contents = s /\ Contents' = Elements(ArrPrepend(r, v))
      BY ONLY <1>3, <2>3 DEF Prepend
    <3>2. Contents' = PutAt(s, 0, r.is[v])
      BY ONLY <1>5, <1>7, <3>1, v \in LooseVal
    <3>. QED
      BY ONLY <2>1, <3>1, <3>2 DEF S!Insert
  <2>. QED
    BY ONLY <2>2, <2>3
<1>10. AppendVal(NULL) \/ Prepend(NULL) => S!Keep
  <2>1. ASSUME AppendVal(NULL) \/ Prepend(NULL)
        PROVE  S!Keep
    <3>1. Modified("arr", r)
      BY <2>1 DEF AppendVal, Prepend, ArrAppend, ArrPrepend
    <3>2. Contents = s /\ Contents' = Elements(r)
      BY ONLY <1>3, <3>1
    <3>. QED
      BY ONLY <3>2 DEF S!Keep, s
  <2>. QED
    BY ONLY <2>1
<1>11. ASSUME NEW i \in Index
       PROVE  /\ Remove(i) => IF i < r.len THEN S!RemoveMember(i) ELSE S!Keep
              /\ Rotate(i) => IF i < r.len THEN S!Rotate(i) ELSE S!Keep
              /\ \A n \in Index : RemoveRange(i, n) =>
                   IF i + n <= r.len THEN S!RemoveRange(i, n) ELSE S!Keep
  <2>1. S!RemoveAt(s, i + 1) = CutOut(s, i, 1)
    BY <1>1, PutAtIs
  <2>2. ASSUME Remove(i)
        PROVE  IF i < r.len THEN S!RemoveMember(i) ELSE S!Keep
    <3>1. kind = "arr" /\ Contents = s /\ Contents' = Elements(ArrRemove(r, i))
      BY ONLY <1>3, <2>2 DEF Remove
    <3>2. Contents' = IF i < r.len THEN CutOut(s, i, 1) ELSE s
      BY ONLY <1>6, <3>1, i \in Index
    <3>. QED
      BY ONLY <2>1, <3>1, <3>2 DEF S!RemoveMember, S!Keep
  <2>3. ASSUME Rotate(i)
        PROVE  IF i < r.len THEN S!Rotate(i) ELSE S!Keep
    <3>1. kind = "arr" /\ Contents = s /\ Contents' = Elements(ArrRotate(r, i))
      BY ONLY <1>3, <2>3 DEF Rotate
    <3>2. Contents' = IF i < r.len THEN TurnedTo(s, i) ELSE s
      BY ONLY <1>6, <3>1, i \in Index
    <3>. QED
      BY ONLY <3>1, <3>2 DEF S!Rotate, S!Keep, TurnedTo
  <2>4. ASSUME NEW n \in Index, RemoveRange(i, n)
        PROVE  IF i + n <= r.len THEN S!RemoveRange(i, n) ELSE S!Keep
    <3>1. kind = "arr" /\ Contents = s /\ Contents' = Elements(ArrRemoveRange(r, i, n))
      BY ONLY <1>3, <2>4 DEF RemoveRange
    <3>2. Contents' = IF i + n <= r.len THEN CutOut(s, i, n) ELSE s
      BY ONLY <1>6, <3>1, i \in Index, n \in Index
    <3>. QED
      BY ONLY <3>1, <3>2 DEF S!RemoveRange, S!Keep, CutOut
  <2>. QED
    BY ONLY <2>2, <2>3, <2>4
<1>12. /\ RemoveFirst => IF r.len > 0 THEN S!RemoveMember(0) ELSE S!Keep
       /\ RemoveLast  => IF r.len > 0 THEN S!RemoveMember(r.len - 1) ELSE S!Keep
       /\ Clear => S!Clear
  <2>1. S!RemoveAt(s, 0 + 1) = CutOut(s, 0, 1)
    BY ONLY <1>7, PutAtIs
  <2>2. r.len > 0 => S!RemoveAt(s, r.len - 1 + 1) = CutOut(s, r.len - 1, 1)
    <3>1. r.len > 0 => r.len - 1 \in Nat
      BY ONLY <1>1
    <3>. QED
      BY ONLY <3>1, PutAtIs
  <2>3. ASSUME RemoveFirst
        PROVE  IF r.len > 0 THEN S!RemoveMember(0) ELSE S!Keep
    <3>1. kind = "arr" /\ Contents = s /\ Contents' = Elements(ArrRemoveFirst(r))
      BY ONLY <1>3, <2>3 DEF RemoveFirst
    <3>2. Contents' = IF r.len > 0 THEN CutOut(s, 0, 1) ELSE s
      BY ONLY <1>6, <1>7, <3>1
    <3>. QED
      BY ONLY <2>1, <3>1, <3>2 DEF S!RemoveMember, S!Keep
  <2>4. ASSUME RemoveLast
        PROVE  IF r.len > 0 THEN S!RemoveMember(r.len - 1) ELSE S!Keep
    <3>1. kind = "arr" /\ Contents = s /\ Contents' = Elements(ArrRemoveLast(r))
      BY ONLY <1>3, <2>4 DEF RemoveLast
    <3>2. Contents' = IF r.len > 0 THEN CutOut(s, r.len - 1, 1) ELSE s
      BY ONLY <1>6, <1>7, <3>1
    <3>. QED
      BY ONLY <2>2, <3>1, <3>2 DEF S!RemoveMember, S!Keep
  <2>5. ASSUME Clear
        PROVE  S!Clear
    <3>1. kind = "arr" /\ Contents' = Elements(ArrClear(r))
      BY ONLY <1>3, <2>5 DEF Clear
    <3>. QED
      BY ONLY <1>6, <1>7, <3>1 DEF S!Clear
  <2>. QED
    BY ONLY <2>3, <2>4, <2>5
<1>13. ASSUME AddNew
       PROVE  S!Add(cur')
  <2> DEFINE c == cur + 1
             made == Made(r, c, c)
  <2>1. /\ kind = "arr" /\ cur < Cells /\ cur' = c /\ r' = ArrAppend(made, c) /\ kind' = kind
    BY <1>13 DEF AddNew
  <2>2. cur \in Nat /\ c \in 1 .. Cells /\ cur < c /\ c \in What /\ c \in 2 .. c /\ c \in 0 .. Cells
    BY ONLY <1>1, <2>1 DEF What, Cell
  <2>. HIDE DEF c
  <2>3. PICK g : Sound(r, g, r.len, cur)
    BY <1>4, <2>1
  <2>4. Filled(Cells, r, made, c, c) /\ Sound(made, g, r.len, c) /\ \A i \in 1 .. r.len : g[i] # c
    BY ONLY <1>1, <2>2, <2>3, MadeSound
  <2>5. Elements(made) = s
    BY ONLY <1>1, <2>2, <2>3, MadeTells DEF s
  <2>. HIDE DEF made
  <2>6. made \in Rings(Cells) /\ made.len = r.len /\ made.is[c] = c
    BY ONLY <2>4 DEF Filled
  <2>7. Sound(made, g, made.len, c) /\ \A i \in 1 .. made.len : g[i] # c
    BY ONLY <2>4, <2>6
  <2>8. Elements(ArrAppend(made, c)) = Append(Elements(made), made.is[c])
    <3>1. Cells \in Nat /\ c \in 0 .. Cells /\ c \in 2 .. c /\ 0 \in Nat
      BY ONLY <1>1, <2>2
    <3>2. made \in Rings(Cells)
      BY ONLY <2>6
    <3>. QED
      BY ONLY <2>7, <3>1, <3>2, ArrAppendTells
  <2>9. Contents = s /\ Contents' = Elements(ArrAppend(made, c))
    BY ONLY <2>1, ContentsAre DEF s
  <2>. QED
    BY ONLY <2>1, <2>5, <2>6, <2>8, <2>9 DEF S!Add
<1>. QED
  BY ONLY <1>8, <1>9, <1>10, <1>11, <1>12, <1>13 DEF ArrTold

-----------------------------------------------------------------------------
(* What the functions on objects do to the sequence of pairs *)

Member == What \X What

LEMMA PairsAre ==
    ASSUME NEW N \in Nat, NEW ring \in Rings(N), NEW g, NEW top \in 0 .. N,
           Paired(ring, g, ring.len, top)
    PROVE  /\ Pairs(ring) \in Seq(Member) /\ Len(Pairs(ring)) = ring.len
           /\ \A i \in 1 .. ring.len : Pairs(ring)[i] = PairAt(ring, g[2 * i])
           /\ Pairs(ring) = PairsOf(ring, g, ring.len)
<1> DEFINE s == Pairs(ring)
           t == PairsOf(ring, g, ring.len)
           l == ring.len
<1>0. l \in Nat /\ ring.is \in [1 .. N -> What]
  BY DEF Rings
<1>1. /\ DOMAIN s = 1 .. l /\ s = [i \in 1 .. l |-> s[i]]
      /\ \A i \in 1 .. l : s[i] = <<ring.is[Hop(ring, ring.ptr, 2 * i)],
                                    ring.is[Hop(ring, ring.ptr, 2 * i + 1)]>>
  BY DEF Pairs
<1>2. t = [i \in 1 .. l |-> PairAt(ring, g[2 * i])]
  BY DEF PairsOf
<1>3. ASSUME NEW i \in 1 .. l
      PROVE  s[i] = PairAt(ring, g[2 * i]) /\ s[i] \in Member
  <2>1. l > 0 /\ i \in 0 .. l
    BY ONLY <1>0, i \in 1 .. l
  <2>2. Paired(ring, g, l, top) /\ l \in Nat
    BY ONLY <1>0, Paired(ring, g, ring.len, top)
  <2>3. /\ Hop(ring, ring.ptr, 2 * i) = g[2 * i] /\ Hop(ring, ring.ptr, 2 * i + 1) = ring.next[g[2 * i]]
        /\ g[2 * i] \in 1 .. N /\ ring.next[g[2 * i]] \in 2 .. top
    <3>. HIDE DEF l, s, t
    <3>. QED
      BY ONLY <2>1, <2>2, PairFacts, N \in Nat, ring \in Rings(N), top \in 0 .. N, i \in 1 .. l
  <2>4. s[i] = <<ring.is[g[2 * i]], ring.is[ring.next[g[2 * i]]]>>
    BY ONLY <1>1, <2>3, i \in 1 .. l
  <2> DEFINE a == g[2 * i]
             b == ring.next[a]
  <2>5. a \in 1 .. N /\ b \in 2 .. top
    BY ONLY <2>3
  <2>. HIDE DEF a, b
  <2>6. b \in 1 .. N
    BY ONLY <2>5, N \in Nat, top \in 0 .. N
  <2>7. ring.is[a] \in What /\ ring.is[b] \in What
    BY ONLY <1>0, <2>5, <2>6
  <2>8. s[i] = <<ring.is[a], ring.is[b]>>
    BY ONLY <2>4 DEF a, b
  <2>9. s[i] \in Member
    BY ONLY <2>7, <2>8 DEF Member
  <2>. QED
    BY ONLY <2>4, <2>9 DEF PairAt
<1>. HIDE DEF s
<1>4. s \in [1 .. l -> Member]
  BY ONLY <1>1, <1>3
<1>5. s \in Seq(Member) /\ Len(s) = l
  BY ONLY <1>0, <1>4
<1>6. s = t
  BY ONLY <1>1, <1>2, <1>3
<1>. QED
  BY ONLY <1>3, <1>5, <1>6 DEF s, l, t

\* Of an object and what a function made of it, both gone along.
BothPaired(N, ring, g, made, h, top) ==
    /\ ring \in Rings(N) /\ made \in Rings(N) /\ made.is = ring.is
    /\ Paired(ring, g, ring.len, top) /\ Paired(made, h, made.len, top)

LEMMA SamePair ==
    ASSUME NEW ring, NEW g, NEW made, made.is = ring.is, SameValues(ring, made, g, ring.len),
           NEW i \in 1 .. ring.len
    PROVE  PairAt(made, g[2 * i]) = PairAt(ring, g[2 * i])
  BY DEF SameValues, PairAt

LEMMA PairInsertTells ==
    ASSUME NEW N \in Nat, NEW ring, NEW g, NEW top \in 0 .. N, NEW made, NEW h,
           BothPaired(N, ring, g, made, h, top), SameValues(ring, made, g, ring.len),
           NEW k, NEW v, made.next[k] = v, NEW idx \in Nat, idx <= ring.len,
           made.len = ring.len + 1, PutsIn(g, h, ring.len, k, idx),
           NEW m \in Member, m = <<ring.is[k], ring.is[v]>>
    PROVE  Puts(Pairs(ring), Pairs(made), idx, m)
<1> DEFINE s == Pairs(ring)
           f == Pairs(made)
           l == ring.len
<1>0. /\ ring \in Rings(N) /\ made \in Rings(N) /\ made.is = ring.is
      /\ Paired(ring, g, ring.len, top) /\ Paired(made, h, made.len, top)
  BY DEF BothPaired
<1>1. l \in Nat
  BY ONLY <1>0 DEF Rings
<1>2. s \in Seq(Member) /\ Len(s) = l /\ \A i \in 1 .. l : s[i] = PairAt(ring, g[2 * i])
  BY ONLY <1>0, N \in Nat, top \in 0 .. N, PairsAre
<1>3. f \in Seq(Member) /\ Len(f) = made.len /\ \A i \in 1 .. made.len : f[i] = PairAt(made, h[2 * i])
  BY ONLY <1>0, N \in Nat, top \in 0 .. N, PairsAre
<1>4. \A i \in 1 .. l : PairAt(made, g[2 * i]) = PairAt(ring, g[2 * i])
  BY ONLY <1>0, SameValues(ring, made, g, ring.len), SamePair
<1>. HIDE DEF s, f
<1>5. ASSUME NEW i \in 1 .. l + 1
      PROVE  f[i] = IF i <= idx THEN s[i] ELSE IF i = idx + 1 THEN m ELSE s[i - 1]
  <2>1. /\ f[i] = PairAt(made, h[2 * i])
        /\ h[2 * i] = IF i <= idx THEN g[2 * i] ELSE IF i = idx + 1 THEN k ELSE g[2 * (i - 1)]
    BY ONLY <1>3, made.len = ring.len + 1, i \in 1 .. l + 1, PutsIn(g, h, ring.len, k, idx) DEF PutsIn
  <2>2. CASE i <= idx
    <3>1. i \in 1 .. l
      BY ONLY <1>1, <2>2, idx \in Nat, idx <= ring.len, i \in 1 .. l + 1
    <3>. QED
      BY ONLY <1>2, <1>4, <2>1, <2>2, <3>1
  <2>3. CASE ~ (i <= idx) /\ i = idx + 1
    <3>1. f[i] = PairAt(made, k)
      BY ONLY <2>1, <2>3
    <3>2. PairAt(made, k) = m
      BY ONLY <1>0, made.next[k] = v, m = <<ring.is[k], ring.is[v]>> DEF PairAt
    <3>. QED
      BY ONLY <2>3, <3>1, <3>2
  <2>4. CASE ~ (i <= idx) /\ ~ (i = idx + 1)
    <3> DEFINE j == i - 1
    <3>1. j \in 1 .. l
      BY ONLY <1>1, <2>4, idx \in Nat, idx <= ring.len, i \in 1 .. l + 1
    <3>2. f[i] = PairAt(made, g[2 * j])
      BY ONLY <2>1, <2>4
    <3>. HIDE DEF j
    <3>3. f[i] = s[j]
      BY ONLY <1>2, <1>4, <3>1, <3>2
    <3>. QED
      BY ONLY <2>4, <3>3 DEF j
  <2>. QED
    BY ONLY <2>2, <2>3, <2>4
<1>6. Len(f) = Len(s) + 1 /\ idx <= Len(s) /\ Len(f) = l + 1
  BY ONLY <1>2, <1>3, idx <= ring.len, made.len = ring.len + 1
<1>7. \A i \in 1 .. Len(f) : f[i] = IF i <= idx THEN s[i] ELSE IF i = idx + 1 THEN m ELSE s[i - 1]
  BY ONLY <1>5, <1>6
<1>8. /\ f = SubSeq(s, 1, idx) \o <<m>> \o SubSeq(s, idx + 1, Len(s))
      /\ idx = Len(s) => f = Append(s, m)
  BY ONLY ZenonT(30), <1>2, <1>3, <1>6, <1>7, InsertedIs, idx \in Nat, m \in Member
<1>. QED
  BY ONLY <1>8 DEF s, f, PutAt, Puts

LEMMA PairCutTells ==
    ASSUME NEW N \in Nat, NEW ring, NEW g, NEW top \in 0 .. N, NEW made, NEW h,
           BothPaired(N, ring, g, made, h, top), SameValues(ring, made, g, ring.len),
           NEW j \in 1 .. ring.len, made.len = ring.len - 1, LeavesOut(g, h, ring.len, j)
    PROVE  Pairs(made) = CutOut(Pairs(ring), j - 1, 1)
<1> DEFINE s == Pairs(ring)
           f == Pairs(made)
           l == ring.len
           idx == j - 1
           n == 1
<1>0. /\ ring \in Rings(N) /\ made \in Rings(N) /\ made.is = ring.is
      /\ Paired(ring, g, ring.len, top) /\ Paired(made, h, made.len, top)
  BY DEF BothPaired
<1>1. l \in Nat
  BY ONLY <1>0 DEF Rings
<1>2. s \in Seq(Member) /\ Len(s) = l /\ \A i \in 1 .. l : s[i] = PairAt(ring, g[2 * i])
  BY ONLY <1>0, N \in Nat, top \in 0 .. N, PairsAre
<1>3. f \in Seq(Member) /\ Len(f) = made.len /\ \A i \in 1 .. made.len : f[i] = PairAt(made, h[2 * i])
  BY ONLY <1>0, N \in Nat, top \in 0 .. N, PairsAre
<1>4. \A i \in 1 .. l : PairAt(made, g[2 * i]) = PairAt(ring, g[2 * i])
  BY ONLY <1>0, SameValues(ring, made, g, ring.len), SamePair
<1>. HIDE DEF s, f
<1>5. ASSUME NEW i \in 1 .. l - 1
      PROVE  f[i] = IF i <= idx THEN s[i] ELSE s[i + n]
  <2>1. /\ f[i] = PairAt(made, h[2 * i])
        /\ h[2 * i] = IF i < j THEN g[2 * i] ELSE g[2 * i + 2]
    BY ONLY <1>3, made.len = ring.len - 1, i \in 1 .. l - 1, LeavesOut(g, h, ring.len, j) DEF LeavesOut
  <2>2. /\ i \in 1 .. l /\ i + 1 \in 1 .. l /\ 2 * i + 2 = 2 * (i + 1)
        /\ i < j <=> i <= idx
    BY ONLY <1>1, i \in 1 .. l - 1, j \in 1 .. ring.len
  <2>. HIDE DEF idx
  <2> DEFINE q == i + 1
  <2>3. f[i] = IF i < j THEN PairAt(made, g[2 * i]) ELSE PairAt(made, g[2 * q])
    BY ONLY <2>1, <2>2
  <2>4. q \in 1 .. l
    BY ONLY <2>2
  <2>. HIDE DEF q
  <2>5. f[i] = IF i < j THEN s[i] ELSE s[q]
    BY ONLY <1>2, <1>4, <2>2, <2>3, <2>4
  <2>. QED
    BY ONLY <2>2, <2>5 DEF q
<1>6. /\ idx \in Nat /\ n \in Nat /\ idx + n <= Len(s) /\ Len(f) = Len(s) - n /\ Len(f) = l - 1
  BY ONLY <1>1, <1>2, <1>3, j \in 1 .. ring.len, made.len = ring.len - 1
<1>7. \A i \in 1 .. Len(f) : f[i] = IF i <= idx THEN s[i] ELSE s[i + n]
  BY ONLY <1>5, <1>6
<1>. HIDE DEF idx, n
<1>8. f = SubSeq(s, 1, idx) \o SubSeq(s, idx + n + 1, Len(s))
  BY ONLY <1>2, <1>3, <1>6, <1>7, CutIs
<1>. QED
  BY ONLY <1>8 DEF s, f, idx, n, CutOut

LEMMA PairTurnTells ==
    ASSUME NEW N \in Nat, NEW ring, NEW g, NEW top \in 0 .. N, NEW made, NEW h,
           BothPaired(N, ring, g, made, h, top), made.next = ring.next,
           NEW idx \in Nat, idx < ring.len, made.len = ring.len, Turns(g, h, ring.len, idx)
    PROVE  Pairs(made) = TurnedTo(Pairs(ring), idx)
<1> DEFINE s == Pairs(ring)
           f == Pairs(made)
           l == ring.len
<1>0. /\ ring \in Rings(N) /\ made \in Rings(N) /\ made.is = ring.is
      /\ Paired(ring, g, ring.len, top) /\ Paired(made, h, made.len, top)
  BY DEF BothPaired
<1>1. l \in Nat
  BY ONLY <1>0 DEF Rings
<1>2. s \in Seq(Member) /\ Len(s) = l /\ \A i \in 1 .. l : s[i] = PairAt(ring, g[2 * i])
  BY ONLY <1>0, N \in Nat, top \in 0 .. N, PairsAre
<1>3. f \in Seq(Member) /\ Len(f) = made.len /\ \A i \in 1 .. made.len : f[i] = PairAt(made, h[2 * i])
  BY ONLY <1>0, N \in Nat, top \in 0 .. N, PairsAre
<1>4. \A c : PairAt(made, c) = PairAt(ring, c)
  BY ONLY <1>0, made.next = ring.next DEF PairAt
<1>. HIDE DEF s, f
<1>5. ASSUME NEW i \in 1 .. l
      PROVE  f[i] = IF i + idx <= l THEN s[i + idx] ELSE s[i + idx - l]
  <2>1. /\ f[i] = PairAt(ring, h[2 * i])
        /\ h[2 * i] = IF i + idx <= l THEN g[2 * (i + idx)] ELSE g[2 * (i + idx - l)]
    BY ONLY <1>3, <1>4, made.len = ring.len, i \in 1 .. l, Turns(g, h, ring.len, idx) DEF Turns
  <2> DEFINE a == i + idx
             b == i + idx - l
  <2>2. (a <= l /\ a \in 1 .. l) \/ (~ (a <= l) /\ b \in 1 .. l)
    BY ONLY <1>1, idx \in Nat, idx < ring.len, i \in 1 .. l
  <2>3. h[2 * i] = IF a <= l THEN g[2 * a] ELSE g[2 * b]
    BY ONLY <2>1
  <2>. HIDE DEF a, b
  <2>4. f[i] = IF a <= l THEN s[a] ELSE s[b]
    BY ONLY <1>2, <2>1, <2>2, <2>3
  <2>. QED
    BY ONLY <2>4 DEF a, b
<1>6. idx <= Len(s) /\ Len(f) = Len(s)
  BY ONLY <1>1, <1>2, <1>3, idx \in Nat, idx < ring.len, made.len = ring.len
<1>7. \A i \in 1 .. Len(s) : f[i] = IF i + idx <= Len(s) THEN s[i + idx] ELSE s[i + idx - Len(s)]
  BY ONLY <1>2, <1>5
<1>8. f = SubSeq(s, idx + 1, Len(s)) \o SubSeq(s, 1, idx)
  BY ONLY <1>2, <1>3, <1>6, <1>7, TurnedIs, idx \in Nat
<1>. QED
  BY ONLY <1>8 DEF s, f, TurnedTo

\* s with m in the place of its first member of that key; s without its members
\* of key k, as YySequence has it.
ReplacedIn(s, m) ==
    LET hits == {i \in DOMAIN s : s[i][1] = m[1]}
    IN  IF hits = {} THEN s ELSE [s EXCEPT ![First(hits)] = m]
WithoutOf(s, k) ==
    LET kept[n \in 0 .. Len(s)] ==
          IF n = 0 THEN <<>> ELSE IF s[n][1] = k THEN kept[n - 1]
          ELSE Append(kept[n - 1], s[n])
    IN  kept[Len(s)]

LEMMA PairReplaceTells ==
    ASSUME NEW N \in Nat, NEW ring \in Rings(N), NEW g, NEW top \in 0 .. N,
           Paired(ring, g, ring.len, top), NEW key \in 2 .. top, NEW val \in 2 .. top, key # val,
           Apart(g, ring.len, key), Apart(g, ring.len, val)
    PROVE  Pairs(ObjReplace(ring, key, val)) = ReplacedIn(Pairs(ring), <<ring.is[key], ring.is[val]>>)
<1> DEFINE made == ObjReplace(ring, key, val)
           hits == Hits(ring, g, ring.is[key])
           m == <<ring.is[key], ring.is[val]>>
           s == Pairs(ring)
           f == Pairs(made)
           l == ring.len
<1>1. l \in Nat
  BY DEF Rings
<1>2. /\ made \in Rings(N) /\ made.len = ring.len /\ Paired(made, g, ring.len, top)
      /\ hits = {} => made = ring
      /\ hits # {} => Refills(ring, made, g, key, val)
  BY ONLY ObjReplaced, N \in Nat, ring \in Rings(N), top \in 0 .. N, Paired(ring, g, ring.len, top),
          key \in 2 .. top, val \in 2 .. top, key # val, Apart(g, ring.len, key), Apart(g, ring.len, val)
<1>. HIDE DEF made
<1>3. s \in Seq(Member) /\ Len(s) = l /\ \A i \in 1 .. l : s[i] = PairAt(ring, g[2 * i])
  BY ONLY N \in Nat, ring \in Rings(N), top \in 0 .. N, Paired(ring, g, ring.len, top), PairsAre
<1>4. Paired(made, g, made.len, top)
  BY ONLY <1>2
<1>5. f \in Seq(Member) /\ Len(f) = made.len /\ \A i \in 1 .. made.len : f[i] = PairAt(made, g[2 * i])
  BY ONLY <1>2, <1>4, N \in Nat, top \in 0 .. N, PairsAre
<1>6. Len(f) = l /\ \A i \in 1 .. l : f[i] = PairAt(made, g[2 * i])
  BY ONLY <1>2, <1>5
<1>. HIDE DEF s, f
<1>7. DOMAIN s = 1 .. l /\ DOMAIN f = 1 .. l /\ s \in [1 .. l -> Member] /\ f \in [1 .. l -> Member]
  BY ONLY <1>3, <1>5, <1>6, LenProperties
<1>8. m[1] = ring.is[key]
  OBVIOUS
<1>9. {i \in DOMAIN s : s[i][1] = m[1]} = hits
  <2>1. \A i \in 1 .. l : s[i][1] = ring.is[g[2 * i]]
    BY ONLY <1>3 DEF PairAt
  <2>. QED
    BY ONLY <1>7, <1>8, <2>1 DEF Hits
<1>10. CASE hits = {}
  <2>1. f = s
    BY ONLY <1>2, <1>10 DEF f, s
  <2>. QED
    BY ONLY <1>9, <1>10, <2>1 DEF ReplacedIn, f, s, made, m
<1>11. CASE hits # {}
  <2> DEFINE a == First(hits)
  <2>1. a \in hits
    BY ONLY <1>11, FirstHit
  <2>2. hits \subseteq 1 .. l
    BY DEF Hits
  <2>3. \A i \in 1 .. l : f[i] = IF i = a THEN m ELSE s[i]
    BY ONLY <1>2, <1>3, <1>6, <1>11 DEF Refills
  <2>. HIDE DEF a, hits, m
  <2>4. f = [s EXCEPT ![a] = m]
    BY ONLY <1>7, <2>1, <2>2, <2>3
  <2>. QED
    BY ONLY <1>9, <1>11, <2>4 DEF ReplacedIn, f, s, made, m, a
<1>. QED
  BY ONLY <1>10, <1>11

\* What is kept of the pairs that are not of key k is what YySequence keeps.
LEMMA WithoutIs ==
    ASSUME NEW N \in Nat, NEW ring \in Rings(N), NEW g, NEW top \in 0 .. N,
           Paired(ring, g, ring.len, top), NEW k
    PROVE  \E kept : Filters(kept, ring, g, k) /\ kept[ring.len] = WithoutOf(Pairs(ring), k)
<1> DEFINE s == Pairs(ring)
           l == ring.len
           Step(w, n) == IF n = 0 THEN <<>> ELSE IF s[n][1] = k THEN w[n - 1] ELSE Append(w[n - 1], s[n])
           F(w) == w = [n \in 0 .. Len(s) |-> Step(w, n)]
           kept == CHOOSE w : F(w)
<1>1. l \in Nat
  BY DEF Rings
<1>2. s \in Seq(Member) /\ Len(s) = l /\ \A i \in 1 .. l : s[i] = PairAt(ring, g[2 * i])
  BY ONLY N \in Nat, ring \in Rings(N), top \in 0 .. N, Paired(ring, g, ring.len, top), PairsAre
<1>3. WithoutOf(s, k) = kept[Len(s)]
  BY DEF WithoutOf
<1>. HIDE DEF s
<1>4. \A n \in 1 .. l : s[n][1] = ring.is[g[2 * n]] /\ s[n] = PairAt(ring, g[2 * n])
  BY ONLY <1>2 DEF PairAt
<1>5. \E w : F(w)
  <2>1. PICK v : Filters(v, ring, g, k)
    BY ONLY <1>1, FilterExists
  <2> DEFINE w == [n \in 0 .. l |-> v[n]]
  <2>2. ASSUME NEW n \in 0 .. l
        PROVE  v[n] = Step(w, n)
    <3>1. CASE n = 0
      BY ONLY <2>1, <3>1 DEF Filters
    <3>2. CASE n # 0
      <4>1. n \in 1 .. l /\ n - 1 \in 0 .. l
        BY ONLY <1>1, <3>2, n \in 0 .. l
      <4>2. v[n] = IF ring.is[g[2 * n]] = k THEN v[n - 1]
                   ELSE Append(v[n - 1], PairAt(ring, g[2 * n]))
        BY ONLY <2>1, <4>1 DEF Filters
      <4>3. w[n - 1] = v[n - 1]
        BY ONLY <4>1
      <4>. HIDE DEF w
      <4>. QED
        BY ONLY <1>4, <3>2, <4>1, <4>2, <4>3
    <3>. QED
      BY <3>1, <3>2
  <2>3. F(w)
    BY ONLY <1>2, <2>2
  <2>. HIDE DEF F
  <2>. QED
    BY ONLY <2>3
<1>6. F(kept)
  <2>. HIDE DEF F
  <2>. QED
    BY ONLY <1>5
<1>. HIDE DEF kept
<1>7. \A n \in 0 .. l : kept[n] = Step(kept, n)
  BY ONLY <1>2, <1>6
<1>8. Filters(kept, ring, g, k)
  <2>1. kept[0] = <<>>
    BY ONLY <1>1, <1>7
  <2>2. ASSUME NEW n \in 1 .. l
        PROVE  kept[n] = IF ring.is[g[2 * n]] = k THEN kept[n - 1]
                         ELSE Append(kept[n - 1], PairAt(ring, g[2 * n]))
    <3>1. n \in 0 .. l /\ n # 0
      BY ONLY <1>1, n \in 1 .. l
    <3>. QED
      BY ONLY <1>4, <1>7, <3>1, n \in 1 .. l
  <2>. QED
    BY ONLY <2>1, <2>2 DEF Filters
<1>9. kept[l] = WithoutOf(s, k)
  BY ONLY <1>2, <1>3
<1>. QED
  BY ONLY <1>8, <1>9 DEF s, l

LEMMA PairRemoveTells ==
    ASSUME NEW N \in Nat, NEW ring \in Rings(N), NEW g, NEW top \in 0 .. N,
           Paired(ring, g, ring.len, top), NEW k
    PROVE  /\ Pairs(ObjRemove(ring, k)) = WithoutOf(Pairs(ring), k)
           /\ Single(ring, g, k) => Pairs(ObjRemoveStr(ring, k)) = WithoutOf(Pairs(ring), k)
<1> DEFINE w == WithoutOf(Pairs(ring), k)
<1>1. PICK kept : Filters(kept, ring, g, k) /\ kept[ring.len] = w
  BY ONLY WithoutIs, N \in Nat, ring \in Rings(N), top \in 0 .. N, Paired(ring, g, ring.len, top)
<1>. HIDE DEF w
<1>2. ASSUME NEW made \in Rings(N), NEW h, Paired(made, h, made.len, top),
             PairsOf(made, h, made.len) = kept[ring.len]
      PROVE  Pairs(made) = w
  <2>1. Pairs(made) = PairsOf(made, h, made.len)
    BY ONLY <1>2, N \in Nat, top \in 0 .. N, PairsAre
  <2>. QED
    BY ONLY <1>1, <1>2, <2>1
<1>3. Pairs(ObjRemove(ring, k)) = w
  <2> DEFINE made == ObjRemove(ring, k)
  <2>1. /\ made \in Rings(N)
        /\ \E h : Paired(made, h, made.len, top) /\ PairsOf(made, h, made.len) = kept[ring.len]
    BY ONLY <1>1, ObjRemoved, N \in Nat, ring \in Rings(N), top \in 0 .. N, Paired(ring, g, ring.len, top)
  <2>. HIDE DEF made
  <2>2. Pairs(made) = w
    BY ONLY <1>2, <2>1
  <2>. QED
    BY ONLY <2>2 DEF made
<1>4. ASSUME Single(ring, g, k)
      PROVE  Pairs(ObjRemoveStr(ring, k)) = w
  <2> DEFINE made == ObjRemoveStr(ring, k)
  <2>1. /\ made \in Rings(N)
        /\ \E h : Paired(made, h, made.len, top) /\ PairsOf(made, h, made.len) = kept[ring.len]
    BY ONLY <1>1, <1>4, ObjStrRemoved, N \in Nat, ring \in Rings(N), top \in 0 .. N,
            Paired(ring, g, ring.len, top)
  <2>. HIDE DEF made
  <2>2. Pairs(made) = w
    BY ONLY <1>2, <2>1
  <2>. QED
    BY ONLY <2>2 DEF made
<1>. QED
  BY ONLY <1>3, <1>4 DEF w

\* Two loose cells, and the pair they make.
Spare(ring, g, top, k, v, m) ==
    /\ k \in 2 .. top /\ v \in 2 .. top /\ k # v
    /\ Apart(g, ring.len, k) /\ Apart(g, ring.len, v) /\ m = <<ring.is[k], ring.is[v]>>

LEMMA PairAddTells ==
    ASSUME NEW N \in Nat, NEW ring \in Rings(N), NEW g, NEW top \in 0 .. N,
           Paired(ring, g, ring.len, top), NEW k, NEW v, NEW m, Spare(ring, g, top, k, v, m)
    PROVE  Pairs(ObjAdd(ring, k, v)) = Append(Pairs(ring), m)
<1>0. /\ k \in 2 .. top /\ v \in 2 .. top /\ k # v
      /\ Apart(g, ring.len, k) /\ Apart(g, ring.len, v) /\ m = <<ring.is[k], ring.is[v]>>
  BY DEF Spare
<1>1. m \in Member
  <2>1. ring.is \in [1 .. N -> What] /\ k \in 1 .. N /\ v \in 1 .. N
    BY <1>0 DEF Rings
  <2>2. ring.is[k] \in What /\ ring.is[v] \in What
    BY ONLY <2>1
  <2>. QED
    BY ONLY <1>0, <2>2 DEF Member
<1>2. ring.len \in Nat
  BY DEF Rings
<1>3. Len(Pairs(ring)) = ring.len
  BY ONLY PairsAre, N \in Nat, ring \in Rings(N), top \in 0 .. N, Paired(ring, g, ring.len, top)
<1>4. ASSUME NEW made \in Rings(N), made.len = ring.len + 1, made.is = ring.is, made.next[k] = v,
             SameValues(ring, made, g, ring.len), NEW idx \in Nat, idx <= ring.len,
             NEW h, Paired(made, h, made.len, top), PutsIn(g, h, ring.len, k, idx)
      PROVE  Puts(Pairs(ring), Pairs(made), idx, m)
  <2>1. BothPaired(N, ring, g, made, h, top)
    BY ONLY <1>4, ring \in Rings(N), Paired(ring, g, ring.len, top) DEF BothPaired
  <2>. QED
    BY ONLY <1>0, <1>1, <1>4, <2>1, N \in Nat, top \in 0 .. N, PairInsertTells
<1>5. Pairs(ObjAdd(ring, k, v)) = Append(Pairs(ring), m)
  <2> DEFINE made == ObjAdd(ring, k, v)
  <2>1. /\ made \in Rings(N) /\ made.len = ring.len + 1 /\ made.is = ring.is
        /\ made.next[k] = v /\ SameValues(ring, made, g, ring.len)
        /\ \E h : Paired(made, h, made.len, top) /\ PutsIn(g, h, ring.len, k, ring.len)
    BY ONLY ObjAdded, N \in Nat, ring \in Rings(N), top \in 0 .. N, Paired(ring, g, ring.len, top),
            <1>0
  <2>. HIDE DEF made
  <2>2. PICK h : Paired(made, h, made.len, top) /\ PutsIn(g, h, ring.len, k, ring.len)
    BY ONLY <2>1
  <2>3. ring.len \in Nat /\ ring.len <= ring.len
    BY ONLY <1>2
  <2>4. Puts(Pairs(ring), Pairs(made), ring.len, m)
    BY ONLY <1>4, <2>1, <2>2, <2>3
  <2>. QED
    BY ONLY <1>3, <2>4 DEF Puts, made
<1>. QED
  BY ONLY <1>5

LEMMA PairInsertedTells ==
    ASSUME NEW N \in Nat, NEW ring \in Rings(N), NEW g, NEW top \in 0 .. N,
           Paired(ring, g, ring.len, top), NEW k, NEW v, NEW m, Spare(ring, g, top, k, v, m)
    PROVE  \A idx \in Nat : idx <= ring.len =>
             Pairs(ObjInsert(ring, k, v, idx)) = PutAt(Pairs(ring), idx, m)
<1>0. /\ k \in 2 .. top /\ v \in 2 .. top /\ k # v
      /\ Apart(g, ring.len, k) /\ Apart(g, ring.len, v) /\ m = <<ring.is[k], ring.is[v]>>
  BY DEF Spare
<1>1. m \in Member
  <2>1. ring.is \in [1 .. N -> What] /\ k \in 1 .. N /\ v \in 1 .. N
    BY <1>0 DEF Rings
  <2>2. ring.is[k] \in What /\ ring.is[v] \in What
    BY ONLY <2>1
  <2>. QED
    BY ONLY <1>0, <2>2 DEF Member
<1>2. ASSUME NEW made \in Rings(N), made.len = ring.len + 1, made.is = ring.is, made.next[k] = v,
             SameValues(ring, made, g, ring.len), NEW idx \in Nat, idx <= ring.len,
             NEW h, Paired(made, h, made.len, top), PutsIn(g, h, ring.len, k, idx)
      PROVE  Puts(Pairs(ring), Pairs(made), idx, m)
  <2>1. BothPaired(N, ring, g, made, h, top)
    BY ONLY <1>2, ring \in Rings(N), Paired(ring, g, ring.len, top) DEF BothPaired
  <2>. QED
    BY ONLY <1>0, <1>1, <1>2, <2>1, N \in Nat, top \in 0 .. N, PairInsertTells
<1>3. ASSUME NEW idx \in Nat, idx <= ring.len
      PROVE  Pairs(ObjInsert(ring, k, v, idx)) = PutAt(Pairs(ring), idx, m)
  <2> DEFINE made == ObjInsert(ring, k, v, idx)
  <2>1. /\ made \in Rings(N) /\ made.len = ring.len + 1 /\ made.is = ring.is
        /\ made.next[k] = v /\ SameValues(ring, made, g, ring.len)
        /\ \E h : Paired(made, h, made.len, top) /\ PutsIn(g, h, ring.len, k, idx)
    BY ONLY ObjInserted, N \in Nat, ring \in Rings(N), top \in 0 .. N, Paired(ring, g, ring.len, top),
            <1>0, <1>3
  <2>. HIDE DEF made
  <2>2. PICK h : Paired(made, h, made.len, top) /\ PutsIn(g, h, ring.len, k, idx)
    BY ONLY <2>1
  <2>3. Puts(Pairs(ring), Pairs(made), idx, m)
    BY ONLY <1>2, <1>3, <2>1, <2>2
  <2>. QED
    BY ONLY <2>3 DEF Puts, made
<1>. QED
  BY ONLY <1>3

LEMMA PairPutTells ==
    ASSUME NEW N \in Nat, NEW ring \in Rings(N), NEW g, NEW top \in 0 .. N,
           Paired(ring, g, ring.len, top), NEW k, NEW v, NEW m, Spare(ring, g, top, k, v, m)
    PROVE  Pairs(ObjPut(ring, k, v)) = Append(WithoutOf(Pairs(ring), ring.is[k]), m)
<1> DEFINE cut == ObjRemove(ring, ring.is[k])
           w == WithoutOf(Pairs(ring), ring.is[k])
<1>0. /\ k \in 2 .. top /\ v \in 2 .. top /\ k # v
      /\ Apart(g, ring.len, k) /\ Apart(g, ring.len, v) /\ m = <<ring.is[k], ring.is[v]>>
  BY DEF Spare
<1>1. ring.len \in Nat
  BY DEF Rings
<1>2. PICK kept : Filters(kept, ring, g, ring.is[k])
  BY ONLY <1>1, FilterExists
<1>3. cut \in Rings(N) /\ \E h : Keeps(ring, cut, g, h, top)
  BY ONLY <1>2, ObjRemoved, N \in Nat, ring \in Rings(N), top \in 0 .. N,
          Paired(ring, g, ring.len, top) DEF Keeps
<1>4. ObjPut(ring, k, v) = ObjAdd(cut, k, v)
  BY DEF ObjPut
<1>5. Pairs(cut) = w
  BY ONLY PairRemoveTells, N \in Nat, ring \in Rings(N), top \in 0 .. N, Paired(ring, g, ring.len, top)
<1>. HIDE DEF cut, w
<1>6. PICK h : Keeps(ring, cut, g, h, top)
  BY ONLY <1>3
<1>7. /\ Paired(cut, h, cut.len, top) /\ cut.is = ring.is
      /\ Apart(h, cut.len, k) /\ Apart(h, cut.len, v)
  BY ONLY <1>0, <1>6, ApartDrawn DEF Keeps
<1>8. Spare(cut, h, top, k, v, m)
  BY ONLY <1>0, <1>7 DEF Spare
<1>9. Pairs(ObjAdd(cut, k, v)) = Append(Pairs(cut), m)
  BY ONLY <1>3, <1>7, <1>8, PairAddTells, N \in Nat, top \in 0 .. N
<1>. QED
  BY ONLY <1>4, <1>5, <1>9 DEF w

LEMMA PairRotateTells ==
    ASSUME NEW N \in Nat, NEW ring \in Rings(N), NEW g, NEW top \in 0 .. N,
           Paired(ring, g, ring.len, top), NEW idx \in Nat, idx < ring.len
    PROVE  Pairs(ObjRotate(ring, idx)) = TurnedTo(Pairs(ring), idx)
<1> DEFINE made == ObjRotate(ring, idx)
           m == ring.len
<1>1. /\ made \in Rings(N) /\ made.len = m /\ made.is = ring.is /\ made.next = ring.next
      /\ \E h : Paired(made, h, m, top) /\ Turns(g, h, m, idx)
  BY ONLY ObjRotateSound, N \in Nat, ring \in Rings(N), top \in 0 .. N, Paired(ring, g, ring.len, top),
          idx \in Nat, idx < ring.len
<1>. HIDE DEF made
<1>2. PICK h : Paired(made, h, m, top) /\ Turns(g, h, m, idx)
  BY ONLY <1>1
<1>3. BothPaired(N, ring, g, made, h, top)
  BY ONLY <1>1, <1>2, ring \in Rings(N), Paired(ring, g, ring.len, top) DEF BothPaired
<1>4. made.next = ring.next /\ made.len = ring.len
  BY ONLY <1>1
<1>5. Pairs(made) = TurnedTo(Pairs(ring), idx)
  BY ONLY <1>2, <1>3, <1>4, PairTurnTells, N \in Nat, top \in 0 .. N, idx \in Nat, idx < ring.len
<1>. QED
  BY ONLY <1>5 DEF made

LEMMA PairUnlinkTells ==
    ASSUME NEW N \in Nat, NEW ring \in Rings(N), NEW g, NEW top \in 0 .. N,
           Paired(ring, g, ring.len, top), NEW at, at.max = ring.len,
           NEW p \in 1 .. ring.len, at.cur = g[2 * p], at.pre = g[2 * p - 2],
           Tells(at, p, ring.len)
    PROVE  Pairs(ObjUnlink(ring, at)) = CutOut(Pairs(ring), p - 1, 1)
<1> DEFINE made == ObjUnlink(ring, at)
<1>1. /\ made \in Rings(N) /\ made.len = ring.len - 1 /\ made.is = ring.is
      /\ SameValues(ring, made, g, ring.len)
      /\ \E h : /\ Paired(made, h, made.len, top)
                /\ LeavesOut(g, h, ring.len, p)
  BY ONLY ObjUnlinkSound, N \in Nat, ring \in Rings(N), top \in 0 .. N, Paired(ring, g, ring.len, top),
          at.max = ring.len, p \in 1 .. ring.len, at.cur = g[2 * p], at.pre = g[2 * p - 2],
          Tells(at, p, ring.len)
<1>. HIDE DEF made
<1>2. PICK h : Paired(made, h, made.len, top) /\ LeavesOut(g, h, ring.len, p)
  BY ONLY <1>1
<1>3. BothPaired(N, ring, g, made, h, top)
  BY ONLY <1>1, <1>2, ring \in Rings(N), Paired(ring, g, ring.len, top) DEF BothPaired
<1>4. Pairs(made) = CutOut(Pairs(ring), p - 1, 1)
  BY ONLY <1>1, <1>2, <1>3, PairCutTells, N \in Nat, top \in 0 .. N, p \in 1 .. ring.len
<1>. QED
  BY ONLY <1>4 DEF made

\* What an object has is not in the cell that is filled.
LEMMA PairMadeTells ==
    ASSUME NEW N \in Nat, NEW ring \in Rings(N), NEW g, NEW top \in 0 .. N,
           Paired(ring, g, ring.len, top), NEW made, NEW c \in 1 .. N, top < c, NEW w,
           Filled(N, ring, made, c, w), made.next = ring.next, NEW up \in 0 .. N,
           Paired(made, g, made.len, up)
    PROVE  Pairs(made) = Pairs(ring)
<1> DEFINE s == Pairs(ring)
           f == Pairs(made)
           l == ring.len
<1>1. l \in Nat
  BY DEF Rings
<1>2. made \in Rings(N) /\ made.len = l /\ \A d \in 1 .. N : d # c => made.is[d] = ring.is[d]
  BY ONLY Filled(N, ring, made, c, w) DEF Filled
<1>3. s \in Seq(Member) /\ Len(s) = l /\ \A i \in 1 .. l : s[i] = PairAt(ring, g[2 * i])
  BY ONLY N \in Nat, ring \in Rings(N), top \in 0 .. N, Paired(ring, g, ring.len, top), PairsAre
<1>4. f \in Seq(Member) /\ Len(f) = made.len /\ \A i \in 1 .. made.len : f[i] = PairAt(made, g[2 * i])
  BY ONLY <1>2, N \in Nat, up \in 0 .. N, Paired(made, g, made.len, up), PairsAre
<1>. HIDE DEF s, f
<1>5. ASSUME NEW i \in 1 .. l
      PROVE  f[i] = s[i]
  <2>1. l > 0 /\ i \in 0 .. l
    BY ONLY <1>1, i \in 1 .. l
  <2> DEFINE a == g[2 * i]
             b == ring.next[a]
  <2>2. a \in 2 .. top /\ b \in 2 .. top
    <3>1. Paired(ring, g, l, top)
      OBVIOUS
    <3>2. g[2 * i] \in 2 .. top /\ ring.next[g[2 * i]] \in 2 .. top
      <4>. HIDE DEF l, a, b
      <4>. QED
        BY ONLY <1>1, <2>1, <3>1, PairFacts, N \in Nat, ring \in Rings(N), top \in 0 .. N, i \in 1 .. l
    <3>. QED
      BY ONLY <3>2
  <2>. HIDE DEF a, b
  <2>3. a \in 1 .. N /\ b \in 1 .. N /\ a # c /\ b # c
    BY ONLY <2>2, N \in Nat, top \in 0 .. N, c \in 1 .. N, top < c
  <2>4. made.is[a] = ring.is[a] /\ made.is[b] = ring.is[b]
    BY ONLY <1>2, <2>3
  <2>5. PairAt(made, a) = PairAt(ring, a)
    BY ONLY <2>4, made.next = ring.next DEF PairAt, b
  <2>6. f[i] = PairAt(made, a) /\ s[i] = PairAt(ring, a)
    BY ONLY <1>2, <1>3, <1>4, i \in 1 .. l DEF a
  <2>. QED
    BY ONLY <2>5, <2>6
<1>6. Len(f) = Len(s) /\ Len(f) = l
  BY ONLY <1>2, <1>3, <1>4
<1>7. f = s
  BY ONLY <1>3, <1>4, <1>5, <1>6, SeqEqual
<1>. QED
  BY ONLY <1>7 DEF f, s

LEMMA ObjModified ==
    ASSUME NEW ring, Modified("obj", ring)
    PROVE  kind = "obj" /\ Contents = Pairs(r) /\ Contents' = Pairs(ring)
<1>1. kind = "obj" /\ kind' = kind /\ r' = ring
  BY DEF Modified
<1>2. kind # "arr"
  BY <1>1
<1>. QED
  BY ONLY <1>1, <1>2, ContentsAre

LEMMA ObjPairTells ==
    ASSUME IInv, NEW k \in LooseKey
    PROVE  /\ \A v \in LooseVal :
                /\ Add(k, v) => S!Add(Pair(k, v))
                /\ Put(k, v) => S!Put(Pair(k, v))
                /\ ReplacePair(k, v) => S!ReplaceKey(Pair(k, v))
                /\ \A i \in Index : InsertPair(k, v, i) =>
                     IF i <= r.len THEN S!Insert(Pair(k, v), i) ELSE S!Keep
           /\ Put(k, NULL) => S!RemoveKey(r.is[k])
<1>1. /\ Cells \in Nat /\ cur \in 0 .. Cells
      /\ r \in Rings(Cells) /\ r.len \in Nat /\ Index \subseteq Nat
  BY Within
<1> DEFINE s == Pairs(r)
<1>2. ASSUME kind = "obj"
      PROVE  \E g : Paired(r, g, r.len, cur)
  BY <1>2 DEF IInv, ObjInv
<1>3. ASSUME NEW v \in LooseVal, kind = "obj"
      PROVE  \E g : Paired(r, g, r.len, cur) /\ Spare(r, g, cur, k, v, Pair(k, v))
  <2>1. PICK g : Paired(r, g, r.len, cur)
    BY <1>2, <1>3
  <2>2. /\ k \in 2 .. cur /\ v \in 2 .. cur /\ k # v
        /\ Apart(g, r.len, k) /\ Apart(g, r.len, v)
    BY ONLY <1>3, <2>1, LoosePair, IInv, k \in LooseKey
  <2>. QED
    BY ONLY <2>1, <2>2 DEF Spare, Pair
<1>4. ASSUME NEW v \in LooseVal, kind = "obj"
      PROVE  /\ Pairs(ObjAdd(r, k, v)) = Append(s, Pair(k, v))
             /\ Pairs(ObjPut(r, k, v)) = Append(WithoutOf(s, r.is[k]), Pair(k, v))
             /\ Pairs(ObjReplace(r, k, v)) = ReplacedIn(s, Pair(k, v))
  <2>1. PICK g : Paired(r, g, r.len, cur) /\ Spare(r, g, cur, k, v, Pair(k, v))
    BY <1>3, <1>4
  <2> DEFINE m == Pair(k, v)
             N == Cells
  <2>a. N \in Nat /\ r \in Rings(N) /\ cur \in 0 .. N
    BY ONLY <1>1
  <2>b. Paired(r, g, r.len, cur) /\ Spare(r, g, cur, k, v, m)
    BY ONLY <2>1
  <2>. HIDE DEF m, N
  <2>2. Pairs(ObjAdd(r, k, v)) = Append(s, m)
    BY ONLY <2>a, <2>b, PairAddTells
  <2>3. Pairs(ObjPut(r, k, v)) = Append(WithoutOf(s, r.is[k]), m)
    BY ONLY <2>a, <2>b, PairPutTells
  <2>4. /\ k \in 2 .. cur /\ v \in 2 .. cur /\ k # v
        /\ Apart(g, r.len, k) /\ Apart(g, r.len, v)
    BY ONLY <2>1 DEF Spare
  <2>5. Pairs(ObjReplace(r, k, v)) = ReplacedIn(s, Pair(k, v))
    BY ONLY <1>1, <2>1, <2>4, PairReplaceTells DEF Pair
  <2>. QED
    BY ONLY <2>2, <2>3, <2>5 DEF m
<1>5. ASSUME NEW v \in LooseVal, NEW i \in Nat, kind = "obj"
      PROVE  Pairs(ObjInsert(r, k, v, i)) = IF i <= r.len THEN PutAt(s, i, Pair(k, v)) ELSE s
  <2>1. PICK g : Paired(r, g, r.len, cur) /\ Spare(r, g, cur, k, v, Pair(k, v))
    BY <1>3, <1>5
  <2>2. \A idx \in Nat : idx <= r.len => Pairs(ObjInsert(r, k, v, idx)) = PutAt(s, idx, Pair(k, v))
    BY ONLY <1>1, <2>1, PairInsertedTells
  <2>3. CASE i <= r.len
    BY ONLY <2>2, <2>3, i \in Nat
  <2>4. CASE ~ (i <= r.len)
    <3>1. i > r.len
      BY ONLY <1>1, <2>4, i \in Nat
    <3>2. ObjInsert(r, k, v, i) = r
      BY ONLY <3>1 DEF ObjInsert
    <3>. QED
      BY ONLY <2>4, <3>2
  <2>. QED
    BY ONLY <2>3, <2>4
<1>6. ASSUME kind = "obj"
      PROVE  Pairs(ObjPut(r, k, NULL)) = WithoutOf(s, r.is[k])
  <2>1. PICK g : Paired(r, g, r.len, cur)
    BY <1>2, <1>6
  <2>2. ObjPut(r, k, NULL) = ObjRemove(r, r.is[k])
    BY DEF ObjPut, ObjAdd
  <2>. QED
    BY ONLY <1>1, <2>1, <2>2, PairRemoveTells
<1>. HIDE DEF s
<1>7. \A w : S!Without(w) = WithoutOf(Contents, w)
  BY DEF S!Without, WithoutOf
<1>8. ASSUME NEW v \in LooseVal
      PROVE  /\ Add(k, v) => S!Add(Pair(k, v))
             /\ Put(k, v) => S!Put(Pair(k, v))
             /\ ReplacePair(k, v) => S!ReplaceKey(Pair(k, v))
  <2>1. Pair(k, v)[1] = r.is[k]
    BY DEF Pair
  <2>2. ASSUME Add(k, v)
        PROVE  S!Add(Pair(k, v))
    <3>1. kind = "obj" /\ Contents = s /\ Contents' = Pairs(ObjAdd(r, k, v))
      BY ONLY <2>2, ObjModified DEF Add, s
    <3>2. Contents' = Append(s, Pair(k, v))
      BY ONLY <1>4, <3>1, v \in LooseVal
    <3>. QED
      BY ONLY <3>1, <3>2 DEF S!Add
  <2>3. ASSUME Put(k, v)
        PROVE  S!Put(Pair(k, v))
    <3>1. kind = "obj" /\ Contents = s /\ Contents' = Pairs(ObjPut(r, k, v))
      BY ONLY <2>3, ObjModified DEF Put, s
    <3>2. Contents' = Append(WithoutOf(s, r.is[k]), Pair(k, v))
      BY ONLY <1>4, <3>1, v \in LooseVal
    <3>. QED
      BY ONLY <1>7, <2>1, <3>1, <3>2 DEF S!Put
  <2>4. ASSUME ReplacePair(k, v)
        PROVE  S!ReplaceKey(Pair(k, v))
    <3>1. kind = "obj" /\ Contents = s /\ Contents' = Pairs(ObjReplace(r, k, v))
      BY ONLY <2>4, ObjModified DEF ReplacePair, s
    <3>2. Contents' = ReplacedIn(Contents, Pair(k, v))
      BY ONLY <1>4, <3>1, v \in LooseVal
    <3>. QED
      BY ONLY <3>2 DEF S!ReplaceKey, ReplacedIn, First
  <2>. QED
    BY ONLY <2>2, <2>3, <2>4
<1>9. ASSUME NEW v \in LooseVal, NEW i \in Index, InsertPair(k, v, i)
      PROVE  IF i <= r.len THEN S!Insert(Pair(k, v), i) ELSE S!Keep
  <2>1. i \in Nat
    BY <1>1
  <2>2. S!InsertAt(s, i + 1, Pair(k, v)) = PutAt(s, i, Pair(k, v))
    BY <2>1, PutAtIs
  <2>3. kind = "obj" /\ Contents = s /\ Contents' = Pairs(ObjInsert(r, k, v, i))
    BY ONLY <1>9, ObjModified DEF InsertPair, s
  <2>4. Contents' = IF i <= r.len THEN PutAt(s, i, Pair(k, v)) ELSE s
    BY ONLY <1>5, <2>1, <2>3, v \in LooseVal
  <2>. QED
    BY ONLY <2>2, <2>3, <2>4 DEF S!Insert, S!Keep
<1>10. ASSUME Put(k, NULL)
       PROVE  S!RemoveKey(r.is[k])
  <2>1. kind = "obj" /\ Contents = s /\ Contents' = Pairs(ObjPut(r, k, NULL))
    BY ONLY <1>10, ObjModified DEF Put, s
  <2>2. Contents' = WithoutOf(Contents, r.is[k])
    BY ONLY <1>6, <2>1
  <2>. QED
    BY ONLY <1>7, <2>2 DEF S!RemoveKey
<1>. QED
  BY ONLY <1>8, <1>9, <1>10

LEMMA ObjKeyTells ==
    ASSUME IInv
    PROVE  /\ \A k \in Keys : /\ RemoveKey(k) => S!RemoveKey(k)
                              /\ Once(k) /\ RemoveStr(k) => S!RemoveKey(k)
           /\ \A i \in Index : RotateObj(i) => IF i < r.len THEN S!Rotate(i) ELSE S!Keep
           /\ ClearObj => S!Clear
<1>1. /\ Cells \in Nat /\ cur \in 0 .. Cells
      /\ r \in Rings(Cells) /\ r.len \in Nat /\ Index \subseteq Nat
  BY Within
<1>2. ASSUME kind = "obj"
      PROVE  \E g : Paired(r, g, r.len, cur)
  BY <1>2 DEF IInv, ObjInv
<1>3. ASSUME NEW k \in Keys, kind = "obj"
      PROVE  /\ Pairs(ObjRemove(r, k)) = WithoutOf(Pairs(r), k)
             /\ Once(k) => Pairs(ObjRemoveStr(r, k)) = WithoutOf(Pairs(r), k)
  <2>1. PICK g : Paired(r, g, r.len, cur)
    BY <1>2, <1>3
  <2>2. /\ Pairs(ObjRemove(r, k)) = WithoutOf(Pairs(r), k)
        /\ Single(r, g, k) => Pairs(ObjRemoveStr(r, k)) = WithoutOf(Pairs(r), k)
    BY ONLY <1>1, <2>1, PairRemoveTells
  <2>3. ASSUME Once(k)
        PROVE  Single(r, g, k)
    <3>1. Cardinality({i \in 1 .. r.len : r.is[Hop(r, r.ptr, 2 * i)] = k}) <= 1
      BY <2>3 DEF Once, KeyOf
    <3>. QED
      BY ONLY <1>1, <2>1, <3>1, SingleHit
  <2>. QED
    BY ONLY <2>2, <2>3
<1>4. \A w : S!Without(w) = WithoutOf(Contents, w)
  BY DEF S!Without, WithoutOf
<1>5. ASSUME NEW k \in Keys
      PROVE  /\ RemoveKey(k) => S!RemoveKey(k)
             /\ Once(k) /\ RemoveStr(k) => S!RemoveKey(k)
  <2>1. ASSUME RemoveKey(k)
        PROVE  S!RemoveKey(k)
    <3>1. kind = "obj" /\ Contents = Pairs(r) /\ Contents' = Pairs(ObjRemove(r, k))
      BY ONLY <2>1, ObjModified DEF RemoveKey
    <3>2. Contents' = WithoutOf(Contents, k)
      BY ONLY <1>3, <3>1, k \in Keys
    <3>. QED
      BY ONLY <1>4, <3>2 DEF S!RemoveKey
  <2>2. ASSUME Once(k), RemoveStr(k)
        PROVE  S!RemoveKey(k)
    <3>1. kind = "obj" /\ Contents = Pairs(r) /\ Contents' = Pairs(ObjRemoveStr(r, k))
      BY ONLY <2>2, ObjModified DEF RemoveStr
    <3>2. Contents' = WithoutOf(Contents, k)
      BY ONLY <1>3, <2>2, <3>1, k \in Keys
    <3>. QED
      BY ONLY <1>4, <3>2 DEF S!RemoveKey
  <2>. QED
    BY ONLY <1>5, <2>1, <2>2
<1>6. ASSUME NEW i \in Index, RotateObj(i)
      PROVE  IF i < r.len THEN S!Rotate(i) ELSE S!Keep
  <2>1. kind = "obj" /\ Contents = Pairs(r) /\ Contents' = Pairs(ObjRotate(r, i))
    BY ONLY <1>6, ObjModified DEF RotateObj
  <2>2. i \in Nat
    BY <1>1
  <2>3. PICK g : Paired(r, g, r.len, cur)
    BY <1>2, <2>1
  <2>4. CASE i < r.len
    <3>1. Contents' = TurnedTo(Contents, i)
      BY ONLY <1>1, <2>1, <2>2, <2>3, <2>4, PairRotateTells
    <3>. QED
      BY ONLY <2>4, <3>1 DEF S!Rotate, TurnedTo
  <2>5. CASE ~ (i < r.len)
    <3>1. ~ (r.len > i)
      BY ONLY <1>1, <2>2, <2>5
    <3>2. ObjRotate(r, i) = r
      BY ONLY <3>1 DEF ObjRotate
    <3>. QED
      BY ONLY <2>1, <2>5, <3>2 DEF S!Keep
  <2>. QED
    BY ONLY <2>4, <2>5
<1>7. ASSUME ClearObj
      PROVE  S!Clear
  <2> DEFINE made == ObjClear(r)
  <2>1. Contents' = Pairs(made)
    BY ONLY <1>7, ObjModified DEF ClearObj
  <2>2. made.len = 0
    BY <1>1 DEF ObjClear, Rings
  <2>. HIDE DEF made
  <2>3. Pairs(made) = <<>>
    BY ONLY <2>2, NoneAre
  <2>. QED
    BY ONLY <2>1, <2>3 DEF S!Clear
<1>. QED
  BY ONLY <1>5, <1>6, <1>7

\* A key, or a key and its value, in cells of their own, change no pair.
LEMMA ObjMadeTells ==
    ASSUME NEW N \in Nat, NEW ring \in Rings(N), NEW g, NEW top \in 0 .. N,
           Paired(ring, g, ring.len, top), KeyCells(ring, g, ring.len),
           NEW c \in 1 .. N, top < c, NEW w \in What
    PROVE  Pairs(Made(ring, c, w)) = Pairs(ring)
<1> DEFINE made == Made(ring, c, w)
<1>1. top \in Nat
  OBVIOUS
<1>2. Filled(N, ring, made, c, w) /\ Paired(made, g, made.len, c)
  BY ONLY <1>1, MadePaired, N \in Nat, ring \in Rings(N), Paired(ring, g, ring.len, top),
          KeyCells(ring, g, ring.len), c \in 1 .. N, top < c, w \in What
<1>3. made.next = ring.next
  BY DEF Made, Rings
<1>. HIDE DEF made
<1>4. c \in 0 .. N
  OBVIOUS
<1>5. Pairs(made) = Pairs(ring)
  BY ONLY <1>2, <1>3, <1>4, PairMadeTells, N \in Nat, ring \in Rings(N), top \in 0 .. N,
          Paired(ring, g, ring.len, top), c \in 1 .. N, top < c
<1>. QED
  BY ONLY <1>5 DEF made

LEMMA ObjNewTells ==
    ASSUME IInv, NEW k \in Keys
    PROVE  /\ AddNewPair(k) => S!Add(<<k, cur'>>)
           /\ \A v \in LooseVal : AddVal(k, v) => S!Add(<<k, r.is[v]>>)
<1>1. /\ Cells \in Nat /\ cur \in Cell /\ cur \in 0 .. Cells /\ cur \in Nat
      /\ r \in Rings(Cells) /\ r.len \in Nat
  BY Within DEF Cell
<1> DEFINE c == cur + 1
           d == cur + 2
           one == Made(r, c, k)
<1>2. ASSUME kind = "obj"
      PROVE  \E g : Paired(r, g, r.len, cur) /\ KeyCells(r, g, r.len)
  BY <1>2 DEF IInv, ObjInv
<1>3. k \in What
  BY DEF What
<1>4. ASSUME cur + 2 <= Cells
      PROVE  /\ c \in 1 .. Cells /\ cur < c /\ c \in 0 .. Cells /\ c \in Nat /\ c \in 2 .. d /\ d \in 2 .. d
             /\ c < d /\ c # d /\ c <= d
             /\ d \in 1 .. Cells /\ d \in Nat /\ d \in 0 .. Cells /\ d \in What
             /\ \A x \in 2 .. cur : x \in 2 .. d /\ x # c /\ x \in 1 .. Cells
  BY ONLY <1>1, <1>4 DEF What, Cell
<1>. HIDE DEF c, d
<1>5. ASSUME NEW g, Paired(r, g, r.len, cur), KeyCells(r, g, r.len), cur + 2 <= Cells
      PROVE  /\ Filled(Cells, r, one, c, k)
             /\ Paired(one, g, one.len, c) /\ KeyCells(one, g, one.len) /\ Apart(g, one.len, c)
             /\ Pairs(one) = Pairs(r)
  <2>1. /\ Filled(Cells, r, one, c, k)
        /\ Paired(one, g, one.len, c) /\ KeyCells(one, g, one.len) /\ Apart(g, one.len, c)
    BY ONLY <1>1, <1>3, <1>4, <1>5, MadePaired
  <2>2. Pairs(one) = Pairs(r)
    BY ONLY <1>1, <1>3, <1>4, <1>5, ObjMadeTells
  <2>. QED
    BY ONLY <2>1, <2>2
<1>. HIDE DEF one
<1>6. ASSUME AddNewPair(k)
      PROVE  S!Add(<<k, cur'>>)
  <2> DEFINE two == Made(one, d, d)
  <2>1. /\ kind = "obj" /\ cur + 2 <= Cells /\ cur' = d /\ r' = ObjAdd(two, c, d) /\ kind' = kind
    BY <1>6 DEF AddNewPair, c, d, one
  <2>2. PICK g : Paired(r, g, r.len, cur) /\ KeyCells(r, g, r.len)
    BY ONLY <1>2, <2>1
  <2>3. /\ Filled(Cells, r, one, c, k)
        /\ Paired(one, g, one.len, c) /\ KeyCells(one, g, one.len) /\ Apart(g, one.len, c)
        /\ Pairs(one) = Pairs(r)
    BY ONLY <1>5, <2>1, <2>2
  <2>4. one \in Rings(Cells) /\ one.is[c] = k
    BY ONLY <2>3 DEF Filled
  <2>5. /\ Filled(Cells, one, two, d, d)
        /\ Paired(two, g, two.len, d) /\ Apart(g, two.len, d)
    BY ONLY <1>1, <1>4, <2>1, <2>3, <2>4, MadePaired
  <2>6. Pairs(two) = Pairs(one)
    BY ONLY ZenonT(30), <1>1, <1>4, <2>1, <2>3, <2>4, ObjMadeTells
  <2>. HIDE DEF two
  <2>7. two \in Rings(Cells) /\ two.len = one.len /\ two.is[d] = d /\ two.is[c] = k
    BY ONLY <1>4, <2>1, <2>4, <2>5 DEF Filled
  <2>8. Apart(g, two.len, c)
    BY ONLY <2>3, <2>7
  <2>9. <<k, d>> = <<two.is[c], two.is[d]>>
    BY ONLY <2>7
  <2> DEFINE m == <<k, d>>
  <2>10. Spare(two, g, d, c, d, m)
    BY ONLY <1>4, <2>1, <2>5, <2>8, <2>9 DEF Spare
  <2>. HIDE DEF m
  <2>11. Cells \in Nat /\ two \in Rings(Cells) /\ d \in 0 .. Cells /\ Paired(two, g, two.len, d)
    BY ONLY <1>1, <1>4, <2>1, <2>5, <2>7
  <2>12. Pairs(ObjAdd(two, c, d)) = Append(Pairs(two), m)
    BY ONLY <2>10, <2>11, PairAddTells
  <2>13. Contents = Pairs(r) /\ Contents' = Pairs(r')
    BY <2>1, ContentsAre
  <2>. QED
    BY ONLY <2>1, <2>3, <2>6, <2>12, <2>13 DEF S!Add, m
<1>7. ASSUME NEW v \in LooseVal, AddVal(k, v)
      PROVE  S!Add(<<k, r.is[v]>>)
  <2>1. /\ kind = "obj" /\ cur + 2 <= Cells /\ cur' = d /\ r' = ObjAdd(one, c, v) /\ kind' = kind
    BY <1>7 DEF AddVal, c, d, one
  <2>2. PICK g : Paired(r, g, r.len, cur) /\ KeyCells(r, g, r.len)
    BY ONLY <1>2, <2>1
  <2>3. /\ Filled(Cells, r, one, c, k)
        /\ Paired(one, g, one.len, c) /\ KeyCells(one, g, one.len) /\ Apart(g, one.len, c)
        /\ Pairs(one) = Pairs(r)
    BY ONLY <1>5, <2>1, <2>2
  <2>4. v \in 2 .. cur /\ Apart(g, r.len, v)
    BY ONLY <2>1, <2>2, LoosePair, IInv, v \in LooseVal
  <2>5. v \in 2 .. d /\ c # v /\ v # c /\ v \in 1 .. Cells
    BY ONLY <1>4, <2>1, <2>4
  <2>6. one \in Rings(Cells) /\ one.len = r.len /\ one.is[c] = k /\ one.is[v] = r.is[v]
    BY ONLY <2>3, <2>5 DEF Filled
  <2>7. Paired(one, g, one.len, d)
    BY ONLY <1>4, <2>1, <2>3, PairedHigher
  <2>8. Apart(g, one.len, v)
    BY ONLY <2>4, <2>6
  <2>9. <<k, r.is[v]>> = <<one.is[c], one.is[v]>>
    BY ONLY <2>6
  <2> DEFINE m == <<k, r.is[v]>>
  <2>10. Spare(one, g, d, c, v, m)
    BY ONLY <1>4, <2>1, <2>3, <2>5, <2>8, <2>9 DEF Spare
  <2> DEFINE N == Cells
  <2>11. N \in Nat /\ one \in Rings(N) /\ d \in 0 .. N /\ Paired(one, g, one.len, d)
    BY ONLY <1>1, <1>4, <2>1, <2>6, <2>7
  <2>. HIDE DEF m, N
  <2>12. Pairs(ObjAdd(one, c, v)) = Append(Pairs(one), m)
    BY ONLY <2>10, <2>11, PairAddTells
  <2>13. Contents = Pairs(r) /\ Contents' = Pairs(r')
    BY <2>1, ContentsAre
  <2>. QED
    BY ONLY <2>1, <2>3, <2>12, <2>13 DEF S!Add, m
<1>. QED
  BY ONLY <1>6, <1>7

LEMMA ObjTells == ASSUME IInv PROVE ObjTold
  BY ObjPairTells, ObjKeyTells, ObjNewTells DEF ObjTold

LEMMA IterRemoveTells == ASSUME IInv, IdxTells, IterRemove PROVE S!RemoveMember(place - 1)
<1>1. /\ kind \in {"arr", "obj"} /\ Cells \in Nat /\ cur \in 0 .. Cells
      /\ r \in Rings(Cells) /\ r.len \in Nat
  BY Within
<1>2. it.idx \in Nat /\ it.max \in Nat /\ place \in Nat /\ (it.idx > 0 => place > 0)
  BY DEF IInv, TypeInv, Counted, Iterators
<1>3. /\ it.max > 0 /\ place > 0 /\ kind' = kind
      /\ kind = "arr" => r' = ArrUnlink(r, it)
      /\ kind # "arr" => r' = ObjUnlink(r, it)
  BY <1>2 DEF IterRemove
<1>8. it.max = r.len => Tells(it, place, r.len)
  BY ONLY IdxTells DEF IdxTells, Tells
<1>4. ASSUME kind = "arr"
      PROVE  Contents' = CutOut(Contents, place - 1, 1)
  <2>1. PICK g : Sound(r, g, r.len, cur) /\ ArrAt(g)
    BY <1>4 DEF IInv, ArrInv
  <2>2. it.max = r.len /\ place <= it.max /\ it.cur = g[place] /\ it.pre = g[place - 1]
    BY ONLY <1>3, <2>1 DEF ArrAt
  <2>3. place \in 1 .. r.len
    BY ONLY <1>1, <1>2, <1>3, <2>2
  <2>4. Elements(ArrUnlink(r, it)) = CutOut(Elements(r), place - 1, 1)
    BY ONLY <1>1, <1>8, <2>1, <2>2, <2>3, ArrUnlinkTells
  <2>. QED
    BY ONLY <1>3, <1>4, <2>4, ContentsAre
<1>5. ASSUME kind = "obj"
      PROVE  Contents' = CutOut(Contents, place - 1, 1)
  <2>1. PICK g : Paired(r, g, r.len, cur) /\ ObjAt(g)
    BY <1>5 DEF IInv, ObjInv
  <2>2. it.max = r.len /\ place <= it.max /\ it.cur = g[2 * place] /\ it.pre = g[2 * place - 2]
    BY ONLY <1>3, <2>1 DEF ObjAt
  <2>3. place \in 1 .. r.len
    BY ONLY <1>1, <1>2, <1>3, <2>2
  <2>4. Pairs(ObjUnlink(r, it)) = CutOut(Pairs(r), place - 1, 1)
    BY ONLY <1>1, <1>8, <2>1, <2>2, <2>3, PairUnlinkTells
  <2>. QED
    BY ONLY <1>3, <1>5, <2>4, ContentsAre
<1>6. place - 1 \in Nat
  BY ONLY <1>2, <1>3
<1>7. S!RemoveAt(Contents, place - 1 + 1) = CutOut(Contents, place - 1, 1)
  BY ONLY <1>6, PutAtIs
<1>. QED
  BY ONLY <1>1, <1>4, <1>5, <1>7 DEF S!RemoveMember

LEMMA NewValTells == ASSUME IInv, NewVal PROVE S!Keep
<1>1. /\ kind \in {"arr", "obj"} /\ Cells \in Nat /\ cur \in 0 .. Cells /\ cur \in Nat
      /\ r \in Rings(Cells) /\ r.len \in Nat
  BY Within
<1> DEFINE c == cur + 1
<1>2. cur < Cells /\ r' = Made(r, c, c) /\ kind' = kind
  BY DEF NewVal
<1>3. c \in 1 .. Cells /\ cur < c /\ c \in What
  BY ONLY <1>1, <1>2 DEF What
<1>. HIDE DEF c
<1>4. ASSUME kind = "arr"
      PROVE  Elements(Made(r, c, c)) = Elements(r)
  <2>1. PICK g : Sound(r, g, r.len, cur)
    BY <1>4 DEF IInv, ArrInv
  <2>. QED
    BY ONLY <1>1, <1>3, <2>1, MadeTells
<1>5. ASSUME kind = "obj"
      PROVE  Pairs(Made(r, c, c)) = Pairs(r)
  <2>1. PICK g : Paired(r, g, r.len, cur) /\ KeyCells(r, g, r.len)
    BY <1>5 DEF IInv, ObjInv
  <2>. QED
    BY ONLY <1>1, <1>3, <2>1, ObjMadeTells
<1>. QED
  BY <1>1, <1>2, <1>4, <1>5, ContentsAre DEF S!Keep

LEMMA IterTells == ASSUME Iterate \/ IterNext PROVE S!Keep
  BY DEF Iterate, IterNext, S!Keep, Contents

\* Through every call of the interface, by a caller who removes by remove_str
\* no key that occurs several times and by an iterator only where its idx
\* tells, the ring comes back to ptr after as many different cells as the
\* length says, keys at every other of an object's: what every function of
\* yyjson.h:2963-4150 takes for granted.
THEOREM RingHolds ==
    ASSUME Careful
    PROVE  Spec => []RingShape
BY AlwaysIInv, ShapeOf, PTL

\* Of such a caller, an iterator returns the member behind the one it stands
\* at, whatever it removed and searched for before.  One that has neither
\* removed nor searched around the end skips no member and returns none twice;
\* one that removes steps over the member that follows (yyjson.h:3024-3051,
\* 3662-3722).
THEOREM IteratorsAhead ==
    ASSUME Careful
    PROVE  Spec => []IterAhead
BY AlwaysIInv, AheadOf, PTL

\* The functions that read give the member they name, a key that occurs
\* several times its first value (yyjson.h:2967-2990, 3613-3628).
THEOREM ReadersRead ==
    ASSUME Careful
    PROVE  Spec => []Reads
BY AlwaysIInv, ReadsOf, PTL

\* Every function does to the sequence of members what its name says, whatever
\* was done before by such a caller: remove_str for a key that occurs once at
\* most, iter_remove where idx tells (yyjson.h:3247-3449, 3809-3973, 4131-4150).
THEOREM Contracted ==
    ASSUME Careful
    PROVE  Spec => Contract
<1>1. IInv /\ [Next]_vars =>
        [vars' # vars => /\ ArrTold /\ ObjTold
                         /\ IdxTells /\ IterRemove => S!RemoveMember(place - 1)
                         /\ NewVal \/ Iterate \/ IterNext => S!Keep]_vars
  BY ArrTells, ObjTells, IterRemoveTells, NewValTells, IterTells
<1>. QED
  BY <1>1, AlwaysIInv, PTL DEF Spec, Contract

=============================================================================
