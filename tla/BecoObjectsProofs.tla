------------------------- MODULE BecoObjectsProofs --------------------------
(***************************************************************************)
(* Proofs about BecoObjects, for any number of blocks, of pointers held    *)
(* and of members, of a caller who keeps the four rules.                   *)
(*                                                                         *)
(* None of the properties is inductive.  IInv says of the blocks that the  *)
(* caller or the free in progress can reach that each is alive and of the  *)
(* kind its pointers take it for (Fit), is pointed to from one place       *)
(* (Single) and, if somebody has its address, from none (Rooted); that the *)
(* calls still to be made are for different blocks, none of them the       *)
(* caller's (Pending), and lead to no slot that was never set (Settled).   *)
(*                                                                         *)
(* What can be reached is a closure (Spread).  A step of the caller adds   *)
(* blocks, or pointers to what it gives away (Grows, and Puts and Plants,  *)
(* from which it follows); a call takes a block away and leaves a call for *)
(* each of its pointers (Passes, and Frees, from which it follows).  That  *)
(* both preserve IInv is proved once, and each action is shown to be one   *)
(* or the other.                                                           *)
(***************************************************************************)
EXTENDS BecoObjects, WellFoundedInduction, SequenceTheorems, FiniteSetTheorems, TLAPS

-----------------------------------------------------------------------------
(* What can be reached *)

LEMMA Induction ==
    ASSUME NEW T, 0 \in T, \A n \in Nat : n \in T => n + 1 \in T
    PROVE  \A n \in Nat : n \in T
<1> DEFINE D == {n \in Nat : n \notin T}
<1>1. SUFFICES ASSUME D # {}
               PROVE  FALSE
  OBVIOUS
<1>2. D \subseteq Nat /\ (\A d \in D : d \in Nat)
  OBVIOUS
<1>. HIDE DEF D
<1>3. PICK k \in D : \A e \in D : ~ (<<e, k>> \in OpToRel(<, Nat))
  BY <1>1, <1>2, NatLessThanWellFounded, WFMin
<1>4. \A e \in D : ~ (e < k)
  BY <1>2, <1>3 DEF OpToRel
<1>5. k \in Nat /\ k \notin T
  BY DEF D
<1>6. k # 0
  BY <1>5
<1>7. k - 1 \in Nat /\ k - 1 < k
  BY <1>5, <1>6
<1>8. k - 1 \in T
  BY <1>4, <1>7 DEF D
<1>. QED
  BY <1>5, <1>7, <1>8

Further(edges, seen) == seen \cup {e[2] : e \in {x \in edges : x[1] \in seen}}
Closed(edges, s) == \A e \in edges : e[1] \in s => e[2] \in s

\* How far it spreads in i steps.
Spreads(f, edges, n, roots) ==
    /\ f[0] = roots \cap (1 .. n)
    /\ \A i \in 0 .. n - 1 : f[i + 1] = Further(edges, f[i])
    /\ Spread(edges, n, roots) = f[n]

\* Spread goes on from the roots, a step at a time.
LEMMA SpreadSteps ==
    ASSUME NEW edges, NEW n \in Nat, NEW roots
    PROVE  \E f : Spreads(f, edges, n, roots)
<1> DEFINE F(f, m) == f = [i \in 0 .. m |-> IF i = 0 THEN roots \cap (1 .. n)
                                            ELSE Further(edges, f[i - 1])]
           T == {m \in Nat : \E f : F(f, m)}
<1>1. 0 \in T
  <2>1. F([i \in 0 .. 0 |-> roots \cap (1 .. n)], 0)
    OBVIOUS
  <2>. QED
    BY ONLY <2>1
<1>2. \A m \in Nat : m \in T => m + 1 \in T
  <2> SUFFICES ASSUME NEW m \in Nat, m \in T
               PROVE  m + 1 \in T
    OBVIOUS
  <2>1. PICK f : F(f, m)
    OBVIOUS
  <2> DEFINE g == [i \in 0 .. m + 1 |-> IF i <= m THEN f[i] ELSE Further(edges, f[m])]
  <2>2. g = [i \in 0 .. m + 1 |-> IF i = 0 THEN roots \cap (1 .. n) ELSE Further(edges, g[i - 1])]
    <3> SUFFICES ASSUME NEW i \in 0 .. m + 1
                 PROVE  g[i] = IF i = 0 THEN roots \cap (1 .. n) ELSE Further(edges, g[i - 1])
      OBVIOUS
    <3>1. CASE i = 0
      BY ONLY <3>1, <2>1, m \in Nat
    <3>2. CASE i # 0 /\ i <= m
      <4>1. i \in 0 .. m /\ i - 1 \in 0 .. m /\ i - 1 \in 0 .. m + 1 /\ i - 1 <= m
        BY ONLY <3>2, m \in Nat, i \in 0 .. m + 1
      <4>2. g[i] = f[i] /\ g[i - 1] = f[i - 1]
        BY ONLY <3>2, <4>1, m \in Nat, i \in 0 .. m + 1
      <4>3. f[i] = Further(edges, f[i - 1])
        BY ONLY <2>1, <3>2, <4>1
      <4>. QED
        BY ONLY <3>2, <4>2, <4>3
    <3>3. CASE i = m + 1
      <4>1. m \in 0 .. m + 1 /\ i - 1 = m /\ i # 0 /\ ~ (i <= m)
        BY ONLY <3>3, m \in Nat
      <4>2. g[i] = Further(edges, f[m]) /\ g[i - 1] = f[m]
        BY ONLY <3>3, <4>1, m \in Nat
      <4>. QED
        BY ONLY <4>1, <4>2
    <3>. QED
      BY ONLY <3>1, <3>2, <3>3, m \in Nat, i \in 0 .. m + 1
  <2>3. \E h : F(h, m + 1)
    BY ONLY <2>2
  <2>. QED
    BY ONLY <2>3, m \in Nat
<1>. HIDE DEF T
<1>3. n \in T
  BY <1>1, <1>2, Induction
<1>4. \E f : F(f, n)
  BY <1>3 DEF T
<1> DEFINE from == CHOOSE f : F(f, n)
<1>5. F(from, n)
  BY ONLY <1>4
<1>6. Spread(edges, n, roots) = from[n]
  BY DEF Spread, Further
<1>. HIDE DEF from
<1>7. from[0] = roots \cap (1 .. n)
  BY ONLY <1>5, n \in Nat
<1>8. \A i \in 0 .. n - 1 : from[i + 1] = Further(edges, from[i])
  <2> SUFFICES ASSUME NEW i \in 0 .. n - 1
               PROVE  from[i + 1] = Further(edges, from[i])
    OBVIOUS
  <2>1. i + 1 \in 0 .. n /\ i + 1 # 0 /\ i + 1 - 1 = i
    BY ONLY n \in Nat, i \in 0 .. n - 1
  <2>2. \A j \in 0 .. n : j # 0 => from[j] = Further(edges, from[j - 1])
    BY ONLY <1>5
  <2>3. from[i + 1] = Further(edges, from[i + 1 - 1])
    BY ONLY <2>1, <2>2
  <2>. QED
    BY ONLY <2>1, <2>3
<1>. WITNESS from
<1>. QED
  BY ONLY <1>6, <1>7, <1>8 DEF Spreads

\* What contains the roots and is closed contains all that can be reached.
LEMMA SpreadLeast ==
    ASSUME NEW edges, NEW n \in Nat, NEW roots, NEW s,
           roots \cap (1 .. n) \subseteq s, Closed(edges, s)
    PROVE  Spread(edges, n, roots) \subseteq s
<1> PICK f : Spreads(f, edges, n, roots)
  BY SpreadSteps
<1>1. /\ f[0] = roots \cap (1 .. n)
      /\ \A i \in 0 .. n - 1 : f[i + 1] = Further(edges, f[i])
      /\ Spread(edges, n, roots) = f[n]
  BY DEF Spreads
<1> DEFINE T == {i \in Nat : i <= n => f[i] \subseteq s}
<1>2. 0 \in T
  BY <1>1
<1>3. \A i \in Nat : i \in T => i + 1 \in T
  <2> SUFFICES ASSUME NEW i \in Nat, i \in T
               PROVE  i + 1 \in T
    OBVIOUS
  <2> SUFFICES ASSUME i + 1 <= n
               PROVE  f[i + 1] \subseteq s
    OBVIOUS
  <2>1. i \in 0 .. n - 1 /\ i <= n
    BY ONLY n \in Nat, i \in Nat, i + 1 <= n
  <2>2. f[i] \subseteq s /\ f[i + 1] = Further(edges, f[i])
    BY <1>1, <2>1
  <2>. QED
    BY ONLY <2>2, Closed(edges, s) DEF Closed, Further
<1>. HIDE DEF T
<1>4. n \in T
  BY <1>2, <1>3, Induction
<1>. QED
  BY <1>1, <1>4 DEF T

\* What can be reached is closed: each step before that adds a block, and
\* there are as many steps as blocks.
LEMMA SpreadIs ==
    ASSUME NEW n \in Nat, NEW edges \in SUBSET ((1 .. n) \X (1 .. n)), NEW roots
    PROVE  /\ Spread(edges, n, roots) \subseteq 1 .. n
           /\ roots \cap (1 .. n) \subseteq Spread(edges, n, roots)
           /\ Closed(edges, Spread(edges, n, roots))
<1> PICK f : Spreads(f, edges, n, roots)
  BY SpreadSteps
<1>1. /\ f[0] = roots \cap (1 .. n)
      /\ \A i \in 0 .. n - 1 : f[i + 1] = Further(edges, f[i])
      /\ Spread(edges, n, roots) = f[n]
  BY DEF Spreads
<1> DEFINE Whole(s) == s \subseteq 1 .. n /\ roots \cap (1 .. n) \subseteq s
           T == {i \in Nat : i <= n => /\ Whole(f[i])
                                       /\ Closed(edges, f[i]) \/ Cardinality(f[i]) >= i}
<1>0. IsFiniteSet(1 .. n) /\ Cardinality(1 .. n) = n
  <2>1. 1 \in Int /\ n \in Int
    OBVIOUS
  <2>2. Cardinality(1 .. n) = IF 1 > n THEN 0 ELSE n - 1 + 1
    BY ONLY <2>1, FS_Interval
  <2>3. IsFiniteSet(1 .. n)
    BY ONLY <2>1, FS_Interval
  <2>. QED
    BY ONLY <2>2, <2>3, n \in Nat
<1>2. 0 \in T
  <2>1. Whole(f[0])
    BY <1>1
  <2>2. IsFiniteSet(f[0])
    BY <1>0, <2>1, FS_Subset
  <2>3. Cardinality(f[0]) \in Nat
    BY ONLY <2>2, FS_CardinalityType
  <2>. QED
    BY ONLY <2>1, <2>3
<1>3. \A i \in Nat : i \in T => i + 1 \in T
  <2> SUFFICES ASSUME NEW i \in Nat, i \in T
               PROVE  i + 1 \in T
    OBVIOUS
  <2> SUFFICES ASSUME i + 1 <= n
               PROVE  Whole(f[i + 1]) /\ (Closed(edges, f[i + 1]) \/ Cardinality(f[i + 1]) >= i + 1)
    OBVIOUS
  <2>1. i \in 0 .. n - 1 /\ i <= n
    BY ONLY n \in Nat, i \in Nat, i + 1 <= n
  <2>2. Whole(f[i]) /\ (Closed(edges, f[i]) \/ Cardinality(f[i]) >= i)
    BY ONLY <2>1, i \in T
  <2>3. f[i + 1] = Further(edges, f[i])
    BY ONLY <1>1, <2>1
  <2>4. Whole(f[i + 1]) /\ f[i] \subseteq f[i + 1]
    <3>1. f[i] \subseteq f[i + 1]
      BY ONLY <2>3 DEF Further
    <3>2. f[i + 1] \subseteq 1 .. n
      BY ONLY <2>2, <2>3, edges \subseteq (1 .. n) \X (1 .. n) DEF Further
    <3>. QED
      BY ONLY <2>2, <3>1, <3>2
  <2>5. CASE Closed(edges, f[i])
    <3>1. f[i + 1] = f[i]
      BY ONLY <2>3, <2>5 DEF Further, Closed
    <3>. QED
      BY ONLY <2>4, <2>5, <3>1
  <2>6. CASE ~ Closed(edges, f[i])
    <3>1. PICK e \in edges : e[1] \in f[i] /\ e[2] \notin f[i]
      BY ONLY <2>6 DEF Closed
    <3>2. e[2] \in f[i + 1]
      BY ONLY <2>3, <3>1 DEF Further
    <3>3. IsFiniteSet(f[i + 1])
      BY ONLY <1>0, <2>4, FS_Subset
    <3>4. /\ IsFiniteSet(f[i]) /\ Cardinality(f[i]) <= Cardinality(f[i + 1])
          /\ Cardinality(f[i + 1]) = Cardinality(f[i]) => f[i + 1] = f[i]
      BY ONLY <2>4, <3>3, FS_Subset
    <3>5. Cardinality(f[i]) \in Nat /\ Cardinality(f[i + 1]) \in Nat
      BY ONLY <3>3, <3>4, FS_CardinalityType
    <3>6. Cardinality(f[i + 1]) # Cardinality(f[i]) /\ Cardinality(f[i]) >= i
      BY ONLY <2>2, <2>6, <3>1, <3>2, <3>4
    <3>7. Cardinality(f[i + 1]) >= i + 1
      BY ONLY <3>4, <3>5, <3>6, i \in Nat
    <3>. QED
      BY ONLY <2>4, <3>7
  <2>. QED
    BY ONLY <2>5, <2>6
<1>. HIDE DEF T
<1>4. n \in T
  BY <1>2, <1>3, Induction
<1>5. Whole(f[n]) /\ (Closed(edges, f[n]) \/ Cardinality(f[n]) >= n)
  BY ONLY <1>4, n \in Nat DEF T
<1>6. ASSUME Cardinality(f[n]) >= n
      PROVE  f[n] = 1 .. n
  <2>1. /\ IsFiniteSet(f[n]) /\ Cardinality(f[n]) <= n
        /\ n = Cardinality(f[n]) => 1 .. n = f[n]
    BY ONLY <1>0, <1>5, FS_Subset
  <2>2. Cardinality(f[n]) \in Nat
    BY ONLY <2>1, FS_CardinalityType
  <2>. QED
    BY ONLY <1>6, <2>1, <2>2, n \in Nat
<1>7. Closed(edges, 1 .. n)
  BY ONLY edges \subseteq (1 .. n) \X (1 .. n) DEF Closed
<1>. QED
  BY ONLY <1>1, <1>5, <1>6, <1>7

-----------------------------------------------------------------------------
(* The invariant *)

Types  == {"INTEGER", "STR", "MAP", "ARRAY"}
Objs   == [kind : {"obj"}, type : Types, via : Int]
Maps   == [kind : {"map"}, table : Int]
Tables == [kind : {"table"}, entries : Seq(Int)]
KVs    == [kind : {"kv"}, key : {None, Str, Dead}, value : Int]
Arrays == [kind : {"array"}, ptr : Int]
Slots  == [kind : {"slots"}, at : Seq(Int)]
Reqs   == [kind : {"req"}, cmd : {None, Str, Dead}, data : Int]
Content == Objs \cup Maps \cup Tables \cup KVs \cup Arrays \cup Slots \cup Reqs \cup {Str, Frame, Dead}
Kinds   == {"obj", "map", "table", "kv", "array", "slots", "req", "str", "frame", "dead"}

\* What a block's pointers lead to.
ViaKind == [STR |-> "str", MAP |-> "map", ARRAY |-> "array"]
Kind    == [map |-> "table", table |-> "kv", kv |-> "obj", array |-> "slots", slots |-> "obj", req |-> "obj"]
Leads(b) == IF b.kind = "obj" THEN ViaKind[b.type] ELSE Kind[b.kind]

\* A pointer t of a block that holds b.
Sound(b, t) ==
    \/ t = NULL /\ b.kind # "array"
    \/ t = Garbage /\ b.kind = "slots"
    \/ /\ t \in Block /\ b.kind \in {"obj", "map", "table", "kv", "array", "slots", "req"}
       /\ b.kind = "obj" => b.type \in DOMAIN ViaKind
       /\ heap[t].kind = Leads(b)

\* What can be reached is allocated and of the kind it is taken for.
Fit(c) ==
    /\ heap[c] # Dead
    /\ heap[c].kind = "kv" => heap[c].key # Dead
    /\ \A i \in DOMAIN Pointers(c) : Sound(heap[c], Pointers(c)[i])

\* A block is pointed to from one place.
Single ==
    \A p, q \in Reach(Roots) : \A i \in DOMAIN Pointers(p), j \in DOMAIN Pointers(q) :
        Pointers(p)[i] = Pointers(q)[j] /\ Pointers(p)[i] \in Block => p = q /\ i = j

\* A root is pointed to from nowhere.
Rooted ==
    \A p \in Reach(Roots) : \A i \in DOMAIN Pointers(p) :
        Pointers(p)[i] \in Block => Pointers(p)[i] \notin Roots

\* The calls to be made are for different blocks, none of them the caller's.
Pending ==
    /\ \A i \in DOMAIN calls :
          LET c == calls[i].on
          IN  c # NULL => /\ c \in Block /\ c \notin app
                          /\ calls[i].of \in {"block", heap[c].kind}
    /\ \A i, j \in DOMAIN calls : calls[i].on = calls[j].on /\ calls[i].on # NULL => i = j

\* No slot that was never set is on the way.
Settled == \A c \in Reach(Called) : \A i \in DOMAIN Pointers(c) : Pointers(c)[i] # Garbage

TypeOK ==
    /\ heap \in Seq(Content) /\ app \subseteq Block
    /\ calls \in Seq([of : Kinds \cup {"block"}, on : Int])

IInv ==
    /\ TypeOK /\ wild = FALSE
    /\ \A c \in Reach(Roots) : Fit(c)
    /\ Single /\ Rooted /\ Pending /\ Settled /\ KnownLeaks

-----------------------------------------------------------------------------
(* Reach, before a step and after it *)

\* c points to the block t.
To(c, t) == t \in Block /\ \E i \in DOMAIN Pointers(c) : Pointers(c)[i] = t

LEMMA EdgeIs ==
    ASSUME Block = 1 .. Len(heap)
    PROVE  /\ Edges \in SUBSET ((1 .. Len(heap)) \X (1 .. Len(heap)))
           /\ \A e \in Edges : To(e[1], e[2])
           /\ \A c \in Block : \A t : To(c, t) => <<c, t>> \in Edges
<1>1. ASSUME NEW e \in Edges
      PROVE  \E c \in Block, t \in Block : e = <<c, t>> /\ To(c, t)
  <2>1. PICK c \in Block : e \in {c} \X (Range(Pointers(c)) \cap Block)
    BY DEF Edges
  <2>2. PICK t \in Range(Pointers(c)) \cap Block : e = <<c, t>>
    BY ONLY <2>1
  <2>3. To(c, t)
    BY ONLY <2>2 DEF To, Range
  <2>. QED
    BY ONLY <2>2, <2>3
<1>2. ASSUME NEW c \in Block, NEW t, To(c, t)
      PROVE  <<c, t>> \in Edges
  <2>1. t \in Range(Pointers(c)) \cap Block
    BY ONLY <1>2 DEF To, Range
  <2>2. <<c, t>> \in {c} \X (Range(Pointers(c)) \cap Block)
    BY ONLY <2>1
  <2>. QED
    BY ONLY <2>2, c \in Block DEF Edges
<1>3. \A e \in Edges : e \in Block \X Block /\ To(e[1], e[2])
  BY ONLY <1>1
<1>. QED
  BY ONLY <1>2, <1>3, Block = 1 .. Len(heap)

LEMMA ReachIs ==
    ASSUME Len(heap) \in Nat, Block = 1 .. Len(heap), NEW roots
    PROVE  /\ Reach(roots) \subseteq Block
           /\ \A c \in Block : c \in roots => c \in Reach(roots)
           /\ \A c \in Reach(roots) : \A t : To(c, t) => t \in Reach(roots)
<1> DEFINE n == Len(heap)
           R == Spread(Edges, n, roots)
<1>1. /\ n \in Nat /\ Block = 1 .. n
      /\ Edges \in SUBSET ((1 .. n) \X (1 .. n))
      /\ \A c \in Block : \A t : To(c, t) => <<c, t>> \in Edges
  BY EdgeIs
<1>2. Reach(roots) = R
  BY DEF Reach
<1>. HIDE DEF n, R
<1>3. R \subseteq 1 .. n /\ roots \cap (1 .. n) \subseteq R /\ Closed(Edges, R)
  BY <1>1, SpreadIs DEF R
<1>4. ASSUME NEW c \in R, NEW t, To(c, t)
      PROVE  t \in R
  <2>1. <<c, t>> \in Edges
    BY ONLY <1>1, <1>3, <1>4
  <2>. QED
    BY ONLY <1>3, <2>1 DEF Closed
<1>. QED
  BY ONLY <1>1, <1>2, <1>3, <1>4

LEMMA ReachLeast ==
    ASSUME Len(heap) \in Nat, Block = 1 .. Len(heap), NEW roots, NEW s,
           \A c \in Block : c \in roots => c \in s,
           \A c \in s : \A t : To(c, t) => t \in s
    PROVE  Reach(roots) \subseteq s
<1> DEFINE n == Len(heap)
<1>1. n \in Nat /\ Block = 1 .. n /\ \A e \in Edges : To(e[1], e[2])
  BY EdgeIs
<1>2. Closed(Edges, s)
  BY ONLY <1>1, \A c \in s : \A t : To(c, t) => t \in s DEF Closed
<1>3. Reach(roots) = Spread(Edges, n, roots)
  BY DEF Reach
<1>. HIDE DEF n
<1>4. roots \cap (1 .. n) \subseteq s
  BY ONLY <1>1, \A c \in Block : c \in roots => c \in s
<1>5. Spread(Edges, n, roots) \subseteq s
  BY ONLY <1>1, <1>2, <1>4, SpreadLeast
<1>. QED
  BY ONLY <1>3, <1>5

\* The same of the state after a step.
LEMMA EdgeIsNext ==
    ASSUME Block' = 1 .. Len(heap')
    PROVE  /\ Edges' \in SUBSET ((1 .. Len(heap')) \X (1 .. Len(heap')))
           /\ \A e \in Edges' : To(e[1], e[2])'
           /\ \A c \in Block' : \A t : To(c, t)' => <<c, t>> \in Edges'
<1>1. ASSUME NEW e \in Edges'
      PROVE  \E c \in Block', t \in Block' : e = <<c, t>> /\ To(c, t)'
  <2>1. PICK c \in Block' : e \in {c} \X (Range(Pointers(c)') \cap Block')
    BY DEF Edges
  <2>2. PICK t \in Range(Pointers(c)') \cap Block' : e = <<c, t>>
    BY ONLY <2>1
  <2>3. To(c, t)'
    BY ONLY <2>2 DEF To, Range
  <2>. QED
    BY ONLY <2>2, <2>3
<1>2. ASSUME NEW c \in Block', NEW t, To(c, t)'
      PROVE  <<c, t>> \in Edges'
  <2>1. t \in Range(Pointers(c)') \cap Block'
    BY ONLY <1>2 DEF To, Range
  <2>2. <<c, t>> \in {c} \X (Range(Pointers(c)') \cap Block')
    BY ONLY <2>1
  <2>. QED
    BY ONLY <2>2, c \in Block' DEF Edges
<1>3. \A e \in Edges' : e \in Block' \X Block' /\ To(e[1], e[2])'
  BY ONLY <1>1
<1>. QED
  BY ONLY <1>2, <1>3, Block' = 1 .. Len(heap')

LEMMA ReachIsNext ==
    ASSUME Len(heap') \in Nat, Block' = 1 .. Len(heap'), NEW roots
    PROVE  /\ Spread(Edges', Len(heap'), roots) \subseteq Block'
           /\ \A c \in Block' : c \in roots => c \in Spread(Edges', Len(heap'), roots)
           /\ \A c \in Spread(Edges', Len(heap'), roots) : \A t : To(c, t)' => t \in Spread(Edges', Len(heap'), roots)
<1> DEFINE n == Len(heap')
           R == Spread(Edges', n, roots)
<1>1. /\ n \in Nat /\ Block' = 1 .. n
      /\ Edges' \in SUBSET ((1 .. n) \X (1 .. n))
      /\ \A c \in Block' : \A t : To(c, t)' => <<c, t>> \in Edges'
  BY EdgeIsNext
<1>2. Spread(Edges', Len(heap'), roots) = R
  OBVIOUS
<1>. HIDE DEF n, R
<1>3. R \subseteq 1 .. n /\ roots \cap (1 .. n) \subseteq R /\ Closed(Edges', R)
  BY <1>1, SpreadIs DEF R
<1>4. ASSUME NEW c \in R, NEW t, To(c, t)'
      PROVE  t \in R
  <2>1. <<c, t>> \in Edges'
    BY ONLY <1>1, <1>3, <1>4
  <2>. QED
    BY ONLY <1>3, <2>1 DEF Closed
<1>. QED
  BY ONLY <1>1, <1>2, <1>3, <1>4

LEMMA ReachLeastNext ==
    ASSUME Len(heap') \in Nat, Block' = 1 .. Len(heap'), NEW roots, NEW s,
           \A c \in Block' : c \in roots => c \in s,
           \A c \in s : \A t : To(c, t)' => t \in s
    PROVE  Spread(Edges', Len(heap'), roots) \subseteq s
<1> DEFINE n == Len(heap')
<1>1. n \in Nat /\ Block' = 1 .. n /\ \A e \in Edges' : To(e[1], e[2])'
  BY EdgeIsNext
<1>2. Closed(Edges', s)
  BY ONLY <1>1, \A c \in s : \A t : To(c, t)' => t \in s DEF Closed
<1>3. Spread(Edges', Len(heap'), roots) = Spread(Edges', n, roots)
  OBVIOUS
<1>. HIDE DEF n
<1>4. roots \cap (1 .. n) \subseteq s
  BY ONLY <1>1, \A c \in Block' : c \in roots => c \in s
<1>5. Spread(Edges', n, roots) \subseteq s
  BY ONLY <1>1, <1>2, <1>4, SpreadLeast
<1>. QED
  BY ONLY <1>3, <1>5

-----------------------------------------------------------------------------
(* The two ways a step changes what can be reached *)

LEMMA Here ==
    ASSUME TypeOK
    PROVE  /\ Len(heap) \in Nat /\ Block = 1 .. Len(heap)
           /\ NULL \notin Block /\ Garbage \notin Block /\ NULL # Garbage
           /\ \A c \in Block : heap[c] \in Content
<1>1. heap \in Seq(Content)
  BY DEF TypeOK
<1>2. Len(heap) \in Nat /\ Block = 1 .. Len(heap) /\ \A c \in 1 .. Len(heap) : heap[c] \in Content
  BY ONLY <1>1 DEF Block
<1>. QED
  BY ONLY <1>2 DEF NULL, Garbage

LEMMA HereNext ==
    ASSUME TypeOK'
    PROVE  /\ Len(heap') \in Nat /\ Block' = 1 .. Len(heap')
           /\ NULL \notin Block' /\ Garbage \notin Block' /\ NULL # Garbage
           /\ \A c \in Block' : heap'[c] \in Content
<1>1. heap' \in Seq(Content)
  BY DEF TypeOK
<1>2. Len(heap') \in Nat /\ Block' = 1 .. Len(heap') /\ \A c \in 1 .. Len(heap') : heap'[c] \in Content
  BY ONLY <1>1 DEF Block
<1>. QED
  BY ONLY <1>2 DEF NULL, Garbage

\* What can be reached from the roots, before and after.
Now   == Reach(Roots)
After == Spread(Edges', Len(heap'), Roots')

LEMMA NowIs ==
    ASSUME TypeOK
    PROVE  /\ Now \subseteq Block
           /\ \A c \in Block : c \in Roots => c \in Now
           /\ \A c \in Now : \A t : To(c, t) => t \in Now
  BY ONLY Here, ReachIs, TypeOK DEF Now

LEMMA AfterIs ==
    ASSUME TypeOK'
    PROVE  /\ After \subseteq Block'
           /\ \A c \in Block' : c \in Roots' => c \in After
           /\ \A c \in After : \A t : To(c, t)' => t \in After
<1> DEFINE r == Roots'
<1>1. After = Spread(Edges', Len(heap'), r)
  BY DEF After
<1>. HIDE DEF r
<1>2. /\ Spread(Edges', Len(heap'), r) \subseteq Block'
      /\ \A c \in Block' : c \in r => c \in Spread(Edges', Len(heap'), r)
      /\ \A c \in Spread(Edges', Len(heap'), r) : \A t : To(c, t)' => t \in Spread(Edges', Len(heap'), r)
  BY ONLY HereNext, ReachIsNext, TypeOK'
<1>. QED
  BY ONLY <1>1, <1>2 DEF r

LEMMA NowLeast ==
    ASSUME TypeOK, NEW s, \A c \in Block : c \in Roots => c \in s,
           \A c \in s : \A t : To(c, t) => t \in s
    PROVE  Now \subseteq s
<1> DEFINE r == Roots
<1>1. Now = Reach(r)
  BY DEF Now
<1>2. \A c \in Block : c \in r => c \in s
  OBVIOUS
<1>. HIDE DEF r
<1>3. Len(heap) \in Nat /\ Block = 1 .. Len(heap)
  BY Here
<1>4. Reach(r) \subseteq s
  BY ONLY <1>2, <1>3, ReachLeast, \A c \in s : \A t : To(c, t) => t \in s
<1>. QED
  BY ONLY <1>1, <1>4

LEMMA AfterLeast ==
    ASSUME TypeOK', NEW s, \A c \in Block' : c \in Roots' => c \in s,
           \A c \in s : \A t : To(c, t)' => t \in s
    PROVE  After \subseteq s
<1> DEFINE r == Roots'
<1>1. After = Spread(Edges', Len(heap'), r)
  BY DEF After
<1>2. \A c \in Block' : c \in r => c \in s
  OBVIOUS
<1>. HIDE DEF r
<1>3. Len(heap') \in Nat /\ Block' = 1 .. Len(heap')
  BY HereNext
<1>4. Spread(Edges', Len(heap'), r) \subseteq s
  BY ONLY <1>2, <1>3, ReachLeastNext, \A c \in s : \A t : To(c, t)' => t \in s
<1>. QED
  BY ONLY <1>1, <1>4

\* A block that nobody has the address of may be one that is never freed.
Lost(b) == b.kind \in {"dead", "slots", "table", "frame"} \/ (b.kind = "kv" /\ b.key # Str)

\* The invariant after a step, in terms of After.
LEMMA Whole ==
    ASSUME TypeOK', wild' = FALSE,
           \A c \in After : Fit(c)',
           \A p, q \in After : \A i \in DOMAIN Pointers(p)', j \in DOMAIN Pointers(q)' :
               Pointers(p)'[i] = Pointers(q)'[j] /\ Pointers(p)'[i] \in Block' => p = q /\ i = j,
           \A p \in After : \A i \in DOMAIN Pointers(p)' :
               Pointers(p)'[i] \in Block' => Pointers(p)'[i] \notin Roots',
           Pending', Settled',
           \A c \in Block' \ After : Lost(heap'[c])
    PROVE  IInv'
<1>1. Reach(Roots)' = After
  BY DEF Reach, After
<1>. QED
  BY <1>1 DEF IInv, Single, Rooted, KnownLeaks, Lost

LEMMA Parts ==
    ASSUME IInv
    PROVE  /\ TypeOK /\ wild = FALSE
           /\ \A c \in Now : Fit(c)
           /\ \A p, q \in Now : \A i \in DOMAIN Pointers(p), j \in DOMAIN Pointers(q) :
                 Pointers(p)[i] = Pointers(q)[j] /\ Pointers(p)[i] \in Block => p = q /\ i = j
           /\ \A p \in Now : \A i \in DOMAIN Pointers(p) :
                 Pointers(p)[i] \in Block => Pointers(p)[i] \notin Roots
           /\ Pending /\ Settled
           /\ \A c \in Block \ Now : Lost(heap[c])
  BY DEF IInv, Single, Rooted, KnownLeaks, Lost, Now

-----------------------------------------------------------------------------
(* The caller builds: blocks are added, and pointers to what it gives away *)

\* The blocks added, but for the bytes of a message, which nobody points to.
Fresh == {c \in Block' \ Block : heap'[c] # Frame}

Grows(given) ==
    /\ calls = <<>> /\ calls' = <<>> /\ wild' = FALSE /\ TypeOK' /\ Block \subseteq Block'
    /\ given \subseteq app /\ app' \subseteq Block \cup Fresh
    /\ \A c \in Block : c \in app' <=> c \in app /\ c \notin given
    \* Only what is in use changes, and it keeps the pointers it has.
    /\ \A c \in Block \ Now : heap'[c] = heap[c]
    /\ \A c \in Now : \A t : To(c, t) => To(c, t)'
    \* A pointer is an old one, in its place, or to a block given or fresh.
    /\ \A c \in Now : \A i \in DOMAIN Pointers(c)' :
          LET t == Pointers(c)'[i]
          IN  t \in Block' => \/ t \in Block /\ i \in DOMAIN Pointers(c) /\ Pointers(c)[i] = t
                              \/ t \in given \cup Fresh
    /\ \A c \in Fresh : \A i \in DOMAIN Pointers(c)' :
          Pointers(c)'[i] \in Block' => Pointers(c)'[i] \in given \cup Fresh
    \* Each of these is pointed to from one place.
    /\ \A c, d \in Now \cup Fresh : \A i \in DOMAIN Pointers(c)', j \in DOMAIN Pointers(d)' :
          Pointers(c)'[i] = Pointers(d)'[j] /\ Pointers(c)'[i] \in given \cup Fresh => c = d /\ i = j
    /\ \A c \in Now \cup Fresh : \A i \in DOMAIN Pointers(c)' :
          Pointers(c)'[i] \in Fresh => Pointers(c)'[i] \notin app'
    /\ given \cup Fresh \subseteq After
    /\ \A c \in Now \cup Fresh : Fit(c)'

LEMMA RootsIdle ==
    ASSUME calls = <<>>
    PROVE  /\ Roots = app /\ Called = {}
           /\ \A c : Pointers(c) = Fields(heap[c])
  BY DEF Roots, Called, Pointers, Entered

LEMMA RootsIdleNext ==
    ASSUME calls' = <<>>
    PROVE  /\ Roots' = app' /\ Called' = {}
           /\ \A c : Pointers(c)' = Fields(heap'[c])
  BY DEF Roots, Called, Pointers, Entered

LEMMA Grown ==
    ASSUME IInv, NEW given, Grows(given)
    PROVE  IInv'
<1>1. /\ calls = <<>> /\ calls' = <<>> /\ wild' = FALSE /\ TypeOK' /\ Block \subseteq Block'
      /\ given \subseteq app /\ app' \subseteq Block \cup Fresh
      /\ \A c \in Block : c \in app' <=> c \in app /\ c \notin given
      /\ \A c \in Block \ Now : heap'[c] = heap[c]
  BY DEF Grows
<1>2. \A c \in Now : \A t : To(c, t) => To(c, t)'
  BY DEF Grows
<1>3. \A c \in Now : \A i \in DOMAIN Pointers(c)' :
         Pointers(c)'[i] \in Block' =>
             \/ /\ Pointers(c)'[i] \in Block /\ i \in DOMAIN Pointers(c)
                /\ Pointers(c)[i] = Pointers(c)'[i]
             \/ Pointers(c)'[i] \in given \cup Fresh
  BY DEF Grows
<1>4. \A c \in Fresh : \A i \in DOMAIN Pointers(c)' :
         Pointers(c)'[i] \in Block' => Pointers(c)'[i] \in given \cup Fresh
  BY DEF Grows
<1>5. \A c, d \in Now \cup Fresh : \A i \in DOMAIN Pointers(c)', j \in DOMAIN Pointers(d)' :
         Pointers(c)'[i] = Pointers(d)'[j] /\ Pointers(c)'[i] \in given \cup Fresh => c = d /\ i = j
  BY DEF Grows
<1>6. \A c \in Now \cup Fresh : \A i \in DOMAIN Pointers(c)' :
         Pointers(c)'[i] \in Fresh => Pointers(c)'[i] \notin app'
  BY DEF Grows
<1>7. given \cup Fresh \subseteq After /\ \A c \in Now \cup Fresh : Fit(c)'
  BY DEF Grows
<1>8. /\ TypeOK
      /\ \A p, q \in Now : \A i \in DOMAIN Pointers(p), j \in DOMAIN Pointers(q) :
            Pointers(p)[i] = Pointers(q)[j] /\ Pointers(p)[i] \in Block => p = q /\ i = j
      /\ \A p \in Now : \A i \in DOMAIN Pointers(p) :
            Pointers(p)[i] \in Block => Pointers(p)[i] \notin Roots
      /\ \A c \in Block \ Now : Lost(heap[c])
  BY Parts
<1>9. /\ Now \subseteq Block
      /\ \A c \in Block : c \in Roots => c \in Now
      /\ \A c \in Now : \A t : To(c, t) => t \in Now
  BY <1>8, NowIs
<1>10. /\ After \subseteq Block'
       /\ \A c \in Block' : c \in Roots' => c \in After
       /\ \A c \in After : \A t : To(c, t)' => t \in After
  BY <1>1, AfterIs
<1>11. Roots = app /\ Roots' = app' /\ Called' = {} /\ app' \subseteq Block' /\ app \subseteq Block
  BY ONLY <1>1, <1>8, RootsIdle, RootsIdleNext DEF TypeOK
<1>12. \A c \in Block' : c \in Fresh \/ c \in Block \/ Lost(heap'[c])
  BY DEF Fresh, Lost, Frame
<1>13. After \subseteq Now \cup Fresh
  <2>1. ASSUME NEW c \in Block', c \in Roots'
        PROVE  c \in Now \cup Fresh
    BY ONLY <1>1, <1>9, <1>11, <2>1
  <2>2. ASSUME NEW c \in Now \cup Fresh, NEW t, To(c, t)'
        PROVE  t \in Now \cup Fresh
    <3>1. PICK i \in DOMAIN Pointers(c)' : Pointers(c)'[i] = t
      BY ONLY <2>2 DEF To
    <3>2. t \in Block'
      BY ONLY <2>2 DEF To
    <3>3. CASE t \in given \cup Fresh
      BY ONLY <1>1, <1>9, <1>11, <3>3
    <3>4. CASE t \notin given \cup Fresh
      <4>1. c \in Now /\ t \in Block /\ i \in DOMAIN Pointers(c) /\ Pointers(c)[i] = t
        BY ONLY <1>3, <1>4, <2>2, <3>1, <3>2, <3>4
      <4>2. To(c, t)
        BY ONLY <4>1 DEF To
      <4>. QED
        BY ONLY <1>9, <4>1, <4>2
    <3>. QED
      BY ONLY <3>3, <3>4
  <2>. QED
    BY ONLY <1>1, <2>1, <2>2, AfterLeast
<1>14. Now \subseteq After
  <2> DEFINE s == {c \in Now : c \in After}
  <2>1. ASSUME NEW c \in Block, c \in Roots
        PROVE  c \in s
    BY ONLY <1>1, <1>7, <1>9, <1>10, <1>11, <2>1
  <2>2. ASSUME NEW c \in s, NEW t, To(c, t)
        PROVE  t \in s
    BY ONLY <1>2, <1>9, <1>10, <2>2
  <2>. HIDE DEF s
  <2>3. Now \subseteq s
    BY ONLY <1>8, <2>1, <2>2, NowLeast
  <2>. QED
    BY ONLY <2>3 DEF s
<1>15. \A p, q \in After : \A i \in DOMAIN Pointers(p)', j \in DOMAIN Pointers(q)' :
          Pointers(p)'[i] = Pointers(q)'[j] /\ Pointers(p)'[i] \in Block' => p = q /\ i = j
  <2> SUFFICES ASSUME NEW p \in After, NEW q \in After,
                      NEW i \in DOMAIN Pointers(p)', NEW j \in DOMAIN Pointers(q)',
                      Pointers(p)'[i] = Pointers(q)'[j], Pointers(p)'[i] \in Block'
               PROVE  p = q /\ i = j
    OBVIOUS
  <2>1. p \in Now \cup Fresh /\ q \in Now \cup Fresh
    BY ONLY <1>13, p \in After, q \in After
  <2>2. CASE Pointers(p)'[i] \in given \cup Fresh
    BY ONLY <1>5, <2>1, <2>2, Pointers(p)'[i] = Pointers(q)'[j],
            i \in DOMAIN Pointers(p)', j \in DOMAIN Pointers(q)'
  <2>3. CASE Pointers(p)'[i] \notin given \cup Fresh
    <3>1. /\ p \in Now /\ i \in DOMAIN Pointers(p) /\ Pointers(p)[i] = Pointers(p)'[i]
          /\ Pointers(p)'[i] \in Block
      BY ONLY <1>3, <1>4, <2>1, <2>3, Pointers(p)'[i] \in Block', i \in DOMAIN Pointers(p)'
    <3>2. q \in Now /\ j \in DOMAIN Pointers(q) /\ Pointers(q)[j] = Pointers(q)'[j]
      BY ONLY <1>3, <1>4, <2>1, <2>3, Pointers(p)'[i] \in Block', j \in DOMAIN Pointers(q)',
              Pointers(p)'[i] = Pointers(q)'[j]
    <3>. QED
      BY ONLY <1>8, <3>1, <3>2, Pointers(p)'[i] = Pointers(q)'[j]
  <2>. QED
    BY ONLY <2>2, <2>3
<1>16. \A p \in After : \A i \in DOMAIN Pointers(p)' :
          Pointers(p)'[i] \in Block' => Pointers(p)'[i] \notin Roots'
  <2> SUFFICES ASSUME NEW p \in After, NEW i \in DOMAIN Pointers(p)', Pointers(p)'[i] \in Block'
               PROVE  Pointers(p)'[i] \notin app'
    BY <1>11
  <2>1. p \in Now \cup Fresh
    BY ONLY <1>13, p \in After
  <2>2. CASE Pointers(p)'[i] \in Fresh
    BY ONLY <1>6, <2>1, <2>2, i \in DOMAIN Pointers(p)'
  <2>3. CASE Pointers(p)'[i] \in given
    BY ONLY <1>1, <1>11, <2>3
  <2>4. CASE Pointers(p)'[i] \notin given \cup Fresh
    <3>1. /\ p \in Now /\ i \in DOMAIN Pointers(p) /\ Pointers(p)[i] = Pointers(p)'[i]
          /\ Pointers(p)'[i] \in Block
      BY ONLY <1>3, <1>4, <2>1, <2>4, Pointers(p)'[i] \in Block', i \in DOMAIN Pointers(p)'
    <3>2. Pointers(p)'[i] \notin app
      BY ONLY <1>8, <1>11, <3>1
    <3>. QED
      BY ONLY <1>1, <3>1, <3>2
  <2>. QED
    BY ONLY <2>2, <2>3, <2>4
<1>17. Pending'
  BY ONLY <1>1 DEF Pending
<1>18. Settled'
  <2>0. Len(heap') \in Nat /\ Block' = 1 .. Len(heap')
    BY ONLY <1>1, HereNext
  <2> DEFINE none == {}
  <2>3. /\ \A c \in Block' : c \in none => c \in none
        /\ \A c \in none : \A t : To(c, t)' => t \in none
    OBVIOUS
  <2>. HIDE DEF none
  <2>4. Spread(Edges', Len(heap'), none) \subseteq none
    BY ONLY <2>0, <2>3, ReachLeastNext
  <2>1. Spread(Edges', Len(heap'), {}) \subseteq {}
    BY ONLY <2>4 DEF none
  <2>2. Reach(Called)' = Spread(Edges', Len(heap'), {})
    BY <1>11 DEF Reach
  <2>. QED
    BY ONLY <2>1, <2>2 DEF Settled
<1>19. \A c \in Block' \ After : Lost(heap'[c])
  BY ONLY <1>1, <1>7, <1>8, <1>12, <1>14
<1>. QED
  BY ONLY <1>1, <1>7, <1>13, <1>15, <1>16, <1>17, <1>18, <1>19, Whole

-----------------------------------------------------------------------------
(* A call is made: the blocks gone hand on what they point to *)

CallType == [of : Kinds \cup {"block"}, on : Int]

LEMMA CallsNext ==
    ASSUME NEW T, NEW q \in Seq(T), q # << >>, NEW more \in Seq(T), NEW next, next = more \o Tail(q)
    PROVE  /\ next \in Seq(T)
           /\ \A k \in DOMAIN more : k \in DOMAIN next /\ next[k] = more[k]
           /\ \A i \in DOMAIN q : i # 1 => /\ Len(more) + i - 1 \in DOMAIN next
                                           /\ next[Len(more) + i - 1] = q[i]
           /\ \A j \in DOMAIN next : j \notin DOMAIN more =>
                 /\ j - Len(more) + 1 \in DOMAIN q /\ j - Len(more) + 1 # 1
                 /\ next[j] = q[j - Len(more) + 1]
           /\ 1 \in DOMAIN q /\ Head(q) = q[1]
           /\ \A j \in DOMAIN next : j \in Int
           /\ Len(more) \in Nat
<1>1. Tail(q) \in Seq(T) /\ Len(Tail(q)) = Len(q) - 1 /\ Len(q) \in Nat /\ Len(q) > 0
  OBVIOUS
<1>2. \A i \in 1 .. Len(q) - 1 : Tail(q)[i] = q[i + 1]
  OBVIOUS
<1>3. /\ next \in Seq(T) /\ Len(next) = Len(more) + Len(q) - 1 /\ Len(more) \in Nat
      /\ \A j \in 1 .. Len(next) : next[j] = IF j <= Len(more) THEN more[j] ELSE Tail(q)[j - Len(more)]
  BY ONLY <1>1, more \in Seq(T), next = more \o Tail(q)
<1>4. DOMAIN next = 1 .. Len(next) /\ DOMAIN more = 1 .. Len(more) /\ DOMAIN q = 1 .. Len(q)
  BY ONLY <1>3, more \in Seq(T), q \in Seq(T)
<1> DEFINE m == Len(more)
           l == Len(q)
           r == Len(next)
<1>a. m \in Nat /\ l \in Nat /\ l > 0 /\ r = m + l - 1
  BY ONLY <1>1, <1>3
<1>b. /\ \A j \in 1 .. r : next[j] = IF j <= m THEN more[j] ELSE Tail(q)[j - m]
      /\ \A i \in 1 .. l - 1 : Tail(q)[i] = q[i + 1]
      /\ DOMAIN next = 1 .. r /\ DOMAIN more = 1 .. m /\ DOMAIN q = 1 .. l
  BY ONLY <1>2, <1>3, <1>4
<1>c. m = Len(more)
  OBVIOUS
<1>. HIDE DEF m, l, r
<1>5. \A k \in DOMAIN more : k \in DOMAIN next /\ next[k] = more[k]
  <2>1. ASSUME NEW k \in 1 .. m
        PROVE  k \in 1 .. r /\ k <= m
    BY ONLY <1>a, k \in 1 .. m
  <2>. QED
    BY ONLY <1>b, <2>1
<1>6. \A i \in DOMAIN q : i # 1 => m + i - 1 \in DOMAIN next /\ next[m + i - 1] = q[i]
  <2>0. ASSUME NEW i \in 1 .. l, i # 1
        PROVE  m + i - 1 \in 1 .. r /\ next[m + i - 1] = q[i]
    <3> DEFINE j == m + i - 1
    <3>1. j \in 1 .. r /\ ~ (j <= m) /\ j - m = i - 1 /\ i - 1 \in 1 .. l - 1 /\ i - 1 + 1 = i
      BY ONLY <1>a, i \in 1 .. l, i # 1
    <3>. HIDE DEF j
    <3>2. next[j] = Tail(q)[j - m]
      BY ONLY <1>b, <3>1
    <3>3. Tail(q)[i - 1] = q[i - 1 + 1]
      BY ONLY <1>b, <3>1
    <3>4. next[j] = q[i]
      BY ONLY <3>1, <3>2, <3>3
    <3>. QED
      BY ONLY <3>1, <3>4 DEF j
  <2>. QED
    BY ONLY <1>b, <2>0
<1>7. \A j \in DOMAIN next : j \notin DOMAIN more =>
         j - m + 1 \in DOMAIN q /\ j - m + 1 # 1 /\ next[j] = q[j - m + 1]
  <2>0. ASSUME NEW j \in 1 .. r, j \notin 1 .. m
        PROVE  j - m + 1 \in 1 .. l /\ j - m + 1 # 1 /\ next[j] = q[j - m + 1]
    <3>1. /\ j - m + 1 \in 1 .. l /\ j - m + 1 # 1 /\ ~ (j <= m)
          /\ j - m \in 1 .. l - 1
      BY ONLY <1>a, j \in 1 .. r, j \notin 1 .. m
    <3>2. next[j] = Tail(q)[j - m]
      BY ONLY <1>b, <3>1
    <3>3. Tail(q)[j - m] = q[j - m + 1]
      BY ONLY <1>b, <3>1
    <3>. QED
      BY ONLY <3>1, <3>2, <3>3
  <2>. QED
    BY ONLY <1>b, <2>0
<1>8. 1 \in DOMAIN q /\ Head(q) = q[1] /\ \A j \in DOMAIN next : j \in Int
  <2>1. 1 \in 1 .. l /\ \A j \in 1 .. r : j \in Int
    BY ONLY <1>a
  <2>2. Head(q) = q[1]
    BY ONLY q \in Seq(T), q # << >>
  <2>. QED
    BY ONLY <1>b, <2>1, <2>2
<1>. QED
  BY ONLY <1>3, <1>c, <1>5, <1>6, <1>7, <1>8

Passes(x, more, gone, stay) ==
    /\ calls # << >> /\ Head(calls).on = x /\ x \in Block
    /\ more \in Seq(CallType) /\ calls' = more \o Tail(calls)
    /\ app' = app /\ wild' = FALSE /\ heap' \in Seq(Content) /\ Block' = Block
    \* The block called for goes, and what it points to may go with it.
    /\ gone \subseteq Now /\ stay \subseteq gone /\ x \in gone
    /\ \A g \in gone : g = x \/ (To(x, g) /\ g \in stay)
    /\ \A c \in Block \ gone : heap'[c] = heap[c]
    /\ \A c \in Now \ gone : Pointers(c)' = Pointers(c)
    \* One that stays has no pointers any more, one that does not is lost.
    /\ \A c \in stay : heap'[c].kind = heap[c].kind /\ Fit(c)'
    /\ \A c \in stay : \A i \in DOMAIN Pointers(c)' : Pointers(c)'[i] = NULL
    /\ \A g \in gone : Lost(heap'[g]) \/ (g = x /\ \E k \in DOMAIN more : more[k].on = x)
    \* Their pointers have become calls, each one.
    /\ \A k \in DOMAIN more :
          LET c == more[k].on
          IN  \/ c = NULL
              \/ c = x /\ x \in stay /\ more[k].of = "block"
              \/ /\ c \notin gone /\ more[k].of \in {"block", heap[c].kind}
                 /\ \E g \in gone : To(g, c)
    /\ \A k, l \in DOMAIN more : more[k].on = more[l].on /\ more[k].on # NULL => k = l
    /\ \A g \in gone : \A t : To(g, t) => t \in gone \/ \E k \in DOMAIN more : more[k].on = t

LEMMA Passed ==
    ASSUME IInv, NEW x, NEW more, NEW gone, NEW stay, Passes(x, more, gone, stay)
    PROVE  IInv'
<1>1. /\ calls # << >> /\ Head(calls).on = x /\ x \in Block
      /\ more \in Seq(CallType) /\ calls' = more \o Tail(calls)
  BY DEF Passes
<1>2. /\ app' = app /\ wild' = FALSE /\ heap' \in Seq(Content) /\ Block' = Block
      /\ gone \subseteq Now /\ stay \subseteq gone /\ x \in gone
  BY DEF Passes
<1>3. \A g \in gone : g = x \/ (To(x, g) /\ g \in stay)
  BY DEF Passes
<1>4. /\ \A c \in Block \ gone : heap'[c] = heap[c]
      /\ \A c \in Now \ gone : Pointers(c)' = Pointers(c)
  BY DEF Passes
<1>5. /\ \A c \in stay : heap'[c].kind = heap[c].kind /\ Fit(c)'
      /\ \A c \in stay : \A i \in DOMAIN Pointers(c)' : Pointers(c)'[i] = NULL
  BY DEF Passes
<1>6. \A g \in gone : Lost(heap'[g]) \/ (g = x /\ \E k \in DOMAIN more : more[k].on = x)
  BY DEF Passes
<1>7. \A k \in DOMAIN more :
         \/ more[k].on = NULL
         \/ more[k].on = x /\ x \in stay /\ more[k].of = "block"
         \/ /\ more[k].on \notin gone /\ more[k].of \in {"block", heap[more[k].on].kind}
            /\ \E g \in gone : To(g, more[k].on)
  BY DEF Passes
<1>8. \A k, l \in DOMAIN more : more[k].on = more[l].on /\ more[k].on # NULL => k = l
  BY DEF Passes
<1>9. \A g \in gone : \A t : To(g, t) => t \in gone \/ \E k \in DOMAIN more : more[k].on = t
  BY DEF Passes
<1>10. TypeOK /\ Pending /\ Settled /\ (\A c \in Now : Fit(c)) /\ (\A c \in Block \ Now : Lost(heap[c]))
  BY Parts
<1>11. /\ \A p, q \in Now : \A i \in DOMAIN Pointers(p), j \in DOMAIN Pointers(q) :
             Pointers(p)[i] = Pointers(q)[j] /\ Pointers(p)[i] \in Block => p = q /\ i = j
       /\ \A p \in Now : \A i \in DOMAIN Pointers(p) :
             Pointers(p)[i] \in Block => Pointers(p)[i] \notin Roots
  BY Parts
<1>12. /\ Now \subseteq Block
       /\ \A c \in Block : c \in Roots => c \in Now
       /\ \A c \in Now : \A t : To(c, t) => t \in Now
  BY ONLY <1>10, NowIs
<1>13. calls \in Seq(CallType) /\ app \subseteq Block /\ NULL \notin Block /\ NULL # Garbage
  BY ONLY <1>10, Here DEF TypeOK, CallType
\* The calls after the step.
<1>14. /\ calls' \in Seq(CallType)
       /\ \A k \in DOMAIN more : k \in DOMAIN calls' /\ calls'[k] = more[k]
       /\ \A i \in DOMAIN calls : i # 1 => /\ Len(more) + i - 1 \in DOMAIN calls'
                                           /\ calls'[Len(more) + i - 1] = calls[i]
       /\ \A j \in DOMAIN calls' : j \notin DOMAIN more =>
             /\ j - Len(more) + 1 \in DOMAIN calls /\ j - Len(more) + 1 # 1
             /\ calls'[j] = calls[j - Len(more) + 1]
       /\ 1 \in DOMAIN calls /\ Head(calls) = calls[1]
       /\ \A j \in DOMAIN calls' : j \in Int
       /\ Len(more) \in Nat
  BY ONLY <1>1, <1>13, CallsNext, SMTT(20)
<1>15. TypeOK'
  BY ONLY <1>2, <1>13, <1>14 DEF TypeOK, CallType
<1>16. x # NULL /\ calls[1].on = x /\ x \in Called /\ x \in Roots /\ x \in Now
  <2>1. x # NULL /\ calls[1].on = x
    BY ONLY <1>1, <1>13, <1>14
  <2>2. x \in Called
    BY ONLY <1>14, <2>1 DEF Called
  <2>. QED
    BY ONLY <1>1, <1>12, <2>1, <2>2 DEF Roots
<1>17. \A c \in Now : \A t : To(c, t) => t \notin Roots
  BY ONLY <1>11 DEF To
<1>18. \A g \in gone : g \in Roots => g = x
  BY ONLY <1>3, <1>16, <1>17
<1>19. /\ \A i \in DOMAIN calls : calls[i].on # NULL =>
             /\ calls[i].on \in Block /\ calls[i].on \notin app
             /\ calls[i].of \in {"block", heap[calls[i].on].kind}
       /\ \A i, j \in DOMAIN calls : calls[i].on = calls[j].on /\ calls[i].on # NULL => i = j
  BY ONLY <1>10 DEF Pending
\* A call is a new one, or was there and is not for x.
<1>20. \A j \in DOMAIN calls' : j \notin DOMAIN more =>
          /\ calls'[j].on \in Called /\ calls'[j].on \in Roots /\ calls'[j].on # x
          /\ calls'[j].on # NULL => /\ calls'[j].on \in Block /\ calls'[j].on \notin app
                                    /\ calls'[j].of \in {"block", heap[calls'[j].on].kind}
  <2> SUFFICES ASSUME NEW j \in DOMAIN calls', j \notin DOMAIN more
               PROVE  /\ calls'[j].on \in Called /\ calls'[j].on \in Roots /\ calls'[j].on # x
                      /\ calls'[j].on # NULL => /\ calls'[j].on \in Block /\ calls'[j].on \notin app
                                                /\ calls'[j].of \in {"block", heap[calls'[j].on].kind}
    OBVIOUS
  <2> DEFINE i == j - Len(more) + 1
  <2>1. i \in DOMAIN calls /\ i # 1 /\ calls'[j] = calls[i]
    BY ONLY <1>14, j \in DOMAIN calls', j \notin DOMAIN more
  <2>. HIDE DEF i
  <2>2. calls[i].on \in Called /\ calls[i].on \in Roots
    BY ONLY <2>1 DEF Called, Roots
  <2>3. calls[i].on # x
    BY ONLY <1>14, <1>16, <1>19, <2>1
  <2>. QED
    BY ONLY <1>19, <2>1, <2>2, <2>3
<1>21. \A k \in DOMAIN more : more[k].on \in Roots'
  BY ONLY <1>14 DEF Roots, Called
<1>22. ASSUME NEW c \in Roots, c # x
       PROVE  c \in Roots'
  <2>1. CASE c \in app
    BY ONLY <1>2, <2>1 DEF Roots
  <2>2. CASE c \in Called
    <3>1. PICK i \in DOMAIN calls : calls[i].on = c
      BY ONLY <2>2 DEF Called
    <3>2. i # 1
      BY ONLY <1>16, <1>22, <3>1
    <3>3. PICK j \in DOMAIN calls' : calls'[j] = calls[i]
      BY ONLY <1>14, <3>1, <3>2
    <3>4. c \in Called'
      BY ONLY <3>1, <3>3 DEF Called
    <3>. QED
      BY ONLY <3>4 DEF Roots
  <2>. QED
    BY ONLY <1>22, <2>1, <2>2 DEF Roots
<1>23. ASSUME NEW c \in Roots'
       PROVE  (c \in Roots /\ c # x) \/ \E k \in DOMAIN more : more[k].on = c
  <2>1. CASE c \in app
    <3>1. c # x
      BY ONLY <1>1, <1>14, <1>16, <1>19, <2>1
    <3>. QED
      BY ONLY <2>1, <3>1 DEF Roots
  <2>2. CASE c \in Called'
    <3>1. PICK j \in DOMAIN calls' : calls'[j].on = c
      BY ONLY <2>2 DEF Called
    <3>2. CASE j \in DOMAIN more
      BY ONLY <1>14, <3>1, <3>2
    <3>3. CASE j \notin DOMAIN more
      BY ONLY <1>20, <3>1, <3>3
    <3>. QED
      BY ONLY <3>2, <3>3
  <2>. QED
    BY ONLY <1>2, <1>23, <2>1, <2>2 DEF Roots
\* What a new call is for.
<1>24. ASSUME NEW k \in DOMAIN more, more[k].on # NULL
       PROVE  \/ more[k].on = x /\ x \in stay /\ more[k].of = "block"
              \/ /\ more[k].on \in Now \ gone /\ more[k].on \notin Roots
                 /\ more[k].of \in {"block", heap[more[k].on].kind}
                 /\ \E g \in gone : To(g, more[k].on)
  BY ONLY <1>2, <1>7, <1>12, <1>17, <1>24
\* What can be reached after the step.
<1>25. ASSUME NEW c \in Block', c \in Roots'
       PROVE  c \in (Now \ gone) \cup stay
  <2>1. CASE c \in Roots /\ c # x
    BY ONLY <1>2, <1>12, <1>18, <1>25, <2>1
  <2>2. CASE \E k \in DOMAIN more : more[k].on = c
    BY ONLY <1>2, <1>13, <1>24, <1>25, <2>2
  <2>. QED
    BY ONLY <1>23, <1>25, <2>1, <2>2
<1>26. ASSUME NEW c \in (Now \ gone) \cup stay, NEW i \in DOMAIN Pointers(c)', Pointers(c)'[i] \in Block'
       PROVE  c \in Now \ gone /\ i \in DOMAIN Pointers(c) /\ Pointers(c)'[i] = Pointers(c)[i]
  BY ONLY <1>2, <1>4, <1>5, <1>13, <1>26
<1>27. ASSUME NEW c \in (Now \ gone) \cup stay, NEW t, To(c, t)'
       PROVE  c \in Now \ gone /\ To(c, t)
  <2>1. PICK i \in DOMAIN Pointers(c)' : Pointers(c)'[i] = t /\ t \in Block'
    BY ONLY <1>27 DEF To
  <2>2. c \in Now \ gone /\ i \in DOMAIN Pointers(c) /\ Pointers(c)'[i] = Pointers(c)[i]
    BY ONLY <1>26, <2>1, c \in (Now \ gone) \cup stay
  <2>. QED
    BY ONLY <1>2, <2>1, <2>2 DEF To
<1>28. ASSUME NEW c \in Now \ gone, NEW t, To(c, t)
       PROVE  t \in (Now \ gone) \cup stay
  BY ONLY <1>3, <1>12, <1>16, <1>17, <1>28
<1>29. After \subseteq (Now \ gone) \cup stay
  BY ONLY <1>15, <1>25, <1>27, <1>28, AfterLeast
<1>30. /\ \A c \in Block' : c \in Roots' => c \in After
       /\ \A c \in After : \A t : To(c, t)' => t \in After
  BY ONLY <1>15, AfterIs
<1>31. Now \ gone \subseteq After
  <2> DEFINE s == {c \in Now : c \in gone \/ c \in After}
  <2>1. ASSUME NEW c \in Block, c \in Roots
        PROVE  c \in s
    BY ONLY <1>2, <1>12, <1>22, <1>30, <2>1
  <2>2. ASSUME NEW c \in s, NEW t, To(c, t)
        PROVE  t \in s
    <3>1. t \in Now /\ t \in Block /\ c \in Now
      BY ONLY <1>12, <2>2
    <3>2. CASE c \in gone
      BY ONLY <1>2, <1>9, <1>21, <1>30, <2>2, <3>1, <3>2
    <3>3. CASE c \notin gone
      <4>1. To(c, t)'
        <5>1. Pointers(c)' = Pointers(c)
          BY ONLY <1>4, <3>1, <3>3
        <5>. QED
          BY ONLY <1>2, <2>2, <5>1 DEF To
      <4>. QED
        BY ONLY <1>30, <2>2, <3>1, <3>3, <4>1
    <3>. QED
      BY ONLY <3>2, <3>3
  <2>. HIDE DEF s
  <2>3. Now \subseteq s
    BY ONLY <1>10, <2>1, <2>2, NowLeast
  <2>. QED
    BY ONLY <2>3 DEF s
<1>32. \A c \in After : Fit(c)'
  <2>0. SUFFICES ASSUME NEW c \in After, c \notin stay
                 PROVE  Fit(c)'
    BY <1>5
  <2>. c \in Now \ gone
    BY ONLY <1>29, <2>0
  <2>1. c \in Now /\ c \in Block /\ heap'[c] = heap[c] /\ Pointers(c)' = Pointers(c)
    BY ONLY <1>4, <1>12, c \in Now \ gone
  <2>2. /\ heap[c] # Dead /\ (heap[c].kind = "kv" => heap[c].key # Dead)
        /\ \A i \in DOMAIN Pointers(c) : Sound(heap[c], Pointers(c)[i])
    BY ONLY <1>10, <2>1 DEF Fit
  <2>3. ASSUME NEW i \in DOMAIN Pointers(c)
        PROVE  Sound(heap[c], Pointers(c)[i])'
    <3> DEFINE t == Pointers(c)[i]
    <3>1. Sound(heap[c], t)
      BY ONLY <2>2, i \in DOMAIN Pointers(c)
    <3>2. ASSUME t \in Block
          PROVE  heap'[t].kind = heap[t].kind
      <4>1. To(c, t)
        BY ONLY <3>2, i \in DOMAIN Pointers(c) DEF To
      <4>2. t \in (Now \ gone) \cup stay
        BY ONLY <1>28, <4>1, c \in Now \ gone
      <4>. QED
        BY ONLY <1>4, <1>5, <3>2, <4>2
    <3>3. t = Pointers(c)'[i]
      BY ONLY <2>1
    <3>. HIDE DEF t
    <3>4. \/ t = NULL /\ heap'[c].kind # "array"
          \/ t = Garbage /\ heap'[c].kind = "slots"
          \/ /\ t \in Block' /\ heap'[c].kind \in {"obj", "map", "table", "kv", "array", "slots", "req"}
             /\ heap'[c].kind = "obj" => heap'[c].type \in DOMAIN ViaKind
             /\ heap'[t].kind = Leads(heap'[c])
      BY ONLY <1>2, <2>1, <3>1, <3>2 DEF Sound
    <3>. QED
      BY ONLY <3>3, <3>4 DEF Sound
  <2>. QED
    BY ONLY <2>1, <2>2, <2>3 DEF Fit
<1>33. \A p, q \in After : \A i \in DOMAIN Pointers(p)', j \in DOMAIN Pointers(q)' :
          Pointers(p)'[i] = Pointers(q)'[j] /\ Pointers(p)'[i] \in Block' => p = q /\ i = j
  BY ONLY <1>2, <1>11, <1>26, <1>29
<1>34. \A p \in After : \A i \in DOMAIN Pointers(p)' :
          Pointers(p)'[i] \in Block' => Pointers(p)'[i] \notin Roots'
  <2> SUFFICES ASSUME NEW p \in After, NEW i \in DOMAIN Pointers(p)', Pointers(p)'[i] \in Block',
                      Pointers(p)'[i] \in Roots'
               PROVE  FALSE
    OBVIOUS
  <2> DEFINE t == Pointers(p)[i]
  <2>1. p \in Now \ gone /\ i \in DOMAIN Pointers(p) /\ Pointers(p)'[i] = t
    BY ONLY <1>26, <1>29, p \in After, i \in DOMAIN Pointers(p)', Pointers(p)'[i] \in Block'
  <2>2. t \in Block /\ t \notin Roots /\ t \in Roots'
    BY ONLY <1>2, <1>11, <2>1, Pointers(p)'[i] \in Block', Pointers(p)'[i] \in Roots'
  <2>3. PICK k \in DOMAIN more : more[k].on = t
    BY ONLY <1>23, <2>2
  <2>4. PICK g \in gone : To(g, t)
    BY ONLY <1>13, <1>16, <1>24, <2>2, <2>3
  <2>5. PICK j \in DOMAIN Pointers(g) : Pointers(g)[j] = t
    BY ONLY <2>4 DEF To
  <2>6. p = g
    BY ONLY <1>2, <1>11, <2>1, <2>2, <2>5
  <2>. QED
    BY ONLY <2>1, <2>6
<1>35. Pending'
  <2>1. ASSUME NEW i \in DOMAIN calls', calls'[i].on # NULL
        PROVE  /\ calls'[i].on \in Block' /\ calls'[i].on \notin app'
               /\ calls'[i].of \in {"block", heap'[calls'[i].on].kind}
    <3> DEFINE c == calls'[i].on
    <3>1. CASE i \in DOMAIN more
      <4>1. calls'[i] = more[i] /\ more[i].on = c /\ c # NULL
        BY ONLY <1>14, <2>1, <3>1
      <4>2. CASE c = x /\ more[i].of = "block"
        <5>1. x \notin app
          BY ONLY <1>14, <1>16, <1>19
        <5>. QED
          BY ONLY <1>1, <1>2, <4>1, <4>2, <5>1
      <4>3. CASE c \in Now \ gone /\ c \notin Roots /\ more[i].of \in {"block", heap[c].kind}
        <5>1. c \notin app /\ c \in Block /\ heap'[c] = heap[c]
          BY ONLY <1>4, <1>12, <4>3 DEF Roots
        <5>. QED
          BY ONLY <1>2, <4>1, <4>3, <5>1
      <4>. QED
        BY ONLY <1>24, <3>1, <4>1, <4>2, <4>3
    <3>2. CASE i \notin DOMAIN more
      <4>1. /\ c \in Roots /\ c # x /\ c \in Block /\ c \notin app
            /\ calls'[i].of \in {"block", heap[c].kind}
        BY ONLY <1>20, <2>1, <3>2
      <4>2. heap'[c] = heap[c]
        BY ONLY <1>4, <1>18, <4>1
      <4>. QED
        BY ONLY <1>2, <4>1, <4>2
    <3>. QED
      BY ONLY <3>1, <3>2
  <2>2. ASSUME NEW i \in DOMAIN calls', NEW j \in DOMAIN calls',
               calls'[i].on = calls'[j].on, calls'[i].on # NULL,
               i \in DOMAIN more, j \notin DOMAIN more
        PROVE  FALSE
    <3>1. more[i].on = calls'[i].on /\ more[i].on # NULL
      BY ONLY <1>14, <2>2
    <3>2. calls'[i].on \in Roots /\ calls'[i].on # x
      BY ONLY <1>20, <2>2
    <3>. QED
      BY ONLY <1>24, <2>2, <3>1, <3>2
  <2>3. ASSUME NEW i \in DOMAIN calls', NEW j \in DOMAIN calls',
               calls'[i].on = calls'[j].on, calls'[i].on # NULL
        PROVE  i = j
    <3>1. CASE i \in DOMAIN more /\ j \in DOMAIN more
      BY ONLY <1>8, <1>14, <2>3, <3>1
    <3>2. CASE i \notin DOMAIN more /\ j \notin DOMAIN more
      <4> DEFINE k == i - Len(more) + 1
                 l == j - Len(more) + 1
      <4>1. k \in DOMAIN calls /\ l \in DOMAIN calls /\ calls'[i] = calls[k] /\ calls'[j] = calls[l]
        BY ONLY <1>14, <2>3, <3>2
      <4>2. k = l => i = j
        BY ONLY <1>14, <2>3
      <4>. HIDE DEF k, l
      <4>3. k = l
        BY ONLY <1>19, <2>3, <4>1
      <4>. QED
        BY ONLY <4>2, <4>3
    <3>. QED
      BY ONLY <2>2, <2>3, <3>1, <3>2
  <2>. QED
    BY ONLY <2>1, <2>3 DEF Pending
<1>36. Settled'
  <2> DEFINE of == Reach(Called)
             to == Called'
             s  == {c \in (Now \ gone) \cup stay : c \in stay \/ c \in of}
  <2>1. /\ \A c \in Block : c \in Called => c \in of
        /\ \A c \in of : \A t : To(c, t) => t \in of
    <3>1. Len(heap) \in Nat /\ Block = 1 .. Len(heap)
      BY ONLY <1>10, Here
    <3>. QED
      BY ONLY <3>1, ReachIs
  <2>2. \A c \in of : \A i \in DOMAIN Pointers(c) : Pointers(c)[i] # Garbage
    BY ONLY <1>10 DEF Settled
  <2>3. Len(heap') \in Nat /\ Block' = 1 .. Len(heap')
    BY ONLY <1>15, HereNext
  <2>4. Settled' <=> \A c \in Spread(Edges', Len(heap'), to) :
                        \A i \in DOMAIN Pointers(c)' : Pointers(c)'[i] # Garbage
    BY ONLY TRUE DEF Settled, Reach
  <2>5. x \in of
    BY ONLY <1>1, <1>16, <2>1
  <2>6. \A g \in gone : g \in of
    BY ONLY <1>3, <2>1, <2>5
  <2>7. \A c \in to : c \in Roots' /\ ((c \in Called /\ c # x) \/ \E k \in DOMAIN more : more[k].on = c)
    <3> SUFFICES ASSUME NEW c \in to
                 PROVE  /\ c \in Roots'
                        /\ (c \in Called /\ c # x) \/ \E k \in DOMAIN more : more[k].on = c
      OBVIOUS
    <3>1. PICK j \in DOMAIN calls' : calls'[j].on = c
      BY ONLY c \in to DEF Called
    <3>2. c \in Roots'
      BY ONLY c \in to DEF Roots
    <3>. QED
      BY ONLY <1>14, <1>20, <3>1, <3>2
  <2>. HIDE DEF of, to
  <2>8. ASSUME NEW c \in Block', c \in to
        PROVE  c \in s
    <3>1. c \in (Now \ gone) \cup stay
      BY ONLY <1>25, <2>7, <2>8
    <3>2. CASE c \in Called
      BY ONLY <1>2, <2>1, <2>8, <3>1, <3>2
    <3>3. CASE \E k \in DOMAIN more : more[k].on = c
      <4>1. (c = x /\ x \in stay) \/ \E g \in gone : To(g, c)
        BY ONLY <1>2, <1>13, <1>24, <2>8, <3>3
      <4>. QED
        BY ONLY <2>1, <2>6, <3>1, <4>1
    <3>. QED
      BY ONLY <2>7, <2>8, <3>2, <3>3
  <2>9. ASSUME NEW c \in s, NEW t, To(c, t)'
        PROVE  t \in s
    <3>1. c \in Now \ gone /\ To(c, t)
      BY ONLY <1>27, <2>9
    <3>2. t \in (Now \ gone) \cup stay
      BY ONLY <1>28, <3>1
    <3>3. c \in of
      BY ONLY <1>2, <2>9, <3>1
    <3>. QED
      BY ONLY <2>1, <3>1, <3>2, <3>3
  <2>10. ASSUME NEW c \in s, NEW i \in DOMAIN Pointers(c)'
         PROVE  Pointers(c)'[i] # Garbage
    <3>1. CASE c \in stay
      BY ONLY <1>5, <1>13, <2>10, <3>1
    <3>2. CASE c \notin stay
      <4>1. c \in of /\ Pointers(c)' = Pointers(c)
        BY ONLY <1>4, <2>10, <3>2
      <4>. QED
        BY ONLY <2>2, <2>10, <4>1
    <3>. QED
      BY ONLY <3>1, <3>2
  <2>. HIDE DEF s
  <2>11. Spread(Edges', Len(heap'), to) \subseteq s
    BY ONLY <2>3, <2>8, <2>9, ReachLeastNext
  <2>. QED
    BY ONLY <2>4, <2>10, <2>11
<1>37. \A c \in Block' \ After : Lost(heap'[c])
  <2> SUFFICES ASSUME NEW c \in Block', c \notin After
               PROVE  Lost(heap'[c])
    OBVIOUS
  <2>1. CASE c \in gone
    <3>1. (\E k \in DOMAIN more : more[k].on = x) => x \in After
      BY ONLY <1>1, <1>2, <1>21, <1>30
    <3>. QED
      BY ONLY <1>6, <2>1, <3>1, c \notin After
  <2>2. CASE c \notin gone
    <3>1. c \in Block \ Now /\ heap'[c] = heap[c]
      BY ONLY <1>2, <1>4, <1>31, <2>2, c \in Block', c \notin After
    <3>. QED
      BY ONLY <1>10, <3>1
  <2>. QED
    BY ONLY <2>1, <2>2
<1>. QED
  BY ONLY <1>2, <1>15, <1>32, <1>33, <1>34, <1>35, <1>36, <1>37, Whole

-----------------------------------------------------------------------------
(* The pointers of each kind of block *)

LEMMA FieldsOf ==
    ASSUME NEW b \in Content
    PROVE  /\ b.kind \in Kinds
           /\ b.kind = "obj"   => b \in Objs   /\ Fields(b) = <<b.via>>
           /\ b.kind = "map"   => b \in Maps   /\ Fields(b) = <<b.table>>
           /\ b.kind = "table" => b \in Tables /\ Fields(b) = b.entries
           /\ b.kind = "kv"    => b \in KVs    /\ Fields(b) = <<b.value>>
           /\ b.kind = "array" => b \in Arrays /\ Fields(b) = <<b.ptr>>
           /\ b.kind = "slots" => b \in Slots  /\ Fields(b) = b.at
           /\ b.kind = "req"   => b \in Reqs   /\ Fields(b) = <<b.data>>
           /\ b.kind = "str"   => b = Str /\ Fields(b) = << >>
           /\ b.kind = "frame" => b = Frame /\ Fields(b) = << >>
           /\ b.kind = "dead"  => b = Dead /\ Fields(b) = << >>
<1>1. /\ b \in Objs => b.kind = "obj"
      /\ b \in Maps => b.kind = "map"
      /\ b \in Tables => b.kind = "table"
      /\ b \in KVs => b.kind = "kv"
      /\ b \in Arrays => b.kind = "array"
      /\ b \in Slots => b.kind = "slots"
      /\ b \in Reqs => b.kind = "req"
      /\ b = Str => b.kind = "str"
      /\ b = Frame => b.kind = "frame"
      /\ b = Dead => b.kind = "dead"
  BY DEF Objs, Maps, Tables, KVs, Arrays, Slots, Reqs, Str, Frame, Dead
<1>2. \/ b \in Objs \/ b \in Maps \/ b \in Tables \/ b \in KVs \/ b \in Arrays \/ b \in Slots \/ b \in Reqs
      \/ b = Str \/ b = Frame \/ b = Dead
  BY DEF Content
<1>3. /\ b.kind = "obj"   => Fields(b) = <<b.via>>
      /\ b.kind = "map"   => Fields(b) = <<b.table>>
      /\ b.kind = "table" => Fields(b) = b.entries
      /\ b.kind = "kv"    => Fields(b) = <<b.value>>
      /\ b.kind = "array" => Fields(b) = <<b.ptr>>
      /\ b.kind = "slots" => Fields(b) = b.at
      /\ b.kind = "req"   => Fields(b) = <<b.data>>
      /\ b.kind = "str"   => Fields(b) = << >>
      /\ b.kind = "frame" => Fields(b) = << >>
      /\ b.kind = "dead"  => Fields(b) = << >>
  BY ONLY TRUE DEF Fields
<1>. QED
  BY ONLY <1>1, <1>2, <1>3 DEF Kinds

-----------------------------------------------------------------------------
(* What the caller puts *)

\* The block c may change, and gets pointers.  own is where a block that is given
\* or fresh is pointed to from: a block and a place in it, or the caller.
ByCaller == <<NULL, 0>>

Puts(c, given, own) ==
    /\ calls = << >> /\ calls' = << >> /\ wild' = wild
    /\ heap' \in Seq(Content) /\ Block \subseteq Block' /\ app' \subseteq Block \cup Fresh
    /\ given \subseteq app
    /\ \A d \in Block : d \in app' <=> d \in app /\ d \notin given
    /\ \A d \in Block : d # c => heap'[d] = heap[d]
    /\ c \in Block =>
          /\ c \in Now /\ heap'[c].kind = heap[c].kind
          /\ \A i \in DOMAIN Fields(heap[c]) : Fields(heap[c])[i] \in Block =>
                 i \in DOMAIN Fields(heap'[c]) /\ Fields(heap'[c])[i] = Fields(heap[c])[i]
          /\ \A i \in DOMAIN Fields(heap'[c]) : Fields(heap'[c])[i] \in Block' =>
                 \/ i \in DOMAIN Fields(heap[c]) /\ Fields(heap'[c])[i] = Fields(heap[c])[i]
                 \/ /\ Fields(heap'[c])[i] \in given \cup Fresh
                    /\ own[Fields(heap'[c])[i]] = <<c, i>>
    /\ \A d \in Fresh : \A i \in DOMAIN Fields(heap'[d]) : Fields(heap'[d])[i] \in Block' =>
           Fields(heap'[d])[i] \in given \cup Fresh /\ own[Fields(heap'[d])[i]] = <<d, i>>
    /\ \A t \in Fresh : t \in app' => own[t] = ByCaller
    /\ given \cup Fresh \subseteq After
    /\ \A d \in Fresh : Fit(d)'
    /\ c \in Block => Fit(c)'

LEMMA Put ==
    ASSUME IInv, NEW c, NEW given, NEW own, Puts(c, given, own)
    PROVE  IInv'
<1>1. /\ calls = << >> /\ calls' = << >> /\ wild' = wild
      /\ heap' \in Seq(Content) /\ Block \subseteq Block'
      /\ app' \subseteq Block' /\ app' \subseteq Block \cup Fresh
      /\ given \subseteq app
      /\ \A d \in Block : d \in app' <=> d \in app /\ d \notin given
      /\ \A d \in Block : d # c => heap'[d] = heap[d]
  BY DEF Puts, Fresh
<1>2. ASSUME c \in Block
      PROVE  /\ c \in Now /\ heap'[c].kind = heap[c].kind
             /\ \A i \in DOMAIN Fields(heap[c]) : Fields(heap[c])[i] \in Block =>
                    i \in DOMAIN Fields(heap'[c]) /\ Fields(heap'[c])[i] = Fields(heap[c])[i]
             /\ \A i \in DOMAIN Fields(heap'[c]) : Fields(heap'[c])[i] \in Block' =>
                    \/ i \in DOMAIN Fields(heap[c]) /\ Fields(heap'[c])[i] = Fields(heap[c])[i]
                    \/ /\ Fields(heap'[c])[i] \in given \cup Fresh
                       /\ own[Fields(heap'[c])[i]] = <<c, i>>
             /\ Fit(c)'
  BY <1>2 DEF Puts
<1>3. /\ \A d \in Fresh : \A i \in DOMAIN Fields(heap'[d]) : Fields(heap'[d])[i] \in Block' =>
             Fields(heap'[d])[i] \in given \cup Fresh /\ own[Fields(heap'[d])[i]] = <<d, i>>
      /\ \A t \in Fresh : t \in app' => own[t] = ByCaller
      /\ given \cup Fresh \subseteq After
      /\ \A d \in Fresh : Fit(d)'
  BY DEF Puts
<1>4. TypeOK /\ wild = FALSE /\ \A d \in Now : Fit(d)
  BY Parts
<1>5. /\ \A p, q \in Now : \A i \in DOMAIN Pointers(p), j \in DOMAIN Pointers(q) :
            Pointers(p)[i] = Pointers(q)[j] /\ Pointers(p)[i] \in Block => p = q /\ i = j
      /\ \A p \in Now : \A i \in DOMAIN Pointers(p) :
            Pointers(p)[i] \in Block => Pointers(p)[i] \notin Roots
  BY Parts
<1>6. Now \subseteq Block
  BY <1>4, NowIs
<1>7. /\ Roots = app /\ \A d : Pointers(d) = Fields(heap[d])
      /\ Roots' = app' /\ \A d : Pointers(d)' = Fields(heap'[d])
  BY ONLY <1>1, RootsIdle, RootsIdleNext
<1>8. TypeOK'
  <2>1. calls' \in Seq([of : Kinds \cup {"block"}, on : Int])
    BY ONLY <1>1
  <2>. QED
    BY ONLY <1>1, <2>1 DEF TypeOK
<1>9. NULL \notin Block' /\ Garbage \notin Block'
  BY ONLY <1>8, HereNext
\* A pointer of a block that was in use.
<1>10. ASSUME NEW d \in Now, NEW i \in DOMAIN Pointers(d)', Pointers(d)'[i] \in Block'
       PROVE  \/ /\ i \in DOMAIN Pointers(d) /\ Pointers(d)[i] = Pointers(d)'[i]
                 /\ Pointers(d)'[i] \in Block /\ Pointers(d)'[i] \notin given \cup Fresh
              \/ /\ Pointers(d)'[i] \in given \cup Fresh /\ own[Pointers(d)'[i]] = <<d, i>>
  <2> DEFINE t == Pointers(d)'[i]
  <2>1. ASSUME i \in DOMAIN Pointers(d), Pointers(d)[i] = t
        PROVE  t \in Block /\ t \notin given \cup Fresh
    <3>1. Sound(heap[d], Pointers(d)[i])
      BY ONLY <1>4, <2>1, d \in Now DEF Fit
    <3>2. t \in Block
      BY ONLY <1>9, <1>10, <2>1, <3>1 DEF Sound
    <3>. QED
      BY ONLY <1>1, <1>5, <1>7, <2>1, <3>2, d \in Now DEF Fresh
  <2>2. CASE d # c
    <3>1. i \in DOMAIN Pointers(d) /\ Pointers(d)[i] = t
      BY ONLY <1>1, <1>6, <1>7, <2>2, d \in Now, i \in DOMAIN Pointers(d)'
    <3>. QED
      BY ONLY <2>1, <3>1
  <2>3. CASE d = c
    <3>1. \/ i \in DOMAIN Pointers(d) /\ t = Pointers(d)[i]
          \/ t \in given \cup Fresh /\ own[t] = <<d, i>>
      BY ONLY <1>2, <1>6, <1>7, <1>10, <2>3
    <3>. QED
      BY ONLY <2>1, <3>1
  <2>. QED
    BY ONLY <2>2, <2>3
<1>11. ASSUME NEW d \in Now \cup Fresh, NEW i \in DOMAIN Pointers(d)', Pointers(d)'[i] \in given \cup Fresh
       PROVE  own[Pointers(d)'[i]] = <<d, i>>
  <2>1. Pointers(d)'[i] \in Block'
    BY ONLY <1>1, <1>4, <1>11 DEF Fresh, TypeOK
  <2>2. CASE d \in Now
    BY ONLY <1>10, <1>11, <2>1, <2>2
  <2>3. CASE d \in Fresh
    BY ONLY <1>3, <1>7, <1>11, <2>1, <2>3
  <2>. QED
    BY ONLY <1>11, <2>2, <2>3
<1>12. ASSUME NEW d \in Now, NEW t, To(d, t)
       PROVE  To(d, t)'
  <2>1. PICK i \in DOMAIN Pointers(d) : Pointers(d)[i] = t /\ t \in Block
    BY ONLY <1>12 DEF To
  <2>2. i \in DOMAIN Pointers(d)' /\ Pointers(d)'[i] = t
    BY ONLY <1>1, <1>2, <1>6, <1>7, <2>1, d \in Now
  <2>. QED
    BY ONLY <1>1, <2>1, <2>2 DEF To
<1>13. ASSUME NEW d \in Now, d # c
       PROVE  Fit(d)'
  <2>1. heap'[d] = heap[d] /\ Pointers(d)' = Pointers(d)
    BY ONLY <1>1, <1>6, <1>7, <1>13
  <2>2. /\ heap[d] # Dead /\ (heap[d].kind = "kv" => heap[d].key # Dead)
        /\ \A i \in DOMAIN Pointers(d) : Sound(heap[d], Pointers(d)[i])
    BY ONLY <1>4, d \in Now DEF Fit
  <2>3. \A t \in Block : t \in Block' /\ heap'[t].kind = heap[t].kind
    BY ONLY <1>1, <1>2
  <2>4. ASSUME NEW i \in DOMAIN Pointers(d)
        PROVE  Sound(heap[d], Pointers(d)[i])'
    <3> DEFINE t == Pointers(d)[i]
    <3>1. Sound(heap[d], t)
      BY ONLY <2>2, i \in DOMAIN Pointers(d)
    <3>2. t = Pointers(d)'[i]
      BY ONLY <2>1
    <3>. HIDE DEF t
    <3>3. \/ t = NULL /\ heap'[d].kind # "array"
          \/ t = Garbage /\ heap'[d].kind = "slots"
          \/ /\ t \in Block' /\ heap'[d].kind \in {"obj", "map", "table", "kv", "array", "slots", "req"}
             /\ heap'[d].kind = "obj" => heap'[d].type \in DOMAIN ViaKind
             /\ heap'[t].kind = Leads(heap'[d])
      BY ONLY <2>1, <2>3, <3>1 DEF Sound
    <3>. QED
      BY ONLY <3>2, <3>3 DEF Sound
  <2>. QED
    BY ONLY <2>1, <2>2, <2>4 DEF Fit
<1>14. Grows(given)
  <2>1. /\ calls = << >> /\ calls' = << >> /\ wild' = FALSE /\ TypeOK' /\ Block \subseteq Block'
        /\ given \subseteq app /\ app' \subseteq Block \cup Fresh
        /\ \A d \in Block : d \in app' <=> d \in app /\ d \notin given
    BY ONLY <1>1, <1>4, <1>8
  <2>2. \A d \in Block \ Now : heap'[d] = heap[d]
    BY ONLY <1>1, <1>2
  <2>3. \A d \in Now : \A i \in DOMAIN Pointers(d)' :
           Pointers(d)'[i] \in Block' =>
               \/ /\ Pointers(d)'[i] \in Block /\ i \in DOMAIN Pointers(d)
                  /\ Pointers(d)[i] = Pointers(d)'[i]
               \/ Pointers(d)'[i] \in given \cup Fresh
    BY ONLY <1>10
  <2>4. \A d \in Fresh : \A i \in DOMAIN Pointers(d)' :
            Pointers(d)'[i] \in Block' => Pointers(d)'[i] \in given \cup Fresh
    BY ONLY <1>3, <1>7
  <2>5. \A d, e \in Now \cup Fresh : \A i \in DOMAIN Pointers(d)', j \in DOMAIN Pointers(e)' :
            Pointers(d)'[i] = Pointers(e)'[j] /\ Pointers(d)'[i] \in given \cup Fresh => d = e /\ i = j
    <3> SUFFICES ASSUME NEW d \in Now \cup Fresh, NEW e \in Now \cup Fresh,
                        NEW i \in DOMAIN Pointers(d)', NEW j \in DOMAIN Pointers(e)',
                        Pointers(d)'[i] = Pointers(e)'[j], Pointers(d)'[i] \in given \cup Fresh
                 PROVE  d = e /\ i = j
      OBVIOUS
    <3>1. own[Pointers(d)'[i]] = <<d, i>>
      BY ONLY <1>11, d \in Now \cup Fresh, i \in DOMAIN Pointers(d)', Pointers(d)'[i] \in given \cup Fresh
    <3>2. own[Pointers(e)'[j]] = <<e, j>>
      BY ONLY <1>11, e \in Now \cup Fresh, j \in DOMAIN Pointers(e)', Pointers(d)'[i] \in given \cup Fresh,
              Pointers(d)'[i] = Pointers(e)'[j]
    <3>3. <<d, i>> = <<e, j>>
      BY ONLY <3>1, <3>2, Pointers(d)'[i] = Pointers(e)'[j]
    <3>. QED
      BY ONLY <3>3
  <2>6. \A d \in Now \cup Fresh : \A i \in DOMAIN Pointers(d)' :
            Pointers(d)'[i] \in Fresh => Pointers(d)'[i] \notin app'
    <3> SUFFICES ASSUME NEW d \in Now \cup Fresh, NEW i \in DOMAIN Pointers(d)',
                        Pointers(d)'[i] \in Fresh, Pointers(d)'[i] \in app'
                 PROVE  FALSE
      OBVIOUS
    <3>1. own[Pointers(d)'[i]] = <<d, i>>
      BY ONLY <1>11, d \in Now \cup Fresh, i \in DOMAIN Pointers(d)', Pointers(d)'[i] \in Fresh
    <3>2. own[Pointers(d)'[i]] = ByCaller
      BY ONLY <1>3, Pointers(d)'[i] \in Fresh, Pointers(d)'[i] \in app'
    <3>3. d # NULL
      BY ONLY <1>1, <1>6, <1>9, d \in Now \cup Fresh DEF Fresh
    <3>. QED
      BY ONLY <3>1, <3>2, <3>3 DEF ByCaller
  <2>7. \A d \in Now \cup Fresh : Fit(d)'
    BY ONLY <1>2, <1>3, <1>6, <1>13
  <2>. QED
    BY ONLY <1>3, <1>12, <2>1, <2>2, <2>3, <2>4, <2>5, <2>6, <2>7 DEF Grows
<1>. QED
  BY ONLY <1>14, IInv, Grown

\* The blocks added, with the bytes of a message behind them or not.
LEMMA Appended ==
    ASSUME Len(heap) \in Nat, Block = 1 .. Len(heap), NEW H \in Seq(Content), Len(H) = Len(heap),
           NEW blocks \in Seq(Content), \A k \in 1 .. Len(blocks) : blocks[k] # Frame,
           NEW tail, tail = << >> \/ tail = <<Frame>>, heap' = H \o blocks \o tail
    PROVE  /\ heap' \in Seq(Content) /\ Block \subseteq Block' /\ Len(blocks) \in Nat
           /\ \A d \in Block : heap'[d] = H[d]
           /\ \A k \in 1 .. Len(blocks) : Len(heap) + k \in Fresh /\ heap'[Len(heap) + k] = blocks[k]
           /\ \A d \in Fresh : \E k \in 1 .. Len(blocks) : d = Len(heap) + k
<1> DEFINE n == Len(heap)
           m == Len(blocks)
           all == blocks \o tail
           p == Len(all)
<1>0. /\ all \in Seq(Content) /\ p \in Nat /\ m \in Nat /\ m <= p
      /\ \A k \in 1 .. m : all[k] = blocks[k]
      /\ \A k \in 1 .. p : k > m => all[k] = Frame
  <2>1. Frame \in Content
    BY DEF Content
  <2>2. CASE tail = << >>
    BY ONLY <2>2, blocks \in Seq(Content)
  <2>3. CASE tail = <<Frame>>
    <3>1. tail \in Seq(Content) /\ Len(tail) = 1 /\ tail[1] = Frame
      BY ONLY <2>1, <2>3
    <3>a. all \in Seq(Content) /\ Len(all) = Len(blocks) + Len(tail)
      BY ONLY <3>1, blocks \in Seq(Content), ConcatProperties
    <3>c. Len(blocks) \in Nat
      BY ONLY blocks \in Seq(Content)
    <3>b. \A k \in 1 .. Len(blocks) + Len(tail) :
             all[k] = IF k <= Len(blocks) THEN blocks[k] ELSE tail[k - Len(blocks)]
      BY ONLY <3>1, blocks \in Seq(Content), ConcatProperties
    <3>2. /\ all \in Seq(Content) /\ p = m + 1 /\ m \in Nat
          /\ \A k \in 1 .. m + 1 : all[k] = IF k <= m THEN blocks[k] ELSE tail[k - m]
      BY ONLY <3>1, <3>a, <3>b, <3>c
    <3>. HIDE DEF all, p, m
    <3>3. /\ \A k \in 1 .. m : k \in 1 .. m + 1 /\ k <= m
          /\ \A k \in 1 .. p : k > m => k \in 1 .. m + 1 /\ ~ (k <= m) /\ k - m = 1
      BY ONLY <3>2
    <3>4. p \in Nat /\ m <= p
      BY ONLY <3>2
    <3>. QED
      BY ONLY <3>1, <3>2, <3>3, <3>4
  <2>. QED
    BY ONLY <2>2, <2>3, tail = << >> \/ tail = <<Frame>>
<1>00. heap' = H \o all
  <2>1. Frame \in Content
    BY DEF Content
  <2>2. tail \in Seq(Content)
    <3>1. << >> \in Seq(Content) /\ <<Frame>> \in Seq(Content)
      BY ONLY <2>1
    <3>. QED
      BY ONLY <3>1, tail = << >> \/ tail = <<Frame>>
  <2>3. (H \o blocks) \o tail = H \o (blocks \o tail)
    BY ONLY <2>2, H \in Seq(Content), blocks \in Seq(Content), ConcatAssociative
  <2>. QED
    BY ONLY <2>3, heap' = H \o blocks \o tail
<1>. HIDE DEF all
<1>1. /\ heap' \in Seq(Content) /\ Len(heap') = n + p /\ DOMAIN heap' = 1 .. Len(heap')
      /\ \A d \in 1 .. n : heap'[d] = H[d]
      /\ \A d \in 1 .. n + p : d > n => heap'[d] = all[d - n]
  <2> DEFINE new == H \o all
  <2>1. /\ new \in Seq(Content) /\ Len(new) = Len(H) + Len(all)
        /\ \A d \in 1 .. Len(H) + Len(all) :
              new[d] = IF d <= Len(H) THEN H[d] ELSE all[d - Len(H)]
    BY ONLY <1>0, H \in Seq(Content)
  <2>2. DOMAIN new = 1 .. Len(new)
    BY ONLY <2>1
  <2>. HIDE DEF new
  <2>3. /\ n \in Nat /\ new \in Seq(Content) /\ Len(new) = n + p /\ DOMAIN new = 1 .. Len(new)
        /\ \A d \in 1 .. n + p : new[d] = IF d <= n THEN H[d] ELSE all[d - n]
    BY ONLY <2>1, <2>2, Len(H) = Len(heap), Len(heap) \in Nat
  <2>4. p \in Nat
    BY ONLY <1>0
  <2>. HIDE DEF n, p
  <2>5. \A d \in 1 .. n : d \in 1 .. n + p /\ d <= n
    BY ONLY <2>3, <2>4
  <2>6. \A d \in 1 .. n + p : d > n => ~ (d <= n)
    BY ONLY <2>3, <2>4
  <2>7. heap' = new
    BY ONLY <1>00 DEF new
  <2>. QED
    BY ONLY <2>3, <2>5, <2>6, <2>7
<1>2. Block' = 1 .. n + p /\ n \in Nat /\ Block = 1 .. n
  BY ONLY <1>1, Len(heap) \in Nat, Block = 1 .. Len(heap) DEF Block
<1>3. \A k \in 1 .. m : blocks[k] # Frame
  OBVIOUS
<1>. HIDE DEF n, m, p
<1>4. Block \subseteq Block'
  BY ONLY <1>0, <1>2
<1>5. ASSUME NEW k \in 1 .. m
      PROVE  n + k \in Fresh /\ heap'[n + k] = blocks[k]
  <2>1. n + k \in 1 .. n + p /\ n + k \notin 1 .. n /\ n + k > n /\ n + k - n = k
    BY ONLY <1>0, <1>2, k \in 1 .. m
  <2>2. heap'[n + k] = blocks[k]
    <3> DEFINE x == n + k
    <3>1. x \in 1 .. n + p /\ x > n /\ x - n = k
      BY ONLY <1>0, <1>2, k \in 1 .. m
    <3>. HIDE DEF x
    <3>2. heap'[x] = all[x - n]
      BY ONLY <1>1, <3>1
    <3>3. heap'[x] = all[k] /\ all[k] = blocks[k]
      BY ONLY <1>0, <3>1, <3>2, k \in 1 .. m
    <3>. QED
      BY ONLY <3>3 DEF x
  <2>. QED
    BY ONLY <1>2, <1>3, <2>1, <2>2, k \in 1 .. m DEF Fresh
<1>6. ASSUME NEW d \in Fresh
      PROVE  \E k \in 1 .. m : d = n + k
  <2>1. d \in 1 .. n + p /\ d \notin 1 .. n /\ heap'[d] # Frame
    BY ONLY <1>2, d \in Fresh DEF Fresh
  <2>2. d - n \in 1 .. p /\ d = n + (d - n) /\ d > n
    BY ONLY <1>0, <1>2, <2>1
  <2>3. ~ (d - n > m)
    BY ONLY <1>0, <1>1, <2>1, <2>2
  <2>4. d - n \in 1 .. m
    BY ONLY <1>0, <2>2, <2>3
  <2>. QED
    BY ONLY <2>2, <2>4
<1>7. m \in Nat /\ heap' \in Seq(Content) /\ \A d \in Block : heap'[d] = H[d]
  BY ONLY <1>0, <1>1, <1>2
<1>. QED
  BY ONLY <1>4, <1>5, <1>6, <1>7 DEF n, m

LEMMA Arrives ==
    ASSUME calls' = << >>, heap' \in Seq(Content), app' \subseteq Block'
    PROVE  /\ \A c \in app' : c \in After
           /\ \A c \in After : \A i \in DOMAIN Fields(heap'[c]) :
                 Fields(heap'[c])[i] \in Block' => Fields(heap'[c])[i] \in After
           /\ NULL \notin Block'
<1>1. TypeOK'
  <2>1. calls' \in Seq([of : Kinds \cup {"block"}, on : Int])
    OBVIOUS
  <2>. QED
    BY <2>1 DEF TypeOK
<1>2. /\ \A c \in Block' : c \in Roots' => c \in After
      /\ \A c \in After : \A t : To(c, t)' => t \in After
  BY ONLY <1>1, AfterIs
<1>3. Roots' = app' /\ \A c : Pointers(c)' = Fields(heap'[c])
  BY RootsIdleNext
<1>4. ASSUME NEW c \in After, NEW i \in DOMAIN Fields(heap'[c]), Fields(heap'[c])[i] \in Block'
      PROVE  Fields(heap'[c])[i] \in After
  <2>1. To(c, Fields(heap[c])[i])'
    BY ONLY <1>3, <1>4 DEF To
  <2>. QED
    BY ONLY <1>2, <2>1
<1>5. \A c \in app' : c \in After
  BY ONLY <1>2, <1>3, app' \subseteq Block'
<1>. QED
  BY ONLY <1>1, <1>4, <1>5, HereNext

LEMMA FitIdle ==
    ASSUME calls' = << >>, NEW c, heap'[c] # Dead, heap'[c].kind = "kv" => heap'[c].key # Dead,
           \A i \in DOMAIN Fields(heap'[c]) :
               LET t == Fields(heap'[c])[i]
               IN  \/ t = NULL /\ heap'[c].kind # "array"
                   \/ t = Garbage /\ heap'[c].kind = "slots"
                   \/ /\ t \in Block' /\ heap'[c].kind \in {"obj", "map", "table", "kv", "array", "slots", "req"}
                      /\ heap'[c].kind = "obj" => heap'[c].type \in DOMAIN ViaKind
                      /\ heap'[t].kind = Leads(heap'[c])
    PROVE  Fit(c)'
<1>1. Pointers(c)' = Fields(heap'[c])
  BY RootsIdleNext
<1>2. ASSUME NEW i \in DOMAIN Fields(heap'[c])
      PROVE  Sound(heap[c], Fields(heap[c])[i])'
  BY DEF Sound
<1>. QED
  BY <1>1, <1>2 DEF Fit

-----------------------------------------------------------------------------
(* Blocks that point to one another from the first down *)

Tree(data, own) ==
    /\ \A k \in 1 .. Len(data) :
          /\ data[k] # Dead
          /\ data[k].kind = "kv" => data[k].key # Dead
          /\ \A i \in DOMAIN Fields(data[k]) :
                LET t == Fields(data[k])[i]
                IN  \/ t = NULL /\ data[k].kind # "array"
                    \/ t = Garbage /\ data[k].kind = "slots"
                    \/ /\ data[k].kind \in {"obj", "map", "table", "kv", "array", "slots", "req"}
                       /\ data[k].kind = "obj" => data[k].type \in DOMAIN ViaKind
                       /\ own[t] = <<Len(heap) + k, i>>
                       /\ \E l \in 1 .. Len(data) :
                             t = Len(heap) + l /\ l # 1 /\ data[l].kind = Leads(data[k])
    /\ \A l \in 1 .. Len(data) : l # 1 =>
          \E k \in 1 .. l - 1 : \E i \in DOMAIN Fields(data[k]) : Fields(data[k])[i] = Len(heap) + l

\* The first is the caller's, or the data of a request, and then the bytes it was
\* read from are behind them.
Plants(c, data, own) ==
    /\ calls = << >> /\ calls' = << >> /\ wild' = wild
    /\ data \in Seq(Content) /\ data # << >> /\ Tree(data, own) /\ data[1] # Frame
    /\ \/ /\ c = NULL /\ heap' = heap \o data /\ app' = app \cup {Len(heap) + 1}
          /\ own[Len(heap) + 1] = ByCaller
       \/ /\ c \in Held("req") /\ heap[c].data = NULL /\ data[1].kind = "obj" /\ app' = app
          /\ \E cmd \in {None, Str} :
                heap' = [heap EXCEPT ![c] = [kind |-> "req", cmd |-> cmd, data |-> Len(heap) + 1]]
                        \o data \o <<Frame>>
          /\ own[Len(heap) + 1] = <<c, 1>>

LEMMA Planted ==
    ASSUME IInv, NEW c, NEW data, NEW own, Plants(c, data, own)
    PROVE  IInv'
<1> DEFINE n == Len(heap)
           m == Len(data)
<1>1. /\ calls = << >> /\ calls' = << >> /\ wild' = wild
      /\ data \in Seq(Content) /\ data # << >> /\ Tree(data, own) /\ data[1] # Frame
  BY DEF Plants
<1>2. TypeOK /\ heap \in Seq(Content) /\ app \subseteq Block
  BY Parts DEF TypeOK
<1>3. n \in Nat /\ Block = 1 .. n /\ NULL \notin Block /\ \A d \in Block : heap[d] \in Content
  BY ONLY <1>2, Here
<1>4. /\ Now \subseteq Block
      /\ \A d \in app : d \in Now
  BY ONLY <1>1, <1>2, NowIs, RootsIdle
\* The blocks before those added.
<1>5. PICK H \in Seq(Content), tail \in {<< >>, <<Frame>>} :
          /\ heap' = H \o data \o tail /\ Len(H) = n
          /\ \A d \in Block : d # c => H[d] = heap[d]
          /\ \/ c = NULL /\ app' = app \cup {n + 1} /\ own[n + 1] = ByCaller
             \/ /\ c \in Block /\ c \in app /\ app' = app /\ own[n + 1] = <<c, 1>> /\ data[1].kind = "obj"
                /\ heap[c].kind = "req" /\ Fields(heap[c]) = <<NULL>>
                /\ H[c].kind = "req" /\ Fields(H[c]) = <<n + 1>>
  <2>1. CASE c = NULL /\ heap' = heap \o data /\ app' = app \cup {n + 1} /\ own[n + 1] = ByCaller
    <3>1. heap \o data = heap \o data \o << >>
      BY ONLY <1>1, <1>2
    <3>2. heap' = heap \o data \o << >>
      BY ONLY <2>1, <3>1
    <3>. QED
      BY ONLY <1>2, <2>1, <3>2
  <2>2. CASE /\ c \in Held("req") /\ heap[c].data = NULL /\ data[1].kind = "obj" /\ app' = app
             /\ \E cmd \in {None, Str} :
                   heap' = [heap EXCEPT ![c] = [kind |-> "req", cmd |-> cmd, data |-> n + 1]]
                           \o data \o <<Frame>>
             /\ own[n + 1] = <<c, 1>>
    <3>1. PICK cmd \in {None, Str} :
             heap' = [heap EXCEPT ![c] = [kind |-> "req", cmd |-> cmd, data |-> n + 1]]
                     \o data \o <<Frame>>
      BY ONLY <2>2
    <3> DEFINE b == [kind |-> "req", cmd |-> cmd, data |-> n + 1]
               H == [heap EXCEPT ![c] = b]
    <3>2. c \in Block /\ c \in app /\ heap[c].kind = "req"
      BY ONLY <2>2 DEF Held, OfKind
    <3>3. Fields(heap[c]) = <<NULL>>
      BY ONLY <1>3, <2>2, <3>2, FieldsOf
    <3>4. b \in Reqs
      BY ONLY <1>3 DEF Reqs
    <3>5. b \in Content /\ b.kind = "req" /\ b.data = n + 1
      BY ONLY <3>4 DEF Content
    <3>. HIDE DEF b
    <3>6. Fields(b) = <<n + 1>>
      BY ONLY <3>5, FieldsOf
    <3>7. H \in Seq(Content) /\ Len(H) = n /\ H[c] = b /\ \A d \in Block : d # c => H[d] = heap[d]
      <4>1. Len(heap) \in Nat /\ DOMAIN heap = 1 .. Len(heap) /\ \A d \in 1 .. Len(heap) : heap[d] \in Content
        BY ONLY <1>2
      <4>2. DOMAIN H = 1 .. Len(heap) /\ (\A d \in 1 .. Len(heap) : H[d] \in Content) /\ H \in [1 .. Len(heap) -> Content]
        BY ONLY <3>5, <4>1
      <4>3. H \in Seq(Content)
        BY ONLY <4>1, <4>2
      <4>. QED
        BY ONLY <1>3, <3>2, <4>1, <4>2, <4>3
    <3>. HIDE DEF H
    <3>8. heap' = H \o data \o <<Frame>>
      BY ONLY <3>1 DEF H, b
    <3>. QED
      BY ONLY <2>2, <3>2, <3>3, <3>5, <3>6, <3>7, <3>8
  <2>. QED
    BY <2>1, <2>2 DEF Plants
<1>7. m > 0 /\ 1 \in 1 .. m
  BY ONLY <1>1
<1>8. /\ \A k \in 1 .. m :
            /\ data[k] # Dead
            /\ data[k].kind = "kv" => data[k].key # Dead
            /\ \A i \in DOMAIN Fields(data[k]) :
                  \/ Fields(data[k])[i] = NULL /\ data[k].kind # "array"
                  \/ Fields(data[k])[i] = Garbage /\ data[k].kind = "slots"
                  \/ /\ data[k].kind \in {"obj", "map", "table", "kv", "array", "slots", "req"}
                     /\ data[k].kind = "obj" => data[k].type \in DOMAIN ViaKind
                     /\ own[Fields(data[k])[i]] = <<n + k, i>>
                     /\ \E l \in 1 .. m :
                           Fields(data[k])[i] = n + l /\ l # 1 /\ data[l].kind = Leads(data[k])
      /\ \A l \in 1 .. m : l # 1 =>
            \E k \in 1 .. l - 1 : \E i \in DOMAIN Fields(data[k]) : Fields(data[k])[i] = n + l
  BY ONLY <1>1 DEF Tree
<1>8a. m \in Nat
  BY ONLY <1>1
<1>8b. \A k \in 1 .. m : data[k] # Frame
  <2>. HIDE DEF n, m
  <2> SUFFICES ASSUME NEW k \in 1 .. m, k # 1
               PROVE  data[k].kind # "frame"
    BY <1>1 DEF Frame
  <2>1. PICK j \in 1 .. k - 1 : \E i \in DOMAIN Fields(data[j]) : Fields(data[j])[i] = n + k
    BY ONLY <1>8, k \in 1 .. m, k # 1
  <2>2. j \in 1 .. m /\ n + k # NULL /\ n + k # Garbage
    BY ONLY <1>3, <1>8a, k \in 1 .. m, j \in 1 .. k - 1 DEF NULL, Garbage
  <2>3. PICK i \in DOMAIN Fields(data[j]) : Fields(data[j])[i] = n + k
    BY ONLY <2>1
  <2>4. PICK l \in 1 .. m : /\ Fields(data[j])[i] = n + l /\ data[l].kind = Leads(data[j])
                            /\ data[j].kind \in {"obj", "map", "table", "kv", "array", "slots", "req"}
                            /\ data[j].kind = "obj" => data[j].type \in DOMAIN ViaKind
    BY ONLY <1>8, <2>2, <2>3
  <2>5. l = k
    BY ONLY <1>3, <1>8a, <2>3, <2>4, k \in 1 .. m
  <2>. QED
    BY ONLY <2>4, <2>5 DEF Leads, Kind, ViaKind
<1>6. /\ heap' \in Seq(Content) /\ Block \subseteq Block' /\ m \in Nat
      /\ \A d \in Block : heap'[d] = H[d]
      /\ \A k \in 1 .. m : n + k \in Fresh /\ heap'[n + k] = data[k]
      /\ \A d \in Fresh : \E k \in 1 .. m : d = n + k
  BY ONLY <1>1, <1>3, <1>5, <1>8b, Appended, ZenonT(30)
<1>. HIDE DEF n, m
<1>9. n + 1 \in Fresh /\ n + 1 \notin Block /\ n + 1 \in Block' /\ heap'[n + 1] = data[1]
  BY ONLY <1>6, <1>7 DEF Fresh
<1>10. app' \subseteq Block'
  BY ONLY <1>2, <1>5, <1>6, <1>9
<1>10a. app' \subseteq Block \cup Fresh
  BY ONLY <1>2, <1>5, <1>9
<1>11. /\ \A d \in app' : d \in After
       /\ \A d \in After : \A i \in DOMAIN Fields(heap'[d]) :
             Fields(heap'[d])[i] \in Block' => Fields(heap'[d])[i] \in After
       /\ NULL \notin Block'
  BY ONLY <1>1, <1>6, <1>10, Arrives
<1>11a. Garbage \notin Block'
  <2>1. TypeOK'
    <3>1. calls' \in Seq([of : Kinds \cup {"block"}, on : Int])
      BY ONLY <1>1
    <3>. QED
      BY ONLY <1>6, <1>10, <3>1 DEF TypeOK
  <2>. QED
    BY ONLY <2>1, HereNext
<1>12. n + 1 \in After
  <2>1. CASE app' = app \cup {n + 1}
    BY ONLY <1>11, <2>1
  <2>2. CASE c \in Block /\ c \in app /\ app' = app /\ Fields(H[c]) = <<n + 1>>
    <3>1. c \in After /\ Fields(heap'[c]) = <<n + 1>>
      BY ONLY <1>6, <1>11, <2>2
    <3>2. 1 \in DOMAIN Fields(heap'[c]) /\ Fields(heap'[c])[1] = n + 1
      BY ONLY <3>1
    <3>. QED
      BY ONLY <1>9, <1>11, <3>1, <3>2
  <2>. QED
    BY ONLY <1>5, <2>1, <2>2
<1>13. Fresh \subseteq After
  <2> DEFINE T == {l \in Nat : \A k \in 1 .. m : k <= l => n + k \in After}
  <2>1. 0 \in T
    BY ONLY <1>6
  <2>2. \A l \in Nat : l \in T => l + 1 \in T
    <3> SUFFICES ASSUME NEW l \in Nat, l \in T
                 PROVE  l + 1 \in T
      OBVIOUS
    <3>1. \A k \in 1 .. m : k <= l => n + k \in After
      BY ONLY l \in T
    <3>2. ASSUME l + 1 \in 1 .. m, l + 1 # 1
          PROVE  n + (l + 1) \in After
      <4>1. PICK k \in 1 .. (l + 1) - 1 : \E i \in DOMAIN Fields(data[k]) : Fields(data[k])[i] = n + (l + 1)
        BY ONLY <1>8, <3>2
      <4>2. k \in 1 .. m /\ k <= l
        BY ONLY <1>6, <3>2, l \in Nat, k \in 1 .. (l + 1) - 1
      <4>3. n + k \in After /\ heap'[n + k] = data[k]
        BY ONLY <1>6, <3>1, <4>2
      <4>4. n + (l + 1) \in Block'
        BY ONLY <1>6, <3>2 DEF Fresh
      <4>. QED
        BY ONLY <1>11, <4>1, <4>3, <4>4
    <3>3. ASSUME NEW k \in 1 .. m, k <= l + 1
          PROVE  n + k \in After
      <4>1. k <= l \/ k = l + 1
        BY ONLY <1>6, <3>3, l \in Nat
      <4>2. CASE k = l + 1 /\ k # 1
        BY ONLY <3>2, <3>3, <4>2
      <4>. QED
        BY ONLY <1>12, <3>1, <4>1, <4>2, <3>3
    <3>4. l + 1 \in Nat
      OBVIOUS
    <3>. QED
      BY ONLY <3>3, <3>4
  <2>. HIDE DEF T
  <2>3. m \in T
    BY ONLY <1>6, <2>1, <2>2, Induction
  <2>4. \A k \in 1 .. m : k <= m => n + k \in After
    BY ONLY <2>3 DEF T
  <2>5. \A k \in 1 .. m : k <= m
    BY ONLY <1>6
  <2>. QED
    BY ONLY <1>6, <2>4, <2>5
<1>14. ASSUME NEW d \in Fresh, NEW i \in DOMAIN Fields(heap'[d])
       PROVE  \/ Fields(heap'[d])[i] = NULL /\ heap'[d].kind # "array"
              \/ Fields(heap'[d])[i] = Garbage /\ heap'[d].kind = "slots"
              \/ /\ Fields(heap'[d])[i] \in Fresh
                 /\ own[Fields(heap'[d])[i]] = <<d, i>>
                 /\ heap'[d].kind \in {"obj", "map", "table", "kv", "array", "slots", "req"}
                 /\ heap'[d].kind = "obj" => heap'[d].type \in DOMAIN ViaKind
                 /\ heap'[Fields(heap'[d])[i]].kind = Leads(heap'[d])
  <2>1. PICK k \in 1 .. m : d = n + k
    BY ONLY <1>6, d \in Fresh
  <2>2. heap'[d] = data[k]
    BY ONLY <1>6, <2>1
  <2>3. ASSUME NEW l \in 1 .. m, Fields(data[k])[i] = n + l, data[l].kind = Leads(data[k])
        PROVE  Fields(data[k])[i] \in Fresh /\ heap'[Fields(data[k])[i]].kind = Leads(data[k])
    BY ONLY <1>6, <2>3
  <2> DEFINE v == Fields(data[k])[i]
  <2>4. i \in DOMAIN Fields(data[k]) /\ Fields(heap'[d])[i] = v
    BY ONLY <2>2, i \in DOMAIN Fields(heap'[d])
  <2>5. \/ v = NULL /\ data[k].kind # "array"
        \/ v = Garbage /\ data[k].kind = "slots"
        \/ /\ data[k].kind \in {"obj", "map", "table", "kv", "array", "slots", "req"}
           /\ data[k].kind = "obj" => data[k].type \in DOMAIN ViaKind
           /\ own[v] = <<n + k, i>>
           /\ \E l \in 1 .. m : v = n + l /\ l # 1 /\ data[l].kind = Leads(data[k])
    BY ONLY <1>8, <2>4
  <2>6. ASSUME \E l \in 1 .. m : v = n + l /\ l # 1 /\ data[l].kind = Leads(data[k])
        PROVE  v \in Fresh /\ heap'[v].kind = Leads(data[k])
    BY ONLY <2>3, <2>6
  <2>. HIDE DEF v
  <2>. QED
    BY ONLY <2>1, <2>2, <2>4, <2>5, <2>6
<1>15. ASSUME NEW d \in Fresh
       PROVE  Fit(d)'
  <2>1. heap'[d] # Dead /\ (heap'[d].kind = "kv" => heap'[d].key # Dead)
    <3>1. PICK k \in 1 .. m : d = n + k
      BY ONLY <1>6, d \in Fresh
    <3>2. heap'[d] = data[k]
      BY ONLY <1>6, <3>1
    <3>3. data[k] # Dead /\ (data[k].kind = "kv" => data[k].key # Dead)
      BY ONLY <1>8
    <3>. QED
      BY ONLY <3>2, <3>3
  <2>2. \A t \in Fresh : t \in Block'
    BY DEF Fresh
  <2>. QED
    BY ONLY <1>1, <1>14, <2>1, <2>2, d \in Fresh, FitIdle
<1>16. ASSUME c \in Block
       PROVE  /\ c \in Now /\ heap'[c].kind = heap[c].kind /\ heap'[c].kind = "req"
              /\ Fields(heap[c]) = <<NULL>> /\ Fields(heap'[c]) = <<n + 1>>
              /\ own[n + 1] = <<c, 1>> /\ data[1].kind = "obj"
  BY ONLY <1>3, <1>4, <1>5, <1>6, <1>16
<1>17. ASSUME c \in Block
       PROVE  Fit(c)'
  <2>1. heap'[c] # Dead
    BY ONLY <1>16, <1>17 DEF Dead
  <2>2. Leads(heap'[c]) = "obj"
    BY ONLY <1>16, <1>17 DEF Leads, Kind
  <2>3. \A i \in DOMAIN Fields(heap'[c]) : Fields(heap'[c])[i] = n + 1
    BY ONLY <1>16, <1>17
  <2>4. n + 1 \in Block' /\ heap'[n + 1].kind = Leads(heap'[c])
    BY ONLY <1>9, <1>16, <1>17, <2>2
  <2>5. heap'[c].kind = "req"
    BY ONLY <1>16, <1>17
  <2>. QED
    BY ONLY <1>1, <2>1, <2>3, <2>4, <2>5, FitIdle
<1>18. Puts(c, {}, own)
  <2>1. \A d \in Block : d \in app' <=> d \in app /\ d \notin {}
    BY ONLY <1>5, <1>9
  <2>2. \A d \in Block : d # c => heap'[d] = heap[d]
    BY ONLY <1>5, <1>6
  <2>3. \A t \in Fresh : t \in app' => own[t] = ByCaller
    BY ONLY <1>2, <1>5 DEF Fresh
  <2>4. \A d \in Fresh : \A i \in DOMAIN Fields(heap'[d]) : Fields(heap'[d])[i] \in Block' =>
           Fields(heap'[d])[i] \in {} \cup Fresh /\ own[Fields(heap'[d])[i]] = <<d, i>>
    BY ONLY <1>11, <1>11a, <1>14
  <2>5. c \in Block =>
          /\ c \in Now /\ heap'[c].kind = heap[c].kind
          /\ \A i \in DOMAIN Fields(heap[c]) : Fields(heap[c])[i] \in Block =>
                 i \in DOMAIN Fields(heap'[c]) /\ Fields(heap'[c])[i] = Fields(heap[c])[i]
          /\ \A i \in DOMAIN Fields(heap'[c]) : Fields(heap'[c])[i] \in Block' =>
                 \/ i \in DOMAIN Fields(heap[c]) /\ Fields(heap'[c])[i] = Fields(heap[c])[i]
                 \/ /\ Fields(heap'[c])[i] \in {} \cup Fresh
                    /\ own[Fields(heap'[c])[i]] = <<c, i>>
    <3>1. ASSUME c \in Block
          PROVE  /\ \A i \in DOMAIN Fields(heap[c]) : Fields(heap[c])[i] \notin Block
                 /\ \A i \in DOMAIN Fields(heap'[c]) : i = 1 /\ Fields(heap'[c])[i] = n + 1
      <4>1. Fields(heap[c]) = <<NULL>> /\ Fields(heap'[c]) = <<n + 1>>
        BY ONLY <1>16, <3>1
      <4>. QED
        BY ONLY <1>3, <4>1
    <3>. QED
      BY ONLY <1>9, <1>16, <3>1
  <2>. QED
    BY ONLY <1>1, <1>6, <1>10a, <1>13, <1>15, <1>17, <2>1, <2>2, <2>3, <2>4, <2>5 DEF Puts
<1>. QED
  BY ONLY <1>18, IInv, Put

LEMMA PlantedOne ==
    ASSUME IInv, calls = << >>, calls' = calls, wild' = wild,
           NEW a \in Content, a # Dead, a # Frame, a.kind = "kv" => a.key # Dead, a.kind # "array",
           \A i \in DOMAIN Fields(a) : Fields(a)[i] = NULL,
           heap' = heap \o <<a>>, app' = app \cup {Len(heap) + 1}
    PROVE  IInv'
<1> DEFINE n == Len(heap)
           data == <<a>>
           own == [t \in {n + 1} |-> ByCaller]
<1>1. data \in Seq(Content) /\ data # << >> /\ Len(data) = 1 /\ data[1] = a
  OBVIOUS
<1>2. own[n + 1] = ByCaller
  OBVIOUS
<1>. HIDE DEF own
<1>3. Tree(data, own)
  <2>1. \A k \in 1 .. Len(data) : k = 1 /\ data[k] = a
    BY ONLY <1>1
  <2>. HIDE DEF data
  <2>. QED
    BY <2>1 DEF Tree
<1>. HIDE DEF data
<1>4. heap' = heap \o data
  BY DEF data
<1>5. Plants(NULL, data, own)
  BY ONLY <1>1, <1>2, <1>3, <1>4, calls = << >>, calls' = calls, wild' = wild, a # Frame,
          app' = app \cup {Len(heap) + 1} DEF Plants
<1>. QED
  BY ONLY <1>5, IInv, Planted

LEMMA PlantedTwo ==
    ASSUME IInv, calls = << >>, calls' = calls, wild' = wild,
           NEW a \in Content, a.kind \in {"obj", "array"}, a.kind = "obj" => a.type \in DOMAIN ViaKind,
           Fields(a) = <<Len(heap) + 2>>,
           NEW b \in Content, b.kind = Leads(a), b.kind \in {"str", "slots"},
           \A i \in DOMAIN Fields(b) : Fields(b)[i] = Garbage /\ b.kind = "slots",
           heap' = heap \o <<a, b>>, app' = app \cup {Len(heap) + 1}
    PROVE  IInv'
<1> DEFINE n == Len(heap)
           data == <<a, b>>
           own == [t \in {n + 1, n + 2} |-> IF t = n + 1 THEN ByCaller ELSE <<n + 1, 1>>]
<1>0. n \in Nat
  BY Parts, Here
<1>1. data \in Seq(Content) /\ data # << >> /\ Len(data) = 2 /\ data[1] = a /\ data[2] = b
  OBVIOUS
<1>2. own[n + 1] = ByCaller /\ own[n + 2] = <<n + 1, 1>>
  BY <1>0
<1>. HIDE DEF own
<1>3. Tree(data, own)
  <2>1. /\ \A k \in 1 .. Len(data) : k = 1 \/ k = 2
        /\ 1 \in 1 .. Len(data) /\ 2 \in 1 .. Len(data) /\ 1 \in 1 .. 2 - 1
    BY ONLY <1>1
  <2>2. data[1] = a /\ data[2] = b
    BY ONLY <1>1
  <2>. HIDE DEF data
  <2>3. 1 \in DOMAIN Fields(a) /\ Fields(a)[1] = n + 2 /\ \A i \in DOMAIN Fields(a) : i = 1 /\ Fields(a)[i] = n + 2
    BY ONLY Fields(a) = <<Len(heap) + 2>>
  <2>4. a # Dead /\ b # Dead /\ a.kind # "kv" /\ b.kind # "kv"
    BY DEF Dead
  <2>5. /\ \A i \in DOMAIN Fields(a) :
              /\ a.kind \in {"obj", "map", "table", "kv", "array", "slots", "req"}
              /\ a.kind = "obj" => a.type \in DOMAIN ViaKind
              /\ own[Fields(a)[i]] = <<n + 1, i>>
              /\ Fields(a)[i] = n + 2 /\ 2 # 1 /\ data[2].kind = Leads(a)
    BY <1>2, <2>2, <2>3
  <2>6. \A k \in 1 .. Len(data) :
          /\ data[k] # Dead
          /\ data[k].kind = "kv" => data[k].key # Dead
          /\ \A i \in DOMAIN Fields(data[k]) :
                  \/ Fields(data[k])[i] = NULL /\ data[k].kind # "array"
                  \/ Fields(data[k])[i] = Garbage /\ data[k].kind = "slots"
                  \/ /\ data[k].kind \in {"obj", "map", "table", "kv", "array", "slots", "req"}
                     /\ data[k].kind = "obj" => data[k].type \in DOMAIN ViaKind
                     /\ own[Fields(data[k])[i]] = <<Len(heap) + k, i>>
                     /\ \E l \in 1 .. Len(data) :
                           Fields(data[k])[i] = Len(heap) + l /\ l # 1 /\ data[l].kind = Leads(data[k])
    <3> SUFFICES ASSUME NEW k \in 1 .. Len(data), NEW i \in DOMAIN Fields(data[k])
                 PROVE  \/ Fields(data[k])[i] = NULL /\ data[k].kind # "array"
                        \/ Fields(data[k])[i] = Garbage /\ data[k].kind = "slots"
                        \/ /\ data[k].kind \in {"obj", "map", "table", "kv", "array", "slots", "req"}
                           /\ data[k].kind = "obj" => data[k].type \in DOMAIN ViaKind
                           /\ own[Fields(data[k])[i]] = <<Len(heap) + k, i>>
                           /\ \E l \in 1 .. Len(data) :
                                 Fields(data[k])[i] = Len(heap) + l /\ l # 1 /\ data[l].kind = Leads(data[k])
      BY <2>1, <2>2, <2>4
    <3>1. CASE k = 1
      <4>1. i \in DOMAIN Fields(a) /\ data[k] = a /\ Len(heap) + k = n + 1
        BY ONLY <2>2, <3>1, i \in DOMAIN Fields(data[k])
      <4>. QED
        BY ONLY <2>1, <2>5, <4>1
    <3>2. CASE k = 2
      <4>1. i \in DOMAIN Fields(b) /\ data[k] = b
        BY ONLY <2>2, <3>2, i \in DOMAIN Fields(data[k])
      <4>. QED
        BY ONLY <4>1, \A j \in DOMAIN Fields(b) : Fields(b)[j] = Garbage /\ b.kind = "slots"
    <3>. QED
      BY ONLY <2>1, <3>1, <3>2
  <2>7. \A l \in 1 .. Len(data) : l # 1 =>
          \E k \in 1 .. l - 1 : \E i \in DOMAIN Fields(data[k]) : Fields(data[k])[i] = Len(heap) + l
    BY ONLY <2>1, <2>2, <2>3
  <2>. QED
    BY ONLY <2>6, <2>7 DEF Tree
<1>. HIDE DEF data
<1>4. heap' = heap \o data
  BY DEF data
<1>5. a # Frame
  BY DEF Frame
<1>6. Plants(NULL, data, own)
  BY ONLY <1>1, <1>2, <1>3, <1>4, <1>5, calls = << >>, calls' = calls, wild' = wild,
          app' = app \cup {Len(heap) + 1} DEF Plants
<1>. QED
  BY ONLY <1>6, IInv, Planted

-----------------------------------------------------------------------------
(* The steps of the caller *)

LEMMA NewStep ==
    ASSUME IInv, calls = << >>,
           NewObject \/ NewString \/ NewMap \/ NewArray \/ NewKV \/ NewRequest
    PROVE  IInv'
<1> DEFINE n == Len(heap)
<1>1. n \in Nat /\ NULL \in Int /\ Garbage \in Int
  BY Parts, Here DEF NULL, Garbage
<1>2. ASSUME NEW a \in Content, a # Dead, a # Frame, a.kind = "kv" => a.key # Dead, a.kind # "array",
             \A i \in DOMAIN Fields(a) : Fields(a)[i] = NULL, Alloc(<<a>>), Hold
      PROVE  IInv'
  <2>1. calls' = calls /\ wild' = wild /\ heap' = heap \o <<a>> /\ app' = app \cup {Len(heap) + 1}
    BY ONLY <1>2 DEF Alloc, Hold, Next1st
  <2>. QED
    BY ONLY <1>2, <2>1, IInv, calls = << >>, PlantedOne
<1>3. ASSUME NEW a \in Content, a.kind \in {"obj", "array"}, a.kind = "obj" => a.type \in DOMAIN ViaKind,
             Fields(a) = <<n + 2>>, NEW b \in Content, b.kind = Leads(a), b.kind \in {"str", "slots"},
             \A i \in DOMAIN Fields(b) : Fields(b)[i] = Garbage /\ b.kind = "slots",
             Alloc(<<a, b>>), Hold
      PROVE  IInv'
  <2>1. calls' = calls /\ wild' = wild /\ heap' = heap \o <<a, b>> /\ app' = app \cup {Len(heap) + 1}
    BY ONLY <1>3 DEF Alloc, Hold, Next1st
  <2>. QED
    BY ONLY <1>3, <2>1, IInv, calls = << >>, PlantedTwo DEF n
<1>4. Next1st + 1 = n + 2
  BY ONLY <1>1 DEF Next1st
<1>. HIDE DEF n
<1>5. CASE NewObject
  <2>1. PICK type \in {"INTEGER", "MAP"} : Alloc(<<Obj(type, NULL)>>)
    BY ONLY <1>5 DEF NewObject
  <2>2. Hold
    BY ONLY <1>5 DEF NewObject
  <2> DEFINE a == Obj(type, NULL)
  <2>3. a \in Objs /\ a.kind = "obj" /\ a.via = NULL
    BY ONLY <1>1 DEF Obj, Objs, Types
  <2>. HIDE DEF a
  <2>4. a \in Content
    BY ONLY <2>3 DEF Content
  <2>5. Fields(a) = <<NULL>>
    BY ONLY <2>3, <2>4, FieldsOf
  <2>6. /\ a # Dead /\ a # Frame /\ a.kind # "kv" /\ a.kind # "array"
        /\ \A i \in DOMAIN Fields(a) : Fields(a)[i] = NULL
    BY ONLY <2>3, <2>5 DEF Dead, Frame
  <2>7. Alloc(<<a>>)
    BY ONLY <2>1 DEF a
  <2>. QED
    BY ONLY <1>2, <2>2, <2>4, <2>6, <2>7
<1>6. CASE NewString
  <2> DEFINE a == Obj("STR", n + 2)
  <2>1. Alloc(<<a, Str>>) /\ Hold
    BY ONLY <1>4, <1>6 DEF NewString
  <2>2. a \in Objs /\ a.kind = "obj" /\ a.via = n + 2 /\ a.type = "STR"
    BY ONLY <1>1 DEF Obj, Objs, Types
  <2>. HIDE DEF a
  <2>3. a \in Content /\ Str \in Content /\ Str.kind = "str"
    BY ONLY <2>2 DEF Content, Str
  <2>4. Fields(a) = <<n + 2>> /\ Fields(Str) = << >>
    BY ONLY <2>2, <2>3, FieldsOf
  <2>5. a.type \in DOMAIN ViaKind /\ Leads(a) = "str"
    BY ONLY <2>2 DEF ViaKind, Leads
  <2>6. \A i \in DOMAIN Fields(Str) : FALSE
    BY ONLY <2>4
  <2>. QED
    BY ONLY <1>3, <2>1, <2>2, <2>3, <2>4, <2>5, <2>6
<1>7. CASE NewMap
  <2> DEFINE a == Map(NULL)
  <2>1. Alloc(<<a>>) /\ Hold
    BY ONLY <1>7 DEF NewMap
  <2>2. a \in Maps /\ a.kind = "map" /\ a.table = NULL
    BY ONLY <1>1 DEF Map, Maps
  <2>. HIDE DEF a
  <2>3. a \in Content
    BY ONLY <2>2 DEF Content
  <2>4. Fields(a) = <<NULL>>
    BY ONLY <2>2, <2>3, FieldsOf
  <2>5. /\ a # Dead /\ a # Frame /\ a.kind # "kv" /\ a.kind # "array"
        /\ \A i \in DOMAIN Fields(a) : Fields(a)[i] = NULL
    BY ONLY <2>2, <2>4 DEF Dead, Frame
  <2>. QED
    BY ONLY <1>2, <2>1, <2>3, <2>5
<1>8. CASE NewArray
  <2>1. PICK size \in 0 .. MaxSize : Alloc(<<[kind |-> "array", ptr |-> Next1st + 1],
                                            [kind |-> "slots", at |-> [i \in 1 .. size |-> Garbage]]>>)
    BY ONLY <1>8 DEF NewArray
  <2>2. Hold
    BY ONLY <1>8 DEF NewArray
  <2> DEFINE a == [kind |-> "array", ptr |-> n + 2]
             at == [i \in 1 .. size |-> Garbage]
             b == [kind |-> "slots", at |-> at]
  <2>3. Alloc(<<a, b>>)
    BY ONLY <1>4, <2>1
  <2>4. at \in Seq(Int) /\ \A i \in DOMAIN at : at[i] = Garbage
    <3>1. size \in Nat
      BY ONLY BoundsAssumption, size \in 0 .. MaxSize
    <3>. QED
      BY ONLY <1>1, <3>1
  <2>. HIDE DEF at
  <2>5. a \in Arrays /\ a.kind = "array" /\ a.ptr = n + 2 /\ b \in Slots /\ b.kind = "slots" /\ b.at = at
    BY ONLY <1>1, <2>4 DEF Arrays, Slots
  <2>. HIDE DEF a, b
  <2>6. a \in Content /\ b \in Content
    BY ONLY <2>5 DEF Content
  <2>7. Fields(a) = <<n + 2>> /\ Fields(b) = at
    BY ONLY <2>5, <2>6, FieldsOf
  <2>8. Leads(a) = "slots" /\ a.kind # "obj"
    BY ONLY <2>5 DEF Leads, Kind
  <2>. QED
    BY ONLY <1>3, <2>2, <2>3, <2>4, <2>5, <2>6, <2>7, <2>8
<1>9. CASE NewKV
  <2> DEFINE a == KV(None, NULL)
  <2>1. Alloc(<<a>>) /\ Hold
    BY ONLY <1>9 DEF NewKV
  <2>2. a \in KVs /\ a.kind = "kv" /\ a.value = NULL /\ a.key = None
    BY ONLY <1>1 DEF KV, KVs
  <2>. HIDE DEF a
  <2>3. a \in Content
    BY ONLY <2>2 DEF Content
  <2>4. Fields(a) = <<NULL>>
    BY ONLY <2>2, <2>3, FieldsOf
  <2>5. /\ a # Dead /\ a # Frame /\ a.key # Dead /\ a.kind # "array"
        /\ \A i \in DOMAIN Fields(a) : Fields(a)[i] = NULL
    BY ONLY <2>2, <2>4 DEF Dead, Frame, None
  <2>. QED
    BY ONLY <1>2, <2>1, <2>3, <2>5
<1>10. CASE NewRequest
  <2> DEFINE a == [kind |-> "req", cmd |-> None, data |-> NULL]
  <2>1. Alloc(<<a>>) /\ Hold
    BY ONLY <1>10 DEF NewRequest
  <2>2. a \in Reqs /\ a.kind = "req" /\ a.data = NULL
    BY ONLY <1>1 DEF Reqs
  <2>. HIDE DEF a
  <2>3. a \in Content
    BY ONLY <2>2 DEF Content
  <2>4. Fields(a) = <<NULL>>
    BY ONLY <2>2, <2>3, FieldsOf
  <2>5. /\ a # Dead /\ a # Frame /\ a.kind # "kv" /\ a.kind # "array"
        /\ \A i \in DOMAIN Fields(a) : Fields(a)[i] = NULL
    BY ONLY <2>2, <2>4 DEF Dead, Frame
  <2>. QED
    BY ONLY <1>2, <2>1, <2>3, <2>5
<1>. QED
  BY <1>5, <1>6, <1>7, <1>8, <1>9, <1>10

LEMMA Replaced ==
    ASSUME TypeOK, NEW c \in Block, NEW b \in Content, heap' = [heap EXCEPT ![c] = b]
    PROVE  /\ heap' \in Seq(Content) /\ Block' = Block /\ Len(heap') = Len(heap)
           /\ heap'[c] = b /\ \A d \in Block : d # c => heap'[d] = heap[d]
<1>1. heap \in Seq(Content)
  BY DEF TypeOK
<1>2. Len(heap) \in Nat /\ DOMAIN heap = 1 .. Len(heap) /\ \A d \in 1 .. Len(heap) : heap[d] \in Content
  BY ONLY <1>1
<1>3. c \in 1 .. Len(heap) /\ Block = 1 .. Len(heap)
  BY ONLY <1>2, c \in Block DEF Block
<1>4. heap' \in [1 .. Len(heap) -> Content]
  BY ONLY <1>2, b \in Content, heap' = [heap EXCEPT ![c] = b]
<1>5. heap' \in Seq(Content) /\ Len(heap') = Len(heap) /\ DOMAIN heap' = 1 .. Len(heap)
  BY ONLY <1>2, <1>4
<1>6. heap'[c] = b /\ \A d \in Block : d # c => heap'[d] = heap[d]
  BY ONLY <1>2, <1>3, heap' = [heap EXCEPT ![c] = b]
<1>7. Block' = Block
  BY ONLY <1>3, <1>5 DEF Block
<1>. QED
  BY ONLY <1>5, <1>6, <1>7

\* One field is set, to NULL or to what the caller gives.
Sets(c, b, given) ==
    \/ given = {} /\ Fields(b) = Fields(heap[c])
    \/ \E i \in DOMAIN Fields(heap[c]), t \in Held("obj") \cup {NULL} :
          /\ given = {t} \cap Block /\ Fields(heap[c])[i] \notin Block
          /\ Fields(b) = [Fields(heap[c]) EXCEPT ![i] = t]

LEMMA Changed ==
    ASSUME IInv, calls = << >>, calls' = calls, wild' = wild,
           NEW c \in Now, NEW b \in Content, b.kind = heap[c].kind, b.kind \in {"kv", "req", "slots"},
           b.kind = "kv" => b.key # Dead, heap' = [heap EXCEPT ![c] = b],
           NEW given, app' = app \ given, c \in After, Sets(c, b, given)
    PROVE  IInv'
<1>1. TypeOK /\ app \subseteq Block /\ \A d \in Now : Fit(d)
  BY Parts DEF TypeOK
<1>2. Now \subseteq Block /\ NULL \notin Block /\ Garbage \notin Block
  BY ONLY <1>1, NowIs, Here
<1>3. /\ heap' \in Seq(Content) /\ Block' = Block
      /\ heap'[c] = b /\ \A d \in Block : d # c => heap'[d] = heap[d]
  BY ONLY <1>1, <1>2, Replaced, c \in Now, b \in Content, heap' = [heap EXCEPT ![c] = b]
<1>4. Roots = app /\ \A d : Pointers(d) = Fields(heap[d])
  BY ONLY RootsIdle, calls = << >>
<1>5. calls' = << >> /\ Fresh = {} /\ app' \subseteq Block'
  BY ONLY <1>1, <1>3, calls = << >>, calls' = calls, app' = app \ given DEF Fresh
<1>6. ASSUME NEW i, NEW t,
             given = {} \/ (given = {t} /\ t \in Held("obj")),
             \A j \in DOMAIN Fields(heap[c]) : Fields(heap[c])[j] \in Block =>
                 j \in DOMAIN Fields(b) /\ Fields(b)[j] = Fields(heap[c])[j],
             \A j \in DOMAIN Fields(b) :
                 \/ j \in DOMAIN Fields(heap[c]) /\ Fields(b)[j] = Fields(heap[c])[j]
                 \/ j = i /\ Fields(b)[j] = t /\ (t = NULL \/ t \in given),
             given # {} => i \in DOMAIN Fields(b) /\ Fields(b)[i] = t
      PROVE  IInv'
  <2> DEFINE own == [x \in given |-> <<c, i>>]
  <2>1. \A x \in given : own[x] = <<c, i>> /\ x = t /\ heap[x].kind = "obj" /\ x \in Block /\ x \in app
    BY ONLY <1>6 DEF Held, OfKind
  <2>. HIDE DEF own
  <2>2. \A x \in given : x # c /\ heap'[x].kind = "obj"
    BY ONLY <1>3, <2>1, b.kind = heap[c].kind, b.kind \in {"kv", "req", "slots"}
  <2>3. given \cup Fresh \subseteq After
    <3>1. \A x \in given : i \in DOMAIN Fields(heap'[c]) /\ Fields(heap'[c])[i] = x /\ x \in Block'
      BY ONLY <1>3, <1>6, <2>1
    <3>2. \A j \in DOMAIN Fields(heap'[c]) : Fields(heap'[c])[j] \in Block' => Fields(heap'[c])[j] \in After
      BY ONLY <1>3, <1>5, Arrives, c \in After
    <3>. QED
      BY ONLY <1>5, <3>1, <3>2
  <2>4. Fit(c)'
    <3>1. heap'[c] # Dead /\ (heap'[c].kind = "kv" => heap'[c].key # Dead) /\ heap'[c].kind # "obj"
      BY ONLY <1>3, b.kind \in {"kv", "req", "slots"}, b.kind = "kv" => b.key # Dead DEF Dead
    <3>2. \A x \in Block : heap'[x].kind = heap[x].kind
      BY ONLY <1>3, b.kind = heap[c].kind
    <3>3. Leads(heap'[c]) = Kind[b.kind] /\ Leads(heap[c]) = Kind[b.kind] /\ Kind[b.kind] = "obj"
      BY ONLY <1>3, b.kind = heap[c].kind, b.kind \in {"kv", "req", "slots"} DEF Leads, Kind
    <3>4. ASSUME NEW j \in DOMAIN Fields(heap'[c])
          PROVE  \/ Fields(heap'[c])[j] = NULL /\ heap'[c].kind # "array"
                 \/ Fields(heap'[c])[j] = Garbage /\ heap'[c].kind = "slots"
                 \/ /\ Fields(heap'[c])[j] \in Block'
                    /\ heap'[c].kind \in {"obj", "map", "table", "kv", "array", "slots", "req"}
                    /\ heap'[Fields(heap'[c])[j]].kind = Leads(heap'[c])
      <4> DEFINE v == Fields(b)[j]
      <4>1. j \in DOMAIN Fields(b) /\ Fields(heap'[c])[j] = v /\ heap'[c] = b
        BY ONLY <1>3, <3>4
      <4>2. CASE j \in DOMAIN Fields(heap[c]) /\ v = Fields(heap[c])[j]
        <5>1. Sound(heap[c], v)
          BY ONLY <1>1, <1>4, <4>2, c \in Now DEF Fit
        <5>. HIDE DEF v
        <5>. QED
          BY ONLY <1>3, <3>2, <3>3, <4>1, <5>1, b.kind = heap[c].kind, b.kind \in {"kv", "req", "slots"} DEF Sound
      <4>3. CASE v = t /\ t = NULL
        BY ONLY <4>1, <4>3, b.kind \in {"kv", "req", "slots"}
      <4>4. CASE v = t /\ t \in given
        <5>1. v \in Block' /\ heap'[v].kind = "obj"
          BY ONLY <1>3, <2>1, <2>2, <4>4
        <5>. HIDE DEF v
        <5>. QED
          BY ONLY <3>3, <4>1, <5>1, b.kind \in {"kv", "req", "slots"}
      <4>. QED
        BY ONLY <1>6, <4>1, <4>2, <4>3, <4>4
    <3>. QED
      BY ONLY <1>5, <3>1, <3>4, FitIdle
  <2>5. Puts(c, given, own)
    <3>1. \A d \in Block : d \in app' <=> d \in app /\ d \notin given
      BY ONLY app' = app \ given
    <3>2. given \subseteq app /\ Block \subseteq Block'
      BY ONLY <1>3, <2>1
    <3>3. /\ c \in Now /\ heap'[c].kind = heap[c].kind
          /\ \A j \in DOMAIN Fields(heap[c]) : Fields(heap[c])[j] \in Block =>
                 j \in DOMAIN Fields(heap'[c]) /\ Fields(heap'[c])[j] = Fields(heap[c])[j]
          /\ \A j \in DOMAIN Fields(heap'[c]) : Fields(heap'[c])[j] \in Block' =>
                 \/ j \in DOMAIN Fields(heap[c]) /\ Fields(heap'[c])[j] = Fields(heap[c])[j]
                 \/ Fields(heap'[c])[j] \in given \cup Fresh /\ own[Fields(heap'[c])[j]] = <<c, j>>
      BY ONLY <1>2, <1>3, <1>6, <2>1, c \in Now, b.kind = heap[c].kind
    <3>. QED
      BY ONLY <1>3, <1>5, <2>3, <2>4, <3>1, <3>2, <3>3, calls = << >>, wild' = wild DEF Puts
  <2>. QED
    BY ONLY <2>5, IInv, Put
<1>7. CASE given = {} /\ Fields(b) = Fields(heap[c])
  <2>1. given = {} \/ (given = {NULL} /\ NULL \in Held("obj"))
    BY ONLY <1>7
  <2>. QED
    BY ONLY <1>6, <1>7, <2>1
<1>8. ASSUME NEW i \in DOMAIN Fields(heap[c]), NEW t \in Held("obj") \cup {NULL},
             given = {t} \cap Block, Fields(heap[c])[i] \notin Block,
             Fields(b) = [Fields(heap[c]) EXCEPT ![i] = t]
      PROVE  IInv'
  <2>1. (t = NULL /\ given = {}) \/ (t \in Held("obj") /\ given = {t})
    BY ONLY <1>1, <1>2, <1>8 DEF Held
  <2>2. /\ DOMAIN Fields(b) = DOMAIN Fields(heap[c]) /\ Fields(b)[i] = t
        /\ \A j \in DOMAIN Fields(b) : j # i => Fields(b)[j] = Fields(heap[c])[j]
    BY ONLY <1>8
  <2>3. given = {} \/ (given = {t} /\ t \in Held("obj"))
    BY ONLY <2>1
  <2>4. \A j \in DOMAIN Fields(heap[c]) : Fields(heap[c])[j] \in Block =>
            j \in DOMAIN Fields(b) /\ Fields(b)[j] = Fields(heap[c])[j]
    BY ONLY <1>8, <2>2
  <2>5. \A j \in DOMAIN Fields(b) :
            \/ j \in DOMAIN Fields(heap[c]) /\ Fields(b)[j] = Fields(heap[c])[j]
            \/ j = i /\ Fields(b)[j] = t /\ (t = NULL \/ t \in given)
    BY ONLY <2>1, <2>2
  <2>6. given # {} => i \in DOMAIN Fields(b) /\ Fields(b)[i] = t
    BY ONLY <1>8, <2>2
  <2>. QED
    BY ONLY <1>6, <2>3, <2>4, <2>5, <2>6
<1>. QED
  BY <1>7, <1>8 DEF Sets

LEMMA Stutter ==
    ASSUME IInv, UNCHANGED vars
    PROVE  IInv'
<1>1. heap' = heap /\ wild' = wild /\ app' = app /\ calls' = calls
  BY DEF vars
<1>2. Block' = Block /\ Called' = Called /\ Roots' = Roots
  BY <1>1 DEF Block, Called, Roots
<1>3. \A c : Pointers(c)' = Pointers(c)
  BY <1>1 DEF Pointers, Entered
<1>4. Edges' = Edges
  BY <1>2, <1>3 DEF Edges
<1>5. \A r : Spread(Edges', Len(heap'), r) = Spread(Edges, Len(heap), r)
  BY ONLY <1>1, <1>4
<1>6. Reach(Roots)' = Reach(Roots) /\ Reach(Called)' = Reach(Called)
  BY <1>2, <1>5 DEF Reach
<1>7. TypeOK' /\ wild' = FALSE
  BY <1>1, <1>2 DEF TypeOK, IInv
<1>8. \A c \in Reach(Roots) : Fit(c)'
  BY <1>1, <1>2, <1>3 DEF Fit, Sound, IInv
<1>9. Single' /\ Rooted'
  BY <1>2, <1>3, <1>6 DEF Single, Rooted, IInv
<1>10. Pending'
  BY <1>1, <1>2 DEF Pending, IInv
<1>11. Settled'
  BY <1>3, <1>6 DEF Settled, IInv
<1>12. KnownLeaks'
  BY <1>1, <1>2, <1>6 DEF KnownLeaks, IInv
<1>. QED
  BY <1>6, <1>7, <1>8, <1>9, <1>10, <1>11, <1>12 DEF IInv

\* What the caller holds.
LEMMA HeldIs ==
    ASSUME IInv, calls = << >>, NEW k, NEW c \in Held(k)
    PROVE  /\ c \in Block /\ c \in app /\ c \in Now /\ heap[c].kind = k /\ heap[c] \in Content
           /\ \A i \in DOMAIN Fields(heap[c]) :
                 /\ Sound(heap[c], Fields(heap[c])[i])
                 /\ Fields(heap[c])[i] \in Block => Fields(heap[c])[i] \in Now /\ Fields(heap[c])[i] \notin app
<1>1. TypeOK /\ app \subseteq Block /\ \A d \in Now : Fit(d)
  BY Parts DEF TypeOK
<1>2. /\ \A d \in Block : d \in Roots => d \in Now
      /\ \A d \in Now : \A t : To(d, t) => t \in Now
      /\ \A d \in Block : heap[d] \in Content
  BY ONLY <1>1, NowIs, Here
<1>3. Roots = app /\ \A d : Pointers(d) = Fields(heap[d])
  BY ONLY RootsIdle, calls = << >>
<1>4. c \in Block /\ c \in app /\ heap[c].kind = k
  BY DEF Held, OfKind
<1>5. c \in Now
  BY ONLY <1>2, <1>3, <1>4
<1>6. ASSUME NEW i \in DOMAIN Fields(heap[c])
      PROVE  /\ Sound(heap[c], Fields(heap[c])[i])
             /\ Fields(heap[c])[i] \in Block => Fields(heap[c])[i] \in Now /\ Fields(heap[c])[i] \notin app
  <2>1. Sound(heap[c], Fields(heap[c])[i])
    BY ONLY <1>1, <1>3, <1>5, <1>6 DEF Fit
  <2>2. Fields(heap[c])[i] \in Block => To(c, Fields(heap[c])[i])
    BY ONLY <1>3, <1>6 DEF To
  <2>3. Fields(heap[c])[i] \in Block => Fields(heap[c])[i] \notin Roots
    <3>1. \A p \in Now : \A j \in DOMAIN Pointers(p) : Pointers(p)[j] \in Block => Pointers(p)[j] \notin Roots
      BY IInv, Parts
    <3>. QED
      BY ONLY <1>3, <1>5, <1>6, <3>1
  <2>. QED
    BY ONLY <1>2, <1>3, <1>5, <2>1, <2>2, <2>3
<1>. QED
  BY ONLY <1>2, <1>4, <1>5, <1>6

Kept == {"give", "fill", "once", "dup"} \subseteq Rules

LEMMA GivenIs ==
    ASSUME Kept, TypeOK, NEW obj
    PROVE  Given(obj) = app \ ({obj} \cap Block)
  BY DEF Kept, TypeOK, Given

LEMMA SetStep ==
    ASSUME IInv, Kept, calls = << >>,
           KVSetKey \/ KVSetValue \/ RequestSetCommand \/ RequestSetData
    PROVE  IInv'
<1>1. TypeOK /\ app \subseteq Block /\ NULL \in Int
  BY Parts DEF TypeOK, NULL
<1>0. \A d \in Block : d \in Int
  BY ONLY <1>1, Here
<1>2. ASSUME NEW k \in {"kv", "req"}, NEW c \in Held(k), NEW b \in Content, b.kind = k,
             k = "kv" => b.key # Dead, heap' = [heap EXCEPT ![c] = b], wild' = wild, calls' = calls,
             NEW given, app' = app \ given, c \notin given, Sets(c, b, given)
      PROVE  IInv'
  <2>1. c \in Block /\ c \in app /\ c \in Now /\ heap[c].kind = k
    BY ONLY IInv, calls = << >>, HeldIs, c \in Held(k)
  <2>2. heap' \in Seq(Content) /\ Block' = Block
    BY ONLY <1>1, <1>2, <2>1, Replaced
  <2>3. calls' = << >> /\ app' \subseteq Block' /\ c \in app'
    BY ONLY <1>1, <1>2, <2>1, <2>2, calls = << >>
  <2>4. c \in After
    BY ONLY <2>2, <2>3, Arrives
  <2>5. b.kind = heap[c].kind /\ b.kind \in {"kv", "req", "slots"} /\ (b.kind = "kv" => b.key # Dead)
    BY ONLY <1>2, <2>1
  <2>. QED
    BY ONLY <1>2, <2>1, <2>4, <2>5, IInv, calls = << >>, Changed
<1>3. CASE KVSetKey
  <2>1. PICK kv \in Held("kv") : heap' = [heap EXCEPT ![kv].key = Str] /\ UNCHANGED <<wild, app, calls>>
    BY ONLY <1>3 DEF KVSetKey
  <2>2. kv \in Block /\ heap[kv].kind = "kv" /\ heap[kv] \in Content
    BY ONLY IInv, calls = << >>, HeldIs, kv \in Held("kv")
  <2>3. heap[kv] \in KVs /\ Fields(heap[kv]) = <<heap[kv].value>>
    BY ONLY <2>2, FieldsOf
  <2> DEFINE b == [heap[kv] EXCEPT !.key = Str]
  <2>4. b \in KVs /\ b.kind = "kv" /\ b.key # Dead /\ b.value = heap[kv].value
    BY ONLY <2>2, <2>3 DEF KVs, Str, Dead
  <2>5. heap' = [heap EXCEPT ![kv] = b]
    BY ONLY <2>1
  <2>. HIDE DEF b
  <2>6. b \in Content
    BY ONLY <2>4 DEF Content
  <2>7. Fields(b) = Fields(heap[kv])
    BY ONLY <2>3, <2>4, <2>6, FieldsOf
  <2>8. Sets(kv, b, {})
    BY ONLY <2>7 DEF Sets
  <2>9. app' = app \ {} /\ wild' = wild /\ calls' = calls
    BY ONLY <2>1
  <2>. QED
    BY ONLY <1>2, <2>4, <2>5, <2>6, <2>8, <2>9
<1>4. CASE RequestSetCommand
  <2>1. PICK req \in Held("req") : heap' = [heap EXCEPT ![req].cmd = Str] /\ UNCHANGED <<wild, app, calls>>
    BY ONLY <1>4 DEF RequestSetCommand
  <2>2. req \in Block /\ heap[req].kind = "req" /\ heap[req] \in Content
    BY ONLY IInv, calls = << >>, HeldIs, req \in Held("req")
  <2>3. heap[req] \in Reqs /\ Fields(heap[req]) = <<heap[req].data>>
    BY ONLY <2>2, FieldsOf
  <2> DEFINE b == [heap[req] EXCEPT !.cmd = Str]
  <2>4. b \in Reqs /\ b.kind = "req" /\ b.data = heap[req].data
    BY ONLY <2>2, <2>3 DEF Reqs
  <2>5. heap' = [heap EXCEPT ![req] = b]
    BY ONLY <2>1
  <2>. HIDE DEF b
  <2>6. b \in Content
    BY ONLY <2>4 DEF Content
  <2>7. Fields(b) = Fields(heap[req])
    BY ONLY <2>3, <2>4, <2>6, FieldsOf
  <2>8. Sets(req, b, {})
    BY ONLY <2>7 DEF Sets
  <2>9. app' = app \ {} /\ wild' = wild /\ calls' = calls
    BY ONLY <2>1
  <2>. QED
    BY ONLY <1>2, <2>4, <2>5, <2>6, <2>8, <2>9
<1>5. ASSUME NEW c \in Block, NEW obj \in Held("obj"), heap[c].kind \in {"kv", "req"},
             Fields(heap[c]) = <<NULL>>, NEW b, Fields(b) = <<obj>>
      PROVE  Sets(c, b, {obj} \cap Block) /\ c \notin {obj} \cap Block
  <2>1. heap[obj].kind = "obj"
    BY ONLY obj \in Held("obj") DEF Held, OfKind
  <2>2. 1 \in DOMAIN Fields(heap[c]) /\ Fields(heap[c])[1] \notin Block
    BY ONLY <1>1, <1>5, Here
  <2>3. Fields(b) = [Fields(heap[c]) EXCEPT ![1] = obj]
    BY ONLY <1>5
  <2>. QED
    BY ONLY <1>5, <2>1, <2>2, <2>3 DEF Sets
<1>6. CASE KVSetValue
  <2>1. PICK kv \in Held("kv"), obj \in Held("obj") :
            /\ "once" \in Rules => heap[kv].value = NULL
            /\ heap' = [heap EXCEPT ![kv].value = obj]
            /\ app' = Given(obj)
            /\ UNCHANGED <<wild, calls>>
    BY ONLY <1>6 DEF KVSetValue
  <2>2. /\ kv \in Block /\ heap[kv].kind = "kv" /\ heap[kv] \in Content /\ kv \in Now
        /\ obj \in Block /\ obj \in Int
    BY ONLY <1>0, IInv, calls = << >>, HeldIs, kv \in Held("kv"), obj \in Held("obj")
  <2>3. heap[kv] \in KVs /\ Fields(heap[kv]) = <<NULL>> /\ heap[kv].key # Dead
    <3>1. heap[kv].value = NULL
      BY ONLY <2>1, Kept DEF Kept
    <3>2. heap[kv].key # Dead
      BY ONLY <2>2, IInv, Parts DEF Fit
    <3>. QED
      BY ONLY <2>2, <3>1, <3>2, FieldsOf
  <2> DEFINE b == [heap[kv] EXCEPT !.value = obj]
  <2>4. b \in KVs /\ b.kind = "kv" /\ b.key # Dead /\ b.value = obj
    BY ONLY <2>2, <2>3 DEF KVs
  <2>5. heap' = [heap EXCEPT ![kv] = b]
    BY ONLY <2>1
  <2>. HIDE DEF b
  <2>6. b \in Content
    BY ONLY <2>4 DEF Content
  <2>7. Fields(b) = <<obj>>
    BY ONLY <2>4, <2>6, FieldsOf
  <2>8. Sets(kv, b, {obj} \cap Block) /\ kv \notin {obj} \cap Block
    BY ONLY <1>5, <2>2, <2>3, <2>7, obj \in Held("obj")
  <2>9. app' = app \ ({obj} \cap Block) /\ wild' = wild /\ calls' = calls
    BY ONLY <1>1, <2>1, Kept, GivenIs
  <2>. QED
    BY ONLY <1>2, <2>4, <2>5, <2>6, <2>8, <2>9
<1>7. CASE RequestSetData
  <2>1. PICK req \in Held("req"), obj \in Held("obj") :
            /\ "once" \in Rules => heap[req].data = NULL
            /\ heap' = [heap EXCEPT ![req].data = obj]
            /\ app' = Given(obj)
            /\ UNCHANGED <<wild, calls>>
    BY ONLY <1>7 DEF RequestSetData
  <2>2. /\ req \in Block /\ heap[req].kind = "req" /\ heap[req] \in Content
        /\ obj \in Block /\ obj \in Int
    BY ONLY <1>0, IInv, calls = << >>, HeldIs, req \in Held("req"), obj \in Held("obj")
  <2>3. heap[req] \in Reqs /\ Fields(heap[req]) = <<NULL>>
    <3>1. heap[req].data = NULL
      BY ONLY <2>1, Kept DEF Kept
    <3>. QED
      BY ONLY <2>2, <3>1, FieldsOf
  <2> DEFINE b == [heap[req] EXCEPT !.data = obj]
  <2>4. b \in Reqs /\ b.kind = "req" /\ b.data = obj
    BY ONLY <2>2, <2>3 DEF Reqs
  <2>5. heap' = [heap EXCEPT ![req] = b]
    BY ONLY <2>1
  <2>. HIDE DEF b
  <2>6. b \in Content
    BY ONLY <2>4 DEF Content
  <2>7. Fields(b) = <<obj>>
    BY ONLY <2>4, <2>6, FieldsOf
  <2>8. Sets(req, b, {obj} \cap Block) /\ req \notin {obj} \cap Block
    BY ONLY <1>5, <2>2, <2>3, <2>7, obj \in Held("obj")
  <2>9. app' = app \ ({obj} \cap Block) /\ wild' = wild /\ calls' = calls
    BY ONLY <1>1, <2>1, Kept, GivenIs
  <2>. QED
    BY ONLY <1>2, <2>4, <2>5, <2>6, <2>8, <2>9
<1>. QED
  BY <1>3, <1>4, <1>6, <1>7

\* The bytes of a message, to which nobody has a pointer.
LEMMA FrameStep ==
    ASSUME IInv, calls = << >>, Refuse \/ Write
    PROVE  IInv'
<1>1. TypeOK /\ heap \in Seq(Content) /\ app \subseteq Block
  BY Parts DEF TypeOK
<1>2. heap' = heap \o <<Frame>> /\ wild' = wild /\ calls' = calls /\ app' = app
  BY DEF Refuse, Write, Forget, Alloc
<1>3. Len(heap) \in Nat /\ Block = 1 .. Len(heap) /\ NULL \notin Block
  BY ONLY <1>1, Here
<1> DEFINE none == << >>
<1>4. none \in Seq(Content) /\ Len(none) = 0 /\ heap \o none = heap
  BY ONLY <1>1
<1>. HIDE DEF none
<1>5. heap' = heap \o none \o <<Frame>> /\ \A k \in 1 .. Len(none) : none[k] # Frame
  BY ONLY <1>2, <1>4
<1>6. /\ heap' \in Seq(Content) /\ Block \subseteq Block'
      /\ \A d \in Block : heap'[d] = heap[d]
      /\ \A d \in Fresh : \E k \in 1 .. Len(none) : d = Len(heap) + k
  BY ONLY <1>1, <1>3, <1>4, <1>5, Appended, ZenonT(30)
<1>7. Fresh = {}
  BY ONLY <1>4, <1>6
<1>8. Puts(NULL, {}, none)
  BY ONLY <1>1, <1>2, <1>3, <1>6, <1>7, calls = << >> DEF Puts
<1>. QED
  BY ONLY <1>8, IInv, Put

\* A fresh block that takes what is given, for the caller or for the table of a map.
Takes(c, a, t) ==
    /\ calls = << >> /\ calls' = calls /\ wild' = wild
    /\ a \in Content /\ a.kind \in {"obj", "kv"}
    /\ a.kind = "kv" => a.key # Dead
    /\ Fields(a) = <<t>>
    /\ \/ t = NULL
       \/ /\ t \in app /\ t # c
          /\ a.kind = "obj" => a.type \in DOMAIN ViaKind
          /\ heap[t].kind = Leads(a)
    /\ \/ /\ c = NULL /\ heap' = heap \o <<a>> /\ app' = (app \ ({t} \cap Block)) \cup {Len(heap) + 1}
       \/ /\ c \in Now /\ heap[c].kind = "table" /\ app' = app \ ({t} \cap Block)
          /\ \E map \in app' : map \in Block /\ heap[map].kind = "map" /\ heap[map].table = c
          /\ heap' = [heap EXCEPT ![c] = Table(Append(heap[c].entries, Len(heap) + 1))] \o <<a>>
          /\ a.kind = "kv"

LEMMA Taken ==
    ASSUME IInv, NEW c, NEW a, NEW t, Takes(c, a, t)
    PROVE  IInv'
<1> DEFINE n == Len(heap)
           given == {t} \cap Block
           last == Len(heap[c].entries) + 1
           own == [x \in {n + 1} \cup given |->
                      IF x = n + 1 THEN IF c = NULL THEN ByCaller ELSE <<c, last>> ELSE <<n + 1, 1>>]
<1>1. /\ calls = << >> /\ calls' = << >> /\ wild' = wild
      /\ a \in Content /\ a.kind \in {"obj", "kv"} /\ (a.kind = "kv" => a.key # Dead)
      /\ Fields(a) = <<t>>
      /\ \/ t = NULL
         \/ /\ t \in app /\ t # c
            /\ a.kind = "obj" => a.type \in DOMAIN ViaKind
            /\ heap[t].kind = Leads(a)
  BY DEF Takes
<1>2. TypeOK /\ heap \in Seq(Content) /\ app \subseteq Block
  BY Parts DEF TypeOK
<1>3. n \in Nat /\ Block = 1 .. n /\ NULL \notin Block /\ \A d \in Block : heap[d] \in Content
  BY ONLY <1>2, Here
<1>4. n + 1 \notin Block /\ given \subseteq app /\ given \subseteq Block
  BY ONLY <1>1, <1>2, <1>3
<1>5. /\ own[n + 1] = IF c = NULL THEN ByCaller ELSE <<c, last>>
      /\ \A x \in given : own[x] = <<n + 1, 1>>
  BY ONLY <1>3, <1>4
<1>. HIDE DEF own
\* The blocks before the one added.
<1>6. PICK H \in Seq(Content) :
          /\ heap' = H \o <<a>> \o << >> /\ Len(H) = n
          /\ \A d \in Block : d # c => H[d] = heap[d]
          /\ \/ c = NULL /\ app' = (app \ given) \cup {n + 1}
             \/ /\ c \in Block /\ c \in Now /\ app' = app \ given /\ a.kind = "kv"
                /\ heap[c].kind = "table" /\ H[c].kind = "table"
                /\ \E map \in app' : map \in Block /\ Fields(H[map]) = <<c>>
                /\ \A i \in DOMAIN Fields(heap[c]) : Sound(heap[c], Fields(heap[c])[i])
                /\ \A i \in DOMAIN Fields(heap[c]) :
                       i \in DOMAIN Fields(H[c]) /\ Fields(H[c])[i] = Fields(heap[c])[i]
                /\ last \in DOMAIN Fields(H[c]) /\ Fields(H[c])[last] = n + 1
                /\ \A i \in DOMAIN Fields(H[c]) : i = last \/ i \in DOMAIN Fields(heap[c])
  <2>1. CASE c = NULL /\ heap' = heap \o <<a>> /\ app' = (app \ given) \cup {n + 1}
    <3>1. heap \o <<a>> = heap \o <<a>> \o << >>
      BY ONLY <1>1, <1>2
    <3>2. heap' = heap \o <<a>> \o << >>
      BY ONLY <2>1, <3>1
    <3>. QED
      BY ONLY <1>2, <2>1, <3>2
  <2>2. CASE /\ c \in Now /\ heap[c].kind = "table" /\ app' = app \ given /\ a.kind = "kv"
             /\ \E map \in app' : map \in Block /\ heap[map].kind = "map" /\ heap[map].table = c
             /\ heap' = [heap EXCEPT ![c] = Table(Append(heap[c].entries, n + 1))] \o <<a>>
    <3> DEFINE old == heap[c].entries
               new == Append(old, n + 1)
               b == Table(new)
               H == [heap EXCEPT ![c] = b]
    <3>1. /\ c \in Block /\ c \in Now /\ heap[c].kind = "table"
          /\ \A i \in DOMAIN Fields(heap[c]) : Sound(heap[c], Fields(heap[c])[i])
      <4>1. Now \subseteq Block /\ \A d : Pointers(d) = Fields(heap[d])
        BY ONLY <1>1, <1>2, NowIs, RootsIdle
      <4>2. \A d \in Now : Fit(d)
        BY IInv, Parts
      <4>. QED
        BY ONLY <2>2, <4>1, <4>2 DEF Fit
    <3>2. Fields(heap[c]) = old /\ heap[c] \in Tables
      BY ONLY <1>3, <3>1, FieldsOf
    <3>3. old \in Seq(Int)
      BY ONLY <3>2 DEF Tables
    <3>a. PICK map \in app' : map \in Block /\ heap[map].kind = "map" /\ heap[map].table = c
      BY ONLY <2>2
    <3>b. map # c /\ Fields(heap[map]) = <<c>>
      BY ONLY <1>3, <3>1, <3>a, FieldsOf
    <3>. HIDE DEF old
    <3>4. /\ new \in Seq(Int)
          /\ \A i \in DOMAIN old : i \in DOMAIN new /\ new[i] = old[i]
          /\ Len(old) + 1 \in DOMAIN new /\ new[Len(old) + 1] = n + 1
          /\ \A i \in DOMAIN new : i = Len(old) + 1 \/ i \in DOMAIN old
      BY ONLY <1>3, <3>3
    <3>. HIDE DEF new
    <3>5. b \in Tables /\ b.kind = "table" /\ b.entries = new
      BY ONLY <3>4 DEF Table, Tables
    <3>. HIDE DEF b
    <3>6. b \in Content
      BY ONLY <3>5 DEF Content
    <3>7. Fields(b) = new
      BY ONLY <3>5, <3>6, FieldsOf
    <3>8. H \in Seq(Content) /\ Len(H) = n /\ H[c] = b /\ \A d \in Block : d # c => H[d] = heap[d]
      <4>1. Len(heap) \in Nat /\ DOMAIN heap = 1 .. Len(heap) /\ \A d \in 1 .. Len(heap) : heap[d] \in Content
        BY ONLY <1>2
      <4>2. DOMAIN H = 1 .. Len(heap) /\ (\A d \in 1 .. Len(heap) : H[d] \in Content) /\ H \in [1 .. Len(heap) -> Content]
        BY ONLY <3>6, <4>1
      <4>3. H \in Seq(Content)
        BY ONLY <4>1, <4>2
      <4>. QED
        BY ONLY <1>3, <3>1, <4>1, <4>2, <4>3
    <3>. HIDE DEF H
    <3>9. heap' = H \o <<a>>
      BY ONLY <2>2 DEF H, b, new, old
    <3>10. last = Len(old) + 1
      BY DEF old
    <3>11. Fields(H[map]) = <<c>>
      BY ONLY <3>8, <3>a, <3>b
    <3>12. heap' = H \o <<a>> \o << >>
      <4>1. H \o <<a>> = H \o <<a>> \o << >>
        BY ONLY <1>1, <3>8
      <4>. QED
        BY ONLY <3>9, <4>1
    <3>. HIDE DEF last
    <3>13. /\ \A i \in DOMAIN Fields(heap[c]) :
                  i \in DOMAIN Fields(H[c]) /\ Fields(H[c])[i] = Fields(heap[c])[i]
           /\ last \in DOMAIN Fields(H[c]) /\ Fields(H[c])[last] = n + 1
           /\ \A i \in DOMAIN Fields(H[c]) : i = last \/ i \in DOMAIN Fields(heap[c])
      BY ONLY <3>2, <3>4, <3>7, <3>8, <3>10
    <3>14. H[c].kind = "table" /\ \E m \in app' : m \in Block /\ Fields(H[m]) = <<c>>
      BY ONLY <3>5, <3>8, <3>11, <3>a
    <3>15. app' = app \ given /\ a.kind = "kv"
      BY ONLY <2>2
    <3>. HIDE DEF given, n
    <3>. QED
      BY ONLY <3>1, <3>8, <3>12, <3>13, <3>14, <3>15
  <2>. QED
    BY ONLY <2>1, <2>2, Takes(c, a, t) DEF Takes
<1>. HIDE DEF last
<1> DEFINE data == <<a>>
<1>7. data \in Seq(Content) /\ Len(data) = 1 /\ data[1] = a
  BY ONLY <1>1
<1>. HIDE DEF data
<1>8. heap' = H \o data \o << >>
  BY ONLY <1>6 DEF data
<1>8a. \A k \in 1 .. Len(data) : data[k] # Frame
  BY ONLY <1>1, <1>7 DEF Frame
<1>9. /\ heap' \in Seq(Content) /\ Block \subseteq Block'
      /\ \A d \in Block : heap'[d] = H[d]
      /\ n + 1 \in Fresh /\ heap'[n + 1] = a
      /\ \A d \in Fresh : d = n + 1
  <2>1. /\ heap' \in Seq(Content) /\ Block \subseteq Block' /\ Len(data) \in Nat
        /\ \A d \in Block : heap'[d] = H[d]
        /\ \A k \in 1 .. Len(data) : Len(heap) + k \in Fresh /\ heap'[Len(heap) + k] = data[k]
        /\ \A d \in Fresh : \E k \in 1 .. Len(data) : d = Len(heap) + k
    <3>1. Len(heap) \in Nat /\ Block = 1 .. Len(heap) /\ Len(H) = Len(heap)
      BY ONLY <1>3, <1>6
    <3>. QED
      BY ONLY <1>7, <1>8, <1>8a, <3>1, H \in Seq(Content), Appended, ZenonT(30)
  <2>2. 1 \in 1 .. Len(data) /\ \A k \in 1 .. Len(data) : k = 1
    BY ONLY <1>7
  <2>. QED
    BY ONLY <1>7, <2>1, <2>2
<1>. HIDE DEF n
<1>10. n + 1 \in Block' /\ app' \subseteq Block' /\ app' \subseteq Block \cup Fresh
  <2>1. n + 1 \in Block'
    BY ONLY <1>9 DEF Fresh
  <2>2. app' \subseteq app \cup {n + 1}
    BY ONLY <1>6
  <2>. QED
    BY ONLY <1>2, <1>9, <2>1, <2>2
<1>11. /\ \A d \in app' : d \in After
       /\ \A d \in After : \A i \in DOMAIN Fields(heap'[d]) :
             Fields(heap'[d])[i] \in Block' => Fields(heap'[d])[i] \in After
       /\ NULL \notin Block'
  BY ONLY <1>1, <1>9, <1>10, Arrives
<1>12. \A d \in Block : heap'[d].kind = heap[d].kind
  BY ONLY <1>3, <1>6, <1>9
<1>13. c \in Block =>
         /\ c \in Now /\ heap'[c].kind = "table" /\ heap[c].kind = "table" /\ app' = app \ given
         /\ a.kind = "kv"
         /\ \A i \in DOMAIN Fields(heap[c]) : Sound(heap[c], Fields(heap[c])[i])
         /\ \A i \in DOMAIN Fields(heap[c]) :
                i \in DOMAIN Fields(heap'[c]) /\ Fields(heap'[c])[i] = Fields(heap[c])[i]
         /\ last \in DOMAIN Fields(heap'[c]) /\ Fields(heap'[c])[last] = n + 1
         /\ \A i \in DOMAIN Fields(heap'[c]) : i = last \/ i \in DOMAIN Fields(heap[c])
         /\ c # NULL /\ \E map \in app' : Fields(heap'[map]) = <<c>>
  BY ONLY <1>1, <1>3, <1>6, <1>9
<1>14. c \notin Block => c = NULL /\ app' = (app \ given) \cup {n + 1}
  BY ONLY <1>6
<1>15. n + 1 \in After
  <2>1. CASE c \in Block
    <3>1. PICK map \in app' : Fields(heap'[map]) = <<c>>
      BY ONLY <1>13, <2>1
    <3>2. c \in After
      <4>1. 1 \in DOMAIN Fields(heap'[map]) /\ Fields(heap'[map])[1] = c
        BY ONLY <3>1
      <4>. QED
        BY ONLY <1>9, <1>11, <2>1, <4>1
    <3>. QED
      BY ONLY <1>10, <1>11, <1>13, <2>1, <3>2
  <2>2. CASE c \notin Block
    BY ONLY <1>11, <1>14, <2>2
  <2>. QED
    BY ONLY <2>1, <2>2
<1>16. 1 \in DOMAIN Fields(a) /\ \A i \in DOMAIN Fields(a) : i = 1 /\ Fields(a)[i] = t
  BY ONLY <1>1
<1>17. given \cup Fresh \subseteq After
  <2>1. 1 \in DOMAIN Fields(heap'[n + 1]) /\ Fields(heap'[n + 1])[1] = t
    BY ONLY <1>9, <1>16
  <2>2. t \in Block' => t \in After
    BY ONLY <1>11, <1>15, <2>1
  <2>. QED
    BY ONLY <1>9, <1>15, <2>2
<1>18. t = NULL \/ (/\ t \in Block' /\ heap'[t].kind = Leads(a)
                    /\ a.kind = "obj" => a.type \in DOMAIN ViaKind)
  BY ONLY <1>1, <1>2, <1>9, <1>12
<1>19. ASSUME NEW d \in Fresh
       PROVE  Fit(d)'
  <2>1. heap'[d] = a
    BY ONLY <1>9, d \in Fresh
  <2>2. a # Dead /\ (a.kind = "kv" => a.key # Dead) /\ a.kind # "array"
    BY ONLY <1>1 DEF Dead
  <2>3. ASSUME NEW i \in DOMAIN Fields(heap'[d])
        PROVE  \/ Fields(heap'[d])[i] = NULL /\ heap'[d].kind # "array"
               \/ /\ Fields(heap'[d])[i] \in Block'
                  /\ heap'[d].kind \in {"obj", "map", "table", "kv", "array", "slots", "req"}
                  /\ heap'[d].kind = "obj" => heap'[d].type \in DOMAIN ViaKind
                  /\ heap'[Fields(heap'[d])[i]].kind = Leads(heap'[d])
    <3>1. Fields(heap'[d])[i] = t
      BY ONLY <1>16, <2>1, <2>3
    <3>. QED
      BY ONLY <1>1, <1>18, <2>1, <2>2, <3>1
  <2>. QED
    BY ONLY <1>1, <2>1, <2>2, <2>3, FitIdle
<1>20. ASSUME c \in Block
       PROVE  Fit(c)'
  <2>1. heap'[c] # Dead /\ heap'[c].kind = "table" /\ heap[c].kind = "table"
    BY ONLY <1>13, <1>20 DEF Dead
  <2>2. Leads(heap'[c]) = "kv" /\ Leads(heap[c]) = "kv"
    BY ONLY <2>1 DEF Leads, Kind
  <2>3. ASSUME NEW i \in DOMAIN Fields(heap'[c])
        PROVE  \/ Fields(heap'[c])[i] = NULL
               \/ Fields(heap'[c])[i] \in Block' /\ heap'[Fields(heap'[c])[i]].kind = "kv"
    <3> DEFINE v == Fields(heap'[c])[i]
    <3>1. CASE i = last
      BY ONLY <1>9, <1>10, <1>13, <1>20, <3>1
    <3>2. CASE i \in DOMAIN Fields(heap[c])
      <4>1. Sound(heap[c], v)
        BY ONLY <1>13, <1>20, <3>2
      <4>. HIDE DEF v
      <4>2. v = NULL \/ (v \in Block /\ heap[v].kind = "kv")
        BY ONLY <2>1, <2>2, <4>1 DEF Sound
      <4>3. v = NULL \/ (v \in Block' /\ heap'[v].kind = "kv")
        BY ONLY <1>9, <1>12, <4>2
      <4>. QED
        BY ONLY <4>3 DEF v
    <3>. QED
      BY ONLY <1>13, <1>20, <2>3, <3>1, <3>2
  <2>. QED
    BY ONLY <1>1, <2>1, <2>2, <2>3, FitIdle
<1>21. Puts(c, given, own)
  <2>1. \A d \in Block : d \in app' <=> d \in app /\ d \notin given
    BY ONLY <1>4, <1>13, <1>14
  <2>2. \A d \in Block : d # c => heap'[d] = heap[d]
    BY ONLY <1>6, <1>9
  <2>3. \A x \in Fresh : x \in app' => own[x] = ByCaller
    BY ONLY <1>2, <1>4, <1>5, <1>9, <1>13, <1>14
  <2>4. \A d \in Fresh : \A i \in DOMAIN Fields(heap'[d]) : Fields(heap'[d])[i] \in Block' =>
           Fields(heap'[d])[i] \in given \cup Fresh /\ own[Fields(heap'[d])[i]] = <<d, i>>
    <3> SUFFICES ASSUME NEW d \in Fresh, NEW i \in DOMAIN Fields(heap'[d]), Fields(heap'[d])[i] \in Block'
                 PROVE  Fields(heap'[d])[i] \in given \cup Fresh /\ own[Fields(heap'[d])[i]] = <<d, i>>
      OBVIOUS
    <3>1. d = n + 1 /\ i = 1 /\ Fields(heap'[d])[i] = t
      BY ONLY <1>9, <1>16, d \in Fresh, i \in DOMAIN Fields(heap'[d])
    <3>2. t \in Block
      BY ONLY <1>1, <1>2, <1>11, <3>1, Fields(heap'[d])[i] \in Block'
    <3>. QED
      BY ONLY <1>5, <3>1, <3>2
  <2>5. c \in Block =>
          /\ c \in Now /\ heap'[c].kind = heap[c].kind
          /\ \A i \in DOMAIN Fields(heap[c]) : Fields(heap[c])[i] \in Block =>
                 i \in DOMAIN Fields(heap'[c]) /\ Fields(heap'[c])[i] = Fields(heap[c])[i]
          /\ \A i \in DOMAIN Fields(heap'[c]) : Fields(heap'[c])[i] \in Block' =>
                 \/ i \in DOMAIN Fields(heap[c]) /\ Fields(heap'[c])[i] = Fields(heap[c])[i]
                 \/ /\ Fields(heap'[c])[i] \in given \cup Fresh
                    /\ own[Fields(heap'[c])[i]] = <<c, i>>
    <3>1. c \in Block => c # NULL /\ own[n + 1] = <<c, last>> /\ n + 1 \in given \cup Fresh
      BY ONLY <1>5, <1>9, <1>13
    <3>. HIDE DEF given
    <3>2. c \in Block => /\ Fields(heap'[c])[last] \in given \cup Fresh
                          /\ own[Fields(heap'[c])[last]] = <<c, last>>
      BY ONLY <1>13, <3>1
    <3>. QED
      BY ONLY <1>13, <3>2
  <2>6. \A d \in Fresh : Fit(d)'
    BY ONLY <1>9, <1>19
  <2>. QED
    BY ONLY <1>1, <1>4, <1>9, <1>10, <1>17, <1>20, <2>1, <2>2, <2>3, <2>4, <2>5, <2>6 DEF Puts
<1>. QED
  BY ONLY <1>21, IInv, Put

\* The first entry a of a map that is held, with its table.
LEMMA FirstPut ==
    ASSUME IInv, calls = << >>, calls' = calls, wild' = wild,
           NEW map \in Held("map"), Fields(heap[map]) = <<NULL>>,
           NEW a \in Content, a.kind = "kv", a.key # Dead, NEW t, Fields(a) = <<t>>,
           t = NULL \/ (t \in app /\ t \in Block /\ heap[t].kind = "obj"),
           heap' = [heap EXCEPT ![map] = Map(Len(heap) + 1)] \o <<Table(<<Len(heap) + 2>>), a>>,
           app' = app \ ({t} \cap Block)
    PROVE  IInv'
<1> DEFINE n == Len(heap)
           given == {t} \cap Block
           b == Map(n + 1)
           c == Table(<<n + 2>>)
           H == [heap EXCEPT ![map] = b]
           data == <<c, a>>
           own == [x \in {n + 1, n + 2} \cup given |->
                      IF x = n + 1 THEN <<map, 1>> ELSE IF x = n + 2 THEN <<n + 1, 1>> ELSE <<n + 2, 1>>]
<1>1. calls = << >> /\ calls' = << >> /\ wild' = wild
  OBVIOUS
<1>2. TypeOK /\ heap \in Seq(Content) /\ app \subseteq Block
  BY Parts DEF TypeOK
<1>3. n \in Nat /\ Block = 1 .. n /\ NULL \notin Block /\ Garbage \notin Block
  BY ONLY <1>2, Here
<1>4. map \in Block /\ map \in app /\ map \in Now /\ heap[map].kind = "map"
  BY ONLY IInv, calls = << >>, HeldIs, map \in Held("map")
<1>5. n + 1 \notin Block /\ n + 2 \notin Block /\ n + 1 # n + 2 /\ given \subseteq app /\ given \subseteq Block
  BY ONLY <1>2, <1>3, t = NULL \/ (t \in app /\ t \in Block /\ heap[t].kind = "obj")
<1>6. /\ own[n + 1] = <<map, 1>> /\ own[n + 2] = <<n + 1, 1>>
      /\ \A x \in given : own[x] = <<n + 2, 1>>
  BY ONLY <1>5
<1>. HIDE DEF own
<1>7. b \in Maps /\ b.kind = "map" /\ b.table = n + 1 /\ c \in Tables /\ c.kind = "table" /\ c.entries = <<n + 2>>
  <2>1. n + 1 \in Int /\ <<n + 2>> \in Seq(Int)
    BY ONLY <1>3
  <2>. HIDE DEF n
  <2>. QED
    BY ONLY <2>1 DEF Map, Maps, Table, Tables
<1>. HIDE DEF b, c
<1>8. b \in Content /\ c \in Content
  BY ONLY <1>7 DEF Content
<1>9. Fields(b) = <<n + 1>> /\ Fields(c) = <<n + 2>>
  BY ONLY <1>7, <1>8, FieldsOf
<1>10. H \in Seq(Content) /\ Len(H) = n /\ H[map] = b /\ \A d \in Block : d # map => H[d] = heap[d]
  <2>1. Len(heap) \in Nat /\ DOMAIN heap = 1 .. Len(heap) /\ \A d \in 1 .. Len(heap) : heap[d] \in Content
    BY ONLY <1>2
  <2>2. DOMAIN H = 1 .. Len(heap) /\ H \in [1 .. Len(heap) -> Content]
    BY ONLY <1>8, <2>1
  <2>3. H \in Seq(Content)
    BY ONLY <2>1, <2>2
  <2>. QED
    BY ONLY <1>3, <1>4, <2>1, <2>2, <2>3
<1>11. data \in Seq(Content) /\ Len(data) = 2 /\ data[1] = c /\ data[2] = a
  BY ONLY <1>8, a \in Content
<1>12. heap' = H \o data \o << >>
  <2>1. heap' = H \o data
    BY DEF b, c
  <2>2. H \o data = H \o data \o << >>
    BY ONLY <1>10, <1>11
  <2>. QED
    BY ONLY <2>1, <2>2
<1>. HIDE DEF H, data
<1>13. \A k \in 1 .. Len(data) : data[k] # Frame
  BY ONLY <1>7, <1>11, a.kind = "kv" DEF Frame
<1>14. /\ heap' \in Seq(Content) /\ Block \subseteq Block' /\ Len(data) \in Nat
       /\ \A d \in Block : heap'[d] = H[d]
       /\ \A k \in 1 .. Len(data) : Len(heap) + k \in Fresh /\ heap'[Len(heap) + k] = data[k]
       /\ \A d \in Fresh : \E k \in 1 .. Len(data) : d = Len(heap) + k
  BY ONLY <1>3, <1>10, <1>11, <1>12, <1>13, Appended, ZenonT(30)
<1>15. /\ n + 1 \in Fresh /\ heap'[n + 1] = c /\ n + 2 \in Fresh /\ heap'[n + 2] = a
       /\ \A d \in Fresh : d = n + 1 \/ d = n + 2
  <2>1. 1 \in 1 .. Len(data) /\ 2 \in 1 .. Len(data) /\ \A k \in 1 .. Len(data) : k = 1 \/ k = 2
    BY ONLY <1>11
  <2>. QED
    BY ONLY <1>11, <1>14, <2>1
<1>16. heap'[map] = b /\ \A d \in Block : d # map => heap'[d] = heap[d]
  BY ONLY <1>4, <1>10, <1>14
<1>. HIDE DEF n
<1>17. n + 1 \in Block' /\ n + 2 \in Block'
  BY ONLY <1>15 DEF Fresh
<1>18. app' \subseteq Block /\ app' \subseteq Block' /\ map \in app' /\ \A x \in given : x # map
  <2>1. \A x \in given : x = t /\ x # NULL
    BY ONLY <1>3
  <2>2. \A x \in given : x # map
    BY ONLY <1>4, <2>1, t = NULL \/ (t \in app /\ t \in Block /\ heap[t].kind = "obj")
  <2>. QED
    BY ONLY <1>2, <1>4, <1>14, <2>2, app' = app \ ({t} \cap Block)
<1>19. /\ \A d \in app' : d \in After
       /\ \A d \in After : \A i \in DOMAIN Fields(heap'[d]) :
             Fields(heap'[d])[i] \in Block' => Fields(heap'[d])[i] \in After
       /\ NULL \notin Block'
  BY ONLY <1>1, <1>14, <1>18, Arrives
<1>20. /\ 1 \in DOMAIN Fields(b) /\ Fields(b)[1] = n + 1 /\ \A i \in DOMAIN Fields(b) : i = 1
       /\ 1 \in DOMAIN Fields(c) /\ Fields(c)[1] = n + 2 /\ \A i \in DOMAIN Fields(c) : i = 1
       /\ 1 \in DOMAIN Fields(a) /\ Fields(a)[1] = t /\ \A i \in DOMAIN Fields(a) : i = 1
  BY ONLY <1>9, Fields(a) = <<t>>
<1>21. n + 1 \in After /\ n + 2 \in After /\ (t \in Block' => t \in After)
  <2>1. n + 1 \in After
    BY ONLY <1>16, <1>17, <1>18, <1>19, <1>20
  <2>2. n + 2 \in After
    BY ONLY <1>15, <1>17, <1>19, <1>20, <2>1
  <2>. QED
    BY ONLY <1>15, <1>19, <1>20, <2>1, <2>2
<1>22. given \cup Fresh \subseteq After
  BY ONLY <1>14, <1>15, <1>21
<1>23. t = NULL \/ (t \in Block /\ t \in Block' /\ heap'[t].kind = "obj")
  BY ONLY <1>4, <1>14, <1>16, t = NULL \/ (t \in app /\ t \in Block /\ heap[t].kind = "obj")
<1>24. Leads(b) = "table" /\ Leads(c) = "kv" /\ Leads(a) = "obj"
  BY ONLY <1>7, a.kind = "kv" DEF Leads, Kind
<1>25. Fit(map)'
  <2>1. heap'[map] # Dead /\ heap'[map].kind = "map"
    BY ONLY <1>7, <1>16 DEF Dead
  <2>2. \A i \in DOMAIN Fields(heap'[map]) : Fields(heap'[map])[i] = n + 1
    BY ONLY <1>16, <1>20
  <2>3. n + 1 \in Block' /\ heap'[n + 1].kind = Leads(heap'[map])
    BY ONLY <1>7, <1>15, <1>16, <1>17, <1>24
  <2>. QED
    BY ONLY <1>1, <2>1, <2>2, <2>3, FitIdle
<1>26. ASSUME NEW d, d = n + 1
       PROVE  Fit(d)'
  <2>1. heap'[d] # Dead /\ heap'[d].kind = "table"
    BY ONLY <1>7, <1>15, <1>26 DEF Dead
  <2>2. \A i \in DOMAIN Fields(heap'[d]) : Fields(heap'[d])[i] = n + 2
    BY ONLY <1>15, <1>20, <1>26
  <2>3. n + 2 \in Block' /\ heap'[n + 2].kind = Leads(heap'[d])
    BY ONLY <1>15, <1>17, <1>24, <1>26, a.kind = "kv"
  <2>. QED
    BY ONLY <1>1, <2>1, <2>2, <2>3, FitIdle
<1>27. ASSUME NEW d, d = n + 2
       PROVE  Fit(d)'
  <2>1. heap'[d] # Dead /\ heap'[d].kind = "kv" /\ heap'[d].key # Dead
    BY ONLY <1>15, <1>27, a.kind = "kv", a.key # Dead DEF Dead
  <2>2. \A i \in DOMAIN Fields(heap'[d]) : Fields(heap'[d])[i] = t
    BY ONLY <1>15, <1>20, <1>27
  <2>3. t = NULL \/ (t \in Block' /\ heap'[t].kind = Leads(heap'[d]))
    BY ONLY <1>15, <1>23, <1>24, <1>27
  <2>. QED
    BY ONLY <1>1, <2>1, <2>2, <2>3, FitIdle
<1>28. Puts(map, given, own)
  <2>1. \A d \in Block : d \in app' <=> d \in app /\ d \notin given
    BY app' = app \ ({t} \cap Block)
  <2>2. \A x \in Fresh : x \in app' => own[x] = ByCaller
    BY ONLY <1>5, <1>15, <1>18
  <2>3. ASSUME NEW d \in Fresh, NEW i \in DOMAIN Fields(heap'[d]), Fields(heap'[d])[i] \in Block'
        PROVE  Fields(heap'[d])[i] \in given \cup Fresh /\ own[Fields(heap'[d])[i]] = <<d, i>>
    <3>1. CASE d = n + 1
      <4>1. i = 1 /\ Fields(heap'[d])[i] = n + 2
        BY ONLY <1>15, <1>20, <2>3, <3>1
      <4>. QED
        BY ONLY <1>6, <1>15, <3>1, <4>1
    <3>2. CASE d = n + 2
      <4>1. i = 1 /\ Fields(heap'[d])[i] = t
        BY ONLY <1>15, <1>20, <2>3, <3>2
      <4>2. t \in Block
        BY ONLY <1>19, <1>23, <2>3, <4>1
      <4>. QED
        BY ONLY <1>6, <3>2, <4>1, <4>2
    <3>. QED
      BY ONLY <1>15, <3>1, <3>2
  <2>4. /\ map \in Now /\ heap'[map].kind = heap[map].kind
        /\ \A i \in DOMAIN Fields(heap[map]) : Fields(heap[map])[i] \notin Block
        /\ \A i \in DOMAIN Fields(heap'[map]) :
              /\ Fields(heap'[map])[i] \in given \cup Fresh
              /\ own[Fields(heap'[map])[i]] = <<map, i>>
    <3>1. \A i \in DOMAIN Fields(heap[map]) : Fields(heap[map])[i] \notin Block
      BY ONLY <1>3, Fields(heap[map]) = <<NULL>>
    <3>2. map \in Now /\ heap'[map].kind = heap[map].kind
      BY ONLY <1>4, <1>7, <1>16
    <3>3. \A i \in DOMAIN Fields(heap'[map]) : i = 1 /\ Fields(heap'[map])[i] = n + 1
      BY ONLY <1>16, <1>20
    <3>4. n + 1 \in given \cup Fresh /\ own[n + 1] = <<map, 1>>
      BY ONLY <1>6, <1>15
    <3>. HIDE DEF given
    <3>. QED
      BY ONLY <3>1, <3>2, <3>3, <3>4
  <2>5. \A d \in Fresh : Fit(d)'
    BY ONLY <1>15, <1>26, <1>27
  <2>6. app' \subseteq Block \cup Fresh
    BY ONLY <1>18
  <2>. HIDE DEF given
  <2>. QED
    BY ONLY <1>1, <1>5, <1>14, <1>16, <1>22, <1>25, <2>1, <2>2, <2>3, <2>4, <2>5, <2>6 DEF Puts
<1>. QED
  BY ONLY <1>28, IInv, Put

LEMMA TakeStep ==
    ASSUME IInv, Kept, calls = << >>, Wrap \/ MapPut
    PROVE  IInv'
<1>1. TypeOK /\ app \subseteq Block /\ NULL \in Int
  BY Parts DEF TypeOK, NULL
<1>2. Len(heap) \in Nat /\ NULL \notin Block /\ \A d \in Block : d \in Int
  BY ONLY <1>1, Here
<1>3. CASE Wrap
  <2>1. PICK c \in Held("map") \cup Held("array") :
            /\ Alloc(<<Obj(IF heap[c].kind = "map" THEN "MAP" ELSE "ARRAY", c)>>)
            /\ app' = (app \ {c}) \cup {Next1st}
    BY ONLY <1>3 DEF Wrap
  <2>2. c \in Block /\ c \in app /\ heap[c].kind \in {"map", "array"}
    BY ONLY c \in Held("map") \cup Held("array") DEF Held, OfKind
  <2> DEFINE type == IF heap[c].kind = "map" THEN "MAP" ELSE "ARRAY"
             a == Obj(type, c)
  <2>3. a \in Objs /\ a.kind = "obj" /\ a.via = c /\ a.type = type
    BY ONLY <1>2, <2>2 DEF Obj, Objs, Types
  <2>4. type \in DOMAIN ViaKind /\ ViaKind[type] = heap[c].kind
    BY ONLY <2>2 DEF ViaKind
  <2>5. wild' = wild /\ calls' = calls /\ heap' = heap \o <<a>>
    BY ONLY <2>1 DEF Alloc
  <2>. HIDE DEF type, a
  <2>6. a \in Content
    BY ONLY <2>3 DEF Content
  <2>7. Fields(a) = <<c>>
    BY ONLY <2>3, <2>6, FieldsOf
  <2>8. Leads(a) = heap[c].kind
    BY ONLY <2>3, <2>4 DEF Leads
  <2>9. app' = (app \ ({c} \cap Block)) \cup {Len(heap) + 1} /\ c # NULL
    BY ONLY <1>2, <2>1, <2>2 DEF Next1st
  <2>10. Takes(NULL, a, c)
    BY ONLY <2>2, <2>3, <2>4, <2>5, <2>6, <2>7, <2>8, <2>9, calls = << >> DEF Takes
  <2>. QED
    BY ONLY <2>10, IInv, Taken
<1>4. CASE MapPut
  <2>1. PICK map \in Held("map"), obj \in Held("obj") \cup {NULL} :
            LET table == heap[map].table
            IN  /\ \/ /\ table = NULL
                      /\ heap' = [heap EXCEPT ![map].table = Next1st]
                                 \o <<Table(<<Next1st + 1>>), KV(Str, obj)>>
                   \/ /\ table # NULL
                      /\ heap' = [heap EXCEPT ![table].entries = Append(@, Next1st)] \o <<KV(Str, obj)>>
                /\ app' = Given(obj)
                /\ UNCHANGED <<wild, calls>>
    BY ONLY <1>4 DEF MapPut
  <2> DEFINE table == heap[map].table
             a == KV(Str, obj)
  <2>2. /\ map \in Block /\ map \in app /\ heap[map].kind = "map" /\ heap[map] \in Content
        /\ \A i \in DOMAIN Fields(heap[map]) :
              /\ Sound(heap[map], Fields(heap[map])[i])
              /\ Fields(heap[map])[i] \in Block => Fields(heap[map])[i] \in Now
    BY ONLY IInv, calls = << >>, HeldIs, map \in Held("map")
  <2>3. obj = NULL \/ (obj \in app /\ obj \in Block /\ heap[obj].kind = "obj")
    BY ONLY obj \in Held("obj") \cup {NULL} DEF Held, OfKind
  <2>4. Fields(heap[map]) = <<table>>
    BY ONLY <2>2, FieldsOf
  <2>5. Sound(heap[map], table) /\ (table \in Block => table \in Now)
    BY ONLY <2>2, <2>4
  <2>6. table # NULL => table \in Now /\ table \in Block /\ heap[table].kind = "table"
    BY ONLY <2>2, <2>5 DEF Sound, Leads, Kind
  <2>7. /\ \/ /\ table = NULL
              /\ heap' = [heap EXCEPT ![map].table = Next1st] \o <<Table(<<Next1st + 1>>), a>>
           \/ /\ table # NULL
              /\ heap' = [heap EXCEPT ![table].entries = Append(@, Next1st)] \o <<a>>
        /\ app' = Given(obj) /\ wild' = wild /\ calls' = calls
    BY ONLY <2>1
  <2>8. a \in KVs /\ a.kind = "kv" /\ a.value = obj /\ a.key = Str
    BY ONLY <1>1, <1>2, <2>3 DEF KV, KVs
  <2>. HIDE DEF a
  <2>9. a \in Content /\ a.key # Dead
    BY ONLY <2>8 DEF Content, Str, Dead
  <2>10. Fields(a) = <<obj>> /\ Leads(a) = "obj" /\ a.kind # "obj"
    BY ONLY <2>8, <2>9, FieldsOf DEF Leads, Kind
  <2>11. app' = app \ ({obj} \cap Block)
    BY ONLY <1>1, <2>7, Kept, GivenIs
  <2>12. map \in app'
    BY ONLY <1>2, <2>2, <2>3, <2>11
  <2>13. CASE table # NULL
    <3>1. heap[table] \in Tables
      BY ONLY <1>1, <2>6, <2>13, Here, FieldsOf
    <3> DEFINE new == Append(heap[table].entries, Len(heap) + 1)
    <3>2. [heap[table] EXCEPT !.entries = new] = Table(new)
      <4>1. \A z \in Tables : \A w : [z EXCEPT !.entries = w] = [kind |-> "table", entries |-> w]
        BY ONLY TRUE DEF Tables
      <4>. QED
        BY ONLY <3>1, <4>1 DEF Table
    <3>3. [heap EXCEPT ![table].entries = Append(@, Next1st)] = [heap EXCEPT ![table] = Table(new)]
      <4>1. [heap EXCEPT ![table].entries = Append(@, Next1st)]
                = [heap EXCEPT ![table] = [heap[table] EXCEPT !.entries = new]]
        BY ONLY TRUE DEF Next1st
      <4>. QED
        BY ONLY <3>2, <4>1
    <3>4. heap' = [heap EXCEPT ![table] = Table(new)] \o <<a>>
      BY ONLY <2>7, <2>13, <3>3
    <3>5. obj # table \/ obj = NULL
      BY ONLY <2>3, <2>6, <2>13
    <3>6. \E m \in app' : m \in Block /\ heap[m].kind = "map" /\ heap[m].table = table
      BY ONLY <2>2, <2>12
    <3>. HIDE DEF table
    <3>7. Takes(table, a, obj)
      BY ONLY <2>3, <2>6, <2>7, <2>8, <2>9, <2>10, <2>11, <2>13, <3>4, <3>5, <3>6, calls = << >> DEF Takes
    <3>. QED
      BY ONLY <3>7, IInv, Taken
  <2>14. CASE table = NULL
    <3>1. heap[map] \in Maps
      BY ONLY <2>2, FieldsOf
    <3>2. Next1st = Len(heap) + 1 /\ Next1st + 1 = Len(heap) + 2
      BY ONLY <1>2 DEF Next1st
    <3>3. [heap[map] EXCEPT !.table = Len(heap) + 1] = Map(Len(heap) + 1)
      BY ONLY <3>1 DEF Maps, Map
    <3>4. [heap EXCEPT ![map].table = Next1st] = [heap EXCEPT ![map] = Map(Len(heap) + 1)]
      <4>1. [heap EXCEPT ![map].table = Next1st]
                = [heap EXCEPT ![map] = [heap[map] EXCEPT !.table = Next1st]]
        OBVIOUS
      <4>. QED
        BY ONLY <3>2, <3>3, <4>1
    <3>5. heap' = [heap EXCEPT ![map] = Map(Len(heap) + 1)] \o <<Table(<<Len(heap) + 2>>), a>>
      BY ONLY <2>7, <2>14, <3>2, <3>4
    <3>6. Fields(heap[map]) = <<NULL>>
      BY ONLY <2>4, <2>14
    <3>. HIDE DEF table
    <3>. QED
      BY ONLY <2>3, <2>7, <2>8, <2>9, <2>10, <2>11, <3>5, <3>6, IInv, calls = << >>, map \in Held("map"), FirstPut
  <2>. QED
    BY ONLY <2>13, <2>14
<1>. QED
  BY <1>3, <1>4

LEMMA AddStep ==
    ASSUME IInv, Kept, calls = << >>, ArrayAdd
    PROVE  IInv'
<1>1. TypeOK /\ app \subseteq Block /\ NULL \in Int
  BY Parts DEF TypeOK, NULL
<1>2. /\ NULL \notin Block /\ Garbage \notin Block /\ \A d \in Block : d \in Int
      /\ \A d \in Block : heap[d] \in Content
  BY ONLY <1>1, Here
<1>3. PICK array \in Held("array"), pos \in 0 .. MaxSize, obj \in Held("obj") \cup {NULL} :
          LET slots == heap[array].ptr
              in    == pos < Len(heap[slots].at)
          IN  /\ "once" \in Rules /\ in => heap[slots].at[pos + 1] = Garbage
              /\ heap' = IF in THEN [heap EXCEPT ![slots].at[pos + 1] = obj] ELSE heap
              /\ app' = IF in THEN Given(obj) ELSE app
              /\ UNCHANGED <<wild, calls>>
  BY DEF ArrayAdd
<1> DEFINE slots == heap[array].ptr
           at    == heap[slots].at
           in    == pos < Len(at)
<1>4. /\ in => at[pos + 1] = Garbage
      /\ heap' = IF in THEN [heap EXCEPT ![slots].at[pos + 1] = obj] ELSE heap
      /\ app' = IF in THEN Given(obj) ELSE app
      /\ wild' = wild /\ calls' = calls
  BY ONLY <1>3, Kept DEF Kept
<1>5. CASE ~ in
  <2>1. UNCHANGED vars
    BY ONLY <1>4, <1>5 DEF vars
  <2>. QED
    BY ONLY <2>1, IInv, Stutter
<1>6. CASE in
  <2>1. /\ array \in Block /\ array \in app /\ array \in Now /\ heap[array].kind = "array"
        /\ heap[array] \in Content
        /\ \A i \in DOMAIN Fields(heap[array]) :
              /\ Sound(heap[array], Fields(heap[array])[i])
              /\ Fields(heap[array])[i] \in Block => Fields(heap[array])[i] \in Now
    BY ONLY IInv, calls = << >>, HeldIs, array \in Held("array")
  <2>2. Fields(heap[array]) = <<slots>>
    BY ONLY <2>1, FieldsOf
  <2>3. Sound(heap[array], slots) /\ (slots \in Block => slots \in Now)
    BY ONLY <2>1, <2>2
  <2>. HIDE DEF slots
  <2>4. slots \in Block /\ slots \in Now /\ heap[slots].kind = "slots" /\ slots # array
    BY ONLY <2>1, <2>3 DEF Sound, Leads, Kind
  <2>5. heap[slots] \in Slots /\ Fields(heap[slots]) = at
    BY ONLY <1>2, <2>4, FieldsOf
  <2>6. at \in Seq(Int)
    BY ONLY <2>5 DEF Slots
  <2>7. pos + 1 \in DOMAIN at /\ at[pos + 1] = Garbage
    <3>1. pos \in Nat
      BY ONLY BoundsAssumption, pos \in 0 .. MaxSize
    <3>2. Len(at) \in Nat /\ DOMAIN at = 1 .. Len(at)
      BY ONLY <2>6
    <3>. HIDE DEF at
    <3>. QED
      BY ONLY <1>4, <1>6, <3>1, <3>2
  <2>8. obj = NULL \/ (obj \in app /\ obj \in Block /\ heap[obj].kind = "obj")
    BY ONLY obj \in Held("obj") \cup {NULL} DEF Held, OfKind
  <2> DEFINE new == [at EXCEPT ![pos + 1] = obj]
             b == [kind |-> "slots", at |-> new]
  <2>9. new \in Seq(Int)
    <3>1. obj \in Int
      BY ONLY <1>1, <1>2, <2>8
    <3>. HIDE DEF at
    <3>2. Len(at) \in Nat /\ at \in [1 .. Len(at) -> Int]
      BY ONLY <2>6
    <3>3. new \in [1 .. Len(at) -> Int]
      BY ONLY <3>1, <3>2
    <3>. QED
      BY ONLY <3>2, <3>3
  <2>10. heap' = [heap EXCEPT ![slots] = b]
    <3>1. heap' = [heap EXCEPT ![slots] = [heap[slots] EXCEPT !.at = new]]
      BY ONLY <1>4, <1>6
    <3>2. [heap[slots] EXCEPT !.at = new] = b
      BY ONLY <2>4, <2>5 DEF Slots
    <3>. QED
      BY ONLY <3>1, <3>2
  <2>. HIDE DEF at, new
  <2>11. b \in Slots /\ b.kind = "slots" /\ b.at = new
    BY ONLY <2>9 DEF Slots
  <2>. HIDE DEF b
  <2>12. b \in Content
    BY ONLY <2>11 DEF Content
  <2>13. Fields(b) = new
    BY ONLY <2>11, <2>12, FieldsOf
  <2> DEFINE given == {obj} \cap Block
  <2>14. Sets(slots, b, given)
    <3>1. Fields(b) = [Fields(heap[slots]) EXCEPT ![pos + 1] = obj]
      BY ONLY <2>5, <2>13 DEF new
    <3>2. pos + 1 \in DOMAIN Fields(heap[slots]) /\ Fields(heap[slots])[pos + 1] \notin Block
      BY ONLY <1>2, <2>5, <2>7
    <3>. QED
      BY ONLY <3>1, <3>2, obj \in Held("obj") \cup {NULL} DEF Sets
  <2>15. app' = app \ given
    BY ONLY <1>1, <1>4, <1>6, Kept, GivenIs
  <2>16. /\ heap' \in Seq(Content) /\ Block' = Block
         /\ \A d \in Block : d # slots => heap'[d] = heap[d]
    BY ONLY <1>1, <2>4, <2>10, <2>12, Replaced
  <2>17. slots \in After
    <3>0. array # obj
      BY ONLY <1>2, <2>1, <2>8
    <3>1. calls' = << >> /\ app' \subseteq Block' /\ array \in app'
      <4>1. calls' = << >>
        BY ONLY <1>4, calls = << >>
      <4>. QED
        BY ONLY <1>1, <2>1, <2>15, <2>16, <3>0, <4>1
    <3>2. Fields(heap'[array]) = <<slots>>
      BY ONLY <2>1, <2>2, <2>4, <2>16
    <3>3. 1 \in DOMAIN Fields(heap'[array]) /\ Fields(heap'[array])[1] = slots
      BY ONLY <3>2
    <3>4. array \in After
      BY ONLY <2>16, <3>1, Arrives
    <3>5. \A i \in DOMAIN Fields(heap'[array]) :
             Fields(heap'[array])[i] \in Block' => Fields(heap'[array])[i] \in After
      BY ONLY <2>16, <3>1, <3>4, Arrives
    <3>. QED
      BY ONLY <2>4, <2>16, <3>3, <3>5
  <2>18. b.kind = heap[slots].kind /\ b.kind \in {"kv", "req", "slots"} /\ (b.kind = "kv" => b.key # Dead)
    BY ONLY <2>4, <2>11
  <2>. HIDE DEF given
  <2>. QED
    BY ONLY <1>4, <2>4, <2>10, <2>12, <2>14, <2>15, <2>17, <2>18, IInv, calls = << >>, Changed
<1>. QED
  BY <1>5, <1>6

LEMMA DupStep ==
    ASSUME IInv, Kept, calls = << >>, ObjectDup
    PROVE  IInv'
<1>1. TypeOK /\ app \subseteq Block /\ \A d \in Now : Fit(d)
  BY Parts DEF TypeOK
<1>2. /\ Len(heap) \in Nat /\ NULL \notin Block /\ Garbage \notin Block
      /\ \A d \in Block : heap[d] \in Content
  BY ONLY <1>1, Here
<1>3. PICK obj \in Held("obj") \cup {heap[req].data : req \in Held("req")} :
          /\ obj # NULL
          /\ "dup" \in Rules => heap[obj].type \notin Container
          /\ Alloc(Duplicate(obj))
          /\ Hold
  BY DEF ObjectDup
<1>4. obj \in Block /\ obj \in Now /\ heap[obj].kind = "obj" /\ heap[obj] \in Content
  <2>1. CASE obj \in Held("obj")
    BY ONLY <2>1, IInv, calls = << >>, HeldIs
  <2>2. ASSUME NEW req \in Held("req"), obj = heap[req].data
        PROVE  obj \in Block /\ obj \in Now /\ heap[obj].kind = "obj" /\ heap[obj] \in Content
    <3>1. /\ heap[req].kind = "req" /\ heap[req] \in Content
          /\ \A i \in DOMAIN Fields(heap[req]) :
                /\ Sound(heap[req], Fields(heap[req])[i])
                /\ Fields(heap[req])[i] \in Block => Fields(heap[req])[i] \in Now
      BY ONLY IInv, calls = << >>, HeldIs, req \in Held("req")
    <3>2. Fields(heap[req]) = <<obj>>
      BY ONLY <2>2, <3>1, FieldsOf
    <3>3. Sound(heap[req], obj) /\ (obj \in Block => obj \in Now)
      BY ONLY <3>1, <3>2
    <3>. QED
      BY ONLY <1>2, <1>3, <3>1, <3>3 DEF Sound, Leads, Kind
  <2>. QED
    BY ONLY <2>1, <2>2, obj \in Held("obj") \cup {heap[req].data : req \in Held("req")}
<1>5. heap[obj] \in Objs /\ Fields(heap[obj]) = <<heap[obj].via>>
  BY ONLY <1>4, FieldsOf
<1>6. heap[obj].type \in {"INTEGER", "STR"}
  BY ONLY <1>3, <1>5, Kept DEF Kept, Objs, Types, Container
<1>7. CASE heap[obj].type = "INTEGER"
  <2> DEFINE a == heap[obj]
  <2>1. Sound(heap[obj], heap[obj].via)
    <3>1. Pointers(obj) = Fields(heap[obj])
      BY ONLY RootsIdle, calls = << >>
    <3>2. 1 \in DOMAIN Pointers(obj) /\ Pointers(obj)[1] = heap[obj].via
      BY ONLY <1>5, <3>1
    <3>. QED
      BY ONLY <1>1, <1>4, <3>2 DEF Fit
  <2>2. heap[obj].via = NULL
    BY ONLY <1>4, <1>7, <2>1 DEF Sound, ViaKind
  <2>3. /\ a \in Content /\ a.kind = "obj" /\ a # Dead /\ a # Frame
        /\ \A i \in DOMAIN Fields(a) : Fields(a)[i] = NULL
    BY ONLY <1>4, <1>5, <2>2 DEF Dead, Frame
  <2>4. Duplicate(obj) = <<a>>
    BY ONLY <1>7 DEF Duplicate
  <2>. HIDE DEF a
  <2>5. calls' = calls /\ wild' = wild /\ heap' = heap \o <<a>> /\ app' = app \cup {Len(heap) + 1}
    BY ONLY <1>3, <2>4 DEF Alloc, Hold, Next1st
  <2>. QED
    BY ONLY <2>3, <2>5, IInv, calls = << >>, PlantedOne
<1>8. CASE heap[obj].type = "STR"
  <2> DEFINE a == Obj("STR", Len(heap) + 2)
  <2>1. Next1st + 1 = Len(heap) + 2
    BY ONLY <1>2 DEF Next1st
  <2>2. Duplicate(obj) = <<a, Str>>
    BY ONLY <1>8, <2>1 DEF Duplicate
  <2>3. a \in Objs /\ a.kind = "obj" /\ a.via = Len(heap) + 2 /\ a.type = "STR"
    BY ONLY <1>2 DEF Obj, Objs, Types
  <2>. HIDE DEF a
  <2>4. a \in Content /\ Str \in Content /\ Str.kind = "str"
    BY ONLY <2>3 DEF Content, Str
  <2>5. Fields(a) = <<Len(heap) + 2>> /\ Fields(Str) = << >>
    BY ONLY <2>3, <2>4, FieldsOf
  <2>6. a.type \in DOMAIN ViaKind /\ Leads(a) = "str"
    BY ONLY <2>3 DEF ViaKind, Leads
  <2>7. \A i \in DOMAIN Fields(Str) : FALSE
    BY ONLY <2>5
  <2>8. calls' = calls /\ wild' = wild /\ heap' = heap \o <<a, Str>> /\ app' = app \cup {Len(heap) + 1}
    BY ONLY <1>3, <2>2 DEF Alloc, Hold, Next1st
  <2>. QED
    BY ONLY <2>3, <2>4, <2>5, <2>6, <2>7, <2>8, IInv, calls = << >>, PlantedTwo
<1>. QED
  BY ONLY <1>6, <1>7, <1>8

\* The caller frees what it has: what can be reached is the same, and is Settled
\* when the array's slots are.
LEMMA ReleaseStep ==
    ASSUME IInv, Kept, calls = << >>, Release
    PROVE  IInv'
<1>1. PICK c \in app \ OfKind("dead") :
          /\ Full(c) /\ calls' = <<Call(heap[c].kind, c)>> /\ app' = app \ {c}
          /\ heap' = heap /\ wild' = wild
  BY DEF Release
<1>2. TypeOK /\ wild = FALSE /\ app \subseteq Block /\ heap \in Seq(Content)
  BY Parts DEF TypeOK
<1>3. /\ Len(heap) \in Nat /\ Block = 1 .. Len(heap) /\ \A d \in Block : heap[d] \in Content /\ d \in Int
  BY ONLY <1>2, Here
<1>4. Block' = Block /\ c \in Block /\ c \in app
  BY ONLY <1>1, <1>2 DEF Block
<1>5. heap[c].kind \in Kinds /\ heap[c].kind # "block"
  BY ONLY <1>3, <1>4, FieldsOf DEF Kinds
<1>6. /\ DOMAIN calls' = {1} /\ calls'[1].of = heap[c].kind /\ calls'[1].on = c
      /\ calls' \in Seq([of : Kinds \cup {"block"}, on : Int])
  <2> DEFINE call == Call(heap[c].kind, c)
  <2>1. call \in [of : Kinds \cup {"block"}, on : Int] /\ call.of = heap[c].kind /\ call.on = c
    BY ONLY <1>3, <1>4, <1>5 DEF Call
  <2>2. calls' = <<call>>
    BY ONLY <1>1
  <2>. HIDE DEF call
  <2>3. DOMAIN calls' = {1} /\ calls'[1] = call
    BY ONLY <2>2
  <2>. QED
    BY ONLY <2>1, <2>2, <2>3
<1>7. Roots = app /\ (\A d : Pointers(d) = Fields(heap[d])) /\ Called' = {c} /\ Roots' = app
  <2>1. Roots = app /\ \A d : Pointers(d) = Fields(heap[d])
    BY ONLY RootsIdle, calls = << >>
  <2>2. Called' = {c}
    BY ONLY <1>6 DEF Called
  <2>. QED
    BY ONLY <1>1, <1>4, <2>1, <2>2 DEF Roots
<1>8. \A d : Pointers(d)' = Pointers(d)
  <2>1. \A d : ~ Entered(d)'
    BY ONLY <1>5, <1>6 DEF Entered
  <2>. QED
    BY ONLY <1>1, <1>7, <2>1 DEF Pointers
<1>9. Edges' = Edges
  BY ONLY <1>4, <1>8 DEF Edges
<1>10. Reach(Roots)' = Reach(Roots)
  BY ONLY <1>1, <1>7, <1>9 DEF Reach
<1>11. Reach(Called)' = Reach({c})
  BY ONLY <1>1, <1>7, <1>9 DEF Reach
<1>12. TypeOK' /\ wild' = FALSE
  BY ONLY <1>1, <1>2, <1>4, <1>6 DEF TypeOK
<1>13. \A d \in Reach(Roots) : Fit(d)'
  <2>1. ASSUME NEW d, NEW t, Sound(heap[d], t)
        PROVE  Sound(heap[d], t)'
    BY ONLY <1>1, <1>4, <2>1 DEF Sound
  <2>2. \A d \in Reach(Roots) : Fit(d)
    BY DEF IInv
  <2>3. ASSUME NEW d \in Reach(Roots)
        PROVE  Fit(d)'
    <3>1. /\ heap'[d] # Dead /\ (heap'[d].kind = "kv" => heap'[d].key # Dead)
      BY ONLY <1>1, <2>2, <2>3 DEF Fit
    <3>2. ASSUME NEW i \in DOMAIN Pointers(d)'
          PROVE  Sound(heap[d], Pointers(d)[i])'
      <4>1. Sound(heap[d], Pointers(d)[i])
        BY ONLY <1>8, <2>2, <2>3, <3>2 DEF Fit
      <4>. QED
        BY ONLY <1>1, <1>4, <1>8, <4>1 DEF Sound
    <3>. QED
      BY ONLY <3>1, <3>2 DEF Fit
  <2>. QED
    BY ONLY <2>3
<1>14. Single' /\ Rooted'
  <2>1. Single /\ Rooted
    BY DEF IInv
  <2>. QED
    BY ONLY <1>4, <1>7, <1>8, <1>10, <2>1 DEF Single, Rooted
<1>15. Pending'
  <2>1. c \notin app'
    BY ONLY <1>1
  <2>. QED
    BY ONLY <1>1, <1>4, <1>6, <2>1 DEF Pending
<1>16. Settled'
  <2>1. /\ \A d \in Block : d \in Roots => d \in Reach(Roots)
        /\ \A d \in Reach(Roots) : \A t : To(d, t) => t \in Reach(Roots)
    BY ONLY <1>3, ReachIs
  <2> DEFINE r == {c}
             s == Reach(Roots)
  <2>2. \A d \in Block : d \in r => d \in s
    BY ONLY <1>4, <1>7, <2>1
  <2>3. \A d \in s : \A t : To(d, t) => t \in s
    BY ONLY <2>1
  <2>. HIDE DEF r, s
  <2>4. Reach(r) \subseteq s
    BY ONLY <1>3, <2>2, <2>3, ReachLeast
  <2>5. ASSUME NEW d \in Reach(r), NEW i \in DOMAIN Pointers(d), Pointers(d)[i] = Garbage
        PROVE  FALSE
    <3>1. Fit(d)
      BY <2>4, <2>5 DEF IInv, s
    <3>2. Sound(heap[d], Garbage)
      BY ONLY <2>5, <3>1 DEF Fit
    <3>3. heap[d].kind = "slots"
      BY ONLY <1>2, <3>2, Here DEF Sound
    <3>4. d \in Block
      <4>1. Reach(r) \subseteq Block
        BY ONLY <1>3, ReachIs
      <4>. QED
        BY ONLY <2>5, <4>1
    <3>5. Pointers(d) = heap[d].at
      BY ONLY <1>3, <1>7, <3>3, <3>4, FieldsOf
    <3>6. Garbage \notin Range(heap[d].at)
      BY ONLY <1>1, <2>5, <3>3, Kept DEF Full, Kept, r
    <3>. QED
      BY ONLY <2>5, <3>5, <3>6 DEF Range
  <2>6. Reach(r) = Reach({c})
    BY DEF r
  <2>. QED
    BY ONLY <1>8, <1>11, <2>5, <2>6 DEF Settled
<1>17. KnownLeaks'
  <2>1. KnownLeaks
    BY DEF IInv
  <2>. QED
    BY ONLY <1>1, <1>4, <1>10, <2>1 DEF KnownLeaks
<1>. QED
  BY ONLY <1>10, <1>12, <1>13, <1>14, <1>15, <1>16, <1>17 DEF IInv

LEMMA ObjIs ==
    ASSUME NEW type \in Types, NEW via \in Int
    PROVE  /\ Obj(type, via) \in Content /\ Obj(type, via).kind = "obj" /\ Obj(type, via).type = type
           /\ Obj(type, via) # Dead /\ Fields(Obj(type, via)) = <<via>>
<1> DEFINE a == Obj(type, via)
<1>1. a \in Objs /\ a.kind = "obj" /\ a.via = via /\ a.type = type
  BY DEF Obj, Objs, Types
<1>. HIDE DEF a
<1>2. a \in Content
  BY ONLY <1>1 DEF Content
<1>3. Fields(a) = <<via>> /\ a # Dead
  BY ONLY <1>1, <1>2, FieldsOf DEF Dead
<1>. QED
  BY ONLY <1>1, <1>2, <1>3 DEF a

\* Blocks that point each to the next.
Chained(data, own) ==
    /\ \A k \in 1 .. Len(data) : data[k] # Dead /\ (data[k].kind = "kv" => data[k].key # Dead)
    /\ \A k \in 1 .. Len(data) : k # Len(data) =>
          /\ data[k].kind \in {"obj", "map", "table", "kv", "array", "slots", "req"}
          /\ data[k].kind = "obj" => data[k].type \in DOMAIN ViaKind
          /\ Fields(data[k]) = <<Len(heap) + k + 1>> /\ data[k + 1].kind = Leads(data[k])
          /\ own[Len(heap) + k + 1] = <<Len(heap) + k, 1>>
    /\ \A k \in 1 .. Len(data) : k = Len(data) =>
          data[k].kind # "array" /\ \A i \in DOMAIN Fields(data[k]) : Fields(data[k])[i] = NULL

LEMMA ListTree ==
    ASSUME Len(heap) \in Nat, NEW data \in Seq(Content), NEW own, Chained(data, own)
    PROVE  Tree(data, own)
<1> DEFINE n == Len(heap)
           m == Len(data)
<1>1. m \in Nat /\ n \in Nat
  OBVIOUS
<1>2. /\ \A k \in 1 .. m : data[k] # Dead /\ (data[k].kind = "kv" => data[k].key # Dead)
      /\ \A k \in 1 .. m : k # m =>
            /\ data[k].kind \in {"obj", "map", "table", "kv", "array", "slots", "req"}
            /\ data[k].kind = "obj" => data[k].type \in DOMAIN ViaKind
            /\ Fields(data[k]) = <<n + k + 1>> /\ data[k + 1].kind = Leads(data[k])
            /\ own[n + k + 1] = <<n + k, 1>>
      /\ \A k \in 1 .. m : k = m =>
            data[k].kind # "array" /\ \A i \in DOMAIN Fields(data[k]) : Fields(data[k])[i] = NULL
  BY DEF Chained
<1>. HIDE DEF n, m
<1>3. ASSUME NEW k \in 1 .. m, NEW i \in DOMAIN Fields(data[k])
      PROVE  \/ Fields(data[k])[i] = NULL /\ data[k].kind # "array"
             \/ /\ data[k].kind \in {"obj", "map", "table", "kv", "array", "slots", "req"}
                /\ data[k].kind = "obj" => data[k].type \in DOMAIN ViaKind
                /\ own[Fields(data[k])[i]] = <<n + k, i>>
                /\ \E l \in 1 .. m :
                      Fields(data[k])[i] = n + l /\ l # 1 /\ data[l].kind = Leads(data[k])
  <2>1. CASE k = m
    BY ONLY <1>2, <1>3, <2>1
  <2>2. CASE k # m
    <3>1. /\ data[k].kind \in {"obj", "map", "table", "kv", "array", "slots", "req"}
          /\ data[k].kind = "obj" => data[k].type \in DOMAIN ViaKind
          /\ Fields(data[k]) = <<n + k + 1>> /\ data[k + 1].kind = Leads(data[k])
          /\ own[n + k + 1] = <<n + k, 1>>
      BY ONLY <1>2, <1>3, <2>2
    <3>2. i = 1 /\ Fields(data[k])[i] = n + k + 1
      BY ONLY <1>3, <3>1
    <3>3. k + 1 \in 1 .. m /\ k + 1 # 1 /\ n + k + 1 = n + (k + 1)
      BY ONLY <1>1, <1>3, <2>2
    <3>4. Fields(data[k])[i] = n + (k + 1) /\ own[Fields(data[k])[i]] = <<n + k, i>>
      BY ONLY <3>1, <3>2, <3>3
    <3>. QED
      BY ONLY <3>1, <3>3, <3>4
  <2>. QED
    BY ONLY <2>1, <2>2
<1>4. ASSUME NEW l \in 1 .. m, l # 1
      PROVE  \E k \in 1 .. l - 1 : \E i \in DOMAIN Fields(data[k]) : Fields(data[k])[i] = n + l
  <2> DEFINE k == l - 1
  <2>1. k \in 1 .. l - 1 /\ k \in 1 .. m /\ k # m /\ n + k + 1 = n + l
    BY ONLY <1>1, <1>4
  <2>2. Fields(data[k]) = <<n + k + 1>>
    BY ONLY <1>2, <2>1
  <2>3. 1 \in DOMAIN Fields(data[k]) /\ Fields(data[k])[1] = n + l
    BY ONLY <2>1, <2>2
  <2>. QED
    BY ONLY <2>1, <2>3
<1>. QED
  BY ONLY <1>2, <1>3, <1>4 DEF Tree, n, m

\* Four blocks and more.
Behind(q, a, b, c, d, more) == q = <<a, b, c, d>> \o more

LEMMA FourAndMore ==
    ASSUME NEW T, NEW a \in T, NEW b \in T, NEW c \in T, NEW d \in T, NEW more \in Seq(T), Len(more) > 0,
           NEW q, Behind(q, a, b, c, d, more)
    PROVE  /\ q \in Seq(T) /\ Len(q) = 4 + Len(more) /\ q[1] = a /\ q[2] = b /\ q[3] = c /\ q[4] = d
           /\ q[5] = more[1] /\ (Len(more) = 2 => q[6] = more[2])
<1> DEFINE head == <<a, b, c, d>>
<1>1. head \in Seq(T) /\ Len(head) = 4 /\ head[1] = a /\ head[2] = b /\ head[3] = c /\ head[4] = d
  OBVIOUS
<1>2. q = head \o more
  BY DEF Behind
<1>. HIDE DEF head
<1>a. head \in Seq(T)
  BY ONLY <1>1
<1>3. /\ q \in Seq(T) /\ Len(q) = Len(head) + Len(more) /\ Len(more) \in Nat
      /\ \A i \in 1 .. Len(head) + Len(more) : q[i] = IF i <= Len(head) THEN head[i] ELSE more[i - Len(head)]
  BY ONLY <1>a, <1>2, more \in Seq(T)
<1> DEFINE m == Len(more)
<1>4. /\ Len(q) = 4 + m /\ m \in Nat /\ m > 0
      /\ \A i \in 1 .. 4 + m : q[i] = IF i <= 4 THEN head[i] ELSE more[i - 4]
  BY ONLY <1>1, <1>3, Len(more) > 0
<1>5. q \in Seq(T) /\ m = Len(more)
  BY ONLY <1>3
<1>. HIDE DEF m
<1>6. /\ 1 \in 1 .. 4 + m /\ 2 \in 1 .. 4 + m /\ 3 \in 1 .. 4 + m /\ 4 \in 1 .. 4 + m
      /\ 5 \in 1 .. 4 + m /\ (m = 2 => 6 \in 1 .. 4 + m)
  BY ONLY <1>4
<1>7. q[1] = a /\ q[2] = b /\ q[3] = c /\ q[4] = d
  BY ONLY <1>1, <1>4, <1>6
<1>8. q[5] = more[1]
  BY ONLY <1>4, <1>6
<1>9. m = 2 => q[6] = more[2]
  BY ONLY <1>4, <1>6
<1>. QED
  BY ONLY <1>4, <1>5, <1>7, <1>8, <1>9

\* An array of numbers, behind n blocks.
Numbers(n, size) ==
    <<Obj("ARRAY", n + 2), [kind |-> "array", ptr |-> n + 3],
      [kind |-> "slots", at |-> [i \in 1 .. size |-> n + 3 + i]]>>
    \o [i \in 1 .. size |-> Obj("INTEGER", NULL)]

Placed(own, n, size) ==
    /\ own[n + 2] = <<n + 1, 1>> /\ own[n + 3] = <<n + 2, 1>>
    /\ \A i \in 1 .. size : own[n + 3 + i] = <<n + 3, i>>

LEMMA ArrayTree ==
    ASSUME Len(heap) \in Nat, NEW size \in Nat, NEW data, NEW own,
           data = Numbers(Len(heap), size), Placed(own, Len(heap), size)
    PROVE  /\ data \in Seq(Content) /\ data # << >> /\ data[1].kind = "obj"
           /\ Tree(data, own)
<1> DEFINE n == Len(heap)
           a == Obj("ARRAY", n + 2)
           b == [kind |-> "array", ptr |-> n + 3]
           at == [i \in 1 .. size |-> n + 3 + i]
           c == [kind |-> "slots", at |-> at]
           d == Obj("INTEGER", NULL)
           tail == [i \in 1 .. size |-> d]
<1>0. n \in Nat
  OBVIOUS
<1>1. /\ a \in Content /\ a.kind = "obj" /\ a.type = "ARRAY" /\ a # Dead /\ Fields(a) = <<n + 2>>
      /\ d \in Content /\ d.kind = "obj" /\ d # Dead /\ Fields(d) = <<NULL>>
  <2>1. "ARRAY" \in Types /\ "INTEGER" \in Types /\ n + 2 \in Int /\ NULL \in Int
    BY DEF Types, NULL
  <2>. QED
    BY ONLY <2>1, ObjIs
<1>2. at \in Seq(Int) /\ DOMAIN at = 1 .. size /\ \A i \in 1 .. size : at[i] = n + 3 + i
  OBVIOUS
<1>3. b \in Arrays /\ b.kind = "array" /\ b.ptr = n + 3
  BY DEF Arrays
<1>. HIDE DEF a, b, d, at
<1>4. c \in Slots /\ c.kind = "slots" /\ c.at = at
  BY ONLY <1>2 DEF Slots
<1>. HIDE DEF c
<1>5. b \in Content /\ c \in Content
  BY ONLY <1>3, <1>4 DEF Content
<1>6. Fields(b) = <<n + 3>> /\ Fields(c) = at /\ b # Dead /\ c # Dead
  BY ONLY <1>3, <1>4, <1>5, FieldsOf DEF Dead
<1>7. /\ Leads(a) = "array" /\ Leads(b) = "slots" /\ Leads(c) = "obj"
      /\ a.type \in DOMAIN ViaKind
  BY ONLY <1>1, <1>3, <1>4 DEF Leads, ViaKind, Kind
<1>8. data = <<a, b, c>> \o tail
  BY DEF a, b, c, d, at, Numbers
<1>9. /\ data \in Seq(Content) /\ Len(data) = 3 + size
      /\ data[1] = a /\ data[2] = b /\ data[3] = c
      /\ \A i \in 1 .. size : data[3 + i] = d
  <2>1. tail \in Seq(Content) /\ Len(tail) = size /\ \A i \in 1 .. size : tail[i] = d
    BY ONLY <1>1, size \in Nat
  <2> DEFINE head == <<a, b, c>>
  <2>2. head \in Seq(Content) /\ Len(head) = 3 /\ head[1] = a /\ head[2] = b /\ head[3] = c
    BY ONLY <1>1, <1>5
  <2>3. data = head \o tail
    BY ONLY <1>8
  <2>. HIDE DEF head, tail
  <2>4. /\ data \in Seq(Content) /\ Len(data) = 3 + size
        /\ \A i \in 1 .. 3 + size : data[i] = IF i <= 3 THEN head[i] ELSE tail[i - 3]
    <3>1. head \in Seq(Content) /\ tail \in Seq(Content)
      BY ONLY <2>1, <2>2
    <3>2. /\ data \in Seq(Content) /\ Len(data) = Len(head) + Len(tail)
          /\ \A i \in 1 .. Len(head) + Len(tail) :
                data[i] = IF i <= Len(head) THEN head[i] ELSE tail[i - Len(head)]
      BY ONLY <2>3, <3>1
    <3>3. Len(head) = 3 /\ Len(tail) = size
      BY ONLY <2>1, <2>2
    <3>. QED
      BY ONLY <3>2, <3>3
  <2>5. data[1] = a /\ data[2] = b /\ data[3] = c
    <3>1. 1 \in 1 .. 3 + size /\ 2 \in 1 .. 3 + size /\ 3 \in 1 .. 3 + size
      BY ONLY size \in Nat
    <3>. QED
      BY ONLY <2>2, <2>4, <3>1
  <2>6. ASSUME NEW i \in 1 .. size
        PROVE  data[3 + i] = d
    <3>1. 3 + i \in 1 .. 3 + size /\ ~ (3 + i <= 3) /\ 3 + i - 3 = i
      BY ONLY size \in Nat, i \in 1 .. size
    <3>2. data[3 + i] = tail[3 + i - 3]
      BY ONLY <2>4, <3>1
    <3>. QED
      BY ONLY <2>1, <3>1, <3>2
  <2>. QED
    BY ONLY <2>4, <2>5, <2>6
<1>10. ASSUME NEW k \in 1 .. Len(data)
       PROVE  k = 1 \/ k = 2 \/ k = 3 \/ \E i \in 1 .. size : k = 3 + i
  <2>1. k \in 1 .. 3 + size
    BY ONLY <1>9, <1>10
  <2>2. k = 1 \/ k = 2 \/ k = 3 \/ (k - 3 \in 1 .. size /\ k = 3 + (k - 3))
    BY ONLY <2>1, size \in Nat
  <2>. QED
    BY ONLY <2>2
<1>11. /\ own[n + 2] = <<n + 1, 1>> /\ own[n + 3] = <<n + 2, 1>>
       /\ \A i \in 1 .. size : own[n + 3 + i] = <<n + 3, i>>
  BY DEF Placed
<1>12. 2 \in 1 .. Len(data) /\ 3 \in 1 .. Len(data) /\ \A i \in 1 .. size : 3 + i \in 1 .. Len(data) /\ 3 + i # 1 /\ i \in Int
  BY ONLY <1>9, size \in Nat
<1>. HIDE DEF n, tail
<1>13. ASSUME NEW k \in 1 .. Len(data)
       PROVE  /\ data[k] # Dead /\ (data[k].kind = "kv" => data[k].key # Dead)
              /\ \A i \in DOMAIN Fields(data[k]) :
                    \/ Fields(data[k])[i] = NULL /\ data[k].kind # "array"
                    \/ /\ data[k].kind \in {"obj", "map", "table", "kv", "array", "slots", "req"}
                       /\ data[k].kind = "obj" => data[k].type \in DOMAIN ViaKind
                       /\ own[Fields(data[k])[i]] = <<n + k, i>>
                       /\ \E l \in 1 .. Len(data) :
                             Fields(data[k])[i] = n + l /\ l # 1 /\ data[l].kind = Leads(data[k])
  <2>1. CASE k = 1
    <3>1. \A i \in DOMAIN Fields(a) : i = 1 /\ Fields(a)[i] = n + 2
      BY ONLY <1>1
    <3>. QED
      BY ONLY <1>1, <1>3, <1>7, <1>9, <1>11, <1>12, <2>1, <3>1
  <2>2. CASE k = 2
    <3>1. \A i \in DOMAIN Fields(b) : i = 1 /\ Fields(b)[i] = n + 3
      BY ONLY <1>6
    <3>. QED
      BY ONLY <1>3, <1>4, <1>6, <1>7, <1>9, <1>11, <1>12, <2>2, <3>1
  <2>3. CASE k = 3
    <3>1. ASSUME NEW i \in DOMAIN Fields(c)
          PROVE  /\ Fields(c)[i] = n + (3 + i) /\ own[Fields(c)[i]] = <<n + 3, i>>
                 /\ 3 + i \in 1 .. Len(data) /\ 3 + i # 1 /\ data[3 + i].kind = Leads(c)
      <4>1. i \in 1 .. size /\ Fields(c)[i] = n + 3 + i
        BY ONLY <1>2, <1>6, <3>1
      <4>2. n + 3 + i = n + (3 + i)
        BY ONLY <1>0, <1>12, <4>1
      <4>. QED
        BY ONLY <1>1, <1>7, <1>9, <1>11, <1>12, <4>1, <4>2
    <3>2. data[k] = c /\ c.kind = "slots" /\ c # Dead
      BY ONLY <1>4, <1>6, <1>9, <2>3
    <3>. QED
      BY ONLY <2>3, <3>1, <3>2
  <2>4. ASSUME NEW i \in 1 .. size, k = 3 + i
        PROVE  data[k] = d
    BY ONLY <1>9, <2>4
  <2>5. CASE data[k] = d
    <3>1. \A i \in DOMAIN Fields(d) : Fields(d)[i] = NULL
      BY ONLY <1>1
    <3>. QED
      BY ONLY <1>1, <2>5, <3>1
  <2>. QED
    BY ONLY <1>10, <1>13, <2>1, <2>2, <2>3, <2>4, <2>5
<1>14. ASSUME NEW l \in 1 .. Len(data), l # 1
       PROVE  \E k \in 1 .. l - 1 : \E i \in DOMAIN Fields(data[k]) : Fields(data[k])[i] = n + l
  <2>1. CASE l = 2
    <3>1. 1 \in 1 .. l - 1 /\ 1 \in DOMAIN Fields(a) /\ Fields(a)[1] = n + l
      BY ONLY <1>1, <2>1
    <3>. QED
      BY ONLY <1>9, <3>1
  <2>2. CASE l = 3
    <3>1. 2 \in 1 .. l - 1 /\ 1 \in DOMAIN Fields(b) /\ Fields(b)[1] = n + l
      BY ONLY <1>6, <2>2
    <3>. QED
      BY ONLY <1>9, <3>1
  <2>3. ASSUME NEW i \in 1 .. size, l = 3 + i
        PROVE  \E k \in 1 .. l - 1 : \E j \in DOMAIN Fields(data[k]) : Fields(data[k])[j] = n + l
    <3>1. 3 \in 1 .. l - 1 /\ n + 3 + i = n + l
      BY ONLY <1>0, <2>3, size \in Nat
    <3>2. i \in DOMAIN Fields(c) /\ Fields(c)[i] = n + l
      BY ONLY <1>2, <1>6, <2>3, <3>1
    <3>. QED
      BY ONLY <1>9, <3>1, <3>2
  <2>. QED
    BY ONLY <1>10, <1>14, <2>1, <2>2, <2>3
<1>15. Tree(data, own)
  BY ONLY <1>13, <1>14 DEF Tree, n
<1>16. data # << >>
  BY ONLY <1>9, size \in Nat
<1>. QED
  BY ONLY <1>1, <1>9, <1>15, <1>16

\* An object with one member: the map, its table, its entry, and what that has.
LEMMA ObjectTree ==
    ASSUME Len(heap) \in Nat, NEW a \in Content, a.kind = "obj", NEW rest,
           (rest = <<a>> /\ Fields(a) = <<NULL>>) \/
           (rest = <<a, Str>> /\ Fields(a) = <<Len(heap) + 6>> /\ a.type = "STR"),
           NEW data, data = <<Obj("MAP", Len(heap) + 2), Map(Len(heap) + 3), Table(<<Len(heap) + 4>>),
                              KV(Str, Len(heap) + 5)>> \o rest,
           NEW own, \A k \in 1 .. 5 : own[Len(heap) + k + 1] = <<Len(heap) + k, 1>>
    PROVE  /\ data \in Seq(Content) /\ data # << >> /\ data[1].kind = "obj"
           /\ Tree(data, own)
<1> DEFINE n == Len(heap)
           m == Obj("MAP", n + 2)
           e == Map(n + 3)
           w == Table(<<n + 4>>)
           v == KV(Str, n + 5)
<1>0. n \in Nat
  OBVIOUS
<1>1. m \in Content /\ m.kind = "obj" /\ m.type = "MAP" /\ m # Dead /\ Fields(m) = <<n + 2>>
  <2>1. "MAP" \in Types /\ n + 2 \in Int
    BY DEF Types
  <2>. QED
    BY ONLY <2>1, ObjIs
<1>2. e \in Maps /\ e.kind = "map" /\ e.table = n + 3
  BY ONLY <1>0 DEF Map, Maps
<1>b. w \in Tables /\ w.kind = "table" /\ w.entries = <<n + 4>>
  <2> DEFINE entries == <<n + 4>>
  <2>1. entries \in Seq(Int)
    BY ONLY <1>0
  <2>. HIDE DEF entries
  <2>2. Table(entries) \in Tables /\ Table(entries).kind = "table" /\ Table(entries).entries = entries
    BY ONLY <2>1 DEF Table, Tables
  <2>. QED
    BY ONLY <2>2 DEF entries
<1>3. v \in KVs /\ v.kind = "kv" /\ v.value = n + 5 /\ v.key = Str
  BY ONLY <1>0 DEF KV, KVs
<1>. HIDE DEF m, e, w, v
<1>4. e \in Content /\ w \in Content /\ v \in Content /\ Str \in Content /\ Str.kind = "str"
  BY ONLY <1>2, <1>b, <1>3 DEF Content, Str
<1>5. Fields(e) = <<n + 3>> /\ Fields(w) = <<n + 4>> /\ Fields(v) = <<n + 5>> /\ Fields(Str) = << >>
  BY ONLY <1>2, <1>b, <1>3, <1>4, FieldsOf
<1>6. e # Dead /\ w # Dead /\ v # Dead /\ a # Dead /\ Str # Dead /\ v.key # Dead
  BY ONLY <1>2, <1>b, <1>3, <1>4, a.kind = "obj" DEF Dead, Str
<1>7. /\ Leads(m) = "map" /\ Leads(e) = "table" /\ Leads(w) = "kv" /\ Leads(v) = "obj" /\ m.type \in DOMAIN ViaKind
      /\ a.type = "STR" => Leads(a) = "str" /\ a.type \in DOMAIN ViaKind
  BY ONLY <1>1, <1>2, <1>b, <1>3, a.kind = "obj" DEF Leads, ViaKind, Kind
<1>8. data = <<m, e, w, v>> \o rest
  BY DEF m, e, w, v
<1>9. \A k \in 1 .. 5 : own[n + k + 1] = <<n + k, 1>>
  OBVIOUS
<1>10. CASE rest = <<a>> /\ Fields(a) = <<NULL>>
  <2>3. data \in Seq(Content) /\ Len(data) = 5 /\ data[1] = m /\ data[2] = e /\ data[3] = w
        /\ data[4] = v /\ data[5] = a
    <3>1. rest \in Seq(Content) /\ Len(rest) = 1 /\ rest[1] = a
      BY ONLY <1>10, a \in Content
    <3>2. Behind(data, m, e, w, v, rest)
      BY ONLY <1>8 DEF Behind
    <3>3. /\ m \in Content /\ e \in Content /\ w \in Content /\ v \in Content
          /\ rest \in Seq(Content) /\ Len(rest) > 0
      BY ONLY <1>1, <1>4, <3>1
    <3>4. /\ data \in Seq(Content) /\ Len(data) = 4 + Len(rest)
          /\ data[1] = m /\ data[2] = e /\ data[3] = w /\ data[4] = v
          /\ data[5] = rest[1]
          /\ Len(rest) = 2 => data[6] = rest[2]
      BY ONLY <3>2, <3>3, FourAndMore
    <3>. QED
      BY ONLY <3>1, <3>4
  <2>. HIDE DEF n
  <2>4. \A k \in 1 .. Len(data) : k \in 1 .. 5 /\ (k = 1 \/ k = 2 \/ k = 3 \/ k = 4 \/ k = 5)
    BY ONLY <2>3
  <2>5. \A k \in 1 .. Len(data) : data[k] # Dead /\ (data[k].kind = "kv" => data[k].key # Dead)
    BY ONLY <1>1, <1>2, <1>b, <1>6, <2>3, <2>4, a.kind = "obj"
  <2>6. \A k \in 1 .. Len(data) : k # Len(data) =>
            /\ data[k].kind \in {"obj", "map", "table", "kv", "array", "slots", "req"}
            /\ data[k].kind = "obj" => data[k].type \in DOMAIN ViaKind
            /\ Fields(data[k]) = <<n + k + 1>> /\ data[k + 1].kind = Leads(data[k])
            /\ own[n + k + 1] = <<n + k, 1>>
    <3> SUFFICES ASSUME NEW k \in 1 .. Len(data), k # Len(data)
                 PROVE  /\ data[k].kind \in {"obj", "map", "table", "kv", "array", "slots", "req"}
                        /\ data[k].kind = "obj" => data[k].type \in DOMAIN ViaKind
                        /\ Fields(data[k]) = <<n + k + 1>> /\ data[k + 1].kind = Leads(data[k])
                        /\ own[n + k + 1] = <<n + k, 1>>
      OBVIOUS
    <3>1. CASE k = 1
      BY ONLY <1>0, <1>1, <1>2, <1>7, <1>9, <2>3, <3>1
    <3>2. CASE k = 2
      BY ONLY <1>0, <1>2, <1>b, <1>5, <1>7, <1>9, <2>3, <3>2
    <3>3. CASE k = 3
      BY ONLY <1>0, <1>3, <1>b, <1>5, <1>7, <1>9, <2>3, <3>3
    <3>4. CASE k = 4
      BY ONLY <1>0, <1>3, <1>5, <1>7, <1>9, <2>3, <3>4, a.kind = "obj"
    <3>. QED
      BY ONLY <2>3, <2>4, <3>1, <3>2, <3>3, <3>4, k # Len(data)
  <2>7. \A k \in 1 .. Len(data) : k = Len(data) =>
            data[k].kind # "array" /\ \A i \in DOMAIN Fields(data[k]) : Fields(data[k])[i] = NULL
    <3>1. a.kind # "array" /\ \A i \in DOMAIN Fields(a) : Fields(a)[i] = NULL
      BY ONLY <1>10, a.kind = "obj"
    <3>. QED
      BY ONLY <2>3, <3>1
  <2>8. Tree(data, own)
    <3>1. Chained(data, own)
      BY ONLY <2>5, <2>6, <2>7 DEF Chained, n
    <3>2. Len(heap) \in Nat
      BY ONLY <1>0 DEF n
    <3>3. data \in Seq(Content)
      BY ONLY <2>3
    <3>. QED
      BY ONLY <3>1, <3>2, <3>3, ListTree
  <2>9. data # << >>
    <3>1. Len(data) # 0
      BY ONLY <2>3
    <3>. QED
      BY ONLY <3>1
  <2>. QED
    BY ONLY <1>1, <2>3, <2>8, <2>9
<1>11. CASE rest = <<a, Str>> /\ Fields(a) = <<n + 6>> /\ a.type = "STR"
  <2>3. /\ data \in Seq(Content) /\ Len(data) = 6 /\ data[1] = m /\ data[2] = e /\ data[3] = w
        /\ data[4] = v /\ data[5] = a /\ data[6] = Str
    <3>1. rest \in Seq(Content) /\ Len(rest) = 2 /\ rest[1] = a /\ rest[2] = Str
      BY ONLY <1>4, <1>11, a \in Content
    <3>2. Behind(data, m, e, w, v, rest)
      BY ONLY <1>8 DEF Behind
    <3>3. /\ m \in Content /\ e \in Content /\ w \in Content /\ v \in Content
          /\ rest \in Seq(Content) /\ Len(rest) > 0
      BY ONLY <1>1, <1>4, <3>1
    <3>4. /\ data \in Seq(Content) /\ Len(data) = 4 + Len(rest)
          /\ data[1] = m /\ data[2] = e /\ data[3] = w /\ data[4] = v
          /\ data[5] = rest[1]
          /\ Len(rest) = 2 => data[6] = rest[2]
      BY ONLY <3>2, <3>3, FourAndMore
    <3>. QED
      BY ONLY <3>1, <3>4
  <2>. HIDE DEF n
  <2>4. \A k \in 1 .. Len(data) : k = 1 \/ k = 2 \/ k = 3 \/ k = 4 \/ k = 5 \/ k = 6
    BY ONLY <2>3
  <2>5. \A k \in 1 .. Len(data) : data[k] # Dead /\ (data[k].kind = "kv" => data[k].key # Dead)
    BY ONLY <1>1, <1>2, <1>b, <1>4, <1>6, <2>3, <2>4, a.kind = "obj"
  <2>6. \A k \in 1 .. Len(data) : k # Len(data) =>
            /\ data[k].kind \in {"obj", "map", "table", "kv", "array", "slots", "req"}
            /\ data[k].kind = "obj" => data[k].type \in DOMAIN ViaKind
            /\ Fields(data[k]) = <<n + k + 1>> /\ data[k + 1].kind = Leads(data[k])
            /\ own[n + k + 1] = <<n + k, 1>>
    <3> SUFFICES ASSUME NEW k \in 1 .. Len(data), k # Len(data)
                 PROVE  /\ data[k].kind \in {"obj", "map", "table", "kv", "array", "slots", "req"}
                        /\ data[k].kind = "obj" => data[k].type \in DOMAIN ViaKind
                        /\ Fields(data[k]) = <<n + k + 1>> /\ data[k + 1].kind = Leads(data[k])
                        /\ own[n + k + 1] = <<n + k, 1>>
      OBVIOUS
    <3>1. CASE k = 1
      BY ONLY <1>0, <1>1, <1>2, <1>7, <1>9, <2>3, <3>1
    <3>2. CASE k = 2
      BY ONLY <1>0, <1>2, <1>b, <1>5, <1>7, <1>9, <2>3, <3>2
    <3>3. CASE k = 3
      BY ONLY <1>0, <1>3, <1>b, <1>5, <1>7, <1>9, <2>3, <3>3
    <3>4. CASE k = 4
      BY ONLY <1>0, <1>3, <1>5, <1>7, <1>9, <2>3, <3>4, a.kind = "obj"
    <3>5. CASE k = 5
      BY ONLY <1>0, <1>4, <1>7, <1>9, <1>11, <2>3, <3>5, a.kind = "obj"
    <3>. QED
      BY ONLY <2>3, <2>4, <3>1, <3>2, <3>3, <3>4, <3>5, k # Len(data)
  <2>7. \A k \in 1 .. Len(data) : k = Len(data) =>
            data[k].kind # "array" /\ \A i \in DOMAIN Fields(data[k]) : Fields(data[k])[i] = NULL
    <3>1. Str.kind # "array" /\ \A i \in DOMAIN Fields(Str) : Fields(Str)[i] = NULL
      BY ONLY <1>4, <1>5
    <3>. QED
      BY ONLY <2>3, <3>1
  <2>8. Tree(data, own)
    <3>1. Chained(data, own)
      BY ONLY <2>5, <2>6, <2>7 DEF Chained, n
    <3>2. Len(heap) \in Nat
      BY ONLY <1>0 DEF n
    <3>3. data \in Seq(Content)
      BY ONLY <2>3
    <3>. QED
      BY ONLY <3>1, <3>2, <3>3, ListTree
  <2>9. data # << >>
    <3>1. Len(data) # 0
      BY ONLY <2>3
    <3>. QED
      BY ONLY <3>1
  <2>. QED
    BY ONLY <1>1, <2>3, <2>8, <2>9
<1>. QED
  BY <1>10, <1>11

LEMMA StringTree ==
    ASSUME Len(heap) \in Nat, NEW data, data = <<Obj("STR", Len(heap) + 2), Str>>,
           NEW own, own[Len(heap) + 2] = <<Len(heap) + 1, 1>>
    PROVE  /\ data \in Seq(Content) /\ data # << >> /\ data[1].kind = "obj"
           /\ Tree(data, own)
<1> DEFINE n == Len(heap)
           a == Obj("STR", n + 2)
<1>0. n \in Nat
  OBVIOUS
<1>1. a \in Content /\ a.kind = "obj" /\ a.type = "STR" /\ a # Dead /\ Fields(a) = <<n + 2>>
  <2>1. "STR" \in Types /\ n + 2 \in Int
    BY DEF Types
  <2>. QED
    BY ONLY <2>1, ObjIs
<1>2. data = <<a, Str>>
  OBVIOUS
<1>. HIDE DEF a
<1>3. Str \in Content /\ Str.kind = "str" /\ Str # Dead
  BY DEF Content, Str, Dead
<1>4. Fields(Str) = << >>
  BY ONLY <1>3, FieldsOf
<1>5. Leads(a) = "str" /\ a.type \in DOMAIN ViaKind
  BY ONLY <1>1 DEF Leads, ViaKind
<1>6. data \in Seq(Content) /\ Len(data) = 2 /\ data[1] = a /\ data[2] = Str
  BY ONLY <1>1, <1>2, <1>3
<1>7. own[n + 2] = <<n + 1, 1>>
  OBVIOUS
<1>. HIDE DEF n
<1>8. \A k \in 1 .. Len(data) : k = 1 \/ k = 2
  BY ONLY <1>6
<1>9. \A k \in 1 .. Len(data) : data[k] # Dead /\ (data[k].kind = "kv" => data[k].key # Dead)
  BY ONLY <1>1, <1>3, <1>6, <1>8
<1>10. \A k \in 1 .. Len(data) : k # Len(data) =>
          /\ data[k].kind \in {"obj", "map", "table", "kv", "array", "slots", "req"}
          /\ data[k].kind = "obj" => data[k].type \in DOMAIN ViaKind
          /\ Fields(data[k]) = <<n + k + 1>> /\ data[k + 1].kind = Leads(data[k])
          /\ own[n + k + 1] = <<n + k, 1>>
  <2>1. ASSUME NEW k \in 1 .. Len(data), k # Len(data)
        PROVE  k = 1 /\ data[k] = a /\ k + 1 = 2 /\ n + k + 1 = n + 2 /\ n + k = n + 1
    BY ONLY <1>0, <1>6, <1>8, <2>1
  <2>. QED
    BY ONLY <1>1, <1>3, <1>5, <1>6, <1>7, <2>1
<1>11. \A k \in 1 .. Len(data) : k = Len(data) =>
          data[k].kind # "array" /\ \A i \in DOMAIN Fields(data[k]) : Fields(data[k])[i] = NULL
  <2>1. Str.kind # "array" /\ \A i \in DOMAIN Fields(Str) : Fields(Str)[i] = NULL
    BY ONLY <1>3, <1>4
  <2>. QED
    BY ONLY <1>6, <2>1
<1>12. Tree(data, own)
  <2>1. Chained(data, own)
    BY ONLY <1>9, <1>10, <1>11 DEF Chained, n
  <2>2. Len(heap) \in Nat
    BY ONLY <1>0 DEF n
  <2>. QED
    BY ONLY <1>6, <2>1, <2>2, ListTree
<1>13. data # << >>
  <2>1. Len(data) # 0
    BY ONLY <1>6
  <2>. QED
    BY ONLY <2>1
<1>. QED
  BY ONLY <1>1, <1>6, <1>12, <1>13

Fills(req, data, cmd, H) ==
    /\ req \in Block /\ heap[req] \in Reqs
    /\ H = [heap EXCEPT ![req].data = data, ![req].cmd = cmd]

LEMMA Filled ==
    ASSUME NEW req, NEW data, NEW cmd, NEW H, Fills(req, data, cmd, H)
    PROVE  H = [heap EXCEPT ![req] = [kind |-> "req", cmd |-> cmd, data |-> data]]
<1>a. req \in Block /\ heap[req] \in Reqs /\ H = [heap EXCEPT ![req].data = data, ![req].cmd = cmd]
  BY DEF Fills
<1>1. [heap[req] EXCEPT !.data = data] = [kind |-> "req", cmd |-> heap[req].cmd, data |-> data]
  BY ONLY <1>a DEF Reqs
<1>2. \A x : [[kind |-> "req", cmd |-> x, data |-> data] EXCEPT !.cmd = cmd]
                = [kind |-> "req", cmd |-> cmd, data |-> data]
  BY ONLY TRUE
<1>3. [[heap[req] EXCEPT !.data = data] EXCEPT !.cmd = cmd] = [kind |-> "req", cmd |-> cmd, data |-> data]
  BY ONLY <1>1, <1>2
<1>4. [heap EXCEPT ![req].data = data, ![req].cmd = cmd]
        = [heap EXCEPT ![req] = [[heap[req] EXCEPT !.data = data] EXCEPT !.cmd = cmd]]
  BY ONLY <1>a DEF Block
<1>. QED
  BY ONLY <1>a, <1>3, <1>4

\* What is received is planted in the request.
LEMMA ReceiveStep ==
    ASSUME IInv, calls = << >>, Receive
    PROVE  IInv'
<1> DEFINE l == Len(heap)
<1>1. l \in Nat /\ TypeOK
  BY Parts, Here
<1>2. PICK req \in Held("req"), tagged \in BOOLEAN, size \in 0 .. MaxSize :
          LET n      == Next1st
              object == <<Obj("MAP", n + 1), Map(n + 2), Table(<<n + 3>>), KV(Str, n + 4)>>
          IN  \E data \in {<<Obj("STR", n + 1), Str>>,
                           <<Obj("ARRAY", n + 1), [kind |-> "array", ptr |-> n + 2],
                             [kind |-> "slots", at |-> [i \in 1 .. size |-> n + 2 + i]]>>
                           \o [i \in 1 .. size |-> Obj("INTEGER", NULL)],
                           object \o <<Obj("INTEGER", NULL)>>,
                           object \o <<Obj("STR", n + 5), Str>>} :
              /\ heap[req].data = NULL
              /\ heap' = [heap EXCEPT ![req].data = n,
                                      ![req].cmd = IF tagged THEN Str ELSE None] \o data \o <<Frame>>
              /\ UNCHANGED <<wild, app, calls>>
  BY ZenonT(60) DEF Receive
<1>3. size \in Nat
  BY ONLY BoundsAssumption, size \in 0 .. MaxSize
<1> DEFINE n == Next1st
           string == <<Obj("STR", n + 1), Str>>
           array  == <<Obj("ARRAY", n + 1), [kind |-> "array", ptr |-> n + 2],
                       [kind |-> "slots", at |-> [i \in 1 .. size |-> n + 2 + i]]>>
                     \o [i \in 1 .. size |-> Obj("INTEGER", NULL)]
           object == <<Obj("MAP", n + 1), Map(n + 2), Table(<<n + 3>>), KV(Str, n + 4)>>
           number == object \o <<Obj("INTEGER", NULL)>>
           text   == object \o <<Obj("STR", n + 5), Str>>
<1>4. PICK data :
          /\ data \in {string, array, number, text}
          /\ heap[req].data = NULL /\ wild' = wild /\ app' = app /\ calls' = calls
          /\ heap' = [heap EXCEPT ![req].data = n, ![req].cmd = IF tagged THEN Str ELSE None] \o data \o <<Frame>>
  BY ONLY <1>2
<1>5. n = l + 1 /\ n + 1 = l + 2 /\ n + 2 = l + 3 /\ n + 3 = l + 4 /\ n + 4 = l + 5 /\ n + 5 = l + 6
  BY ONLY <1>1 DEF Next1st
<1>. HIDE DEF l, n
<1>6. req \in Block /\ heap[req].kind = "req" /\ heap[req] \in Reqs
  <2>1. req \in Block /\ heap[req].kind = "req" /\ heap[req] \in Content
    BY ONLY IInv, calls = << >>, HeldIs, req \in Held("req")
  <2>. QED
    BY ONLY <2>1, FieldsOf
<1>7. \E cmd \in {None, Str} :
         heap' = [heap EXCEPT ![req] = [kind |-> "req", cmd |-> cmd, data |-> l + 1]] \o data \o <<Frame>>
  <2> DEFINE cmd == IF tagged THEN Str ELSE None
  <2>1. cmd \in {None, Str} /\ heap' = [heap EXCEPT ![req].data = n, ![req].cmd = cmd] \o data \o <<Frame>>
    BY ONLY <1>4
  <2>. HIDE DEF cmd
  <2>2. PICK H : H = [heap EXCEPT ![req].data = n, ![req].cmd = cmd]
    OBVIOUS
  <2>3. Fills(req, n, cmd, H)
    BY ONLY <1>6, <2>2 DEF Fills
  <2>4. H = [heap EXCEPT ![req] = [kind |-> "req", cmd |-> cmd, data |-> n]]
    BY ONLY <2>3, Filled
  <2>5. heap' = H \o data \o <<Frame>>
    BY ONLY <2>1, <2>2
  <2>. QED
    BY ONLY <1>5, <2>1, <2>4, <2>5
<1>8. SUFFICES \E own : /\ data \in Seq(Content) /\ data # << >> /\ data[1].kind = "obj"
                        /\ Tree(data, own) /\ own[l + 1] = <<req, 1>>
  <2>1. PICK own : /\ data \in Seq(Content) /\ data # << >> /\ data[1].kind = "obj"
                   /\ Tree(data, own) /\ own[l + 1] = <<req, 1>>
    OBVIOUS
  <2>2. calls' = << >>
    BY ONLY <1>4, calls = << >>
  <2>3. data[1] # Frame
    BY ONLY <2>1 DEF Frame
  <2>4. Plants(req, data, own)
    BY ONLY <1>4, <1>7, <2>1, <2>2, <2>3, calls = << >>, req \in Held("req") DEF Plants, l
  <2>. QED
    BY ONLY <2>4, IInv, Planted
<1> DEFINE plain == [t \in Int |-> IF t = l + 1 THEN <<req, 1>> ELSE <<t - 1, 1>>]
           slots == [t \in Int |-> IF t > l + 3 THEN <<l + 3, t - l - 3>> ELSE plain[t]]
<1>a. plain[l + 1] = <<req, 1>> /\ \A t \in Int : t # l + 1 => plain[t] = <<t - 1, 1>>
  <2>1. l + 1 \in Int
    BY ONLY <1>1
  <2>. QED
    BY ONLY <2>1
<1>b. /\ \A t \in Int : t > l + 3 => slots[t] = <<l + 3, t - l - 3>>
      /\ \A t \in Int : ~ (t > l + 3) => slots[t] = plain[t]
  <2>. HIDE DEF plain
  <2>. QED
    OBVIOUS
<1>. HIDE DEF plain, slots
<1>9. plain[l + 1] = <<req, 1>> /\ \A k \in 1 .. 5 : plain[l + k + 1] = <<l + k, 1>>
  <2>2. ASSUME NEW k \in 1 .. 5
        PROVE  plain[l + k + 1] = <<l + k, 1>>
    <3> DEFINE t == l + k + 1
    <3>1. t \in Int /\ t # l + 1 /\ t - 1 = l + k
      BY ONLY <1>1, <2>2
    <3>. HIDE DEF t
    <3>2. plain[t] = <<t - 1, 1>>
      BY ONLY <1>a, <3>1
    <3>. QED
      BY ONLY <3>1, <3>2 DEF t
  <2>. QED
    BY ONLY <1>a, <2>2
<1>10. plain[l + 2] = <<l + 1, 1>> /\ plain[l + 3] = <<l + 2, 1>>
  <2>1. 1 \in 1 .. 5 /\ 2 \in 1 .. 5 /\ l + 1 + 1 = l + 2 /\ l + 2 + 1 = l + 3
    BY ONLY <1>1
  <2>2. plain[l + 1 + 1] = <<l + 1, 1>> /\ plain[l + 2 + 1] = <<l + 2, 1>>
    BY ONLY <1>9, <2>1
  <2>. QED
    BY ONLY <2>1, <2>2
<1>11. /\ slots[l + 1] = <<req, 1>> /\ slots[l + 2] = <<l + 1, 1>> /\ slots[l + 3] = <<l + 2, 1>>
       /\ \A i \in 1 .. size : slots[l + 3 + i] = <<l + 3, i>>
  <2>1. /\ l + 1 \in Int /\ l + 2 \in Int /\ l + 3 \in Int
        /\ ~ (l + 1 > l + 3) /\ ~ (l + 2 > l + 3) /\ ~ (l + 3 > l + 3)
    BY ONLY <1>1
  <2>2. ASSUME NEW i \in 1 .. size
        PROVE  slots[l + 3 + i] = <<l + 3, i>>
    <3> DEFINE t == l + 3 + i
    <3>1. t \in Int /\ t > l + 3 /\ t - l - 3 = i
      BY ONLY <1>1, <1>3, <2>2
    <3>. HIDE DEF t
    <3>2. slots[t] = <<l + 3, t - l - 3>>
      BY ONLY <1>b, <3>1
    <3>. QED
      BY ONLY <3>1, <3>2 DEF t
  <2>3. slots[l + 1] = plain[l + 1] /\ slots[l + 2] = plain[l + 2] /\ slots[l + 3] = plain[l + 3]
    BY ONLY <1>b, <2>1
  <2>4. slots[l + 1] = <<req, 1>> /\ slots[l + 2] = <<l + 1, 1>> /\ slots[l + 3] = <<l + 2, 1>>
    BY ONLY <1>a, <1>10, <2>3
  <2>. QED
    BY ONLY <2>2, <2>4
<1>12. Len(heap) \in Nat
  BY ONLY <1>1 DEF l
<1>13. CASE data = string
  <2>1. data = <<Obj("STR", Len(heap) + 2), Str>> /\ plain[Len(heap) + 2] = <<Len(heap) + 1, 1>>
    BY ONLY <1>5, <1>10, <1>13 DEF l
  <2>2. /\ data \in Seq(Content) /\ data # << >> /\ data[1].kind = "obj"
        /\ Tree(data, plain)
    BY ONLY <1>12, <2>1, StringTree
  <2>. QED
    BY ONLY <1>9, <2>2
<1>14. CASE data = array
  <2>1. data = Numbers(Len(heap), size)
    BY ONLY <1>5, <1>14 DEF l, Numbers
  <2>2. Placed(slots, Len(heap), size)
    BY ONLY <1>11 DEF l, Placed
  <2>3. /\ data \in Seq(Content) /\ data # << >> /\ data[1].kind = "obj"
        /\ Tree(data, slots)
    BY ONLY <1>3, <1>12, <2>1, <2>2, ArrayTree
  <2>. QED
    BY ONLY <1>11, <2>3
<1>15. \A k \in 1 .. 5 : plain[Len(heap) + k + 1] = <<Len(heap) + k, 1>>
  BY ONLY <1>9 DEF l
<1>16. CASE data = number
  <2> DEFINE a == Obj("INTEGER", NULL)
             rest == <<a>>
  <2>1. a \in Content /\ a.kind = "obj" /\ Fields(a) = <<NULL>>
    <3>1. "INTEGER" \in Types /\ NULL \in Int
      BY DEF Types, NULL
    <3>. QED
      BY ONLY <3>1, ObjIs
  <2>. HIDE DEF a
  <2>3. data = <<Obj("MAP", Len(heap) + 2), Map(Len(heap) + 3), Table(<<Len(heap) + 4>>),
                 KV(Str, Len(heap) + 5)>> \o rest
    BY ONLY <1>5, <1>16 DEF l, a
  <2>4. rest = <<a>>
    OBVIOUS
  <2>. HIDE DEF rest
  <2>5. /\ data \in Seq(Content) /\ data # << >> /\ data[1].kind = "obj"
        /\ Tree(data, plain)
    BY ONLY <1>12, <1>15, <2>1, <2>3, <2>4, ObjectTree
  <2>. QED
    BY ONLY <1>9, <2>5
<1>17. CASE data = text
  <2> DEFINE a == Obj("STR", l + 6)
             rest == <<a, Str>>
  <2>1. a \in Content /\ a.kind = "obj" /\ a.type = "STR" /\ Fields(a) = <<Len(heap) + 6>>
    <3>1. "STR" \in Types /\ l + 6 \in Int
      BY ONLY <1>1 DEF Types
    <3>2. Obj("STR", l + 6) \in Content /\ a.kind = "obj" /\ a.type = "STR" /\ Fields(a) = <<l + 6>>
      BY ONLY <3>1, ObjIs
    <3>. QED
      BY ONLY <3>2 DEF l
  <2>. HIDE DEF a
  <2>4. data = <<Obj("MAP", Len(heap) + 2), Map(Len(heap) + 3), Table(<<Len(heap) + 4>>),
                 KV(Str, Len(heap) + 5)>> \o rest
    BY ONLY <1>5, <1>17 DEF l, a
  <2>5. rest = <<a, Str>>
    OBVIOUS
  <2>. HIDE DEF rest
  <2>6. /\ data \in Seq(Content) /\ data # << >> /\ data[1].kind = "obj"
        /\ Tree(data, plain)
    BY ONLY <1>12, <1>15, <2>1, <2>4, <2>5, ObjectTree
  <2>. QED
    BY ONLY <1>9, <2>6
<1>. QED
  BY ONLY <1>4, <1>13, <1>14, <1>16, <1>17, SMTT(20)

-----------------------------------------------------------------------------
(* The free in progress *)

\* What the calls lead to has no pointer that was never set.
LEMMA OnTheWay ==
    ASSUME IInv, NEW c \in Reach(Called)
    PROVE  /\ c \in Block /\ c \in Now /\ Fit(c) /\ heap[c] \in Content
           /\ \A i \in DOMAIN Pointers(c) :
                 \/ Pointers(c)[i] = NULL /\ heap[c].kind # "array"
                 \/ /\ Pointers(c)[i] \in Block /\ Pointers(c)[i] \in Now /\ Pointers(c)[i] \notin Roots
                    /\ Pointers(c)[i] \in Reach(Called) /\ To(c, Pointers(c)[i])
                    /\ heap[Pointers(c)[i]].kind = Leads(heap[c])
                    /\ heap[c].kind = "obj" => heap[c].type \in DOMAIN ViaKind
<1>1. /\ TypeOK /\ Settled /\ \A d \in Now : Fit(d)
      /\ \A p \in Now : \A i \in DOMAIN Pointers(p) :
            Pointers(p)[i] \in Block => Pointers(p)[i] \notin Roots
  BY Parts
<1>2. Len(heap) \in Nat /\ Block = 1 .. Len(heap) /\ \A d \in Block : heap[d] \in Content
  BY ONLY <1>1, Here
<1>3. /\ Now \subseteq Block
      /\ \A d \in Block : d \in Roots => d \in Now
      /\ \A d \in Now : \A t : To(d, t) => t \in Now
  BY ONLY <1>1, NowIs
<1> DEFINE r == Called
           s == Now
<1>4. /\ Reach(r) \subseteq Block
      /\ \A d \in Reach(r) : \A t : To(d, t) => t \in Reach(r)
  BY ONLY <1>2, ReachIs
<1>5. \A d \in Block : d \in r => d \in s
  BY ONLY <1>3 DEF Roots
<1>6. \A d \in s : \A t : To(d, t) => t \in s
  BY ONLY <1>3
<1>7. c \in Reach(r)
  OBVIOUS
<1>. HIDE DEF r, s
<1>8. Reach(r) \subseteq s
  BY ONLY <1>2, <1>5, <1>6, ReachLeast
<1>9. c \in Block /\ c \in Now
  BY ONLY <1>4, <1>7, <1>8 DEF s
<1>10. ASSUME NEW i \in DOMAIN Pointers(c)
       PROVE  \/ Pointers(c)[i] = NULL /\ heap[c].kind # "array"
              \/ /\ Pointers(c)[i] \in Block /\ Pointers(c)[i] \in Now /\ Pointers(c)[i] \notin Roots
                 /\ Pointers(c)[i] \in Reach(Called) /\ To(c, Pointers(c)[i])
                 /\ heap[Pointers(c)[i]].kind = Leads(heap[c])
                 /\ heap[c].kind = "obj" => heap[c].type \in DOMAIN ViaKind
  <2> DEFINE t == Pointers(c)[i]
  <2>1. Sound(heap[c], t)
    BY ONLY <1>1, <1>9, <1>10 DEF Fit
  <2>2. t # Garbage
    BY ONLY <1>1, <1>7, <1>10 DEF Settled, r
  <2>3. \/ t = NULL /\ heap[c].kind # "array"
        \/ /\ t \in Block /\ heap[t].kind = Leads(heap[c])
           /\ heap[c].kind = "obj" => heap[c].type \in DOMAIN ViaKind
    BY ONLY <2>1, <2>2 DEF Sound
  <2>4. t \in Block => To(c, t)
    BY ONLY <1>10 DEF To
  <2>5. t \in Block => t \notin Roots
    BY ONLY <1>1, <1>9, <1>10
  <2>. HIDE DEF t
  <2>6. t \in Block => t \in Now /\ t \in Reach(Called)
    BY ONLY <1>3, <1>4, <1>7, <1>9, <2>4 DEF r
  <2>. QED
    BY ONLY <2>3, <2>4, <2>5, <2>6 DEF t
<1>. QED
  BY ONLY <1>1, <1>2, <1>9, <1>10

\* The block that a call is made for.
LEMMA RunsIs ==
    ASSUME IInv, NEW of, Runs(of), NEW x, x = Head(calls).on
    PROVE  /\ calls # << >> /\ x \in Block /\ x \in Now /\ x \in Roots /\ x \in Reach(Called)
           /\ Fit(x) /\ heap[x] \in Content /\ heap[x] # Dead
           /\ of = "block" => Pointers(x) = << >>
           /\ of # "block" => heap[x].kind = of /\ Pointers(x) = Fields(heap[x])
<1>1. calls # << >> /\ Head(calls).of = of /\ x \in Block /\ heap[x] # Dead
  BY DEF Runs, Alive
<1>2. TypeOK /\ Pending
  BY Parts
<1>3. calls \in Seq(CallType)
  BY ONLY <1>2 DEF TypeOK, CallType
<1>4. Head(calls) = calls[1] /\ 1 \in DOMAIN calls
  BY ONLY <1>1, <1>3
<1>5. calls[1].of = of /\ calls[1].on = x
  BY ONLY <1>1, <1>4, x = Head(calls).on
<1>6. Len(heap) \in Nat /\ Block = 1 .. Len(heap) /\ NULL \notin Block
  BY ONLY <1>2, Here
<1>7. x \in Called
  BY ONLY <1>4, <1>5 DEF Called
<1> DEFINE r == Called
<1>8. \A d \in Block : d \in r => d \in Reach(r)
  BY ONLY <1>6, ReachIs
<1>9. x \in Reach(Called) /\ x \in Roots
  BY ONLY <1>1, <1>7, <1>8 DEF Roots
<1>10. x \in Now /\ Fit(x) /\ heap[x] \in Content
  BY ONLY <1>9, IInv, OnTheWay
<1>11. of = "block" => Pointers(x) = << >>
  BY ONLY <1>4, <1>5 DEF Pointers, Entered
<1>12. of \in {"block", heap[x].kind} /\ \A i \in DOMAIN calls : calls[i].on = x => i = 1
  BY ONLY <1>1, <1>2, <1>4, <1>5, <1>6 DEF Pending
<1>13. of # "block" => ~ Entered(x)
  BY ONLY <1>5, <1>12 DEF Entered
<1>14. of # "block" => Pointers(x) = Fields(heap[x])
  BY ONLY <1>13 DEF Pointers
<1>. QED
  BY ONLY <1>1, <1>9, <1>10, <1>11, <1>12, <1>14

\* The others keep their pointers, unless they have none and are to be freed.
LEMMA Keeps ==
    ASSUME IInv, NEW x, calls # << >>, x = Head(calls).on,
           NEW more \in Seq(CallType), calls' = more \o Tail(calls),
           NEW c, c # x, heap'[c] = heap[c],
           \A k \in DOMAIN more : more[k].on = c /\ more[k].of = "block" => Fields(heap[c]) = << >>
    PROVE  Pointers(c)' = Pointers(c)
<1>1. TypeOK
  BY Parts
<1>2. calls \in Seq(CallType)
  BY ONLY <1>1 DEF TypeOK, CallType
<1>3. /\ \A k \in DOMAIN more : k \in DOMAIN calls' /\ calls'[k] = more[k]
      /\ \A i \in DOMAIN calls : i # 1 => /\ Len(more) + i - 1 \in DOMAIN calls'
                                          /\ calls'[Len(more) + i - 1] = calls[i]
      /\ \A j \in DOMAIN calls' : j \notin DOMAIN more =>
            /\ j - Len(more) + 1 \in DOMAIN calls
            /\ calls'[j] = calls[j - Len(more) + 1]
      /\ Head(calls) = calls[1]
  BY ONLY <1>2, calls # << >>, more \in Seq(CallType), calls' = more \o Tail(calls), CallsNext, SMTT(20)
<1>4. Entered(c) => Entered(c)'
  <2> SUFFICES ASSUME Entered(c)
               PROVE  Entered(c)'
    OBVIOUS
  <2>1. PICK i \in DOMAIN calls : calls[i].of = "block" /\ calls[i].on = c
    BY DEF Entered
  <2>2. i # 1
    BY ONLY <1>3, <2>1, c # x, x = Head(calls).on
  <2>3. \E j \in DOMAIN calls' : calls'[j] = calls[i]
    BY ONLY <1>3, <2>1, <2>2
  <2>. QED
    BY ONLY <2>1, <2>3 DEF Entered
<1>5. Entered(c)' => Entered(c) \/ Fields(heap[c]) = << >>
  <2> SUFFICES ASSUME Entered(c)'
               PROVE  Entered(c) \/ Fields(heap[c]) = << >>
    OBVIOUS
  <2>1. PICK j \in DOMAIN calls' : calls'[j].of = "block" /\ calls'[j].on = c
    BY DEF Entered
  <2>2. CASE j \in DOMAIN more
    BY ONLY <1>3, <2>1, <2>2,
            \A k \in DOMAIN more : more[k].on = c /\ more[k].of = "block" => Fields(heap[c]) = << >>
  <2>3. CASE j \notin DOMAIN more
    <3>1. \E i \in DOMAIN calls : calls[i] = calls'[j]
      BY ONLY <1>3, <2>1, <2>3
    <3>. QED
      BY ONLY <2>1, <3>1 DEF Entered
  <2>. QED
    BY ONLY <2>2, <2>3
<1>. QED
  BY ONLY <1>4, <1>5, heap'[c] = heap[c] DEF Pointers

\* p, the pointers of the block that is freed, are handed on, each in its place,
\* and x, the one called for, may come behind them.
Hands(x, p, more) ==
    /\ \A k \in DOMAIN more :
          \/ more[k].on = NULL
          \/ /\ k \in DOMAIN p /\ more[k].on = p[k] /\ p[k] \in Block
             /\ more[k].of \in {"block", heap[p[k]].kind}
             /\ more[k].of = "block" => Fields(heap[p[k]]) = << >>
          \/ more[k].on = x /\ more[k].of = "block"
    /\ \A k, l \in DOMAIN more : more[k].on = x /\ more[l].on = x => k = l
    /\ \A i \in DOMAIN p : p[i] \in Block => \E k \in DOMAIN more : more[k].on = p[i]

\* The block called for is all that changes: it is lost, or comes again.
Frees(x, b, more) ==
    /\ b \in Content /\ heap' = [heap EXCEPT ![x] = b] /\ app' = app /\ wild' = wild
    /\ more \in Seq(CallType) /\ calls' = more \o Tail(calls)
    /\ Hands(x, Pointers(x), more)
    /\ \/ Lost(b) /\ \A k \in DOMAIN more : more[k].on # x
       \/ /\ b.kind = heap[x].kind /\ b # Dead /\ b.kind # "kv"
          /\ \E k \in DOMAIN more : more[k].on = x

LEMMA Freed ==
    ASSUME IInv, NEW of, Runs(of), NEW x, x = Head(calls).on, NEW b, NEW more, Frees(x, b, more)
    PROVE  IInv'
<1>1. /\ b \in Content /\ heap' = [heap EXCEPT ![x] = b] /\ app' = app /\ wild' = wild
      /\ more \in Seq(CallType) /\ calls' = more \o Tail(calls)
  BY DEF Frees
<1>2. \/ Lost(b) /\ \A k \in DOMAIN more : more[k].on # x
      \/ /\ b.kind = heap[x].kind /\ b # Dead /\ b.kind # "kv"
         /\ \E k \in DOMAIN more : more[k].on = x
  BY DEF Frees
<1>3. /\ \A k \in DOMAIN more :
            \/ more[k].on = NULL
            \/ /\ k \in DOMAIN Pointers(x) /\ more[k].on = Pointers(x)[k] /\ Pointers(x)[k] \in Block
               /\ more[k].of \in {"block", heap[Pointers(x)[k]].kind}
               /\ more[k].of = "block" => Fields(heap[Pointers(x)[k]]) = << >>
            \/ more[k].on = x /\ more[k].of = "block"
      /\ \A k, l \in DOMAIN more : more[k].on = x /\ more[l].on = x => k = l
      /\ \A i \in DOMAIN Pointers(x) : Pointers(x)[i] \in Block => \E k \in DOMAIN more : more[k].on = Pointers(x)[i]
  BY DEF Frees, Hands
<1>4. /\ calls # << >> /\ x \in Block /\ x \in Now /\ x \in Roots /\ x \in Reach(Called)
  BY ONLY IInv, Runs(of), x = Head(calls).on, RunsIs
<1>5. TypeOK /\ wild = FALSE /\ Now \subseteq Block /\ NULL \notin Block
  BY Parts, NowIs, Here
<1>6. \A p, q \in Now : \A i \in DOMAIN Pointers(p), j \in DOMAIN Pointers(q) :
         Pointers(p)[i] = Pointers(q)[j] /\ Pointers(p)[i] \in Block => p = q /\ i = j
  BY Parts
<1>7. \A i \in DOMAIN Pointers(x) : Pointers(x)[i] \in Block =>
         Pointers(x)[i] # x /\ To(x, Pointers(x)[i])
  <2>1. \A i \in DOMAIN Pointers(x) :
           \/ Pointers(x)[i] = NULL
           \/ Pointers(x)[i] \notin Roots /\ To(x, Pointers(x)[i])
    BY ONLY <1>4, IInv, OnTheWay
  <2>. QED
    BY ONLY <1>4, <1>5, <2>1
<1>8. /\ heap' \in Seq(Content) /\ Block' = Block
      /\ heap'[x] = b /\ \A d \in Block : d # x => heap'[d] = heap[d]
  BY ONLY <1>1, <1>4, <1>5, Replaced
<1>9. ASSUME NEW c \in Now \ {x}
      PROVE  Pointers(c)' = Pointers(c)
  <2>1. \A k \in DOMAIN more : more[k].on = c /\ more[k].of = "block" => Fields(heap[c]) = << >>
    BY ONLY <1>3, <1>5, <1>9
  <2>2. c # x /\ heap'[c] = heap[c]
    BY ONLY <1>5, <1>8, <1>9
  <2>. QED
    BY ONLY <1>1, <1>4, <2>1, <2>2, IInv, x = Head(calls).on, Keeps
<1>10. \A k, l \in DOMAIN more : more[k].on = more[l].on /\ more[k].on # NULL => k = l
  <2> SUFFICES ASSUME NEW k \in DOMAIN more, NEW l \in DOMAIN more,
                      more[k].on = more[l].on, more[k].on # NULL
               PROVE  k = l
    OBVIOUS
  <2>1. CASE more[k].on = x
    BY ONLY <1>3, <2>1, more[k].on = more[l].on
  <2>2. CASE more[k].on # x
    <3>1. /\ k \in DOMAIN Pointers(x) /\ more[k].on = Pointers(x)[k] /\ Pointers(x)[k] \in Block
          /\ l \in DOMAIN Pointers(x) /\ more[l].on = Pointers(x)[l]
      BY ONLY <1>3, <2>2, more[k].on = more[l].on, more[k].on # NULL
    <3>. QED
      BY ONLY <1>4, <1>6, <3>1, more[k].on = more[l].on
  <2>. QED
    BY ONLY <2>1, <2>2
<1>11. \A t : To(x, t) => \E k \in DOMAIN more : more[k].on = t
  BY ONLY <1>3 DEF To
<1> DEFINE stays == \E k \in DOMAIN more : more[k].on = x
           gone == {x}
           stay == IF stays THEN {x} ELSE {}
<1>12. ASSUME stays
       PROVE  Pointers(x)' = << >> /\ heap'[x].kind = heap[x].kind /\ Fit(x)'
  <2>1. PICK k \in DOMAIN more : more[k].on = x
    BY ONLY <1>12
  <2>2. more[k].of = "block"
    BY ONLY <1>3, <1>4, <1>5, <1>7, <2>1
  <2>3. \A j \in DOMAIN more : j \in DOMAIN calls' /\ calls'[j] = more[j]
    <3>1. calls \in Seq(CallType)
      BY ONLY <1>5 DEF TypeOK, CallType
    <3>. QED
      BY ONLY <1>1, <1>4, <3>1, CallsNext
  <2>4. Entered(x)'
    BY ONLY <2>1, <2>2, <2>3 DEF Entered
  <2>5. Pointers(x)' = << >>
    BY ONLY <2>4 DEF Pointers
  <2>6. b.kind = heap[x].kind /\ b # Dead /\ b.kind # "kv"
    BY ONLY <1>2, <1>12
  <2>7. Fit(x)'
    BY ONLY <1>8, <2>5, <2>6 DEF Fit
  <2>. QED
    BY ONLY <1>8, <2>5, <2>6, <2>7
<1>13. stays \/ Lost(b)
  BY ONLY <1>2
<1>14. \A k \in DOMAIN more :
          \/ more[k].on = NULL
          \/ more[k].on = x /\ x \in stay /\ more[k].of = "block"
          \/ /\ more[k].on \notin gone /\ more[k].of \in {"block", heap[more[k].on].kind}
             /\ \E g \in gone : To(g, more[k].on)
  <2> SUFFICES ASSUME NEW k \in DOMAIN more, more[k].on # NULL
               PROVE  \/ more[k].on = x /\ x \in stay /\ more[k].of = "block"
                      \/ /\ more[k].on \notin gone /\ more[k].of \in {"block", heap[more[k].on].kind}
                         /\ \E g \in gone : To(g, more[k].on)
    OBVIOUS
  <2>1. CASE more[k].on = x /\ more[k].of = "block"
    <3>1. x \in stay
      BY ONLY <2>1, k \in DOMAIN more
    <3>. QED
      BY ONLY <2>1, <3>1
  <2>2. CASE /\ k \in DOMAIN Pointers(x) /\ more[k].on = Pointers(x)[k] /\ Pointers(x)[k] \in Block
             /\ more[k].of \in {"block", heap[Pointers(x)[k]].kind}
    BY ONLY <1>7, <2>2
  <2>. QED
    BY ONLY <1>3, <2>1, <2>2, more[k].on # NULL
<1>. HIDE DEF stays
<1>15. \A c \in stay : c = x /\ stays
  OBVIOUS
<1>16. stay \subseteq gone
  OBVIOUS
<1>17. \A g \in gone : Lost(heap'[g]) \/ (g = x /\ \E k \in DOMAIN more : more[k].on = x)
  BY ONLY <1>8, <1>13 DEF stays
<1>18. \A c \in Now \ gone : Pointers(c)' = Pointers(c)
  BY ONLY <1>9
<1>19. /\ \A c \in Block \ gone : heap'[c] = heap[c]
       /\ \A g \in gone : g = x
       /\ gone \subseteq Now /\ x \in gone
  BY ONLY <1>4, <1>8
<1>. HIDE DEF gone, stay
<1>20. /\ \A c \in stay : heap'[c].kind = heap[c].kind /\ Fit(c)'
       /\ \A c \in stay : \A i \in DOMAIN Pointers(c)' : Pointers(c)'[i] = NULL
  BY ONLY <1>12, <1>15
<1>21. \A g \in gone : \A t : To(g, t) => t \in gone \/ \E k \in DOMAIN more : more[k].on = t
  BY ONLY <1>11, <1>19
<1>22. wild' = FALSE
  BY ONLY <1>1, <1>5
<1>23. Passes(x, more, gone, stay)
  BY ONLY <1>1, <1>4, <1>8, <1>10, <1>14, <1>16, <1>17, <1>18, <1>19, <1>20, <1>21, <1>22,
          x = Head(calls).on DEF Passes
<1>. QED
  BY ONLY <1>23, IInv, Passed

\* Nothing is left to do for NULL; no call is made for what is not allocated.
LEMMA ReturnStep ==
    ASSUME IInv, Return
    PROVE  IInv'
<1> DEFINE x == Head(calls).on
           more == << >>
<1>1. /\ calls # << >> /\ ~ Alive(x) /\ wild' = (wild \/ x # NULL)
      /\ calls' = more \o Tail(calls) /\ heap' = heap /\ app' = app
  BY DEF Return, Then
<1>2. /\ TypeOK /\ wild = FALSE /\ Pending /\ Settled
      /\ \A c \in Now : Fit(c)
      /\ \A c \in Block \ Now : Lost(heap[c])
  BY Parts
<1>3. /\ \A p, q \in Now : \A i \in DOMAIN Pointers(p), j \in DOMAIN Pointers(q) :
            Pointers(p)[i] = Pointers(q)[j] /\ Pointers(p)[i] \in Block => p = q /\ i = j
      /\ \A p \in Now : \A i \in DOMAIN Pointers(p) :
            Pointers(p)[i] \in Block => Pointers(p)[i] \notin Roots
  BY Parts
<1>4. calls \in Seq(CallType) /\ more \in Seq(CallType)
  BY <1>2 DEF TypeOK, CallType
<1>5. /\ Now \subseteq Block
      /\ \A c \in Block : c \in Roots => c \in Now
      /\ \A c \in Now : \A t : To(c, t) => t \in Now
  BY ONLY <1>2, NowIs
<1>6. Len(heap) \in Nat /\ Block = 1 .. Len(heap) /\ NULL \notin Block
  BY ONLY <1>2, Here
<1>7. DOMAIN more = {}
  OBVIOUS
<1>. HIDE DEF more
<1>8. /\ calls' \in Seq(CallType)
      /\ \A i \in DOMAIN calls : i # 1 => /\ Len(more) + i - 1 \in DOMAIN calls'
                                          /\ calls'[Len(more) + i - 1] = calls[i]
      /\ \A j \in DOMAIN calls' : j \notin DOMAIN more =>
            /\ j - Len(more) + 1 \in DOMAIN calls
            /\ calls'[j] = calls[j - Len(more) + 1]
      /\ 1 \in DOMAIN calls /\ Head(calls) = calls[1]
      /\ \A j \in DOMAIN calls' : j \in Int
      /\ Len(more) \in Nat
  BY ONLY <1>1, <1>4, CallsNext, SMTT(20)
<1>9. x = NULL
  <2>1. x \in Called /\ (x # NULL => x \in Block)
    BY ONLY <1>2, <1>8 DEF Called, Pending
  <2>2. x \in Block => x \in Now
    BY ONLY <1>5, <2>1 DEF Roots
  <2>3. x \in Block => Alive(x)
    BY ONLY <1>2, <2>2 DEF Fit, Alive
  <2>. QED
    BY ONLY <1>1, <2>1, <2>3
<1>. HIDE DEF x
<1>10. TypeOK' /\ wild' = FALSE /\ Block' = Block
  BY ONLY <1>1, <1>2, <1>8, <1>9 DEF TypeOK, CallType, Block
<1>11. ASSUME NEW c \in Block
       PROVE  Pointers(c)' = Pointers(c)
  <2>1. c # x /\ heap'[c] = heap[c]
    BY ONLY <1>1, <1>6, <1>9
  <2>2. x = Head(calls).on
    BY DEF x
  <2>. QED
    BY ONLY <1>1, <1>4, <1>7, <2>1, <2>2, IInv, Keeps
<1>12. \A c \in Block : \A t : To(c, t)' <=> To(c, t)
  BY ONLY <1>10, <1>11 DEF To
<1>13. \A c \in Called' : c \in Called
  <2> SUFFICES ASSUME NEW c \in Called'
               PROVE  c \in Called
    OBVIOUS
  <2>1. PICK j \in DOMAIN calls' : calls'[j].on = c
    BY DEF Called
  <2>2. \E i \in DOMAIN calls : calls[i] = calls'[j]
    BY ONLY <1>7, <1>8, <2>1
  <2>. QED
    BY ONLY <2>1, <2>2 DEF Called
<1>14. \A c \in Block : c \in Called => c \in Called'
  <2> SUFFICES ASSUME NEW c \in Block, c \in Called
               PROVE  c \in Called'
    OBVIOUS
  <2>1. PICK i \in DOMAIN calls : calls[i].on = c
    BY DEF Called
  <2>2. i # 1
    BY ONLY <1>6, <1>8, <1>9, <2>1, c \in Block DEF x
  <2>3. \E j \in DOMAIN calls' : calls'[j] = calls[i]
    BY ONLY <1>8, <2>1, <2>2
  <2>. QED
    BY ONLY <2>1, <2>3 DEF Called
<1>15. (\A c \in Roots' : c \in Roots) /\ \A c \in Block : c \in Roots => c \in Roots'
  BY ONLY <1>1, <1>13, <1>14 DEF Roots
<1>16. /\ After \subseteq Block'
       /\ \A c \in Block' : c \in Roots' => c \in After
       /\ \A c \in After : \A t : To(c, t)' => t \in After
  BY ONLY <1>10, AfterIs
<1>17. After \subseteq Now
  <2> DEFINE s == Now
  <2>1. \A c \in Block' : c \in Roots' => c \in s
    BY ONLY <1>5, <1>10, <1>15
  <2>2. \A c \in s : \A t : To(c, t)' => t \in s
    BY ONLY <1>5, <1>12
  <2>. HIDE DEF s
  <2>3. After \subseteq s
    BY ONLY <1>10, <2>1, <2>2, AfterLeast
  <2>. QED
    BY ONLY <2>3 DEF s
<1>18. Now \subseteq After
  <2> DEFINE s == After
  <2>1. \A c \in Block : c \in Roots => c \in s
    BY ONLY <1>10, <1>15, <1>16
  <2>2. \A c \in s : \A t : To(c, t) => t \in s
    BY ONLY <1>10, <1>12, <1>16
  <2>. HIDE DEF s
  <2>3. Now \subseteq s
    BY ONLY <1>2, <2>1, <2>2, NowLeast
  <2>. QED
    BY ONLY <2>3 DEF s
<1>19. \A c \in After : c \in Block /\ c \in Now /\ Pointers(c)' = Pointers(c)
  BY ONLY <1>5, <1>11, <1>17
<1>20. ASSUME NEW c \in After
       PROVE  Fit(c)'
  <2>1. heap'[c] # Dead /\ (heap'[c].kind = "kv" => heap'[c].key # Dead)
    BY ONLY <1>1, <1>2, <1>19, <1>20 DEF Fit
  <2>2. ASSUME NEW i \in DOMAIN Pointers(c)'
        PROVE  Sound(heap[c], Pointers(c)[i])'
    <3>1. Sound(heap[c], Pointers(c)[i]) /\ Pointers(c)' = Pointers(c)
      BY ONLY <1>2, <1>19, <1>20, <2>2 DEF Fit
    <3>. QED
      BY ONLY <1>1, <1>10, <3>1 DEF Sound
  <2>. QED
    BY ONLY <2>1, <2>2 DEF Fit
<1>21. \A p, q \in After : \A i \in DOMAIN Pointers(p)', j \in DOMAIN Pointers(q)' :
          Pointers(p)'[i] = Pointers(q)'[j] /\ Pointers(p)'[i] \in Block' => p = q /\ i = j
  BY ONLY <1>3, <1>10, <1>19
<1>22. \A p \in After : \A i \in DOMAIN Pointers(p)' :
          Pointers(p)'[i] \in Block' => Pointers(p)'[i] \notin Roots'
  BY ONLY <1>3, <1>10, <1>15, <1>19
<1>23. Pending'
  <2>1. \A j \in DOMAIN calls' : j - Len(more) + 1 \in DOMAIN calls /\ calls'[j] = calls[j - Len(more) + 1]
    BY ONLY <1>7, <1>8
  <2>2. /\ \A i \in DOMAIN calls : calls[i].on # NULL =>
              /\ calls[i].on \in Block /\ calls[i].on \notin app
              /\ calls[i].of \in {"block", heap[calls[i].on].kind}
        /\ \A i, j \in DOMAIN calls : calls[i].on = calls[j].on /\ calls[i].on # NULL => i = j
    BY ONLY <1>2 DEF Pending
  <2>3. \A j \in DOMAIN calls' : calls'[j].on # NULL =>
           /\ calls'[j].on \in Block' /\ calls'[j].on \notin app'
           /\ calls'[j].of \in {"block", heap'[calls'[j].on].kind}
    BY ONLY <1>1, <1>10, <2>1, <2>2
  <2>4. ASSUME NEW i \in DOMAIN calls', NEW j \in DOMAIN calls',
               calls'[i].on = calls'[j].on, calls'[i].on # NULL
        PROVE  i = j
    <3> DEFINE k == i - Len(more) + 1
               l == j - Len(more) + 1
    <3>1. k \in DOMAIN calls /\ l \in DOMAIN calls /\ calls'[i] = calls[k] /\ calls'[j] = calls[l]
      BY ONLY <2>1, <2>4
    <3>2. k = l => i = j
      BY ONLY <1>8, <2>4
    <3>. HIDE DEF k, l
    <3>3. k = l
      BY ONLY <2>2, <2>4, <3>1
    <3>. QED
      BY ONLY <3>2, <3>3
  <2>. QED
    BY ONLY <2>3, <2>4 DEF Pending
<1>24. Settled'
  <2> DEFINE of == Reach(Called)
             to == Called'
  <2>1. /\ of \subseteq Block
        /\ \A c \in Block : c \in Called => c \in of
        /\ \A c \in of : \A t : To(c, t) => t \in of
    BY ONLY <1>6, ReachIs
  <2>2. \A c \in of : \A i \in DOMAIN Pointers(c) : Pointers(c)[i] # Garbage
    BY ONLY <1>2 DEF Settled
  <2>3. Len(heap') \in Nat /\ Block' = 1 .. Len(heap')
    BY ONLY <1>10, HereNext
  <2>4. Settled' <=> \A c \in Spread(Edges', Len(heap'), to) :
                        \A i \in DOMAIN Pointers(c)' : Pointers(c)'[i] # Garbage
    BY ONLY TRUE DEF Settled, Reach
  <2>5. \A c \in to : c \in Called
    BY ONLY <1>13
  <2>. HIDE DEF of, to
  <2>6. \A c \in Block' : c \in to => c \in of
    BY ONLY <1>10, <2>1, <2>5
  <2>7. \A c \in of : \A t : To(c, t)' => t \in of
    BY ONLY <1>12, <2>1
  <2>8. Spread(Edges', Len(heap'), to) \subseteq of
    BY ONLY <2>3, <2>6, <2>7, ReachLeastNext
  <2>. QED
    BY ONLY <1>11, <2>1, <2>2, <2>4, <2>8
<1>25. \A c \in Block' \ After : Lost(heap'[c])
  BY ONLY <1>1, <1>2, <1>10, <1>18
<1>. QED
  BY ONLY <1>10, <1>20, <1>21, <1>22, <1>23, <1>24, <1>25, Whole

LEMMA BlockFreeStep ==
    ASSUME IInv, BlockFree
    PROVE  IInv'
<1> DEFINE x == Head(calls).on
           more == << >>
<1>1. /\ Runs("block") /\ heap' = [heap EXCEPT ![x] = Dead] /\ wild' = wild /\ app' = app
      /\ calls' = more \o Tail(calls)
  BY DEF BlockFree, Then
<1>2. more \in Seq(CallType) /\ DOMAIN more = {}
  OBVIOUS
<1>. HIDE DEF x, more
<1>3. x = Head(calls).on
  BY DEF x
<1>4. Pointers(x) = << >>
  BY ONLY <1>1, <1>3, IInv, RunsIs
<1>5. Hands(x, Pointers(x), more)
  BY ONLY <1>2, <1>4 DEF Hands
<1>6. Dead \in Content /\ Lost(Dead)
  BY DEF Content, Lost, Dead
<1>7. Frees(x, Dead, more)
  BY ONLY <1>1, <1>2, <1>5, <1>6 DEF Frees
<1>. QED
  BY ONLY <1>1, <1>3, <1>7, IInv, Freed

\* One pointer is handed on, and the block itself comes behind it.
Owed(x, of, t) ==
    t = NULL \/ /\ t \in Block /\ t # x /\ of \in {"block", heap[t].kind}
                /\ of = "block" => Fields(heap[t]) = << >>

Two(x, of, t, p, more) == p = <<t>> /\ more = <<Call(of, t), Call("block", x)>>

LEMMA HandsTwo ==
    ASSUME NEW x \in Int, x # NULL, NEW of \in Kinds \cup {"block"}, NEW t \in Int, Owed(x, of, t),
           NEW p, NEW more, Two(x, of, t, p, more)
    PROVE  /\ more \in Seq(CallType) /\ Hands(x, p, more)
           /\ \E k \in DOMAIN more : more[k].on = x
<1> DEFINE a == Call(of, t)
           b == Call("block", x)
<1>1. a \in CallType /\ a.of = of /\ a.on = t /\ b \in CallType /\ b.of = "block" /\ b.on = x
  BY DEF Call, CallType
<1>. HIDE DEF a, b
<1>2. more = <<a, b>>
  BY DEF a, b, Two
<1>3. more \in Seq(CallType) /\ DOMAIN more = {1, 2} /\ more[1] = a /\ more[2] = b
  BY ONLY <1>1, <1>2
<1>4. DOMAIN p = {1} /\ p[1] = t
  BY DEF Two
<1>5. x # t
  BY DEF Owed
<1>6. Hands(x, p, more)
  <2>1. \A k \in DOMAIN more :
           \/ more[k].on = NULL
           \/ /\ k \in DOMAIN p /\ more[k].on = p[k] /\ p[k] \in Block
              /\ more[k].of \in {"block", heap[p[k]].kind}
              /\ more[k].of = "block" => Fields(heap[p[k]]) = << >>
           \/ more[k].on = x /\ more[k].of = "block"
    <3>1. t = NULL \/ /\ t \in Block /\ of \in {"block", heap[t].kind}
                      /\ of = "block" => Fields(heap[t]) = << >>
      BY DEF Owed
    <3>. QED
      BY ONLY <1>1, <1>3, <1>4, <3>1
  <2>2. \A k, l \in DOMAIN more : more[k].on = x /\ more[l].on = x => k = l
    BY ONLY <1>1, <1>3, <1>5
  <2>3. \A i \in DOMAIN p : p[i] \in Block => \E k \in DOMAIN more : more[k].on = p[i]
    BY ONLY <1>1, <1>3, <1>4
  <2>. QED
    BY ONLY <2>1, <2>2, <2>3 DEF Hands
<1>. QED
  BY ONLY <1>1, <1>3, <1>6

LEMMA HeapSame ==
    ASSUME TypeOK, NEW x \in Block
    PROVE  heap = [heap EXCEPT ![x] = heap[x]]
<1>1. heap \in Seq(Content)
  BY DEF TypeOK
<1>. QED
  BY ONLY <1>1 DEF Block

LEMMA ObjectFreeStep ==
    ASSUME IInv, ObjectFree
    PROVE  IInv'
<1> DEFINE x == Head(calls).on
           via == heap[x].via
           type == heap[x].type
<1>1. /\ Runs("obj") /\ wild' = wild /\ app' = app
      /\ \/ /\ type \in DOMAIN ViaFree /\ heap' = heap
            /\ calls' = <<Call(ViaFree[type], via), Call("block", x)>> \o Tail(calls)
         \/ /\ type \notin DOMAIN ViaFree /\ heap' = [heap EXCEPT ![x] = Dead]
            /\ calls' = << >> \o Tail(calls)
  BY DEF ObjectFree, Then
<1>2. TypeOK /\ NULL \notin Block /\ \A d \in Block : d \in Int
  BY Parts, Here
<1>. HIDE DEF x
<1>3. x = Head(calls).on
  BY DEF x
<1>4. /\ x \in Block /\ x \in Roots /\ x \in Reach(Called) /\ heap[x] \in Content
      /\ heap[x].kind = "obj" /\ Pointers(x) = Fields(heap[x]) /\ heap[x] # Dead
  BY ONLY <1>1, <1>3, IInv, RunsIs
<1>5. heap[x] \in Objs /\ Pointers(x) = <<via>>
  BY ONLY <1>4, FieldsOf
<1>6. type \in Types /\ via \in Int
  BY ONLY <1>5 DEF Objs
<1>7. 1 \in DOMAIN Pointers(x) /\ Pointers(x)[1] = via
  BY ONLY <1>5
<1>. HIDE DEF via, type
<1>8. \/ via = NULL
      \/ /\ via \in Block /\ via \notin Roots /\ heap[via].kind = Leads(heap[x])
         /\ heap[x].type \in DOMAIN ViaKind
  BY ONLY <1>4, <1>7, IInv, OnTheWay
<1>9. via = NULL \/ /\ via \in Block /\ via # x /\ heap[via].kind = ViaKind[type]
                    /\ type \in DOMAIN ViaKind
  BY ONLY <1>4, <1>8 DEF Leads, type
<1>10. CASE type \in DOMAIN ViaFree
  <2> DEFINE more == <<Call(ViaFree[type], via), Call("block", x)>>
             of == ViaFree[type]
  <2>1. of \in Kinds \cup {"block"}
    BY ONLY <1>10 DEF ViaFree, Kinds
  <2>2. \/ via = NULL
        \/ /\ via \in Block /\ via # x /\ of \in {"block", heap[via].kind}
           /\ of = "block" => heap[via].kind = "str"
    BY ONLY <1>9, <1>10 DEF ViaFree, ViaKind
  <2>3. \A d \in Block : heap[d].kind = "str" => Fields(heap[d]) = << >>
    <3>1. \A d \in Block : heap[d] \in Content
      BY ONLY <1>2, Here
    <3>. QED
      BY ONLY <3>1, FieldsOf
  <2>4. heap' = heap /\ calls' = more \o Tail(calls)
    BY ONLY <1>1, <1>10
  <2>5. x \in Int /\ x # NULL /\ more = <<Call(of, via), Call("block", x)>>
    BY ONLY <1>2, <1>4
  <2>. HIDE DEF more, of
  <2>6. Owed(x, of, via)
    BY ONLY <2>2, <2>3 DEF Owed
  <2>7. more \in Seq(CallType) /\ Hands(x, Pointers(x), more) /\ \E k \in DOMAIN more : more[k].on = x
    <3> DEFINE p == Pointers(x)
    <3>1. Two(x, of, via, p, more)
      BY ONLY <1>5, <2>5 DEF via, Two
    <3>. HIDE DEF p
    <3>2. via \in Int /\ x \in Int /\ x # NULL
      BY ONLY <1>6, <2>5
    <3>3. more \in Seq(CallType) /\ Hands(x, p, more) /\ \E k \in DOMAIN more : more[k].on = x
      BY ONLY <2>1, <2>6, <3>1, <3>2, HandsTwo
    <3>. QED
      BY ONLY <3>3 DEF p
  <2>8. heap' = [heap EXCEPT ![x] = heap[x]]
    BY ONLY <1>2, <1>4, <2>4, HeapSame
  <2>9. heap[x].kind # "kv"
    BY ONLY <1>4
  <2> DEFINE b == heap[x]
  <2>10. Frees(x, b, more)
    BY ONLY <1>1, <1>4, <2>4, <2>7, <2>8, <2>9 DEF Frees
  <2>. HIDE DEF b
  <2>. QED
    BY ONLY <1>1, <1>3, <2>10, IInv, Freed
<1>11. CASE type \notin DOMAIN ViaFree
  <2> DEFINE more == << >>
  <2>1. heap' = [heap EXCEPT ![x] = Dead] /\ calls' = more \o Tail(calls)
    BY ONLY <1>1, <1>11
  <2>2. via = NULL
    BY ONLY <1>9, <1>11 DEF ViaFree, ViaKind
  <2>3. more \in Seq(CallType) /\ DOMAIN more = {}
    OBVIOUS
  <2>. HIDE DEF more
  <2>4. \A i \in DOMAIN Pointers(x) : Pointers(x)[i] = NULL
    BY ONLY <1>5, <2>2 DEF via
  <2>5. Hands(x, Pointers(x), more)
    BY ONLY <1>2, <2>3, <2>4 DEF Hands
  <2>6. Dead \in Content /\ Lost(Dead)
    BY DEF Content, Lost, Dead
  <2>7. Frees(x, Dead, more)
    BY ONLY <1>1, <2>1, <2>3, <2>5, <2>6 DEF Frees
  <2>. QED
    BY ONLY <1>1, <1>3, <2>7, IInv, Freed
<1>. QED
  BY ONLY <1>10, <1>11, SMTT(20)

LEMMA KVFreeStep ==
    ASSUME IInv, KVFree
    PROVE  IInv'
<1> DEFINE x == Head(calls).on
           t == heap[x].value
           a == Call("obj", t)
           more == <<a>>
           key == IF heap[x].key = Str THEN Dead ELSE heap[x].key
           b == KV(key, t)
<1>1. /\ Runs("kv") /\ wild' = (wild \/ heap[x].key = Dead) /\ app' = app
      /\ heap' = [heap EXCEPT ![x].key = IF @ = Str THEN Dead ELSE @]
      /\ calls' = more \o Tail(calls)
  BY DEF KVFree, Then
<1>2. TypeOK /\ NULL \notin Block /\ \A d \in Block : d \in Int
  BY Parts, Here
<1>. HIDE DEF x
<1>3. x = Head(calls).on
  BY DEF x
<1>4. /\ x \in Block /\ x \in Roots /\ x \in Reach(Called) /\ heap[x] \in Content /\ Fit(x)
      /\ heap[x].kind = "kv" /\ Pointers(x) = Fields(heap[x])
  BY ONLY <1>1, <1>3, IInv, RunsIs
<1>5. heap[x] \in KVs /\ Pointers(x) = <<t>>
  BY ONLY <1>4, FieldsOf
<1>6. /\ t \in Int /\ heap[x].key \in {None, Str}
  BY ONLY <1>4, <1>5 DEF KVs, Fit
<1>7. wild' = wild
  BY ONLY <1>1, <1>4, Parts, IInv DEF Fit
<1>8. heap' = [heap EXCEPT ![x] = b]
  <2>1. heap' = [heap EXCEPT ![x] = [heap[x] EXCEPT !.key = key]]
    BY ONLY <1>1, <1>4 DEF Block
  <2>2. \A k : [heap[x] EXCEPT !.key = k] = KV(k, t)
    BY ONLY <1>5 DEF KVs, KV
  <2>. QED
    BY ONLY <2>1, <2>2
<1>9. key \in {None, Dead}
  BY ONLY <1>6
<1>10. DOMAIN Pointers(x) = {1} /\ Pointers(x)[1] = t
  BY ONLY <1>5
<1>. HIDE DEF t, key
<1>11. b \in KVs /\ b.kind = "kv" /\ b.key # Str
  BY ONLY <1>6, <1>9 DEF KV, KVs, Dead, None, Str
<1>12. b \in Content /\ Lost(b)
  BY ONLY <1>11 DEF Content, Lost
<1>. HIDE DEF b
<1>13. t = NULL \/ (t \in Block /\ t \notin Roots /\ heap[t].kind = "obj")
  <2>1. \/ t = NULL
        \/ t \in Block /\ t \notin Roots /\ heap[t].kind = Leads(heap[x])
    BY ONLY <1>4, <1>10, IInv, OnTheWay
  <2>. QED
    BY ONLY <1>4, <2>1 DEF Leads, Kind
<1>14. a \in CallType /\ a.of = "obj" /\ a.on = t
  BY ONLY <1>6 DEF Call, CallType, Kinds
<1>. HIDE DEF a
<1>15. more \in Seq(CallType) /\ DOMAIN more = {1} /\ more[1] = a
  BY ONLY <1>14
<1>. HIDE DEF more
<1>16. t # x /\ \A k \in DOMAIN more : more[k].on # x
  BY ONLY <1>2, <1>4, <1>13, <1>14, <1>15
<1>17. Hands(x, Pointers(x), more)
  BY ONLY <1>10, <1>13, <1>14, <1>15, <1>16 DEF Hands
<1>18. Frees(x, b, more)
  BY ONLY <1>1, <1>7, <1>8, <1>12, <1>15, <1>16, <1>17 DEF Frees
<1>. QED
  BY ONLY <1>1, <1>3, <1>18, IInv, Freed

LEMMA RequestFreeStep ==
    ASSUME IInv, RequestFree
    PROVE  IInv'
<1> DEFINE x == Head(calls).on
           t == heap[x].data
           more == <<Call("obj", t), Call("block", x)>>
           cmd == IF heap[x].cmd = Str THEN Dead ELSE heap[x].cmd
           b == [kind |-> "req", cmd |-> cmd, data |-> t]
           p == Pointers(x)
<1>1. /\ Runs("req") /\ wild' = wild /\ app' = app
      /\ heap' = [heap EXCEPT ![x].cmd = IF @ = Str THEN Dead ELSE @]
      /\ calls' = more \o Tail(calls)
  BY DEF RequestFree, Then
<1>2. TypeOK /\ NULL \notin Block /\ \A d \in Block : d \in Int
  BY Parts, Here
<1>. HIDE DEF x
<1>3. x = Head(calls).on
  BY DEF x
<1>4. /\ x \in Block /\ x \in Roots /\ x \in Reach(Called) /\ heap[x] \in Content
      /\ heap[x].kind = "req" /\ Pointers(x) = Fields(heap[x])
  BY ONLY <1>1, <1>3, IInv, RunsIs
<1>5. heap[x] \in Reqs /\ Pointers(x) = <<t>>
  BY ONLY <1>4, FieldsOf
<1>6. t \in Int /\ heap[x].cmd \in {None, Str, Dead}
  BY ONLY <1>5 DEF Reqs
<1>7. heap' = [heap EXCEPT ![x] = b]
  <2>1. heap' = [heap EXCEPT ![x] = [heap[x] EXCEPT !.cmd = cmd]]
    BY ONLY <1>1, <1>4 DEF Block
  <2>2. \A k : [heap[x] EXCEPT !.cmd = k] = [kind |-> "req", cmd |-> k, data |-> t]
    BY ONLY <1>5 DEF Reqs
  <2>. QED
    BY ONLY <2>1, <2>2
<1>8. cmd \in {None, Str, Dead}
  BY ONLY <1>6
<1>9. 1 \in DOMAIN Pointers(x) /\ Pointers(x)[1] = t
  BY ONLY <1>5
<1>. HIDE DEF t, cmd
<1>10. b \in Reqs /\ b.kind = "req"
  BY ONLY <1>6, <1>8 DEF Reqs
<1>11. b \in Content /\ b # Dead /\ b.kind # "kv" /\ b.kind = heap[x].kind
  BY ONLY <1>4, <1>10 DEF Content, Dead
<1>. HIDE DEF b
<1>12. Owed(x, "obj", t)
  <2>1. \/ t = NULL
        \/ t \in Block /\ t \notin Roots /\ heap[t].kind = Leads(heap[x])
    BY ONLY <1>4, <1>9, IInv, OnTheWay
  <2>. QED
    BY ONLY <1>4, <2>1 DEF Leads, Kind, Owed
<1>13. Two(x, "obj", t, p, more)
  BY ONLY <1>5 DEF Two, t
<1>14. x \in Int /\ x # NULL /\ "obj" \in Kinds \cup {"block"} /\ t \in Int
  BY ONLY <1>2, <1>4, <1>6 DEF Kinds
<1>. HIDE DEF p, more
<1>15. more \in Seq(CallType) /\ Hands(x, p, more) /\ \E k \in DOMAIN more : more[k].on = x
  BY ONLY <1>12, <1>13, <1>14, HandsTwo
<1>16. Frees(x, b, more)
  BY ONLY <1>1, <1>7, <1>11, <1>15 DEF Frees, p
<1>. QED
  BY ONLY <1>1, <1>3, <1>16, IInv, Freed

\* Each of the pointers is handed on, and the block itself comes behind them.
All(x, of, p, more) ==
    /\ x \in Int /\ x # NULL /\ of \in Kinds /\ p \in Seq(Int)
    /\ \A i \in DOMAIN p : p[i] = NULL \/ (p[i] \in Block /\ p[i] # x /\ heap[p[i]].kind = of)
    /\ more = [i \in DOMAIN p |-> Call(of, p[i])] \o <<Call("block", x)>>

LEMMA HandsAll ==
    ASSUME NEW x, NEW of, NEW p, NEW more, All(x, of, p, more)
    PROVE  /\ more \in Seq(CallType) /\ Hands(x, p, more)
           /\ \E k \in DOMAIN more : more[k].on = x
<1> DEFINE m == Len(p)
           head == [i \in DOMAIN p |-> Call(of, p[i])]
           b == Call("block", x)
           tail == <<b>>
<1>a. x \in Int /\ x # NULL /\ of \in Kinds /\ p \in Seq(Int)
  BY DEF All
<1>1. m \in Nat /\ DOMAIN p = 1 .. m /\ \A i \in 1 .. m : p[i] \in Int
  BY ONLY <1>a
<1>2. of # "block"
  BY ONLY <1>a DEF Kinds
<1>3. b \in CallType /\ b.of = "block" /\ b.on = x
  BY ONLY <1>a DEF Call, CallType
<1>4. \A t \in Int : Call(of, t) \in CallType /\ Call(of, t).of = of /\ Call(of, t).on = t
  BY ONLY <1>a DEF Call, CallType
<1>5. more = head \o tail
  BY DEF All
<1>. HIDE DEF m, b
<1>6. /\ head \in Seq(CallType) /\ Len(head) = m
      /\ \A i \in 1 .. m : head[i].of = of /\ head[i].on = p[i]
  <2>1. /\ head \in [1 .. m -> CallType]
        /\ \A i \in 1 .. m : head[i] = Call(of, p[i])
    BY ONLY <1>1, <1>4
  <2>. HIDE DEF head
  <2>2. head \in Seq(CallType) /\ Len(head) = m
    BY ONLY <1>1, <2>1
  <2>. QED
    BY ONLY <1>1, <1>4, <2>1, <2>2
<1>7. tail \in Seq(CallType) /\ Len(tail) = 1 /\ tail[1] = b
  BY ONLY <1>3
<1>. HIDE DEF head, tail
<1>8. /\ more \in Seq(CallType) /\ DOMAIN more = 1 .. m + 1
      /\ \A i \in 1 .. m + 1 : more[i] = IF i <= m THEN head[i] ELSE tail[i - m]
  <2>1. head \in Seq(CallType) /\ tail \in Seq(CallType)
    BY ONLY <1>6, <1>7
  <2>2. /\ more \in Seq(CallType) /\ DOMAIN more = 1 .. Len(head) + Len(tail)
        /\ \A i \in 1 .. Len(head) + Len(tail) :
              more[i] = IF i <= Len(head) THEN head[i] ELSE tail[i - Len(head)]
    BY ONLY <1>5, <2>1
  <2>. QED
    BY ONLY <1>6, <1>7, <2>2
<1>9. \A i \in 1 .. m : i \in DOMAIN more /\ more[i].of = of /\ more[i].on = p[i]
  <2>1. \A i \in 1 .. m : i \in 1 .. m + 1 /\ i <= m
    BY ONLY <1>1
  <2>. QED
    BY ONLY <1>6, <1>8, <2>1
<1>10. m + 1 \in DOMAIN more /\ more[m + 1] = b
  <2> DEFINE j == m + 1
  <2>1. j \in 1 .. m + 1 /\ ~ (j <= m) /\ j - m = 1
    BY ONLY <1>1
  <2>2. j = m + 1
    OBVIOUS
  <2>. HIDE DEF j
  <2>3. more[j] = tail[j - m] /\ j \in DOMAIN more
    BY ONLY <1>8, <2>1
  <2>4. more[j] = b
    BY ONLY <1>7, <2>1, <2>3
  <2>. QED
    BY ONLY <2>2, <2>3, <2>4
<1>11. \A k \in DOMAIN more : k \in 1 .. m \/ k = m + 1
  BY ONLY <1>1, <1>8
<1>12. \A i \in 1 .. m : p[i] = NULL \/ (p[i] \in Block /\ p[i] # x /\ heap[p[i]].kind = of)
  BY <1>1 DEF All
<1>13. ASSUME NEW k \in DOMAIN more
       PROVE  \/ more[k].on = NULL
              \/ /\ k \in DOMAIN p /\ more[k].on = p[k] /\ p[k] \in Block
                 /\ more[k].of \in {"block", heap[p[k]].kind}
                 /\ more[k].of = "block" => Fields(heap[p[k]]) = << >>
              \/ more[k].on = x /\ more[k].of = "block"
  <2>1. CASE k \in 1 .. m
    BY ONLY <1>1, <1>2, <1>9, <1>12, <2>1
  <2>2. CASE k = m + 1
    BY ONLY <1>3, <1>10, <2>2
  <2>. QED
    BY ONLY <1>11, <1>13, <2>1, <2>2
<1>14. ASSUME NEW k \in DOMAIN more, more[k].on = x
       PROVE  k = m + 1
  BY ONLY <1>a, <1>9, <1>11, <1>12, <1>14
<1>15. Hands(x, p, more)
  BY ONLY <1>1, <1>9, <1>13, <1>14 DEF Hands
<1>. QED
  BY ONLY <1>3, <1>8, <1>10, <1>15

\* What x points to, the table of a map or the slots of an array, goes with it: its
\* pointers, of what is called each, are handed on, and it is lost.
Lists(x, s, p, each, b, more) ==
    /\ heap[x].kind \in {"map", "array"} /\ Fields(heap[x]) = <<s>> /\ s # NULL
    /\ p = Fields(heap[s]) /\ each = Leads(heap[s])
    /\ b \in Content /\ b.kind \in {"table", "slots"} /\ b.kind = Leads(heap[x])
    /\ \A i \in DOMAIN Fields(b) : Fields(b)[i] = NULL
    /\ heap' = [heap EXCEPT ![s] = b] /\ wild' = wild /\ app' = app
    /\ calls' = more \o Tail(calls)
    /\ more = [i \in DOMAIN p |-> Call(each, p[i])] \o <<Call("block", x)>>

LEMMA ListFreed ==
    ASSUME IInv, NEW kind, Runs(kind), kind # "block", NEW x, x = Head(calls).on, NEW s, NEW p, NEW each,
           NEW b, NEW more, Lists(x, s, p, each, b, more)
    PROVE  IInv'
<1> DEFINE gone == {x, s}
<1>1. /\ heap[x].kind \in {"map", "array"} /\ Fields(heap[x]) = <<s>> /\ s # NULL
      /\ p = Fields(heap[s]) /\ each = Leads(heap[s])
      /\ b \in Content /\ b.kind \in {"table", "slots"} /\ b.kind = Leads(heap[x])
      /\ heap' = [heap EXCEPT ![s] = b] /\ wild' = wild /\ app' = app
      /\ calls' = more \o Tail(calls)
  BY DEF Lists
<1>2. /\ TypeOK /\ wild = FALSE /\ NULL \notin Block /\ Now \subseteq Block
      /\ \A d \in Block : d \in Int /\ heap[d] \in Content
  BY Parts, Here, NowIs
<1>3. \A q, r \in Now : \A i \in DOMAIN Pointers(q), j \in DOMAIN Pointers(r) :
         Pointers(q)[i] = Pointers(r)[j] /\ Pointers(q)[i] \in Block => q = r /\ i = j
  BY Parts
<1>4. x = Head(calls).on
  OBVIOUS
<1>5. /\ calls # << >> /\ x \in Block /\ x \in Now /\ x \in Roots /\ x \in Reach(Called)
      /\ heap[x] \in Content /\ heap[x] # Dead /\ Pointers(x) = Fields(heap[x])
  BY ONLY <1>4, IInv, Runs(kind), kind # "block", RunsIs
<1>7. DOMAIN Pointers(x) = {1} /\ Pointers(x)[1] = s
  BY ONLY <1>1, <1>5
<1>8. /\ s \in Block /\ s \in Now /\ s \notin Roots /\ s \in Reach(Called) /\ To(x, s)
      /\ heap[s].kind \in {"table", "slots"} /\ heap[s].kind = b.kind /\ s # x
  <2>1. /\ s \in Block /\ s \in Now /\ s \notin Roots /\ s \in Reach(Called) /\ To(x, s)
        /\ heap[s].kind = Leads(heap[x])
    BY ONLY <1>1, <1>5, <1>7, IInv, OnTheWay
  <2>. QED
    BY ONLY <1>1, <1>5, <2>1
<1>9. each \in {"kv", "obj"}
  BY ONLY <1>1, <1>8 DEF Leads, Kind
<1>10. Pointers(s) = p
  <2>1. ~ Entered(s)
    BY ONLY <1>8 DEF Entered, Roots, Called
  <2>. QED
    BY ONLY <1>1, <2>1 DEF Pointers
<1>11. p \in Seq(Int)
  <2>1. heap[s] \in Content
    BY ONLY <1>2, <1>8
  <2>2. \/ heap[s] \in Tables /\ p = heap[s].entries
        \/ heap[s] \in Slots /\ p = heap[s].at
    BY ONLY <1>1, <1>8, <2>1, FieldsOf
  <2>. QED
    BY ONLY <2>2 DEF Tables, Slots
<1>14. \A i \in DOMAIN Fields(b) : Fields(b)[i] = NULL
  BY DEF Lists
<1>16. more = [i \in DOMAIN p |-> Call(each, p[i])] \o <<Call("block", x)>>
  BY DEF Lists
<1>18. \A i \in DOMAIN p : p[i] = NULL \/ /\ p[i] \in Block /\ p[i] # x /\ p[i] # s
                                          /\ heap[p[i]].kind = each /\ To(s, p[i])
  <2>1. \A i \in DOMAIN Pointers(s) :
           \/ Pointers(s)[i] = NULL
           \/ /\ Pointers(s)[i] \in Block /\ Pointers(s)[i] \notin Roots /\ To(s, Pointers(s)[i])
              /\ heap[Pointers(s)[i]].kind = Leads(heap[s])
    BY ONLY <1>8, IInv, OnTheWay
  <2>. QED
    BY ONLY <1>1, <1>5, <1>8, <1>9, <1>10, <2>1
<1>19. x \in Int /\ x # NULL /\ each \in Kinds
  BY ONLY <1>2, <1>5, <1>9 DEF Kinds
<1>20. more \in Seq(CallType) /\ Hands(x, p, more) /\ \E k \in DOMAIN more : more[k].on = x
  <2>1. \A i \in DOMAIN p : p[i] = NULL \/ (p[i] \in Block /\ p[i] # x /\ heap[p[i]].kind = each)
    BY ONLY <1>18
  <2>2. All(x, each, p, more)
    BY ONLY <1>11, <1>16, <1>19, <2>1 DEF All
  <2>. QED
    BY ONLY <2>2, HandsAll
<1>21. /\ \A k \in DOMAIN more :
             \/ more[k].on = NULL
             \/ /\ k \in DOMAIN p /\ more[k].on = p[k] /\ p[k] \in Block
                /\ more[k].of \in {"block", heap[p[k]].kind}
                /\ more[k].of = "block" => Fields(heap[p[k]]) = << >>
             \/ more[k].on = x /\ more[k].of = "block"
       /\ \A k, l \in DOMAIN more : more[k].on = x /\ more[l].on = x => k = l
       /\ \A i \in DOMAIN p : p[i] \in Block => \E k \in DOMAIN more : more[k].on = p[i]
  BY ONLY <1>20 DEF Hands
<1>22. /\ heap' \in Seq(Content) /\ Block' = Block /\ heap'[s] = b
       /\ \A d \in Block : d # s => heap'[d] = heap[d]
  BY ONLY <1>1, <1>2, <1>8, Replaced, Zenon
<1>23. ASSUME NEW c \in Now, c # x, c # s
       PROVE  Pointers(c)' = Pointers(c)
  <2>1. \A k \in DOMAIN more : more[k].on = c /\ more[k].of = "block" => Fields(heap[c]) = << >>
    BY ONLY <1>2, <1>21, <1>23
  <2>2. heap'[c] = heap[c]
    BY ONLY <1>2, <1>22, <1>23
  <2>. QED
    BY ONLY <1>1, <1>4, <1>5, <1>20, <1>23, <2>1, <2>2, IInv, Keeps, Zenon
<1>24. Pointers(x)' = << >>
  <2>1. PICK k \in DOMAIN more : more[k].on = x
    BY ONLY <1>20
  <2>2. more[k].of = "block"
    BY ONLY <1>18, <1>19, <1>21, <2>1
  <2>3. calls \in Seq(CallType)
    BY ONLY <1>2 DEF TypeOK, CallType
  <2>4. \A j \in DOMAIN more : j \in DOMAIN calls' /\ calls'[j] = more[j]
    BY ONLY <1>1, <1>5, <1>20, <2>3, CallsNext
  <2>5. Entered(x)'
    BY ONLY <2>1, <2>2, <2>4 DEF Entered
  <2>. QED
    BY ONLY <2>5 DEF Pointers
<1>25. \A i \in DOMAIN Pointers(s)' : Pointers(s)'[i] = NULL
  BY ONLY <1>14, <1>22 DEF Pointers
<1>26. heap'[x] = heap[x] /\ heap'[s] = b
  BY ONLY <1>5, <1>8, <1>22
<1>27. Fit(x)'
  BY ONLY <1>1, <1>5, <1>24, <1>26 DEF Fit
<1>28. Fit(s)'
  <2>1. b # Dead /\ b.kind # "kv" /\ b.kind # "array"
    BY ONLY <1>1 DEF Dead
  <2>2. \A i \in DOMAIN Pointers(s)' : Sound(heap[s], Pointers(s)[i])'
    BY ONLY <1>25, <1>26, <2>1 DEF Sound
  <2>. QED
    BY ONLY <1>26, <2>1, <2>2 DEF Fit
<1>29. \A k, l \in DOMAIN more : more[k].on = more[l].on /\ more[k].on # NULL => k = l
  <2> SUFFICES ASSUME NEW k \in DOMAIN more, NEW l \in DOMAIN more,
                      more[k].on = more[l].on, more[k].on # NULL
               PROVE  k = l
    OBVIOUS
  <2>1. CASE more[k].on = x
    BY ONLY <1>21, <2>1, more[k].on = more[l].on
  <2>2. CASE more[k].on # x
    <3>1. /\ k \in DOMAIN p /\ more[k].on = p[k] /\ p[k] \in Block
          /\ l \in DOMAIN p /\ more[l].on = p[l]
      BY ONLY <1>21, <2>2, more[k].on = more[l].on, more[k].on # NULL
    <3>. QED
      BY ONLY <1>3, <1>8, <1>10, <3>1, more[k].on = more[l].on
  <2>. QED
    BY ONLY <2>1, <2>2
<1>30. \A k \in DOMAIN more :
          \/ more[k].on = NULL
          \/ more[k].on = x /\ x \in gone /\ more[k].of = "block"
          \/ /\ more[k].on \notin gone /\ more[k].of \in {"block", heap[more[k].on].kind}
             /\ \E g \in gone : To(g, more[k].on)
  <2> SUFFICES ASSUME NEW k \in DOMAIN more, more[k].on # NULL
               PROVE  \/ more[k].on = x /\ x \in gone /\ more[k].of = "block"
                      \/ /\ more[k].on \notin gone /\ more[k].of \in {"block", heap[more[k].on].kind}
                         /\ \E g \in gone : To(g, more[k].on)
    OBVIOUS
  <2>1. CASE more[k].on = x /\ more[k].of = "block"
    BY ONLY <2>1
  <2>2. CASE /\ k \in DOMAIN p /\ more[k].on = p[k] /\ p[k] \in Block
             /\ more[k].of \in {"block", heap[p[k]].kind}
    <3>1. p[k] # x /\ p[k] # s /\ To(s, p[k])
      BY ONLY <1>2, <1>18, <2>2
    <3>. QED
      BY ONLY <2>2, <3>1
  <2>. QED
    BY ONLY <1>21, <2>1, <2>2, more[k].on # NULL
<1>31. \A g \in gone : \A t : To(g, t) => t \in gone \/ \E k \in DOMAIN more : more[k].on = t
  <2>1. \A t : To(x, t) => t = s
    BY ONLY <1>7 DEF To
  <2>2. \A t : To(s, t) => \E k \in DOMAIN more : more[k].on = t
    BY ONLY <1>10, <1>21 DEF To
  <2>. QED
    BY ONLY <2>1, <2>2
<1>32. \A g \in gone : Lost(heap'[g]) \/ (g = x /\ \E k \in DOMAIN more : more[k].on = x)
  BY ONLY <1>1, <1>20, <1>26 DEF Lost
<1>33. /\ gone \subseteq Now /\ x \in gone /\ gone \subseteq gone
       /\ \A g \in gone : g = x \/ (To(x, g) /\ g \in gone)
       /\ \A c \in Block \ gone : heap'[c] = heap[c]
  BY ONLY <1>5, <1>8, <1>22
<1>34. \A c \in Now \ gone : Pointers(c)' = Pointers(c)
  BY ONLY <1>23
<1>35. \A c \in gone : heap'[c].kind = heap[c].kind
  BY ONLY <1>8, <1>26
<1>36. \A c \in gone : c = x \/ c = s
  OBVIOUS
<1>. HIDE DEF gone
<1>37. /\ \A c \in gone : heap'[c].kind = heap[c].kind /\ Fit(c)'
       /\ \A c \in gone : \A i \in DOMAIN Pointers(c)' : Pointers(c)'[i] = NULL
  BY ONLY <1>24, <1>25, <1>27, <1>28, <1>35, <1>36
<1>38. wild' = FALSE
  BY ONLY <1>1, <1>2, Zenon
<1>39. Passes(x, more, gone, gone)
  BY ONLY <1>1, <1>4, <1>5, <1>20, <1>22, <1>29, <1>30, <1>31, <1>32, <1>33, <1>34, <1>37, <1>38, Zenon DEF Passes
<1>. QED
  BY ONLY <1>39, IInv, Passed

\* The table goes with the map, if it has one.
LEMMA MapFreeStep ==
    ASSUME IInv, MapFree
    PROVE  IInv'
<1> SUFFICES ASSUME NEW x, x = Head(calls).on, NEW s, s = heap[x].table, NEW p, p = heap[s].entries
             PROVE  IInv'
  OBVIOUS
<1>1. /\ Runs("map") /\ wild' = wild /\ app' = app
      /\ \/ s = NULL /\ heap' = heap /\ calls' = <<Call("block", x)>> \o Tail(calls)
         \/ /\ s # NULL /\ heap' = [heap EXCEPT ![s].entries = << >>]
            /\ calls' = ([i \in DOMAIN p |-> Call("kv", p[i])] \o <<Call("block", x)>>) \o Tail(calls)
  BY Zenon DEF MapFree, Then
<1>2. /\ TypeOK /\ NULL \notin Block /\ \A d \in Block : d \in Int /\ heap[d] \in Content
  BY Parts, Here
<1>4. x = Head(calls).on /\ s = heap[x].table /\ p = heap[s].entries
  OBVIOUS
<1>5. /\ x \in Block /\ x \in Roots /\ x \in Reach(Called) /\ heap[x] \in Content /\ heap[x] # Dead
      /\ heap[x].kind = "map" /\ Pointers(x) = Fields(heap[x])
  <2>1. Runs("map")
    BY ONLY <1>1
  <2>. QED
    BY ONLY <1>4, <2>1, IInv, RunsIs
<1>6. Pointers(x) = <<s>>
  BY ONLY <1>4, <1>5, FieldsOf
<1>7. DOMAIN Pointers(x) = {1} /\ Pointers(x)[1] = s
  BY ONLY <1>6
<1>8. CASE s = NULL
  <2> DEFINE call == Call("block", x)
             more == <<call>>
  <2>1. heap' = heap /\ calls' = more \o Tail(calls)
    BY ONLY <1>1, <1>8
  <2>2. call \in CallType /\ call.of = "block" /\ call.on = x
    BY ONLY <1>2, <1>5 DEF Call, CallType
  <2>. HIDE DEF call
  <2>3. more \in Seq(CallType) /\ DOMAIN more = {1} /\ more[1] = call
    BY ONLY <2>2
  <2>. HIDE DEF more
  <2>4. Hands(x, Pointers(x), more)
    BY ONLY <1>2, <1>7, <1>8, <2>2, <2>3 DEF Hands
  <2>5. \E k \in DOMAIN more : more[k].on = x
    BY ONLY <2>2, <2>3
  <2>6. heap' = [heap EXCEPT ![x] = heap[x]]
    BY ONLY <1>2, <1>5, <2>1, HeapSame
  <2>7. heap[x].kind # "kv"
    BY ONLY <1>5
  <2> DEFINE b == heap[x]
  <2>8. Frees(x, b, more)
    BY ONLY <1>1, <1>5, <2>1, <2>3, <2>4, <2>5, <2>6, <2>7 DEF Frees
  <2>9. Runs("map")
    BY ONLY <1>1
  <2>. HIDE DEF b
  <2>. QED
    BY ONLY <1>4, <2>8, <2>9, IInv, Freed
<1>9. CASE s # NULL
  <2> DEFINE more == [i \in DOMAIN p |-> Call("kv", p[i])] \o <<Call("block", x)>>
             b == Table(<< >>)
  <2>1. heap' = [heap EXCEPT ![s].entries = << >>] /\ calls' = more \o Tail(calls)
    BY ONLY <1>1, <1>9
  <2>2. s \in Block /\ heap[s].kind = "table"
    <3>1. s \in Block /\ heap[s].kind = Leads(heap[x])
      BY ONLY <1>5, <1>7, <1>9, IInv, OnTheWay
    <3>. QED
      BY ONLY <1>5, <3>1 DEF Leads, Kind
  <2>3. heap[s] \in Tables /\ Fields(heap[s]) = p
    BY ONLY <1>2, <1>4, <2>2, FieldsOf
  <2>4. heap' = [heap EXCEPT ![s] = b]
    <3>1. heap' = [heap EXCEPT ![s] = [heap[s] EXCEPT !.entries = << >>]]
      BY ONLY <2>1, <2>2 DEF Block
    <3>2. \A q : [heap[s] EXCEPT !.entries = q] = Table(q)
      BY ONLY <2>3 DEF Table, Tables
    <3>. QED
      BY ONLY <3>1, <3>2
  <2>5. more = [i \in DOMAIN p |-> Call("kv", p[i])] \o <<Call("block", x)>>
    OBVIOUS
  <2>6. b \in Tables /\ b.kind = "table" /\ b.entries = << >>
    BY DEF Table, Tables
  <2>. HIDE DEF b, more
  <2>7. b \in Content /\ Fields(b) = << >>
    <3>1. b \in Content
      BY ONLY <2>6 DEF Content
    <3>. QED
      BY ONLY <2>6, <3>1, FieldsOf
  <2>8. Leads(heap[x]) = "table" /\ Leads(heap[s]) = "kv"
    BY ONLY <1>5, <2>2 DEF Leads, Kind
  <2>9. Fields(heap[x]) = <<s>>
    BY ONLY <1>5, <1>6
  <2>10. Lists(x, s, p, "kv", b, more)
    <3>1. wild' = wild /\ app' = app
      BY ONLY <1>1
    <3>2. /\ heap[x].kind \in {"map", "array"} /\ b.kind \in {"table", "slots"} /\ b.kind = Leads(heap[x])
          /\ \A i \in DOMAIN Fields(b) : Fields(b)[i] = NULL
      BY ONLY <1>5, <2>6, <2>7, <2>8
    <3>3. heap' = [heap EXCEPT ![s] = b] /\ calls' = more \o Tail(calls)
      BY ONLY <2>1, <2>4
    <3>4. Fields(heap[x]) = <<s>> /\ s # NULL /\ p = Fields(heap[s]) /\ "kv" = Leads(heap[s]) /\ b \in Content
      BY ONLY <1>9, <2>3, <2>7, <2>8, <2>9
    <3>. QED
      BY ONLY <2>5, <3>1, <3>2, <3>3, <3>4, Zenon DEF Lists
  <2>11. Runs("map") /\ "map" # "block"
    BY ONLY <1>1
  <2>. QED
    BY ONLY <1>4, <2>10, <2>11, IInv, ListFreed
<1>. QED
  BY ONLY <1>8, <1>9

\* The slots go with the array.
LEMMA ArrayFreeStep ==
    ASSUME IInv, ArrayFree
    PROVE  IInv'
<1> SUFFICES ASSUME NEW x, x = Head(calls).on, NEW s, s = heap[x].ptr, NEW p, p = heap[s].at
             PROVE  IInv'
  OBVIOUS
<1> DEFINE new == [i \in DOMAIN p |-> NULL]
           more == [i \in DOMAIN p |-> Call("obj", p[i])] \o <<Call("block", x)>>
           b == [kind |-> "slots", at |-> new]
<1>1. /\ Runs("array") /\ wild' = wild /\ app' = app
      /\ heap' = [heap EXCEPT ![s].at = new] /\ calls' = more \o Tail(calls)
  BY Zenon DEF ArrayFree, Then
<1>2. /\ TypeOK /\ wild = FALSE /\ NULL \notin Block /\ Now \subseteq Block
      /\ \A d \in Block : d \in Int /\ heap[d] \in Content
  BY Parts, Here, NowIs
<1>4. x = Head(calls).on /\ s = heap[x].ptr /\ p = heap[s].at
  OBVIOUS
<1>5. /\ calls # << >> /\ x \in Block /\ x \in Now /\ x \in Roots /\ x \in Reach(Called)
      /\ heap[x] \in Content /\ heap[x] # Dead /\ heap[x].kind = "array" /\ Pointers(x) = Fields(heap[x])
  <2>1. Runs("array")
    BY ONLY <1>1
  <2>. QED
    BY ONLY <1>4, <2>1, IInv, RunsIs
<1>6. Pointers(x) = <<s>>
  BY ONLY <1>4, <1>5, FieldsOf
<1>7. DOMAIN Pointers(x) = {1} /\ Pointers(x)[1] = s
  BY ONLY <1>6
<1>8. /\ s \in Block /\ s \in Now /\ s \notin Roots /\ s \in Reach(Called) /\ To(x, s)
      /\ heap[s].kind = "slots" /\ s # x
  <2>1. /\ s \in Block /\ s \in Now /\ s \notin Roots /\ s \in Reach(Called) /\ To(x, s)
        /\ heap[s].kind = Leads(heap[x])
    BY ONLY <1>5, <1>7, IInv, OnTheWay
  <2>. QED
    BY ONLY <1>5, <2>1 DEF Leads, Kind
<1>9. heap[s] \in Slots /\ Fields(heap[s]) = p
  BY ONLY <1>2, <1>4, <1>8, FieldsOf
<1>11. p \in Seq(Int)
  BY ONLY <1>4, <1>9 DEF Slots
<1>12. heap' = [heap EXCEPT ![s] = b]
  <2>1. heap' = [heap EXCEPT ![s] = [heap[s] EXCEPT !.at = new]]
    BY ONLY <1>1, <1>8 DEF Block
  <2>2. \A q : [heap[s] EXCEPT !.at = q] = [kind |-> "slots", at |-> q]
    BY ONLY <1>9 DEF Slots
  <2>. QED
    BY ONLY <2>1, <2>2
<1>13. more = [i \in DOMAIN p |-> Call("obj", p[i])] \o <<Call("block", x)>>
  OBVIOUS
<1>14. new \in Seq(Int) /\ \A i \in DOMAIN new : new[i] = NULL
  <2>1. NULL \in Int
    BY DEF NULL
  <2>2. Len(p) \in Nat /\ DOMAIN p = 1 .. Len(p)
    BY ONLY <1>11
  <2>3. new \in [1 .. Len(p) -> Int] /\ \A i \in DOMAIN new : new[i] = NULL
    BY ONLY <2>1, <2>2
  <2>. HIDE DEF new
  <2>. QED
    BY ONLY <2>2, <2>3
<1>. HIDE DEF new, more
<1>15. b \in Slots /\ b.kind = "slots" /\ b.at = new
  BY ONLY <1>14 DEF Slots
<1>. HIDE DEF b
<1>16. b \in Content
  BY ONLY <1>15 DEF Content
<1>17. Fields(b) = new
  BY ONLY <1>15, <1>16, FieldsOf
<1>18. Leads(heap[x]) = "slots" /\ Leads(heap[s]) = "obj"
  BY ONLY <1>5, <1>8 DEF Leads, Kind
<1>19. Fields(heap[x]) = <<s>> /\ s # NULL
  BY ONLY <1>2, <1>5, <1>6, <1>8
<1>20. Lists(x, s, p, "obj", b, more)
  BY ONLY <1>1, <1>5, <1>9, <1>12, <1>13, <1>14, <1>15, <1>16, <1>17, <1>18, <1>19, Zenon DEF Lists
<1>21. Runs("array") /\ "array" # "block"
  BY ONLY <1>1
<1>. QED
  BY ONLY <1>4, <1>20, <1>21, IInv, ListFreed

-----------------------------------------------------------------------------
(* The invariant holds, and what follows from it *)

LEMMA InitIInv ==
    ASSUME Init
    PROVE  IInv
<1>1. heap = << >> /\ wild = FALSE /\ app = {} /\ calls = << >>
  BY DEF Init
<1>2. Block = {} /\ Called = {} /\ Roots = {}
  BY <1>1 DEF Block, Called, Roots
<1>3. TypeOK
  BY <1>1, <1>2 DEF TypeOK
<1>4. Len(heap) \in Nat /\ Block = 1 .. Len(heap)
  BY ONLY <1>3, Here
<1>5. Reach(Roots) \subseteq Block /\ Reach(Called) \subseteq Block
  <2> DEFINE r == Roots
             q == Called
  <2>. HIDE DEF r, q
  <2>1. Reach(r) \subseteq Block /\ Reach(q) \subseteq Block
    BY ONLY <1>4, ReachIs
  <2>. QED
    BY ONLY <2>1 DEF r, q
<1>6. Pending
  BY ONLY <1>1 DEF Pending
<1>. QED
  BY ONLY <1>1, <1>2, <1>3, <1>5, <1>6 DEF IInv, Single, Rooted, Settled, KnownLeaks

LEMMA BuildStep ==
    ASSUME IInv, Kept, calls = << >>, Build
    PROVE  IInv'
<1>1. CASE NewObject \/ NewString \/ NewMap \/ NewArray \/ NewKV \/ NewRequest
  BY ONLY <1>1, IInv, calls = << >>, NewStep
<1>2. CASE Wrap \/ MapPut
  BY ONLY <1>2, IInv, Kept, calls = << >>, TakeStep
<1>3. CASE ArrayAdd
  BY ONLY <1>3, IInv, Kept, calls = << >>, AddStep
<1>4. CASE KVSetKey \/ KVSetValue \/ RequestSetCommand \/ RequestSetData
  BY ONLY <1>4, IInv, Kept, calls = << >>, SetStep
<1>5. CASE Receive
  BY ONLY <1>5, IInv, calls = << >>, ReceiveStep
<1>6. CASE ObjectDup
  BY ONLY <1>6, IInv, Kept, calls = << >>, DupStep
<1>7. CASE Release
  BY ONLY <1>7, IInv, Kept, calls = << >>, ReleaseStep
<1>8. CASE Refuse \/ Write
  BY ONLY <1>8, IInv, calls = << >>, FrameStep
<1>. QED
  BY ONLY <1>1, <1>2, <1>3, <1>4, <1>5, <1>6, <1>7, <1>8, Build DEF Build

LEMMA NextIInv ==
    ASSUME IInv, Kept, [Next]_vars
    PROVE  IInv'
<1>1. CASE calls = << >> /\ Build
  BY ONLY <1>1, IInv, Kept, BuildStep
<1>2. CASE Return
  BY ONLY <1>2, IInv, ReturnStep
<1>3. CASE BlockFree
  BY ONLY <1>3, IInv, BlockFreeStep
<1>4. CASE ObjectFree
  BY ONLY <1>4, IInv, ObjectFreeStep
<1>5. CASE KVFree
  BY ONLY <1>5, IInv, KVFreeStep
<1>6. CASE MapFree
  BY ONLY <1>6, IInv, MapFreeStep
<1>7. CASE ArrayFree
  BY ONLY <1>7, IInv, ArrayFreeStep
<1>8. CASE RequestFree
  BY ONLY <1>8, IInv, RequestFreeStep
<1>9. CASE UNCHANGED vars
  BY ONLY <1>9, IInv, Stutter
<1>. QED
  BY ONLY <1>1, <1>2, <1>3, <1>4, <1>5, <1>6, <1>7, <1>8, <1>9, [Next]_vars DEF Next

LEMMA Invariant ==
    ASSUME Kept
    PROVE  Spec => []IInv
<1>1. Init => IInv
  BY InitIInv
<1>2. IInv /\ [Next]_vars => IInv'
  BY Kept, NextIInv
<1>. QED
  BY <1>1, <1>2, PTL DEF Spec

\* A caller who keeps the four rules never makes a function that frees meet a
\* pointer that is dangling or was never set, and nothing it can still reach has
\* been freed: BecoObjectFree, BecoMapFree, BecoArrayFree and BecoKVFree free a
\* structure of any size and any depth, every block of it once
\* (beco.c:461-465, 639-664, 706-764).
THEOREM NothingDangles ==
    ASSUME {"give", "fill", "once", "dup"} \subseteq Rules
    PROVE  Spec => []NoDangling
<1>1. Spec => []IInv
  BY Invariant DEF Kept
<1>2. IInv => NoDangling
  BY DEF IInv, NoDangling, Fit
<1>. QED
  BY <1>1, <1>2, PTL

\* What such a caller builds is a forest: in what it or the free in progress can
\* reach a block is pointed to from one place only.  The recursion of
\* BecoObjectFree relies on it (beco.c:639-664); a copy that shares a map or an
\* array would break it (beco.c:628, 632).
THEOREM OneOwnerEach ==
    ASSUME {"give", "fill", "once", "dup"} \subseteq Rules
    PROVE  Spec => []OneOwner
<1>1. Spec => []IInv
  BY Invariant DEF Kept
<1>2. ASSUME IInv
      PROVE  OneOwner
  <2>1. TypeOK /\ Single /\ Rooted
    BY <1>2 DEF IInv
  <2>2. Block = 1 .. Len(heap)
    BY ONLY <2>1, Here
  <2>3. /\ Edges \in SUBSET ((1 .. Len(heap)) \X (1 .. Len(heap)))
        /\ \A e \in Edges : To(e[1], e[2])
    BY ONLY <2>2, EdgeIs
  <2> DEFINE held == Reach(Roots)
             own  == {e \in Edges : e[1] \in held}
  <2>4. ASSUME NEW e \in own
        PROVE  /\ e = <<e[1], e[2]>> /\ e[1] \in held /\ e[2] \in Block
               /\ \E i \in DOMAIN Pointers(e[1]) : Pointers(e[1])[i] = e[2]
    BY ONLY <2>3, <2>4 DEF To
  <2>. HIDE DEF own
  <2>5. ASSUME NEW e \in own, NEW f \in own, e[2] = f[2]
        PROVE  e = f
    <3>1. e[1] = f[1]
      BY ONLY <2>1, <2>4, <2>5 DEF Single
    <3>. QED
      BY ONLY <2>4, <2>5, <3>1
  <2>6. ASSUME NEW e \in own
        PROVE  e[2] \notin Roots
    BY ONLY <2>1, <2>4, <2>6 DEF Rooted
  <2>. QED
    BY ONLY <2>5, <2>6 DEF OneOwner, own
<1>. QED
  BY <1>1, <1>2, PTL

\* What such a caller can no longer reach has been freed, at any time, except for
\* the blocks that no function of beco.c frees: a BecoKV, without its key, the
\* table of a map, the slots of an array, the data BecoReadRaw has read and the
\* bytes BecoWrite has written (beco.c:252-331, 706-714, 740-751, 760-764).
THEOREM OnlyKnownLeaks ==
    ASSUME {"give", "fill", "once", "dup"} \subseteq Rules
    PROVE  Spec => []KnownLeaks
<1>1. Spec => []IInv
  BY Invariant DEF Kept
<1>2. IInv => KnownLeaks
  BY DEF IInv
<1>. QED
  BY <1>1, <1>2, PTL

=============================================================================
