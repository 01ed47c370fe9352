------------------------------- MODULE UtHash -------------------------------
(***************************************************************************)
(* The hash table under the command table and under BecoMap                *)
(* (3rd/uthash.h).  Items are linked twice: in the order they were added   *)
(* (prev, next, tail), which HASH_ITER follows, and in the chain of their  *)
(* bucket (hh_prev, hh_next), newest first, which HASH_FIND follows.  A    *)
(* bucket whose chain is too long doubles the number of buckets and moves  *)
(* every item.  beco calls HASH_ADD_STR, HASH_FIND_STR, HASH_DEL and       *)
(* HASH_ITER; a key may be added several times.                            *)
(*                                                                         *)
(* The table is one record h; its memory is freed when head is Null.  A    *)
(* failed malloc ends the process and is not modelled.                     *)
(***************************************************************************)
EXTENDS Integers, Sequences, FiniteSets

LOCAL INSTANCE SequencesExt

CONSTANTS Items,       \* the structs that may be linked in
          Key, Hash,   \* an item's key, a key's hash value
          Rank,        \* a key's place in the caller's order
          InitBuckets, \* HASH_INITIAL_NUM_BUCKETS, 32
          Thresh,      \* HASH_BKT_CAPACITY_THRESH, 10
          MaxBuckets   \* bound of the model: a larger table takes no more items

ASSUME SizesAssumption == /\ {InitBuckets, Thresh, MaxBuckets} \subseteq Nat \ {0}
                          /\ 0 \notin Items

VARIABLES h,
          added   \* history: the items linked in, in the order they were added

hvars == <<h, added>>

Null == 0

HashKeys == {Key[x] : x \in Items}
Hashv(x) == Hash[Key[x]]
Cmp(x, y) == Rank[Key[x]] - Rank[Key[y]]

NoBucket == [head |-> Null, count |-> 0, mult |-> 0]

Empty == [head |-> Null, tail |-> Null, items |-> 0,
          num |-> 0, buckets |-> <<>>, ineff |-> 0, noexpand |-> FALSE,
          prev |-> [x \in Items |-> Null], next |-> [x \in Items |-> Null],
          hh_prev |-> [x \in Items |-> Null], hh_next |-> [x \in Items |-> Null]]

\* Buckets count from 1 here.
Bkt(x, num) == (Hashv(x) % num) + 1

\* What a walk along a chain of pointers meets.
Walk(first, next) ==
    LET at[n \in 0..Cardinality(Items)] ==
            IF n = 0 THEN first
            ELSE LET x == at[n - 1] IN IF x = Null THEN Null ELSE next[x]
        met == {n \in DOMAIN at : at[n] # Null}
    IN  [n \in 1..Cardinality(met) |-> at[n - 1]]

App      == Walk(h.head, h.next)
Chain(i) == Walk(h.buckets[i].head, h.hh_next)

-----------------------------------------------------------------------------
(* Buckets *)

\* x becomes the head of chain i.  m is the table, or the one expansion makes.
Push(m, i, x) ==
    LET old == m.buckets[i].head
    IN  [m EXCEPT !.buckets[i].head = x,
                  !.hh_next[x] = old,
                  !.hh_prev = IF old = Null THEN [@ EXCEPT ![x] = Null]
                                            ELSE [@ EXCEPT ![x] = Null, ![old] = x]]

\* An item put in its new bucket, with the bookkeeping of nonideal items.
Move(m, x) ==
    LET i == Bkt(x, m.num)
        b == m.buckets[i]
        excess == b.count + 1 > m.ideal
        c == [m EXCEPT !.buckets[i].count = @ + 1,
                       !.buckets[i].mult = IF excess /\ b.count + 1 > b.mult * m.ideal
                                           THEN @ + 1 ELSE @,
                       !.nonideal = IF excess THEN @ + 1 ELSE @]
    IN  Push(c, i, x)

\* HASH_EXPAND_BUCKETS: the chains are emptied from their heads on.
ExpandBuckets(m) ==
    LET order == FlattenSeq([i \in 1..m.num |-> Walk(m.buckets[i].head, m.hh_next)])
        fresh == [num |-> 2 * m.num, buckets |-> [i \in 1..2 * m.num |-> NoBucket],
                  hh_prev |-> m.hh_prev, hh_next |-> m.hh_next, nonideal |-> 0,
                  ideal |-> (m.items \div (2 * m.num))
                            + IF m.items % (2 * m.num) # 0 THEN 1 ELSE 0]
        moved == FoldLeft(Move, fresh, order)
        ineff == IF moved.nonideal > m.items \div 2 THEN m.ineff + 1 ELSE 0
    IN  [m EXCEPT !.num = moved.num, !.buckets = moved.buckets,
                  !.hh_prev = moved.hh_prev, !.hh_next = moved.hh_next,
                  !.ineff = ineff, !.noexpand = @ \/ ineff > 1]

AddToBkt(m, x) ==
    LET i == Bkt(x, m.num)
        p == Push([m EXCEPT !.buckets[i].count = @ + 1], i, x)
        b == p.buckets[i]
    IN  IF b.count >= (b.mult + 1) * Thresh /\ ~p.noexpand THEN ExpandBuckets(p) ELSE p

\* Mutant: an item behind another in its chain is not unlinked from it.
DelInBktHead(m, x) ==
    LET i == Bkt(x, m.num)
    IN  [m EXCEPT !.buckets[i].count = @ - 1,
                  !.buckets[i].head = IF @ = x THEN m.hh_next[x] ELSE @]

DelInBkt(m, x) ==
    LET i == Bkt(x, m.num)
        before == m.hh_prev[x]
        after  == m.hh_next[x]
    IN  [m EXCEPT !.buckets[i].count = @ - 1,
                  !.buckets[i].head = IF @ = x THEN after ELSE @,
                  !.hh_next = IF before = Null THEN @ ELSE [@ EXCEPT ![before] = after],
                  !.hh_prev = IF after = Null THEN @ ELSE [@ EXCEPT ![after] = before]]

\* Mutant: the search looks at the head of the chain only.
FindInBktHead(m, i, k) ==
    LET x == m.buckets[i].head
    IN  IF x # Null /\ Key[x] = k THEN x ELSE Null

FindInBkt(m, i, k) ==
    LET chain == Walk(m.buckets[i].head, m.hh_next)
        hits  == {n \in DOMAIN chain : Key[chain[n]] = k}
    IN  IF hits = {} THEN Null ELSE chain[CHOOSE n \in hits : \A o \in hits : n <= o]

-----------------------------------------------------------------------------
(* Operations *)

Find(m, k) == IF m.head = Null THEN Null ELSE FindInBkt(m, (Hash[k] % m.num) + 1, k)

\* HASH_MAKE_TABLE, for the first item.
MakeTable(m, x) ==
    [m EXCEPT !.head = x, !.tail = x, !.items = 0,
              !.num = InitBuckets, !.buckets = [i \in 1..InitBuckets |-> NoBucket],
              !.ineff = 0, !.noexpand = FALSE,
              !.prev[x] = Null, !.next[x] = Null]

AppendList(m, x) ==
    [m EXCEPT !.next = [@ EXCEPT ![x] = Null, ![m.tail] = x],
              !.prev[x] = m.tail, !.tail = x]

AddToTable(m, x) == AddToBkt([m EXCEPT !.items = @ + 1], x)

\* HASH_ADD_KEYPTR_BYHASHVALUE
AddItem(m, x) ==
    AddToTable(IF m.head = Null THEN MakeTable(m, x) ELSE AppendList(m, x), x)

\* HASH_AKBI_INNER_LOOP: the first item that belongs behind x.
Behind(m, x) ==
    LET app == Walk(m.head, m.next)
        above == {n \in DOMAIN app : Cmp(app[n], x) > 0}
    IN  IF above = {} THEN Null ELSE app[CHOOSE n \in above : \A o \in above : n <= o]

\* HASH_ADD_KEYPTR_BYHASHVALUE_INORDER
AddItemInOrder(m, x) ==
    LET y == Behind(m, x)
        before == m.prev[y]
        linked == [m EXCEPT !.next = IF before = Null THEN [@ EXCEPT ![x] = y]
                                     ELSE [@ EXCEPT ![x] = y, ![before] = x],
                            !.prev = [@ EXCEPT ![x] = before, ![y] = x],
                            !.head = IF before = Null THEN x ELSE @]
    IN  AddToTable(IF m.head = Null THEN MakeTable(m, x)
                   ELSE IF y = Null THEN AppendList(m, x) ELSE linked, x)

\* Mutant: the tail pointer stays at an item deleted from the end.
DeleteKeepsTail(m, x) ==
    IF m.prev[x] = Null /\ m.next[x] = Null
    THEN [m EXCEPT !.head = Null, !.tail = Null, !.items = 0, !.num = 0, !.buckets = <<>>]
    ELSE DelInBkt([m EXCEPT !.items = @ - 1,
                            !.head = IF m.prev[x] = Null THEN m.next[x] ELSE @,
                            !.next = IF m.prev[x] = Null THEN @
                                     ELSE [@ EXCEPT ![m.prev[x]] = m.next[x]],
                            !.prev = IF m.next[x] = Null THEN @
                                     ELSE [@ EXCEPT ![m.next[x]] = m.prev[x]]], x)

\* HASH_DELETE_HH: the table goes with its last item.
DeleteItem(m, x) ==
    LET before == m.prev[x]
        after  == m.next[x]
    IN  IF before = Null /\ after = Null
        THEN [m EXCEPT !.head = Null, !.tail = Null, !.items = 0, !.num = 0, !.buckets = <<>>,
                       !.ineff = 0, !.noexpand = FALSE]
        ELSE DelInBkt(
               [m EXCEPT !.tail = IF @ = x THEN before ELSE @,
                         !.head = IF before = Null THEN after ELSE @,
                         !.next = IF before = Null THEN @ ELSE [@ EXCEPT ![before] = after],
                         !.prev = IF after = Null THEN @ ELSE [@ EXCEPT ![after] = before],
                         !.items = @ - 1], x)

Replaced(m, x) == LET old == Find(m, Key[x])
                  IN  IF old = Null THEN m ELSE DeleteItem(m, old)

\* HASH_ITER with HASH_DEL of every item: the next one is read before.
Drained(m) ==
    LET turn[n \in 0..Cardinality(Items)] ==
            IF n = 0 THEN [m |-> m, el |-> m.head,
                           tmp |-> IF m.head = Null THEN Null ELSE m.next[m.head]]
            ELSE LET s == turn[n - 1]
                 IN  IF s.el = Null THEN s
                     ELSE LET d == DeleteItem(s.m, s.el)
                          IN  [m |-> d, el |-> s.tmp,
                               tmp |-> IF s.tmp = Null THEN Null ELSE d.next[s.tmp]]
    IN  turn[Cardinality(Items)].m

\* HASH_SRT: runs of length n are merged pairwise, an equal item of the first
\* run before one of the second, until a pass has one merge.
Merge(p, q) ==
    LET m[i \in 0..Len(p), j \in 0..Len(q)] ==
            IF i = 0 THEN SubSeq(q, 1, j)
            ELSE IF j = 0 THEN SubSeq(p, 1, i)
            ELSE IF Cmp(p[i], q[j]) <= 0 THEN Append(m[i, j - 1], q[j])
            ELSE Append(m[i - 1, j], p[i])
    IN  m[Len(p), Len(q)]

Merges(s, n) == (Len(s) + 2 * n - 1) \div (2 * n)
UpTo(s, n) == IF n < Len(s) THEN n ELSE Len(s)
Pass(s, n) ==
    FlattenSeq([i \in 1..Merges(s, n) |->
                  LET from == 2 * n * (i - 1)
                  IN  Merge(SubSeq(s, from + 1, UpTo(s, from + n)),
                            SubSeq(s, UpTo(s, from + n) + 1, UpTo(s, from + 2 * n)))])
SortedList(s) ==
    LET pass[k \in 0..Len(s)] == IF k = 0 THEN s ELSE Pass(pass[k - 1], 2 ^ (k - 1))
    IN  pass[CHOOSE k \in 1..Len(s) : /\ Merges(s, 2 ^ (k - 1)) <= 1
                                      /\ \A j \in 1..k - 1 : Merges(s, 2 ^ (j - 1)) > 1]

Sorted(m) ==
    IF m.head = Null THEN m
    ELSE LET s == SortedList(Walk(m.head, m.next))
             at(x) == CHOOSE i \in DOMAIN s : s[i] = x
             in == {s[i] : i \in DOMAIN s}
         IN  [m EXCEPT !.head = s[1], !.tail = s[Len(s)],
                !.next = [x \in Items |-> IF x \notin in THEN @[x]
                                          ELSE IF at(x) = Len(s) THEN Null ELSE s[at(x) + 1]],
                !.prev = [x \in Items |-> IF x \notin in THEN @[x]
                                          ELSE IF at(x) = 1 THEN Null ELSE s[at(x) - 1]]]

-----------------------------------------------------------------------------
In == {App[i] : i \in DOMAIN App}

HashInit == h = Empty /\ added = <<>>

Without(x) == SelectSeq(added, LAMBDA y : y # x)
Fits(x)    == x \notin In /\ h.num <= MaxBuckets

HashAdd(x)     == Fits(x) /\ h' = AddItem(h, x) /\ added' = Append(added, x)
AddInOrder(x)  == Fits(x) /\ h' = AddItemInOrder(h, x) /\ added' = Append(added, x)
HashReplace(x) == /\ Fits(x) /\ h' = AddItem(Replaced(h, x), x)
                  /\ added' = Append(Without(Find(h, Key[x])), x)
Delete(x)      == x \in In /\ h' = DeleteItem(h, x) /\ added' = Without(x)
Drain          == h' = Drained(h) /\ added' = <<>>
Sort           == h' = Sorted(h) /\ UNCHANGED added

HashNext == \/ Drain \/ Sort
            \/ \E x \in Items : HashAdd(x) \/ AddInOrder(x) \/ HashReplace(x) \/ Delete(x)

HashSpec == HashInit /\ [][HashNext]_hvars

-----------------------------------------------------------------------------
(* Properties *)

InOrder(s)  == \A n \in 2..Len(s) : Cmp(s[n - 1], s[n]) <= 0
OfKey(s, k) == SelectSeq(s, LAMBDA y : Key[y] = k)
Gone(x)     == SelectSeq(App, LAMBDA y : y # x)

\* What HASH_FSCK checks in a debug build (uthash.h:517-564), and that an item
\* is in the bucket its hash value names: both lists hold the same items, their
\* backward pointers and the counts agree with them, and the tail is the last.
Fsck ==
    LET Linked(s, prev) == \A n \in DOMAIN s : prev[s[n]] = IF n = 1 THEN Null ELSE s[n - 1]
    IN  h.head # Null =>
          /\ Len(App) = h.items /\ Linked(App, h.prev) /\ h.tail = App[Len(App)]
          /\ \A i \in 1..h.num :
               /\ h.buckets[i].count = Len(Chain(i)) /\ Linked(Chain(i), h.hh_prev)
               /\ \A n \in DOMAIN Chain(i) : Bkt(Chain(i)[n], h.num) = i
          /\ UNION {{Chain(i)[n] : n \in DOMAIN Chain(i)} : i \in 1..h.num} = In

\* A search finds a key exactly if an item with that key is linked in, and as
\* long as the table has never been expanded the item found is the one added
\* last: expanding turns the chains around (beco.c:416, 429, 692, 701;
\* uthash.h:746-765, 834-886).
FindsNewest ==
    \A k \in HashKeys :
      LET with == OfKey(added, k)
          out  == Find(h, k)
      IN  IF with = <<>> THEN out = Null
          ELSE /\ out \in {with[n] : n \in DOMAIN with}
               /\ h.num = InitBuckets => out = with[Len(with)]

\* The order of HASH_ITER: what is added comes last, a deletion moves nothing
\* else, an addition in order goes behind its equals, a sort is stable, and
\* draining meets every item (uthash.h:281-286, 351-477, 891-974, 1057-1063).
IterOrder ==
    [][ hvars' # hvars =>
        /\ \A x \in Items :
             /\ HashAdd(x) => App' = Append(App, x)
             /\ Delete(x) => App' = Gone(x)
             /\ HashReplace(x) => App' = Append(Gone(Find(h, Key[x])), x)
             /\ AddInOrder(x) /\ InOrder(App) =>
                  App' = SelectSeq(App, LAMBDA y : Cmp(y, x) <= 0) \o <<x>>
                         \o SelectSeq(App, LAMBDA y : Cmp(y, x) > 0)
        /\ Sort => /\ InOrder(App')
                   /\ \A k \in HashKeys : OfKey(App', k) = OfKey(App, k)
        /\ Drain => h'.head = Null ]_hvars

=============================================================================
