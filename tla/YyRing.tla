------------------------------- MODULE YyRing -------------------------------
(***************************************************************************)
(* The mutable arrays and objects of yyjson (3rd/yyjson.h): a container    *)
(* keeps its values in a ring of cells.  A ring r is a record              *)
(*   next |-> the next pointer of every cell,                              *)
(*   ptr  |-> the container's uni.ptr: the last element, or the last key,  *)
(*   len  |-> the length in the container's tag,                           *)
(*   is   |-> what every cell holds: its tag and its payload.              *)
(* An object's ring alternates key and value.  A cell keeps its next       *)
(* pointer when it leaves the ring, and ptr is not reset by clear.         *)
(* An operator is the whole function: where the function returns false or  *)
(* NULL, the ring is unchanged.                                            *)
(***************************************************************************)
EXTENDS Integers, Sequences

NULL == 0  \* cells are numbered from 1

\* The cell n next pointers away: while (n-- > 0) v = v->next.
Hop(r, v, n) == LET at[k \in 0..n] == IF k = 0 THEN v ELSE r.next[at[k - 1]]
                IN  at[n]

Next1(r, v) == r.next[v]
Next2(r, v) == r.next[r.next[v]]

-----------------------------------------------------------------------------
(* Creation: the values of a new container lie in the pool one after the   *)
(* other, behind the container's own cell c.                               *)

ArrWith(r, c, n) ==
    [r EXCEPT !.len  = n,
              !.ptr  = IF n = 0 THEN @ ELSE c + n,
              !.next = [v \in DOMAIN @ |->
                           IF v \in c + 1 .. c + n - 1 THEN v + 1
                           ELSE IF n > 0 /\ v = c + n THEN c + 1 ELSE @[v]]]

\* n pairs: keys at odd places, values at even ones.
ObjWith(r, c, n) ==
    [r EXCEPT !.len  = n,
              !.ptr  = IF n = 0 THEN @ ELSE c + 2 * n - 1,
              !.next = [v \in DOMAIN @ |->
                           IF v \in c + 1 .. c + 2 * n - 1 THEN v + 1
                           ELSE IF n > 0 /\ v = c + 2 * n THEN c + 1 ELSE @[v]]]

-----------------------------------------------------------------------------
(* Arrays *)

ArrGet(r, idx)  == IF idx < r.len THEN Hop(r, r.ptr, idx + 1) ELSE NULL
ArrGetFirst(r)  == IF r.len > 0 THEN Next1(r, r.ptr) ELSE NULL
ArrGetLast(r)   == IF r.len > 0 THEN r.ptr ELSE NULL

\* val between prev and what follows it.
Linked(next, prev, val) == [next EXCEPT ![prev] = val, ![val] = next[prev]]

ArrInsert(r, val, idx) ==
    IF val = NULL \/ idx > r.len THEN r
    ELSE IF r.len = 0
    THEN [r EXCEPT !.len = 1, !.next[val] = val, !.ptr = val]
    ELSE IF idx = r.len
    THEN [r EXCEPT !.len = @ + 1, !.next = Linked(@, r.ptr, val), !.ptr = val]
    ELSE [r EXCEPT !.len = @ + 1, !.next = Linked(@, Hop(r, r.ptr, idx), val)]

ArrAppend(r, val) ==
    IF val = NULL THEN r
    ELSE [r EXCEPT !.len = @ + 1,
                   !.next = IF r.len = 0 THEN [@ EXCEPT ![val] = val]
                                         ELSE Linked(@, r.ptr, val),
                   !.ptr = val]

ArrPrepend(r, val) ==
    IF val = NULL THEN r
    ELSE IF r.len = 0
    THEN [r EXCEPT !.len = 1, !.next[val] = val, !.ptr = val]
    ELSE [r EXCEPT !.len = @ + 1, !.next = Linked(@, r.ptr, val)]

\* With one element prev is the element replaced, otherwise the one before it.
ArrReplace(r, idx, val) ==
    LET prev == Hop(r, r.ptr, idx)
        old  == Next1(r, prev)
    IN  IF val = NULL \/ idx >= r.len THEN r
        ELSE IF r.len > 1
        THEN [r EXCEPT !.next = [@ EXCEPT ![prev] = val, ![val] = r.next[old]],
                       !.ptr = IF old = @ THEN val ELSE @]
        ELSE [r EXCEPT !.next[val] = val, !.ptr = val]

\* Mutant: the last element removed as any other, uni.ptr left at it.
ArrRemoveKeepsPtr(r, idx) ==
    LET prev == Hop(r, r.ptr, idx)
    IN  IF idx >= r.len THEN r
        ELSE [r EXCEPT !.len = @ - 1, !.next[prev] = Next2(r, prev)]

ArrRemove(r, idx) ==
    LET prev == Hop(r, r.ptr, idx)
        old  == Next1(r, prev)
    IN  IF idx >= r.len THEN r
        ELSE IF r.len > 1
        THEN [r EXCEPT !.len = @ - 1, !.next[prev] = r.next[old],
                       !.ptr = IF old = @ THEN prev ELSE @]
        ELSE [r EXCEPT !.len = 0]

ArrRemoveFirst(r) ==
    IF r.len > 1
    THEN [r EXCEPT !.len = @ - 1, !.next[r.ptr] = Next2(r, r.ptr)]
    ELSE [r EXCEPT !.len = 0]

ArrRemoveLast(r) ==
    LET prev == Hop(r, r.ptr, r.len - 1)
    IN  IF r.len > 1
        THEN [r EXCEPT !.len = @ - 1, !.next[prev] = Next1(r, r.ptr), !.ptr = prev]
        ELSE [r EXCEPT !.len = 0]

ArrRemoveRange(r, idx, n) ==
    LET prev == Hop(r, r.ptr, idx)
    IN  IF idx + n > r.len \/ n = 0 THEN r
        ELSE IF n = r.len THEN [r EXCEPT !.len = 0]
        ELSE [r EXCEPT !.len = @ - n, !.next[prev] = Hop(r, prev, n + 1),
                       !.ptr = IF idx + n = r.len THEN prev ELSE @]

ArrClear(r) == [r EXCEPT !.len = 0]

ArrRotate(r, idx) == IF r.len > idx THEN [r EXCEPT !.ptr = Hop(r, @, idx)] ELSE r

-----------------------------------------------------------------------------
(* Objects *)

\* Mutant: the search starts at ptr, which is the last key.
ObjGetFromPtr(r, k) ==
    LET keyAt(i) == Hop(r, r.ptr, 2 * (i - 1))
        hits == {i \in 1..r.len : r.is[keyAt(i)] = k}
    IN  IF hits = {} THEN NULL
        ELSE Next1(r, keyAt(CHOOSE i \in hits : \A j \in hits : i <= j))

\* yyjson_mut_obj_getn: the value of the first key that matches.
ObjGet(r, k) ==
    LET keyAt(i) == Hop(r, r.ptr, 2 * i)
        hits == {i \in 1..r.len : r.is[keyAt(i)] = k}
    IN  IF hits = {} THEN NULL
        ELSE Next1(r, keyAt(CHOOSE i \in hits : \A j \in hits : i <= j))

\* unsafe_yyjson_mut_obj_add
ObjAdd(r, key, val) ==
    LET prevVal == Next1(r, r.ptr)
        linked  == IF r.len > 0
                   THEN [r.next EXCEPT ![prevVal] = key, ![val] = r.next[prevVal]]
                   ELSE [r.next EXCEPT ![val] = key]
    IN  IF val = NULL THEN r
        ELSE [r EXCEPT !.len = @ + 1, !.next = [linked EXCEPT ![key] = val],
                       !.ptr = key]

\* Mutant: the last pair is unlinked like any other.
RemoveTurnKeepsPtr(s, k) ==
    IF s.r.is[s.cur] = k
    THEN [s EXCEPT !.r.next[s.r.next[s.pre]] = Next2(s.r, s.cur),
                   !.cur = Next2(s.r, s.cur), !.left = @ - 1]
    ELSE [s EXCEPT !.pre = s.cur, !.cur = Next2(s.r, s.cur), !.i = @ + 1]

\* One turn of the loop of unsafe_yyjson_mut_obj_remove.  left is obj_len.
RemoveTurn(s, k) ==
    LET r == s.r
    IN  IF r.is[s.cur] = k
        THEN [s EXCEPT !.r.next[r.next[s.pre]] = Next2(r, s.cur),
                       !.r.ptr = IF s.i + 1 = s.left THEN s.pre ELSE @,
                       !.cur = Next2(r, s.cur), !.left = @ - 1]
        ELSE [s EXCEPT !.pre = s.cur, !.cur = Next2(r, s.cur), !.i = @ + 1]

\* unsafe_yyjson_mut_obj_remove: every pair of that key.
ObjRemove(r, k) ==
    LET start == [r |-> r, pre |-> r.ptr, cur |-> Next2(r, r.ptr), i |-> 0, left |-> r.len]
        turn[n \in 0..r.len] == IF n = 0 THEN start ELSE RemoveTurn(turn[n - 1], k)
        end == turn[r.len]
    IN  IF r.len = 0 THEN r ELSE [end.r EXCEPT !.len = end.left]

\* unsafe_yyjson_mut_obj_replace: the first pair of that key swaps its
\* contents, though not its place in the ring, with the pair given.
ObjReplace(r, key, val) ==
    LET keyAt(i) == Hop(r, r.ptr, 2 * i)
        hits == {i \in 1..r.len : r.is[keyAt(i)] = r.is[key]}
        hit  == keyAt(CHOOSE i \in hits : \A j \in hits : i <= j)
    IN  IF hits = {} \/ val = NULL THEN r
        ELSE [r EXCEPT !.is[hit] = r.is[key], !.is[key] = r.is[hit],
                       !.is[r.next[hit]] = r.is[val], !.is[val] = r.is[r.next[hit]]]

ObjPut(r, key, val) == ObjAdd(ObjRemove(r, r.is[key]), key, val)

ObjRotate(r, idx) == IF r.len > idx THEN [r EXCEPT !.ptr = Hop(r, @, 2 * idx)] ELSE r

\* In the middle: turn the ring, add at its end, turn it back.
ObjInsert(r, key, val, idx) ==
    IF val = NULL \/ idx > r.len THEN r
    ELSE IF idx = r.len THEN ObjAdd(r, key, val)
    ELSE [ObjAdd(ObjRotate(r, idx), key, val) EXCEPT !.ptr = r.ptr]

ObjClear(r) == [r EXCEPT !.len = 0]

-----------------------------------------------------------------------------
(* Iterators: idx values have been passed, of max; cur is the last of them *)
(* and pre the one before.  step is Next1 over an array, Next2 over an     *)
(* object.                                                                 *)

IterInit(r) == [idx |-> 0, max |-> r.len, pre |-> NULL,
                cur |-> IF r.len > 0 THEN r.ptr ELSE NULL]

\* Mutant: one cell on, which is the key's value.
ObjIterNextOne(r, it) == [it EXCEPT !.pre = it.cur, !.cur = Next1(r, it.cur), !.idx = @ + 1]

ArrIterNext(r, it) == [it EXCEPT !.pre = it.cur, !.cur = Next1(r, it.cur), !.idx = @ + 1]
ObjIterNext(r, it) == [it EXCEPT !.pre = it.cur, !.cur = Next2(r, it.cur), !.idx = @ + 1]

ArrUnlink(r, it) ==
    [r EXCEPT !.ptr = IF it.idx = it.max THEN it.pre ELSE @,
              !.len = it.max - 1, !.next[it.pre] = Next1(r, it.cur)]
ArrIterRemove(r, it) ==
    [it EXCEPT !.idx = @ - 1, !.max = @ - 1, !.cur = Next1(r, it.cur)]

ObjUnlink(r, it) ==
    [r EXCEPT !.ptr = IF it.idx = it.max THEN it.pre ELSE @,
              !.len = it.max - 1, !.next[r.next[it.pre]] = Next2(r, it.cur)]
ObjIterRemove(r, it) ==
    [it EXCEPT !.idx = @ - 1, !.max = @ - 1, !.cur = Next2(r, it.cur)]

\* yyjson_mut_obj_iter_getn: forward to the key, around the end if need be.
IterAt(r, it, n) ==
    [it EXCEPT !.idx = IF @ + n > it.max THEN @ + n - (it.max + 1) ELSE @ + n,
               !.pre = Hop(r, it.cur, 2 * (n - 1)), !.cur = Hop(r, it.cur, 2 * n)]
ObjIterGet(r, it, k) ==
    LET hits == {i \in 1..it.max : r.is[Hop(r, it.cur, 2 * i)] = k}
        hit  == CHOOSE i \in hits : \A j \in hits : i <= j
    IN  IF hits = {} THEN it ELSE IterAt(r, it, hit)

\* yyjson_mut_obj_remove_strn: an iterator over the object, whose current
\* pair goes whenever its key is k.
RemoveStrTurn(s, k) ==
    IF s.it.idx >= s.it.max THEN s
    ELSE LET it == ObjIterNext(s.r, s.it)
         IN  IF s.r.is[it.cur] = k
             THEN [r |-> ObjUnlink(s.r, it), it |-> ObjIterRemove(s.r, it)]
             ELSE [s EXCEPT !.it = it]
ObjRemoveStr(r, k) ==
    LET turn[n \in 0..r.len] ==
            IF n = 0 THEN [r |-> r, it |-> IterInit(r)] ELSE RemoveStrTurn(turn[n - 1], k)
    IN  turn[r.len].r

-----------------------------------------------------------------------------
(* What a ring stands for: its elements, or its pairs, in order. *)

Elements(r) == [i \in 1..r.len |-> r.is[Hop(r, r.ptr, i)]]
Pairs(r) == [i \in 1..r.len |-> <<r.is[Hop(r, r.ptr, 2 * i)],
                                   r.is[Hop(r, r.ptr, 2 * i + 1)]>>]

=============================================================================
