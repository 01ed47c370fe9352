------------------------------- MODULE YyMut --------------------------------
(***************************************************************************)
(* The mutable document of yyjson as a caller drives it: one container,    *)
(* an array or an object, the value pool its cells come from, and an       *)
(* iterator over it.  The pool has Cells cells and does not grow beyond    *)
(* them: an allocation that does not fit returns NULL, and the function    *)
(* that asked for it changes nothing.                                      *)
(*                                                                         *)
(* Bound of the model: the caller of an object puts no pair back that it   *)
(* took out.                                                               *)
(*                                                                         *)
(* The caller keeps the rules of yyjson.h: it inserts no cell that is in   *)
(* the container, and does not modify what it iterates over except through *)
(* the iterator.  Careful says whether it keeps two more, which yyjson.h   *)
(* does not ask for and the code needs: it removes by remove_str no key    *)
(* that occurs several times, and by an iterator only where the iterator's *)
(* idx tells the last member from the others (IdxTells).                   *)
(*                                                                         *)
(* Two history variables follow the iterator, which the code does not keep *)
(* count of by itself: idx is less than the place of the member it stands  *)
(* at once it has removed, and too low by one once it has searched around  *)
(* the end.                                                                *)
(***************************************************************************)
EXTENDS YyRing, FiniteSets

CONSTANTS ArrCells, \* bounds of the model: cells the value pool can hold
          ObjCells, \* in the document of an array, of an object
          Keys,     \* strings used as keys
          Start,    \* bound of the model: members a container is created with
          Raw,      \* what an allocated cell holds before it is filled
          Careful

ASSUME CellsAssumption == /\ {ArrCells, ObjCells, Start} \subseteq Nat
                          /\ Start < ArrCells /\ 2 * Start < ObjCells
\* A cell says whether it is a key.
ASSUME KeysAssumption == Keys \cap (0 .. ObjCells) = {}
ASSUME CarefulAssumption == Careful \in BOOLEAN

VARIABLES kind,  \* "arr" or "obj": the type of the container, cell 1
          r,     \* its ring, see YyRing
          cur,   \* the last cell taken from the value pool
          it,    \* the iterator, as IterInit, ..IterNext, ..IterRemove leave it
          place, \* history: the place, among the members, of the one it stands at
          plain  \* history: it has neither removed nor searched around the end

vars == <<kind, r, cur, it, place, plain>>

Cells == IF kind = "arr" THEN ArrCells ELSE ObjCells
Cell == 1..Cells
Off  == [idx |-> 0, max |-> 0, pre |-> NULL, cur |-> NULL]

Size     == IF kind = "arr" THEN r.len ELSE 2 * r.len
InRing   == {Hop(r, r.ptr, i) : i \in 1..Size}
Loose    == {c \in (2..cur) \ InRing : kind = "arr" \/ r.next[c] = NULL}
LooseKey == {c \in Loose : r.is[c] \in Keys}
LooseVal == {c \in Loose : r.is[c] \in Cell}
KeyOf(i) == r.is[Hop(r, r.ptr, 2 * i)]
Once(k)  == Cardinality({i \in 1..r.len : KeyOf(i) = k}) <= 1

-----------------------------------------------------------------------------
\* A value is told from others by the cell it was made in.
Fresh == [next |-> [c \in Cell |-> NULL], ptr |-> NULL, len |-> 0,
          is |-> [c \in Cell |-> IF c = 1 THEN 1 ELSE Raw]]

Init ==
    /\ it = Off /\ place = 0 /\ plain = TRUE
    /\ kind \in {"arr", "obj"}
    /\ \E n \in 0..Start :
         \/ /\ kind = "arr" /\ cur = 1 + n
            /\ r = [ArrWith(Fresh, 1, n) EXCEPT !.is = [c \in Cell |-> IF c <= 1 + n THEN c ELSE Raw]]
         \/ /\ kind = "obj" /\ cur = 1 + 2 * n
            /\ \E ks \in [1..n -> Keys] :
                 r = [ObjWith(Fresh, 1, n) EXCEPT
                        !.is = [c \in Cell |-> IF c > 1 + 2 * n THEN Raw
                                               ELSE IF c > 1 /\ c % 2 = 0 THEN ks[c \div 2] ELSE c]]

\* unsafe_yyjson_mut_val(doc, 1) and the functions that fill the cell.
Made(ring, c, what) == [ring EXCEPT !.is[c] = what]

NewVal ==
    /\ cur < Cells /\ LooseVal = {}
    /\ cur' = cur + 1 /\ r' = Made(r, cur + 1, cur + 1)
    /\ UNCHANGED <<kind, it, place, plain>>
NewKey(k) ==
    /\ kind = "obj" /\ cur < Cells /\ LooseKey = {}
    /\ cur' = cur + 1 /\ r' = Made(r, cur + 1, k)
    /\ UNCHANGED <<kind, it, place, plain>>

-----------------------------------------------------------------------------
\* The caller has no use for its iterator any more.
Dropped == it' = Off /\ place' = 0 /\ plain' = TRUE

Modified(type, ring) == kind = type /\ Dropped /\ r' = ring /\ UNCHANGED <<kind, cur>>

Insert(v, i)   == Modified("arr", ArrInsert(r, v, i))
AppendVal(v)   == Modified("arr", ArrAppend(r, v))
Prepend(v)     == Modified("arr", ArrPrepend(r, v))
Replace(i, v)  == Modified("arr", ArrReplace(r, i, v))
Remove(i)      == Modified("arr", ArrRemove(r, i))
RemoveFirst    == Modified("arr", ArrRemoveFirst(r))
RemoveLast     == Modified("arr", ArrRemoveLast(r))
RemoveRange(i, n) == Modified("arr", ArrRemoveRange(r, i, n))
Clear          == Modified("arr", ArrClear(r))
Rotate(i)      == Modified("arr", ArrRotate(r, i))

Add(k, v)       == Modified("obj", ObjAdd(r, k, v))
Put(k, v)       == Modified("obj", ObjPut(r, k, v))
InsertPair(k, v, i) == Modified("obj", ObjInsert(r, k, v, i))
RemoveKey(k)    == Modified("obj", ObjRemove(r, k))
RemoveStr(k)    == Modified("obj", ObjRemoveStr(r, k))
ReplacePair(k, v) == Modified("obj", ObjReplace(r, k, v))
ClearObj        == Modified("obj", ObjClear(r))
RotateObj(i)    == Modified("obj", ObjRotate(r, i))

\* yyjson_mut_arr_add_null and its kin: a new value at the end.
AddNew ==
    /\ kind = "arr" /\ cur < Cells
    /\ cur' = cur + 1 /\ r' = ArrAppend(Made(r, cur + 1, cur + 1), cur + 1)
    /\ Dropped /\ UNCHANGED kind
\* yyjson_mut_obj_add_null and its kin: the key's cell and the value's are
\* allocated together.
AddNewPair(k) ==
    /\ kind = "obj" /\ cur + 2 <= Cells
    /\ cur' = cur + 2
    /\ r' = ObjAdd(Made(Made(r, cur + 1, k), cur + 2, cur + 2), cur + 1, cur + 2)
    /\ Dropped /\ UNCHANGED kind
\* yyjson_mut_obj_add_val: the second of the two cells is not used.
AddVal(k, v) ==
    /\ kind = "obj" /\ cur + 2 <= Cells
    /\ cur' = cur + 2 /\ r' = ObjAdd(Made(r, cur + 1, k), cur + 1, v)
    /\ Dropped /\ UNCHANGED kind

-----------------------------------------------------------------------------
Iterate == it' = IterInit(r) /\ place' = 0 /\ plain' = TRUE /\ UNCHANGED <<kind, r, cur>>

\* n members on from its place, around the end if need be.
Onward(n) == IF place + n > it.max THEN place + n - it.max ELSE place + n

IterNext ==
    /\ it.idx < it.max
    /\ it' = IF kind = "arr" THEN ArrIterNext(r, it) ELSE ObjIterNext(r, it)
    /\ place' = Onward(1) /\ UNCHANGED <<kind, r, cur, plain>>

IterRemove ==
    /\ 0 < it.idx /\ it.idx <= it.max
    /\ IF kind = "arr" THEN r' = ArrUnlink(r, it) ELSE r' = ObjUnlink(r, it)
    /\ it' = IF kind = "arr" THEN ArrIterRemove(r, it) ELSE ObjIterRemove(r, it)
    /\ place' = (IF place = it.max THEN 1 ELSE place) /\ plain' = FALSE
    /\ UNCHANGED <<kind, cur>>

\* Where uni.ptr is moved if and only if it has to be: idx is max at the last
\* member, and elsewhere only at the first, whose predecessor is uni.ptr.
IdxTells == /\ place = it.max => it.idx = it.max
            /\ it.idx = it.max => place \in {1, it.max}

\* yyjson_mut_obj_iter_getn, on an iterator that has not been memset to 0.
IterGet(k) ==
    /\ kind = "obj" /\ it.max > 0
    /\ it' = ObjIterGet(r, it, k)
    /\ IF it'.idx < it.idx
       THEN place' = Onward(it'.idx - it.idx + it.max + 1) /\ plain' = FALSE
       ELSE place' = Onward(it'.idx - it.idx) /\ UNCHANGED plain
    /\ UNCHANGED <<kind, r, cur>>

-----------------------------------------------------------------------------
Index == 0..(IF kind = "arr" THEN ArrCells - 1 ELSE ObjCells \div 2)

ArrNext ==
    \/ \E v \in LooseVal, i \in Index : Insert(v, i) \/ Replace(i, v)
    \/ \E v \in LooseVal \cup {NULL} : AppendVal(v) \/ Prepend(v)
    \/ \E i \in Index : Remove(i) \/ Rotate(i) \/ \E n \in Index : RemoveRange(i, n)
    \/ RemoveFirst \/ RemoveLast \/ Clear \/ AddNew

ObjNext ==
    \/ \E k \in LooseKey, v \in LooseVal :
         Add(k, v) \/ ReplacePair(k, v) \/ \E i \in Index : InsertPair(k, v, i)
    \/ \E k \in LooseKey, v \in LooseVal \cup {NULL} : Put(k, v)
    \/ \E k \in Keys : RemoveKey(k) \/ AddNewPair(k) \/ IterGet(k)
    \/ \E k \in Keys : (Careful => Once(k)) /\ RemoveStr(k)
    \/ \E k \in Keys, v \in LooseVal : AddVal(k, v)
    \/ \E i \in Index : RotateObj(i)
    \/ ClearObj \/ \E k \in Keys : NewKey(k)

Next == \/ ArrNext \/ ObjNext \/ NewVal \/ Iterate \/ IterNext
        \/ (Careful => IdxTells) /\ IterRemove

Spec == Init /\ [][Next]_vars

-----------------------------------------------------------------------------
(* Properties *)

Contents == IF kind = "arr" THEN Elements(r) ELSE Pairs(r)

S == INSTANCE YySequence WITH seq <- Contents

Pair(k, v) == <<r.is[k], r.is[v]>>

\* From ptr the ring comes back to ptr after as many cells as the length says,
\* all of them different, and the keys of an object are at every other cell:
\* what every function of yyjson.h:2963-4150 takes for granted.
RingShape ==
    /\ cur \in Cell /\ r.len \in 0..Cells - 1
    /\ r.len > 0 => /\ r.ptr \in 2..cur /\ Hop(r, r.ptr, Size) = r.ptr
                    /\ Cardinality(InRing) = Size
    /\ kind = "obj" => \A i \in 1..r.len : KeyOf(i) \in Keys

\* An index out of range, a value of NULL: nothing.
ArrTold ==
    /\ \A v \in LooseVal, i \in Index :
         /\ Insert(v, i)  => IF i <= r.len THEN S!Insert(r.is[v], i) ELSE S!Keep
         /\ Replace(i, v) => IF i < r.len THEN S!Replace(i, r.is[v]) ELSE S!Keep
    /\ \A v \in LooseVal : /\ AppendVal(v) => S!Add(r.is[v])
                           /\ Prepend(v)   => S!Insert(r.is[v], 0)
    /\ AppendVal(NULL) \/ Prepend(NULL) => S!Keep
    /\ \A i \in Index :
         /\ Remove(i) => IF i < r.len THEN S!RemoveMember(i) ELSE S!Keep
         /\ Rotate(i) => IF i < r.len THEN S!Rotate(i) ELSE S!Keep
         /\ \A n \in Index : RemoveRange(i, n) =>
                IF i + n <= r.len THEN S!RemoveRange(i, n) ELSE S!Keep
    /\ RemoveFirst => IF r.len > 0 THEN S!RemoveMember(0) ELSE S!Keep
    /\ RemoveLast  => IF r.len > 0 THEN S!RemoveMember(r.len - 1) ELSE S!Keep
    /\ Clear => S!Clear
    /\ AddNew => S!Add(cur')

ObjTold ==
    /\ \A k \in LooseKey, v \in LooseVal :
         /\ Add(k, v) => S!Add(Pair(k, v))
         /\ Put(k, v) => S!Put(Pair(k, v))
         /\ ReplacePair(k, v) => S!ReplaceKey(Pair(k, v))
         /\ \A i \in Index : InsertPair(k, v, i) =>
                IF i <= r.len THEN S!Insert(Pair(k, v), i) ELSE S!Keep
    /\ \A k \in LooseKey : Put(k, NULL) => S!RemoveKey(r.is[k])
    /\ \A k \in Keys : /\ RemoveKey(k) => S!RemoveKey(k)
                       /\ Once(k) /\ RemoveStr(k) => S!RemoveKey(k)
                       /\ AddNewPair(k) => S!Add(<<k, cur'>>)
                       /\ \A v \in LooseVal : AddVal(k, v) => S!Add(<<k, r.is[v]>>)
    /\ \A i \in Index : RotateObj(i) => IF i < r.len THEN S!Rotate(i) ELSE S!Keep
    /\ ClearObj => S!Clear

\* Every function does to the sequence of members what its name says
\* (yyjson.h:3247-3449, 3809-3973), remove_str as long as the key occurs once at
\* most (4131-4150), iter_remove where idx tells (3036-3050, 3679-3693).
Contract ==
    [][ vars' # vars =>
        /\ ArrTold /\ ObjTold
        /\ IdxTells /\ IterRemove => S!RemoveMember(place - 1)
        /\ NewVal \/ Iterate \/ IterNext => S!Keep ]_vars

\* What yyjson.h:1997-2004 says of remove_str: "Removes all key-value pairs for
\* the given key."
RemovesAll ==
    [][ \A k \in Keys : RemoveStr(k) => \A i \in 1..r'.len : KeyOf(i)' # k ]_vars

\* While an iterator has members left, the next it will return is the one
\* behind the member it stands at.  A plain one has passed as many as idx says:
\* none is skipped, none returned twice.  One that removes then stands at the
\* member that follows, which it will not return, as the loop of
\* yyjson.h:1458-1465 does not (yyjson.h:3024-3051, 3662-3694, 3701-3722).
IterAhead ==
    it.idx < it.max =>
        /\ it.max = r.len
        /\ plain => place = it.idx
        /\ LET ahead == IF place = r.len THEN 1 ELSE place + 1
           IN  IF kind = "arr" THEN r.is[Next1(r, it.cur)] = Contents[ahead]
               ELSE Next2(r, it.cur) = Hop(r, r.ptr, 2 * ahead)

\* The functions that read give the member they name, a key that occurs
\* several times its first value (yyjson.h:2967-2990, 3613-3628).
Reads ==
    LET what(c) == IF c = NULL THEN NULL ELSE r.is[c]
        at(i)   == IF i \in DOMAIN Contents THEN Contents[i] ELSE NULL
    IN  IF kind = "arr"
        THEN /\ \A i \in Index : what(ArrGet(r, i)) = at(i + 1)
             /\ what(ArrGetFirst(r)) = at(1) /\ what(ArrGetLast(r)) = at(r.len)
        ELSE \A k \in Keys :
               LET hits == {i \in 1..r.len : Contents[i][1] = k}
               IN  what(ObjGet(r, k)) =
                     IF hits = {} THEN NULL
                     ELSE Contents[CHOOSE i \in hits : \A j \in hits : i <= j][2]

=============================================================================
