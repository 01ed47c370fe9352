---------------------------- MODULE BecoObjects -----------------------------
(***************************************************************************)
(* The data structures of beco (beco.c:434-517, 597-774) as memory: every  *)
(* block of theirs, and what BecoRead and BecoWrite leave behind, who      *)
(* points to it, and what the functions that free give back.  The caller   *)
(* is a program that builds objects, as examples/simple/main.c does, and a *)
(* handler that is given a request and writes an answer.                   *)
(* A function that frees calls others, and those call it: the calls it has *)
(* still to make are in calls, and a step makes one of them.               *)
(*                                                                         *)
(* Blocks have addresses 1..Blocks, given out in order and never again, so *)
(* that a second free of a block can be seen.  What a number or a string   *)
(* says, and the keys of a map, are abstract.  The key of a BecoKV and the *)
(* command of a request are blocks as well, of which nobody else has the   *)
(* address: they are kept with their owner.  So is the entry of a map with *)
(* its BecoKV, though the BecoKV outlives it.  The table of a map stands   *)
(* for the two blocks uthash allocates for the first entry, the table and  *)
(* its buckets; they list the entries, and the map points to them, in the  *)
(* code by way of the first entry.  The two documents of yyjson and the    *)
(* text that is logged are freed by the function that makes them, and are  *)
(* left out; the context and its commands are module BecoHost's.           *)
(*                                                                         *)
(* beco.h leaves rules to its callers that it does not state.  Rules are   *)
(* the ones the caller keeps:                                              *)
(*   "give"  an object given to a container, a BecoKV or a request is not  *)
(*           used by its giver any more;                                   *)
(*   "fill"  every slot of an array is set before the array is freed;      *)
(*   "once"  no slot, member or field is set twice;                        *)
(*   "dup"   only an object that is no container is duplicated.            *)
(***************************************************************************)
EXTENDS BecoToJson, FiniteSets, SequencesExt

CONSTANTS Blocks,  \* bound of the model: blocks that can be allocated
          Reserve, \* bound of the model: blocks more for what a request brings
          MaxHeld, \* bound of the model: pointers the caller has at a time
          MaxSize, \* bound of the model: members of a container
          Rules    \* the rules the caller keeps

ASSUME BoundsAssumption == {Blocks, Reserve, MaxHeld, MaxSize} \subseteq Nat
ASSUME RulesAssumption == Rules \subseteq {"give", "fill", "once", "dup"}

VARIABLES heap,  \* what every block allocated holds
          wild,  \* a block was freed, or read by a free, that is not allocated
          app,   \* the pointers of the caller
          calls  \* the calls that the free in progress has still to make

vars == <<heap, wild, app, calls>>

Dead == [kind |-> "dead"]
Str  == [kind |-> "str"]
Frame == [kind |-> "frame"]  \* the bytes of a message, as read or to be written
None == [kind |-> "none"]  \* no key, no command
Block == DOMAIN heap
OfKind(k) == {c \in Block : heap[c].kind = k}
Held(k) == app \cap OfKind(k)

\* A call frees what is called of, at the address on; a "block" is free(3)'s.
Call(of, on) == [of |-> of, on |-> on]
Called == {calls[i].on : i \in DOMAIN calls}
Entered(c) == \E i \in DOMAIN calls : calls[i].of = "block" /\ calls[i].on = c

\* The pointers in a block.
Fields(b) ==
    CASE b.kind = "obj"   -> <<b.via>>
      [] b.kind = "map"   -> <<b.table>>
      [] b.kind = "table" -> b.entries
      [] b.kind = "kv"    -> <<b.value>>
      [] b.kind = "array" -> <<b.ptr>>
      [] b.kind = "slots" -> b.at
      [] b.kind = "req"   -> <<b.data>>
      [] b.kind \in {"str", "frame", "dead"} -> <<>>

\* Those that are still c's: when it is being freed the calls have got them.
Pointers(c) == IF Entered(c) THEN <<>> ELSE Fields(heap[c])
Edges == UNION {{c} \X (Range(Pointers(c)) \cap Block) : c \in Block}

\* Those of n blocks that edges lead to from roots.
Spread(edges, n, roots) ==
    LET from[i \in 0..n] ==
            IF i = 0 THEN roots \cap (1..n)
            ELSE LET seen == from[i - 1]
                 IN  seen \cup {e[2] : e \in {x \in edges : x[1] \in seen}}
    IN  from[n]

Reach(roots) == Spread(Edges, Len(heap), roots)

\* What somebody has the address of: the caller, or the free in progress.
Roots == app \cup Called

-----------------------------------------------------------------------------
(* The functions that free.  Each makes its calls before what was to come. *)

Alive(c) == c \in Block /\ heap[c] # Dead
Runs(of) == calls # <<>> /\ Head(calls).of = of /\ Alive(Head(calls).on)
Then(more) == calls' = more \o Tail(calls)

\* The call returns at once for NULL; for anything else that is not allocated
\* what happens is undefined.
Return ==
    /\ calls # <<>> /\ ~Alive(Head(calls).on)
    /\ wild' = (wild \/ Head(calls).on # NULL)
    /\ Then(<<>>) /\ UNCHANGED <<heap, app>>

BlockFree ==
    /\ Runs("block")
    /\ heap' = [heap EXCEPT ![Head(calls).on] = Dead]
    /\ Then(<<>>) /\ UNCHANGED <<wild, app>>

\* What frees the value of each type that has one to free.
ViaFree == [STR |-> "block", MAP |-> "map", ARRAY |-> "array"]

ObjectFree ==
    /\ Runs("obj")
    /\ LET obj  == Head(calls).on
           type == heap[obj].type
       IN  \/ /\ type \in DOMAIN ViaFree
              /\ Then(<<Call(ViaFree[type], heap[obj].via), Call("block", obj)>>)
              /\ UNCHANGED heap
           \/ /\ type \notin DOMAIN ViaFree
              /\ heap' = [heap EXCEPT ![obj] = Dead]
              /\ Then(<<>>)
    /\ UNCHANGED <<wild, app>>

\* The BecoKV itself is not freed.
KVFree ==
    /\ Runs("kv")
    /\ LET kv == Head(calls).on
       IN  /\ wild' = (wild \/ heap[kv].key = Dead)
           /\ heap' = [heap EXCEPT ![kv].key = IF @ = Str THEN Dead ELSE @]
           /\ Then(<<Call("obj", heap[kv].value)>>)
    /\ UNCHANGED app

\* Mutant: the entries are left to the caller.
MapFreeShallow ==
    /\ Runs("map")
    /\ Then(<<Call("block", Head(calls).on)>>)
    /\ UNCHANGED <<heap, wild, app>>

\* No entry is deleted from the table, so that the table is not freed.  The
\* entries are; here all are at once, since nobody looks at them before.
MapFree ==
    /\ Runs("map")
    /\ LET map     == Head(calls).on
           table   == heap[map].table
           entries == heap[table].entries
       IN  \/ table = NULL /\ Then(<<Call("block", map)>>) /\ UNCHANGED heap
           \/ /\ table # NULL
              /\ heap' = [heap EXCEPT ![table].entries = <<>>]
              /\ Then([i \in DOMAIN entries |-> Call("kv", entries[i])] \o <<Call("block", map)>>)
    /\ UNCHANGED <<wild, app>>

\* The block of the slots is not freed.  Each slot is set to NULL when its object
\* has been freed; here all are at once, since nobody looks at them before.
ArrayFree ==
    /\ Runs("array")
    /\ LET array == Head(calls).on
           slots == heap[array].ptr
           at    == heap[slots].at
       IN  /\ heap' = [heap EXCEPT ![slots].at = [i \in DOMAIN at |-> NULL]]
           /\ Then([i \in DOMAIN at |-> Call("obj", at[i])] \o <<Call("block", array)>>)
    /\ UNCHANGED <<wild, app>>

\* BecoRequestDestroy, and the request's own block, which is on the heap, or on
\* the stack of BecoNext.
RequestFree ==
    /\ Runs("req")
    /\ LET req == Head(calls).on
       IN  /\ heap' = [heap EXCEPT ![req].cmd = IF @ = Str THEN Dead ELSE @]
           /\ Then(<<Call("obj", heap[req].data), Call("block", req)>>)
    /\ UNCHANGED <<wild, app>>

-----------------------------------------------------------------------------
(* What the caller keeps in memory. *)

\* Blocks are allocated behind those there are.
Next1st == Len(heap) + 1
Fits(n) == Len(heap) + n <= Blocks
Hold == Cardinality(app) < MaxHeld /\ app' = app \cup {Next1st}
Alloc(blocks) == heap' = heap \o blocks /\ UNCHANGED <<wild, calls>>

Obj(type, via) == [kind |-> "obj", type |-> type, via |-> via]
KV(key, value) == [kind |-> "kv", key |-> key, value |-> value]
Map(table) == [kind |-> "map", table |-> table]
Table(entries) == [kind |-> "table", entries |-> entries]
Entries(map) == IF heap[map].table = NULL THEN <<>> ELSE heap[heap[map].table].entries
Container == {"MAP", "ARRAY"}

-----------------------------------------------------------------------------
(* The functions of beco.h, and what the examples do with the structures.  *)

\* BecoObjectNew, and the type and value set by hand.  A string is strdup'ed;
\* a map or an array may be forgotten.
NewObject ==
    /\ \E type \in {"INTEGER", "MAP"} : Fits(1) /\ Alloc(<<Obj(type, NULL)>>)
    /\ Hold

NewString ==
    /\ Fits(2) /\ Alloc(<<Obj("STR", Next1st + 1), Str>>)
    /\ Hold

NewMap ==
    /\ Fits(1) /\ Alloc(<<Map(NULL)>>)
    /\ Hold

NewArray ==
    /\ \E size \in 0..MaxSize :
          Fits(2) /\ Alloc(<<[kind |-> "array", ptr |-> Next1st + 1],
                             [kind |-> "slots", at |-> [i \in 1..size |-> Garbage]]>>)
    /\ Hold

NewKV ==
    /\ Fits(1) /\ Alloc(<<KV(None, NULL)>>)
    /\ Hold

\* BecoRequestNew, or BecoRequestInit of one on the stack.
NewRequest ==
    /\ Fits(1) /\ Alloc(<<[kind |-> "req", cmd |-> None, data |-> NULL]>>)
    /\ Hold

\* MAP of examples/simple/main.c, and the same for an array.
Wrap ==
    /\ Fits(1)
    /\ \E c \in Held("map") \cup Held("array") :
          /\ Alloc(<<Obj(IF heap[c].kind = "map" THEN "MAP" ELSE "ARRAY", c)>>)
          /\ app' = (app \ {c}) \cup {Next1st}

Given(obj) == IF "give" \in Rules THEN app \ {obj} ELSE app

\* The first entry brings the table.
MapPut ==
    \E map \in Held("map"), obj \in Held("obj") \cup {NULL} :
        LET table == heap[map].table
        IN  /\ Len(Entries(map)) < MaxSize
            /\ \/ /\ table = NULL /\ Fits(2)
                  /\ heap' = [heap EXCEPT ![map].table = Next1st]
                             \o <<Table(<<Next1st + 1>>), KV(Str, obj)>>
               \/ /\ table # NULL /\ Fits(1)
                  /\ heap' = [heap EXCEPT ![table].entries = Append(@, Next1st)] \o <<KV(Str, obj)>>
        /\ app' = Given(obj)
        /\ UNCHANGED <<wild, calls>>

\* Beyond the end nothing happens, and obj is still the caller's.
ArrayAdd ==
    \E array \in Held("array"), pos \in 0..MaxSize, obj \in Held("obj") \cup {NULL} :
        LET slots == heap[array].ptr
            in    == pos < Len(heap[slots].at)
        IN  /\ "once" \in Rules /\ in => heap[slots].at[pos + 1] = Garbage
            /\ heap' = IF in THEN [heap EXCEPT ![slots].at[pos + 1] = obj] ELSE heap
            /\ app' = IF in THEN Given(obj) ELSE app
            /\ UNCHANGED <<wild, calls>>

KVSetKey ==
    \E kv \in Held("kv") :
        /\ "once" \in Rules => heap[kv].key = None
        /\ heap' = [heap EXCEPT ![kv].key = Str]
        /\ UNCHANGED <<wild, app, calls>>

KVSetValue ==
    \E kv \in Held("kv"), obj \in Held("obj") :
        /\ "once" \in Rules => heap[kv].value = NULL
        /\ heap' = [heap EXCEPT ![kv].value = obj]
        /\ app' = Given(obj)
        /\ UNCHANGED <<wild, calls>>

RequestSetCommand ==
    \E req \in Held("req") :
        /\ "once" \in Rules => heap[req].cmd = None
        /\ heap' = [heap EXCEPT ![req].cmd = Str]
        /\ UNCHANGED <<wild, app, calls>>

RequestSetData ==
    \E req \in Held("req"), obj \in Held("obj") :
        /\ "once" \in Rules => heap[req].data = NULL
        /\ heap' = [heap EXCEPT ![req].data = obj]
        /\ app' = Given(obj)
        /\ UNCHANGED <<wild, calls>>

\* Mutant: the string shared like a map or an array.
DuplicateShared(obj) == <<heap[obj]>>

\* What BecoObjectDup allocates, the copy first.  recursive is not looked at.
Duplicate(obj) ==
    IF heap[obj].type = "STR" THEN <<Obj("STR", Next1st + 1), Str>> ELSE <<heap[obj]>>

\* An object the caller holds, or one in a request it was given.
ObjectDup ==
    \E obj \in Held("obj") \cup {heap[req].data : req \in Held("req")} :
        /\ obj # NULL
        /\ "dup" \in Rules => heap[obj].type \notin Container
        /\ Fits(Len(Duplicate(obj))) /\ Alloc(Duplicate(obj))
        /\ Hold

\* BecoRead: the data BecoReadRaw has read, to which nobody has a pointer
\* afterwards, JsonToObj of the document into the request, and a copy of the
\* command.  A document is a string, an array of numbers, or an object with one
\* member, which is a number, or a string and then the command or not.
Receive ==
    \E req \in Held("req"), tagged \in BOOLEAN, size \in 0..MaxSize :
        LET n      == Next1st
            object == <<Obj("MAP", n + 1), Map(n + 2), Table(<<n + 3>>), KV(Str, n + 4)>>
        IN  \E data \in {<<Obj("STR", n + 1), Str>>,
                         <<Obj("ARRAY", n + 1), [kind |-> "array", ptr |-> n + 2],
                           [kind |-> "slots", at |-> [i \in 1..size |-> n + 2 + i]]>>
                         \o [i \in 1..size |-> Obj("INTEGER", NULL)],
                         object \o <<Obj("INTEGER", NULL)>>,
                         object \o <<Obj("STR", n + 5), Str>>} :
            /\ heap[req].data = NULL /\ heap[req].cmd = None
            /\ tagged => data = object \o <<Obj("STR", n + 5), Str>>
            /\ Len(heap) + Len(data) + 1 <= Blocks + Reserve
            /\ heap' = [heap EXCEPT ![req].data = n,
                                    ![req].cmd = IF tagged THEN Str ELSE None] \o data \o <<Frame>>
            /\ UNCHANGED <<wild, app, calls>>

\* BecoRead of data that is no JSON, and BecoWrite of the text BecoObjectDumpJson
\* makes of an object: of what is allocated nobody has a pointer afterwards.
Forget == Fits(1) /\ Alloc(<<Frame>>) /\ UNCHANGED app
Refuse == Held("req") # {} /\ Forget
Write == Held("obj") # {} /\ Forget

\* The slots that can be reached from c are all set.
Full(c) == "fill" \in Rules =>
               \A s \in Reach({c}) : heap[s].kind = "slots" => Garbage \notin Range(heap[s].at)

\* The caller frees something it has, with the function for it.
Release ==
    \E c \in app \ OfKind("dead") :
        /\ Full(c)
        /\ calls' = <<Call(heap[c].kind, c)>>
        /\ app' = app \ {c}
        /\ UNCHANGED <<heap, wild>>

\* A member as BecoToJson sees it, i being its place.
Member(obj, i) ==
    IF obj \in {NULL, Garbage} THEN obj
    ELSE IF heap[obj].type \in Container \cup {"STR"} /\ heap[obj].via = NULL THEN Void ELSE i

\* What BecoObjectDumpJson writes of a container: its members, and those that
\* are written.
Members(obj) ==
    LET via    == heap[heap[obj].via]
        entries == Entries(heap[obj].via)
        values == IF via.kind = "array" THEN heap[via.ptr].at
                  ELSE [i \in DOMAIN entries |-> heap[entries[i]].value]
    IN  [i \in DOMAIN values |-> Member(values[i], i)]

Written(obj) ==
    IF heap[obj].type = "ARRAY" THEN ArrToJson(Members(obj))
    ELSE [i \in DOMAIN MapToJson(Members(obj)) |-> MapToJson(Members(obj))[i][2]]

\* Every slot is set; of a map, whose vv starts uninitialised, the first value
\* is not NULL.
Sendable(obj) ==
    /\ heap[obj].type \in Container /\ heap[obj].via # NULL
    /\ Garbage \notin Range(Members(obj))
    /\ heap[obj].type = "MAP" /\ Members(obj) # <<>> => Members(obj)[1] # NULL

-----------------------------------------------------------------------------
Init == heap = <<>> /\ wild = FALSE /\ app = {} /\ calls = <<>>

\* What the caller does, while no free is in progress.
Build == \/ NewObject \/ NewString \/ NewMap \/ NewArray \/ NewKV \/ NewRequest \/ Wrap
         \/ MapPut \/ ArrayAdd \/ KVSetKey \/ KVSetValue
         \/ RequestSetCommand \/ RequestSetData \/ Receive \/ Refuse \/ Write \/ ObjectDup \/ Release

Next == \/ calls = <<>> /\ Build
        \/ Return \/ BlockFree \/ ObjectFree \/ KVFree \/ MapFree \/ ArrayFree \/ RequestFree

Spec == Init /\ [][Next]_vars

-----------------------------------------------------------------------------
(* Properties *)

\* No function that frees meets a pointer that is dangling or was never set: the
\* recursion through BecoMapFree and BecoArrayFree frees every block once; and
\* nothing the caller can still reach has been freed (beco.c:461-465, 639-664,
\* 706-764).
NoDangling == ~wild /\ \A c \in Reach(Roots) : heap[c] # Dead

\* A block is pointed to from one place only: beco.h:372 says of a copy that it
\* is deep, and beco.h:378 of a free that it is recursive, so a block with two
\* owners is freed twice (beco.c:628, 632).
OneOwner ==
    LET held == Reach(Roots)
        own  == {e \in Edges : e[1] \in held}
    IN  /\ \A e, f \in own : e[2] = f[2] => e = f
        /\ \A e \in own : e[2] \notin Roots

\* What the caller can no longer reach is freed, except for the blocks that no
\* function of beco.c frees: a BecoKV, without its key, the table of a map, the
\* slots of an array, and the bytes of a message that was read or written
\* (beco.c:252-331, 706-714, 740-751, 760-764).
KnownLeaks ==
    \A c \in Block \ Reach(Roots) :
        \/ heap[c].kind \in {"dead", "slots", "table", "frame"}
        \/ heap[c].kind = "kv" /\ heap[c].key # Str

\* A container with missing members is written with a member for each that has
\* a value, or NULL in its place after one that had: the members are those that
\* have values, from the first again when they run out (beco.c:1019, 1040).
NullsWrap ==
    \A obj \in Held("obj") :
        ~wild /\ Sendable(obj) =>
        LET members == Members(obj)
            written == Written(obj)
            values  == SelectSeq(members, LAMBDA v : v > 0)
            last(i) == LET set == {j \in 1..i : members[j] # NULL}
                       IN  IF set = {} THEN Void
                           ELSE members[CHOOSE j \in set : \A k \in set : k <= j]
        IN  /\ Len(written) = Cardinality({i \in DOMAIN members : last(i) # Void})
            /\ \A i \in DOMAIN written : written[i] = values[((i - 1) % Len(values)) + 1]

=============================================================================
