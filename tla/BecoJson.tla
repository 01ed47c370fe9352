------------------------------ MODULE BecoJson ------------------------------
(***************************************************************************)
(* The conversions between JSON and BecoObject (beco.c:795-1046), seen     *)
(* along the path of a document: BecoRead makes an object of it, a handler *)
(* reads the object and adds members to it, BecoWrite makes a document of  *)
(* it again, which the next host may read.                                 *)
(*                                                                         *)
(* A JSON value is a record [json |-> kind, ...]: numbers keep the         *)
(* subtype yyjson gives them ("uint", "sint" for negative integers,        *)
(* "real"), a string is the sequence of its pieces between NUL characters, *)
(* arrays are sequences, objects are sequences of members in document      *)
(* order, duplicates included.  A BecoObject is a record                   *)
(* [type |-> BECO_VALUE_TYPE_..., ...] whose map keeps its entries in the  *)
(* order they were put.  Integers have Width values.                       *)
(***************************************************************************)
EXTENDS Integers, Sequences, SequencesExt

CONSTANTS Docs,       \* JSON documents that arrive
          Additions,  \* BecoObjects a handler puts in a map
          Command,    \* the key "command", without NUL
          Width,      \* 2^64
          NoCmd,      \* cmd_name = NULL
          MaxHops,    \* bound of the model: conversions to text
          MaxPuts     \* bound of the model: members added in one host

ASSUME WidthAssumption == Width \in Nat /\ Width % 2 = 0

VARIABLES pc,     \* "wire": the document is text; "host": it is an object
          text, obj,
          cmd,    \* the request's command
          want,   \* history: what the document should be, given what is lost
          hops, puts

vars == <<pc, text, obj, cmd, want, hops, puts>>

-----------------------------------------------------------------------------
\* strdup, strlen: a C string ends at the first NUL.
CString(s) == <<Head(s)>>

Unsigned(n) == n % Width
Signed(u) == IF u < Width \div 2 THEN u ELSE u - Width

-----------------------------------------------------------------------------
(* JSON to object *)

\* Mutant: the number read by yyjson_get_int, which has half the bits.
ReadNumberNarrow(v) ==
    [type |-> "POSITIVE_INTEGER",
     u64 |-> IF v.json = "real" THEN 0 ELSE Unsigned(v.n) % (Width \div 4)]

\* yyjson_get_type has masked the subtype away, so sub_type is always UINT:
\* yyjson_get_uint takes the 64 bits of an integer, and 0 for a real.
ReadNumber(v) ==
    [type |-> "POSITIVE_INTEGER",
     u64 |-> IF v.json = "real" THEN 0 ELSE Unsigned(v.n)]

RECURSIVE JsonToObj(_)
JsonToArr(items) == [i \in DOMAIN items |-> JsonToObj(items[i])]
JsonToMap(members) ==
    [i \in DOMAIN members |-> [key |-> CString(members[i].key),
                               value |-> JsonToObj(members[i].value)]]
JsonToObj(v) ==
    CASE v.json = "null"                    -> [type |-> "NONE"]
      [] v.json = "bool"                    -> [type |-> "BOOL", bool |-> v.b]
      [] v.json \in {"uint", "sint", "real"} -> ReadNumber(v)
      [] v.json = "str"                     -> [type |-> "STR", str |-> CString(v.s)]
      [] v.json = "arr"                     -> [type |-> "ARRAY", array |-> JsonToArr(v.items)]
      [] v.json = "obj"                     -> [type |-> "MAP", map |-> JsonToMap(v.members)]

-----------------------------------------------------------------------------
(* Object to JSON *)

\* A non-negative integer is the same text whatever its type.
Integer(n) == IF n >= 0 THEN [json |-> "uint", n |-> n] ELSE [json |-> "sint", n |-> n]

RECURSIVE ObjToJson(_)

\* Mutant: the last element forgotten.
ArrToJsonShort(elements) ==
    [json |-> "arr", items |-> [i \in 1..Len(elements) - 1 |-> ObjToJson(elements[i])]]

ArrToJson(elements) ==
    [json |-> "arr", items |-> [i \in DOMAIN elements |-> ObjToJson(elements[i])]]
MapToJson(entries) ==
    [json |-> "obj",
     members |-> [i \in DOMAIN entries |->
                    [key |-> entries[i].key, value |-> ObjToJson(entries[i].value)]]]
ObjToJson(o) ==
    CASE o.type = "NONE"             -> [json |-> "null"]
      [] o.type = "BOOL"             -> [json |-> "bool", b |-> o.bool]
      [] o.type = "INTEGER"          -> Integer(o.i64)
      [] o.type = "POSITIVE_INTEGER" -> Integer(o.u64)
      [] o.type = "DOUBLE"           -> [json |-> "real", r |-> o.f64]
      [] o.type = "STR"              -> [json |-> "str", s |-> o.str]
      [] o.type = "ARRAY"            -> ArrToJson(o.array)
      [] o.type = "MAP"              -> MapToJson(o.map)

-----------------------------------------------------------------------------
(* What a handler sees *)

Keyed(s, k) == {i \in DOMAIN s : s[i].key = k}
Lowest(S)  == CHOOSE i \in S : \A j \in S : i <= j
Highest(S) == CHOOSE i \in S : \A j \in S : j <= i

\* BecoMapGet: of the entries with the same key, the one put last.
MapGet(map, k) == map[Highest(Keyed(map, k))].value

\* The union's 64 bits read as a signed integer, whatever their type.
GetInt64(o) == IF o.type = "INTEGER" THEN o.i64 ELSE Signed(o.u64)

\* Mutant: the first member taken for the command, whatever its key.
CommandOfFirst(v) ==
    IF v.json = "obj" /\ v.members # <<>> /\ v.members[1].value.json = "str"
    THEN CString(v.members[1].value.s) ELSE NoCmd

\* yyjson_obj_get finds the first member of that name, yyjson_get_str is NULL
\* unless it is a string, and a root that is no object has no members.
CommandOf(v) ==
    IF v.json = "obj" /\ Keyed(v.members, Command) # {}
    THEN LET c == v.members[Lowest(Keyed(v.members, Command))].value
         IN  IF c.json = "str" THEN CString(c.s) ELSE NoCmd
    ELSE NoCmd

-----------------------------------------------------------------------------
(* Reference: what a reading loses of a document *)

RECURSIVE Collapse(_)
Collapse(v) ==
    CASE v.json = "sint" -> [json |-> "uint", n |-> v.n + Width]
      [] v.json = "real" -> [json |-> "uint", n |-> 0]
      [] v.json = "str"  -> [v EXCEPT !.s = CString(@)]
      [] v.json = "arr"  -> [v EXCEPT !.items = [i \in DOMAIN @ |-> Collapse(@[i])]]
      [] v.json = "obj"  -> [v EXCEPT !.members =
                                [i \in DOMAIN @ |-> [@[i] EXCEPT !.key = CString(@),
                                                         !.value = Collapse(@)]]]
      [] OTHER           -> v

\* The integers of a document, and of an object, from left to right.
RECURSIVE Ints(_)
Ints(v) ==
    CASE v.json \in {"uint", "sint"} -> <<v.n>>
      [] v.json = "real"  -> <<0>>
      [] v.json = "arr"   -> FlattenSeq([i \in DOMAIN v.items |-> Ints(v.items[i])])
      [] v.json = "obj"   -> FlattenSeq([i \in DOMAIN v.members |-> Ints(v.members[i].value)])
      [] OTHER            -> <<>>

RECURSIVE ObjInts(_)
ObjInts(o) ==
    CASE o.type \in {"INTEGER", "POSITIVE_INTEGER"} -> <<GetInt64(o)>>
      [] o.type = "ARRAY" -> FlattenSeq([i \in DOMAIN o.array |-> ObjInts(o.array[i])])
      [] o.type = "MAP"   -> FlattenSeq([i \in DOMAIN o.map |-> ObjInts(o.map[i].value)])
      [] OTHER            -> <<>>

-----------------------------------------------------------------------------
Init ==
    /\ pc = "wire" /\ text \in Docs /\ want = text
    /\ obj = [type |-> "NONE"] /\ cmd = NoCmd
    /\ hops = 0 /\ puts = 0

\* BecoRead
Read ==
    /\ pc = "wire" /\ pc' = "host"
    /\ obj' = JsonToObj(text) /\ cmd' = CommandOf(text)
    /\ want' = Collapse(want) /\ puts' = 0
    /\ UNCHANGED <<text, hops>>

\* The handler calls BecoMapPut on the request's map.
Put(k, o) ==
    /\ pc = "host" /\ obj.type = "MAP" /\ puts < MaxPuts
    /\ obj' = [obj EXCEPT !.map = Append(@, [key |-> k, value |-> o])]
    /\ want' = [want EXCEPT !.members = Append(@, [key |-> k, value |-> ObjToJson(o)])]
    /\ puts' = puts + 1
    /\ UNCHANGED <<pc, text, cmd, hops>>

\* BecoWrite, through BecoObjectDumpJson.
Write ==
    /\ pc = "host" /\ hops < MaxHops
    /\ pc' = "wire" /\ text' = ObjToJson(obj) /\ hops' = hops + 1
    /\ UNCHANGED <<obj, cmd, want, puts>>

Keys == {Command, <<"other">>}

Next == Read \/ Write \/ \E k \in Keys, o \in Additions : Put(k, o)

Spec == Init /\ [][Next]_vars

-----------------------------------------------------------------------------
(* Properties *)

\* Passing through hosts changes a document by nothing but what the handlers
\* add and what each reading does to negative integers, to reals and to strings
\* with a NUL: order, duplicate keys and nesting survive (beco.c:795-1046).
OnlyKnownLosses ==
    IF pc = "wire" THEN text = want ELSE ObjToJson(obj) = want

\* BecoObjectGetInt64 gives the integers of the document that was read, the
\* negative ones too: the type is wrong, the 64 bits are not (beco.c:484-487,
\* 838-854).  An integer above the range of int64_t is the caller's affair.
IntsRead ==
    pc = "host" /\ puts = 0 /\ (\A i \in DOMAIN Ints(text) : Ints(text)[i] < Width \div 2)
        => ObjInts(obj) = Ints(text)

\* The command a request is dispatched by is the string its handler finds
\* under "command" in the request's data, when that key is written without NUL
\* and no key occurs twice (beco.c:285-288, 686-693).
CommandAgrees ==
    pc = "host" /\ puts = 0 /\ obj.type = "MAP" /\ Keyed(obj.map, Command) # {}
                /\ Cardinality(Keyed(obj.map, Command)) = 1
                /\ Keyed(text.members, Command) = Keyed(obj.map, Command)
        => LET o == MapGet(obj.map, Command)
           IN  cmd = IF o.type = "STR" THEN o.str ELSE NoCmd

=============================================================================
