----------------------------- MODULE MCBecoJson -----------------------------
(***************************************************************************)
(* Documents up to two levels deep, with integers of four bits: a scalar   *)
(* of each kind at the limits of its range, arrays and objects of up to    *)
(* two of them, keys that occur twice, strings and keys with a NUL, and    *)
(* containers in containers.                                               *)
(***************************************************************************)
EXTENDS BecoJson

U(n) == [json |-> "uint", n |-> n]
S(n) == [json |-> "sint", n |-> n]
Str(pieces) == [json |-> "str", s |-> pieces]
Arr(items) == [json |-> "arr", items |-> items]
Obj(members) == [json |-> "obj", members |-> members]
Member(k, v) == [key |-> k, value |-> v]

Scalars == {[json |-> "null"], [json |-> "bool", b |-> TRUE], U(0), U(7), S(-1), S(-8),
            [json |-> "real", r |-> "1.5"], Str(<<"a">>), Str(<<"a", "b">>)}
MCCommand == <<"command">>
MCKeys == Keys \cup {<<"command", "b">>}
SeqsUpTo2(T) == {<<>>} \cup {<<x>> : x \in T} \cup {<<x, y>> : x \in T, y \in T}
Flat == {Arr(s) : s \in SeqsUpTo2(Scalars)}
            \cup {Obj(s) : s \in SeqsUpTo2({Member(k, v) : k \in MCKeys, v \in Scalars})}
Nested == {Arr(<<v, S(-2)>>) : v \in Flat} \cup {Obj(<<Member(Command, v)>>) : v \in Flat}

MCDocs == Scalars \cup Flat \cup Nested

MCAdditions == {[type |-> "INTEGER", i64 |-> -3], [type |-> "INTEGER", i64 |-> 3],
                [type |-> "DOUBLE", f64 |-> "2.5"],
                [type |-> "ARRAY", array |-> <<[type |-> "STR", str |-> <<"b">>]>>]}

=============================================================================
