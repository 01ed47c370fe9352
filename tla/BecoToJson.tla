----------------------------- MODULE BecoToJson -----------------------------
(***************************************************************************)
(* ArrToJson and MapToJson (beco.c:1005-1046) down to the ring of cells    *)
(* they build, for containers whose members may be missing.  A member is   *)
(*   n > 0  an object that ObjToJson makes a value of, called n here,      *)
(*   NULL   a null pointer: ObjToJson refuses it, and the loop, which does *)
(*          not look, goes on with the value it has,                       *)
(*   Void   an object of a type that needs a pointer it has not got (a map *)
(*          without BecoMap): ObjToJson succeeds with no value.            *)
(***************************************************************************)
EXTENDS YyRing

Void    == -1
Garbage == -2  \* what an uninitialised pointer holds

\* ObjToJson(member, doc, &old): the value in *out afterwards.
Converted(member, old) ==
    IF member = NULL THEN old ELSE IF member = Void THEN NULL ELSE member

EmptyRing(n) == [next |-> [v \in 1..n |-> NULL], ptr |-> NULL, len |-> 0,
                 is |-> [v \in 1..n |-> v]]

\* Mutant: the value forgotten before each element.
ArrToJsonFresh(members) ==
    LET add[i \in 0..Len(members)] ==
            IF i = 0 THEN EmptyRing(Len(members))
            ELSE ArrAppend(add[i - 1], Converted(members[i], NULL))
    IN  Elements(add[Len(members)])

\* What is written of an array: its members are the values 1, 2, ...
ArrToJson(members) ==
    LET ve[i \in 0..Len(members)] ==
            IF i = 0 THEN NULL ELSE Converted(members[i], ve[i - 1])
        add[i \in 0..Len(members)] ==
            IF i = 0 THEN EmptyRing(Len(members))
            ELSE LET r == add[i - 1] IN ArrAppend(r, ve[i])
    IN  Elements(add[Len(members)])

\* What is written of a map whose first value is not NULL (vv would be
\* garbage).  Key i is the cell n + i.
MapToJson(members) ==
    LET n == Len(members)
        vv[i \in 0..n] == IF i = 0 THEN Garbage ELSE Converted(members[i], vv[i - 1])
        add[i \in 0..n] ==
            IF i = 0 THEN EmptyRing(2 * n)
            ELSE LET r == add[i - 1] IN ObjAdd(r, n + i, vv[i])
        pairs == Pairs(add[n])
    IN  [i \in DOMAIN pairs |-> <<pairs[i][1] - n, pairs[i][2]>>]

=============================================================================
