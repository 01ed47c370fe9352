---------------------------- MODULE MCContainers ----------------------------
(***************************************************************************)
(* The two linked structures under beco's maps and documents, in one run:  *)
(* a state moves the ring of a mutable value, or the hash table.           *)
(***************************************************************************)
EXTENDS YyMut, UtHash, TLC

CONSTANTS k1, k2

-----------------------------------------------------------------------------
(* The ring *)

\* Two states are the same when they differ only in the next pointers of cells
\* outside the ring, in the ptr of an empty container, or in an iterator over
\* nothing: every function writes these before it reads them.
Seen ==
    LET walk[n \in 0..Size] == IF n = 0 THEN <<r.ptr>>
                               ELSE LET w == walk[n - 1] IN Append(w, r.next[w[n]])
        ring  == IF r.len = 0 THEN <<>> ELSE walk[Size]
        loose == (2..cur) \ {ring[i] : i \in DOMAIN ring}
    IN  <<kind, cur, IF it.max = 0 THEN Off ELSE <<it, place, plain>>, r.len, r.is, ring,
          {c \in loose : kind = "arr" \/ r.next[c] = NULL}>>

Alike == Permutations(Keys)

-----------------------------------------------------------------------------
(* The table *)

\* Two keys come twice.  All share a bucket until there are four buckets.
MCKey  == <<"a", "a", "b", "b", "c">>
MCHash == [a |-> 1, b |-> 3, c |-> 5]
MCRank == [a |-> 1, b |-> 2, c |-> 3]

\* Two states are the same when they differ in the pointers of items that are
\* not linked in, which every addition sets, or, once the table has grown, in
\* the order in which the items came.
LinkedIn(p) == [x \in Items |-> IF x \in In THEN p[x] ELSE Null]
SeenHash == <<[h EXCEPT !.prev = LinkedIn(@), !.next = LinkedIn(@),
                        !.hh_prev = LinkedIn(@), !.hh_next = LinkedIn(@)],
              IF h.num = InitBuckets THEN added ELSE <<>>>>

-----------------------------------------------------------------------------

VARIABLE on   \* the structure that moves; the other stays as it is at the start

MCInit == /\ Init /\ HashInit /\ on \in {"ring", "table"}
          /\ on = "table" => kind = "arr" /\ r.len = 0
MCNext == /\ \/ on = "ring" /\ Next /\ UNCHANGED hvars
             \/ on = "table" /\ HashNext /\ UNCHANGED vars
          /\ UNCHANGED on
MCSpec == MCInit /\ [][MCNext]_<<vars, hvars, on>>

SeenAll == <<on, IF on = "ring" THEN Seen ELSE SeenHash>>

=============================================================================
